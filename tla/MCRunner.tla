------------------------------ MODULE MCRunner ------------------------------
EXTENDS SandboxRunner, TLC

CONSTANTS p, q, t1, t2, malformed, none

AllGates == <<"G2", "G3", "G4", "G5", "G6", "G7", "G8">>

Finding(r, n, l, t) == [rule |-> r, row |-> n, level |-> l, tool |-> t]
MCFindings ==
    {Finding("S1", n, "high", "ruff") : n \in {1, 2}} \cup
    {Finding("B1", 1, "high", "bandit"), Finding("E1", 1, "medium", "ruff")}

\* A good patch: every variation starts from it.
Good ==
    [gates |-> AllGates, escapes |-> {}, manifest |-> {}, clash |-> FALSE, imports |-> {},
     sound |-> TRUE, test |-> "given", family |-> "matches", needs |-> {},
     regression |-> [original |-> {"failed"}, patched |-> {"passed"}],
     suite |-> [v \in Versions |-> [t \in Tests |-> "passed"]],
     python |-> TRUE, lint |-> [v \in Versions |-> {}], danger |-> FALSE]

SomeOutcomes == {{}, {"passed"}, {"failed"}, {"error"}, {"passed", "failed"}, {"skipped"}}

MCBundles ==
    {[Good EXCEPT !.manifest = m, !.imports = i, !.clash = c, !.sound = s, !.danger = d] :
        m \in SUBSET Packages, i \in SUBSET Packages, c \in BOOLEAN, s \in BOOLEAN, d \in BOOLEAN}
    \cup {[Good EXCEPT !.regression = [original |-> a, patched |-> b], !.test = t, !.family = f,
                       !.needs = n] :
            a \in SomeOutcomes, b \in SomeOutcomes, t \in {"none", "lost", "given"},
            f \in {"matches", "differs", "free"}, n \in SUBSET {"helpers"}}
    \cup {[Good EXCEPT !.suite = [original |-> [t \in Tests |-> IF t = t1 THEN a ELSE c],
                                  patched |-> [t \in Tests |-> IF t = t1 THEN b ELSE d]]] :
            a \in Outcomes, b \in Outcomes, c \in {"passed", "failed"}, d \in {"passed", "failed"}}
    \cup {[Good EXCEPT !.suite = None, !.python = y, !.gates = g] :
            y \in BOOLEAN, g \in {AllGates, <<"G3", "G99">>, <<>>, <<"G8", "G5">>}}
    \cup {[Good EXCEPT !.gates = g, !.sound = s,
                       !.suite = [original |-> [t \in Tests |-> "passed"],
                                  patched |-> [t \in Tests |-> "failed"]]] :
            g \in {<<"G6">>, <<"G3", "G6">>, <<"G3", "G2", "G6", "G7">>}, s \in BOOLEAN}
    \cup {[Good EXCEPT !.lint = [original |-> a, patched |-> b]] :
            a \in SUBSET Findings, b \in SUBSET Findings}
    \cup {[Good EXCEPT !.escapes = e] : e \in {{"patched"}, {"test", "helpers"}, {"original"}, {"suite"}}}
=============================================================================
