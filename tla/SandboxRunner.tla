--------------------------- MODULE SandboxRunner ----------------------------
(***************************************************************************)
(* The process inside a sandbox container (apps/sandbox-runner): it reads  *)
(* one input, runs the gates it names in their order over the work tree,   *)
(* stops at the first that fails, and answers with one result.             *)
(*                                                                         *)
(* What a file holds is abstracted to the set of parts of the input that   *)
(* lie under /work, what a test does to its outcome on each version of the *)
(* source, a finding of a linter to its rule and row.  A subprocess may    *)
(* run out of its time whatever it does.                                   *)
(***************************************************************************)
EXTENDS Integers, FiniteSets, Sequences

CONSTANTS
    Packages,       \* lines of a manifest
    Cached,         \* those with a wheel in /opt/wheels
    Tests,          \* the tests G6 runs
    Findings,       \* [rule, row, level, tool]: what ruff and bandit report
    Bundles,        \* the inputs considered
    Malformed,
    None,
    MaxLost         \* bound: subprocesses of one validation that run out of time

Versions == {"original", "patched"}
Outcomes == {"passed", "failed", "error", "skipped"}
Parts == Versions \cup {"test", "helpers", "suite"}
Gates == {"G2", "G3", "G4", "G5", "G6", "G7", "G8"}

\* What an input says, and what is true of the code in it:
BundleType ==
    [gates: Seq(Gates \cup {"G99"}),
     escapes: SUBSET Parts,                \* parts with a path out of /work
     manifest: SUBSET Packages,            \* {}: no manifest
     clash: BOOLEAN,                       \* its packages cannot be installed together
     imports: SUBSET Packages,             \* what the source uses when it is imported
     sound: BOOLEAN,                       \* the patched source compiles and imports
     test: {"none", "lost", "given"},      \* regression_test, and its content
     family: {"matches", "differs", "free"},
     needs: SUBSET {"helpers"},            \* new files the test uses
     regression: [Versions -> SUBSET Outcomes],     \* {}: cannot be collected
     suite: [Versions -> [Tests -> Outcomes]] \cup {None},
     python: BOOLEAN,                      \* a changed file is Python
     lint: [Versions -> SUBSET Findings],
     danger: BOOLEAN]                      \* an added line matches a HIGH pattern

ASSUME RunnerAssumption ==
    /\ Cached \subseteq Packages
    /\ Bundles \subseteq BundleType
    /\ Malformed \notin Bundles
    /\ None \notin BOOLEAN /\ None \notin Gates /\ None \notin Nat
    /\ \A b \in Bundles : \A i, j \in DOMAIN b.gates : b.gates[i] = b.gates[j] => i = j
    \* Every caller names the gates in the order of `07` 6: nothing that needs the
    \* dependencies comes before the gate that installs them.
    /\ \A b \in Bundles : \A i, j \in DOMAIN b.gates :
          b.gates[i] = "G2" /\ b.gates[j] \in {"G4", "G5", "G6"} => i < j
    /\ \A f \in Findings : f.level \in {"high", "medium", "low"} /\ f.tool \in {"ruff", "bandit"}
    /\ IsFiniteSet(Tests) /\ IsFiniteSet(Findings) /\ MaxLost \in Nat

VARIABLES
    input,
    pc,         \* "input", "gates", "over"
    at,         \* the gate that is next
    work,       \* what lies under /work: parts of the input, installed packages
    mode,
    results,    \* of the gates so far
    answer,     \* the result that was written
    resolved,   \* history: the packages G2 installed when it passed
    lost        \* history: the subprocesses that ran out of time

vars == <<input, pc, at, work, mode, results, answer, resolved, lost>>

-----------------------------------------------------------------------------
(* materialize.py: every file that is not wanted is removed, and HOME is   *)
(* /work, where `pip install --user` puts what it installs.                *)

Tree(parts) == [parts |-> parts, packages |-> {}]

Escapes(parts) == parts \cap input.escapes # {}

-----------------------------------------------------------------------------
(* What the subprocesses find on a tree.                                   *)

Imports(w) == input.imports \subseteq w.packages /\ ("patched" \in w.parts => input.sound)

Version(w) == IF "patched" \in w.parts THEN "patched" ELSE "original"

RegressionRun(w) ==
    IF Imports(w) /\ "test" \in w.parts /\ input.needs \subseteq w.parts
    THEN input.regression[Version(w)] ELSE {}

\* _run_pytest_suite(): no report, no outcomes.
SuiteRun(w) == IF Imports(w) THEN input.suite[Version(w)] ELSE <<>>

\* _ruff_findings() and _bandit_findings(): a tool that is cut off found nothing.
Reported(fs, cut) == {f \in fs : f.tool \notin cut}

Key(f) == <<f.rule, f.row>>

-----------------------------------------------------------------------------
(* The results of gates.                                                   *)

Result(gate, passed) ==
    [gate |-> gate, passed |-> passed, skipped |-> FALSE,
     total |-> 0, good |-> 0, high |-> 0, medium |-> 0]

Skip(gate) == [Result(gate, TRUE) EXCEPT !.skipped = TRUE]

\* The parts of the input each gate writes under /work, one set per tree.
Writes(gate) ==
    CASE gate = "G2" /\ input.manifest # {} -> {{"patched"}}
      [] gate = "G3" -> {{"patched", "test", "helpers"}}
      [] gate = "G4" /\ input.test = "given" -> {{"original", "test"}}
      [] gate = "G5" /\ input.test = "given" -> {{"patched", "test", "helpers"}}
      [] gate = "G6" /\ input.suite # None -> {{"original", "suite"}, {"patched", "suite"}}
      [] gate = "G7" /\ input.python -> {{"original"}, {"patched"}}
      [] OTHER -> {}

\* _MODE_ALLOWED_EXTRA
Allowed(m) ==
    CASE m = "full" -> Gates
      [] m = "partial" -> {"G2", "G3", "G7", "G8"}
      [] m = "syntax_only" -> {"G2", "G7"}

Pending == pc = "gates" /\ at \in DOMAIN input.gates

Due(gate) ==
    /\ Pending
    /\ input.gates[at] = gate
    /\ gate \in Allowed(mode)
    /\ \A parts \in Writes(gate) : ~Escapes(parts)

\* _run_gates() after a gate: the first that fails is the last.
Conclude(r) ==
    /\ results' = Append(results, r)
    /\ at' = IF r.passed THEN at + 1 ELSE Len(input.gates) + 1
    /\ UNCHANGED <<input, pc, answer>>

Untouched == UNCHANGED <<mode, resolved, lost>>

SkipDegraded ==
    /\ Pending
    /\ input.gates[at] \in Gates \ Allowed(mode)
    /\ Conclude(Skip(input.gates[at]))
    /\ UNCHANGED work /\ Untouched

Loses(cut) ==
    /\ Cardinality(lost) + Cardinality(cut) <= MaxLost
    /\ lost' = lost \cup cut

-----------------------------------------------------------------------------
(* G2, with _gate_dependencies_degraded() and _core_imports_ok()           *)

NothingToInstall ==
    /\ Due("G2") /\ input.manifest = {}
    /\ Conclude(Result("G2", TRUE))
    /\ mode' = "full"
    /\ UNCHANGED <<work, resolved, lost>>

InstallAll ==
    /\ Due("G2") /\ input.manifest # {}
    /\ input.manifest \subseteq Cached /\ ~input.clash
    /\ work' = [Tree({"patched"}) EXCEPT !.packages = input.manifest]
    /\ resolved' = input.manifest
    /\ mode' = "full"
    /\ Conclude(Result("G2", TRUE))
    /\ UNCHANGED lost

\* The whole install failed: it was not possible, or it took too long.  Line by line,
\* then: missing are the lines that did not resolve in time; what did is installed; the
\* core files are written once more and imported.
InstallSome(missing, cut) ==
    LET available == input.manifest \ missing
        w == Tree({"patched"})
        hurried == \/ cut # {} \/ missing \cap Cached # {}
                   \/ input.manifest \subseteq Cached /\ ~input.clash
    IN  /\ input.manifest # {}
        /\ input.manifest \ Cached \subseteq missing
        /\ work' = w
        /\ IF available # {} /\ (input.clash \/ "install" \in cut)
           THEN Conclude(Result("G2", FALSE)) /\ mode' = "full" /\ UNCHANGED resolved
           ELSE /\ Conclude(Result("G2", TRUE))
                /\ mode' = IF Imports(w) /\ "import" \notin cut THEN "partial" ELSE "syntax_only"
                /\ resolved' = available
        /\ Loses(IF hurried THEN {<<"pip", cut>>} ELSE {})

Dependencies ==
    \/ NothingToInstall
    \/ InstallAll
    \/ /\ Due("G2")
       /\ \E missing \in SUBSET input.manifest, cut \in SUBSET {"install", "import"} :
             InstallSome(missing, cut)

-----------------------------------------------------------------------------
(* G3 to G8                                                                *)

\* compileall, then an import of each changed module.
Compile(slow) ==
    /\ Due("G3")
    /\ work' = Tree({"patched", "test", "helpers"})
    /\ Conclude(Result("G3", Imports(Tree({"patched", "test", "helpers"})) /\ ~slow))
    /\ Loses(IF slow THEN {<<"python">>} ELSE {})
    /\ UNCHANGED <<mode, resolved>>

\* G4: collected, a failure, and the family of the exception where it is known.
Reproduces(out) == "failed" \in out /\ input.family # "differs"

\* Mutant: one case that passes is enough.
Fixed_Some(out) == "passed" \in out

Fixed(out) == out # {} /\ out \subseteq {"passed"}

RegressionGate(gate, parts, passed) ==
    /\ Due(gate)
    /\ IF input.test = "given"
       THEN /\ work' = Tree(parts)
            /\ Conclude(Result(gate, passed))
       ELSE Conclude(Result(gate, FALSE)) /\ UNCHANGED work
    /\ Untouched

RegressionPre ==
    LET tree == {"original", "test"}
    IN  RegressionGate("G4", tree, Reproduces(RegressionRun(Tree(tree))))

RegressionPost ==
    LET tree == {"patched", "test", "helpers"}
    IN  RegressionGate("G5", tree, Fixed(RegressionRun(Tree(tree))))

\* Mutant: what failed before and passes now is looked for.
NewlyFailing_Swapped(pre, post) ==
    {t \in DOMAIN post : post[t] = "passed" /\ t \in DOMAIN pre /\ pre[t] = "failed"}

NewlyFailing(pre, post) ==
    {t \in DOMAIN post : post[t] = "failed" /\ t \in DOMAIN pre /\ pre[t] = "passed"}

\* G6: the suite on the original tree, then on the patched one; cut are the runs that
\* left no report.
ExistingTests(cut) ==
    LET Run(v) == IF v \in cut THEN <<>> ELSE SuiteRun(Tree({v, "suite"}))
        pre == Run("original")
        post == Run("patched")
    IN  /\ Due("G6")
        /\ IF input.suite = None
           THEN cut = {} /\ Conclude(Result("G6", TRUE)) /\ UNCHANGED work
           ELSE /\ work' = Tree({"patched", "suite"})
                /\ Conclude([Result("G6", NewlyFailing(pre, post) = {}) EXCEPT
                                !.total = Cardinality(DOMAIN post),
                                !.good = Cardinality({t \in DOMAIN post : post[t] = "passed"})])
        /\ Loses({<<"suite", v>> : v \in cut})
        /\ UNCHANGED <<mode, resolved>>

\* G7: both tools on the original files, then on the patched ones.
StaticAnalysis(cut) ==
    LET Found(v) == Reported(input.lint[v], {c[2] : c \in {x \in cut : x[1] = v}})
        known == {Key(f) : f \in Found("original")}
        fresh == {f \in Found("patched") : Key(f) \notin known}
        Count(l) == Cardinality({Key(f) : f \in {g \in fresh : g.level = l}})
    IN  /\ Due("G7")
        /\ IF ~input.python
           THEN cut = {} /\ Conclude(Result("G7", TRUE)) /\ UNCHANGED work
           ELSE /\ work' = Tree({"patched"})
                /\ Conclude([Result("G7", Count("high") = 0) EXCEPT
                                !.high = Count("high"), !.medium = Count("medium")])
        /\ Loses(cut)
        /\ UNCHANGED <<mode, resolved>>

SecurityScan ==
    /\ Due("G8")
    /\ Conclude(Result("G8", ~input.danger))
    /\ UNCHANGED work /\ Untouched

-----------------------------------------------------------------------------
(* runner.py                                                               *)

NoSignals ==
    [build |-> FALSE, regression |-> None, ratio |-> None, high |-> 0, medium |-> 0,
     degraded |-> FALSE, cap |-> None]

\* The results of a gate that ran for real.
Ran(gate) == {i \in DOMAIN results : results[i].gate = gate /\ ~results[i].skipped}

\* Mutant: no gate said otherwise.
Built_SyntaxToo == \A i \in Ran("G2") \cup Ran("G3") : results[i].passed

Built == mode # "syntax_only" /\ \A i \in Ran("G2") \cup Ran("G3") : results[i].passed

\* _signals_for_scoring()
Signals ==
    [build |-> Built,
     regression |-> IF Ran("G4") = {} THEN None ELSE \A i \in Ran("G4") : results[i].passed,
     ratio |-> IF \E i \in Ran("G6") : results[i].total > 0
               THEN LET g == results[CHOOSE i \in Ran("G6") : TRUE] IN <<g.good, g.total>>
               ELSE None,
     high |-> IF Ran("G7") = {} THEN 0 ELSE results[CHOOSE i \in Ran("G7") : TRUE].high,
     medium |-> IF Ran("G7") = {} THEN 0 ELSE results[CHOOSE i \in Ran("G7") : TRUE].medium,
     degraded |-> mode # "full",
     cap |-> CASE mode = "full" -> None [] mode = "partial" -> 55 [] mode = "syntax_only" -> 35]

\* _error_result(), written with code 1.
Error ==
    [passed |-> FALSE, mode |-> "full", ran |-> {}, failed |-> "runner_error",
     signals |-> NoSignals, code |-> 1]

Failing == {i \in DOMAIN results : ~results[i].passed}

Verdict ==
    [passed |-> Failing = {}, mode |-> mode,
     ran |-> {results[i].gate : i \in {j \in DOMAIN results : ~results[j].skipped}},
     failed |-> IF Failing = {} THEN None ELSE results[CHOOSE i \in Failing : TRUE].gate,
     signals |-> Signals, code |-> 0]

Finish(r) ==
    /\ answer' = r
    /\ pc' = "over"
    /\ UNCHANGED <<input, at, mode, results, resolved>>

\* read_input_from_stdin(), and the tree _process() starts from.
ReadInput ==
    /\ pc = "input" /\ input # Malformed
    /\ ~Escapes({"patched"})
    /\ \A i \in DOMAIN input.gates : input.gates[i] \in Gates
    /\ pc' = "gates"
    /\ work' = Tree({"patched"})
    /\ UNCHANGED <<input, at, mode, results, answer, resolved, lost>>

\* InvalidInputError, a path out of /work, or a gate that is not in _GATE_DISPATCH.
RefuseInput ==
    /\ pc = "input"
    /\ IF input = Malformed \/ Escapes({"patched"})
       THEN UNCHANGED work
       ELSE work' = Tree({"patched"}) /\ \E i \in DOMAIN input.gates : input.gates[i] \notin Gates
    /\ Finish(Error)
    /\ UNCHANGED lost

\* Mutant: the exception of a gate ends the process.
GateRaises_Dies ==
    /\ Pending
    /\ input.gates[at] \in {"G4", "G5"} \cap Allowed(mode)
    /\ input.test = "given" /\ lost = {}
    /\ pc' = "over" /\ lost' = {<<"pytest">>}
    /\ UNCHANGED <<input, at, work, mode, results, answer, resolved>>

\* What a gate raises _process() turns into an error: a path out of /work, or the report
\* of the regression test that is not there.
GateRaises ==
    /\ Pending
    /\ input.gates[at] \in Allowed(mode)
    /\ LET gate == input.gates[at] IN
        \/ /\ \E parts \in Writes(gate) : Escapes(parts)
           /\ UNCHANGED <<work, lost>>
        \/ /\ gate \in {"G4", "G5"}
           /\ \E parts \in Writes(gate) : ~Escapes(parts) /\ work' = Tree(parts)
           /\ Loses({<<"pytest">>})
    /\ Finish(Error)

Report ==
    /\ pc = "gates" /\ at > Len(input.gates)
    /\ work' = Tree({"patched"})
    /\ Finish(Verdict)
    /\ UNCHANGED lost

Init ==
    /\ input \in Bundles \cup {Malformed}
    /\ pc = "input" /\ at = 1
    /\ work = Tree({})
    /\ mode = "full"
    /\ results = <<>>
    /\ answer = None
    /\ resolved = {} /\ lost = {}

Next ==
    \/ ReadInput \/ RefuseInput \/ SkipDegraded \/ GateRaises \/ Report
    \/ Dependencies \/ RegressionPre \/ RegressionPost \/ SecurityScan
    \/ \E slow \in BOOLEAN : Compile(slow)
    \/ Due("G6") /\ \E cut \in SUBSET Versions : ExistingTests(cut)
    \/ Due("G7") /\ \E cut \in SUBSET (Versions \X {"ruff", "bandit"}) : StaticAnalysis(cut)

Spec == Init /\ [][Next]_vars /\ WF_vars(Next)

-----------------------------------------------------------------------------
(* Properties                                                              *)

Answered == answer # None
Decided == answer # None /\ answer.code = 0

\* The point of G4 and G5: a result that passed with both gates run was given for a test
\* that really fails on the code as it was, for the reported kind of error, and really
\* passes with the patch, whichever tree the gates before left in /work.
RegressionProven ==
    Decided /\ answer.passed /\ {"G4", "G5"} \subseteq answer.ran =>
        /\ "failed" \in input.regression["original"] /\ input.family # "differs"
        /\ input.regression["patched"] = {"passed"}

\* A reduced check never reads like a full one: signals_for_scoring claims a valid test
\* only when it failed on the original, a ratio only from a suite that ran with every
\* dependency, a build only of a source that imports; what was skipped claims nothing.
SignalsHonest ==
    Decided =>
        LET s == answer.signals IN
        /\ s.regression = TRUE => "failed" \in input.regression["original"]
        /\ s.regression # None \/ s.ratio # None => ~s.degraded
        /\ s.degraded => {"G4", "G5", "G6"} \cap answer.ran = {} /\ s.cap # None
        /\ s.build /\ "G3" \in answer.ran => input.sound /\ answer.mode # "syntax_only"
        /\ answer.mode = "syntax_only" => ~s.build

\* A test of the suite that passed before the patch and does not pass after it gets past
\* G6 only where the gate cannot see it: it errors or is skipped instead of failing, a
\* run left no report, or the suite could not import the source, be it for a package or,
\* where G3 was not asked, for the patch.
RegressionsSlipUnseen ==
    Decided /\ answer.passed /\ "G6" \in answer.ran /\ input.suite # None =>
        \A t \in Tests :
            input.suite["original"][t] = "passed" /\ input.suite["patched"][t] # "passed" =>
                \/ input.suite["patched"][t] \in {"error", "skipped"}
                \/ \E v \in Versions : <<"suite", v>> \in lost
                \/ input.imports # {}
                \/ ~input.sound /\ "G3" \notin answer.ran

\* G7 blames a patch whose tools all answered only for a HIGH rule the original does not
\* break, or for one it breaks at another row; and lets no new HIGH rule pass.
StaticDelta ==
    LET high(v) == {f \in input.lint[v] : f.level = "high"}
        new(f) == f.rule \notin {g.rule : g \in input.lint["original"]}
        moved(f) == Key(f) \notin {Key(g) : g \in input.lint["original"]}
    IN  Decided /\ lost = {} /\ input.python =>
            /\ answer.failed = "G7" => \E f \in high("patched") : new(f) \/ moved(f)
            /\ answer.passed /\ "G7" \in answer.ran => \A f \in high("patched") : ~new(f)

\* The two gates that compare before and after blame a patch for what it did,
\* and miss only what they cannot see (G6, G7).
DeltasHonest == RegressionsSlipUnseen /\ StaticDelta

\* However its gates end, time out or raise, the process answers.
AlwaysAnswers == <>Answered

=============================================================================
