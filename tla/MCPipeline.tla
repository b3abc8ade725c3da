----------------------------- MODULE MCPipeline -----------------------------
EXTENDS PatchPipeline

CONSTANTS l1, l2, l3, l4, new, bad, def, def2

MCRepo == [f |-> <<l1, l2, l3, l4>>, g |-> <<l3>>, t |-> <<l1, def, def2>>, lock |-> <<l1>>]

Context ==
    [files |-> [f |-> [first |-> 2, lines |-> <<l2, l3, l4>>, joined |-> TRUE]],
     tests |-> [t |-> WholeText(MCRepo.t)],
     breadcrumbs |-> 1, commits |-> {"c"}, quality |-> 90, gaps |-> 0, correlated |-> TRUE,
     failure |-> "f"]
MCBundles ==
    {Context, [Context EXCEPT !.quality = 30, !.gaps = 1, !.failure = None],
     [Context EXCEPT !.tests = [t |-> Signatures(MCRepo.t)]]}

\* S6
Cites(path, a, b, x) == [path |-> path, kind |-> "file", from |-> a, to |-> b, excerpt |-> x]
Claim(type, evidence) == [type |-> type, evidence |-> evidence]
Good == Claim("conclude", {Cites("f", 2, 3, l2)})
Cause ==
    [files |-> {"f"}, chain |-> <<Claim("observe", {[kind |-> "breadcrumb", index |-> 0, path |-> "f"]}), Good>>,
     eliminated |-> <<>>, mustNot |-> {}, testNeeded |-> TRUE, external |-> FALSE, confidence |-> 9000]
MCCauses ==
    {Cause, [Cause EXCEPT !.mustNot = {"f"}], [Cause EXCEPT !.files = {"f", "g"}],
     [Cause EXCEPT !.chain = <<Claim("conclude", {Cites("f", 1, 3, l2)})>>],
     [Cause EXCEPT !.chain = <<Good, Claim("test", {Cites("g", 1, 1, l3)}), Claim("chain", {Cites("f", 2, 9, l2)})>>,
                   !.eliminated = <<Claim("rejected", {[kind |-> "commit", sha |-> "d"]})>>],
     [Cause EXCEPT !.chain = <<Claim("conclude", {})>>, !.testNeeded = FALSE, !.external = TRUE,
                   !.confidence = 1000]}

\* S7
Line(op, x) == [op |-> op, text |-> x]
Hunk(a, b, ls) == [lines |-> ls, from |-> a, to |-> b]
Section(path, hs) == [new |-> "file", path |-> path, old |-> "file", hunks |-> hs]
Fix == Section("f", <<Hunk(2, 2, <<Line("-", l2), Line("+", new)>>)>>)
NewTest == [Section("n", <<Hunk(0, 1, <<Line("+", def2)>>)>>) EXCEPT !.old = "null"]
Sections ==
    {Fix,
     Section("f", <<Hunk(3, 3, <<Line("-", l3)>>), Hunk(2, 2, <<Line("-", l2), Line("+", new)>>)>>),
     Section("f", <<Hunk(0, 1, <<Line("+", new)>>)>>),
     Section("f", <<Hunk(9, 9, <<Line("+", new)>>), Hunk(3, 4, <<Line(" ", l3)>>)>>),
     Section("f", <<Hunk(2, 2, <<Line(" ", l2), Line("-", l3), Line("+", bad)>>)>>),
     Section("f", <<Hunk(1, 1, <<Line("-", l1)>>)>>),
     Section("f", <<Hunk(4, 4, <<Line("-", l4), Line("+", new)>>)>>),
     Section("f", <<Hunk(2, 2, <<Line("-", l2)>>), Hunk(3, 2, <<Line("-", l1)>>)>>),
     Section("f", <<Hunk(2, 2, <<Line("-", l2)>>), Hunk(3, 2, <<Line("-", l3), Line("+", new)>>)>>)}
TestSections ==
    {NewTest,
     Section("t", <<Hunk(2, 2, <<Line(" ", def), Line("+", l3)>>)>>),
     Section("t", <<Hunk(1, 1, <<Line(" ", def), Line("+", l3)>>)>>),
     Section("t", <<Hunk(2, 2, <<Line("-", def), Line("+", def2)>>)>>),
     Section("t", <<Hunk(0, 1, <<Line("+", def2)>>)>>),
     [Section("t", <<Hunk(1, 0, <<Line("-", l1), Line("-", def), Line("-", def2)>>)>>) EXCEPT !.new = "null"],
     [Section("g", <<Hunk(0, 1, <<Line("+", def2)>>)>>) EXCEPT !.old = "null"],
     Section("lock", <<Hunk(1, 1, <<Line("-", l1), Line("+", new)>>)>>)}
Reply(diff, test) == [diff |-> diff, test |-> test]
MCPatches ==
    {Reply(<<s, NewTest>>, "n") : s \in Sections} \cup {Reply(<<Fix, x>>, x.path) : x \in TestSections}
    \cup {Reply(<<>>, None), Reply(<<Fix>>, None), Reply(<<Fix, NewTest>>, None),
          Reply(<<Section("f", <<Hunk(3, 3, <<Line(" ", l3), Line("+", new)>>)>>), Fix, NewTest>>, "n")}

\* S8
Signals ==
    [build |-> TRUE, regression |-> TRUE, ratio |-> 100, high |-> 0, medium |-> 0,
     cap |-> None, bandCap |-> None]
Passed(s) == [passed |-> TRUE, failed |-> None, signals |-> s]
MCAnswers ==
    {Passed(Signals), Passed([Signals EXCEPT !.medium = 2, !.ratio = None]),
     Passed([Signals EXCEPT !.regression = None, !.ratio = None, !.cap = 55]),
     Passed([Signals EXCEPT !.build = FALSE, !.regression = None, !.ratio = None, !.cap = 35,
                            !.bandCap = "low"])}
    \cup {[passed |-> FALSE, failed |-> g, signals |-> Signals] : g \in {"G4", "G5", "timeout"}}

\* S10
Remark(s, d) == [severity |-> s, dimension |-> d]
Review(v, fs) == [verdict |-> v, agreement |-> 100, findings |-> fs]
MCReviews ==
    {Review("approve", {}), Review("reject", {}), Review("request_changes", {Remark("high", "scope")}),
     Review("approve_with_notes", {Remark("medium", "style"), Remark("critical", "correctness")}),
     Review("approve", {Remark("critical", "security")})}
=============================================================================
