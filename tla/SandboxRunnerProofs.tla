------------------------ MODULE SandboxRunnerProofs ------------------------
(***************************************************************************)
(* What the result of a sandbox run proves of the code it ran on, for any   *)
(* inputs, any gates asked for in their order, any packages and tests, and  *)
(* any subprocesses that run out of time.                                   *)
(***************************************************************************)
EXTENDS SandboxRunner, FiniteSetTheorems, SequenceTheorems, TLAPS

Modes == {"full", "partial", "syntax_only"}
GateResults ==
    [gate : Gates, passed : BOOLEAN, skipped : BOOLEAN,
     total : Nat, good : Nat, high : Nat, medium : Nat]

RunnerTypeOK ==
    /\ input \in Bundles \cup {Malformed}
    /\ pc \in {"input", "gates", "over"}
    /\ pc = "gates" => input \in Bundles /\ \A i \in DOMAIN input.gates : input.gates[i] \in Gates
    /\ at \in Nat \ {0}
    /\ mode \in Modes
    /\ results \in Seq(GateResults)

\* The gates that have a result are the first of the input's; the next follows them.
InOrder ==
    /\ pc = "input" => at = 1 /\ results = <<>>
    /\ pc = "gates" =>
          /\ Len(results) <= Len(input.gates)
          /\ \A i \in 1 .. Len(results) : results[i].gate = input.gates[i]
          /\ at <= Len(input.gates) => at = Len(results) + 1

SuiteKept(l) ==
    \A t \in Tests :
        input.suite["original"][t] = "passed" /\ input.suite["patched"][t] # "passed" =>
            \/ input.suite["patched"][t] \in {"error", "skipped"}
            \/ \E v \in Versions : <<"suite", v>> \in l
            \/ input.imports # {}
            \/ ~input.sound

High(v) == {f \in input.lint[v] : f.level = "high"}
NewRule(f) == f.rule \notin {g.rule : g \in input.lint["original"]}
Moved(f) == Key(f) \notin {Key(g) : g \in input.lint["original"]}

\* What the result of a gate that ran says of the code it ran on, when mode is m and l has
\* run out of time.
Says(r, m, l) ==
    /\ r.gate = "G3" /\ r.passed => input.sound
    /\ r.gate = "G4" /\ r.passed =>
          "failed" \in input.regression["original"] /\ input.family # "differs"
    /\ r.gate = "G5" /\ r.passed => input.regression["patched"] = {"passed"}
    /\ r.gate = "G6" /\ r.passed /\ input.suite # None => SuiteKept(l)
    /\ r.gate = "G7" /\ l = {} /\ input.python =>
          IF r.passed THEN \A f \in High("patched") : ~NewRule(f)
          ELSE \E f \in High("patched") : NewRule(f) \/ Moved(f)
    /\ r.gate \in {"G4", "G5", "G6"} => m = "full"

Holds(r, m, l) == IF r.skipped THEN r.passed ELSE Says(r, m, l)

ResultsHonest == pc = "gates" => \A i \in 1 .. Len(results) : Holds(results[i], mode, lost)

Promises == RegressionProven /\ SignalsHonest /\ DeltasHonest

RunnerInv ==
    /\ RunnerTypeOK
    /\ InOrder
    /\ ResultsHonest
    /\ pc # "over" => answer = None
    /\ Promises

-----------------------------------------------------------------------------
LEMMA Kept ==
    ASSUME answer = None \/ answer.code # 0
    PROVE  Promises
  BY DEF Promises, RegressionProven, SignalsHonest, DeltasHonest, RegressionsSlipUnseen,
         StaticDelta, Decided

LEMMA BundleFields ==
    ASSUME RunnerTypeOK, pc = "gates"
    PROVE  /\ input.gates \in Seq(Gates)
           /\ Len(input.gates) \in Nat /\ DOMAIN input.gates = 1 .. Len(input.gates)
           /\ input.manifest \subseteq Packages /\ input.imports \subseteq Packages
           /\ input.sound \in BOOLEAN /\ input.python \in BOOLEAN /\ input.danger \in BOOLEAN
           /\ input.clash \in BOOLEAN
           /\ input.test \in {"none", "lost", "given"}
           /\ input.regression \in [Versions -> SUBSET Outcomes]
           /\ input.suite \in [Versions -> [Tests -> Outcomes]] \cup {None}
           /\ input.lint \in [Versions -> SUBSET Findings]
           /\ \A i, j \in DOMAIN input.gates :
                 input.gates[i] = "G2" /\ input.gates[j] \in {"G4", "G5", "G6"} => i < j
  <1>1. input \in Bundles /\ input \in BundleType
    BY RunnerAssumption DEF RunnerTypeOK
  <1>2. input.gates \in Seq(Gates \cup {"G99"})
    BY <1>1 DEF BundleType
  <1>3. \A i \in DOMAIN input.gates : input.gates[i] \in Gates
    BY DEF RunnerTypeOK
  <1>4. input.gates \in Seq(Gates)
    BY <1>2, <1>3
  <1>5. \A i, j \in DOMAIN input.gates :
            input.gates[i] = "G2" /\ input.gates[j] \in {"G4", "G5", "G6"} => i < j
    BY <1>1, RunnerAssumption
  <1>. QED  BY <1>1, <1>4, <1>5 DEF BundleType

\* A result that holds is added to results that hold.
LEMMA Concluded ==
    ASSUME RunnerInv, Pending, NEW r \in GateResults, r.gate = input.gates[at], Conclude(r),
           mode' \in Modes, r.gate = "G2" \/ mode' = mode, lost \subseteq lost',
           Holds(r, mode', lost')
    PROVE  RunnerInv'
  <1>. DEFINE n == Len(results)
  <1>1. /\ pc = "gates" /\ at \in 1 .. Len(input.gates) /\ at = n + 1 /\ n \in Nat
        /\ results \in Seq(GateResults) /\ RunnerTypeOK
        /\ \A i \in 1 .. n : results[i].gate = input.gates[i] /\ results[i] \in GateResults
    BY BundleFields DEF RunnerInv, Pending, InOrder, RunnerTypeOK
  <1>2. /\ results' = Append(results, r) /\ results' \in Seq(GateResults)
        /\ Len(results') = n + 1
        /\ \A i \in 1 .. n : results'[i] = results[i]
        /\ results'[n + 1] = r
        /\ UNCHANGED <<input, pc, answer>>
    BY <1>1 DEF Conclude
  <1>3. at' \in Nat \ {0} /\ (at' <= Len(input.gates) => at' = n + 2)
    BY <1>1, BundleFields DEF Conclude
  <1>4. RunnerTypeOK'
    BY <1>1, <1>2, <1>3 DEF RunnerTypeOK
  <1>5. InOrder'
    BY <1>1, <1>2, <1>3, BundleFields DEF InOrder
  <1>6. ASSUME NEW i \in 1 .. n
        PROVE  Holds(results[i], mode', lost')
    <2>1. Holds(results[i], mode, lost)
      BY <1>1 DEF RunnerInv, ResultsHonest
    <2>2. SuiteKept(lost) => SuiteKept(lost')
      BY DEF SuiteKept
    <2>3. results[i].gate \in {"G4", "G5", "G6"} => mode' = mode
      BY <1>1, BundleFields
    <2>. QED  BY <2>1, <2>2, <2>3 DEF Holds, Says
  <1>7. ResultsHonest'
    <2>1. \A i \in 1 .. Len(results') : Holds(results'[i], mode', lost')
      BY <1>1, <1>2, <1>6
    <2>. QED  BY <1>2, <2>1 DEF ResultsHonest, Holds, Says, SuiteKept, High, NewRule, Moved, Key
  <1>8. answer' = None
    BY <1>1, <1>2 DEF RunnerInv
  <1>9. Promises'
    BY <1>8 DEF Promises, RegressionProven, SignalsHonest, DeltasHonest, RegressionsSlipUnseen,
           StaticDelta, Decided
  <1>. QED  BY <1>4, <1>5, <1>7, <1>8, <1>9 DEF RunnerInv

LEMMA ResultTyped ==
    ASSUME NEW gate \in Gates, NEW p \in BOOLEAN
    PROVE  /\ Result(gate, p) \in GateResults /\ Skip(gate) \in GateResults
           /\ Result(gate, p).gate = gate /\ Skip(gate).gate = gate
           /\ Result(gate, p).passed = p /\ Skip(gate).passed
           /\ ~Result(gate, p).skipped /\ Skip(gate).skipped
  BY DEF Result, Skip, GateResults

LEMMA SkipStep == RunnerInv /\ SkipDegraded => RunnerInv'
  <1>. SUFFICES ASSUME RunnerInv, SkipDegraded PROVE RunnerInv'
    OBVIOUS
  <1>. DEFINE gate == input.gates[at]
  <1>1. gate \in Gates /\ Pending /\ Conclude(Skip(gate)) /\ UNCHANGED <<mode, lost>>
    BY DEF SkipDegraded, Untouched
  <1>2. PICK r : r = Skip(gate)
    OBVIOUS
  <1>3. r \in GateResults /\ r.gate = input.gates[at] /\ r.passed /\ r.skipped
    BY <1>1, <1>2, ResultTyped
  <1>4. mode' \in Modes
    BY <1>1 DEF RunnerInv, RunnerTypeOK
  <1>5. Holds(r, mode', lost')
    BY <1>3 DEF Holds
  <1>. QED  BY <1>1, <1>2, <1>3, <1>4, <1>5, Concluded

\* G2 and G8 say nothing of the tests.
LEMMA SilentGate ==
    ASSUME RunnerInv, NEW gate \in {"G2", "G8"}, Due(gate), NEW p \in BOOLEAN,
           Conclude(Result(gate, p)), mode' \in Modes, gate = "G2" \/ mode' = mode,
           lost \subseteq lost'
    PROVE  RunnerInv'
  <1>1. PICK r : r = Result(gate, p)
    OBVIOUS
  <1>2. r \in GateResults /\ r.gate = gate /\ ~r.skipped
    BY <1>1, ResultTyped DEF Gates
  <1>3. Holds(r, mode', lost')
    BY <1>2 DEF Holds, Says
  <1>4. Pending /\ input.gates[at] = gate /\ Conclude(r)
    BY <1>1 DEF Due
  <1>. QED  BY <1>2, <1>3, <1>4, Concluded

LEMMA DependenciesStep == RunnerInv /\ Dependencies => RunnerInv'
  <1>. SUFFICES ASSUME RunnerInv, Dependencies PROVE RunnerInv'
    OBVIOUS
  <1>1. CASE NothingToInstall
    BY <1>1, SilentGate DEF NothingToInstall, Modes
  <1>2. CASE InstallAll
    BY <1>2, SilentGate DEF InstallAll, Modes
  <1>3. ASSUME Due("G2"), NEW missing, NEW cut, InstallSome(missing, cut)
        PROVE  RunnerInv'
    <2>1. lost \subseteq lost' /\ mode' \in Modes
      BY <1>3 DEF InstallSome, Loses, Modes
    <2>2. PICK p \in BOOLEAN : Conclude(Result("G2", p))
      BY <1>3 DEF InstallSome
    <2>. QED  BY <1>3, <2>1, <2>2, SilentGate
  <1>. QED  BY <1>1, <1>2, <1>3 DEF Dependencies

LEMMA SecurityStep == RunnerInv /\ SecurityScan => RunnerInv'
  <1>. SUFFICES ASSUME RunnerInv, SecurityScan PROVE RunnerInv'
    OBVIOUS
  <1>1. Due("G8") /\ Conclude(Result("G8", ~input.danger)) /\ UNCHANGED <<mode, lost>>
    BY DEF SecurityScan, Untouched
  <1>2. mode' \in Modes
    BY <1>1 DEF RunnerInv, RunnerTypeOK
  <1>3. PICK p \in BOOLEAN : p = ~input.danger
    OBVIOUS
  <1>. QED  BY <1>1, <1>2, <1>3, SilentGate

\* The gates that say something: what they conclude holds of the code.
LEMMA SpeakingGate ==
    ASSUME RunnerInv, NEW gate \in {"G3", "G4", "G5", "G6", "G7"}, Due(gate),
           NEW r \in GateResults, r.gate = gate, ~r.skipped, Conclude(r), Says(r, mode, lost'),
           UNCHANGED mode, lost \subseteq lost'
    PROVE  RunnerInv'
  <1>1. mode' \in Modes /\ Pending /\ input.gates[at] = gate
    BY DEF RunnerInv, RunnerTypeOK, Due
  <1>2. Holds(r, mode', lost')
    BY DEF Holds
  <1>. QED  BY <1>1, <1>2, Concluded

LEMMA CompileStep == ASSUME RunnerInv, NEW slow \in BOOLEAN, Compile(slow) PROVE RunnerInv'
  <1>. DEFINE tree == Tree({"patched", "test", "helpers"})
  <1>1. /\ Due("G3") /\ Conclude(Result("G3", Imports(tree) /\ ~slow))
        /\ UNCHANGED mode /\ lost \subseteq lost'
    BY DEF Compile, Loses
  <1>2. RunnerTypeOK /\ pc = "gates"
    BY <1>1 DEF RunnerInv, Due, Pending
  <1>3. Imports(tree) => input.sound
    BY DEF Imports, Tree
  <1>4. PICK p \in BOOLEAN : p = (Imports(tree) /\ ~slow)
    OBVIOUS
  <1>5. PICK r : r = Result("G3", p)
    OBVIOUS
  <1>6. r \in GateResults /\ r.gate = "G3" /\ ~r.skipped /\ r.passed = p
    BY <1>5, ResultTyped DEF Gates
  <1>7. Says(r, mode, lost')
    BY <1>3, <1>4, <1>6 DEF Says
  <1>. QED  BY <1>1, <1>4, <1>5, <1>6, <1>7, SpeakingGate

\* G4 and G5 run with every dependency or not at all.
LEMMA RegressionStep ==
    ASSUME RunnerInv, NEW gate \in {"G4", "G5"}, NEW parts, NEW passed \in BOOLEAN,
           RegressionGate(gate, parts, passed),
           passed => IF gate = "G4"
                     THEN "failed" \in input.regression["original"] /\ input.family # "differs"
                     ELSE input.regression["patched"] = {"passed"}
    PROVE  RunnerInv'
  <1>1. Due(gate) /\ UNCHANGED <<mode, lost>>
    BY DEF RegressionGate, Untouched
  <1>2. PICK p \in BOOLEAN : Conclude(Result(gate, p)) /\ (p => passed)
    BY DEF RegressionGate
  <1>3. PICK r : r = Result(gate, p)
    OBVIOUS
  <1>4. r \in GateResults /\ r.gate = gate /\ ~r.skipped /\ r.passed = p
    BY <1>3, ResultTyped DEF Gates
  <1>5. mode = "full"
    BY <1>1 DEF Due, Allowed, RunnerInv, RunnerTypeOK, Modes
  <1>6. Says(r, mode, lost')
    BY <1>2, <1>4, <1>5 DEF Says
  <1>. QED  BY <1>1, <1>2, <1>3, <1>4, <1>6, SpeakingGate

LEMMA PreStep == RunnerInv /\ RegressionPre => RunnerInv'
  <1>. SUFFICES ASSUME RunnerInv, RegressionPre PROVE RunnerInv'
    OBVIOUS
  <1>. DEFINE tree == {"original", "test"}
  <1>1. RegressionRun(Tree(tree)) \in {input.regression["original"], {}}
    BY DEF RegressionRun, Tree, Version
  <1>2. PICK p \in BOOLEAN : p = Reproduces(RegressionRun(Tree(tree)))
    BY DEF Reproduces
  <1>3. p => "failed" \in input.regression["original"] /\ input.family # "differs"
    BY <1>1, <1>2 DEF Reproduces
  <1>. QED  BY <1>2, <1>3, RegressionStep DEF RegressionPre

LEMMA PostStep == RunnerInv /\ RegressionPost => RunnerInv'
  <1>. SUFFICES ASSUME RunnerInv, RegressionPost PROVE RunnerInv'
    OBVIOUS
  <1>. DEFINE tree == {"patched", "test", "helpers"}
  <1>1. RegressionRun(Tree(tree)) \in {input.regression["patched"], {}}
    BY DEF RegressionRun, Tree, Version
  <1>2. PICK p \in BOOLEAN : p = Fixed(RegressionRun(Tree(tree)))
    BY DEF Fixed
  <1>3. p => input.regression["patched"] = {"passed"}
    BY <1>1, <1>2 DEF Fixed
  <1>. QED  BY <1>2, <1>3, RegressionStep DEF RegressionPost

LEMMA ExistingTestsStep ==
    ASSUME RunnerInv, NEW cut \in SUBSET Versions, ExistingTests(cut)
    PROVE  RunnerInv'
  <1>. DEFINE Run(v) == IF v \in cut THEN <<>> ELSE SuiteRun(Tree({v, "suite"}))
              pre == Run("original")
              post == Run("patched")
  <1>1. /\ Due("G6") /\ UNCHANGED mode
        /\ lost' = lost \cup {<<"suite", v>> : v \in cut}
    BY DEF ExistingTests, Loses
  <1>2. RunnerTypeOK /\ pc = "gates" /\ mode = "full"
    BY <1>1 DEF RunnerInv, RunnerTypeOK, Modes, Due, Pending, Allowed
  <1>3. CASE input.suite = None
    <2>1. Conclude(Result("G6", TRUE))
      BY <1>3 DEF ExistingTests
    <2>2. PICK r : r = Result("G6", TRUE)
      OBVIOUS
    <2>3. r \in GateResults /\ r.gate = "G6" /\ ~r.skipped
      BY <2>2, ResultTyped DEF Gates
    <2>4. Says(r, mode, lost')
      BY <1>2, <1>3, <2>3 DEF Says
    <2>. QED  BY <1>1, <2>1, <2>2, <2>3, <2>4, SpeakingGate
  <1>4. CASE input.suite # None
    <2>1. input.suite \in [Versions -> [Tests -> Outcomes]]
      BY <1>2, <1>4, BundleFields
    <2>2. \A v \in Versions : Run(v) = <<>> \/ Run(v) = input.suite[v]
      BY DEF SuiteRun, Tree, Version, Versions
    <2>3. \A v \in Versions : DOMAIN Run(v) \subseteq Tests
      <3>1. DOMAIN <<>> = {}
        OBVIOUS
      <3>. QED  BY <2>1, <2>2, <3>1
    <2>4. \A S \in SUBSET Tests : IsFiniteSet(S) /\ Cardinality(S) \in Nat
      BY RunnerAssumption, FS_Subset, FS_CardinalityType
    <2>5. PICK p \in BOOLEAN : p = (NewlyFailing(pre, post) = {})
      OBVIOUS
    <2>. DEFINE n == Cardinality(DOMAIN post)
                g == Cardinality({t \in DOMAIN post : post[t] = "passed"})
    <2>6. n \in Nat /\ g \in Nat
      BY <2>3, <2>4 DEF Versions
    <2>7. Conclude([Result("G6", p) EXCEPT !.total = n, !.good = g])
      BY <1>4, <2>5 DEF ExistingTests
    <2>8. PICK r : r = [Result("G6", p) EXCEPT !.total = n, !.good = g]
      OBVIOUS
    <2>9. r \in GateResults /\ r.gate = "G6" /\ ~r.skipped /\ r.passed = p
      BY <2>6, <2>8 DEF Result, GateResults, Gates
    <2>10. p => SuiteKept(lost')
      <3>. SUFFICES ASSUME p, NEW t \in Tests,
                           input.suite["original"][t] = "passed",
                           input.suite["patched"][t] = "failed",
                           cut = {}, input.imports = {}, input.sound
                    PROVE  FALSE
        BY <1>1, <2>1 DEF SuiteKept, Versions, Outcomes
      <3>1. \A v \in Versions : Run(v) = input.suite[v]
        BY DEF SuiteRun, Imports, Tree, Version, Versions
      <3>2. t \in NewlyFailing(pre, post)
        BY <2>1, <3>1 DEF NewlyFailing, Versions
      <3>. QED  BY <2>5, <3>2
    <2>11. Says(r, mode, lost')
      BY <1>2, <2>9, <2>10 DEF Says
    <2>. HIDE DEF n, g
    <2>. QED  BY <1>1, <2>7, <2>8, <2>9, <2>11, SpeakingGate
  <1>. QED  BY <1>3, <1>4

\* Findings counted once for each rule and row.
LEMMA CountsKeys ==
    ASSUME NEW S \in SUBSET Findings
    PROVE  /\ Cardinality({Key(f) : f \in S}) \in Nat
           /\ Cardinality({Key(f) : f \in S}) = 0 <=> S = {}
  <1>. DEFINE K == {Key(f) : f \in S}
  <1>1. IsFiniteSet(S)
    BY RunnerAssumption, FS_Subset
  <1>2. [f \in S |-> Key(f)] \in Surjection(S, K)
    BY DEF Surjection
  <1>. HIDE DEF K
  <1>3. IsFiniteSet(K)
    BY <1>1, <1>2, FS_Surjection
  <1>4. Cardinality(K) \in Nat /\ (Cardinality(K) = 0 <=> K = {})
    BY <1>3, FS_CardinalityType, FS_EmptySet
  <1>. QED  BY <1>4 DEF K

LEMMA StaticStep ==
    ASSUME RunnerInv, NEW cut \in SUBSET (Versions \X {"ruff", "bandit"}), StaticAnalysis(cut)
    PROVE  RunnerInv'
  <1>. DEFINE Found(v) == Reported(input.lint[v], {c[2] : c \in {x \in cut : x[1] = v}})
              known == {Key(f) : f \in Found("original")}
              fresh == {f \in Found("patched") : Key(f) \notin known}
              Count(l) == Cardinality({Key(f) : f \in {g \in fresh : g.level = l}})
  <1>1. Due("G7") /\ UNCHANGED mode /\ lost' = lost \cup cut
    BY DEF StaticAnalysis, Loses
  <1>2. RunnerTypeOK /\ pc = "gates"
    BY <1>1 DEF RunnerInv, Due, Pending
  <1>3. CASE ~input.python
    <2>1. Conclude(Result("G7", TRUE))
      BY <1>3 DEF StaticAnalysis
    <2>2. PICK r : r = Result("G7", TRUE)
      OBVIOUS
    <2>3. r \in GateResults /\ r.gate = "G7" /\ ~r.skipped
      BY <2>2, ResultTyped DEF Gates
    <2>4. Says(r, mode, lost')
      BY <1>3, <2>3 DEF Says
    <2>. QED  BY <1>1, <2>1, <2>2, <2>3, <2>4, SpeakingGate
  <1>4. CASE input.python
    <2>1. \A v \in Versions : input.lint[v] \in SUBSET Findings
      BY <1>2, BundleFields
    <2>2. fresh \in SUBSET Findings
      BY <2>1 DEF Reported, Versions
    <2>3. ASSUME NEW l
          PROVE  Count(l) \in Nat /\ (Count(l) = 0 <=> \A f \in fresh : f.level # l)
      <3>1. {g \in fresh : g.level = l} \in SUBSET Findings
        BY <2>2
      <3>. HIDE DEF fresh
      <3>. QED  BY <3>1, CountsKeys
    <2>4. PICK p \in BOOLEAN : p = (Count("high") = 0)
      OBVIOUS
    <2>. DEFINE h == Count("high")
                m == Count("medium")
    <2>5. h \in Nat /\ m \in Nat
      BY <2>3
    <2>6. Conclude([Result("G7", p) EXCEPT !.high = h, !.medium = m])
      BY <1>4, <2>4 DEF StaticAnalysis
    <2>7. PICK r : r = [Result("G7", p) EXCEPT !.high = h, !.medium = m]
      OBVIOUS
    <2>8. r \in GateResults /\ r.gate = "G7" /\ ~r.skipped /\ r.passed = p
      <3>. HIDE DEF h, m
      <3>. QED  BY <2>5, <2>7 DEF Result, GateResults, Gates
    <2>9. cut = {} => IF p THEN \A f \in High("patched") : ~NewRule(f)
                      ELSE \E f \in High("patched") : NewRule(f) \/ Moved(f)
      <3>. SUFFICES ASSUME cut = {}
                    PROVE  IF p THEN \A f \in High("patched") : ~NewRule(f)
                           ELSE \E f \in High("patched") : NewRule(f) \/ Moved(f)
        OBVIOUS
      <3>1. \A v \in Versions : Found(v) = input.lint[v]
        BY DEF Reported
      <3>2. known = {Key(f) : f \in input.lint["original"]}
        BY <3>1 DEF Versions
      <3>3. \A f : f \in fresh /\ f.level = "high" <=> f \in High("patched") /\ Moved(f)
        BY <3>1, <3>2 DEF High, Moved, Versions
      <3>4. \A f : NewRule(f) => Moved(f)
        BY DEF NewRule, Moved, Key
      <3>5. p <=> \A f \in fresh : f.level # "high"
        BY <2>3, <2>4
      <3>. HIDE DEF fresh, Found, known, Count
      <3>. QED  BY <3>3, <3>4, <3>5
    <2>10. Says(r, mode, lost')
      BY <1>1, <2>8, <2>9 DEF Says
    <2>. HIDE DEF h, m
    <2>. QED  BY <1>1, <2>6, <2>7, <2>8, <2>10, SpeakingGate
  <1>. QED  BY <1>2, <1>3, <1>4, BundleFields

-----------------------------------------------------------------------------
LEMMA ReadStep == RunnerInv /\ ReadInput => RunnerInv'
  <1>. SUFFICES ASSUME RunnerInv, ReadInput PROVE RunnerInv'
    OBVIOUS
  <1>1. /\ pc = "input" /\ input \in Bundles /\ answer = None /\ at = 1 /\ results = <<>>
        /\ pc' = "gates" /\ UNCHANGED <<input, at, mode, results, answer, lost>>
        /\ \A i \in DOMAIN input.gates : input.gates[i] \in Gates
    BY DEF ReadInput, RunnerInv, RunnerTypeOK, InOrder
  <1>2. RunnerTypeOK'
    BY <1>1 DEF RunnerInv, RunnerTypeOK
  <1>3. Len(input'.gates) \in Nat /\ Len(results') = 0
    BY <1>1, <1>2, RunnerAssumption DEF BundleType
  <1>4. InOrder' /\ ResultsHonest'
    BY <1>1, <1>3 DEF InOrder, ResultsHonest
  <1>5. Promises'
    BY <1>1 DEF Promises, RegressionProven, SignalsHonest, DeltasHonest, RegressionsSlipUnseen,
           StaticDelta, Decided
  <1>. QED  BY <1>1, <1>2, <1>4, <1>5 DEF RunnerInv

\* An error result promises nothing.
LEMMA ErrorStep == RunnerInv /\ Finish(Error) => RunnerInv'
  <1>. SUFFICES ASSUME RunnerInv, Finish(Error) PROVE RunnerInv'
    OBVIOUS
  <1>1. pc' = "over" /\ answer'.code = 1 /\ UNCHANGED <<input, at, mode, results>>
    BY DEF Finish, Error
  <1>2. RunnerTypeOK' /\ InOrder' /\ ResultsHonest'
    BY <1>1 DEF RunnerInv, RunnerTypeOK, InOrder, ResultsHonest
  <1>3. Promises'
    BY <1>1 DEF Promises, RegressionProven, SignalsHonest, DeltasHonest, RegressionsSlipUnseen,
           StaticDelta, Decided
  <1>. QED  BY <1>1, <1>2, <1>3 DEF RunnerInv

LEMMA ReportStep == RunnerInv /\ Report => RunnerInv'
  <1>. SUFFICES ASSUME RunnerInv, Report PROVE RunnerInv'
    OBVIOUS
  <1>. DEFINE n == Len(results)
  <1>1. /\ pc = "gates" /\ RunnerTypeOK /\ pc' = "over" /\ answer' = Verdict
        /\ UNCHANGED <<input, at, mode, results, lost>>
    BY DEF Report, Finish, RunnerInv
  <1>2. n \in Nat /\ DOMAIN results = 1 .. n /\ \A i \in 1 .. n : results[i] \in GateResults
    BY <1>1 DEF RunnerTypeOK
  <1>3. \A i \in 1 .. n : Holds(results[i], mode, lost)
    BY <1>1 DEF RunnerInv, ResultsHonest
  <1>4. mode \in Modes
    BY <1>1 DEF RunnerTypeOK
  <1>5. RunnerTypeOK' /\ InOrder' /\ ResultsHonest'
    BY <1>1 DEF RunnerTypeOK, InOrder, ResultsHonest
  <1>6. PICK a : a = Verdict
    OBVIOUS
  <1>7. /\ a.passed <=> \A i \in 1 .. n : results[i].passed
        /\ a.mode = mode /\ a.signals = Signals
        /\ \A gate : gate \in a.ran <=> \E i \in Ran(gate) : TRUE
    BY <1>2, <1>6 DEF Verdict, Failing, Ran
  \* What stands behind a gate that ran.
  <1>8. ASSUME NEW gate, NEW i \in Ran(gate)
        PROVE  i \in 1 .. n /\ results[i].gate = gate /\ Says(results[i], mode, lost)
    BY <1>2, <1>3, <1>8 DEF Ran, Holds
  <1>9. ASSUME a.failed = "G7"
        PROVE  \E i \in Ran("G7") : ~results[i].passed
    <2>1. Failing # {} /\ a.failed = results[CHOOSE i \in Failing : TRUE].gate
      BY <1>6, <1>9, RunnerAssumption DEF Verdict, Gates
    <2>2. PICK i \in Failing : results[i].gate = "G7"
      BY <1>9, <2>1
    <2>. QED  BY <1>2, <1>3, <2>2 DEF Failing, Ran, Holds
  <1>10. a.passed /\ {"G4", "G5"} \subseteq a.ran =>
            /\ "failed" \in input.regression["original"] /\ input.family # "differs"
            /\ input.regression["patched"] = {"passed"}
    BY <1>7, <1>8 DEF Says
  <1>11. LET s == a.signals IN
         /\ s.regression = TRUE => "failed" \in input.regression["original"]
         /\ s.regression # None \/ s.ratio # None => ~s.degraded
         /\ s.degraded => {"G4", "G5", "G6"} \cap a.ran = {} /\ s.cap # None
         /\ s.build /\ "G3" \in a.ran => input.sound /\ a.mode # "syntax_only"
         /\ a.mode = "syntax_only" => ~s.build
    <2>0. /\ a.signals.regression =
                IF Ran("G4") = {} THEN None ELSE \A i \in Ran("G4") : results[i].passed
          /\ a.signals.degraded = (mode # "full")
          /\ a.signals.build = Built
      <3>1. Signals.regression =
                IF Ran("G4") = {} THEN None ELSE \A i \in Ran("G4") : results[i].passed
        BY Zenon DEF Signals
      <3>2. Signals.degraded = (mode # "full")
        BY Zenon DEF Signals
      <3>3. Signals.build = Built
        BY Zenon DEF Signals
      <3>. QED  BY <1>7, <3>1, <3>2, <3>3, Zenon
    <2>1. a.signals.regression = TRUE => \E i \in Ran("G4") : results[i].passed
      <3>1. CASE Ran("G4") = {}
        BY <2>0, <3>1, RunnerAssumption
      <3>2. CASE Ran("G4") # {}
        <4>1. PICK i : i \in Ran("G4")
          BY <3>2
        <4>. QED  BY <2>0, <3>2, <4>1, Zenon
      <3>. QED  BY <3>1, <3>2
    <2>2. a.signals.regression # None => Ran("G4") # {}
      BY <2>0, Zenon
    <2>3. a.signals.ratio # None => Ran("G6") # {}
      BY <1>7 DEF Signals
    <2>4. a.signals.degraded <=> mode # "full"
      BY <2>0
    <2>5. \A gate \in {"G4", "G5", "G6"} : Ran(gate) # {} => mode = "full"
      BY <1>8 DEF Says
    <2>6. mode # "full" => a.signals.cap \in Nat
      BY <1>4, <1>7 DEF Signals, Modes
    <2>7. a.signals.build <=>
              mode # "syntax_only" /\ \A i \in Ran("G2") \cup Ran("G3") : results[i].passed
      BY <2>0 DEF Built
    <2>. QED
      BY <1>7, <1>8, <2>1, <2>2, <2>3, <2>4, <2>5, <2>6, <2>7, RunnerAssumption DEF Says
  <1>12. a.passed /\ "G6" \in a.ran /\ input.suite # None =>
            \A t \in Tests :
                input.suite["original"][t] = "passed" /\ input.suite["patched"][t] # "passed" =>
                    \/ input.suite["patched"][t] \in {"error", "skipped"}
                    \/ \E v \in Versions : <<"suite", v>> \in lost
                    \/ input.imports # {}
                    \/ ~input.sound /\ "G3" \notin a.ran
    <2>. SUFFICES ASSUME a.passed, "G6" \in a.ran, input.suite # None
                  PROVE  SuiteKept(lost) /\ ("G3" \in a.ran => input.sound)
      BY DEF SuiteKept
    <2>. QED  BY <1>7, <1>8 DEF Says
  <1>13. lost = {} /\ input.python =>
            /\ a.failed = "G7" => \E f \in High("patched") : NewRule(f) \/ Moved(f)
            /\ a.passed /\ "G7" \in a.ran => \A f \in High("patched") : ~NewRule(f)
    BY <1>7, <1>8, <1>9 DEF Says
  <1>14. answer' = a /\ UNCHANGED <<input, lost>>
    BY <1>1, <1>6
  <1>15. RegressionProven'
    BY <1>10, <1>14 DEF RegressionProven, Decided
  <1>16. SignalsHonest'
    BY <1>11, <1>14 DEF SignalsHonest, Decided
  <1>17. RegressionsSlipUnseen'
    BY <1>12, <1>14 DEF RegressionsSlipUnseen, Decided
  <1>18. StaticDelta'
    BY <1>13, <1>14 DEF StaticDelta, Decided, High, NewRule, Moved, Key
  <1>. QED
    BY <1>1, <1>5, <1>15, <1>16, <1>17, <1>18 DEF RunnerInv, Promises, DeltasHonest

LEMMA RunnerInit == Init => RunnerInv
  <1>. SUFFICES ASSUME Init PROVE RunnerInv
    OBVIOUS
  <1>1. RunnerTypeOK /\ InOrder /\ ResultsHonest
    BY DEF Init, RunnerTypeOK, InOrder, ResultsHonest, Modes
  <1>. QED  BY <1>1, Kept DEF Init, RunnerInv

LEMMA RunnerNext == RunnerInv /\ [Next]_vars => RunnerInv'
  <1>. SUFFICES ASSUME RunnerInv, [Next]_vars PROVE RunnerInv'
    OBVIOUS
  <1>1. CASE UNCHANGED vars
    <2>1. RunnerTypeOK' /\ InOrder' /\ ResultsHonest' /\ (pc' # "over" => answer' = None)
      BY <1>1 DEF vars, RunnerInv, RunnerTypeOK, InOrder, ResultsHonest, Holds, Says, SuiteKept,
             High, NewRule, Moved, Key
    <2>2. RegressionProven' /\ SignalsHonest'
      BY <1>1 DEF vars, RunnerInv, Promises, RegressionProven, SignalsHonest, Decided
    <2>3. RegressionsSlipUnseen' /\ StaticDelta'
      BY <1>1 DEF vars, RunnerInv, Promises, DeltasHonest, RegressionsSlipUnseen, StaticDelta,
             Decided, Key
    <2>. QED  BY <2>1, <2>2, <2>3 DEF RunnerInv, Promises, DeltasHonest
  <1>2. CASE RefuseInput \/ GateRaises
    BY <1>2, ErrorStep DEF RefuseInput, GateRaises
  <1>. QED
    BY <1>1, <1>2, ReadStep, SkipStep, ReportStep, DependenciesStep, PreStep, PostStep,
       SecurityStep, CompileStep, ExistingTestsStep, StaticStep DEF Next

LEMMA AlwaysRunnerInv == Spec => []RunnerInv
  BY RunnerInit, RunnerNext, PTL DEF Spec

\* A result that passed with G4 and G5 run was given for a test that fails on the original code
\* and passes on the patched, whichever gates ran before and whatever they left under /work.
THEOREM PassedMeansProven == Spec => []RegressionProven
  <1>1. RunnerInv => RegressionProven
    BY DEF RunnerInv, Promises
  <1>. QED  BY <1>1, AlwaysRunnerInv, PTL

\* signals_for_scoring claims only what the gates that ran have shown, in every mode.
THEOREM SignalsClaimNoMore == Spec => []SignalsHonest
  <1>1. RunnerInv => SignalsHonest
    BY DEF RunnerInv, Promises
  <1>. QED  BY <1>1, AlwaysRunnerInv, PTL

\* The gates that compare before and after blame a patch for what it did, and miss only what
\* they cannot see.
THEOREM DeltasAreThePatchs == Spec => []DeltasHonest
  <1>1. RunnerInv => DeltasHonest
    BY DEF RunnerInv, Promises
  <1>. QED  BY <1>1, AlwaysRunnerInv, PTL
=============================================================================
