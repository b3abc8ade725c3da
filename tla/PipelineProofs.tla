--------------------------- MODULE PipelineProofs ---------------------------
(***************************************************************************)
(* One investigation for any replies, results and reviews that keep to     *)
(* their schemas, and any number of attempts: the loop and its history     *)
(* agree, an analysis that survives is about the commit, what is published *)
(* is safe to publish, whatever the arithmetic of the score, and a patch   *)
(* touches of the commit what it may, applied to windows or to the files.  *)
(***************************************************************************)
EXTENDS PatchPipeline, FiniteSetTheorems, SequenceTheorems, WellFoundedInduction, TLAPS

Gates == Routed \cup Unrouted
Entries == [attempt : Nat, gate : Gates]
Stages == {"reason", "patch", "validate", "repair", "critique", "score", "over"}

-----------------------------------------------------------------------------
\* The loop: what is in the history depends on where the investigation is.
LoopInv ==
    /\ pc \in Stages
    /\ attempt \in 1 .. MaxAttempts
    /\ attempts \in Seq(Entries)
    /\ Len(attempts) \in {attempt - 1, attempt}
    /\ pc # "over" => Len(attempts) = attempt - 1
    /\ pc = "repair" => validation.failed \in Gates
    /\ \A i \in DOMAIN attempts : attempts[i].attempt = i
    /\ \A i \in DOMAIN attempts : i < attempt => attempts[i].gate \in Routed
    /\ outcome \in {"validation_failed", "UnroutableGateError"} => pc = "over"
    /\ outcome = "validation_failed" => Len(attempts) = MaxAttempts
    /\ outcome = "UnroutableGateError" =>
          /\ Len(attempts) = attempt - 1 /\ validation.failed \in Unrouted
          /\ attempt < MaxAttempts

LEMMA LoopInit == Init => LoopInv
  <1>. SUFFICES ASSUME Init  PROVE LoopInv
    OBVIOUS
  <1>1. attempts = <<>> /\ Len(attempts) = 0 /\ attempts \in Seq(Entries)
    BY DEF Init
  <1>2. outcome \notin {"validation_failed", "UnroutableGateError"} /\ MaxAttempts \in Nat \ {0}
    BY LimitAssumption DEF Init
  <1>. QED  BY <1>1, <1>2 DEF Init, LoopInv, Stages

\* A step that neither repairs nor validates leaves the loop as it is.
LEMMA LoopKept ==
  ASSUME LoopInv, UNCHANGED <<attempt, attempts>>, pc # "over",
         pc' \in Stages \ {"repair"}, outcome' \notin {"validation_failed", "UnroutableGateError"}
  PROVE  LoopInv'
  BY DEF LoopInv

LEMMA LoopRepair ==
  ASSUME LoopInv, Repair
  PROVE  LoopInv'
  <1>. DEFINE entry == [attempt |-> attempt, gate |-> validation.failed]
              summary == Append(attempts, entry)
  <1>1. /\ attempt \in 1 .. MaxAttempts /\ MaxAttempts \in Nat
        /\ attempts \in Seq(Entries) /\ Len(attempts) = attempt - 1
        /\ validation.failed \in Gates
    <2>1. pc = "repair"
      BY DEF Repair
    <2>2. MaxAttempts \in Nat
      BY LimitAssumption
    <2>. QED  BY <2>1, <2>2 DEF LoopInv
  <1>2. entry \in Entries
    BY <1>1 DEF Entries
  <1>3. /\ summary \in Seq(Entries) /\ Len(summary) = attempt
        /\ \A i \in 1 .. Len(attempts) : summary[i] = attempts[i]
        /\ summary[attempt] = entry
    <2>. HIDE DEF entry
    <2>1. /\ summary \in Seq(Entries)
          /\ Len(summary) = Len(attempts) + 1
          /\ \A i \in 1 .. Len(attempts) : summary[i] = attempts[i]
          /\ summary[Len(attempts) + 1] = entry
      BY <1>1, <1>2, AppendProperties
    <2>2. Len(attempts) + 1 = attempt
      BY <1>1
    <2>. QED  BY <2>1, <2>2
  <1>4. entry.attempt = attempt /\ entry.gate = validation.failed
    OBVIOUS
  <1>5. \/ /\ Exhausted /\ pc' = "over" /\ outcome' = "validation_failed"
           /\ attempts' = summary /\ attempt' = attempt
        \/ /\ ~Exhausted /\ validation.failed \notin Routed
           /\ pc' = "over" /\ outcome' = "UnroutableGateError"
           /\ attempts' = attempts /\ attempt' = attempt
        \/ /\ ~Exhausted /\ validation.failed \in Routed
           /\ pc' = Reroute(validation.failed) /\ outcome' = outcome
           /\ attempts' = summary /\ attempt' = attempt + 1
    BY DEF Repair, End
  <1>. HIDE DEF entry, summary
  <1>6. DOMAIN attempts = 1 .. attempt - 1 /\ DOMAIN summary = 1 .. attempt
    BY <1>1, <1>3, LenProperties
  <1>7. \A i \in DOMAIN summary : summary[i].attempt = i
    BY <1>1, <1>3, <1>4, <1>6 DEF LoopInv
  <1>8. \A i \in DOMAIN summary : i < attempt => summary[i].gate \in Routed
    BY <1>1, <1>3, <1>6 DEF LoopInv
  <1>9. CASE /\ Exhausted /\ pc' = "over" /\ outcome' = "validation_failed"
             /\ attempts' = summary /\ attempt' = attempt
    <2>1. attempt = MaxAttempts
      BY <1>1, <1>9 DEF Exhausted
    <2>. QED  BY <1>1, <1>3, <1>7, <1>8, <1>9, <2>1 DEF LoopInv, Stages
  <1>10. CASE /\ ~Exhausted /\ validation.failed \notin Routed
              /\ pc' = "over" /\ outcome' = "UnroutableGateError"
              /\ attempts' = attempts /\ attempt' = attempt
    <2>1. validation' = validation
      BY DEF Repair
    <2>2. attempt < MaxAttempts /\ validation.failed \in Unrouted
      BY <1>1, <1>10 DEF Exhausted, Gates
    <2>. QED  BY <1>1, <1>10, <2>1, <2>2 DEF LoopInv, Stages
  <1>11. CASE /\ ~Exhausted /\ validation.failed \in Routed
              /\ pc' = Reroute(validation.failed) /\ outcome' = outcome
              /\ attempts' = summary /\ attempt' = attempt + 1
    <2>1. attempt' \in 1 .. MaxAttempts /\ pc' \in {"reason", "patch"}
      BY <1>1, <1>11 DEF Exhausted, Reroute
    <2>2. outcome' \notin {"validation_failed", "UnroutableGateError"}
      BY <1>11 DEF LoopInv, Repair
    <2>3. \A i \in DOMAIN attempts' : i < attempt' => attempts'[i].gate \in Routed
      BY <1>1, <1>3, <1>4, <1>6, <1>8, <1>11
    <2>. QED  BY <1>1, <1>3, <1>7, <1>11, <2>1, <2>2, <2>3 DEF LoopInv, Stages
  <1>. QED  BY <1>5, <1>9, <1>10, <1>11

LEMMA LoopValidate ==
  ASSUME LoopInv, NEW answer \in Answers, Validate(answer)
  PROVE  LoopInv'
  <1>1. /\ UNCHANGED <<attempt, attempts, outcome>> /\ pc = "validate"
        /\ pc' = IF validation'.passed THEN "critique" ELSE "repair"
        /\ validation' = IF HostGate(tree') = None THEN answer ELSE Failed(HostGate(tree'))
    BY DEF Validate
  <1>2. ~validation'.passed => validation'.failed \in Gates
    <2>1. CASE HostGate(tree') = None
      <3>1. validation' = answer
        BY <1>1, <2>1
      <3>2. (answer.passed <=> answer.failed = None) /\ answer.failed \in Routed \cup Unrouted \cup {None}
        BY AnswerAssumption
      <3>3. ~answer.passed => answer.failed \in Gates
        BY <3>2 DEF Gates
      <3>. QED  BY <3>1, <3>3
    <2>2. CASE HostGate(tree') # None
      <3>1. HostGate(tree') \in {"G0", "G1"}
        BY <2>2 DEF HostGate
      <3>2. validation'.failed = HostGate(tree')
        BY <1>1, <2>2 DEF Failed
      <3>. QED  BY <3>1, <3>2 DEF Gates, Routed, Unrouted
    <2>. QED  BY <2>1, <2>2
  <1>. QED  BY <1>1, <1>2 DEF LoopInv, Stages

LEMMA LoopNext == LoopInv /\ [Next]_vars => LoopInv'
  <1>. SUFFICES ASSUME LoopInv, [Next]_vars  PROVE LoopInv'
    OBVIOUS
  <1>0. outcome \in {"validation_failed", "UnroutableGateError"} => pc = "over"
    BY DEF LoopInv
  <1>1. CASE ReasonerUnavailable \/ PatcherUnavailable \/ CriticUnavailable
    BY <1>0, <1>1, LoopKept
       DEF ReasonerUnavailable, PatcherUnavailable, CriticUnavailable, End, Stages
  <1>2. ASSUME NEW reply \in Causes, Reason(reply)  PROVE LoopInv'
    BY <1>0, <1>2, LoopKept DEF Reason, End, Stages
  <1>3. ASSUME NEW reply \in Patches, Patch(reply)  PROVE LoopInv'
    BY <1>0, <1>3, LoopKept DEF Patch, End, Code, Stages
  <1>4. ASSUME NEW answer \in Answers, Validate(answer)  PROVE LoopInv'
    BY <1>4, LoopValidate
  <1>5. CASE Repair
    BY <1>5, LoopRepair
  <1>6. ASSUME NEW reply \in Reviews, Critique(reply)  PROVE LoopInv'
    BY <1>0, <1>6, LoopKept DEF Critique, Stages
  <1>7. ASSUME NEW autoMerge \in BOOLEAN, Score(autoMerge)  PROVE LoopInv'
    BY <1>0, <1>7, LoopKept DEF Score, End, Stages
  <1>8. CASE UNCHANGED vars
    BY <1>8 DEF vars, LoopInv
  <1>. QED  BY <1>1, <1>2, <1>3, <1>4, <1>5, <1>6, <1>7, <1>8 DEF Next

\* For every limit and every order of failures the history is complete and in order, and
\* the loop gives up when the attempts are used, or on a failure that has no route.
THEOREM HistoryKept == Spec => []AttemptsKept
  <1>1. LoopInv => AttemptsKept
    BY DEF LoopInv, AttemptsKept
  <1>. QED  BY <1>1, LoopInit, LoopNext, PTL DEF Spec

-----------------------------------------------------------------------------
\* The analysis is the surviving part of a reply, over the context of this run.
Analysed == \E c \in Causes : Survives(c) /\ analysis = Analysis(c) /\ dropped = Dropped(c)

AnalysisInv ==
    /\ bundle \in Bundles
    /\ pc \in {"reason", "over"} \/ Analysed
    /\ analysis # None => Analysed

LEMMA AnalysisInit == Init => AnalysisInv
  BY DEF Init, AnalysisInv

LEMMA AnalysisKept ==
  ASSUME AnalysisInv, UNCHANGED <<bundle, analysis, dropped>>,
         pc' \in {"reason", "over"} \/ pc \notin {"reason", "over"} \/ pc' = pc
  PROVE  AnalysisInv'
  <1>1. Analysed => Analysed'
    <2>. SUFFICES ASSUME Analysed  PROVE Analysed'
      OBVIOUS
    <2>1. PICK c \in Causes : Survives(c) /\ analysis = Analysis(c) /\ dropped = Dropped(c)
      BY DEF Analysed
    <2>2. Survives(c)' /\ analysis' = Analysis(c)' /\ dropped' = Dropped(c)'
      BY <2>1 DEF Survives, Analysis, Dropped, Grounded, Kept, Bound
    <2>. QED  BY <2>2 DEF Analysed
  <1>. QED  BY <1>1 DEF AnalysisInv

LEMMA AnalysisReason ==
  ASSUME AnalysisInv, NEW c \in Causes, Reason(c)
  PROVE  AnalysisInv'
  <1>1. CASE Survives(c)
    <2>1. /\ analysis' = Analysis(c) /\ dropped' = Dropped(c) /\ bundle' = bundle
      BY <1>1 DEF Reason
    <2>2. Survives(c)' /\ analysis' = Analysis(c)' /\ dropped' = Dropped(c)'
      BY <1>1, <2>1 DEF Survives, Analysis, Dropped, Grounded, Kept, Bound
    <2>3. Analysed'
      BY <2>2 DEF Analysed
    <2>. QED  BY <2>1, <2>3 DEF AnalysisInv
  <1>2. CASE ~Survives(c)
    <2>1. UNCHANGED <<bundle, analysis, dropped>> /\ pc' \in {pc, "over"}
      BY <1>2 DEF Reason, End
    <2>. QED  BY <2>1, AnalysisKept
  <1>. QED  BY <1>1, <1>2

LEMMA AnalysisNext == AnalysisInv /\ [Next]_vars => AnalysisInv'
  <1>. SUFFICES ASSUME AnalysisInv, [Next]_vars  PROVE AnalysisInv'
    OBVIOUS
  <1>1. CASE ReasonerUnavailable \/ PatcherUnavailable \/ CriticUnavailable
    BY <1>1, AnalysisKept DEF ReasonerUnavailable, PatcherUnavailable, CriticUnavailable, End
  <1>2. ASSUME NEW reply \in Causes, Reason(reply)  PROVE AnalysisInv'
    BY <1>2, AnalysisReason
  <1>3. ASSUME NEW reply \in Patches, Patch(reply)  PROVE AnalysisInv'
    BY <1>3, AnalysisKept DEF Patch
  <1>4. ASSUME NEW answer \in Answers, Validate(answer)  PROVE AnalysisInv'
    BY <1>4, AnalysisKept DEF Validate
  <1>5. CASE Repair
    BY <1>5, AnalysisKept DEF Repair
  <1>6. ASSUME NEW reply \in Reviews, Critique(reply)  PROVE AnalysisInv'
    BY <1>6, AnalysisKept DEF Critique
  <1>7. ASSUME NEW autoMerge \in BOOLEAN, Score(autoMerge)  PROVE AnalysisInv'
    BY <1>7, AnalysisKept DEF Score
  <1>8. CASE UNCHANGED vars
    BY <1>8, AnalysisKept DEF vars
  <1>. QED  BY <1>1, <1>2, <1>3, <1>4, <1>5, <1>6, <1>7, <1>8 DEF Next

\* A window that was read from a file has only lines of the file, and ends in it.
LEMMA WindowInFile ==
  ASSUME NEW b \in Bundles, NEW p \in DOMAIN b.files
  PROVE  /\ Range(b.files[p].lines) \subseteq Range(Repo[p])
         /\ b.files[p].first >= 1
         /\ b.files[p].first + Len(b.files[p].lines) - 1 <= Len(Repo[p])
         /\ b.files[p].first \in Int /\ Len(b.files[p].lines) \in Nat /\ Len(Repo[p]) \in Nat
  <1>. DEFINE file == Repo[p]
              part == b.files[p].lines
              index == b.files[p].first - 1
  <1>1. /\ file \in Seq(Text) /\ part \in Seq(Text) /\ b.files[p].first \in Int
        /\ index >= 0 /\ index + Len(part) <= Len(file)
        /\ SubSeq(file, index + 1, index + Len(part)) = part
    BY ContextAssumption DEF At
  <1>2. Len(part) \in Nat /\ Len(file) \in Nat /\ DOMAIN file = 1 .. Len(file)
        /\ DOMAIN part = 1 .. Len(part)
    BY <1>1, LenProperties
  <1>3. ASSUME NEW i \in 1 .. Len(part)  PROVE part[i] \in Range(file)
    <2>1. index + i \in 1 .. Len(file)
      BY <1>1, <1>2
    <2>2. SubSeq(file, index + 1, index + Len(part))[i] = file[index + i]
      BY <1>1, <1>2
    <2>. QED  BY <1>1, <1>2, <2>1, <2>2 DEF Range
  <1>4. Range(part) \subseteq Range(file)
    BY <1>2, <1>3 DEF Range
  <1>5. b.files[p].first >= 1 /\ b.files[p].first + Len(part) - 1 <= Len(file)
    <2>1. \A a, n, m \in Int : a - 1 >= 0 /\ (a - 1) + n <= m => a >= 1 /\ a + n - 1 <= m
      OBVIOUS
    <2>. HIDE DEF part, file
    <2>2. b.files[p].first - 1 >= 0 /\ (b.files[p].first - 1) + Len(part) <= Len(file)
      BY <1>1
    <2>. QED  BY <1>1, <1>2, <2>1, <2>2
  <1>. QED  BY <1>1, <1>2, <1>4, <1>5

\* Whatever a model claims, an analysis that patching and scoring go on concludes, and
\* quotes the commit where it says it does.
THEOREM AnalysisHolds == Spec => []EvidenceHolds
  <1>1. AnalysisInv => EvidenceHolds
    <2>. SUFFICES ASSUME AnalysisInv, analysis # None  PROVE EvidenceHolds
      BY DEF EvidenceHolds
    <2>1. PICK c \in Causes : Survives(c) /\ analysis = Analysis(c)
      BY DEF AnalysisInv, Analysed
    <2>. DEFINE places == {i \in DOMAIN c.chain : \A e \in c.chain[i].evidence : Bound(e)}
    <2>2. analysis.chain = [i \in places |-> c.chain[i]]
      BY <2>1 DEF Analysis, Kept, Restrict
    <2>3. \E i \in DOMAIN analysis.chain : analysis.chain[i].type = "conclude"
      BY <2>1 DEF Survives, Analysis
    <2>4. analysis.files \subseteq DOMAIN bundle.files /\ bundle \in Bundles
      BY <2>1 DEF Analysis, AnalysisInv
    <2>5. analysis.files \subseteq DOMAIN Repo
      BY <2>4, ContextAssumption
    <2>6. ASSUME NEW i \in DOMAIN analysis.chain, NEW e \in analysis.chain[i].evidence,
                 e.kind = "file"
          PROVE  /\ e.excerpt \in Range(Repo[e.path])
                 /\ e.from >= 1 /\ e.to <= Len(Repo[e.path])
      <3>1. i \in places /\ analysis.chain[i] = c.chain[i]
        BY <2>2
      <3>2. Bound(e) /\ e.from \in Int /\ e.to \in Int
        BY <2>6, <3>1, ReplyAssumption
      <3>. DEFINE f == bundle.files[e.path]
      <3>3. /\ e.path \in DOMAIN bundle.files
            /\ f.first <= e.from /\ e.from <= e.to /\ e.to <= f.first + Len(f.lines) - 1
            /\ e.excerpt \in Range(f.lines)
        BY <2>6, <3>2 DEF Bound
      <3>4. /\ Range(f.lines) \subseteq Range(Repo[e.path]) /\ f.first >= 1
            /\ f.first + Len(f.lines) - 1 <= Len(Repo[e.path])
            /\ f.first \in Int /\ Len(f.lines) \in Nat /\ Len(Repo[e.path]) \in Nat
        BY <2>4, <3>3, WindowInFile
      <3>5. e.excerpt \in Range(Repo[e.path])
        BY <3>3, <3>4
      <3>. HIDE DEF f
      <3>6. e.from >= 1 /\ e.to <= Len(Repo[e.path])
        BY <3>2, <3>3, <3>4
      <3>. QED  BY <3>5, <3>6
    <2>. QED  BY <2>3, <2>5, <2>6 DEF EvidenceHolds
  <1>. QED  BY <1>1, AnalysisInit, AnalysisNext, PTL DEF Spec

-----------------------------------------------------------------------------
\* A gate that applies bounds the confidence, and none raises it above its bound.
LEMMA LimitedBound ==
  ASSUME NEW yes \in BOOLEAN, NEW x \in Int, NEW limit \in Int
  PROVE  /\ Limited(yes, x, limit) \in Int /\ Limited(yes, x, limit) <= x
         /\ yes => Limited(yes, x, limit) <= limit
  BY DEF Limited, Lower

LEMMA ZeroedValue ==
  ASSUME NEW yes \in BOOLEAN, NEW x \in Int
  PROVE  /\ Zeroed(yes, x) \in Int
         /\ yes => Zeroed(yes, x) = 0
         /\ ~yes => Zeroed(yes, x) = x
  BY DEF Zeroed

\* The signals of the results; their build is a Boolean, their cap on the band one of two.
Signals == {a.signals : a \in Answers}

LEMMA SignalsType ==
  \A s \in Signals : s.build \in BOOLEAN /\ s.bandCap \in {None, "low"}
  BY AnswerAssumption DEF Signals

\* What five gates in a row leave of a confidence.
LEMMA GatesInARow ==
  ASSUME NEW c \in Int, NEW unbuilt \in BOOLEAN, NEW rejects \in BOOLEAN,
         NEW insecure \in BOOLEAN, NEW unproven \in BOOLEAN, NEW poor \in BOOLEAN,
         NEW gated,
         gated = Limited(poor,
                   Limited(unproven,
                     Zeroed(insecure, Limited(rejects, Zeroed(unbuilt, c), 250000)),
                     500000),
                   450000)
  PROVE  /\ gated \in Int
         /\ unbuilt \/ rejects \/ insecure => gated <= 250000
         /\ unproven => gated <= 500000
         /\ poor => gated <= 450000
  <1>. DEFINE built == Zeroed(unbuilt, c)
              rejected == Limited(rejects, built, 250000)
              secure == Zeroed(insecure, rejected)
              tested == Limited(unproven, secure, 500000)
  <1>1. built \in Int /\ (unbuilt => built = 0)
    BY ZeroedValue
  <1>2. gated = Limited(poor, tested, 450000)
    OBVIOUS
  <1>. HIDE DEF built
  <1>3. rejected \in Int /\ rejected <= built /\ (rejects => rejected <= 250000)
    BY <1>1, LimitedBound
  <1>. HIDE DEF rejected
  <1>4. secure \in Int /\ (insecure => secure = 0) /\ (~insecure => secure = rejected)
    BY <1>3, ZeroedValue
  <1>. HIDE DEF secure
  <1>5. tested \in Int /\ tested <= secure /\ (unproven => tested <= 500000)
    BY <1>4, LimitedBound
  <1>. HIDE DEF tested
  <1>6. gated \in Int /\ gated <= tested /\ (poor => gated <= 450000)
    BY <1>2, <1>5, LimitedBound
  <1>7. unbuilt \/ rejects \/ insecure => secure <= 250000
    BY <1>1, <1>3, <1>4
  <1>. QED  BY <1>4, <1>5, <1>6, <1>7

LEMMA HardGatesBound ==
  ASSUME NEW c \in Int, NEW s \in Signals, NEW quality \in Int
  PROVE  /\ HardGates(c, s, review, quality) \in Int
         /\ NeverPublish(s, review) => HardGates(c, s, review, quality) <= 250000
         /\ ~Proven(s) => HardGates(c, s, review, quality) <= 500000
         /\ quality < 40 => HardGates(c, s, review, quality) <= 450000
  <1>. DEFINE gated == HardGates(c, s, review, quality)
              unbuilt == ~s.build
              rejects == Rejects(review)
              insecure == CriticalSecurity(review)
              unproven == ~Proven(s)
              poor == quality < 40
  <1>1. gated = Limited(poor,
                  Limited(unproven,
                    Zeroed(insecure, Limited(rejects, Zeroed(unbuilt, c), 250000)),
                    500000),
                  450000)
    BY DEF HardGates
  <1>2. /\ unbuilt \in BOOLEAN /\ rejects \in BOOLEAN /\ insecure \in BOOLEAN
        /\ unproven \in BOOLEAN /\ poor \in BOOLEAN
    BY DEF Rejects, CriticalSecurity
  <1>. HIDE DEF gated, unbuilt, rejects, insecure, unproven, poor
  <1>3. /\ gated \in Int
        /\ unbuilt \/ rejects \/ insecure => gated <= 250000
        /\ unproven => gated <= 500000
        /\ poor => gated <= 450000
    BY <1>1, <1>2, GatesInARow
  <1>4. NeverPublish(s, review) => unbuilt \/ rejects \/ insecure
    BY DEF NeverPublish, unbuilt, rejects, insecure
  <1>5. NeverPublish(s, review) => gated <= 250000
    BY <1>3, <1>4
  <1>6. ~Proven(s) => gated <= 500000
    BY <1>3 DEF unproven
  <1>7. quality < 40 => gated <= 450000
    BY <1>3 DEF poor
  <1>. QED  BY <1>3, <1>5, <1>6, <1>7 DEF gated

\* For every confidence the arithmetic may come to, a decision is safe: what must never be
\* published ends in the lowest band, and a pull request that is no draft has its test.
LEMMA DecisionSafe ==
  ASSUME NEW c \in Int, NEW m \in BOOLEAN, NEW quality \in Int, NEW s \in Signals
  PROVE  SafeToPublish(Decision(c, s, review, quality, m), s, quality)
  <1>. DEFINE gated == HardGates(c, s, review, quality)
              band == CappedBand(Band(gated), s.bandCap)
              d == Decision(c, s, review, quality, m)
  <1>1. /\ gated \in Int
        /\ NeverPublish(s, review) => gated <= 250000
        /\ ~Proven(s) => gated <= 500000
        /\ quality < 40 => gated <= 450000
    BY HardGatesBound
  <1>2. /\ d.band = band /\ d.mode = PublishMode(band)
        /\ d.publish = (band # "insufficient" /\ ~NeverPublish(s, review))
        /\ d.merge = (band = "high" /\ m)
    BY DEF Decision, gated
  <1>3. /\ Band(gated) \in {"high", "medium", "low", "insufficient"}
        /\ gated < 400000 => Band(gated) = "insufficient"
        /\ gated < 600000 => Band(gated) \in {"low", "insufficient"}
    BY <1>1 DEF Band
  <1>4. /\ band \in {"high", "medium", "low", "insufficient"}
        /\ Band(gated) \in {"low", "insufficient"} => band = Band(gated)
        /\ s.bandCap = "low" => band \in {"low", "insufficient"}
    BY <1>3, SignalsType DEF CappedBand
  <1>5. NeverPublish(s, review) => band = "insufficient"
    BY <1>1, <1>3, <1>4
  <1>6. ~Proven(s) \/ quality < 40 \/ s.bandCap # None => band \in {"low", "insufficient"}
    <2>1. ~Proven(s) \/ quality < 40 => gated < 600000
      BY <1>1
    <2>. QED  BY <1>3, <1>4, <2>1, SignalsType
  <1>. HIDE DEF band, d
  <1>7. /\ PublishMode(band) = "open_pr" <=> band \in {"high", "medium"}
        /\ PublishMode(band) = "analysis_only" <=> band = "insufficient"
    BY <1>4 DEF PublishMode
  <1>8. /\ d.publish => ~NeverPublish(s, review)
        /\ d.publish <=> d.mode # "analysis_only"
        /\ d.merge => d.mode = "open_pr"
    BY <1>2, <1>5, <1>7
  <1>9. d.mode = "open_pr" => Proven(s) /\ quality >= 40 /\ s.bandCap = None
    BY <1>2, <1>6, <1>7
  <1>10. SafeToPublish(d, s, quality)
    BY <1>8, <1>9 DEF SafeToPublish
  <1>. QED  BY <1>10 DEF d

-----------------------------------------------------------------------------
\* The confidence is a number: each component is cut to its range.
LEMMA ClampType == \A x \in Int : Clamp(x) \in Int
  BY DEF Clamp, Lower, Unit

LEMMA ValidationType ==
  ASSUME NEW s \in Signals, attempt \in Int  PROVE ValidationComponent(s, attempt) \in Int
  <1>. DEFINE sum == Points(s.build, 3000) + Points(Proven(s), 2500)
                     + (IF s.ratio = None THEN 0 ELSE 25 * s.ratio)
                     + Points(s.high = 0, 1000) + 500 + Points(s.medium = 0, 500)
                     - 500 * (attempt - 1)
  <1>1. \A yes \in BOOLEAN : \A n \in Int : Points(yes, n) \in Int
    BY DEF Points
  <1>2. /\ (IF s.ratio = None THEN 0 ELSE 25 * s.ratio) \in Int
        /\ s.cap = None \/ 100 * s.cap \in Int
    <2>1. PICK a \in Answers : s = a.signals
      BY DEF Signals
    <2>2. /\ a.signals.ratio \in 0 .. 100 \cup {None}
          /\ a.signals.cap \in 0 .. 100 \cup {None}
      BY AnswerAssumption
    <2>3. /\ s.ratio = None \/ s.ratio \in Int
          /\ s.cap = None \/ s.cap \in Int
      BY <2>1, <2>2
    <2>. QED  BY <2>3
  <1>3. /\ Points(s.build, 3000) \in Int /\ Points(Proven(s), 2500) \in Int
        /\ Points(s.high = 0, 1000) \in Int /\ Points(s.medium = 0, 500) \in Int
    BY DEF Points
  <1>4. sum \in Int
    BY <1>2, <1>3
  <1>5. ValidationComponent(s, attempt) =
          IF s.cap = None THEN Clamp(sum) ELSE Lower(Clamp(sum), 100 * s.cap)
    BY DEF ValidationComponent
  <1>. HIDE DEF sum
  <1>. QED  BY <1>2, <1>4, <1>5, ClampType DEF Lower

\* A review as S10 keeps it, or none.
Reviewed ==
    \/ review = None
    \/ \E r \in Reviews :
          review = [verdict |-> r.verdict, agreement |-> r.agreement,
                    findings |-> r.findings, blocking |-> Blocking(r)]

LEMMA CriticType ==
  ASSUME Reviewed  PROVE CriticComponent(review) \in Int
  <1>1. CASE review = None
    BY <1>1 DEF CriticComponent
  <1>2. CASE review # None
    <2>1. PICK r \in Reviews :
            review = [verdict |-> r.verdict, agreement |-> r.agreement,
                      findings |-> r.findings, blocking |-> Blocking(r)]
      BY <1>2 DEF Reviewed
    <2>2. /\ review.verdict \in {"approve", "approve_with_notes", "request_changes", "reject"}
          /\ review.agreement \in Int /\ IsFiniteSet(review.findings)
      BY <2>1, ReplyAssumption
    <2>. DEFINE of(x) == {f \in review.findings : f.severity = x}
    <2>3. \A x : Cardinality(of(x)) \in Nat
      <3>. TAKE x
      <3>1. IsFiniteSet(of(x))
        BY <2>2, FS_Subset
      <3>. QED  BY <3>1, FS_CardinalityType
    <2>4. Weight(review.verdict) \in Int
      BY <2>2 DEF Weight
    <2>5. Weight(review.verdict) * review.agreement \in Int
      <3>1. \A x, y \in Int : x * y \in Int
        OBVIOUS
      <3>. QED  BY <2>2, <2>4, <3>1
    <2>6. CriticComponent(review) =
            Clamp(Weight(review.verdict) * review.agreement
                  - 1500 * Cardinality(of("high")) - 500 * Cardinality(of("medium")))
      BY <1>2 DEF CriticComponent
    <2>. HIDE DEF of
    <2>7. Cardinality(of("high")) \in Int /\ Cardinality(of("medium")) \in Int
      <3>1. Cardinality(of("high")) \in Nat /\ Cardinality(of("medium")) \in Nat
        BY <2>3, Zenon
      <3>. QED  BY <3>1
    <2>8. Weight(review.verdict) * review.agreement
            - 1500 * Cardinality(of("high")) - 500 * Cardinality(of("medium")) \in Int
      BY <2>5, <2>7
    <2>. QED  BY <2>6, <2>8, ClampType
  <1>. QED  BY <1>1, <1>2

LEMMA EvidenceType ==
  ASSUME NEW kept \in Nat, dropped \in Nat
  PROVE  EvidenceComponent(analysis, bundle, kept, dropped) \in Int
  <1>. DEFINE share == IF kept + dropped = 0 THEN 5000 ELSE (5000 * kept) \div (kept + dropped)
              cites == Points(CitesFailurePoint(analysis, bundle), 2000)
              correlated == Points(bundle.correlated, 1500)
              internal == Points(~analysis.external, 1500)
  <1>1. share \in Int
    <2>1. \A x \in Int : \A y \in Nat \ {0} : x \div y \in Int
      OBVIOUS
    <2>2. 5000 * kept \in Int /\ (kept + dropped # 0 => kept + dropped \in Nat \ {0})
      OBVIOUS
    <2>. QED  BY <2>1, <2>2
  <1>2. cites \in Int /\ correlated \in Int /\ internal \in Int
    <2>1. ASSUME NEW yes, NEW n \in Int  PROVE Points(yes, n) \in Int
      BY DEF Points
    <2>. HIDE DEF cites, correlated, internal
    <2>2. /\ cites = Points(CitesFailurePoint(analysis, bundle), 2000)
          /\ correlated = Points(bundle.correlated, 1500)
          /\ internal = Points(~analysis.external, 1500)
      BY Zenon DEF cites, correlated, internal
    <2>. QED  BY <2>1, <2>2
  <1>3. EvidenceComponent(analysis, bundle, kept, dropped) =
          Clamp(share + cites + correlated + internal)
    BY DEF EvidenceComponent
  <1>. HIDE DEF share, cites, correlated, internal
  <1>4. share + cites + correlated + internal \in Int
    BY <1>1, <1>2
  <1>. QED  BY <1>3, <1>4, ClampType

LEMMA CauseType ==
  ASSUME NEW c \in Causes
  PROVE  /\ IsFiniteSet(c.files) /\ IsFiniteSet(DOMAIN c.chain) /\ IsFiniteSet(DOMAIN c.eliminated)
         /\ c.confidence \in Int
  <1>1. /\ c.confidence \in 0 .. Unit /\ IsFiniteSet(c.files)
        /\ IsFiniteSet(DOMAIN c.chain) /\ IsFiniteSet(DOMAIN c.eliminated)
    BY ReplyAssumption
  <1>. QED  BY <1>1

LEMMA ConfidenceType ==
  ASSUME Analysed, Reviewed, bundle \in Bundles, attempt \in Int, validation.signals \in Signals
  PROVE  Confidence \in Int
  <1>1. PICK c \in Causes : analysis = Analysis(c) /\ dropped = Dropped(c)
    BY DEF Analysed
  <1>2. /\ IsFiniteSet(c.files) /\ IsFiniteSet(DOMAIN c.chain) /\ IsFiniteSet(DOMAIN c.eliminated)
        /\ analysis.confidence \in Int
    <2>1. analysis.confidence = c.confidence
      BY <1>1 DEF Analysis
    <2>. QED  BY <2>1, CauseType, Zenon
  <1>3. Cardinality(DOMAIN analysis.chain) \in Nat
    <2>1. DOMAIN analysis.chain \subseteq DOMAIN c.chain
      BY <1>1 DEF Analysis, Kept, Restrict
    <2>. QED  BY <1>2, <2>1, FS_Subset, FS_CardinalityType
  <1>4. dropped \in Nat
    <2>1. /\ IsFiniteSet(DOMAIN c.chain \ DOMAIN Kept(c.chain))
          /\ IsFiniteSet(DOMAIN c.eliminated \ DOMAIN Kept(c.eliminated))
          /\ IsFiniteSet(c.files \ DOMAIN bundle.files)
      BY <1>2, FS_Difference
    <2>2. /\ Cardinality(DOMAIN c.chain \ DOMAIN Kept(c.chain)) \in Nat
          /\ Cardinality(DOMAIN c.eliminated \ DOMAIN Kept(c.eliminated)) \in Nat
          /\ Cardinality(c.files \ DOMAIN bundle.files) \in Nat
      BY <2>1, FS_CardinalityType
    <2>. QED  BY <1>1, <2>2 DEF Dropped
  <1>. DEFINE v == ValidationComponent(validation.signals, attempt)
              k == CriticComponent(review)
              r == RetrievalComponent(bundle)
              e == EvidenceComponent(analysis, bundle, Cardinality(DOMAIN analysis.chain), dropped)
  <1>5. v \in Int /\ k \in Int
    BY ValidationType, CriticType
  <1>6. r \in Int
    <2>1. bundle.quality \in 0 .. 100 /\ bundle.gaps \in Nat
      BY ContextAssumption, Zenon
    <2>2. 100 * bundle.quality - 500 * bundle.gaps \in Int
      BY <2>1
    <2>. QED  BY <2>2, ClampType DEF RetrievalComponent
  <1>7. e \in Int
    BY <1>3, <1>4, EvidenceType
  <1>8. Confidence = Weighed(v, k, r, e, analysis.confidence)
    BY DEF Confidence
  <1>. HIDE DEF v, k, r, e
  <1>9. \A a, b, x, y, z \in Int : Weighed(a, b, x, y, z) \in Int
    BY DEF Weighed, Lower, Full
  <1>. QED  BY <1>2, <1>5, <1>6, <1>7, <1>8, <1>9

-----------------------------------------------------------------------------
\* What was validated stays what is critiqued and scored.
PublishInv ==
    /\ pc \in {"critique", "score"} => validation \in Answers /\ validation.passed
    /\ pc = "score" => Reviewed
    /\ decision # None =>
          /\ pc = "over" /\ validation \in Answers /\ validation.passed /\ Reviewed
          /\ \E c \in Int, m \in BOOLEAN :
                decision = Decision(c, validation.signals, review, bundle.quality, m)

LEMMA PublishInit == Init => PublishInv
  BY DEF Init, PublishInv

\* A step of the stages before the critique.
LEMMA PublishKept ==
  ASSUME PublishInv, UNCHANGED <<bundle, review, decision>>,
         pc # "over", pc' \notin {"critique", "score"}
  PROVE  PublishInv'
  <1>1. decision = None
    BY DEF PublishInv
  <1>. QED  BY <1>1 DEF PublishInv

LEMMA PublishValidate ==
  ASSUME PublishInv, NEW answer \in Answers, Validate(answer)
  PROVE  PublishInv'
  <1>1. /\ decision' = None /\ pc' \in {"critique", "repair"}
        /\ pc' = IF validation'.passed THEN "critique" ELSE "repair"
        /\ validation' = IF HostGate(tree') = None THEN answer ELSE Failed(HostGate(tree'))
    BY DEF Validate, PublishInv
  <1>2. pc' = "critique" => validation' \in Answers /\ validation'.passed
    <2>1. ~Failed(HostGate(tree')).passed
      BY DEF Failed
    <2>. QED  BY <1>1, <2>1
  <1>. QED  BY <1>1, <1>2 DEF PublishInv

LEMMA PublishCritique ==
  ASSUME PublishInv, pc = "critique", pc' = "score",
         UNCHANGED <<validation, decision>>, Reviewed'
  PROVE  PublishInv'
  <1>1. decision = None
    BY DEF PublishInv
  <1>. QED  BY <1>1 DEF PublishInv

LEMMA PublishScore ==
  ASSUME LoopInv, AnalysisInv, PublishInv, NEW m \in BOOLEAN, Score(m)
  PROVE  PublishInv'
  <1>1. /\ pc = "score" /\ pc' = "over"
        /\ UNCHANGED <<bundle, validation, review>>
        /\ decision' = Decision(Confidence, validation.signals, review, bundle.quality, m)
    BY DEF Score, End
  <1>2. validation \in Answers /\ validation.passed /\ Reviewed
    BY <1>1 DEF PublishInv
  <1>3. Confidence \in Int
    <2>1. Analysed /\ bundle \in Bundles
      BY <1>1 DEF AnalysisInv
    <2>2. attempt \in Int
      BY LimitAssumption DEF LoopInv
    <2>3. validation.signals \in Signals
      BY <1>2 DEF Signals
    <2>. QED  BY <1>2, <2>1, <2>2, <2>3, ConfidenceType
  <1>4. Reviewed'
    BY <1>1, <1>2 DEF Reviewed
  <1>5. \E c \in Int, n \in BOOLEAN :
          decision' = Decision(c, validation'.signals, review', bundle'.quality, n)
    BY <1>1, <1>3
  <1>6. Reviewed' /\ pc' = "over" /\ validation' \in Answers /\ validation'.passed
    BY <1>1, <1>2, <1>4
  <1>7. PublishInv' <=>
          /\ pc' \in {"critique", "score"} => validation' \in Answers /\ validation'.passed
          /\ pc' = "score" => Reviewed'
          /\ decision' # None =>
                /\ pc' = "over" /\ validation' \in Answers /\ validation'.passed /\ Reviewed'
                /\ \E c \in Int, n \in BOOLEAN :
                      decision' = Decision(c, validation'.signals, review', bundle'.quality, n)
    BY DEF PublishInv, Decision, HardGates, NeverPublish, CriticalSecurity, Rejects
  <1>. QED  BY <1>5, <1>6, <1>7

LEMMA PublishNext ==
  LoopInv /\ AnalysisInv /\ PublishInv /\ [Next]_vars => PublishInv'
  <1>. SUFFICES ASSUME LoopInv, AnalysisInv, PublishInv, [Next]_vars  PROVE PublishInv'
    OBVIOUS
  <1>1. CASE ReasonerUnavailable \/ PatcherUnavailable
    BY <1>1, PublishKept DEF ReasonerUnavailable, PatcherUnavailable, End
  <1>2. ASSUME NEW reply \in Causes, Reason(reply)  PROVE PublishInv'
    BY <1>2, PublishKept DEF Reason, End
  <1>3. ASSUME NEW reply \in Patches, Patch(reply)  PROVE PublishInv'
    BY <1>3, PublishKept DEF Patch, End
  <1>4. ASSUME NEW answer \in Answers, Validate(answer)  PROVE PublishInv'
    BY <1>4, PublishValidate
  <1>5. CASE Repair
    BY <1>5, PublishKept DEF Repair, End, Reroute
  <1>6. ASSUME NEW reply \in Reviews, Critique(reply)  PROVE PublishInv'
    <2>1. /\ pc = "critique" /\ pc' = "score" /\ UNCHANGED <<validation, decision>>
          /\ review' = [verdict |-> reply.verdict, agreement |-> reply.agreement,
                        findings |-> reply.findings, blocking |-> Blocking(reply)]
      BY <1>6 DEF Critique
    <2>2. Reviewed'
      BY <2>1 DEF Reviewed
    <2>. QED  BY <2>1, <2>2, PublishCritique
  <1>7. CASE CriticUnavailable
    <2>1. /\ pc = "critique" /\ pc' = "score" /\ UNCHANGED <<validation, decision>>
          /\ review' = None
      BY <1>7 DEF CriticUnavailable
    <2>2. Reviewed'
      BY <2>1 DEF Reviewed
    <2>. QED  BY <2>1, <2>2, PublishCritique
  <1>8. ASSUME NEW autoMerge \in BOOLEAN, Score(autoMerge)  PROVE PublishInv'
    BY <1>8, PublishScore
  <1>9. CASE UNCHANGED vars
    BY <1>9 DEF vars, PublishInv, Reviewed
  <1>. QED  BY <1>1, <1>2, <1>3, <1>4, <1>5, <1>6, <1>7, <1>8, <1>9 DEF Next

\* What is published passed every gate and the hard conditions of the score, whatever the
\* models, the sandbox and the weights say; a review that blocks slips by in one case.
THEOREM PublishedIsSafe == Spec => []Published
  <1>1. AnalysisInv /\ PublishInv => Published
    <2>. SUFFICES ASSUME AnalysisInv, PublishInv, decision # None
                  PROVE  PublishedSafely /\ BlockingSlips
      BY DEF Published, PublishedSafely, BlockingSlips
    <2>1. PICK c \in Int, m \in BOOLEAN :
            decision = Decision(c, validation.signals, review, bundle.quality, m)
      BY DEF PublishInv
    <2>2. /\ validation.signals \in Signals /\ validation.passed /\ Reviewed
      BY DEF PublishInv, Signals
    <2>3. bundle.quality \in Int
      <3>1. bundle.quality \in 0 .. 100
        BY ContextAssumption, Zenon DEF AnalysisInv
      <3>. QED  BY <3>1
    <2>4. SafeToPublish(decision, validation.signals, bundle.quality)
      BY <2>1, <2>2, <2>3, DecisionSafe
    <2>5. PublishedSafely
      BY <2>2, <2>4 DEF PublishedSafely
    <2>6. ASSUME decision.publish, review # None, review.blocking
          PROVE  /\ review.verdict # "reject"
                 /\ \E f \in review.findings : f.severity = "critical" /\ f.dimension # "security"
      <3>1. ~Rejects(review) /\ ~CriticalSecurity(review)
        BY <2>4, <2>6 DEF SafeToPublish, NeverPublish
      <3>2. PICK r \in Reviews :
              review = [verdict |-> r.verdict, agreement |-> r.agreement,
                        findings |-> r.findings, blocking |-> Blocking(r)]
        BY <2>2, <2>6 DEF Reviewed
      <3>3. Blocking(r) /\ review.verdict = r.verdict /\ review.findings = r.findings
        BY <2>6, <3>2
      <3>. QED  BY <2>6, <3>1, <3>3 DEF Blocking, Rejects, CriticalSecurity
    <2>. QED  BY <2>5, <2>6 DEF BlockingSlips
  <1>2. LoopInv /\ AnalysisInv /\ PublishInv /\ [Next]_vars
          => LoopInv' /\ AnalysisInv' /\ PublishInv'
    BY LoopNext, AnalysisNext, PublishNext
  <1>. QED  BY <1>1, <1>2, LoopInit, AnalysisInit, PublishInit, PTL DEF Spec

-----------------------------------------------------------------------------
(* What is computed line by line, hunk by hunk, section by section.        *)

\* Induction over the natural numbers, for a set of them.
LEMMA NatSetInduction ==
    ASSUME NEW T, T \subseteq Nat, 0 \in T, \A n \in T : n + 1 \in T
    PROVE  T = Nat
<1> SUFFICES ASSUME Nat \ T # {}  PROVE FALSE
  OBVIOUS
<1>1. PICK m \in Nat \ T : \A n \in Nat \ T : <<n, m>> \notin OpToRel(<, Nat)
  <2> DEFINE R == OpToRel(<, Nat)
             U == Nat \ T
  <2>1. IsWellFoundedOn(R, Nat)
    BY NatLessThanWellFounded
  <2>2. U \subseteq Nat /\ U # {}
    OBVIOUS
  <2> HIDE DEF R, U
  <2>3. \E x \in U : \A y \in U : ~ (<<y, x>> \in R)
    BY <2>1, <2>2, WFMin
  <2>. QED  BY <2>3 DEF R, U
<1>2. m # 0 /\ m - 1 \in Nat /\ m - 1 < m
  OBVIOUS
<1>3. m - 1 \in T
  BY <1>1, <1>2 DEF OpToRel
<1>. QED  BY <1>2, <1>3

\* TextsUpTo satisfies its definition.
LEMMA TextsSteps ==
    ASSUME NEW h, NEW ops, Len(h.lines) \in Nat
    PROVE  \A n \in 0 .. Len(h.lines) :
              TextsUpTo(h, ops)[n] =
                 IF n = 0 THEN <<>>
                 ELSE IF h.lines[n].op \in ops THEN Append(TextsUpTo(h, ops)[n - 1], h.lines[n].text)
                 ELSE TextsUpTo(h, ops)[n - 1]
<1> DEFINE First == <<>>
           Then(v, n) == IF h.lines[n].op \in ops THEN Append(v, h.lines[n].text) ELSE v
           Rec(g, m) == g = [n \in 0 .. m |-> IF n = 0 THEN First ELSE Then(g[n - 1], n)]
           T == {m \in Nat : \E g : Rec(g, m)}
<1>1. 0 \in T
  <2>1. Rec([n \in 0 .. 0 |-> First], 0)
    OBVIOUS
  <2>. QED  BY <2>1
<1>2. ASSUME NEW m \in T  PROVE m + 1 \in T
  <2>1. PICK g : Rec(g, m)
    OBVIOUS
  <2> DEFINE k == [n \in 0 .. m + 1 |-> IF n = m + 1 THEN Then(g[m], m + 1) ELSE g[n]]
  <2> HIDE DEF First, Then
  <2>2. \A n \in 0 .. m : g[n] = IF n = 0 THEN First ELSE Then(g[n - 1], n)
    BY <2>1
  <2>3. (\A n \in 0 .. m : k[n] = g[n]) /\ k[m + 1] = Then(g[m], m + 1)
    OBVIOUS
  <2>4. k = [n \in 0 .. m + 1 |-> k[n]]
    OBVIOUS
  <2> HIDE DEF k
  <2>5. \A n \in 0 .. m + 1 : k[n] = IF n = 0 THEN First ELSE Then(k[n - 1], n)
    <3> TAKE n \in 0 .. m + 1
    <3>1. CASE n = 0
      <4>1. k[0] = First
        BY <2>2, <2>3
      <4>. QED  BY <3>1, <4>1
    <3>2. CASE n \in 1 .. m
      BY <3>2, <2>2, <2>3
    <3>3. CASE n = m + 1
      BY <3>3, <2>3
    <3>. QED  BY <3>1, <3>2, <3>3
  <2>6. Rec(k, m + 1)
    BY <2>4, <2>5
  <2> HIDE DEF Rec
  <2>. QED  BY <2>6
<1>3. T = Nat
  <2> HIDE DEF T
  <2>1. T \subseteq Nat  BY DEF T
  <2>. QED  BY <2>1, <1>1, <1>2, NatSetInduction
<1>4. \E g : Rec(g, Len(h.lines))
  BY <1>3
<1>5. TextsUpTo(h, ops) = CHOOSE g : Rec(g, Len(h.lines))
  BY DEF TextsUpTo
<1> HIDE DEF Rec
<1>6. Rec(TextsUpTo(h, ops), Len(h.lines))
  BY <1>4, <1>5
<1>. QED  BY <1>6 DEF Rec

\* So does Copied.
LEMMA CopiedSteps ==
    ASSUME NEW f, NEW lines, Len(f.hunks) \in Nat
    PROVE  \A n \in 0 .. Len(f.hunks) :
              Copied(f, lines)[n] =
                 IF n = 0 THEN [ok |-> TRUE, cursor |-> 0, out |-> <<>>]
                 ELSE Step(Copied(f, lines)[n - 1], f.hunks[n], lines)
<1> DEFINE First == [ok |-> TRUE, cursor |-> 0, out |-> <<>>]
           Then(v, n) == Step(v, f.hunks[n], lines)
           Rec(g, m) == g = [n \in 0 .. m |-> IF n = 0 THEN First ELSE Then(g[n - 1], n)]
           T == {m \in Nat : \E g : Rec(g, m)}
<1>1. 0 \in T
  <2>1. Rec([n \in 0 .. 0 |-> First], 0)
    OBVIOUS
  <2>. QED  BY <2>1
<1>2. ASSUME NEW m \in T  PROVE m + 1 \in T
  <2>1. PICK g : Rec(g, m)
    OBVIOUS
  <2> DEFINE k == [n \in 0 .. m + 1 |-> IF n = m + 1 THEN Then(g[m], m + 1) ELSE g[n]]
  <2> HIDE DEF First, Then
  <2>2. \A n \in 0 .. m : g[n] = IF n = 0 THEN First ELSE Then(g[n - 1], n)
    BY <2>1
  <2>3. (\A n \in 0 .. m : k[n] = g[n]) /\ k[m + 1] = Then(g[m], m + 1)
    OBVIOUS
  <2>4. k = [n \in 0 .. m + 1 |-> k[n]]
    OBVIOUS
  <2> HIDE DEF k
  <2>5. \A n \in 0 .. m + 1 : k[n] = IF n = 0 THEN First ELSE Then(k[n - 1], n)
    <3> TAKE n \in 0 .. m + 1
    <3>1. CASE n = 0
      <4>1. k[0] = First
        BY <2>2, <2>3
      <4>. QED  BY <3>1, <4>1
    <3>2. CASE n \in 1 .. m
      BY <3>2, <2>2, <2>3
    <3>3. CASE n = m + 1
      BY <3>3, <2>3
    <3>. QED  BY <3>1, <3>2, <3>3
  <2>6. Rec(k, m + 1)
    BY <2>4, <2>5
  <2> HIDE DEF Rec
  <2>. QED  BY <2>6
<1>3. T = Nat
  <2> HIDE DEF T
  <2>1. T \subseteq Nat  BY DEF T
  <2>. QED  BY <2>1, <1>1, <1>2, NatSetInduction
<1>4. \E g : Rec(g, Len(f.hunks))
  BY <1>3
<1>5. Copied(f, lines) = CHOOSE g : Rec(g, Len(f.hunks))
  BY DEF Copied
<1> HIDE DEF Rec
<1>6. Rec(Copied(f, lines), Len(f.hunks))
  BY <1>4, <1>5
<1>. QED  BY <1>6 DEF Rec

\* So does PatchedUpTo.
LEMMA PatchedSteps ==
    ASSUME NEW diff, NEW files, Len(diff) \in Nat
    PROVE  \A n \in 0 .. Len(diff) :
              PatchedUpTo(diff, files)[n] =
                 IF n = 0 THEN [ok |-> TRUE, tree |-> files]
                 ELSE Apply(PatchedUpTo(diff, files)[n - 1], diff[n], files)
<1> DEFINE First == [ok |-> TRUE, tree |-> files]
           Then(v, n) == Apply(v, diff[n], files)
           Rec(g, m) == g = [n \in 0 .. m |-> IF n = 0 THEN First ELSE Then(g[n - 1], n)]
           T == {m \in Nat : \E g : Rec(g, m)}
<1>1. 0 \in T
  <2>1. Rec([n \in 0 .. 0 |-> First], 0)
    OBVIOUS
  <2>. QED  BY <2>1
<1>2. ASSUME NEW m \in T  PROVE m + 1 \in T
  <2>1. PICK g : Rec(g, m)
    OBVIOUS
  <2> DEFINE k == [n \in 0 .. m + 1 |-> IF n = m + 1 THEN Then(g[m], m + 1) ELSE g[n]]
  <2> HIDE DEF First, Then
  <2>2. \A n \in 0 .. m : g[n] = IF n = 0 THEN First ELSE Then(g[n - 1], n)
    BY <2>1
  <2>3. (\A n \in 0 .. m : k[n] = g[n]) /\ k[m + 1] = Then(g[m], m + 1)
    OBVIOUS
  <2>4. k = [n \in 0 .. m + 1 |-> k[n]]
    OBVIOUS
  <2> HIDE DEF k
  <2>5. \A n \in 0 .. m + 1 : k[n] = IF n = 0 THEN First ELSE Then(k[n - 1], n)
    <3> TAKE n \in 0 .. m + 1
    <3>1. CASE n = 0
      <4>1. k[0] = First
        BY <2>2, <2>3
      <4>. QED  BY <3>1, <4>1
    <3>2. CASE n \in 1 .. m
      BY <3>2, <2>2, <2>3
    <3>3. CASE n = m + 1
      BY <3>3, <2>3
    <3>. QED  BY <3>1, <3>2, <3>3
  <2>6. Rec(k, m + 1)
    BY <2>4, <2>5
  <2> HIDE DEF Rec
  <2>. QED  BY <2>6
<1>3. T = Nat
  <2> HIDE DEF T
  <2>1. T \subseteq Nat  BY DEF T
  <2>. QED  BY <2>1, <1>1, <1>2, NatSetInduction
<1>4. \E g : Rec(g, Len(diff))
  BY <1>3
<1>5. PatchedUpTo(diff, files) = CHOOSE g : Rec(g, Len(diff))
  BY DEF PatchedUpTo
<1> HIDE DEF Rec
<1>6. Rec(PatchedUpTo(diff, files), Len(diff))
  BY <1>4, <1>5
<1>. QED  BY <1>6 DEF Rec

-----------------------------------------------------------------------------
(* Lists of lines.                                                         *)

\* What a joined list has.
LEMMA RangeConcat ==
    ASSUME NEW S, NEW s \in Seq(S), NEW t \in Seq(S)
    PROVE  s \o t \in Seq(S) /\ Range(s \o t) = Range(s) \cup Range(t)
<1> DEFINE j == s \o t
           n == Len(s)
<1>1. /\ j \in Seq(S)
      /\ Len(j) = n + Len(t)
      /\ \A i \in 1 .. n + Len(t) : j[i] = IF i <= n THEN s[i] ELSE t[i - n]
  BY ConcatProperties
<1>2. /\ DOMAIN j = 1 .. n + Len(t)
      /\ DOMAIN s = 1 .. n
      /\ DOMAIN t = 1 .. Len(t)
      /\ n \in Nat /\ Len(t) \in Nat
  BY <1>1
<1>3. \A i \in DOMAIN s : i \in DOMAIN j /\ j[i] = s[i]
  BY <1>1, <1>2
<1> HIDE DEF j, n
<1>4. \A i \in DOMAIN t : i + n \in DOMAIN j /\ j[i + n] = t[i]
  <2> TAKE i \in DOMAIN t
  <2>1. i + n \in 1 .. n + Len(t) /\ i + n > n /\ (i + n) - n = i
    BY <1>2
  <2>. QED  BY <1>1, <1>2, <2>1
<1>5. \A i \in DOMAIN j : \/ i \in DOMAIN s /\ j[i] = s[i]
                          \/ i - n \in DOMAIN t /\ j[i] = t[i - n]
  <2> TAKE i \in DOMAIN j
  <2>1. CASE i <= n
    BY <1>1, <1>2, <2>1
  <2>2. CASE i > n
    <3>1. i - n \in 1 .. Len(t)
      BY <1>2, <2>2
    <3>. QED  BY <3>1, <1>1, <1>2, <2>2
  <2>. QED  BY <1>2, <2>1, <2>2
<1>6. Range(j) = Range(s) \cup Range(t)
  BY <1>3, <1>4, <1>5 DEF Range
<1>. QED  BY <1>1, <1>6 DEF j

\* ... and a list that is one longer.
LEMMA RangeAppend ==
    ASSUME NEW S, NEW s \in Seq(S), NEW e \in S
    PROVE  Append(s, e) \in Seq(S) /\ Range(Append(s, e)) = Range(s) \cup {e}
<1>1. <<e>> \in Seq(S) /\ Append(s, e) = s \o <<e>>
  BY AppendIsConcat
<1>2. Range(<<e>>) = {e}
  BY DEF Range
<1>3. s \o <<e>> \in Seq(S) /\ Range(s \o <<e>>) = Range(s) \cup Range(<<e>>)
  BY <1>1, RangeConcat
<1>. QED  BY <1>1, <1>2, <1>3

\* A part of a list, element by element.
LEMMA PartOf ==
    ASSUME NEW S, NEW s \in Seq(S), NEW a \in Nat, NEW b \in 0 .. Len(s), a <= b
    PROVE  /\ SubSeq(s, a + 1, b) \in Seq(S)
           /\ Len(SubSeq(s, a + 1, b)) = b - a
           /\ \A i \in 1 .. b - a : SubSeq(s, a + 1, b)[i] = s[a + i]
           /\ Range(SubSeq(s, a + 1, b)) = {s[i] : i \in a + 1 .. b}
<1> DEFINE p == SubSeq(s, a + 1, b)
<1>0. Len(s) \in Nat /\ DOMAIN s = 1 .. Len(s)
  OBVIOUS
<1>1. \A i \in a + 1 .. b : s[i] \in S
  BY <1>0
<1>2. /\ p \in Seq(S)
      /\ Len(p) = IF a + 1 <= b THEN b - (a + 1) + 1 ELSE 0
      /\ \A i \in 1 .. b - (a + 1) + 1 : p[i] = s[(a + 1) + i - 1]
  BY <1>0, <1>1, SubSeqProperties
<1> HIDE DEF p
<1>3. Len(p) = b - a
  BY <1>0, <1>2
<1>4. \A i \in 1 .. b - a : p[i] = s[a + i]
  <2> TAKE i \in 1 .. b - a
  <2>1. i \in 1 .. b - (a + 1) + 1 /\ (a + 1) + i - 1 = a + i
    BY <1>0
  <2>. QED  BY <1>2, <2>1
<1>5. DOMAIN p = 1 .. b - a
  BY <1>2, <1>3
<1>6. Range(p) = {s[i] : i \in a + 1 .. b}
  <2>1. ASSUME NEW i \in 1 .. b - a  PROVE a + i \in a + 1 .. b
    BY <1>0
  <2>2. ASSUME NEW i \in a + 1 .. b  PROVE i - a \in 1 .. b - a /\ a + (i - a) = i
    BY <1>0
  <2>3. \A i \in a + 1 .. b : p[i - a] = s[i]
    BY <1>4, <2>2
  <2>. QED  BY <1>4, <1>5, <2>1, <2>2, <2>3 DEF Range
<1>. QED  BY <1>2, <1>3, <1>4, <1>6 DEF p

\* The texts of a hunk's lines with one of the ops.
LEMMA TextsMean ==
    ASSUME NEW h, NEW ops, NEW T, IsList(h.lines),
           \A i \in DOMAIN h.lines : h.lines[i].text \in T
    PROVE  /\ Texts(h, ops) \in Seq(T)
           /\ Range(Texts(h, ops)) =
                 {h.lines[i].text : i \in {j \in DOMAIN h.lines : h.lines[j].op \in ops}}
<1> DEFINE U == TextsUpTo(h, ops)
           m == Len(h.lines)
           Named(n) == {h.lines[i].text : i \in {j \in 1 .. n : h.lines[j].op \in ops}}
           P(n) == n <= m => U[n] \in Seq(T) /\ Range(U[n]) = Named(n)
           N == {n \in Nat : P(n)}
<1>1. m \in Nat /\ DOMAIN h.lines = 1 .. m
  BY DEF IsList
<1>2. \A n \in 0 .. m : U[n] = IF n = 0 THEN <<>>
                        ELSE IF h.lines[n].op \in ops THEN Append(U[n - 1], h.lines[n].text)
                        ELSE U[n - 1]
  BY <1>1, TextsSteps
<1> HIDE DEF U, m
<1>3. 0 \in N
  <2>1. U[0] = <<>>
    BY <1>1, <1>2
  <2>2. Range(<<>>) = {} /\ Named(0) = {} /\ <<>> \in Seq(T)
    BY DEF Range
  <2> HIDE DEF Named
  <2>. QED  BY <2>1, <2>2
<1>4. ASSUME NEW n \in N  PROVE n + 1 \in N
  <2> SUFFICES ASSUME n + 1 <= m
               PROVE  U[n + 1] \in Seq(T) /\ Range(U[n + 1]) = Named(n + 1)
    OBVIOUS
  <2>1. U[n] \in Seq(T) /\ Range(U[n]) = Named(n)
    BY <1>1
  <2>2. U[n + 1] = IF h.lines[n + 1].op \in ops THEN Append(U[n], h.lines[n + 1].text) ELSE U[n]
    BY <1>1, <1>2
  <2>3. h.lines[n + 1].text \in T
    BY <1>1
  <2>4. Named(n + 1) = Named(n) \cup
                       (IF h.lines[n + 1].op \in ops THEN {h.lines[n + 1].text} ELSE {})
    <3>1. 1 .. n + 1 = 1 .. n \cup {n + 1}
      OBVIOUS
    <3>. QED  BY <3>1
  <2> HIDE DEF Named
  <2>5. CASE h.lines[n + 1].op \in ops
    <3>1. U[n + 1] = Append(U[n], h.lines[n + 1].text)
      BY <2>2, <2>5
    <3>2. /\ Append(U[n], h.lines[n + 1].text) \in Seq(T)
          /\ Range(Append(U[n], h.lines[n + 1].text)) = Range(U[n]) \cup {h.lines[n + 1].text}
      BY <2>1, <2>3, RangeAppend
    <3>. QED  BY <2>1, <2>4, <2>5, <3>1, <3>2
  <2>6. CASE h.lines[n + 1].op \notin ops
    BY <2>1, <2>2, <2>4, <2>6
  <2>. QED  BY <2>5, <2>6 DEF Named
<1>5. N = Nat
  <2> HIDE DEF N
  <2>1. N \subseteq Nat  BY DEF N
  <2>. QED  BY <2>1, <1>3, <1>4, NatSetInduction
<1>6. U[m] \in Seq(T) /\ Range(U[m]) = Named(m)
  <2> HIDE DEF Named
  <2>1. m \in N
    BY <1>1, <1>5
  <2>. QED  BY <1>1, <2>1
<1>. QED  BY <1>1, <1>6 DEF Texts, U, m

\* A hunk whose lines are marked, all of them texts in T.
HunkOver(h, T) ==
    /\ IsList(h.lines) /\ h.from \in Nat
    /\ \A l \in Range(h.lines) : l.op \in {"+", "-", " "} /\ l.text \in T

\* What a hunk puts in place of what.
LEMMA HunkMeans ==
    ASSUME NEW h, NEW T, HunkOver(h, T)
    PROVE  /\ Old(h) \in Seq(T) /\ New(h) \in Seq(T)
           /\ Added(h) \subseteq Range(New(h))
           /\ Range(Old(h)) \subseteq Range(New(h)) \cup Removed(h)
<1>1. /\ IsList(h.lines)
      /\ \A i \in DOMAIN h.lines : h.lines[i].op \in {"+", "-", " "} /\ h.lines[i].text \in T
  BY DEF HunkOver, Range
<1>2. /\ Old(h) \in Seq(T)
      /\ Range(Old(h)) = {h.lines[i].text : i \in {j \in DOMAIN h.lines : h.lines[j].op \in {"-", " "}}}
  BY <1>1, TextsMean DEF Old
<1>3. /\ New(h) \in Seq(T)
      /\ Range(New(h)) = {h.lines[i].text : i \in {j \in DOMAIN h.lines : h.lines[j].op \in {"+", " "}}}
  BY <1>1, TextsMean DEF New
<1>4. Added(h) \subseteq Range(New(h))
  BY <1>3 DEF Added
<1>5. Range(Old(h)) \subseteq Range(New(h)) \cup Removed(h)
  BY <1>2, <1>3 DEF Removed
<1>. QED  BY <1>2, <1>3, <1>4, <1>5

-----------------------------------------------------------------------------
(* A diff over one file.                                                   *)

\* A section of a diff whose lines are texts in T.
FileOver(f, T) == IsList(f.hunks) /\ \A k \in DOMAIN f.hunks : HunkOver(f.hunks[k], T)

\* What _apply_full_file() has copied when it has looked at some hunks.
Copies(lines, T) == [ok : BOOLEAN, cursor : 0 .. Len(lines), out : Seq(T)]

\* Where a hunk belongs.
Index(h) == IF Old(h) = <<>> THEN h.from ELSE h.from - 1

\* It is a line number, or one less.
LEMMA IndexIsAnInteger ==
    ASSUME NEW T, NEW h, HunkOver(h, T)
    PROVE  Index(h) \in Int
<1>1. h.from \in Nat
  BY DEF HunkOver
<1>. QED  BY <1>1 DEF Index

\* One hunk: what was copied stays, what it adds comes, and of the lines it passes
\* only those it removes are lost.
LEMMA StepMeans ==
    ASSUME NEW T, NEW lines \in Seq(T), NEW h, HunkOver(h, T), NEW a \in Copies(lines, T)
    PROVE  LET b == Step(a, h, lines) IN
              /\ b \in Copies(lines, T)
              /\ b.ok => /\ a.ok
                         /\ Range(a.out) \cup Added(h) \subseteq Range(b.out)
                         /\ a.cursor <= b.cursor
                         /\ \A i \in a.cursor + 1 .. b.cursor :
                               lines[i] \in Range(b.out) \cup Removed(h)
<1> DEFINE b == Step(a, h, lines)
           index == Index(h)
           part == SubSeq(lines, a.cursor + 1, index)
<1>1. /\ Old(h) \in Seq(T) /\ New(h) \in Seq(T)
      /\ Added(h) \subseteq Range(New(h))
      /\ Range(Old(h)) \subseteq Range(New(h)) \cup Removed(h)
  BY HunkMeans
<1>0. index \in Int
  BY IndexIsAnInteger
<1>2. /\ a.ok \in BOOLEAN /\ a.cursor \in Nat /\ a.cursor <= Len(lines) /\ a.out \in Seq(T)
      /\ Len(lines) \in Nat /\ Len(Old(h)) \in Nat
  BY <1>1 DEF Copies
<1>3. CASE ~a.ok \/ index < a.cursor \/ ~At(lines, index, Old(h))
  <2>1. b = [a EXCEPT !.ok = FALSE]
    BY <1>3 DEF Step, Index
  <2> HIDE DEF b
  <2>2. b \in Copies(lines, T) /\ b.ok = FALSE
    BY <2>1 DEF Copies
  <2>. QED  BY <2>2 DEF b
<1>4. CASE a.ok /\ index >= a.cursor /\ At(lines, index, Old(h))
  <2>1. b = [ok |-> TRUE, cursor |-> index + Len(Old(h)), out |-> a.out \o part \o New(h)]
    <3>1. ~(~a.ok \/ index < a.cursor \/ ~At(lines, index, Old(h)))
      <4> HIDE DEF index
      <4>. QED  BY <1>0, <1>2, <1>4
    <3>. QED  BY <3>1 DEF Step, Index
  <2> HIDE DEF index
  <2>2. /\ index \in 0 .. Len(lines) /\ index + Len(Old(h)) <= Len(lines)
        /\ SubSeq(lines, index + 1, index + Len(Old(h))) = Old(h)
    BY <1>0, <1>2, <1>4 DEF At
  <2>3. part \in Seq(T) /\ Range(part) = {lines[i] : i \in a.cursor + 1 .. index}
    <3>1. a.cursor \in Nat /\ index \in 0 .. Len(lines) /\ a.cursor <= index
      BY <1>2, <1>4, <2>2
    <3>2. part \in Seq(T)
      BY <3>1, PartOf
    <3> DEFINE c == a.cursor
    <3> HIDE DEF b, c
    <3>3. c \in Nat /\ index \in 0 .. Len(lines) /\ c <= index
      BY <3>1 DEF c
    <3>4. Range(SubSeq(lines, c + 1, index)) = {lines[i] : i \in c + 1 .. index}
      BY <3>3, PartOf
    <3>. QED  BY <3>2, <3>4 DEF c
  <2>4. Range(Old(h)) = {lines[i] : i \in index + 1 .. index + Len(Old(h))}
    <3>1. index + Len(Old(h)) \in 0 .. Len(lines) /\ index \in Nat
      BY <1>2, <2>2
    <3>2. index <= index + Len(Old(h))
      BY <1>2, <2>2
    <3>3. Range(SubSeq(lines, index + 1, index + Len(Old(h))))
             = {lines[i] : i \in index + 1 .. index + Len(Old(h))}
      BY <3>1, <3>2, PartOf
    <3>. QED  BY <2>2, <3>3
  <2> HIDE DEF part, b
  <2>5. a.out \o part \in Seq(T) /\ Range(a.out \o part) = Range(a.out) \cup Range(part)
    BY <1>2, <2>3, RangeConcat
  <2>6. /\ (a.out \o part) \o New(h) \in Seq(T)
        /\ Range((a.out \o part) \o New(h)) = Range(a.out \o part) \cup Range(New(h))
    <3> DEFINE kept == a.out \o part
    <3>1. kept \in Seq(T)
      BY <2>5
    <3>2. New(h) \in Seq(T)
      BY <1>1
    <3> HIDE DEF kept
    <3>3. kept \o New(h) \in Seq(T) /\ Range(kept \o New(h)) = Range(kept) \cup Range(New(h))
      BY <3>1, <3>2, RangeConcat
    <3>. QED  BY <3>3 DEF kept
  <2>7. /\ b.ok = TRUE /\ b.cursor = index + Len(Old(h))
        /\ b.out \in Seq(T) /\ Range(b.out) = Range(a.out) \cup Range(part) \cup Range(New(h))
    BY <2>1, <2>5, <2>6
  <2>8. b \in Copies(lines, T)
    <3> DEFINE o == a.out \o part \o New(h)
    <3>1. o = (a.out \o part) \o New(h)
      OBVIOUS
    <3>3. b = [ok |-> TRUE, cursor |-> index + Len(Old(h)), out |-> o]
      BY <2>1
    <3> HIDE DEF o
    <3>2. index + Len(Old(h)) \in 0 .. Len(lines)
      BY <1>2, <2>2
    <3>4. o \in Seq(T)
      BY <2>6, <3>1
    <3>. QED  BY <3>2, <3>3, <3>4 DEF Copies
  <2>9. a.cursor <= b.cursor
    BY <1>2, <1>4, <2>2, <2>7
  <2>10. ASSUME NEW i \in a.cursor + 1 .. b.cursor
         PROVE  lines[i] \in Range(b.out) \cup Removed(h)
    <3>1. i \in a.cursor + 1 .. index \/ i \in index + 1 .. index + Len(Old(h))
      BY <1>2, <2>2, <2>7
    <3>2. lines[i] \in Range(part) \cup Range(Old(h))
      BY <2>3, <2>4, <3>1
    <3>. QED  BY <1>1, <2>7, <3>2
  <2>. QED  BY <1>1, <1>4, <2>7, <2>8, <2>9, <2>10 DEF b
<1>5. \/ ~a.ok \/ index < a.cursor \/ ~At(lines, index, Old(h))
      \/ a.ok /\ index >= a.cursor /\ At(lines, index, Old(h))
  <2> HIDE DEF index
  <2>. QED  BY <1>0, <1>2
<1> HIDE DEF b, index
<1>. QED  BY <1>3, <1>4, <1>5 DEF b

\* What a section that applies makes of a file: what it adds is there, and of the
\* file's lines only those it removes are lost.
LEMMA WholeMeans ==
    ASSUME NEW T, NEW lines \in Seq(T), NEW f, FileOver(f, T)
    PROVE  /\ Whole(f, lines).ok \in BOOLEAN
           /\ Whole(f, lines).lines \in Seq(T)
           /\ Whole(f, lines).ok =>
                 /\ \A k \in DOMAIN f.hunks : Added(f.hunks[k]) \subseteq Range(Whole(f, lines).lines)
                 /\ Range(lines) \subseteq Range(Whole(f, lines).lines)
                                      \cup UNION {Removed(f.hunks[k]) : k \in DOMAIN f.hunks}
<1> DEFINE A == Copied(f, lines)
           m == Len(f.hunks)
           Lost(n) == UNION {Removed(f.hunks[k]) : k \in 1 .. n}
           Held(n) == /\ \A k \in 1 .. n : Added(f.hunks[k]) \subseteq Range(A[n].out)
                      /\ \A i \in 1 .. A[n].cursor : lines[i] \in Range(A[n].out) \cup Lost(n)
           P(n) == n <= m => A[n] \in Copies(lines, T) /\ (A[n].ok => Held(n))
           N == {n \in Nat : P(n)}
<1>1. m \in Nat /\ DOMAIN f.hunks = 1 .. m
  BY DEF FileOver, IsList
<1>2. \A n \in 0 .. m : A[n] = IF n = 0 THEN [ok |-> TRUE, cursor |-> 0, out |-> <<>>]
                        ELSE Step(A[n - 1], f.hunks[n], lines)
  BY <1>1, CopiedSteps
<1>3. Len(lines) \in Nat /\ DOMAIN lines = 1 .. Len(lines)
  OBVIOUS
<1> HIDE DEF A, m
<1>4. 0 \in N
  <2>1. A[0] = [ok |-> TRUE, cursor |-> 0, out |-> <<>>]
    BY <1>1, <1>2
  <2>2. A[0] \in Copies(lines, T) /\ A[0].cursor = 0
    BY <1>3, <2>1 DEF Copies
  <2>3. Held(0)
    BY <2>2
  <2> HIDE DEF Held
  <2>. QED  BY <2>2, <2>3
<1>5. ASSUME NEW n \in N  PROVE n + 1 \in N
  <2> SUFFICES ASSUME n + 1 <= m
               PROVE  A[n + 1] \in Copies(lines, T) /\ (A[n + 1].ok => Held(n + 1))
    OBVIOUS
  <2> DEFINE h == f.hunks[n + 1]
  <2>1. A[n] \in Copies(lines, T) /\ (A[n].ok => Held(n))
    BY <1>1
  <2>2. A[n + 1] = Step(A[n], h, lines)
    BY <1>1, <1>2
  <2>3. HunkOver(h, T)
    BY <1>1 DEF FileOver
  <2>4. /\ A[n + 1] \in Copies(lines, T)
        /\ A[n + 1].ok => /\ A[n].ok
                          /\ Range(A[n].out) \cup Added(h) \subseteq Range(A[n + 1].out)
                          /\ A[n].cursor <= A[n + 1].cursor
                          /\ \A i \in A[n].cursor + 1 .. A[n + 1].cursor :
                                lines[i] \in Range(A[n + 1].out) \cup Removed(h)
    BY <2>1, <2>2, <2>3, StepMeans
  <2>5. ASSUME A[n + 1].ok
        PROVE  Held(n + 1)
    <3>1. \A k \in 1 .. n + 1 : Added(f.hunks[k]) \subseteq Range(A[n + 1].out)
      <4>1. \A k \in 1 .. n : Added(f.hunks[k]) \subseteq Range(A[n + 1].out)
        BY <2>1, <2>4, <2>5
      <4>2. \A k \in 1 .. n + 1 : k \in 1 .. n \/ k = n + 1
        OBVIOUS
      <4>. QED  BY <2>4, <2>5, <4>1, <4>2
    <3>2. Lost(n) \subseteq Lost(n + 1) /\ Removed(h) \subseteq Lost(n + 1)
      OBVIOUS
    <3>3. A[n].cursor \in Nat /\ A[n + 1].cursor \in Nat
      BY <1>3, <2>1, <2>4 DEF Copies
    <3>4. \A i \in 1 .. A[n].cursor : lines[i] \in Range(A[n].out) \cup Lost(n)
      BY <2>1, <2>4, <2>5
    <3>5. /\ Range(A[n].out) \subseteq Range(A[n + 1].out)
          /\ \A i \in A[n].cursor + 1 .. A[n + 1].cursor :
                lines[i] \in Range(A[n + 1].out) \cup Removed(h)
      BY <2>4, <2>5
    <3> HIDE DEF Lost, h
    <3>6. \A i \in 1 .. A[n + 1].cursor : lines[i] \in Range(A[n + 1].out) \cup Lost(n + 1)
      <4> TAKE i \in 1 .. A[n + 1].cursor
      <4>1. i \in 1 .. A[n].cursor \/ i \in A[n].cursor + 1 .. A[n + 1].cursor
        BY <3>3
      <4>. QED  BY <3>2, <3>4, <3>5, <4>1
    <3>. QED  BY <3>1, <3>6
  <2> HIDE DEF Held
  <2>. QED  BY <2>4, <2>5
<1>6. A[m] \in Copies(lines, T) /\ (A[m].ok => Held(m))
  <2>1. N = Nat
    <3> HIDE DEF N
    <3>1. N \subseteq Nat  BY DEF N
    <3>. QED  BY <3>1, <1>4, <1>5, NatSetInduction
  <2> HIDE DEF Held
  <2>2. m \in N
    BY <1>1, <2>1
  <2>. QED  BY <1>1, <2>2
<1> DEFINE rest == SubSeq(lines, A[m].cursor + 1, Len(lines))
<1>7. A[m].cursor \in 0 .. Len(lines) /\ A[m].out \in Seq(T) /\ A[m].ok \in BOOLEAN
  BY <1>6 DEF Copies
<1>8. rest \in Seq(T) /\ Range(rest) = {lines[i] : i \in A[m].cursor + 1 .. Len(lines)}
  <2>1. A[m].cursor \in Nat /\ Len(lines) \in 0 .. Len(lines) /\ A[m].cursor <= Len(lines)
    BY <1>3, <1>7
  <2>2. rest \in Seq(T)
    BY <2>1, PartOf
  <2> DEFINE c == A[m].cursor
             e == Len(lines)
  <2> HIDE DEF c, e
  <2>3. c \in Nat /\ e \in 0 .. Len(lines) /\ c <= e
    BY <2>1 DEF c, e
  <2>4. Range(SubSeq(lines, c + 1, e)) = {lines[i] : i \in c + 1 .. e}
    BY <2>3, PartOf
  <2>. QED  BY <2>2, <2>4 DEF c, e
<1> HIDE DEF rest
<1>9. /\ A[m].out \o rest \in Seq(T)
      /\ Range(A[m].out \o rest) = Range(A[m].out) \cup Range(rest)
  BY <1>7, <1>8, RangeConcat
<1>10. Whole(f, lines) = IF A[m].ok THEN [ok |-> TRUE, lines |-> A[m].out \o rest]
                         ELSE [ok |-> FALSE, lines |-> <<>>]
  BY DEF Whole, A, m, rest
<1>11. CASE ~A[m].ok
  <2>1. Whole(f, lines) = [ok |-> FALSE, lines |-> <<>>] /\ <<>> \in Seq(T)
    BY <1>10, <1>11
  <2>. QED  BY <2>1
<1>12. CASE A[m].ok
  <2>1. Whole(f, lines).ok = TRUE /\ Whole(f, lines).lines = A[m].out \o rest
    BY <1>10, <1>12
  <2>2. \A k \in 1 .. m : Added(f.hunks[k]) \subseteq Range(A[m].out \o rest)
    BY <1>6, <1>9, <1>12
  <2>3. ASSUME NEW i \in DOMAIN lines
        PROVE  lines[i] \in Range(A[m].out \o rest) \cup Lost(m)
    <3>1. i \in 1 .. A[m].cursor \/ i \in A[m].cursor + 1 .. Len(lines)
      BY <1>3, <1>7
    <3>2. CASE i \in 1 .. A[m].cursor
      BY <1>6, <1>9, <1>12, <3>2
    <3>3. CASE i \in A[m].cursor + 1 .. Len(lines)
      BY <1>8, <1>9, <3>3
    <3>. QED  BY <3>1, <3>2, <3>3
  <2>4. Range(lines) \subseteq Range(A[m].out \o rest) \cup Lost(m)
    BY <2>3 DEF Range
  <2>5. Lost(m) = UNION {Removed(f.hunks[k]) : k \in DOMAIN f.hunks}
    BY <1>1
  <2> HIDE DEF Lost
  <2>. QED  BY <1>1, <1>9, <2>1, <2>2, <2>4, <2>5
<1>. QED  BY <1>7, <1>11, <1>12

\* Hunks that match the file, each after the one before it, apply.
LEMMA WholeFits ==
    ASSUME NEW T, NEW lines \in Seq(T), NEW f, FileOver(f, T),
           \A k \in DOMAIN f.hunks : At(lines, Index(f.hunks[k]), Old(f.hunks[k])),
           \A j, k \in DOMAIN f.hunks :
              j < k => Index(f.hunks[j]) + Len(Old(f.hunks[j])) <= Index(f.hunks[k])
    PROVE  Whole(f, lines).ok
<1> DEFINE A == Copied(f, lines)
           m == Len(f.hunks)
           End1(n) == IF n = 0 THEN 0 ELSE Index(f.hunks[n]) + Len(Old(f.hunks[n]))
           Reached(n) == A[n].ok = TRUE /\ A[n].cursor = End1(n)
           P(n) == n <= m => Reached(n)
           N == {n \in Nat : P(n)}
<1>1. m \in Nat /\ DOMAIN f.hunks = 1 .. m
  BY DEF FileOver, IsList
<1>2. \A n \in 0 .. m : A[n] = IF n = 0 THEN [ok |-> TRUE, cursor |-> 0, out |-> <<>>]
                        ELSE Step(A[n - 1], f.hunks[n], lines)
  BY <1>1, CopiedSteps
<1> HIDE DEF A, m
<1>3. 0 \in N
  BY <1>1, <1>2
<1>4. ASSUME NEW n \in N  PROVE n + 1 \in N
  <2> HIDE DEF Reached
  <2> SUFFICES ASSUME n + 1 <= m
               PROVE  Reached(n + 1)
    OBVIOUS
  <2> USE DEF Reached
  <2> DEFINE h == f.hunks[n + 1]
  <2>1. A[n].ok = TRUE /\ A[n].cursor = End1(n)
    BY <1>1
  <2>2. A[n + 1] = Step(A[n], h, lines)
    BY <1>1, <1>2
  <2>3. At(lines, Index(h), Old(h))
    BY <1>1
  <2>4. End1(n) <= Index(h)
    <3>1. CASE n = 0
      BY <2>3, <3>1 DEF At
    <3>2. CASE n # 0
      <4>1. n \in DOMAIN f.hunks /\ n + 1 \in DOMAIN f.hunks /\ n < n + 1
        BY <1>1, <3>2
      <4>. QED  BY <3>2, <4>1
    <3>. QED  BY <3>1, <3>2
  <2>5. End1(n) \in Int /\ Index(h) \in Int
    <3>1. \A k \in DOMAIN f.hunks : Index(f.hunks[k]) \in Int /\ Len(Old(f.hunks[k])) \in Nat
      <4> TAKE k \in DOMAIN f.hunks
      <4>1. HunkOver(f.hunks[k], T)
        BY DEF FileOver
      <4>2. Old(f.hunks[k]) \in Seq(T)
        BY <4>1, HunkMeans
      <4>. QED  BY <4>1, <4>2, IndexIsAnInteger
    <3>2. n + 1 \in DOMAIN f.hunks /\ (n # 0 => n \in DOMAIN f.hunks)
      BY <1>1
    <3>. QED  BY <3>1, <3>2
  <2>6. End1(n + 1) = Index(h) + Len(Old(h))
    OBVIOUS
  <2> HIDE DEF End1, h
  <2>7. ~(~A[n].ok \/ Index(h) < A[n].cursor \/ ~At(lines, Index(h), Old(h)))
    BY <2>1, <2>3, <2>4, <2>5
  <2>8. /\ Step(A[n], h, lines).ok = TRUE
        /\ Step(A[n], h, lines).cursor = Index(h) + Len(Old(h))
    BY <2>7 DEF Step, Index
  <2>. QED  BY <2>2, <2>6, <2>8
<1>5. N = Nat
  <2> HIDE DEF N
  <2>1. N \subseteq Nat  BY DEF N
  <2>. QED  BY <2>1, <1>3, <1>4, NatSetInduction
<1>6. A[m].ok = TRUE
  <2>1. m \in N
    BY <1>1, <1>5
  <2>. QED  BY <1>1, <2>1
<1>. QED  BY <1>6 DEF Whole, A, m

\* The hunks of a section that applies match the file.
LEMMA WholeMatches ==
    ASSUME NEW T, NEW lines \in Seq(T), NEW f, FileOver(f, T), Whole(f, lines).ok
    PROVE  \A k \in DOMAIN f.hunks : At(lines, Index(f.hunks[k]), Old(f.hunks[k]))
<1> DEFINE A == Copied(f, lines)
           m == Len(f.hunks)
           Match(k) == At(lines, Index(f.hunks[k]), Old(f.hunks[k]))
           Matched(n) == A[n] \in Copies(lines, T) /\ (A[n].ok => \A k \in 1 .. n : Match(k))
           P(n) == n <= m => Matched(n)
           N == {n \in Nat : P(n)}
<1>1. m \in Nat /\ DOMAIN f.hunks = 1 .. m
  BY DEF FileOver, IsList
<1>2. \A n \in 0 .. m : A[n] = IF n = 0 THEN [ok |-> TRUE, cursor |-> 0, out |-> <<>>]
                        ELSE Step(A[n - 1], f.hunks[n], lines)
  BY <1>1, CopiedSteps
<1>7. A[m].ok
  BY DEF Whole
<1> HIDE DEF A, m
<1>3. 0 \in N
  <2>1. 0 \in 0 .. m
    BY <1>1
  <2>2. A[0] = [ok |-> TRUE, cursor |-> 0, out |-> <<>>]
    BY <1>2, <2>1, Zenon
  <2>3. A[0] \in Copies(lines, T)
    BY <2>2 DEF Copies
  <2>. QED  BY <2>3
<1>4. ASSUME NEW n \in N  PROVE n + 1 \in N
  <2> HIDE DEF Matched
  <2> SUFFICES ASSUME n + 1 <= m  PROVE Matched(n + 1)
    OBVIOUS
  <2> DEFINE h == f.hunks[n + 1]
             a == A[n]
             b == A[n + 1]
  <2>1. Matched(n) /\ n \in Nat /\ n + 1 \in 0 .. m /\ n + 1 \in DOMAIN f.hunks
    BY <1>1
  <2>2. b = Step(a, h, lines)
    BY <1>2, <2>1
  <2>3. HunkOver(h, T) /\ a \in Copies(lines, T)
    BY <2>1 DEF FileOver, Matched
  <2> HIDE DEF a, b, h
  <2>4. b \in Copies(lines, T) /\ (b.ok => a.ok)
    BY <2>2, <2>3, StepMeans
  <2>5. b.ok => At(lines, Index(h), Old(h))
    <3> SUFFICES ASSUME ~At(lines, Index(h), Old(h))  PROVE ~b.ok
      OBVIOUS
    <3>1. b = [a EXCEPT !.ok = FALSE]
      BY <2>2 DEF Step, Index
    <3>. QED  BY <2>3, <3>1 DEF Copies
  <2>6. ASSUME b.ok, NEW k \in 1 .. n + 1  PROVE Match(k)
    <3>1. CASE k = n + 1
      BY <2>5, <2>6, <3>1 DEF h
    <3>2. CASE k # n + 1
      <4>1. k \in 1 .. n
        BY <2>1, <3>2
      <4>. QED  BY <2>1, <2>4, <2>6, <4>1 DEF Matched, a
    <3>. QED  BY <3>1, <3>2
  <2>. QED  BY <2>4, <2>6 DEF Matched, b
<1>5. N = Nat
  <2> HIDE DEF N
  <2>1. N \subseteq Nat  BY DEF N
  <2>. QED  BY <2>1, <1>3, <1>4, NatSetInduction
<1>6. Matched(m)
  <2> HIDE DEF Matched
  <2>1. m \in N
    BY <1>1, <1>5
  <2>. QED  BY <1>1, <2>1
<1>. QED  BY <1>1, <1>6, <1>7

-----------------------------------------------------------------------------
(* A diff over the commit.                                                 *)

\* One section of a diff: no other file changes, and its own is removed, or becomes what
\* the section makes of the original.
LEMMA ApplyMeans ==
    ASSUME NEW a, a = [ok |-> a.ok, tree |-> a.tree], a.ok \in BOOLEAN, NEW f, NEW files
    PROVE  LET b == Apply(a, f, files) IN
              /\ b = [ok |-> b.ok, tree |-> b.tree] /\ b.ok \in BOOLEAN
              /\ a.ok /\ (IsRemoved(f) \/ Applicable(f, files)) => b.ok
              /\ b.ok => /\ a.ok
                         /\ \A p : p # f.path =>
                               /\ p \in DOMAIN b.tree <=> p \in DOMAIN a.tree
                               /\ p \in DOMAIN a.tree => b.tree[p] = a.tree[p]
                         /\ IsRemoved(f) => f.path \notin DOMAIN b.tree
                         /\ ~IsRemoved(f) =>
                               /\ Applicable(f, files) /\ f.path \in DOMAIN b.tree
                               /\ b.tree[f.path] = Whole(f, Source(f, files)).lines
<1> DEFINE b == Apply(a, f, files)
           whole == Whole(f, Source(f, files)).lines
<1>1. CASE ~a.ok
  <2>1. b = a
    BY <1>1 DEF Apply
  <2> HIDE DEF b
  <2>. QED  BY <1>1, <2>1 DEF b
<1>2. CASE a.ok /\ IsRemoved(f)
  <2> DEFINE t == Restrict(a.tree, DOMAIN a.tree \ {f.path})
  <2>1. b = [ok |-> TRUE, tree |-> t]
    BY <1>2 DEF Apply
  <2>2. /\ DOMAIN t = DOMAIN a.tree \ {f.path}
        /\ \A p \in DOMAIN t : t[p] = a.tree[p]
    BY DEF Restrict
  <2> HIDE DEF b, t
  <2>3. b.ok = TRUE /\ b.tree = t
    BY <2>1
  <2>. QED  BY <1>2, <2>1, <2>2, <2>3 DEF b
<1>3. CASE a.ok /\ ~IsRemoved(f) /\ Applicable(f, files)
  <2> DEFINE t == With(a.tree, f.path, whole)
  <2>1. b = [ok |-> TRUE, tree |-> t]
    BY <1>3 DEF Apply
  <2> HIDE DEF whole
  <2>2. /\ DOMAIN t = DOMAIN a.tree \cup {f.path} /\ t[f.path] = whole
        /\ \A p \in DOMAIN a.tree : p # f.path => t[p] = a.tree[p]
    BY DEF With
  <2> HIDE DEF b, t
  <2>3. b.ok = TRUE /\ b.tree = t
    BY <2>1
  <2>. QED  BY <1>3, <2>1, <2>2, <2>3 DEF b, whole
<1>4. CASE a.ok /\ ~IsRemoved(f) /\ ~Applicable(f, files)
  <2>1. b = [ok |-> FALSE, tree |-> a.tree]
    BY <1>4 DEF Apply
  <2> HIDE DEF b
  <2>2. b.ok = FALSE /\ b.tree = a.tree
    BY <2>1
  <2>. QED  BY <1>4, <2>1, <2>2 DEF b
<1>. QED  BY <1>1, <1>2, <1>3, <1>4

\* What has become of a file after the first n sections: no section names it, or the last
\* one that does decides.
Became(p, out, diff, n, files) ==
    \/ /\ \A i \in 1 .. n : diff[i].path # p
       /\ p \in DOMAIN out <=> p \in DOMAIN files
       /\ p \in DOMAIN files => out[p] = files[p]
    \/ \E i \in 1 .. n :
          /\ diff[i].path = p
          /\ \A j \in i + 1 .. n : diff[j].path # p
          /\ IsRemoved(diff[i]) => p \notin DOMAIN out
          /\ ~IsRemoved(diff[i]) =>
                /\ Applicable(diff[i], files) /\ p \in DOMAIN out
                /\ out[p] = Whole(diff[i], Source(diff[i], files)).lines

\* The last section of each file decides what becomes of it.
LEMMA PatchedMeans ==
    ASSUME NEW diff, NEW files, IsList(diff)
    PROVE  /\ Patched(diff, files).ok \in BOOLEAN
           /\ Patched(diff, files).ok =>
                 \A p : Became(p, Patched(diff, files).tree, diff, Len(diff), files)
<1> DEFINE A == PatchedUpTo(diff, files)
           m == Len(diff)
           Told(n) == /\ A[n] = [ok |-> A[n].ok, tree |-> A[n].tree] /\ A[n].ok \in BOOLEAN
                      /\ A[n].ok => \A p : Became(p, A[n].tree, diff, n, files)
           P(n) == n <= m => Told(n)
           N == {n \in Nat : P(n)}
<1>1. m \in Nat /\ DOMAIN diff = 1 .. m
  BY DEF IsList
<1>2. \A n \in 0 .. m : A[n] = IF n = 0 THEN [ok |-> TRUE, tree |-> files]
                        ELSE Apply(A[n - 1], diff[n], files)
  BY <1>1, PatchedSteps
<1> HIDE DEF A, m
<1>3. 0 \in N
  <2>0. 0 \in 0 .. m
    BY <1>1
  <2>1. A[0] = [ok |-> TRUE, tree |-> files]
    BY <1>2, <2>0, Zenon
  <2>2. A[0].ok = TRUE /\ A[0].tree = files
    BY <2>1
  <2>3. \A p : Became(p, files, diff, 0, files)
    BY DEF Became
  <2>4. Told(0)
    BY <2>1, <2>2, <2>3
  <2> HIDE DEF Told
  <2>. QED  BY <2>4
<1>4. ASSUME NEW n \in N  PROVE n + 1 \in N
  <2> HIDE DEF Told
  <2> SUFFICES ASSUME n + 1 <= m  PROVE Told(n + 1)
    OBVIOUS
  <2>1. Told(n) /\ n \in Nat /\ n + 1 \in 0 .. m
    BY <1>1
  <2> DEFINE f == diff[n + 1]
             a == A[n]
             b == A[n + 1]
  <2>2. b = Apply(a, f, files)
    BY <1>2, <2>1
  <2>3. /\ a = [ok |-> a.ok, tree |-> a.tree] /\ a.ok \in BOOLEAN
        /\ a.ok => \A p : Became(p, a.tree, diff, n, files)
    BY <2>1 DEF Told
  <2> HIDE DEF a, b
  <2>4. /\ b = [ok |-> b.ok, tree |-> b.tree] /\ b.ok \in BOOLEAN
        /\ b.ok => /\ a.ok
                   /\ \A p : p # f.path =>
                         /\ p \in DOMAIN b.tree <=> p \in DOMAIN a.tree
                         /\ p \in DOMAIN a.tree => b.tree[p] = a.tree[p]
                   /\ IsRemoved(f) => f.path \notin DOMAIN b.tree
                   /\ ~IsRemoved(f) =>
                         /\ Applicable(f, files) /\ f.path \in DOMAIN b.tree
                         /\ b.tree[f.path] = Whole(f, Source(f, files)).lines
    <3> HIDE DEF f
    <3>. QED  BY <2>2, <2>3, ApplyMeans
  <2>5. ASSUME b.ok, NEW p  PROVE Became(p, b.tree, diff, n + 1, files)
    <3>1. CASE p = f.path
      <4>1. n + 1 \in 1 .. n + 1 /\ \A j \in (n + 1) + 1 .. n + 1 : diff[j].path # p
        BY <2>1
      <4>. QED  BY <2>4, <2>5, <3>1, <4>1 DEF Became
    <3>2. CASE p # f.path
      <4>1. /\ Became(p, a.tree, diff, n, files)
            /\ p \in DOMAIN b.tree <=> p \in DOMAIN a.tree
            /\ p \in DOMAIN a.tree => b.tree[p] = a.tree[p]
        BY <2>3, <2>4, <2>5, <3>2
      <4>2. \A j \in 1 .. n + 1 : j \in 1 .. n \/ j = n + 1
        BY <2>1
      <4>3. CASE /\ \A i \in 1 .. n : diff[i].path # p
                 /\ p \in DOMAIN a.tree <=> p \in DOMAIN files
                 /\ p \in DOMAIN files => a.tree[p] = files[p]
        <5>1. \A i \in 1 .. n + 1 : diff[i].path # p
          BY <3>2, <4>2, <4>3
        <5>. QED  BY <4>1, <4>3, <5>1 DEF Became
      <4>4. ASSUME NEW i \in 1 .. n,
                   diff[i].path = p, \A j \in i + 1 .. n : diff[j].path # p,
                   IsRemoved(diff[i]) => p \notin DOMAIN a.tree,
                   ~IsRemoved(diff[i]) =>
                      /\ Applicable(diff[i], files) /\ p \in DOMAIN a.tree
                      /\ a.tree[p] = Whole(diff[i], Source(diff[i], files)).lines
            PROVE  Became(p, b.tree, diff, n + 1, files)
        <5>1. i \in 1 .. n + 1 /\ \A j \in i + 1 .. n + 1 : j \in i + 1 .. n \/ j = n + 1
          BY <2>1
        <5>2. \A j \in i + 1 .. n + 1 : diff[j].path # p
          BY <3>2, <4>4, <5>1
        <5>. QED  BY <4>1, <4>4, <5>1, <5>2 DEF Became
      <4>. QED  BY <4>1, <4>3, <4>4 DEF Became
    <3>. QED  BY <3>1, <3>2
  <2>. QED  BY <2>4, <2>5 DEF Told, b
<1>5. N = Nat
  <2> HIDE DEF N
  <2>1. N \subseteq Nat  BY DEF N
  <2>. QED  BY <2>1, <1>3, <1>4, NatSetInduction
<1>6. Told(m)
  <2> HIDE DEF Told
  <2>1. m \in N
    BY <1>1, <1>5
  <2>. QED  BY <1>1, <2>1
<1>. QED  BY <1>6 DEF Patched, A, m

\* A diff each of whose sections removes its file or applies to it, applies.
LEMMA PatchedFits ==
    ASSUME NEW diff, NEW files, IsList(diff),
           \A i \in DOMAIN diff : IsRemoved(diff[i]) \/ Applicable(diff[i], files)
    PROVE  Patched(diff, files).ok
<1> DEFINE A == PatchedUpTo(diff, files)
           m == Len(diff)
           Fine(n) == A[n] = [ok |-> A[n].ok, tree |-> A[n].tree] /\ A[n].ok = TRUE
           P(n) == n <= m => Fine(n)
           N == {n \in Nat : P(n)}
<1>1. m \in Nat /\ DOMAIN diff = 1 .. m
  BY DEF IsList
<1>2. \A n \in 0 .. m : A[n] = IF n = 0 THEN [ok |-> TRUE, tree |-> files]
                        ELSE Apply(A[n - 1], diff[n], files)
  BY <1>1, PatchedSteps
<1> HIDE DEF A, m
<1>3. 0 \in N
  <2>0. 0 \in 0 .. m
    BY <1>1
  <2>1. A[0] = [ok |-> TRUE, tree |-> files]
    BY <1>2, <2>0, Zenon
  <2>2. Fine(0)
    BY <2>1
  <2> HIDE DEF Fine
  <2>. QED  BY <2>2
<1>4. ASSUME NEW n \in N  PROVE n + 1 \in N
  <2> HIDE DEF Fine
  <2> SUFFICES ASSUME n + 1 <= m  PROVE Fine(n + 1)
    OBVIOUS
  <2>1. Fine(n) /\ n \in Nat /\ n + 1 \in 0 .. m /\ n + 1 \in DOMAIN diff
    BY <1>1
  <2> DEFINE f == diff[n + 1]
             a == A[n]
             b == A[n + 1]
  <2>2. b = Apply(a, f, files) /\ (IsRemoved(f) \/ Applicable(f, files))
    BY <1>2, <2>1
  <2>3. a = [ok |-> a.ok, tree |-> a.tree] /\ a.ok = TRUE
    BY <2>1 DEF Fine
  <2> HIDE DEF a, b
  <2>4. b = [ok |-> b.ok, tree |-> b.tree] /\ b.ok \in BOOLEAN /\ b.ok
    <3> HIDE DEF f
    <3>. QED  BY <2>2, <2>3, ApplyMeans
  <2>. QED  BY <2>4 DEF Fine, b
<1>5. N = Nat
  <2> HIDE DEF N
  <2>1. N \subseteq Nat  BY DEF N
  <2>. QED  BY <2>1, <1>3, <1>4, NatSetInduction
<1>6. Fine(m)
  <2> HIDE DEF Fine
  <2>1. m \in N
    BY <1>1, <1>5
  <2>. QED  BY <1>1, <2>1
<1>. QED  BY <1>6 DEF Patched, A, m

-----------------------------------------------------------------------------
(* The patch that is tried.                                                *)

\* What was accepted is what is tried, until a repair asks for another.
PatchInv ==
    /\ pc \in {"validate", "repair", "critique", "score"} =>
          \E r \in Patches : Valid(r) /\ patch.diff = r.diff /\ patch.test = r.test
    /\ Tried => tree = Patched(patch.diff, Repo)

LEMMA PatchInit == Init => PatchInv
  BY DEF Init, PatchInv, Tried

\* A step that changes none of what a patch was held against.
LEMMA PatchKept ==
    ASSUME PatchInv, UNCHANGED <<bundle, analysis, patch, tree>>,
           \/ pc' \in {"reason", "patch", "over"} \/ pc' = pc
           \/ Tried /\ pc' \in {"repair", "critique", "score"}
    PROVE  PatchInv'
<1>1. pc' \in {"validate", "repair", "critique", "score"}
         => pc \in {"validate", "repair", "critique", "score"}
  BY DEF Tried
<1>2. Tried' => Tried
  BY DEF Tried
<1>3. \A r : Valid(r) => Valid(r)'
  BY DEF Valid, InScope, AllowedPaths, Applies, Fits
<1>. QED  BY <1>1, <1>2, <1>3 DEF PatchInv

LEMMA PatchPatch ==
    ASSUME PatchInv, NEW r \in Patches, Patch(r)
    PROVE  PatchInv'
<1>1. CASE Valid(r)
  <2>1. /\ pc' = "validate" /\ patch'.diff = r.diff /\ patch'.test = r.test
        /\ UNCHANGED <<bundle, analysis>>
    BY <1>1 DEF Patch
  <2>2. Valid(r)'
    BY <1>1, <2>1 DEF Valid, InScope, AllowedPaths, Applies, Fits
  <2>. QED  BY <2>1, <2>2 DEF PatchInv, Tried
<1>2. CASE ~Valid(r)
  <2>1. UNCHANGED <<bundle, analysis, patch, tree>> /\ pc' \in {pc, "over"}
    BY <1>2 DEF Patch, End
  <2>. QED  BY <2>1, PatchKept
<1>. QED  BY <1>1, <1>2

LEMMA PatchValidate ==
    ASSUME PatchInv, NEW answer \in Answers, Validate(answer)
    PROVE  PatchInv'
<1>1. pc = "validate" /\ tree' = G0[patch.diff] /\ UNCHANGED <<bundle, analysis, patch>>
  BY DEF Validate
<1>2. PICK r \in Patches : Valid(r) /\ patch.diff = r.diff /\ patch.test = r.test
  BY <1>1 DEF PatchInv
<1>3. tree' = Patched(patch.diff, Repo)
  BY <1>1, <1>2 DEF G0
<1>4. Valid(r)'
  BY <1>1, <1>2 DEF Valid, InScope, AllowedPaths, Applies, Fits
<1>. QED  BY <1>1, <1>2, <1>3, <1>4 DEF PatchInv

LEMMA PatchNext == PatchInv /\ [Next]_vars => PatchInv'
<1> SUFFICES ASSUME PatchInv, [Next]_vars  PROVE PatchInv'
  OBVIOUS
<1>1. CASE ReasonerUnavailable \/ PatcherUnavailable \/ CriticUnavailable
  BY <1>1, PatchKept DEF ReasonerUnavailable, PatcherUnavailable, CriticUnavailable, End, Tried
<1>2. ASSUME NEW reply \in Causes, Reason(reply)  PROVE PatchInv'
  <2>1. pc' \in {"reason", "patch", "over"}
    BY <1>2 DEF Reason, End
  <2>. QED  BY <2>1 DEF PatchInv, Tried
<1>3. ASSUME NEW reply \in Patches, Patch(reply)  PROVE PatchInv'
  BY <1>3, PatchPatch
<1>4. ASSUME NEW answer \in Answers, Validate(answer)  PROVE PatchInv'
  BY <1>4, PatchValidate
<1>5. CASE Repair
  <2>1. pc' \in {"reason", "patch", "over"}
    BY <1>5 DEF Repair, End, Reroute
  <2>. QED  BY <2>1 DEF PatchInv, Tried
<1>6. ASSUME NEW reply \in Reviews, Critique(reply)  PROVE PatchInv'
  BY <1>6, PatchKept DEF Critique, Tried
<1>7. ASSUME NEW autoMerge \in BOOLEAN, Score(autoMerge)  PROVE PatchInv'
  BY <1>7, PatchKept DEF Score, End
<1>8. CASE UNCHANGED vars
  BY <1>8, PatchKept DEF vars
<1>. QED  BY <1>1, <1>2, <1>3, <1>4, <1>5, <1>6, <1>7, <1>8 DEF Next

\* The texts of the commit and of a diff.
TextsOf(diff) ==
    Text \cup UNION {UNION {{h.lines[j].text : j \in DOMAIN h.lines} : h \in Range(diff[i].hunks)}
                     : i \in DOMAIN diff}

\* Every section of a diff is one over these texts, and so is every file it starts from.
LEMMA DiffTyped ==
    ASSUME NEW diff, IsDiff(diff), NEW i \in DOMAIN diff
    PROVE  /\ FileOver(diff[i], TextsOf(diff))
           /\ \A k \in DOMAIN diff[i].hunks : diff[i].hunks[k].from \in Nat
           /\ IsAdded(diff[i]) \/ diff[i].path \in DOMAIN Repo =>
                 Source(diff[i], Repo) \in Seq(TextsOf(diff))
<1> DEFINE T == TextsOf(diff)
<1>1. IsList(diff[i].hunks)
  BY DEF IsDiff
<1>2. ASSUME NEW k \in DOMAIN diff[i].hunks  PROVE HunkOver(diff[i].hunks[k], T)
  <2> DEFINE h == diff[i].hunks[k]
  <2>1. h \in Range(diff[i].hunks)
    BY DEF Range
  <2>2. h.from \in Nat /\ IsList(h.lines) /\ \A l \in Range(h.lines) : l.op \in {"+", "-", " "}
    BY <2>1 DEF IsDiff
  <2>3. \A j \in DOMAIN h.lines : h.lines[j].text \in T
    BY <2>1 DEF TextsOf
  <2> HIDE DEF h, T
  <2>4. \A l \in Range(h.lines) : l.text \in T
    BY <2>3 DEF Range
  <2>. QED  BY <2>2, <2>4 DEF HunkOver, h
<1>3. \A k \in DOMAIN diff[i].hunks : diff[i].hunks[k].from \in Nat
  BY <1>2 DEF HunkOver
<1>4. Text \subseteq T
  BY DEF TextsOf
<1> HIDE DEF T
<1>5. \A p \in DOMAIN Repo : Repo[p] \in Seq(T)
  BY <1>4, ContextAssumption
<1>6. <<>> \in Seq(T)
  OBVIOUS
<1>7. IsAdded(diff[i]) \/ diff[i].path \in DOMAIN Repo => Source(diff[i], Repo) \in Seq(T)
  BY <1>5, <1>6 DEF Source
<1>8. FileOver(diff[i], T)
  BY <1>1, <1>2 DEF FileOver
<1>. QED  BY <1>3, <1>7, <1>8 DEF T

\* A part of a window is a part of the file.
LEMMA AtInWindow ==
    ASSUME NEW S, NEW s \in Seq(S), NEW w \in Seq(S), NEW a \in Int, At(s, a, w),
           NEW o \in Seq(S), NEW c \in Int, At(w, c, o)
    PROVE  At(s, a + c, o)
<1>1. /\ Len(s) \in Nat /\ Len(w) \in Nat /\ Len(o) \in Nat /\ a \in Nat /\ c \in Nat
      /\ a + Len(w) <= Len(s) /\ c + Len(o) <= Len(w)
      /\ SubSeq(s, a + 1, a + Len(w)) = w /\ SubSeq(w, c + 1, c + Len(o)) = o
  BY DEF At
<1> DEFINE x == SubSeq(s, (a + c) + 1, (a + c) + Len(o))
           m == Len(w)
           n == Len(o)
<1> HIDE DEF m, n
<1>2. m \in Nat /\ n \in Nat /\ a + m <= Len(s) /\ c + n <= m
  BY <1>1 DEF m, n
<1>3. \A i \in 1 .. m : w[i] = s[a + i]
  <2>1. a + m \in 0 .. Len(s) /\ a <= a + m /\ (a + m) - a = m
    BY <1>1, <1>2
  <2>2. \A i \in 1 .. (a + m) - a : SubSeq(s, a + 1, a + m)[i] = s[a + i]
    BY <1>1, <2>1, PartOf
  <2>. QED  BY <1>1, <2>1, <2>2 DEF m
<1>4. \A i \in 1 .. n : o[i] = w[c + i]
  <2>1. c + n \in 0 .. Len(w) /\ c <= c + n /\ (c + n) - c = n
    BY <1>1, <1>2 DEF m
  <2>2. \A i \in 1 .. (c + n) - c : SubSeq(w, c + 1, c + n)[i] = w[c + i]
    BY <1>1, <2>1, PartOf
  <2>. QED  BY <1>1, <2>1, <2>2 DEF n
<1>5. /\ x \in Seq(S) /\ Len(x) = n
      /\ \A i \in 1 .. n : x[i] = s[(a + c) + i]
  <2> DEFINE d == a + c
             e == (a + c) + n
  <2>1. d \in Nat /\ e \in 0 .. Len(s) /\ d <= e /\ e - d = n
    BY <1>1, <1>2
  <2> HIDE DEF d, e
  <2>2. /\ SubSeq(s, d + 1, e) \in Seq(S) /\ Len(SubSeq(s, d + 1, e)) = e - d
        /\ \A i \in 1 .. e - d : SubSeq(s, d + 1, e)[i] = s[d + i]
    BY <2>1, PartOf
  <2>. QED  BY <2>1, <2>2 DEF d, e, n
<1> HIDE DEF x
<1>6. \A i \in 1 .. n : x[i] = o[i]
  <2> TAKE i \in 1 .. n
  <2>1. c + i \in 1 .. m /\ (a + c) + i = a + (c + i)
    BY <1>1, <1>2
  <2>. QED  BY <1>3, <1>4, <1>5, <2>1
<1>7. x = o
  BY <1>5, <1>6, <1>1 DEF n
<1>8. a + c >= 0 /\ (a + c) + n <= Len(s)
  BY <1>1, <1>2
<1>. QED  BY <1>7, <1>8 DEF At, x, n

\* What a file has within the bounds of a window, the window has.
LEMMA AtInPart ==
    ASSUME NEW S, NEW s \in Seq(S), NEW w \in Seq(S), NEW a \in Int, At(s, a, w),
           NEW o \in Seq(S), NEW b \in Int, At(s, b, o),
           a <= b, b + Len(o) <= a + Len(w)
    PROVE  At(w, b - a, o)
<1> DEFINE m == Len(w)
           n == Len(o)
           c == b - a
           x == SubSeq(w, c + 1, c + n)
<1>1. /\ m \in Nat /\ n \in Nat /\ a \in Nat /\ b \in Nat /\ Len(s) \in Nat
      /\ a + m <= Len(s) /\ b + n <= Len(s)
      /\ SubSeq(s, a + 1, a + m) = w /\ SubSeq(s, b + 1, b + n) = o
  BY DEF At
<1>2. c \in Nat /\ c + n <= m /\ b = a + c /\ b + n <= a + m
  BY <1>1
<1> HIDE DEF c, m, n
<1>3. \A i \in 1 .. m : w[i] = s[a + i]
  <2>1. a + m \in 0 .. Len(s) /\ a <= a + m /\ (a + m) - a = m
    BY <1>1
  <2>2. \A i \in 1 .. (a + m) - a : SubSeq(s, a + 1, a + m)[i] = s[a + i]
    BY <1>1, <2>1, PartOf
  <2>. QED  BY <1>1, <2>1, <2>2
<1>4. \A i \in 1 .. n : o[i] = s[b + i]
  <2>1. b + n \in 0 .. Len(s) /\ b <= b + n /\ (b + n) - b = n
    BY <1>1
  <2>2. \A i \in 1 .. (b + n) - b : SubSeq(s, b + 1, b + n)[i] = s[b + i]
    BY <1>1, <2>1, PartOf
  <2>. QED  BY <1>1, <2>1, <2>2
<1>5. x \in Seq(S) /\ Len(x) = n /\ \A i \in 1 .. n : x[i] = w[c + i]
  <2>1. c + n \in 0 .. Len(w) /\ c <= c + n /\ (c + n) - c = n
    BY <1>1, <1>2 DEF m
  <2>2. /\ SubSeq(w, c + 1, c + n) \in Seq(S) /\ Len(SubSeq(w, c + 1, c + n)) = (c + n) - c
        /\ \A i \in 1 .. (c + n) - c : SubSeq(w, c + 1, c + n)[i] = w[c + i]
    BY <1>2, <2>1, PartOf
  <2>. QED  BY <2>1, <2>2
<1> HIDE DEF x
<1>6. \A i \in 1 .. n : x[i] = o[i]
  <2> TAKE i \in 1 .. n
  <2>1. c + i \in 1 .. m /\ a + (c + i) = b + i
    BY <1>1, <1>2
  <2>. QED  BY <1>3, <1>4, <1>5, <2>1
<1>7. x = o
  <2>1. x \in Seq(S) /\ o \in Seq(S) /\ Len(x) = n /\ Len(o) = n
    BY <1>5 DEF n
  <2>2. DOMAIN x = 1 .. n /\ DOMAIN o = 1 .. n
    BY <2>1
  <2>. QED  BY <1>6, <2>1, <2>2
<1>. QED  BY <1>2, <1>7 DEF At, x, c, m, n

\* What is compared of a text that was retrieved is in the file where the text is.
LEMMA ComparedInFile ==
    ASSUME NEW S, NEW s \in Seq(S), NEW view, view.lines \in Seq(S), NEW a \in Int,
           At(s, a, view.lines)
    PROVE  Compared(view) \in Seq(S) /\ At(s, a, Compared(view))
<1> DEFINE w == view.lines
           n == Len(w)
<1>1. CASE ~view.joined
  BY <1>1 DEF Compared
<1>2. CASE view.joined
  <2>1. Compared(view) = SubSeq(w, 1, n - 1) /\ n \in Nat
    BY <1>2 DEF Compared
  <2> HIDE DEF w, n
  <2>2. CASE n = 0
    <3>1. SubSeq(w, 1, n - 1) = <<>>
      BY <2>2 DEF w
    <3>2. At(s, a, <<>>) /\ <<>> \in Seq(S)
      <4>1. a >= 0 /\ a + 0 <= Len(s)
        BY <2>2 DEF At, w, n
      <4>2. SubSeq(s, a + 1, a + 0) = <<>> /\ Len(<<>>) = 0
        OBVIOUS
      <4>. QED  BY <4>1, <4>2 DEF At
    <3>. QED  BY <2>1, <3>1, <3>2
  <2>3. CASE n # 0
    <3> DEFINE e == n - 1
    <3>1. e \in 0 .. n /\ e - 0 = e /\ 0 + 1 = 1
      BY <2>1, <2>3
    <3> HIDE DEF e
    <3>2. SubSeq(w, 1, e) \in Seq(S) /\ Len(SubSeq(w, 1, e)) = e
      BY <3>1, PartOf DEF n, w
    <3>3. At(w, 0, SubSeq(w, 1, e))
      BY <3>1, <3>2 DEF At, n
    <3>4. At(s, a + 0, SubSeq(w, 1, e))
      <4>1. w \in Seq(S) /\ At(s, a, w) /\ 0 \in Int
        BY DEF w
      <4>. HIDE DEF w
      <4>. QED  BY <3>2, <3>3, <4>1, AtInWindow
    <3>5. a + 0 = a
      OBVIOUS
    <3>. QED  BY <2>1, <3>2, <3>4, <3>5 DEF e
  <2>. QED  BY <2>2, <2>3
<1>. QED  BY <1>1, <1>2

\* What an accepted patch touches, and of which commit.
LEMMA Accepted ==
    ASSUME AnalysisInv, PatchInv, Tried
    PROVE  /\ IsDiff(patch.diff) /\ IsList(patch.diff) /\ tree = Patched(patch.diff, Repo)
           /\ analysis.files \subseteq DOMAIN Repo /\ bundle \in Bundles
           /\ \A i \in DOMAIN patch.diff :
                 LET f == patch.diff[i] IN
                 /\ f.path \notin Forbidden \cup analysis.mustNot
                 /\ f.path \in analysis.files \cup {patch.test}
                 /\ f.path \in DOMAIN bundle.tests => ~IsRemoved(f) /\ TestsRemoved(f) = {}
                 /\ Fits(f)
<1>1. PICK r \in Patches : Valid(r) /\ patch.diff = r.diff /\ patch.test = r.test
  BY DEF PatchInv, Tried
<1>2. IsDiff(patch.diff) /\ IsList(patch.diff)
  BY <1>1, ReplyAssumption DEF IsDiff
<1>3. tree = Patched(patch.diff, Repo)
  BY DEF PatchInv
<1>4. bundle \in Bundles /\ analysis.files \subseteq DOMAIN bundle.files
  <2>1. Analysed /\ bundle \in Bundles
    BY DEF AnalysisInv, Tried
  <2>. QED  BY <2>1 DEF Analysed, Analysis
<1>5. analysis.files \subseteq DOMAIN Repo
  BY <1>4, ContextAssumption
<1>6. ASSUME NEW i \in DOMAIN patch.diff
      PROVE  LET f == patch.diff[i] IN
             /\ f.path \notin Forbidden \cup analysis.mustNot
             /\ f.path \in analysis.files \cup {patch.test}
             /\ f.path \in DOMAIN bundle.tests => ~IsRemoved(f) /\ TestsRemoved(f) = {}
             /\ Fits(f)
  BY <1>1 DEF Valid, InScope, AllowedPaths, Applies
<1>. QED  BY <1>2, <1>3, <1>4, <1>5, <1>6

LEMMA ScopeIsKept ==
    ASSUME AnalysisInv, PatchInv
    PROVE  ScopeHolds
<1> SUFFICES ASSUME Tried, tree.ok  PROVE ScopeHolds
  BY DEF ScopeHolds
<1> DEFINE t == tree.tree
           n == Len(patch.diff)
           open == (analysis.files \cup {patch.test}) \ (Forbidden \cup analysis.mustNot)
<1>1. \A i \in DOMAIN patch.diff :
         patch.diff[i].path \in open /\ patch.diff[i].path \in DOMAIN Repo \cup {patch.test}
  BY Accepted
<1>2. DOMAIN patch.diff = 1 .. n
  BY Accepted DEF IsList
<1>3. \A p : Became(p, t, patch.diff, n, Repo)
  BY Accepted, PatchedMeans
<1> HIDE DEF t, n, open
<1>4. ASSUME NEW p \in DOMAIN t  PROVE p \in DOMAIN Repo \cup {patch.test}
  <2>1. Became(p, t, patch.diff, n, Repo)
    BY <1>3
  <2>. QED  BY <1>1, <1>2, <2>1 DEF Became
<1>5. ASSUME NEW p \in DOMAIN Repo \ open  PROVE p \in DOMAIN t /\ t[p] = Repo[p]
  <2>1. Became(p, t, patch.diff, n, Repo)
    BY <1>3
  <2>. QED  BY <1>1, <1>2, <2>1 DEF Became
<1>. QED  BY <1>4, <1>5 DEF ScopeHolds, t, open

LEMMA TestsAreKept ==
    ASSUME AnalysisInv, PatchInv
    PROVE  TestsSurvive
<1> SUFFICES ASSUME Tried, tree.ok, NEW p \in DOMAIN bundle.tests,
                    \A i \in DOMAIN patch.diff : patch.diff[i].path = p => ~IsAdded(patch.diff[i])
             PROVE  p \in DOMAIN tree.tree /\ Range(Repo[p]) \cap TestDefs \subseteq Range(tree.tree[p])
  BY DEF TestsSurvive
<1> DEFINE t == tree.tree
           n == Len(patch.diff)
           T == TextsOf(patch.diff)
<1>1. p \in DOMAIN Repo
  BY Accepted, ContextAssumption
<1>2. DOMAIN patch.diff = 1 .. n
  BY Accepted DEF IsList
<1>3. Became(p, t, patch.diff, n, Repo)
  BY Accepted, PatchedMeans
<1> HIDE DEF t, n, T
<1>4. CASE p \in DOMAIN t /\ t[p] = Repo[p]
  BY <1>4 DEF t
<1>5. ASSUME NEW i \in DOMAIN patch.diff, patch.diff[i].path = p,
             ~IsRemoved(patch.diff[i]) =>
                /\ Applicable(patch.diff[i], Repo) /\ p \in DOMAIN t
                /\ t[p] = Whole(patch.diff[i], Source(patch.diff[i], Repo)).lines
      PROVE  p \in DOMAIN t /\ Range(Repo[p]) \cap TestDefs \subseteq Range(t[p])
  <2> DEFINE f == patch.diff[i]
             lines == Repo[p]
  <2>1. ~IsRemoved(f) /\ TestsRemoved(f) = {} /\ ~IsAdded(f)
    BY <1>5, Accepted
  <2>2. /\ Whole(f, lines).ok /\ p \in DOMAIN t /\ t[p] = Whole(f, lines).lines
    BY <1>5, <2>1 DEF Applicable, Source
  <2>3. FileOver(f, T) /\ lines \in Seq(T)
    <3>1. FileOver(f, T) /\ Source(f, Repo) \in Seq(T)
      BY <1>1, <1>5, Accepted, DiffTyped DEF T
    <3>. QED  BY <1>5, <2>1, <3>1 DEF Source
  <2> HIDE DEF f, lines
  <2>4. /\ \A k \in DOMAIN f.hunks : Added(f.hunks[k]) \subseteq Range(t[p])
        /\ Range(lines) \subseteq Range(t[p]) \cup UNION {Removed(f.hunks[k]) : k \in DOMAIN f.hunks}
    BY <2>2, <2>3, WholeMeans
  <2>6. Range(lines) \cap TestDefs \subseteq Range(t[p])
    <3> SUFFICES ASSUME NEW x \in Range(lines) \cap TestDefs, x \notin Range(t[p])
                 PROVE  x \in TestsRemoved(f)
      BY <2>1
    <3>1. PICK k \in DOMAIN f.hunks : x \in Removed(f.hunks[k])
      BY <2>4
    <3>2. \A j \in DOMAIN f.hunks : x \notin Added(f.hunks[j])
      BY <2>4
    <3>. QED  BY <3>1, <3>2 DEF TestsRemoved
  <2>. QED  BY <2>2, <2>6 DEF lines
<1>6. p \in DOMAIN t /\ Range(Repo[p]) \cap TestDefs \subseteq Range(t[p])
  BY <1>1, <1>2, <1>3, <1>4, <1>5 DEF Became, t
<1>. QED  BY <1>6 DEF t

\* For every reply and every bundle, what a patch makes of the commit stays in its scope,
\* with every test that was there but for a file put in place of another.
THEOREM ScopeAlwaysKept == Spec => []PatchInScope
<1>1. AnalysisInv /\ PatchInv => PatchInScope
  BY ScopeIsKept, TestsAreKept DEF PatchInScope
<1>. QED  BY <1>1, AnalysisInit, AnalysisNext, PatchInit, PatchNext, PTL DEF Spec

\* A section that S7 accepts applies to the file, but in the cases of MayFail.
LEMMA AcceptedApplies ==
    ASSUME AnalysisInv, PatchInv, Tried, NEW i \in DOMAIN patch.diff,
           ~IsRemoved(patch.diff[i]), ~MayFail(patch.diff[i])
    PROVE  Applicable(patch.diff[i], Repo)
<1> DEFINE f == patch.diff[i]
           T == TextsOf(patch.diff)
           lines == Source(f, Repo)
<1>1. Fits(f) /\ bundle \in Bundles
  BY Accepted
<1>2. /\ FileOver(f, T)
      /\ \A k \in DOMAIN f.hunks : f.hunks[k].from \in Nat
      /\ IsAdded(f) \/ f.path \in DOMAIN Repo => lines \in Seq(T)
  BY Accepted, DiffTyped
<1>3. \A k \in DOMAIN f.hunks : Old(f.hunks[k]) \in Seq(T) /\ Len(Old(f.hunks[k])) \in Nat
  <2> TAKE k \in DOMAIN f.hunks
  <2>1. HunkOver(f.hunks[k], T)
    BY <1>2 DEF FileOver
  <2>2. Old(f.hunks[k]) \in Seq(T)
    BY <2>1, HunkMeans
  <2>. QED  BY <2>2
<1>4. /\ \A k \in DOMAIN f.hunks : Old(f.hunks[k]) = <<>> => IsAdded(f) /\ ~(f.hunks[k].from > 0)
      /\ \A j, k \in DOMAIN f.hunks :
            j < k => ~(f.hunks[k].from < f.hunks[j].from + Len(Old(f.hunks[j])))
      /\ f.path \in DOMAIN bundle.tests \ DOMAIN bundle.files /\ bundle.tests[f.path].joined =>
            \A k \in DOMAIN f.hunks :
               Old(f.hunks[k]) # <<>> => At(Repo[f.path], f.hunks[k].from - 1, Old(f.hunks[k]))
  BY DEF MayFail
<1> HIDE DEF f, T, lines
<1>5. CASE IsAdded(f)
  <2>1. lines = <<>> /\ lines \in Seq(T)
    BY <1>2, <1>5 DEF Source, lines
  <2>2. \A k \in DOMAIN f.hunks : Old(f.hunks[k]) = <<>> /\ Index(f.hunks[k]) = 0
    <3> TAKE k \in DOMAIN f.hunks
    <3>1. Old(f.hunks[k]) = <<>>
      BY <1>1, <1>5 DEF Fits, FitsNothing
    <3>2. f.hunks[k].from = 0
      BY <1>2, <1>4, <3>1
    <3>. QED  BY <3>1, <3>2 DEF Index
  <2>3. At(<<>>, 0, <<>>)
    BY DEF At
  <2>4. /\ \A k \in DOMAIN f.hunks : At(lines, Index(f.hunks[k]), Old(f.hunks[k]))
        /\ \A j, k \in DOMAIN f.hunks :
              j < k => Index(f.hunks[j]) + Len(Old(f.hunks[j])) <= Index(f.hunks[k])
    BY <2>1, <2>2, <2>3
  <2>5. Whole(f, lines).ok
    BY <1>2, <2>1, <2>4, WholeFits
  <2>. QED  BY <1>5, <2>5 DEF Applicable, f, lines
<1>6. CASE ~IsAdded(f)
  <2>1. \A k \in DOMAIN f.hunks : Old(f.hunks[k]) # <<>> /\ Index(f.hunks[k]) = f.hunks[k].from - 1
    BY <1>4, <1>6 DEF Index
  <2>2. f.path \in DOMAIN Repo
        /\ \A k \in DOMAIN f.hunks : At(Repo[f.path], f.hunks[k].from - 1, Old(f.hunks[k]))
    <3>1. CASE f.path \in DOMAIN bundle.files
      <4> DEFINE w == Compared(bundle.files[f.path])
                 first == bundle.files[f.path].first
      <4>0. /\ f.path \in DOMAIN Repo /\ first \in Int /\ bundle.files[f.path].lines \in Seq(Text)
            /\ Repo[f.path] \in Seq(Text) /\ At(Repo[f.path], first - 1, bundle.files[f.path].lines)
        BY <1>1, <3>1, ContextAssumption
      <4>1. /\ f.path \in DOMAIN Repo /\ first \in Int /\ w \in Seq(Text)
            /\ Repo[f.path] \in Seq(Text) /\ At(Repo[f.path], first - 1, w)
        <5>1. first - 1 \in Int
          BY <4>0
        <5>. QED  BY <4>0, <5>1, ComparedInFile
      <4>2. \A k \in DOMAIN f.hunks : At(w, f.hunks[k].from - first, Old(f.hunks[k]))
        BY <1>1, <1>6, <2>1, <3>1 DEF Fits, FitsWindow
      <4>3. Repo[f.path] \in Seq(T) /\ w \in Seq(T)
        <5>1. Text \subseteq T
          BY DEF T, TextsOf
        <5>. QED  BY <4>1, <5>1
      <4> HIDE DEF w, first
      <4>4. \A k \in DOMAIN f.hunks : At(Repo[f.path], f.hunks[k].from - 1, Old(f.hunks[k]))
        <5> TAKE k \in DOMAIN f.hunks
        <5> DEFINE a == first - 1
                   c == f.hunks[k].from - first
                   o == Old(f.hunks[k])
        <5>1. a \in Int /\ c \in Int /\ a + c = f.hunks[k].from - 1
          BY <1>2, <4>1
        <5>2. At(Repo[f.path], a, w) /\ At(w, c, o) /\ o \in Seq(T)
          BY <1>3, <4>1, <4>2
        <5> HIDE DEF a, c, o
        <5>3. At(Repo[f.path], a + c, o)
          BY <4>3, <5>1, <5>2, AtInWindow
        <5>. QED  BY <5>1, <5>3 DEF o
      <4>. QED  BY <4>1, <4>4
    <3>2. CASE f.path \notin DOMAIN bundle.files
      <4>1. f.path \in DOMAIN bundle.tests /\ FitsWindow(f, Compared(bundle.tests[f.path]), 1)
        BY <1>1, <1>6, <3>2 DEF Fits
      <4>2. /\ f.path \in DOMAIN Repo
            /\ bundle.tests[f.path] \in {WholeText(Repo[f.path]), Signatures(Repo[f.path])}
        BY <1>1, <4>1, ContextAssumption
      <4>3. CASE bundle.tests[f.path].joined
        BY <1>4, <2>1, <3>2, <4>1, <4>2, <4>3
      <4>4. CASE ~bundle.tests[f.path].joined
        <5>1. bundle.tests[f.path] = WholeText(Repo[f.path])
          BY <4>2, <4>4 DEF Signatures
        <5>2. Compared(bundle.tests[f.path]) = Repo[f.path]
          BY <5>1 DEF Compared, WholeText
        <5>. QED  BY <2>1, <4>1, <4>2, <5>2 DEF FitsWindow
      <4>. QED  BY <4>3, <4>4
    <3>. QED  BY <3>1, <3>2
  <2>3. lines = Repo[f.path] /\ lines \in Seq(T)
    BY <1>2, <1>6, <2>2 DEF Source, lines
  <2>4. \A j, k \in DOMAIN f.hunks :
           j < k => Index(f.hunks[j]) + Len(Old(f.hunks[j])) <= Index(f.hunks[k])
    <3> TAKE j, k \in DOMAIN f.hunks
    <3>1. \A a, b, c \in Int : ~(a < b + c) => (b - 1) + c <= a - 1
      OBVIOUS
    <3>2. f.hunks[k].from \in Int /\ f.hunks[j].from \in Int /\ Len(Old(f.hunks[j])) \in Int
      BY <1>2, <1>3
    <3>. QED  BY <1>4, <2>1, <3>1, <3>2
  <2>5. \A k \in DOMAIN f.hunks : At(lines, Index(f.hunks[k]), Old(f.hunks[k]))
    BY <2>1, <2>2, <2>3
  <2>6. Whole(f, lines).ok
    BY <1>2, <2>3, <2>4, <2>5, WholeFits
  <2>. QED  BY <2>2, <2>6 DEF Applicable, f, lines
<1>. QED  BY <1>5, <1>6

\* A section that applies to a retrieved file is not refused but for lines S7 cannot see.
LEMMA RefusedUnchecked ==
    ASSUME bundle \in Bundles, NEW r \in Patches, NEW i \in DOMAIN r.diff,
           LET f == r.diff[i] IN
           /\ f.path \in DOMAIN bundle.files /\ ~IsAdded(f) /\ Whole(f, Repo[f.path]).ok
           /\ ~Unchecked(f)
    PROVE  Fits(r.diff[i])
<1> DEFINE f == r.diff[i]
           T == TextsOf(r.diff)
           s == Repo[f.path]
           view == bundle.files[f.path]
           w == Compared(view)
           first == view.first
<1>1. f.path \in DOMAIN bundle.files /\ ~IsAdded(f) /\ Whole(f, s).ok /\ ~Unchecked(f)
  OBVIOUS
<1>2. /\ f.path \in DOMAIN Repo /\ first \in Int /\ view.lines \in Seq(Text) /\ s \in Seq(Text)
      /\ At(s, first - 1, view.lines)
  BY <1>1, ContextAssumption
<1>3. first - 1 \in Int /\ w \in Seq(Text) /\ At(s, first - 1, w)
  <2>1. first - 1 \in Int
    BY <1>2
  <2>. QED  BY <1>2, <2>1, ComparedInFile
<1>4. w \in Seq(T) /\ s \in Seq(T) /\ FileOver(f, T)
      /\ \A k \in DOMAIN f.hunks : f.hunks[k].from \in Nat
  <2>1. Text \subseteq T
    BY DEF TextsOf
  <2>2. IsDiff(r.diff)
    BY ReplyAssumption
  <2>3. FileOver(f, T) /\ \A k \in DOMAIN f.hunks : f.hunks[k].from \in Nat
    BY <2>2, DiffTyped
  <2>. HIDE DEF T, w, s, f
  <2>4. w \in Seq(T) /\ s \in Seq(T)
    BY <1>2, <1>3, <2>1
  <2>. QED  BY <2>3, <2>4
<1>5. \A k \in DOMAIN f.hunks :
         Old(f.hunks[k]) = <<>> \/ ( /\ ~(f.hunks[k].from < first)
                                   /\ ~(f.hunks[k].from + Len(Old(f.hunks[k])) > first + Len(w)))
  BY <1>1 DEF Unchecked
<1> HIDE DEF f, T, s, w, first
<1>6. ASSUME NEW k \in DOMAIN f.hunks, Old(f.hunks[k]) # <<>>
      PROVE  At(w, f.hunks[k].from - first, Old(f.hunks[k]))
  <2> DEFINE o == Old(f.hunks[k])
             a == first - 1
             b == f.hunks[k].from - 1
  <2>1. At(s, b, o)
    <3>1. At(s, Index(f.hunks[k]), o)
      BY <1>1, <1>4, WholeMatches
    <3>. QED  BY <1>6, <3>1 DEF Index
  <2>2. o \in Seq(T)
    <3>1. HunkOver(f.hunks[k], T)
      BY <1>4 DEF FileOver
    <3>. QED  BY <3>1, HunkMeans
  <2>3. Len(o) \in Nat /\ Len(w) \in Nat
    BY <1>4, <2>2
  <2>4. /\ a \in Int /\ b \in Int /\ a <= b /\ b + Len(o) <= a + Len(w)
        /\ b - a = f.hunks[k].from - first
    <3> DEFINE x == f.hunks[k].from
               n == Len(o)
               m == Len(w)
    <3>1. f.hunks[k].from \in Int /\ ~(f.hunks[k].from < first)
          /\ ~(f.hunks[k].from + Len(o) > first + Len(w))
      BY <1>4, <1>5, <1>6
    <3>2. x \in Int /\ n \in Nat /\ m \in Nat /\ first \in Int /\ x >= first /\ x + n <= first + m
      BY <1>2, <2>3, <3>1 DEF first
    <3> HIDE DEF x, n, m
    <3>3. x - 1 \in Int /\ first - 1 \in Int /\ first - 1 <= x - 1
          /\ (x - 1) + n <= (first - 1) + m /\ (x - 1) - (first - 1) = x - first
      BY <3>2
    <3>. QED  BY <3>3 DEF x, n, m
  <2>5. At(s, a, w)
    BY <1>3
  <2> HIDE DEF o, a, b
  <2>6. At(w, b - a, o)
    BY <1>4, <2>1, <2>2, <2>4, <2>5, AtInPart
  <2>. QED  BY <2>4, <2>6 DEF o
<1>7. FitsWindow(f, w, first)
  BY <1>6 DEF FitsWindow
<1>. QED  BY <1>1, <1>7 DEF Fits, f, w, first

\* For every patch and every context read from the commit: what S7 accepts on the context
\* and G0 refuses on the files inserts, has hunks out of order, or was held against a
\* test's signatures; what S7 refuses of a retrieved file and G0 would not is about lines
\* that S7 cannot see; what G0 makes of it has all that is added last.
THEOREM AlwaysAppliedAlike == Spec => []AppliedAlike
<1>1. ASSUME AnalysisInv, PatchInv, Tried, ~tree.ok
      PROVE  \E i \in DOMAIN patch.diff : MayFail(patch.diff[i])
  <2>1. PICK i \in DOMAIN patch.diff :
           ~IsRemoved(patch.diff[i]) /\ ~Applicable(patch.diff[i], Repo)
    BY <1>1, Accepted, PatchedFits
  <2>. QED  BY <1>1, <2>1, AcceptedApplies
<1>2. ASSUME AnalysisInv, PatchInv, Tried, tree.ok,
             NEW i \in DOMAIN patch.diff,
             \A j \in DOMAIN patch.diff : j > i => patch.diff[j].path # patch.diff[i].path,
             ~IsRemoved(patch.diff[i])
      PROVE  \A k \in DOMAIN patch.diff[i].hunks :
                Added(patch.diff[i].hunks[k]) \subseteq Range(tree.tree[patch.diff[i].path])
  <2> DEFINE f == patch.diff[i]
             n == Len(patch.diff)
             T == TextsOf(patch.diff)
             lines == Source(f, Repo)
  <2>1. DOMAIN patch.diff = 1 .. n /\ n \in Nat
    BY <1>2, Accepted DEF IsList
  <2>2. Became(f.path, tree.tree, patch.diff, n, Repo)
    BY <1>2, Accepted, PatchedMeans
  <2>3. Applicable(f, Repo) /\ tree.tree[f.path] = Whole(f, lines).lines
    <3>1. PICK j \in 1 .. n :
             /\ patch.diff[j].path = f.path
             /\ \A k \in j + 1 .. n : patch.diff[k].path # f.path
             /\ ~IsRemoved(patch.diff[j]) =>
                   /\ Applicable(patch.diff[j], Repo)
                   /\ tree.tree[f.path] = Whole(patch.diff[j], Source(patch.diff[j], Repo)).lines
      BY <2>1, <2>2 DEF Became
    <3>2. j = i
      BY <1>2, <2>1, <3>1
    <3>. QED  BY <1>2, <3>1, <3>2
  <2>4. FileOver(f, T) /\ lines \in Seq(T) /\ Whole(f, lines).ok
    BY <1>2, <2>3, Accepted, DiffTyped DEF Applicable
  <2> HIDE DEF f, T, lines
  <2>5. \A k \in DOMAIN f.hunks : Added(f.hunks[k]) \subseteq Range(Whole(f, lines).lines)
    BY <2>4, WholeMeans
  <2>. QED  BY <2>3, <2>5 DEF f
<1>4. ASSUME AnalysisInv, NEW r \in Patches, NEW i \in DOMAIN r.diff,
             LET f == r.diff[i] IN
             f.path \in DOMAIN bundle.files /\ ~IsAdded(f) /\ Whole(f, Repo[f.path]).ok
      PROVE  Fits(r.diff[i]) \/ Unchecked(r.diff[i])
  <2>1. bundle \in Bundles
    BY <1>4 DEF AnalysisInv
  <2>. QED  BY <1>4, <2>1, RefusedUnchecked
<1>3. AnalysisInv /\ PatchInv => AppliedAlike
  BY <1>1, <1>2, <1>4 DEF AppliedAlike
<1>. QED  BY <1>3, AnalysisInit, AnalysisNext, PatchInit, PatchNext, PTL DEF Spec

=============================================================================
