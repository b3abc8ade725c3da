--------------------------- MODULE PatchPipeline ----------------------------
(***************************************************************************)
(* One investigation from its context bundle to a decision: S6 reason, S7  *)
(* patch, S8 validate, S9 repair, S10 critique, S11 score (apps/worker,    *)
(* pipeline/).  No code calls the stages after each other yet: the order,  *)
(* the count of attempts and the re-entry where a repair routes to are the *)
(* caller's, as the stages' parameters and results foresee them.           *)
(*                                                                         *)
(* A model answers with any of the replies given, or not at all.           *)
(***************************************************************************)
EXTENDS UnifiedDiff, Scoring

CONSTANTS
    Bundles,        \* what retrieval may have found
    Repo,           \* the files of the base commit: path -> lines
    Causes,         \* replies to S6 (ReasonReply)
    Patches,        \* replies to S7 (PatchReply)
    Answers,        \* what the sandbox may report (ValidationResult)
    Reviews,        \* replies to S10 (CritiqueReply)
    Forbidden,      \* paths of _FORBIDDEN_PATH_GLOBS
    Manifests,      \* paths of _DEPENDENCY_MANIFEST_GLOBS
    Defs,           \* lines that start a function
    TestDefs,       \* those of them that start with "def test_": an async test is none
    Broken,         \* lines that do not parse
    MaxChangedLines, MaxHunks,
    MaxAttempts

\* routing.py: G0, "timeout" and "runner_error" have no route.
Routed == {"G1", "G2", "G3", "G4", "G5", "G6", "G7", "G8"}
Unrouted == {"G0", "timeout", "runner_error"}

Text == UNION {Range(Repo[p]) : p \in DOMAIN Repo}

ASSUME LimitAssumption ==
    /\ MaxAttempts \in Nat \ {0}
    /\ None \notin {"validation_failed", "UnroutableGateError"}

\* A text that was retrieved of a file, from a line of it.  One whose lines were joined
\* has no newline at its end.
WholeText(lines) == [first |-> 1, lines |-> lines, joined |-> FALSE]

\* _signature_only(): the lines that start a function, else the first.
Signatures(lines) ==
    LET defs == SelectSeq(lines, LAMBDA l : l \in Defs)
    IN  [first |-> 1, joined |-> TRUE,
         lines |-> IF defs # <<>> THEN defs ELSE SubSeq(lines, 1, 1)]

\* What was retrieved was read from the commit: a file is there whole or as a window, a
\* test whole or, when the budget is tight, as its signatures.
ASSUME ContextAssumption ==
    /\ \A p \in DOMAIN Repo : Repo[p] \in Seq(Text)
    /\ \A b \in Bundles :
         /\ b.quality \in 0 .. 100 /\ b.gaps \in Nat /\ b.breadcrumbs \in Nat
         /\ \A p \in DOMAIN b.files :
              /\ p \in DOMAIN Repo /\ b.files[p].first \in Int /\ b.files[p].lines \in Seq(Text)
              /\ At(Repo[p], b.files[p].first - 1, b.files[p].lines)
              /\ b.files[p].joined \/ b.files[p] = WholeText(Repo[p])
         /\ \A p \in DOMAIN b.tests :
              p \in DOMAIN Repo /\ b.tests[p] \in {WholeText(Repo[p]), Signatures(Repo[p])}

\* The schemas of the replies.
ASSUME ReplyAssumption ==
    /\ \A c \in Causes :
         /\ c.confidence \in 0 .. Unit /\ IsFiniteSet(c.files)
         /\ IsFiniteSet(DOMAIN c.chain) /\ IsFiniteSet(DOMAIN c.eliminated)
         /\ \A i \in DOMAIN c.chain : \A e \in c.chain[i].evidence :
              e.kind = "file" => e.from \in Int /\ e.to \in Int
    /\ \A r \in Reviews :
         /\ r.agreement \in 0 .. 100 /\ IsFiniteSet(r.findings)
         /\ r.verdict \in {"approve", "approve_with_notes", "request_changes", "reject"}
    /\ \A r \in Patches : IsDiff(r.diff)

\* ValidationResult: a result that passed names no gate.
ASSUME AnswerAssumption ==
    \A a \in Answers :
        /\ a.passed \in BOOLEAN /\ (a.passed <=> a.failed = None)
        /\ a.failed \in Routed \cup Unrouted \cup {None}
        /\ a.signals.build \in BOOLEAN /\ a.signals.regression \in {TRUE, FALSE, None}
        /\ a.signals.ratio \in 0 .. 100 \cup {None} /\ a.signals.cap \in 0 .. 100 \cup {None}
        /\ a.signals.bandCap \in {None, "low"}
        /\ a.passed => a.signals.high = 0 /\ a.signals.regression \in {TRUE, None}

VARIABLES
    pc,         \* the stage that is next: "reason", "patch", "validate", "repair", ...
    bundle,
    asked,      \* TRUE: this is the correction
    analysis, dropped,
    patch,
    attempt, attempts,      \* of the caller, and previous_attempts
    tree,       \* what G0 made of the patch
    validation,
    review,     \* the critique; None: unavailable
    decision,
    outcome

vars == <<pc, bundle, asked, analysis, dropped, patch, attempt, attempts, tree,
          validation, review, decision, outcome>>

End(how) == pc' = "over" /\ outcome' = how

-----------------------------------------------------------------------------
(* S6: reason/                                                             *)

\* Mutant: the range is not held against the file.
Bound_NoRange(e) ==
    CASE e.kind = "file" ->
            e.path \in DOMAIN bundle.files /\ e.excerpt \in Range(bundle.files[e.path].lines)
      [] e.kind = "breadcrumb" -> e.index \in 0 .. bundle.breadcrumbs - 1
      [] e.kind = "commit" -> e.sha \in bundle.commits

\* evidence_is_bound(): the excerpt is somewhere in what was retrieved of the file.
Bound(e) ==
    CASE e.kind = "file" ->
            /\ e.path \in DOMAIN bundle.files
            /\ LET f == bundle.files[e.path] IN
                /\ f.first <= e.from /\ e.from <= e.to /\ e.to <= f.first + Len(f.lines) - 1
                /\ e.excerpt \in Range(f.lines)
      [] e.kind = "breadcrumb" -> e.index \in 0 .. bundle.breadcrumbs - 1
      [] e.kind = "commit" -> e.sha \in bundle.commits

\* Steps keep their places.  A step that declares no evidence is kept.
Kept(items) == Restrict(items, {i \in DOMAIN items : \A e \in items[i].evidence : Bound(e)})

Grounded(reply) == reply.files \subseteq DOMAIN bundle.files

Survives(reply) ==
    /\ \E i \in DOMAIN Kept(reply.chain) : Kept(reply.chain)[i].type = "conclude"
    /\ Grounded(reply)

Analysis(reply) ==
    [chain |-> Kept(reply.chain), eliminated |-> Kept(reply.eliminated),
     files |-> reply.files \cap DOMAIN bundle.files, mustNot |-> reply.mustNot,
     testNeeded |-> reply.testNeeded, external |-> reply.external, confidence |-> reply.confidence]

Dropped(reply) ==
    Cardinality(DOMAIN reply.chain \ DOMAIN Kept(reply.chain))
    + Cardinality(DOMAIN reply.eliminated \ DOMAIN Kept(reply.eliminated))
    + Cardinality(reply.files \ DOMAIN bundle.files)

\* The first reply that does not hold is sent back with its reasons; the second ends it.
Reason(reply) ==
    /\ pc = "reason"
    /\ IF Survives(reply)
       THEN /\ analysis' = Analysis(reply) /\ dropped' = Dropped(reply)
            /\ pc' = "patch" /\ asked' = FALSE
            /\ UNCHANGED outcome
       ELSE /\ IF asked THEN End("insufficient_context") ELSE UNCHANGED <<pc, outcome>>
            /\ asked' = TRUE
            /\ UNCHANGED <<analysis, dropped>>
    /\ UNCHANGED <<bundle, patch, attempt, attempts, tree, validation, review, decision>>

ReasonerUnavailable ==
    /\ pc = "reason"
    /\ End("insufficient_context")
    /\ UNCHANGED <<bundle, asked, analysis, dropped, patch, attempt, attempts, tree,
                   validation, review, decision>>

-----------------------------------------------------------------------------
(* S7: patch/                                                              *)

AllowedPaths(reply) == analysis.files \cup ({reply.test} \ {None})

\* Tests that a section removes and does not add again.
TestsRemoved(f) ==
    ((UNION {Removed(f.hunks[i]) : i \in DOMAIN f.hunks})
     \ (UNION {Added(f.hunks[i]) : i \in DOMAIN f.hunks})) \cap TestDefs

\* Mutant: a test may go if another comes.
InScope_Tests(reply) ==
    \A i \in DOMAIN reply.diff :
        LET f == reply.diff[i] IN
        /\ f.path \notin Forbidden \cup analysis.mustNot
        /\ f.path \in AllowedPaths(reply)
        /\ f.path \in DOMAIN bundle.tests => ~IsRemoved(f)

\* _check_scope()
InScope(reply) ==
    \A i \in DOMAIN reply.diff :
        LET f == reply.diff[i] IN
        /\ f.path \notin Forbidden \cup analysis.mustNot
        /\ f.path \in AllowedPaths(reply)
        /\ f.path \in DOMAIN bundle.tests => ~IsRemoved(f) /\ TestsRemoved(f) = {}

\* Lines are compared with their newline: one that has none equals no line of a diff.
Compared(view) ==
    IF view.joined THEN SubSeq(view.lines, 1, Len(view.lines) - 1) ELSE view.lines

\* apply_diff_to_bundle(): a file's window first, then a test, from line 1 even when it
\* is there as its signatures.
Fits(f) ==
    IF IsAdded(f) THEN FitsNothing(f)
    ELSE IF f.path \in DOMAIN bundle.files
    THEN FitsWindow(f, Compared(bundle.files[f.path]), bundle.files[f.path].first)
    ELSE f.path \in DOMAIN bundle.tests /\ FitsWindow(f, Compared(bundle.tests[f.path]), 1)

Applies(reply) ==
    /\ \A i \in DOMAIN reply.diff : Fits(reply.diff[i])
    /\ analysis.testNeeded => reply.test # None

\* validate_patch(): <<>> is a diff that cannot be parsed or changes nothing.
Valid(reply) == reply.diff # <<>> /\ InScope(reply) /\ Applies(reply)

Code(reply) == IF reply.diff # <<>> /\ ~InScope(reply) THEN "RT-AI-0005" ELSE "RT-AI-0006"

Warned(diff) ==
    \/ FoldLeft(LAMBDA n, f : n + Changed(f), 0, diff) > MaxChangedLines
    \/ FoldLeft(LAMBDA n, f : n + Len(f.hunks), 0, diff) > MaxHunks
    \/ \E i \in DOMAIN diff : diff[i].path \in Manifests

Patch(reply) ==
    /\ pc = "patch"
    /\ IF Valid(reply)
       THEN /\ patch' = [diff |-> reply.diff, test |-> reply.test, warned |-> Warned(reply.diff)]
            /\ pc' = "validate" /\ asked' = FALSE
            /\ UNCHANGED outcome
       ELSE /\ IF asked THEN End(Code(reply)) ELSE UNCHANGED <<pc, outcome>>
            /\ asked' = TRUE
            /\ UNCHANGED patch
    /\ UNCHANGED <<bundle, analysis, dropped, attempt, attempts, tree, validation, review, decision>>

PatcherUnavailable ==
    /\ pc = "patch"
    /\ End("RT-AI-0001")
    /\ UNCHANGED <<bundle, asked, analysis, dropped, patch, attempt, attempts, tree,
                   validation, review, decision>>

-----------------------------------------------------------------------------
(* S8: validate/gates.py on the host, then the sandbox                     *)

Failed(gate) == [passed |-> FALSE, failed |-> gate, signals |-> None]

\* check_diff_applies() and check_syntax(); every path stands for a Python file.
G0 == [diff \in {reply.diff : reply \in Patches} |-> Patched(diff, Repo)]

HostGate(t) ==
    CASE ~t.ok -> "G0"
      [] t.ok /\ \E p \in DOMAIN t.tree : Range(t.tree[p]) \cap Broken # {} -> "G1"
      [] OTHER -> None

Validate(answer) ==
    /\ pc = "validate"
    /\ tree' = G0[patch.diff]
    /\ validation' = IF HostGate(tree') = None THEN answer ELSE Failed(HostGate(tree'))
    /\ pc' = IF validation'.passed THEN "critique" ELSE "repair"
    /\ UNCHANGED <<bundle, asked, analysis, dropped, patch, attempt, attempts, review,
                   decision, outcome>>

-----------------------------------------------------------------------------
(* S9: repair/                                                             *)

Reroute(gate) == IF gate = "G5" THEN "reason" ELSE "patch"

\* Mutant: one attempt too many.
Exhausted_Late == attempt > MaxAttempts

Exhausted == attempt >= MaxAttempts

\* repair(): the limit is looked at before the route; without a route it raises, and what
\* it had noted of this attempt is lost.  The text of the instruction is the gate's or the
\* model's, whether the repairer answers or not; no later stage takes it.
Repair ==
    /\ pc = "repair"
    /\ LET summary == Append(attempts, [attempt |-> attempt, gate |-> validation.failed]) IN
       \/ /\ Exhausted
          /\ End("validation_failed")
          /\ attempts' = summary
          /\ UNCHANGED attempt
       \/ /\ ~Exhausted /\ validation.failed \notin Routed
          /\ End("UnroutableGateError")
          /\ UNCHANGED <<attempt, attempts>>
       \/ /\ ~Exhausted /\ validation.failed \in Routed
          /\ pc' = Reroute(validation.failed)
          /\ attempts' = summary /\ attempt' = attempt + 1
          /\ UNCHANGED outcome
    /\ UNCHANGED <<bundle, asked, analysis, dropped, patch, tree, validation, review, decision>>

-----------------------------------------------------------------------------
(* S10: critique/, S11: score/                                             *)

\* Mutant: the verdict alone, and more of them.
Blocking_Verdict(reply) == reply.verdict \in {"reject", "request_changes"}

Blocking(reply) == reply.verdict = "reject" \/ \E f \in reply.findings : f.severity = "critical"

Critique(reply) ==
    /\ pc = "critique"
    /\ review' = [verdict |-> reply.verdict, agreement |-> reply.agreement,
                  findings |-> reply.findings, blocking |-> Blocking(reply)]
    /\ pc' = "score"
    /\ UNCHANGED <<bundle, asked, analysis, dropped, patch, attempt, attempts, tree,
                   validation, decision, outcome>>

\* The gateway fails, or the reply is not one: proceed without a review.
CriticUnavailable ==
    /\ pc = "critique"
    /\ review' = None
    /\ pc' = "score"
    /\ UNCHANGED <<bundle, asked, analysis, dropped, patch, attempt, attempts, tree,
                   validation, decision, outcome>>

Confidence ==
    Weighed(ValidationComponent(validation.signals, attempt), CriticComponent(review),
            RetrievalComponent(bundle),
            EvidenceComponent(analysis, bundle, Cardinality(DOMAIN analysis.chain), dropped),
            analysis.confidence)

Score(autoMerge) ==
    /\ pc = "score"
    /\ decision' = Decision(Confidence, validation.signals, review, bundle.quality, autoMerge)
    /\ End("scored")
    /\ UNCHANGED <<bundle, asked, analysis, dropped, patch, attempt, attempts, tree,
                   validation, review>>

Init ==
    /\ pc = "reason" /\ bundle \in Bundles /\ asked = FALSE
    /\ analysis = None /\ dropped = 0 /\ patch = None
    /\ attempt = 1 /\ attempts = <<>>
    /\ tree = None /\ validation = None /\ review = None /\ decision = None
    /\ outcome = None

Next ==
    \/ ReasonerUnavailable \/ PatcherUnavailable \/ CriticUnavailable
    \/ \E reply \in Causes : Reason(reply)
    \/ \E reply \in Patches : Patch(reply)
    \/ \E answer \in Answers : Validate(answer)
    \/ Repair
    \/ \E reply \in Reviews : Critique(reply)
    \/ \E autoMerge \in BOOLEAN : Score(autoMerge)

Spec == Init /\ [][Next]_vars

-----------------------------------------------------------------------------
(* Properties                                                              *)

Tried == pc \in {"repair", "critique", "score"}

\* Every claim of an analysis that patching and scoring go on holds on the files of the
\* repository, not only on the reply: what a step quotes is in the file it names, at a
\* place that was retrieved, and the files to modify were retrieved.
EvidenceHolds ==
    analysis # None =>
        /\ \E i \in DOMAIN analysis.chain : analysis.chain[i].type = "conclude"
        /\ \A i \in DOMAIN analysis.chain : \A e \in analysis.chain[i].evidence :
              e.kind = "file" =>
                /\ e.excerpt \in Range(Repo[e.path])
                /\ e.from >= 1 /\ e.to <= Len(Repo[e.path])
        /\ analysis.files \subseteq DOMAIN Repo

\* What the sandbox runs differs from the commit only where the patch may: a file that was
\* neither retrieved nor declared as the regression test is as it was, and so is one that
\* is forbidden or must not be modified; nothing appears but the test.
ScopeHolds ==
    Tried /\ tree.ok =>
        LET t == tree.tree
            open == (analysis.files \cup {patch.test}) \ (Forbidden \cup analysis.mustNot)
        IN  /\ DOMAIN t \subseteq DOMAIN Repo \cup {patch.test}
            /\ \A p \in DOMAIN Repo \ open : p \in DOMAIN t /\ t[p] = Repo[p]

\* A test that was there is lost to a patch only when its whole file is: a section that
\* unidiff takes for a new file is not looked at for the tests it removes, and G0 puts it
\* in place of the file.
TestsSurvive ==
    Tried /\ tree.ok =>
        \A p \in DOMAIN bundle.tests :
            \/ \E i \in DOMAIN patch.diff : patch.diff[i].path = p /\ IsAdded(patch.diff[i])
            \/ /\ p \in DOMAIN tree.tree
               /\ Range(Repo[p]) \cap TestDefs \subseteq Range(tree.tree[p])

\* What the sandbox runs is the commit but for what the patch may touch, with
\* every test that was there, but for a file put in place of another.
PatchInScope == ScopeHolds /\ TestsSurvive

\* What S7 accepts of a section and G0 refuses: where a hunk inserts and in which order
\* hunks come, which S7 does not look at, and a hunk that was held against the signatures
\* of a test as if they were the file.
MayFail(f) ==
    LET hs == f.hunks IN
    \/ \E k \in DOMAIN hs : Old(hs[k]) = <<>> /\ (IsAdded(f) => hs[k].from > 0)
    \/ \E j, k \in DOMAIN hs : j < k /\ hs[k].from < hs[j].from + Len(Old(hs[j]))
    \/ /\ f.path \in DOMAIN bundle.tests \ DOMAIN bundle.files /\ bundle.tests[f.path].joined
       /\ \E k \in DOMAIN hs : Old(hs[k]) # <<>> /\ ~At(Repo[f.path], hs[k].from - 1, Old(hs[k]))

\* What S7 refuses of a section of a retrieved file and G0 would not: a hunk on lines that
\* were not retrieved, or on the last line of a window, which has lost its newline.
Unchecked(f) ==
    LET view == bundle.files[f.path] IN
    \E k \in DOMAIN f.hunks :
        LET h == f.hunks[k] IN
        /\ Old(h) # <<>>
        /\ h.from < view.first \/ h.from + Len(Old(h)) > view.first + Len(Compared(view))

\* S7 and G0 apply the same diff, to what was retrieved and to the file: they disagree in
\* the cases above only, and what G0 accepts has every line that the last section of
\* each file adds.
AppliedAlike ==
    /\ Tried =>
        /\ ~tree.ok => \E i \in DOMAIN patch.diff : MayFail(patch.diff[i])
        /\ tree.ok => \A i \in DOMAIN patch.diff :
              LET f == patch.diff[i] IN
              (\A j \in DOMAIN patch.diff : j > i => patch.diff[j].path # f.path) /\ ~IsRemoved(f) =>
                \A k \in DOMAIN f.hunks : Added(f.hunks[k]) \subseteq Range(tree.tree[f.path])
    /\ pc = "patch" =>
        \A reply \in Patches : \A i \in DOMAIN reply.diff :
            LET f == reply.diff[i] IN
            f.path \in DOMAIN bundle.files /\ ~IsAdded(f) /\ Whole(f, Repo[f.path]).ok
              => Fits(f) \/ Unchecked(f)

\* The loop ends, with every attempt kept: the attempts are numbered from one, all but the
\* last had a route, and what gives up has used every attempt it has.  A failure without a
\* route (G0, a hard kill, an error of the runner) is the one that escapes as an exception.
AttemptsKept ==
    /\ \A i \in DOMAIN attempts : attempts[i].attempt = i
    /\ \A i \in DOMAIN attempts : i < attempt => attempts[i].gate \in Routed
    /\ Len(attempts) \in {attempt - 1, attempt}
    /\ outcome = "validation_failed" => Len(attempts) = MaxAttempts
    /\ outcome = "UnroutableGateError" =>
          validation.failed \in Unrouted /\ Len(attempts) = attempt - 1 /\ attempt < MaxAttempts

\* What is published was validated, builds, was not rejected and has no critical finding
\* about security; a pull request that is no draft has a valid regression test and context
\* enough; the mode and the flag agree.
SafeToPublish(d, s, quality) ==
    /\ d.publish => ~NeverPublish(s, review)
    /\ d.mode = "open_pr" => Proven(s) /\ quality >= 40 /\ s.bandCap = None
    /\ d.publish <=> d.mode # "analysis_only"
    /\ d.merge => d.mode = "open_pr"

PublishedSafely ==
    decision # None =>
        validation.passed /\ SafeToPublish(decision, validation.signals, bundle.quality)

\* A review that blocks is published against in one case: the finding that blocks is
\* critical, and not about security.
BlockingSlips ==
    decision # None /\ decision.publish /\ review # None /\ review.blocking =>
        /\ review.verdict # "reject"
        /\ \E f \in review.findings : f.severity = "critical" /\ f.dimension # "security"

\* What is published passed every gate and every hard condition of the score, and
\* no review blocked it but for one kind of finding.
Published == PublishedSafely /\ BlockingSlips

=============================================================================
