------------------------------ MODULE Scoring -------------------------------
(***************************************************************************)
(* score/stage.py: from the signals of the sandbox, the review and the     *)
(* evidence to a confidence, its band and what is published.  Components   *)
(* are counted in 1/10000 and the confidence in 1/1000000, exactly: what   *)
(* floating point does at a boundary is left out.                          *)
(***************************************************************************)
EXTENDS Integers, FiniteSets

CONSTANT None

\* The whole of a component, and of the confidence.
Unit == 10000
Full == 1000000

Lower(a, b) == IF a <= b THEN a ELSE b
Clamp(x) == IF x < 0 THEN 0 ELSE Lower(x, Unit)
Points(yes, n) == IF yes THEN n ELSE 0

\* A test that did not run proves nothing (None).
Proven(s) == s.regression = TRUE

ValidationComponent(s, attempts) ==
    LET raw == Clamp(Points(s.build, 3000) + Points(Proven(s), 2500)
                     + (IF s.ratio = None THEN 0 ELSE 25 * s.ratio)
                     + Points(s.high = 0, 1000) + 500 + Points(s.medium = 0, 500)
                     - 500 * (attempts - 1))
    IN  IF s.cap = None THEN raw ELSE Lower(raw, 100 * s.cap)

Weight(verdict) ==
    CASE verdict = "approve" -> 100
      [] verdict = "approve_with_notes" -> 80
      [] verdict = "request_changes" -> 35
      [] verdict = "reject" -> 0

CriticComponent(review) ==
    LET count(severity) == Cardinality({f \in review.findings : f.severity = severity})
    IN  IF review = None THEN 0
        ELSE Clamp(Weight(review.verdict) * review.agreement - 1500 * count("high") - 500 * count("medium"))

RetrievalComponent(bundle) == Clamp(100 * bundle.quality - 500 * bundle.gaps)

CitesFailurePoint(analysis, bundle) ==
    /\ bundle.failure # None
    /\ \E i \in DOMAIN analysis.chain : \E e \in analysis.chain[i].evidence :
          "path" \in DOMAIN e /\ e.path = bundle.failure

EvidenceComponent(analysis, bundle, kept, dropped) ==
    Clamp((IF kept + dropped = 0 THEN 5000 ELSE (5000 * kept) \div (kept + dropped))
          + Points(CitesFailurePoint(analysis, bundle), 2000)
          + Points(bundle.correlated, 1500) + Points(~analysis.external, 1500))

Weighed(validation, critic, retrieval, evidence, self) ==
    Lower(30 * validation + 20 * critic + 15 * retrieval + 15 * evidence + 10 * self + 10 * 5000, Full)

Rejects(review) == review # None /\ review.verdict = "reject"

CriticalSecurity(review) ==
    review # None /\ \E f \in review.findings : f.severity = "critical" /\ f.dimension = "security"

NeverPublish(s, review) == ~s.build \/ Rejects(review) \/ CriticalSecurity(review)

Zeroed(yes, x) == IF yes THEN 0 ELSE x
Limited(yes, x, limit) == IF yes THEN Lower(x, limit) ELSE x

HardGates(confidence, s, review, quality) ==
    LET built == Zeroed(~s.build, confidence)
        rejected == Limited(Rejects(review), built, 250000)
        secure == Zeroed(CriticalSecurity(review), rejected)
        tested == Limited(~Proven(s), secure, 500000)
    IN  Limited(quality < 40, tested, 450000)

Band(confidence) ==
    CASE confidence >= 800000 -> "high"
      [] confidence >= 600000 /\ confidence < 800000 -> "medium"
      [] confidence >= 400000 /\ confidence < 600000 -> "low"
      [] confidence < 400000 -> "insufficient"

CappedBand(band, cap) == IF cap = "low" /\ band \in {"high", "medium"} THEN "low" ELSE band

PublishMode(band) ==
    CASE band \in {"high", "medium"} -> "open_pr"
      [] band = "low" -> "open_draft_pr"
      [] band = "insufficient" -> "analysis_only"

Decision(confidence, s, review, quality, autoMerge) ==
    LET gated == HardGates(confidence, s, review, quality)
        band == CappedBand(Band(gated), s.bandCap)
    IN  [confidence |-> gated, band |-> band,
         publish |-> band # "insufficient" /\ ~NeverPublish(s, review),
         mode |-> PublishMode(band),
         merge |-> band = "high" /\ autoMerge]

=============================================================================
