----------------------------- MODULE EventPipe -----------------------------
(***************************************************************************)
(* What the SDK promises about the events it is given, without threads,    *)
(* batches, retries or wake-ups: an event waits from its capture until it  *)
(* leaves, once and for all, by exactly one exit.  It may be refused at    *)
(* once or shed later, but only when Capacity older events are waiting.    *)
(***************************************************************************)
EXTENDS Integers, FiniteSets

CONSTANTS
    Capacity,   \* the events the buffer holds
    InHands     \* the events that may be out of the buffer, being sent

VARIABLES captured, pending, sent, rejected, dropped, foreign

pipeVars == <<captured, pending, sent, rejected, dropped, foreign>>

Init ==
    /\ captured = 0
    /\ pending = {}
    /\ sent = {}
    /\ rejected = {}
    /\ dropped = {}
    /\ foreign = {}

\* The memory the SDK may use for events is bounded.
Accept ==
    /\ Cardinality(pending) < Capacity + InHands
    /\ captured' = captured + 1
    /\ pending' = pending \cup {captured + 1}
    /\ UNCHANGED <<sent, rejected, dropped, foreign>>

Refuse ==
    /\ Cardinality(pending) >= Capacity
    /\ captured' = captured + 1
    /\ dropped' = dropped \cup {captured + 1}
    /\ UNCHANGED <<pending, sent, rejected, foreign>>

\* What is shed is newer than some Capacity events that stay.
Shed(B) ==
    /\ Cardinality(pending \ B) >= Capacity
    /\ pending' = pending \ B
    /\ dropped' = dropped \cup B
    /\ UNCHANGED <<captured, sent, rejected, foreign>>

Deliver(B) ==
    /\ pending' = pending \ B
    /\ \/ sent' = sent \cup B /\ UNCHANGED rejected
       \/ rejected' = rejected \cup B /\ UNCHANGED sent
    /\ UNCHANGED <<captured, dropped, foreign>>

\* The process forks: what waited is the parent's to send.
Disown ==
    /\ foreign' = foreign \cup pending
    /\ pending' = {}
    /\ UNCHANGED <<captured, sent, rejected, dropped>>

Next ==
    \/ Accept \/ Refuse \/ Disown
    \/ \E B \in (SUBSET pending) \ {{}} : Shed(B) \/ Deliver(B)

Spec == Init /\ [][Next]_pipeVars
=============================================================================
