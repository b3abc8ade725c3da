------------------------------- MODULE Budget -------------------------------
(***************************************************************************)
(* What the cost breaker promises of one counter of one project, a day's   *)
(* or a month's: a call is let in only while what was spent and one        *)
(* estimate for each call under way, itself included, are within the cap.  *)
(***************************************************************************)
EXTENDS Integers

CONSTANTS Cap, Estimate, Ceiling

VARIABLES
    under,  \* how many calls are under way
    spent   \* what the finished calls were said to cost

vars == <<under, spent>>

Init == under = 0 /\ spent = 0

Grant ==
    /\ spent + Estimate * (under + 1) <= Cap
    /\ under' = under + 1
    /\ UNCHANGED spent

\* A call is over and is said to have cost c; nothing when it came to nothing.
Settle(c) ==
    /\ under > 0
    /\ under' = under - 1
    /\ spent' = spent + c

Next == Grant \/ \E c \in 0 .. Ceiling : Settle(c)

Spec == Init /\ [][Next]_vars
=============================================================================
