---------------------------- MODULE EventBuffer ----------------------------
(***************************************************************************)
(* The SDK's bounded local buffer: the operations of class EventBuffer in  *)
(* packages/sdk-python/roottrace_sdk/_buffer.py, as operators on the       *)
(* sequence of buffered events, oldest first.  Each method holds the       *)
(* buffer's lock for its whole body, so each is one indivisible operation. *)
(***************************************************************************)
EXTENDS Integers, Sequences, Functions

CONSTANT Capacity      \* max(1, buffer_size): the most events held

ASSUME CapacityAssumption == Capacity \in Nat \ {0}

\* A list that names no event twice.
NoDuplicates(s) == \A i, j \in DOMAIN s : s[i] = s[j] => i = j

\* Mutant: the bound is tested one too late.
IsFull_TooLate(s) == Len(s) > Capacity

\* add() refuses the new event, so that what is kept are the oldest.
IsFull(s) == Len(s) >= Capacity

\* take(limit): the batch handed out ...
NTaken(s, limit) == IF limit < Len(s) THEN limit ELSE Len(s)
Taken(s, limit) == SubSeq(s, 1, NTaken(s, limit))

\* ... and what stays behind.
Remaining(s, limit) == SubSeq(s, NTaken(s, limit) + 1, Len(s))

\* Mutant: the batch is put back with extend(), behind newer events.
Joined_AtBack(b, s) == s \o b

\* put_back(): the batch returns to the front, in its order ...
Joined(b, s) == b \o s

\* ... and the overflow leaves from the back.
NKept(b, s) == IF Len(b) + Len(s) > Capacity THEN Capacity ELSE Len(b) + Len(s)
PutBack(b, s) == SubSeq(Joined(b, s), 1, NKept(b, s))

\* Mutant: the overflow is popped but not counted as dropped.
Overflow_Uncounted(b, s) == <<>>

Overflow(b, s) == SubSeq(Joined(b, s), NKept(b, s) + 1, Len(b) + Len(s))
=============================================================================
