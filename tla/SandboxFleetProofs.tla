------------------------- MODULE SandboxFleetProofs -------------------------
(***************************************************************************)
(* Proofs about SandboxFleet, for any runs, workers, permits and faults.   *)
(***************************************************************************)
EXTENDS SandboxFleet, FiniteSetTheorems, SequenceTheorems, TLAPS

-----------------------------------------------------------------------------
(* Types.                                                                  *)

\* Every value of a variable is of its kind: a step of a run, a container, the reaper.
LEMMA StateStep ==
    ASSUME StateOK, [Next]_vars
    PROVE  StateOK'
<1>0. USE FleetAssumption DEF StateOK, Pcs, Verdicts, Inside, Present
<1>1. ASSUME NEW r \in Runs, Call(r) PROVE StateOK'
  BY <1>1 DEF Call, reaperVars
<1>2. ASSUME NEW r \in Runs, Proceed(r) PROVE StateOK'
  <2>1. CASE Acquire(r)
    BY <2>1 DEF Acquire, reaperVars
  <2>2. CASE Create(r) \/ HardTimeout(r)
    BY <2>2 DEF Create, HardTimeout, Step, reaperVars
  <2>3. CASE Start(r)
    BY <2>3 DEF Start, Step, Leaves, Exit, reaperVars
  <2>4. CASE WriteStdin(r)
    BY <2>4 DEF WriteStdin, Step, Leaves, Exit, reaperVars
  <2>5. CASE Waited(r)
    BY <2>5 DEF Waited, Step, reaperVars
  <2>6. CASE Kill(r)
    BY <2>6 DEF Kill, Killed, Exit, reaperVars
  <2>7. CASE ReadLog(r)
    BY <2>7 DEF ReadLog, Leaves, Exit, reaperVars
  <2>8. CASE Delete(r)
    BY <2>8 DEF Delete, reaperVars
  <2> QED BY <1>2, <2>1, <2>2, <2>3, <2>4, <2>5, <2>6, <2>7, <2>8 DEF Proceed
<1>3. ASSUME NEW r \in Runs, Fail(r) PROVE StateOK'
  <2>1. CASE Cancelled(r)
    BY <2>1 DEF Cancelled, Fault, reaperVars
  <2>2. CASE CreateRaises(r)
    BY <2>2 DEF CreateRaises, Fault, reaperVars
  <2>3. CASE CallRaises(r)
    <3>1. PICK b \in AfterRaise(r) : box' = [box EXCEPT ![r] = b]
      BY <2>3 DEF CallRaises
    <3>2. b \in Present \cup {"none", "gone"}
      BY <3>1 DEF AfterRaise
    <3> QED BY <2>3, <3>1, <3>2 DEF CallRaises, Fault, Exit, reaperVars
  <2>4. CASE KillFails(r)
    BY <2>4 DEF KillFails, Killed, Fault, Exit, reaperVars
  <2>5. CASE DeleteFails(r)
    BY <2>5 DEF DeleteFails, Fault, reaperVars
  <2> QED BY <1>3, <2>1, <2>2, <2>3, <2>4, <2>5 DEF Fail
<1>4. ASSUME NEW r \in Runs, Reports(r) \/ Dies(r) \/ Age(r) PROVE StateOK'
  BY <1>4 DEF Reports, Dies, Becomes, Age, runVars, reaperVars
<1>5. ASSUME NEW w \in Workers, Crash(w) PROVE StateOK'
  BY <1>5 DEF Crash, reaperVars
<1>6. CASE Reap
  BY <1>6 DEF Reap, List, Show, Remove, Removed, Sleep, Listing, Labelled, Due, runVars
<1>7. CASE RemoveFails \/ ReaperRaises
  BY <1>7 DEF RemoveFails, Removed, ReaperRaises, ReaperFault, runVars
<1>8. CASE UNCHANGED vars
  BY <1>8 DEF vars, runVars, reaperVars
<1> QED BY <1>1, <1>2, <1>3, <1>4, <1>5, <1>6, <1>7, <1>8 DEF Next

-----------------------------------------------------------------------------
(* The queues of the semaphores.                                           *)

Waiting(w) == {r \in Runs : pc[r] = "queued" /\ Home[r] = w}

\* q names every member of S, and each once.
Lists(q, S) ==
    /\ q \in Seq(Runs)
    /\ \A r \in Runs : (\E i \in DOMAIN q : q[i] = r) <=> r \in S
    /\ \A i, j \in DOMAIN q : q[i] = q[j] => i = j

LEMMA QueueLists ==
    QueueOK <=> /\ queue \in [Workers -> Seq(Runs)]
                /\ \A w \in Workers : Lists(queue[w], Waiting(w))
<1>1. ASSUME queue \in [Workers -> Seq(Runs)], NEW w \in Workers
      PROVE  queue[w] \in Seq(Runs)
  BY <1>1
<1> QED BY <1>1 DEF QueueOK, Lists, Waiting

\* Semaphore.acquire() joins the queue at its end.
LEMMA AppendLists ==
    ASSUME NEW q, NEW S, NEW r \in Runs, Lists(q, S), r \notin S
    PROVE  Lists(Append(q, r), S \cup {r})
<1>1. q \in Seq(Runs) BY DEF Lists
<1>2. Append(q, r) \in Seq(Runs) /\ DOMAIN Append(q, r) = DOMAIN q \cup {Len(q) + 1}
  BY <1>1
<1>3. /\ \A i \in DOMAIN q : Append(q, r)[i] = q[i]
      /\ Append(q, r)[Len(q) + 1] = r
      /\ Len(q) + 1 \notin DOMAIN q
  BY <1>1
<1>4. \A i \in DOMAIN q : q[i] \in Runs /\ q[i] # r
  BY <1>1 DEF Lists
<1> QED BY <1>2, <1>3, <1>4, Zenon DEF Lists

\* The first waiter leaves it.
LEMMA TailLists ==
    ASSUME NEW q, NEW S, Lists(q, S), q # <<>>
    PROVE  Lists(Tail(q), S \ {Head(q)})
<1>1. q \in Seq(Runs) /\ Len(q) \in Nat \ {0} /\ DOMAIN q = 1 .. Len(q)
  BY EmptySeq, LenProperties DEF Lists
<1>2. /\ Tail(q) \in Seq(Runs) /\ DOMAIN Tail(q) = 1 .. Len(q) - 1
      /\ \A i \in 1 .. Len(q) - 1 : Tail(q)[i] = q[i + 1]
      /\ Head(q) = q[1]
  BY <1>1
<1>3. \A i, j \in DOMAIN Tail(q) : Tail(q)[i] = Tail(q)[j] => i = j
  BY <1>1, <1>2 DEF Lists
<1>4. ASSUME NEW r \in Runs, NEW i \in DOMAIN Tail(q), Tail(q)[i] = r
      PROVE  r \in S \ {Head(q)}
  <2>1. q[i + 1] = r /\ i + 1 \in DOMAIN q /\ 1 \in DOMAIN q /\ i + 1 # 1
    BY <1>1, <1>2, <1>4
  <2> QED BY <2>1, <1>2 DEF Lists
<1>5. ASSUME NEW r \in Runs, r \in S \ {Head(q)}
      PROVE  \E i \in DOMAIN Tail(q) : Tail(q)[i] = r
  <2>1. PICK j \in DOMAIN q : q[j] = r
    BY <1>5 DEF Lists
  <2>2. j - 1 \in DOMAIN Tail(q) /\ Tail(q)[j - 1] = r
    BY <1>1, <1>2, <1>5, <2>1
  <2> QED BY <2>2
<1> QED BY <1>2, <1>3, <1>4, <1>5 DEF Lists

\* A cancelled waiter leaves it, wherever it stands.
LEMMA WithoutLists ==
    ASSUME NEW q, NEW S, NEW r \in Runs, Lists(q, S), r \in S
    PROVE  Lists(Without(r, q), S \ {r})
<1> DEFINE at == CHOOSE i \in DOMAIN q : q[i] = r
           p == Without(r, q)
<1>1. q \in Seq(Runs) /\ Len(q) \in Nat /\ DOMAIN q = 1 .. Len(q)
  BY DEF Lists
<1>2. at \in 1 .. Len(q) /\ q[at] = r
  BY <1>1 DEF Lists
<1> HIDE DEF at
<1>3. /\ SubSeq(q, 1, at - 1) \in Seq(Runs) /\ Len(SubSeq(q, 1, at - 1)) = at - 1
      /\ \A i \in 1 .. at - 1 : SubSeq(q, 1, at - 1)[i] = q[i]
  BY <1>1, <1>2, SubSeqProperties
<1>4. /\ SubSeq(q, at + 1, Len(q)) \in Seq(Runs)
      /\ Len(SubSeq(q, at + 1, Len(q))) = Len(q) - at
      /\ \A i \in 1 .. Len(q) - at : SubSeq(q, at + 1, Len(q))[i] = q[at + i]
  <2>1. at + 1 \in Int /\ Len(q) \in Int /\ \A i \in at + 1 .. Len(q) : q[i] \in Runs
    BY <1>1, <1>2, ElementOfSeq
  <2>2. /\ SubSeq(q, at + 1, Len(q)) \in Seq(Runs)
        /\ Len(SubSeq(q, at + 1, Len(q))) = IF at + 1 <= Len(q) THEN Len(q) - (at + 1) + 1 ELSE 0
        /\ \A i \in 1 .. Len(q) - (at + 1) + 1 :
               SubSeq(q, at + 1, Len(q))[i] = q[(at + 1) + i - 1]
    BY <2>1, SubSeqProperties
  <2>3. Len(q) - (at + 1) + 1 = Len(q) - at /\ \A i \in Int : (at + 1) + i - 1 = at + i
    BY <1>1, <1>2
  <2>4. (IF at + 1 <= Len(q) THEN Len(q) - (at + 1) + 1 ELSE 0) = Len(q) - at
    <3>1. ASSUME NEW n \in Nat, NEW k \in 1 .. n
          PROVE  (IF k + 1 <= n THEN n - (k + 1) + 1 ELSE 0) = n - k
      OBVIOUS
    <3> QED BY <3>1, <1>1, <1>2
  <2> DEFINE b == SubSeq(q, at + 1, Len(q))
  <2> HIDE DEF b
  <2>5. b \in Seq(Runs) /\ Len(b) = Len(q) - at
    BY <2>2, <2>4 DEF b
  <2>6. ASSUME NEW i \in 1 .. Len(q) - at PROVE b[i] = q[at + i]
    <3>1. b[i] = q[(at + 1) + i - 1]
      BY <2>2, <2>3 DEF b
    <3>2. (at + 1) + i - 1 = at + i
      BY <1>2
    <3> QED BY <3>1, <3>2, Zenon
  <2> QED BY <2>5, <2>6 DEF b
<1>5. p = SubSeq(q, 1, at - 1) \o SubSeq(q, at + 1, Len(q))
  BY DEF Without, at
<1> HIDE DEF p
<1>6. /\ p \in Seq(Runs) /\ DOMAIN p = 1 .. Len(q) - 1
      /\ \A i \in 1 .. Len(q) - 1 : p[i] = IF i < at THEN q[i] ELSE q[i + 1]
  <2> DEFINE a == SubSeq(q, 1, at - 1)
             b == SubSeq(q, at + 1, Len(q))
  <2>1. /\ p \in Seq(Runs)
        /\ Len(p) = Len(a) + Len(b)
        /\ \A i \in 1 .. Len(a) + Len(b) : p[i] = IF i <= Len(a) THEN a[i] ELSE b[i - Len(a)]
    BY <1>3, <1>4, <1>5, ConcatProperties
  <2>2. Len(a) = at - 1 /\ Len(b) = Len(q) - at
    BY <1>3, <1>4
  <2>3. \A i \in 1 .. at - 1 : a[i] = q[i]
    BY <1>3
  <2>4. \A i \in 1 .. Len(q) - at : b[i] = q[at + i]
    BY <1>4
  <2> HIDE DEF a, b
  <2>5. DOMAIN p = 1 .. Len(q) - 1
    BY <2>1, <2>2, <1>1, <1>2, LenProperties
  <2>6. ASSUME NEW i \in 1 .. Len(q) - 1 PROVE p[i] = IF i < at THEN q[i] ELSE q[i + 1]
    <3>1. p[i] = IF i < at THEN a[i] ELSE b[i - (at - 1)]
      <4>1. i \in 1 .. Len(a) + Len(b) /\ (i <= Len(a) <=> i < at)
        BY <2>2, <1>1, <1>2
      <4>2. p[i] = IF i <= Len(a) THEN a[i] ELSE b[i - Len(a)]
        BY <4>1, <2>1, Zenon
      <4> QED BY <4>1, <4>2, <2>2, Zenon
    <3>2. CASE i < at
      BY <3>1, <3>2, <2>3, <1>2
    <3>3. CASE i >= at
      <4>1. i - (at - 1) \in 1 .. Len(q) - at /\ at + (i - (at - 1)) = i + 1
        BY <3>3, <1>1, <1>2
      <4> QED BY <3>1, <3>3, <4>1, <2>4, <1>2
    <3> QED BY <3>2, <3>3, <1>2
  <2> QED BY <2>1, <2>5, <2>6
<1>7. ASSUME NEW i \in DOMAIN p, NEW j \in DOMAIN p, p[i] = p[j] PROVE i = j
  <2> DEFINE from(k) == IF k < at THEN k ELSE k + 1
  <2>1. from(i) \in DOMAIN q /\ from(j) \in DOMAIN q /\ q[from(i)] = q[from(j)]
    BY <1>1, <1>2, <1>6, <1>7
  <2>2. from(i) = from(j)
    BY <2>1, Zenon DEF Lists
  <2> QED BY <2>2, <1>2, <1>6
<1>8. ASSUME NEW x \in Runs, NEW i \in DOMAIN p, p[i] = x PROVE x \in S \ {r}
  <2> DEFINE k == IF i < at THEN i ELSE i + 1
  <2>1. k \in DOMAIN q /\ q[k] = x /\ k # at
    BY <1>1, <1>2, <1>6, <1>8
  <2>2. x \in S
    BY <2>1, Zenon DEF Lists
  <2>3. x # r
    BY <2>1, <1>1, <1>2, Zenon DEF Lists
  <2> QED BY <2>2, <2>3
<1>9. ASSUME NEW x \in Runs, x \in S \ {r} PROVE \E i \in DOMAIN p : p[i] = x
  <2>1. PICK k \in DOMAIN q : q[k] = x
    BY <1>9 DEF Lists
  <2>2. k # at
    BY <2>1, <1>2, <1>9
  <2>3. CASE k < at
    BY <2>1, <2>3, <1>1, <1>2, <1>6
  <2>4. CASE k > at
    <3>1. k - 1 \in DOMAIN p /\ p[k - 1] = x
      BY <2>1, <2>4, <1>1, <1>2, <1>6
    <3> QED BY <3>1
  <2> QED BY <2>2, <2>3, <2>4, <1>1, <1>2, <2>1
<1>10. Lists(p, S \ {r})
  BY <1>6, <1>7, <1>8, <1>9, Zenon DEF Lists
<1> QED BY <1>10 DEF p

LEMMA QueueStep ==
    ASSUME StateOK, QueueOK, [Next]_vars
    PROVE  QueueOK'
<1> USE FleetAssumption
<1>0. /\ queue \in [Workers -> Seq(Runs)] /\ \A w \in Workers : Lists(queue[w], Waiting(w))
      /\ pc \in [Runs -> Pcs]
  BY QueueLists DEF StateOK
<1>1. SUFFICES /\ queue' \in [Workers -> Seq(Runs)]
               /\ \A w \in Workers : Lists(queue'[w], Waiting(w)')
  <2>1. QueueOK' <=> /\ queue' \in [Workers -> Seq(Runs)]
                     /\ \A w \in Workers : Lists(queue'[w], Waiting(w)')
    BY DEF QueueOK, Lists, Waiting
  <2> QED BY <2>1
<1>2. ASSUME NEW v \in Workers, NEW q \in Seq(Runs),
             queue' = [queue EXCEPT ![v] = q],
             Lists(q, Waiting(v)'),
             \A w \in Workers \ {v} : Waiting(w)' = Waiting(w)
      PROVE  /\ queue' \in [Workers -> Seq(Runs)]
             /\ \A w \in Workers : Lists(queue'[w], Waiting(w)')
  BY <1>0, <1>2
<1>3. ASSUME UNCHANGED queue, \A w \in Workers : Waiting(w)' = Waiting(w)
      PROVE  /\ queue' \in [Workers -> Seq(Runs)]
             /\ \A w \in Workers : Lists(queue'[w], Waiting(w)')
  BY <1>0, <1>3
<1>4. ASSUME NEW r \in Runs, Call(r)
      PROVE  /\ queue' \in [Workers -> Seq(Runs)]
             /\ \A w \in Workers : Lists(queue'[w], Waiting(w)')
  <2> DEFINE v == Home[r]
  <2>1. v \in Workers OBVIOUS
  <2>2. Waiting(v)' = Waiting(v) \cup {r} /\ r \notin Waiting(v)
    BY <1>4, <1>0 DEF Call, Waiting
  <2>3. Lists(Append(queue[v], r), Waiting(v)')
    BY <2>1, <2>2, <1>0, AppendLists
  <2>4. \A w \in Workers \ {v} : Waiting(w)' = Waiting(w)
    BY <1>4, <1>0 DEF Call, Waiting
  <2>5. queue' = [queue EXCEPT ![v] = Append(queue[v], r)]
    BY <1>4 DEF Call
  <2>6. Append(queue[v], r) \in Seq(Runs)
    BY <2>3 DEF Lists
  <2> HIDE DEF v
  <2> QED BY <1>2, <2>1, <2>3, <2>4, <2>5, <2>6 DEF v
<1>5. ASSUME NEW r \in Runs, Acquire(r)
      PROVE  /\ queue' \in [Workers -> Seq(Runs)]
             /\ \A w \in Workers : Lists(queue'[w], Waiting(w)')
  <2> DEFINE v == Home[r]
  <2>1. v \in Workers /\ r \in Waiting(v)
    BY <1>5 DEF Acquire, Waiting
  <2>2. queue[v] \in Seq(Runs) /\ queue[v] # <<>>
    BY <2>1, <1>0 DEF Lists
  <2>3. Waiting(v)' = Waiting(v) \ {Head(queue[v])}
    BY <1>5, <1>0 DEF Acquire, Waiting
  <2>4. Lists(Tail(queue[v]), Waiting(v)')
    BY <2>1, <2>2, <2>3, <1>0, TailLists
  <2>5. \A w \in Workers \ {v} : Waiting(w)' = Waiting(w)
    BY <1>5, <1>0 DEF Acquire, Waiting
  <2>6. queue' = [queue EXCEPT ![v] = Tail(queue[v])]
    BY <1>5 DEF Acquire
  <2>7. Tail(queue[v]) \in Seq(Runs)
    BY <2>4 DEF Lists
  <2> HIDE DEF v
  <2> QED BY <1>2, <2>1, <2>4, <2>5, <2>6, <2>7 DEF v
<1>6. ASSUME NEW r \in Runs, Cancelled(r)
      PROVE  /\ queue' \in [Workers -> Seq(Runs)]
             /\ \A w \in Workers : Lists(queue'[w], Waiting(w)')
  <2> DEFINE v == Home[r]
  <2>1. v \in Workers /\ r \in Waiting(v)
    BY <1>6 DEF Cancelled, Waiting
  <2>2. Waiting(v)' = Waiting(v) \ {r}
    BY <1>6, <1>0 DEF Cancelled, Waiting
  <2>3. Lists(Without(r, queue[v]), Waiting(v)')
    BY <2>1, <2>2, <1>0, WithoutLists
  <2>4. \A w \in Workers \ {v} : Waiting(w)' = Waiting(w)
    BY <1>6, <1>0 DEF Cancelled, Waiting
  <2>5. queue' = [queue EXCEPT ![v] = Without(r, queue[v])]
    BY <1>6 DEF Cancelled, Withdrawn
  <2>6. Without(r, queue[v]) \in Seq(Runs)
    BY <2>3 DEF Lists
  <2> HIDE DEF v
  <2> QED BY <1>2, <2>1, <2>3, <2>4, <2>5, <2>6 DEF v
<1>7. ASSUME NEW v \in Workers, Crash(v)
      PROVE  /\ queue' \in [Workers -> Seq(Runs)]
             /\ \A w \in Workers : Lists(queue'[w], Waiting(w)')
  <2>1. pc' = [r \in Runs |-> IF pc[r] \notin {"new", "over"} /\ Home[r] = v
                               THEN "over" ELSE pc[r]]
    BY <1>7 DEF Crash
  <2>2. Waiting(v)' = {} /\ \A w \in Workers \ {v} : Waiting(w)' = Waiting(w)
    BY <2>1, <1>0 DEF Waiting
  <2>3. queue' = [queue EXCEPT ![v] = <<>>]
    BY <1>7 DEF Crash
  <2>4. <<>> \in Seq(Runs) /\ Lists(<<>>, Waiting(v)')
    BY <2>2 DEF Lists
  <2> HIDE DEF Lists
  <2> QED BY <1>2, <2>2, <2>3, <2>4, Zenon
<1>8. ASSUME NEW r \in Runs, Proceed(r) \/ Fail(r), ~Acquire(r), ~Cancelled(r)
      PROVE  UNCHANGED queue /\ \A w \in Workers : Waiting(w)' = Waiting(w)
  <2>1. UNCHANGED queue /\ pc[r] # "queued" /\ \E to \in Pcs \ {"queued"} : pc' = [pc EXCEPT ![r] = to]
    BY <1>8 DEF Proceed, Fail, Create, HardTimeout, Start, WriteStdin, Waited, Kill, ReadLog,
                Delete, Step, Leaves, Exit, CreateRaises, CallRaises, KillFails, DeleteFails,
                Pcs, Inside
  <2> QED BY <2>1, <1>0 DEF Waiting
<1>9. ASSUME UNCHANGED <<pc, queue>>
      PROVE  UNCHANGED queue /\ \A w \in Workers : Waiting(w)' = Waiting(w)
  BY <1>9 DEF Waiting
<1>10. ASSUME NEW r \in Runs, Reports(r) \/ Dies(r) \/ Age(r) PROVE UNCHANGED <<pc, queue>>
  BY <1>10 DEF Reports, Dies, Becomes, Age, runVars
<1>11. ASSUME Reap \/ RemoveFails \/ ReaperRaises PROVE UNCHANGED <<pc, queue>>
  BY <1>11 DEF Reap, List, Show, Remove, Removed, Sleep, RemoveFails, ReaperRaises, runVars
<1>12. ASSUME UNCHANGED vars PROVE UNCHANGED <<pc, queue>>
  BY <1>12 DEF vars, runVars
<1> QED BY <1>3, <1>4, <1>5, <1>6, <1>7, <1>8, <1>9, <1>10, <1>11, <1>12, Zenon DEF Next, Proceed, Fail

\* The type of the state and of the queues holds for ever, whatever fails: a waiter is
\* listed once and leaves the queue when it is served, cancelled or lost.
THEOREM TypeCorrect == Spec => []FleetTypeOK
<1> USE FleetAssumption
<1>1. Init => FleetTypeOK
  <2> SUFFICES ASSUME Init PROVE FleetTypeOK
    OBVIOUS
  <2>1. StateOK
    BY DEF Init, StateOK, Pcs, Inside, Verdicts
  <2>2. QueueOK
    BY DEF Init, QueueOK
  <2> QED BY <2>1, <2>2 DEF FleetTypeOK
<1>2. FleetTypeOK /\ [Next]_vars => FleetTypeOK'
  BY StateStep, QueueStep DEF FleetTypeOK
<1> QED BY <1>1, <1>2, PTL DEF Spec

-----------------------------------------------------------------------------
(* Where a container may be while its run is where it is.                  *)

Begun == {"new", "queued", "create"}

\* A container is made by create(), executes only between start() and the end of the wait or
\* the kill, is deleted unless that failed, and goes earlier only if the reaper found it old.
Sound(r) ==
    /\ pc[r] \in Begun => box[r] = "none"
    /\ box[r] = "none" => pc[r] \in Begun \cup {"over"}
    /\ box[r] \in Executing /\ failed[r] = "nothing" => pc[r] \in {"stdin", "wait", "kill"}
    /\ pc[r] = "over" /\ Exists(r) => failed[r] = "left"
    /\ box[r] = "gone" => r \in old \/ pc[r] = "over"
    /\ verdict[r] = "raised" => failed[r] # "nothing" \/ r \in old
    /\ verdict[r] = "lost" => failed[r] = "left"

\* The reaper deletes only what is old, and was there.
OldOnly ==
    /\ due \subseteq old
    /\ rpc = "remove" => target \in old /\ box[target] # "none"

Scope == OldOnly /\ \A r \in Runs : Sound(r)

LEMMA ProceedSound ==
    ASSUME StateOK, Scope, NEW r \in Runs, Proceed(r)
    PROVE  Scope'
<1> USE DEF StateOK, Scope, OldOnly, Sound, Exists, Begun, Present, Executing, reaperVars
<1>1. CASE Acquire(r)
  BY <1>1 DEF Acquire
<1>2. CASE Create(r)
  BY <1>2 DEF Create, Step
<1>3. CASE Start(r)
  BY <1>3 DEF Start, Step, Leaves, Exit
<1>4. CASE WriteStdin(r)
  BY <1>4 DEF WriteStdin, Step, Leaves, Exit
<1>5. CASE Waited(r)
  BY <1>5 DEF Waited, Step
<1>6. CASE HardTimeout(r)
  BY <1>6 DEF HardTimeout, Step
<1>7. CASE Kill(r)
  BY <1>7 DEF Kill, Killed, Exit
<1>8. CASE ReadLog(r)
  BY <1>8 DEF ReadLog, Leaves, Exit
<1>9. CASE Delete(r)
  BY <1>9 DEF Delete
<1> QED BY <1>1, <1>2, <1>3, <1>4, <1>5, <1>6, <1>7, <1>8, <1>9 DEF Proceed

LEMMA FailSound ==
    ASSUME StateOK, Scope, NEW r \in Runs, Fail(r)
    PROVE  Scope'
<1> USE DEF StateOK, Scope, OldOnly, Sound, Exists, Begun, Present, Executing, reaperVars, Fault
<1>1. CASE Cancelled(r)
  BY <1>1 DEF Cancelled
<1>2. CASE CreateRaises(r)
  BY <1>2 DEF CreateRaises
<1>3. CASE CallRaises(r)
  <2>1. PICK b \in AfterRaise(r) : box' = [box EXCEPT ![r] = b]
    BY <1>3 DEF CallRaises
  <2>2. b = box[r] \/ (b \in Executing /\ box[r] \in Present)
    BY <2>1 DEF AfterRaise
  <2> QED BY <1>3, <2>1, <2>2 DEF CallRaises, Exit
<1>4. CASE KillFails(r)
  BY <1>4 DEF KillFails, Killed, Exit
<1>5. CASE DeleteFails(r)
  BY <1>5 DEF DeleteFails
<1> QED BY <1>1, <1>2, <1>3, <1>4, <1>5 DEF Fail

LEMMA ScopeStep ==
    ASSUME StateOK, Scope, [Next]_vars
    PROVE  Scope'
<1> USE DEF StateOK, Scope, OldOnly, Sound, Exists, Begun, Present, Executing
<1>1. ASSUME NEW r \in Runs, Call(r) PROVE Scope'
  BY <1>1 DEF Call, reaperVars
<1>2. ASSUME NEW r \in Runs, Reports(r) \/ Dies(r) \/ Age(r) PROVE Scope'
  BY <1>2 DEF Reports, Dies, Becomes, Age, runVars, reaperVars
<1>3. ASSUME NEW w \in Workers, Crash(w) PROVE Scope'
  BY <1>3 DEF Crash, reaperVars
<1>4. CASE List \/ Sleep \/ RemoveFails \/ ReaperRaises
  BY <1>4 DEF List, Sleep, RemoveFails, Removed, ReaperRaises, ReaperFault, Due, runVars
<1>5. ASSUME NEW r \in Runs, Show(r) PROVE Scope'
  BY <1>5 DEF Show, runVars
<1>6. CASE Remove
  BY <1>6 DEF Remove, Removed, runVars
<1>7. CASE UNCHANGED vars
  BY <1>7 DEF vars, runVars, reaperVars
<1> QED BY <1>1, <1>2, <1>3, <1>4, <1>5, <1>6, <1>7, ProceedSound, FailSound, Zenon DEF Next, Reap

THEOREM ScopeHolds == Spec => []Scope
<1>1. Init => Scope
  BY DEF Init, Scope, OldOnly, Sound, Exists, Begun, Present, Executing
<1>2. StateOK /\ Scope /\ [Next]_vars => Scope'
  BY ScopeStep
<1>3. Spec => []StateOK
  <2>1. FleetTypeOK => StateOK
    BY DEF FleetTypeOK
  <2> QED BY <2>1, TypeCorrect, PTL
<1> QED BY <1>1, <1>2, <1>3, PTL DEF Spec

\* No container outlives its run, for any number of runs, workers, crashes and failing calls,
\* unless create() or delete() failed for it or its worker died.
THEOREM FinallyDeletes == Spec => []NoneLeft
<1>1. Scope => NoneLeft
  BY DEF Scope, Sound, NoneLeft
<1> QED BY <1>1, ScopeHolds, PTL

\* Without a failure of its own a run raises only when its container was old: the reaper does
\* not reach a younger one.
THEOREM YoungKeepVerdict == Spec => []VerdictKept
<1>1. Scope => VerdictKept
  BY DEF Scope, Sound, VerdictKept
<1> QED BY <1>1, ScopeHolds, PTL

-----------------------------------------------------------------------------
(* Permits.                                                                *)

Room == \A w \in Workers : Cardinality(Holding(w)) <= Concurrency

\* Only a run that gets a permit enters the block.
LEMMA Enters ==
    ASSUME StateOK, [Next]_vars, NEW r \in Runs, pc[r] \notin Inside, pc'[r] \in Inside
    PROVE  Acquire(r)
<1> USE DEF StateOK, Inside
<1>1. ASSUME NEW s \in Runs, Call(s) \/ Acquire(s) \/ Cancelled(s), s # r PROVE FALSE
  BY <1>1 DEF Call, Acquire, Cancelled
<1>2. ASSUME Call(r) \/ Cancelled(r) PROVE FALSE
  BY <1>2 DEF Call, Cancelled
<1>3. ASSUME NEW s \in Runs, Proceed(s) \/ Fail(s), ~Acquire(s), ~Cancelled(s) PROVE FALSE
  <2>1. pc[s] \in Inside \cup {"delete"} /\ \E to : pc' = [pc EXCEPT ![s] = to]
        /\ (pc[s] = "delete" => pc' = [pc EXCEPT ![s] = "over"])
    BY <1>3 DEF Proceed, Fail, Create, HardTimeout, Start, WriteStdin, Waited, Kill, ReadLog,
                Delete, Step, Leaves, Exit, CreateRaises, CallRaises, KillFails, DeleteFails
  <2> QED BY <2>1
<1>4. ASSUME NEW w \in Workers, Crash(w) PROVE FALSE
  BY <1>4 DEF Crash
<1>5. ASSUME NEW s \in Runs, Reports(s) \/ Dies(s) \/ Age(s) PROVE FALSE
  BY <1>5 DEF Reports, Dies, Becomes, Age, runVars
<1>6. ASSUME Reap \/ RemoveFails \/ ReaperRaises \/ UNCHANGED vars PROVE FALSE
  BY <1>6 DEF Reap, List, Show, Remove, Removed, Sleep, RemoveFails, ReaperRaises, vars, runVars
<1> QED BY <1>1, <1>2, <1>3, <1>4, <1>5, <1>6, Zenon DEF Next, Proceed, Fail

LEMMA RoomStep ==
    ASSUME StateOK, Room, [Next]_vars
    PROVE  Room'
<1> USE FleetAssumption
<1> SUFFICES ASSUME NEW w \in Workers PROVE Cardinality(Holding(w)') <= Concurrency
  BY DEF Room, Holding
<1>1. IsFiniteSet(Holding(w)) /\ Cardinality(Holding(w)) \in Nat
  <2>1. Holding(w) \subseteq Runs
    BY DEF Holding
  <2> QED BY <2>1, FS_Subset, FS_CardinalityType
<1>2. CASE \E r \in Runs : Acquire(r) /\ Home[r] = w
  <2>1. PICK r \in Runs : Acquire(r) /\ Home[r] = w
    BY <1>2
  <2>2. Holding(w)' \subseteq Holding(w) \cup {r} /\ Cardinality(Holding(w)) < Concurrency
    BY <2>1 DEF Acquire, Holding, Taken, StateOK, Inside
  <2> DEFINE H == Holding(w)
  <2> HIDE DEF H
  <2>3. IsFiniteSet(H \cup {r}) /\ Cardinality(H \cup {r}) <= Cardinality(H) + 1
    <3>1. IsFiniteSet(H) /\ Cardinality(H) \in Nat
      BY <1>1 DEF H
    <3>2. /\ IsFiniteSet(H \cup {r})
          /\ Cardinality(H \cup {r}) = IF r \in H THEN Cardinality(H) ELSE Cardinality(H) + 1
      BY <3>1, FS_AddElement, Zenon
    <3> QED BY <3>1, <3>2
  <2> USE DEF H
  <2>4. Cardinality(Holding(w)') <= Cardinality(Holding(w) \cup {r}) /\ Cardinality(Holding(w)') \in Nat
    BY <2>2, <2>3, FS_Subset, FS_CardinalityType
  <2>5. Cardinality(Holding(w) \cup {r}) \in Nat
    BY <2>3, FS_CardinalityType
  <2> QED BY <1>1, <2>2, <2>3, <2>4, <2>5
<1>3. CASE \A r \in Runs : Home[r] = w => ~Acquire(r)
  <2>1. Holding(w)' \subseteq Holding(w)
    BY <1>3, Enters DEF Holding
  <2>2. Cardinality(Holding(w)') <= Cardinality(Holding(w)) /\ Cardinality(Holding(w)') \in Nat
    BY <2>1, <1>1, FS_Subset, FS_CardinalityType
  <2> QED BY <1>1, <2>2 DEF Room
<1> QED BY <1>2, <1>3

\* At most Concurrency containers of a worker execute untrusted code at once, of those that
\* no failed call and no dead worker left behind.
THEOREM AlwaysCapped == Spec => []Capped
<1> USE FleetAssumption
<1>1. Init => Room
  <2> SUFFICES ASSUME Init, NEW w \in Workers PROVE Cardinality(Holding(w)) <= Concurrency
    BY DEF Room
  <2>1. Holding(w) = {}
    BY DEF Init, Holding, Inside
  <2> QED BY <2>1, FS_EmptySet
<1>2. StateOK /\ Room /\ [Next]_vars => Room'
  BY RoomStep
<1>3. Spec => []StateOK
  <2>1. FleetTypeOK => StateOK
    BY DEF FleetTypeOK
  <2> QED BY <2>1, TypeCorrect, PTL
<1>4. Scope /\ Room => Capped
  <2> SUFFICES ASSUME Scope, Room, NEW w \in Workers
               PROVE  Cardinality({r \in Runs : /\ Home[r] = w /\ box[r] \in Executing
                                                /\ failed[r] = "nothing"}) <= Concurrency
    BY DEF Capped
  <2> DEFINE E == {r \in Runs : Home[r] = w /\ box[r] \in Executing /\ failed[r] = "nothing"}
  <2>1. E \subseteq Holding(w) /\ Holding(w) \subseteq Runs
    BY DEF Scope, Sound, Holding, Inside
  <2>2. /\ Cardinality(E) <= Cardinality(Holding(w))
        /\ Cardinality(E) \in Nat /\ Cardinality(Holding(w)) \in Nat
    BY <2>1, FS_Subset, FS_CardinalityType
  <2> QED BY <2>2 DEF Room
<1> QED BY <1>1, <1>2, <1>3, <1>4, ScopeHolds, PTL DEF Spec
=============================================================================
