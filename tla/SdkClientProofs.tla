-------------------------- MODULE SdkClientProofs --------------------------
(***************************************************************************)
(* Proofs about SdkClient for any number of threads, senders, events and   *)
(* any buffer, batch and attempt bounds.                                   *)
(***************************************************************************)
EXTENDS SdkClient, SequenceTheorems, FiniteSetTheorems, TLAPS

(***************************************************************************)
(* The buffer's operations (EventBuffer).                                  *)
(***************************************************************************)

\* take() splits the buffer: batch and rest, joined, are the buffer again.
LEMMA TakeSplits ==
    ASSUME NEW s \in Seq(Nat), NEW limit \in Nat
    PROVE  /\ Taken(s, limit) \in Seq(Nat)
           /\ Remaining(s, limit) \in Seq(Nat)
           /\ Taken(s, limit) \o Remaining(s, limit) = s
           /\ Len(Taken(s, limit)) <= limit
           /\ Len(Remaining(s, limit)) <= Len(s)
<1> DEFINE n == NTaken(s, limit)
<1>1. n \in 0 .. Len(s) /\ n <= limit
  BY DEF NTaken
<1>2. \A i \in 1 .. Len(s) : s[i] \in Nat
  OBVIOUS
<1>3. /\ SubSeq(s, 1, n) \in Seq(Nat)
      /\ Len(SubSeq(s, 1, n)) = IF 1 <= n THEN n - 1 + 1 ELSE 0
  <2>1. \A i \in 1 .. n : s[i] \in Nat
    BY <1>1, <1>2
  <2>. QED  BY <1>1, <2>1, SubSeqProperties
<1>4. /\ SubSeq(s, n + 1, Len(s)) \in Seq(Nat)
      /\ Len(SubSeq(s, n + 1, Len(s))) = IF n + 1 <= Len(s) THEN Len(s) - (n + 1) + 1 ELSE 0
  <2>1. \A i \in n + 1 .. Len(s) : s[i] \in Nat
    BY <1>1, <1>2
  <2>. QED  BY <1>1, <2>1, SubSeqProperties
<1>5. SubSeq(s, 1, n) \o SubSeq(s, n + 1, Len(s)) = s
  <2> HIDE DEF n
  <2>1. SubSeq(s, 1, n) \o SubSeq(s, n + 1, Len(s)) = SubSeq(s, 1, Len(s))
    <3>1. 1 \in 1 .. Len(s) + 1 /\ n \in 1 - 1 .. Len(s) /\ Len(s) \in n .. Len(s)
      BY <1>1
    <3>. QED  BY <3>1, ConcatAdjacentSubSeq
  <2>. QED  BY <2>1, SubSeqFull
<1>6. Len(SubSeq(s, 1, n)) <= limit /\ Len(SubSeq(s, n + 1, Len(s))) <= Len(s)
  BY <1>1, <1>3, <1>4
<1> HIDE DEF n
<1>7. Taken(s, limit) = SubSeq(s, 1, n) /\ Remaining(s, limit) = SubSeq(s, n + 1, Len(s))
  BY DEF Taken, Remaining, n
<1>. QED  BY <1>3, <1>4, <1>5, <1>6, <1>7

\* put_back() splits the joined list: kept and overflow, joined, are all of it.
LEMMA PutBackSplits ==
    ASSUME NEW b \in Seq(Nat), NEW s \in Seq(Nat)
    PROVE  /\ PutBack(b, s) \in Seq(Nat)
           /\ Overflow(b, s) \in Seq(Nat)
           /\ PutBack(b, s) \o Overflow(b, s) = b \o s
           /\ Len(PutBack(b, s)) <= Capacity
<1> DEFINE j == b \o s
           n == NKept(b, s)
<1>1. j \in Seq(Nat) /\ Len(j) = Len(b) + Len(s)
  BY ConcatProperties
<1>2. n \in 0 .. Len(j) /\ n <= Capacity
  BY <1>1, CapacityAssumption DEF NKept
<1>3. /\ SubSeq(j, 1, n) \in Seq(Nat)
      /\ Len(SubSeq(j, 1, n)) = IF 1 <= n THEN n - 1 + 1 ELSE 0
  <2>1. \A i \in 1 .. n : j[i] \in Nat
    BY <1>1, <1>2
  <2>. QED  BY <1>2, <2>1, SubSeqProperties
<1>4. SubSeq(j, n + 1, Len(j)) \in Seq(Nat)
  <2>1. \A i \in n + 1 .. Len(j) : j[i] \in Nat
    BY <1>1, <1>2
  <2>. QED  BY <1>1, <1>2, <2>1, SubSeqProperties
<1>5. SubSeq(j, 1, n) \o SubSeq(j, n + 1, Len(j)) = j
  <2> HIDE DEF j, n
  <2>1. SubSeq(j, 1, n) \o SubSeq(j, n + 1, Len(j)) = SubSeq(j, 1, Len(j))
    <3>1. 1 \in 1 .. Len(j) + 1 /\ n \in 1 - 1 .. Len(j) /\ Len(j) \in n .. Len(j)
      BY <1>1, <1>2
    <3>. QED  BY <1>1, <3>1, ConcatAdjacentSubSeq
  <2>. QED  BY <1>1, <2>1, SubSeqFull
<1>6. Len(SubSeq(j, 1, n)) <= Capacity
  BY <1>2, <1>3, CapacityAssumption
<1>7. PutBack(b, s) = SubSeq(j, 1, n) /\ Overflow(b, s) = SubSeq(j, n + 1, Len(j))
  BY <1>1 DEF PutBack, Overflow, Joined
<1> HIDE DEF n
<1>. QED  BY <1>3, <1>4, <1>5, <1>6, <1>7

\* A joined list names no event twice exactly when its parts do not and share none.
LEMMA NoDuplicatesConcat ==
    ASSUME NEW s \in Seq(Nat), NEW t \in Seq(Nat)
    PROVE  NoDuplicates(s \o t) <=>
              NoDuplicates(s) /\ NoDuplicates(t) /\ Range(s) \cap Range(t) = {}
<1> DEFINE j == s \o t
<1>1. /\ j \in Seq(Nat)
      /\ Len(j) = Len(s) + Len(t)
      /\ \A i \in 1 .. Len(s) + Len(t) :
            j[i] = IF i <= Len(s) THEN s[i] ELSE t[i - Len(s)]
  BY ConcatProperties
<1>2. /\ DOMAIN j = 1 .. Len(s) + Len(t)
      /\ DOMAIN s = 1 .. Len(s)
      /\ DOMAIN t = 1 .. Len(t)
  BY <1>1
<1>3. /\ \A i \in DOMAIN s : i \in DOMAIN j /\ j[i] = s[i]
      /\ \A i \in DOMAIN t : i + Len(s) \in DOMAIN j /\ j[i + Len(s)] = t[i]
  BY <1>1, <1>2
<1>4. /\ Range(s) = {s[i] : i \in DOMAIN s}
      /\ Range(t) = {t[i] : i \in DOMAIN t}
  BY DEF Range
<1>5. /\ \A x \in Range(s) : \E i \in DOMAIN s : x = s[i]
      /\ \A x \in Range(t) : \E i \in DOMAIN t : x = t[i]
  BY <1>4
<1> HIDE DEF j
<1>6. ASSUME NoDuplicates(j)
      PROVE  NoDuplicates(s) /\ NoDuplicates(t) /\ Range(s) \cap Range(t) = {}
  <2>1. NoDuplicates(s)
    BY <1>2, <1>3, <1>6 DEF NoDuplicates
  <2>2. NoDuplicates(t)
    <3> SUFFICES ASSUME NEW i \in DOMAIN t, NEW k \in DOMAIN t, t[i] = t[k]
                 PROVE  i = k
      BY DEF NoDuplicates
    <3>1. j[i + Len(s)] = j[k + Len(s)]
      BY <1>3
    <3>2. i + Len(s) = k + Len(s)
      BY <3>1, <1>3, <1>6 DEF NoDuplicates
    <3>. QED  BY <3>2, <1>2
  <2>3. Range(s) \cap Range(t) = {}
    <3> SUFFICES ASSUME NEW x \in Range(s), x \in Range(t)
                 PROVE  FALSE
      OBVIOUS
    <3>1. PICK i \in DOMAIN s : x = s[i]
      BY <1>5
    <3>2. PICK k \in DOMAIN t : x = t[k]
      BY <1>5
    <3>3. i = k + Len(s)
      BY <3>1, <3>2, <1>3, <1>6 DEF NoDuplicates
    <3>. QED  BY <3>3, <1>2
  <2>. QED  BY <2>1, <2>2, <2>3
<1>7. ASSUME NoDuplicates(s), NoDuplicates(t), Range(s) \cap Range(t) = {}
      PROVE  NoDuplicates(j)
  <2> SUFFICES ASSUME NEW i \in DOMAIN j, NEW k \in DOMAIN j, j[i] = j[k]
               PROVE  i = k
    BY DEF NoDuplicates
  <2>1. \A m \in DOMAIN j : (m <= Len(s) /\ m \in DOMAIN s /\ j[m] = s[m])
                          \/ (m > Len(s) /\ m - Len(s) \in DOMAIN t /\ j[m] = t[m - Len(s)])
    <3> TAKE m \in DOMAIN j
    <3>1. m \in 1 .. Len(s) + Len(t) /\ Len(s) \in Nat /\ Len(t) \in Nat
      BY <1>2
    <3>2. CASE m <= Len(s)
      BY <1>1, <1>2, <3>1, <3>2
    <3>3. CASE m > Len(s)
      <4>1. m - Len(s) \in 1 .. Len(t)
        BY <3>1, <3>3
      <4>2. j[m] = t[m - Len(s)]
        BY <1>1, <3>1, <3>3
      <4>. QED  BY <4>1, <4>2, <3>3, <1>2
    <3>. QED  BY <3>1, <3>2, <3>3
  <2>2. /\ \A m \in DOMAIN s : s[m] \in Range(s)
        /\ \A m \in DOMAIN t : t[m] \in Range(t)
    BY <1>4
  <2>3. CASE i <= Len(s) /\ k <= Len(s)
    BY <2>1, <2>3, <1>7, <1>2 DEF NoDuplicates
  <2>4. CASE i > Len(s) /\ k > Len(s)
    <3>1. /\ i - Len(s) \in DOMAIN t /\ j[i] = t[i - Len(s)]
          /\ k - Len(s) \in DOMAIN t /\ j[k] = t[k - Len(s)]
      BY <2>1, <2>4, <1>2
    <3>2. i - Len(s) = k - Len(s)
      BY <3>1, <1>7 DEF NoDuplicates
    <3>. QED  BY <3>2, <1>2
  <2>5. CASE i <= Len(s) /\ k > Len(s)
    <3>1. j[i] \in Range(s)
      BY <2>1, <2>2, <2>5, <1>2
    <3>2. j[k] \in Range(t)
      BY <2>1, <2>2, <2>5, <1>2
    <3>. QED  BY <3>1, <3>2, <1>7
  <2>6. CASE i > Len(s) /\ k <= Len(s)
    <3>1. j[k] \in Range(s)
      BY <2>1, <2>2, <2>6, <1>2
    <3>2. j[i] \in Range(t)
      BY <2>1, <2>2, <2>6, <1>2
    <3>. QED  BY <3>1, <3>2, <1>7
  <2>7. i \in Nat /\ k \in Nat /\ Len(s) \in Nat
    BY <1>2
  <2>. QED  BY <2>3, <2>4, <2>5, <2>6, <2>7
<1>. QED  BY <1>6, <1>7 DEF j

-----------------------------------------------------------------------------
(* Type correctness.                                                       *)

\* A sender backs off only when an attempt is left.
AttemptScope == \A s \in Senders : run[s] = "backoff" => attempt[s] < MaxAttempts

TypeIInv == TypeOK /\ AttemptScope

\* The return from flush() leaves the host threads' state well typed.
LEMMA ReturnType ==
    ASSUME NEW t \in HostThreads, HostType, Return(t), UNCHANGED joinee
    PROVE  HostType'
<1>1. pc' \in [HostThreads -> HostPc]
  BY DEF HostType, Return, Go, HostPc
<1>2. call' \in [HostThreads -> {"none", "capture", "flush", "close"}]
  BY DEF HostType, Return
<1>. QED  BY <1>1, <1>2 DEF HostType, Return

\* So do the start of flush() and the end of a call.
LEMMA BeginLeaveType ==
    ASSUME NEW t \in HostThreads, HostType, LedgerType, UNCHANGED joinee,
           \/ Begin(t) /\ call' = [call EXCEPT ![t] = "flush"]
           \/ Begin(t) /\ call' = [call EXCEPT ![t] = "close"]
           \/ Leave(t)
    PROVE  HostType'
<1>1. pc' \in [HostThreads -> HostPc]
  BY DEF HostType, Begin, Leave, Go, HostPc
<1>2. call' \in [HostThreads -> {"none", "capture", "flush", "close"}]
  BY DEF HostType, Leave
<1>3. due' \in [HostThreads -> Nat]
  BY DEF HostType, LedgerType, Begin, Leave
<1>. QED  BY <1>1, <1>2, <1>3 DEF HostType

\* So does a batch that leaves its sender.
LEMMA BatchLeavesType ==
    ASSUME NEW s \in Senders, NEW where \in SenderPc, SenderType,
           batch' = [batch EXCEPT ![s] = <<>>], Step(s, where), UNCHANGED <<attempt, final>>
    PROVE  SenderType'
<1>1. batch' \in [Senders -> Seq(Nat)]
  BY DEF SenderType
<1>2. \A r \in Senders : Len(batch'[r]) <= BatchSize
  BY ClientAssumption DEF SenderType
<1>. QED  BY <1>1, <1>2 DEF SenderType, Step

\* The initial state is well typed.
LEMMA TypeInit == Init => TypeIInv
<1> SUFFICES ASSUME Init  PROVE TypeIInv
  OBVIOUS
<1>1. BufferType
  BY CapacityAssumption DEF Init, BufferType
<1>2. ClientType
  BY DEF Init, ClientType
<1>3. HostType /\ AttemptScope
  BY DEF Init, HostType, HostPc, AttemptScope
<1>4. SenderType
  <2>1. batch \in [Senders -> Seq(Nat)] /\ \A s \in Senders : Len(batch[s]) <= BatchSize
    BY ClientAssumption DEF Init
  <2>2. run \in [Senders -> SenderPc] /\ attempt \in [Senders -> 1 .. MaxAttempts]
    BY ClientAssumption DEF Init, SenderPc
  <2>3. final \in [Senders -> BOOLEAN]
    BY DEF Init
  <2>. QED  BY <2>1, <2>2, <2>3 DEF SenderType
<1>5. LedgerType
  BY DEF Init, LedgerType
<1>6. EnvType
  <2>1. api \in BOOLEAN
    BY DEF Init
  <2>2. outages \in 0 .. MaxOutages /\ closes \in 0 .. MaxCloses /\ forks \in 0 .. MaxForks
    BY ClientAssumption DEF Init
  <2>. QED  BY <2>1, <2>2 DEF EnvType
<1>. QED  BY <1>1, <1>2, <1>3, <1>4, <1>5, <1>6 DEF TypeIInv, TypeOK

\* Every step of the client, its senders and their environment keeps types and
\* the bounds on buffer, batches and attempts.
LEMMA TypeStep == TypeIInv /\ [Next]_vars => TypeIInv'
<1> SUFFICES ASSUME TypeIInv, [Next]_vars
             PROVE  TypeIInv'
  OBVIOUS
<1> USE CapacityAssumption, ClientAssumption
    DEF TypeIInv, TypeOK, AttemptScope, BufferType, ClientType, HostType, SenderType, LedgerType, EnvType,
        HostPc, SenderPc, Go, Step, AfterEnsure, AfterPending,
        SetWake, NotifyAll, Begin, Leave, bufferVars, clientVars, hostVars, senderVars, ledger, envVars
<1>1. ASSUME NEW t \in HostThreads, HostCall(t)
      PROVE  TypeIInv'
  <2>1. CASE Capture(t)  BY <2>1 DEF Capture
  <2>2. CASE FlushCall(t)
    <3>1. HostType'  BY <2>2, BeginLeaveType DEF FlushCall
    <3>2. BufferType' /\ ClientType'  BY <2>2 DEF FlushCall
    <3>3. SenderType' /\ AttemptScope'  BY <2>2 DEF FlushCall
    <3>4. LedgerType' /\ EnvType'  BY <2>2 DEF FlushCall
    <3>. QED  BY <3>1, <3>2, <3>3, <3>4
  <2>3. CASE CloseCall(t)
    <3>1. HostType'  BY <2>3, BeginLeaveType DEF CloseCall
    <3>2. BufferType' /\ ClientType'  BY <2>3 DEF CloseCall
    <3>3. SenderType' /\ AttemptScope'  BY <2>3 DEF CloseCall
    <3>4. LedgerType'  BY <2>3 DEF CloseCall
    <3>5. EnvType'  BY <2>3 DEF CloseCall
    <3>. QED  BY <3>1, <3>2, <3>3, <3>4, <3>5
  <2>. QED  BY <1>1, <2>1, <2>2, <2>3 DEF HostCall
<1>2. ASSUME NEW t \in HostThreads, HostStep(t)
      PROVE  TypeIInv'
  <2>1. CASE Ensure(t)  BY <2>1 DEF Ensure
  <2>11. ASSUME Start(t)  PROVE TypeIInv'
    <3>1. SenderType' /\ AttemptScope'  BY <2>11 DEF Start
    <3>2. ClientType'  BY <2>11 DEF Start
    <3>3. HostType'  BY <2>11 DEF Start
    <3>4. BufferType' /\ EnvType'  BY <2>11 DEF Start
    <3>5. LedgerType'  BY <2>11 DEF Start
    <3>. QED  BY <3>1, <3>2, <3>3, <3>4, <3>5
  <2>12. ASSUME UNCHANGED <<bufferVars, clientVars, joinee, senderVars, ledger, envVars>>, HostType'
         PROVE  TypeIInv'
    <3>1. BufferType' /\ SenderType' /\ AttemptScope' /\ EnvType'  BY <2>12
    <3>2. ClientType'  BY <2>12
    <3>3. LedgerType'  BY <2>12
    <3>. QED  BY <2>12, <3>1, <3>2, <3>3
  <2>13. CASE EnsureAlive(t)
    <3>1. CASE Leave(t)
      BY <2>13, <3>1, <2>12, BeginLeaveType DEF EnsureAlive
    <3>2. CASE UNCHANGED <<call, due>>
      <4>1. HostType'  BY <2>13, <3>2 DEF EnsureAlive
      <4>. QED  BY <2>13, <4>1, <2>12 DEF EnsureAlive
    <3>. QED  BY <2>13, <3>1, <3>2 DEF EnsureAlive
  <2>14. CASE Recheck(t)
    <3>1. CASE Start(t)  BY <3>1, <2>11
    <3>2. CASE ~Start(t)
      <4>1. CASE Leave(t)
        BY <2>14, <3>2, <4>1, <2>12, BeginLeaveType DEF Recheck
      <4>2. CASE Go(t, AfterEnsure(t)) /\ UNCHANGED <<call, due>>
        <5>1. UNCHANGED <<bufferVars, clientVars, joinee, senderVars, ledger, envVars>>
          BY <2>14, <3>2 DEF Recheck
        <5>2. HostType'  BY <4>2, <5>1
        <5>. QED  BY <5>1, <5>2, <2>12
      <4>. QED  BY <2>14, <3>2, <4>1, <4>2 DEF Recheck
    <3>. QED  BY <3>1, <3>2
  <2>15. CASE Peek(t)
    <3>1. CASE Return(t)
      <4>1. HostType'  BY <2>15, <3>1, ReturnType DEF Peek
      <4>. QED  BY <2>15, <4>1, <2>12 DEF Peek
    <3>2. CASE Go(t, "ensure") /\ UNCHANGED <<call, due>>
      <4>1. HostType'  BY <2>15, <3>2 DEF Peek
      <4>. QED  BY <2>15, <4>1, <2>12 DEF Peek
    <3>. QED  BY <2>15, <3>1, <3>2 DEF Peek
  <2>2. CASE Spawn(t)
    <3>1. CASE Start(t)  BY <3>1, <2>11
    <3>2. CASE ~Start(t)
      <4>1. HostType'  BY <2>2, <3>2 DEF Spawn
      <4>. QED  BY <2>2, <3>2, <4>1, <2>12 DEF Spawn
    <3>. QED  BY <3>1, <3>2
  <2>3. CASE Add(t)
    <3>1. CASE IsFull(buffer)
      <4>1. /\ buffer' = buffer
            /\ dropped' = dropped \cup {captured + 1}
            /\ captured' = captured + 1
            /\ UNCHANGED <<clientVars, call, joinee, due, senderVars, sent, rejected, foreign,
                           overlap, envVars>>
            /\ pc' = [pc EXCEPT ![t] = "signal"]
        BY <2>3, <3>1 DEF Add
      <4>2. captured + 1 \in Nat
        OBVIOUS
      <4>3. dropped' \subseteq Nat
        BY <4>1, <4>2
      <4>. QED  BY <4>1, <4>2, <4>3
    <3>2. CASE ~IsFull(buffer)
      <4>1. /\ buffer' = Append(buffer, captured + 1)
            /\ captured' = captured + 1
            /\ UNCHANGED <<dropped, clientVars, call, joinee, due, senderVars, sent, rejected,
                           foreign, overlap, envVars>>
            /\ pc' = [pc EXCEPT ![t] = "signal"]
        BY <2>3, <3>2 DEF Add
      <4>2. captured + 1 \in Nat
        OBVIOUS
      <4>3. buffer' \in Seq(Nat) /\ Len(buffer') = Len(buffer) + 1
        BY <4>1, <4>2, AppendProperties
      <4>4. Len(buffer') <= Capacity
        BY <4>3, <3>2 DEF IsFull
      <4>. QED  BY <4>1, <4>2, <4>3, <4>4
    <3>. QED  BY <3>1, <3>2
  <2>4. CASE Signal(t)
    <3>1. BufferType'  BY <2>4 DEF Signal
    <3>2. ClientType'  BY <2>4 DEF Signal
    <3>3. HostType'  BY <2>4 DEF Signal
    <3>4. SenderType' /\ AttemptScope'  BY <2>4 DEF Signal
    <3>5. LedgerType'  BY <2>4 DEF Signal
    <3>6. EnvType'  BY <2>4 DEF Signal
    <3>. QED  BY <3>1, <3>2, <3>3, <3>4, <3>5, <3>6
  <2>5. CASE Wake(t)  BY <2>5 DEF Wake
  <2>6. CASE Check(t)
    <3>1. HostType'
      <4>1. CASE Return(t)  BY <2>6, <4>1, ReturnType DEF Check
      <4>2. CASE Go(t, "wait") /\ UNCHANGED <<call, due>>  BY <2>6, <4>2 DEF Check
      <4>. QED  BY <2>6, <4>1, <4>2 DEF Check
    <3>2. BufferType' /\ ClientType'  BY <2>6 DEF Check
    <3>3. SenderType' /\ AttemptScope'  BY <2>6 DEF Check
    <3>4. LedgerType'  BY <2>6 DEF Check
    <3>5. EnvType'  BY <2>6 DEF Check
    <3>. QED  BY <3>1, <3>2, <3>3, <3>4, <3>5
  <2>7. CASE CloseStop(t)  BY <2>7 DEF CloseStop, Interrupted
  <2>8. CASE CloseRead(t)  BY <2>8 DEF CloseRead
  <2>9. CASE CloseJoined(t)  BY <2>9 DEF CloseJoined
  <2>10. CASE CloseClear(t)  BY <2>10 DEF CloseClear
  <2>. QED  BY <1>2, <2>1, <2>2, <2>3, <2>4, <2>5, <2>6, <2>7, <2>8, <2>9, <2>10,
               <2>13, <2>14, <2>15 DEF HostStep
<1>3. ASSUME NEW t \in HostThreads, HostTimeout(t)
      PROVE  TypeIInv'
  <2>1. CASE FlushTimeout(t)
    <3>1. HostType'
      BY <2>1, ReturnType DEF FlushTimeout
    <3>2. BufferType' /\ ClientType'  BY <2>1 DEF FlushTimeout
    <3>3. SenderType' /\ AttemptScope'  BY <2>1 DEF FlushTimeout
    <3>4. LedgerType'  BY <2>1 DEF FlushTimeout
    <3>5. EnvType'  BY <2>1 DEF FlushTimeout
    <3>. QED  BY <3>1, <3>2, <3>3, <3>4, <3>5
  <2>2. CASE CloseJoinTimeout(t)  BY <2>2 DEF CloseJoinTimeout
  <2>. QED  BY <1>3, <2>1, <2>2 DEF HostTimeout
<1>4. ASSUME NEW t \in HostThreads, Fork(t)
      PROVE  TypeIInv'
  <2>1. foreign' \subseteq Nat
    <3>1. Range(buffer) \subseteq Nat
      BY RangeOfSeq
    <3>2. \A s \in Senders : Range(batch[s]) \subseteq Nat
      BY RangeOfSeq
    <3>. QED  BY <1>4, <3>1, <3>2 DEF Fork, Pending, InFlight
  <2>2. LedgerType'  BY <1>4, <2>1 DEF Fork
  <2>3. BufferType'  BY <1>4 DEF Fork
  <2>4. ClientType'  BY <1>4 DEF Fork
  <2>5. HostType'  BY <1>4 DEF Fork
  <2>6. SenderType' /\ AttemptScope'  BY <1>4 DEF Fork
  <2>7. EnvType'  BY <1>4 DEF Fork
  <2>. QED  BY <2>2, <2>3, <2>4, <2>5, <2>6, <2>7
<1>5. ASSUME NEW s \in Senders, SenderStep(s)
      PROVE  TypeIInv'
  <2>1. CASE Top(s)  BY <2>1 DEF Top
  <2>2. CASE Woken(s)  BY <2>2 DEF Woken
  <2>3. CASE Take(s)
    <3>1. /\ Taken(buffer, BatchSize) \in Seq(Nat)
          /\ Remaining(buffer, BatchSize) \in Seq(Nat)
          /\ Len(Taken(buffer, BatchSize)) <= BatchSize
          /\ Len(Remaining(buffer, BatchSize)) <= Len(buffer)
      BY TakeSplits
    <3>2. Len(Remaining(buffer, BatchSize)) <= Capacity
      BY <3>1
    <3>. QED  BY <2>3, <3>1, <3>2 DEF Take
  <2>4. CASE Announce(s)  BY <2>4 DEF Announce
  <2>5. CASE Mark(s)  BY <2>5 DEF Mark
  <2>6. CASE SendOk(s) \/ SendRejected(s)
    <3>1. Range(batch[s]) \subseteq Nat
      BY RangeOfSeq
    <3>2. LedgerType'  BY <2>6, <3>1 DEF SendOk, SendRejected
    <3>3. SenderType'  BY <2>6, BatchLeavesType DEF SendOk, SendRejected
    <3>4. BufferType' /\ ClientType'  BY <2>6 DEF SendOk, SendRejected
    <3>5. HostType'  BY <2>6 DEF SendOk, SendRejected
    <3>6. AttemptScope'  BY <2>6 DEF SendOk, SendRejected
    <3>7. EnvType'  BY <2>6 DEF SendOk, SendRejected
    <3>. QED  BY <3>2, <3>3, <3>4, <3>5, <3>6, <3>7
  <2>7. CASE SendRetryable(s)  BY <2>7 DEF SendRetryable
  <2>8. CASE SendRaises(s)  BY <2>8 DEF SendRaises
  <2>9. CASE GiveBack(s)
    <3>1. /\ PutBack(batch[s], buffer) \in Seq(Nat)
          /\ Overflow(batch[s], buffer) \in Seq(Nat)
          /\ Len(PutBack(batch[s], buffer)) <= Capacity
      BY PutBackSplits
    <3>2. Range(Overflow(batch[s], buffer)) \subseteq Nat
      BY <3>1, RangeOfSeq
    <3>3. BufferType'  BY <2>9, <3>1, <3>2 DEF GiveBack
    <3>4. SenderType'  BY <2>9, BatchLeavesType DEF GiveBack
    <3>5. ClientType'  BY <2>9 DEF GiveBack
    <3>6. HostType'  BY <2>9 DEF GiveBack
    <3>7. AttemptScope'  BY <2>9 DEF GiveBack
    <3>8. LedgerType'  BY <2>9 DEF GiveBack
    <3>9. EnvType'  BY <2>9 DEF GiveBack
    <3>. QED  BY <3>3, <3>4, <3>5, <3>6, <3>7, <3>8, <3>9
  <2>10. CASE Unmark(s)
    <3>1. BufferType'  BY <2>10 DEF Unmark
    <3>2. ClientType'  BY <2>10 DEF Unmark
    <3>3. HostType'  BY <2>10 DEF Unmark
    <3>4. SenderType' /\ AttemptScope'  BY <2>10 DEF Unmark
    <3>5. LedgerType'  BY <2>10 DEF Unmark
    <3>6. EnvType'  BY <2>10 DEF Unmark
    <3>. QED  BY <3>1, <3>2, <3>3, <3>4, <3>5, <3>6
  <2>. QED  BY <1>5, <2>1, <2>2, <2>3, <2>4, <2>5, <2>6, <2>7, <2>8, <2>9, <2>10 DEF SenderStep
<1>6. ASSUME NEW s \in Senders, SenderTimer(s)
      PROVE  TypeIInv'
  <2>1. CASE Tick(s)  BY <2>1 DEF Tick
  <2>2. CASE Retry(s)
    <3>1. attempt[s] + 1 \in 1 .. MaxAttempts
      BY <2>2 DEF Retry
    <3>2. SenderType' /\ AttemptScope'  BY <2>2, <3>1 DEF Retry
    <3>3. BufferType' /\ ClientType'  BY <2>2 DEF Retry
    <3>4. HostType'  BY <2>2 DEF Retry
    <3>5. LedgerType'  BY <2>2 DEF Retry
    <3>6. EnvType'  BY <2>2 DEF Retry
    <3>. QED  BY <3>2, <3>3, <3>4, <3>5, <3>6
  <2>. QED  BY <1>6, <2>1, <2>2 DEF SenderTimer
<1>7. CASE ApiFails \/ ApiRecovers
  <2>1. EnvType'
    <3>1. api' \in BOOLEAN
      BY <1>7 DEF ApiFails, ApiRecovers
    <3>2. outages' \in 0 .. MaxOutages
      BY <1>7 DEF ApiFails, ApiRecovers
    <3>3. UNCHANGED <<closes, forks>>
      BY <1>7 DEF ApiFails, ApiRecovers
    <3>. QED  BY <3>1, <3>2, <3>3
  <2>2. BufferType'  BY <1>7 DEF ApiFails, ApiRecovers
  <2>3. ClientType'  BY <1>7 DEF ApiFails, ApiRecovers
  <2>4. HostType'  BY <1>7 DEF ApiFails, ApiRecovers
  <2>5. SenderType' /\ AttemptScope'  BY <1>7 DEF ApiFails, ApiRecovers
  <2>6. LedgerType'  BY <1>7 DEF ApiFails, ApiRecovers
  <2>. QED  BY <2>1, <2>2, <2>3, <2>4, <2>5, <2>6
<1>8. CASE UNCHANGED vars
  BY <1>8 DEF vars
<1>. QED  BY <1>1, <1>2, <1>3, <1>4, <1>5, <1>6, <1>7, <1>8 DEF Next

\* The client's variables keep their types; in particular the buffer never
\* exceeds its capacity and no batch is tried more than max_attempts times.
THEOREM TypeCorrect == Spec => []TypeOK
<1>1. TypeIInv => TypeOK
  BY DEF TypeIInv
<1>. QED  BY <1>1, TypeInit, TypeStep, PTL DEF Spec

-----------------------------------------------------------------------------
(* Every event is in exactly one place.                                    *)

\* A joined list names what its parts name.
LEMMA RangeConcat ==
    ASSUME NEW s \in Seq(Nat), NEW t \in Seq(Nat)
    PROVE  Range(s \o t) = Range(s) \cup Range(t)
<1> DEFINE j == s \o t
<1>1. /\ j \in Seq(Nat)
      /\ Len(j) = Len(s) + Len(t)
      /\ \A i \in 1 .. Len(s) + Len(t) :
            j[i] = IF i <= Len(s) THEN s[i] ELSE t[i - Len(s)]
  BY ConcatProperties
<1>2. /\ DOMAIN j = 1 .. Len(s) + Len(t)
      /\ DOMAIN s = 1 .. Len(s)
      /\ DOMAIN t = 1 .. Len(t)
  BY <1>1
<1>3. \A i \in DOMAIN s : i \in DOMAIN j /\ j[i] = s[i]
  BY <1>1, <1>2
<1>4. \A i \in DOMAIN t : i + Len(s) \in DOMAIN j /\ j[i + Len(s)] = t[i]
  <2> TAKE i \in DOMAIN t
  <2>1. i + Len(s) \in 1 .. Len(s) + Len(t) /\ i + Len(s) > Len(s)
    BY <1>2
  <2>2. (i + Len(s)) - Len(s) = i
    BY <1>2
  <2>. QED  BY <1>1, <1>2, <2>1, <2>2
<1> HIDE DEF j
<1>5. \A i \in DOMAIN j : \/ i \in DOMAIN s /\ j[i] = s[i]
                          \/ i - Len(s) \in DOMAIN t /\ j[i] = t[i - Len(s)]
  <2> TAKE i \in DOMAIN j
  <2>1. CASE i <= Len(s)
    BY <1>1, <1>2, <2>1
  <2>2. CASE i > Len(s)
    <3>1. i - Len(s) \in 1 .. Len(t)
      BY <1>2, <2>2
    <3>. QED  BY <3>1, <1>1, <1>2, <2>2
  <2>. QED  BY <1>2, <2>1, <2>2
<1>6. Range(j) = Range(s) \cup Range(t)
  BY <1>3, <1>4, <1>5 DEF Range
<1>. QED  BY <1>6 DEF j

\* What an appended list names.
LEMMA AppendNames ==
    ASSUME NEW s \in Seq(Nat), NEW e \in Nat, NoDuplicates(s), e \notin Range(s)
    PROVE  /\ Range(Append(s, e)) = Range(s) \cup {e}
           /\ NoDuplicates(Append(s, e))
<1>1. <<e>> \in Seq(Nat) /\ Append(s, e) = s \o <<e>>
  BY AppendIsConcat
<1>2. Range(<<e>>) = {e} /\ NoDuplicates(<<e>>)
  BY DEF Range, NoDuplicates
<1>3. Range(s) \cap Range(<<e>>) = {}
  BY <1>2
<1>4. Range(s \o <<e>>) = Range(s) \cup {e}
  BY <1>1, <1>2, RangeConcat
<1>5. NoDuplicates(s \o <<e>>)
  BY <1>1, <1>2, <1>3, NoDuplicatesConcat
<1>. QED  BY <1>1, <1>4, <1>5

\* What the senders other than s hold.
Others(s) == UNION {Range(batch[r]) : r \in Senders \ {s}}

\* What is pending, seen from sender s.
LEMMA PendingFrom ==
    ASSUME NEW s \in Senders, HeldOnce
    PROVE  /\ Pending = Range(buffer) \cup Range(batch[s]) \cup Others(s)
           /\ Range(batch[s]) \cap Range(buffer) = {}
           /\ Others(s) \cap (Range(buffer) \cup Range(batch[s])) = {}
           /\ NoDuplicates(buffer) /\ NoDuplicates(batch[s])
<1>1. InFlight = Range(batch[s]) \cup Others(s)
  BY DEF InFlight, Others
<1>2. Others(s) \cap (Range(buffer) \cup Range(batch[s])) = {}
  <2> SUFFICES ASSUME NEW r \in Senders \ {s}
               PROVE  Range(batch[r]) \cap (Range(buffer) \cup Range(batch[s])) = {}
    BY DEF Others
  <2>1. Range(batch[r]) \cap Range(buffer) = {}
    BY DEF HeldOnce
  <2>2. Range(batch[r]) \cap Range(batch[s]) = {}
    BY DEF HeldOnce
  <2>. QED  BY <2>1, <2>2
<1>. QED  BY <1>1, <1>2 DEF Pending, HeldOnce

\* Sender s exchanges its batch for the list q and the buffer changes: what is
\* pending then, and what makes it held only once.
LEMMA Exchange ==
    ASSUME NEW s \in Senders, NEW q, HeldOnce, SenderType,
           batch' = [batch EXCEPT ![s] = q],
           NoDuplicates(buffer'), NoDuplicates(q), Range(q) \cap Range(buffer') = {},
           Others(s) \cap (Range(buffer') \cup Range(q)) = {}
    PROVE  /\ HeldOnce'
           /\ Pending' = Range(buffer') \cup Range(q) \cup Others(s)
<1>1. batch'[s] = q /\ \A r \in Senders \ {s} : batch'[r] = batch[r]
  BY DEF SenderType
<1>2. Others(s)' = Others(s)
  BY <1>1 DEF Others
<1>3. HeldOnce'
  <2>1. \A r \in Senders \ {s} : Range(batch[r]) \subseteq Others(s)
    BY DEF Others
  <2>2. ASSUME NEW r \in Senders
        PROVE  NoDuplicates(batch'[r]) /\ Range(batch'[r]) \cap Range(buffer') = {}
    <3>1. CASE r = s
      BY <1>1, <3>1
    <3>2. CASE r # s
      <4>1. batch'[r] = batch[r] /\ Range(batch[r]) \subseteq Others(s)
        BY <1>1, <2>1, <3>2
      <4>2. NoDuplicates(batch[r])
        BY DEF HeldOnce
      <4>. QED  BY <4>1, <4>2
    <3>. QED  BY <3>1, <3>2
  <2>3. ASSUME NEW r \in Senders, NEW u \in Senders \ {r}
        PROVE  Range(batch'[r]) \cap Range(batch'[u]) = {}
    <3>1. CASE r = s
      BY <1>1, <2>1, <3>1
    <3>2. CASE u = s
      BY <1>1, <2>1, <3>2
    <3>3. CASE r # s /\ u # s
      <4>1. Range(batch[r]) \cap Range(batch[u]) = {}
        BY DEF HeldOnce
      <4>. QED  BY <1>1, <3>3, <4>1
    <3>. QED  BY <3>1, <3>2, <3>3
  <2>. QED  BY <2>2, <2>3 DEF HeldOnce
<1>4. InFlight' = Range(q) \cup Others(s)
  <2>1. InFlight' = Range(batch'[s]) \cup Others(s)'
    BY DEF InFlight, Others
  <2>. QED  BY <1>1, <1>2, <2>1
<1>. QED  BY <1>3, <1>4 DEF Pending

\* An event that has not been captured yet is nowhere.
LEMMA NextIsFresh ==
    ASSUME TypeIInv, Complete
    PROVE  captured + 1 \notin Pending \cup sent \cup rejected \cup dropped \cup foreign
<1>1. captured + 1 \notin 1 .. captured
  BY DEF TypeIInv, TypeOK, LedgerType
<1>. QED  BY <1>1 DEF Complete

\* The local variable batch is live only where _send_pending() has one.
BatchScope ==
    \A s \in Senders : run[s] \notin {"mark", "send", "backoff", "putback"} => batch[s] = <<>>

LedgerInv == BatchScope /\ Accounted

\* A step that moves no event.
LEMMA NothingMoves ==
    ASSUME Accounted, UNCHANGED <<buffer, batch, captured, sent, rejected, dropped, foreign>>
    PROVE  Accounted'
BY DEF Accounted, Complete, ExitsDisjoint, HeldOnce, Pending, InFlight

\* capture(): the new event is buffered or counted as dropped.
LEMMA AddAccounted ==
    ASSUME NEW t \in HostThreads, TypeIInv, LedgerInv, Add(t)
    PROVE  /\ LedgerInv'
           /\ IF IsFull(buffer) THEN Pending' = Pending
              ELSE Pending' = Pending \cup {captured + 1}
<1> DEFINE e == captured + 1
<1>1. /\ e \notin Pending \cup sent \cup rejected \cup dropped \cup foreign
      /\ 1 .. captured' = 1 .. captured \cup {e}
      /\ e \in Nat
      /\ buffer \in Seq(Nat)
  <2>1. captured \in Nat /\ buffer \in Seq(Nat)
    BY DEF TypeIInv, TypeOK, LedgerType, BufferType
  <2>2. captured' = captured + 1
    BY DEF Add
  <2>. QED  BY <2>1, <2>2, NextIsFresh DEF LedgerInv, Accounted
<1>2. /\ UNCHANGED <<batch, run, sent, rejected, foreign>>
      /\ UNCHANGED InFlight
  BY DEF Add, senderVars, InFlight
<1>3. BatchScope'
  BY <1>2 DEF LedgerInv, BatchScope
<1> HIDE DEF e
<1>4. CASE IsFull(buffer)
  <2>1. dropped' = dropped \cup {e} /\ buffer' = buffer
    BY <1>4 DEF Add, e
  <2>2. HeldOnce' /\ Pending' = Pending
    BY <1>2, <2>1 DEF LedgerInv, Accounted, HeldOnce, Pending
  <2>3. Complete'
    BY <1>1, <1>2, <2>1, <2>2 DEF LedgerInv, Accounted, Complete
  <2>4. ExitsDisjoint'
    BY <1>1, <1>2, <2>1, <2>2 DEF LedgerInv, Accounted, ExitsDisjoint
  <2>. QED  BY <1>3, <1>4, <2>2, <2>3, <2>4 DEF LedgerInv, Accounted
<1>5. CASE ~IsFull(buffer)
  <2>1. dropped' = dropped /\ buffer' = Append(buffer, e)
    BY <1>5 DEF Add, e
  <2>2. e \notin Range(buffer) /\ \A s \in Senders : e \notin Range(batch[s])
    BY <1>1 DEF Pending, InFlight
  <2>3. Range(buffer') = Range(buffer) \cup {e} /\ NoDuplicates(buffer')
    BY <1>1, <2>1, <2>2, AppendNames DEF LedgerInv, Accounted, HeldOnce
  <2>4. Pending' = Pending \cup {e}
    BY <1>2, <2>3 DEF Pending
  <2>5. HeldOnce'
    BY <1>2, <2>2, <2>3 DEF LedgerInv, Accounted, HeldOnce
  <2>6. Complete'
    BY <1>1, <1>2, <2>1, <2>4 DEF LedgerInv, Accounted, Complete
  <2>7. ExitsDisjoint'
    BY <1>1, <1>2, <2>1, <2>4 DEF LedgerInv, Accounted, ExitsDisjoint
  <2>. QED  BY <1>3, <1>5, <2>4, <2>5, <2>6, <2>7 DEF LedgerInv, Accounted, e
<1>. QED  BY <1>4, <1>5

\* take(): the batch leaves the buffer and enters an empty hand.
LEMMA TakeAccounted ==
    ASSUME NEW s \in Senders, TypeIInv, LedgerInv, Take(s)
    PROVE  LedgerInv' /\ Pending' = Pending
<1> DEFINE q == Taken(buffer, BatchSize)
<1>1. /\ batch' = [batch EXCEPT ![s] = q]
      /\ buffer' = Remaining(buffer, BatchSize)
      /\ UNCHANGED <<captured, sent, rejected, dropped, foreign>>
  BY DEF Take, ledger
<1>2. buffer \in Seq(Nat) /\ SenderType
  BY DEF TypeIInv, TypeOK, BufferType
<1>3. /\ q \in Seq(Nat) /\ buffer' \in Seq(Nat)
      /\ q \o buffer' = buffer
  BY <1>1, <1>2, TakeSplits, ClientAssumption
<1>4. q = <<>> \/ buffer # <<>>
  BY <1>2, ClientAssumption DEF Taken, NTaken
<1>5. batch[s] = <<>>
  BY DEF LedgerInv, BatchScope, Take
<1>6. BatchScope'
  <2>1. run' = [run EXCEPT ![s] = IF buffer = <<>> THEN "announce" ELSE "mark"]
    BY DEF Take, Step
  <2>. QED  BY <1>1, <1>2, <1>4, <2>1 DEF LedgerInv, BatchScope, SenderType
<1> HIDE DEF q
<1>7. /\ NoDuplicates(q) /\ NoDuplicates(buffer')
      /\ Range(q) \cap Range(buffer') = {}
      /\ Range(buffer) = Range(q) \cup Range(buffer')
  BY <1>3, NoDuplicatesConcat, RangeConcat DEF LedgerInv, Accounted, HeldOnce
<1>8. /\ Pending = Range(buffer) \cup Others(s)
      /\ Others(s) \cap Range(buffer) = {}
  <2>1. Range(batch[s]) = {}
    BY <1>5 DEF Range
  <2>. QED  BY <2>1, PendingFrom DEF LedgerInv, Accounted
<1>9. HeldOnce' /\ Pending' = Pending
  <2>1. HeldOnce
    BY DEF LedgerInv, Accounted
  <2>. QED  BY <1>1, <1>2, <1>7, <1>8, <2>1, Exchange
<1>10. Complete' /\ ExitsDisjoint'
  BY <1>1, <1>9 DEF LedgerInv, Accounted, Complete, ExitsDisjoint
<1>. QED  BY <1>6, <1>9, <1>10 DEF LedgerInv, Accounted

\* A batch that was answered leaves by one exit.
LEMMA AnsweredAccounted ==
    ASSUME NEW s \in Senders, TypeIInv, LedgerInv, SendOk(s) \/ SendRejected(s)
    PROVE  LedgerInv' /\ Pending' = Pending \ Range(batch[s])
<1>1. /\ batch' = [batch EXCEPT ![s] = <<>>]
      /\ run' = [run EXCEPT ![s] = "done"]
      /\ UNCHANGED <<buffer, captured, dropped, foreign>>
      /\ \/ sent' = sent \cup Range(batch[s]) /\ rejected' = rejected
         \/ rejected' = rejected \cup Range(batch[s]) /\ sent' = sent
  BY DEF SendOk, SendRejected, Step, bufferVars
<1>2. SenderType /\ HeldOnce
  BY DEF TypeIInv, TypeOK, LedgerInv, Accounted
<1>3. BatchScope'
  BY <1>1, <1>2 DEF LedgerInv, BatchScope, SenderType
<1>4. /\ Pending = Range(buffer) \cup Range(batch[s]) \cup Others(s)
      /\ Range(batch[s]) \cap Range(buffer) = {}
      /\ Others(s) \cap (Range(buffer) \cup Range(batch[s])) = {}
      /\ NoDuplicates(buffer)
  BY <1>2, PendingFrom
<1>5. NoDuplicates(<<>>) /\ Range(<<>>) = {}
  BY DEF NoDuplicates, Range
<1>6. HeldOnce' /\ Pending' = Range(buffer) \cup Others(s)
  <2>1. NoDuplicates(buffer') /\ Range(buffer') = Range(buffer)
    BY <1>1, <1>4
  <2>. QED  BY <1>1, <1>2, <1>4, <1>5, <2>1, Exchange
<1>7. Complete'
  BY <1>1, <1>4, <1>6 DEF LedgerInv, Accounted, Complete
<1>8. ExitsDisjoint'
  BY <1>1, <1>4, <1>6 DEF LedgerInv, Accounted, ExitsDisjoint
<1>9. Pending' = Pending \ Range(batch[s])
  BY <1>4, <1>6
<1>. QED  BY <1>3, <1>6, <1>7, <1>8, <1>9 DEF LedgerInv, Accounted

\* put_back(): the batch is in the buffer again, or counted as dropped.
LEMMA GiveBackAccounted ==
    ASSUME NEW s \in Senders, TypeIInv, LedgerInv, GiveBack(s)
    PROVE  LedgerInv' /\ Pending' = Pending \ Range(Overflow(batch[s], buffer))
<1> DEFINE o == Overflow(batch[s], buffer)
<1>1. /\ batch' = [batch EXCEPT ![s] = <<>>]
      /\ run' = [run EXCEPT ![s] = "retreat"]
      /\ buffer' = PutBack(batch[s], buffer)
      /\ dropped' = dropped \cup Range(o)
      /\ UNCHANGED <<captured, sent, rejected, foreign>>
  BY DEF GiveBack, Step, ledger
<1>2. SenderType /\ HeldOnce /\ buffer \in Seq(Nat) /\ batch[s] \in Seq(Nat)
  BY DEF TypeIInv, TypeOK, LedgerInv, Accounted, BufferType, SenderType
<1>3. BatchScope'
  BY <1>1, <1>2 DEF LedgerInv, BatchScope, SenderType
<1>4. /\ buffer' \in Seq(Nat) /\ o \in Seq(Nat)
      /\ buffer' \o o = batch[s] \o buffer
  BY <1>1, <1>2, PutBackSplits
<1> HIDE DEF o
<1>5. /\ Pending = Range(buffer) \cup Range(batch[s]) \cup Others(s)
      /\ Range(batch[s]) \cap Range(buffer) = {}
      /\ Others(s) \cap (Range(buffer) \cup Range(batch[s])) = {}
      /\ NoDuplicates(buffer) /\ NoDuplicates(batch[s])
  BY <1>2, PendingFrom
<1>6. NoDuplicates(batch[s] \o buffer)
  BY <1>2, <1>5, NoDuplicatesConcat
<1>7. NoDuplicates(buffer') /\ Range(buffer') \cap Range(o) = {}
  BY <1>4, <1>6, NoDuplicatesConcat
<1>8. Range(buffer') \cup Range(o) = Range(batch[s]) \cup Range(buffer)
  <2>1. Range(buffer' \o o) = Range(buffer') \cup Range(o)
    BY <1>4, RangeConcat
  <2>2. Range(batch[s] \o buffer) = Range(batch[s]) \cup Range(buffer)
    BY <1>2, RangeConcat
  <2>. QED  BY <1>4, <2>1, <2>2
<1>9. NoDuplicates(<<>>) /\ Range(<<>>) = {}
  BY DEF NoDuplicates, Range
<1>10. HeldOnce' /\ Pending' = Range(buffer') \cup Others(s)
  <2>1. Others(s) \cap (Range(buffer') \cup Range(<<>>)) = {}
    BY <1>5, <1>8, <1>9
  <2>. QED  BY <1>1, <1>2, <1>7, <1>9, <2>1, Exchange
<1>11. Complete'
  BY <1>1, <1>5, <1>8, <1>10 DEF LedgerInv, Accounted, Complete
<1>12. ExitsDisjoint'
  BY <1>1, <1>5, <1>7, <1>8, <1>10 DEF LedgerInv, Accounted, ExitsDisjoint
<1>13. Pending' = Pending \ Range(o)
  BY <1>5, <1>7, <1>8, <1>10
<1>. QED  BY <1>3, <1>10, <1>11, <1>12, <1>13 DEF LedgerInv, Accounted, o

\* The child of a fork: what was pending is the parent's.
LEMMA ForkAccounted ==
    ASSUME NEW t \in HostThreads, TypeIInv, LedgerInv, Fork(t)
    PROVE  LedgerInv' /\ Pending' = {}
<1>1. /\ foreign' = foreign \cup Pending
      /\ buffer' = <<>>
      /\ \A s \in Senders : batch'[s] = <<>>
      /\ UNCHANGED <<captured, sent, rejected, dropped>>
  BY DEF Fork
<1>2. NoDuplicates(<<>>) /\ Range(<<>>) = {}
  BY DEF NoDuplicates, Range
<1>3. BatchScope'
  BY <1>1 DEF BatchScope
<1>4. HeldOnce'
  BY <1>1, <1>2 DEF HeldOnce
<1>5. Pending' = {}
  BY <1>1, <1>2 DEF Pending, InFlight
<1>6. Complete' /\ ExitsDisjoint'
  BY <1>1, <1>5 DEF LedgerInv, Accounted, Complete, ExitsDisjoint
<1>. QED  BY <1>3, <1>4, <1>5, <1>6 DEF LedgerInv, Accounted

LEMMA LedgerStep == TypeIInv /\ LedgerInv /\ [Next]_vars => LedgerInv'
<1> SUFFICES ASSUME TypeIInv, LedgerInv, [Next]_vars
             PROVE  LedgerInv'
  OBVIOUS
<1>0. run \in [Senders -> SenderPc]
  BY DEF TypeIInv, TypeOK, SenderType
<1> USE DEF LedgerInv, BatchScope, Go, Step, bufferVars, clientVars, hostVars, senderVars,
            ledger, envVars
<1>1. ASSUME NEW t \in HostThreads, HostCall(t)
      PROVE  LedgerInv'
  <2>1. UNCHANGED <<run, batch, buffer, captured, sent, rejected, dropped, foreign>>
    BY <1>1 DEF HostCall, Capture, FlushCall, CloseCall
  <2>. QED  BY <2>1, NothingMoves
<1>2. ASSUME NEW t \in HostThreads, HostStep(t)
      PROVE  LedgerInv'
  <2>1. CASE Add(t)  BY <2>1, AddAccounted
  <2>2. CASE ~Add(t)
    <3>1. UNCHANGED <<batch, buffer, captured, sent, rejected, dropped, foreign>>
      BY <1>2, <2>2 DEF HostStep, Ensure, EnsureAlive, Spawn, Recheck, Start, Signal, Peek, Wake,
                        Check, CloseStop, CloseRead, CloseJoined, CloseClear, SetWake
    <3>2. BatchScope'
      <4>1. CASE Start(t)  BY <1>0, <3>1, <4>1 DEF Start, Fresh, Alive
      <4>2. CASE Signal(t) \/ Wake(t)  BY <1>0, <3>1, <4>2 DEF Signal, Wake, SetWake
      <4>3. CASE CloseStop(t)  BY <1>0, <3>1, <4>3 DEF CloseStop, Interrupted
      <4>4. CASE ~(Start(t) \/ Signal(t) \/ Wake(t) \/ CloseStop(t))
        <5>1. UNCHANGED run
          BY <1>2, <2>2, <4>4 DEF HostStep, Ensure, EnsureAlive, Spawn, Recheck, Peek, Check,
                                    CloseRead, CloseJoined, CloseClear
        <5>. QED  BY <3>1, <5>1
      <4>. QED  BY <4>1, <4>2, <4>3, <4>4
    <3>. QED  BY <3>1, <3>2, NothingMoves
  <2>. QED  BY <2>1, <2>2
<1>3. ASSUME NEW t \in HostThreads, HostTimeout(t)
      PROVE  LedgerInv'
  <2>1. UNCHANGED <<run, batch, buffer, captured, sent, rejected, dropped, foreign>>
    BY <1>3 DEF HostTimeout, FlushTimeout, CloseJoinTimeout
  <2>. QED  BY <2>1, NothingMoves
<1>4. ASSUME NEW s \in Senders, SenderStep(s)
      PROVE  LedgerInv'
  <2>1. CASE Take(s)  BY <2>1, TakeAccounted
  <2>2. CASE SendOk(s) \/ SendRejected(s)  BY <2>2, AnsweredAccounted
  <2>3. CASE GiveBack(s)  BY <2>3, GiveBackAccounted
  <2>4. CASE ~(Take(s) \/ SendOk(s) \/ SendRejected(s) \/ GiveBack(s))
    <3>1. UNCHANGED <<batch, buffer, captured, sent, rejected, dropped, foreign>>
      BY <1>4, <2>4 DEF SenderStep, Top, Woken, Announce, Mark, SendRetryable, SendRaises, Unmark
    <3>2. BatchScope'
      <4>1. CASE Top(s) \/ Woken(s)  BY <1>0, <3>1, <4>1 DEF Top, Woken
      <4>2. CASE Announce(s) \/ Unmark(s)  BY <1>0, <3>1, <4>2 DEF Announce, Unmark, AfterPending
      <4>3. CASE Mark(s)  BY <1>0, <3>1, <4>3 DEF Mark
      <4>4. CASE SendRetryable(s) \/ SendRaises(s)
        BY <1>0, <3>1, <4>4 DEF SendRetryable, SendRaises
      <4>. QED  BY <1>4, <2>4, <4>1, <4>2, <4>3, <4>4 DEF SenderStep
    <3>. QED  BY <3>1, <3>2, NothingMoves
  <2>. QED  BY <2>1, <2>2, <2>3, <2>4
<1>5. ASSUME NEW s \in Senders, SenderTimer(s)
      PROVE  LedgerInv'
  <2>1. UNCHANGED <<batch, buffer, captured, sent, rejected, dropped, foreign>>
    BY <1>5 DEF SenderTimer, Tick, Retry
  <2>2. BatchScope'
    BY <1>0, <1>5, <2>1 DEF SenderTimer, Tick, Retry
  <2>. QED  BY <2>1, <2>2, NothingMoves
<1>6. CASE ApiFails \/ ApiRecovers
  <2>1. UNCHANGED <<run, batch, buffer, captured, sent, rejected, dropped, foreign>>
    BY <1>6 DEF ApiFails, ApiRecovers
  <2>. QED  BY <2>1, NothingMoves
<1>7. CASE UNCHANGED vars
  <2>1. UNCHANGED <<run, batch, buffer, captured, sent, rejected, dropped, foreign>>
    BY <1>7 DEF vars
  <2>. QED  BY <2>1, NothingMoves
<1>. QED  BY <1>1, <1>2, <1>3, <1>4, <1>5, <1>6, <1>7, ForkAccounted DEF Next

\* Nothing is captured yet.
LEMMA LedgerInit == Init => LedgerInv
<1> SUFFICES ASSUME Init  PROVE LedgerInv
  OBVIOUS
<1>1. Range(<<>>) = {} /\ NoDuplicates(<<>>)
  BY DEF Range, NoDuplicates
<1>2. Pending = {} /\ 1 .. captured = {}
  BY <1>1 DEF Init, Pending, InFlight
<1>3. Complete /\ ExitsDisjoint
  BY <1>2 DEF Init, Complete, ExitsDisjoint
<1>4. HeldOnce
  BY <1>1 DEF Init, HeldOnce
<1>5. BatchScope
  BY DEF Init, BatchScope
<1>. QED  BY <1>3, <1>4, <1>5 DEF LedgerInv, Accounted

\* No interleaving of calls, senders, failures and forks loses an event
\* uncounted, duplicates one, or lets a forked child send its parent's.
THEOREM AlwaysAccounted == Spec => []Accounted
<1>1. LedgerInv => Accounted
  BY DEF LedgerInv
<1>. QED  BY <1>1, LedgerInit, TypeInit, TypeStep, LedgerStep, PTL DEF Spec

-----------------------------------------------------------------------------
(* One sender until close() is called.                                     *)

\* Only a thread inside close() reaches its last steps.
CloseScope ==
    \A t \in HostThreads :
        /\ pc[t] \in {"stop", "read", "join", "clear"} => call[t] = "close"
        /\ call[t] = "close" => closes > 0

\* The client knows the sender that lives.
ThreadTracked == closes = 0 => \A s \in Senders : Alive(s) => thread = s

SenderInv == CloseScope /\ ThreadTracked /\ SingleSenderWhileOpen

\* A step that starts no thread, forgets none and leaves close() alone.
LEMMA SameSenders ==
    ASSUME SenderInv, UNCHANGED <<closes, thread, overlap>>, CloseScope',
           \A s \in Senders : Alive(s)' => Alive(s)
    PROVE  SenderInv'
BY DEF SenderInv, ThreadTracked, SingleSenderWhileOpen

LEMMA SenderInvStep == TypeIInv /\ SenderInv /\ [Next]_vars => SenderInv'
<1> SUFFICES ASSUME TypeIInv, SenderInv, [Next]_vars
             PROVE  SenderInv'
  OBVIOUS
<1>0. /\ pc \in [HostThreads -> HostPc]
      /\ call \in [HostThreads -> {"none", "capture", "flush", "close"}]
      /\ run \in [Senders -> SenderPc]
      /\ closes \in Nat
  BY ClientAssumption DEF TypeIInv, TypeOK, HostType, SenderType, EnvType
<1>01. CloseScope
  BY DEF SenderInv
<1> USE DEF Go, Step, bufferVars, clientVars, hostVars, senderVars, ledger, envVars
<1>1. ASSUME NEW t \in HostThreads, HostCall(t)
      PROVE  SenderInv'
  <2>1. CASE CloseCall(t)
    <3>1. closes' > 0
      BY <1>0, <2>1 DEF CloseCall
    <3>2. CloseScope'
      BY <1>0, <1>01, <2>1, <3>1 DEF CloseCall, Begin, CloseScope
    <3>. QED  BY <3>1, <3>2 DEF SenderInv, ThreadTracked, SingleSenderWhileOpen
  <2>2. CASE Capture(t) \/ FlushCall(t)
    <3>1. UNCHANGED <<closes, thread, overlap, run>>
      BY <2>2 DEF Capture, FlushCall
    <3>2. CloseScope'
      BY <1>0, <1>01, <2>2 DEF Capture, FlushCall, Begin, CloseScope
    <3>. QED  BY <3>1, <3>2, SameSenders DEF Alive
  <2>. QED  BY <1>1, <2>1, <2>2 DEF HostCall
<1>2. ASSUME NEW t \in HostThreads, HostStep(t)
      PROVE  SenderInv'
  <2>0. closes' = closes
    BY <1>2 DEF HostStep, Ensure, EnsureAlive, Spawn, Recheck, Start, Add, Signal, Peek, Wake,
                Check, Return, CloseStop, CloseRead, CloseJoined, CloseClear, SetWake
  <2>1. CloseScope'
    <3>1. CASE Ensure(t) \/ Start(t) \/ Add(t) \/ Wake(t)
      BY <1>0, <1>01, <2>0, <3>1 DEF Ensure, Start, Add, Wake, AfterEnsure, CloseScope
    <3>2. CASE Signal(t) \/ CloseClear(t)
      BY <1>0, <1>01, <2>0, <3>2 DEF Signal, CloseClear, CloseScope
    <3>3. CASE Check(t) \/ Peek(t)
      <4>1. CASE Return(t)
        BY <1>0, <1>01, <2>0, <4>1 DEF Return, CloseScope
      <4>2. CASE (Go(t, "wait") \/ Go(t, "ensure")) /\ UNCHANGED call
        BY <1>0, <1>01, <2>0, <4>2 DEF CloseScope
      <4>. QED  BY <3>3, <4>1, <4>2 DEF Check, Peek
    <3>4. CASE CloseStop(t) \/ CloseRead(t) \/ CloseJoined(t)
      BY <1>0, <1>01, <2>0, <3>4 DEF CloseStop, CloseRead, CloseJoined, CloseScope
    <3>5. CASE EnsureAlive(t) \/ Spawn(t) \/ Recheck(t)
      <4>1. CASE Leave(t)
        BY <1>0, <1>01, <2>0, <4>1 DEF Leave, CloseScope
      <4>2. CASE UNCHANGED call /\ \E w \in {"add", "wake", "spawn", "recheck"} : Go(t, w)
        BY <1>0, <1>01, <2>0, <4>2 DEF CloseScope
      <4>. QED  BY <3>1, <3>5, <4>1, <4>2 DEF EnsureAlive, Spawn, Recheck, AfterEnsure
    <3>. QED  BY <1>2, <3>1, <3>2, <3>3, <3>4, <3>5 DEF HostStep
  <2>2. CASE Start(t) /\ ~ThreadAlive
    <3>1. CASE closes = 0
      <4>1. \A s \in Senders : ~Alive(s)
        BY <2>2, <3>1, ClientAssumption DEF SenderInv, ThreadTracked, ThreadAlive
      <4>2. PICK s \in Senders : thread' = s /\ run' = [run EXCEPT ![s] = "top"]
        BY <2>2 DEF Start
      <4>3. \A r \in Senders : Alive(r)' => r = s
        BY <1>0, <4>1, <4>2 DEF Alive
      <4>4. ~overlap
        BY <3>1 DEF SenderInv, SingleSenderWhileOpen
      <4>5. ~overlap'
        BY <2>2, <4>1, <4>4 DEF Start
      <4>. QED  BY <2>1, <4>2, <4>3, <4>5 DEF SenderInv, ThreadTracked, SingleSenderWhileOpen
    <3>2. CASE closes # 0
      BY <2>0, <2>1, <3>2 DEF SenderInv, ThreadTracked, SingleSenderWhileOpen
    <3>. QED  BY <3>1, <3>2
  <2>5. CASE UNCHANGED <<thread, overlap, run>>
    BY <2>0, <2>1, <2>5, SameSenders DEF Alive
  <2>6. CASE (Spawn(t) \/ Recheck(t)) /\ ~UNCHANGED <<thread, overlap, run>>
    <3>1. Start(t) /\ ~ThreadAlive
      BY <2>6 DEF Spawn, Recheck, ThreadAlive
    <3>. QED  BY <2>2, <3>1
  <2>3. CASE CloseClear(t)
    <3>1. closes # 0
      BY <1>01, <2>3 DEF CloseClear, CloseScope
    <3>. QED  BY <2>0, <2>1, <3>1 DEF SenderInv, ThreadTracked, SingleSenderWhileOpen
  <2>4. CASE ~(Spawn(t) \/ Recheck(t) \/ CloseClear(t))
    <3>1. UNCHANGED <<thread, overlap>>
      BY <1>2, <2>4 DEF HostStep, Ensure, EnsureAlive, Add, Signal, Peek, Wake, Check, CloseStop,
                        CloseRead, CloseJoined
    <3>2. \A s \in Senders : Alive(s)' => Alive(s)
      <4>1. CASE Signal(t) \/ Wake(t)
        BY <1>0, <4>1 DEF Signal, Wake, SetWake, Alive
      <4>2. CASE CloseStop(t)
        BY <1>0, <4>2 DEF CloseStop, Interrupted, Alive
      <4>3. CASE ~(Signal(t) \/ Wake(t) \/ CloseStop(t))
        <5>1. UNCHANGED run
          BY <1>2, <2>4, <4>3 DEF HostStep, Ensure, EnsureAlive, Add, Peek, Check, CloseRead,
                                  CloseJoined
        <5>. QED  BY <5>1 DEF Alive
      <4>. QED  BY <4>1, <4>2, <4>3
    <3>. QED  BY <2>0, <2>1, <3>1, <3>2, SameSenders
  <2>. QED  BY <2>3, <2>4, <2>5, <2>6
<1>3. ASSUME NEW t \in HostThreads, HostTimeout(t)
      PROVE  SenderInv'
  <2>1. UNCHANGED <<closes, thread, overlap, run>>
    BY <1>3 DEF HostTimeout, FlushTimeout, CloseJoinTimeout
  <2>2. CloseScope'
    <3>1. CASE FlushTimeout(t)
      BY <1>0, <1>01, <2>1, <3>1 DEF FlushTimeout, Return, CloseScope
    <3>2. CASE CloseJoinTimeout(t)
      BY <1>0, <1>01, <2>1, <3>2 DEF CloseJoinTimeout, CloseScope
    <3>. QED  BY <1>3, <3>1, <3>2 DEF HostTimeout
  <2>. QED  BY <2>1, <2>2, SameSenders DEF Alive
<1>4. ASSUME NEW t \in HostThreads, Fork(t)
      PROVE  SenderInv'
  <2>1. UNCHANGED <<closes, overlap>> /\ \A s \in Senders : ~Alive(s)'
    BY <1>4 DEF Fork, Alive
  <2>2. CloseScope'
    BY <1>4 DEF Fork, CloseScope
  <2>. QED  BY <2>1, <2>2 DEF SenderInv, ThreadTracked, SingleSenderWhileOpen
<1>5. ASSUME NEW s \in Senders, SenderStep(s) \/ SenderTimer(s)
      PROVE  SenderInv'
  <2>1. UNCHANGED <<closes, thread, overlap, call>>
    BY <1>5 DEF SenderStep, SenderTimer, Top, Woken, Take, Announce, Mark, SendOk, SendRejected,
                SendRetryable, SendRaises, GiveBack, Unmark, Tick, Retry
  <2>2. CloseScope'
    <3>1. CASE Announce(s) \/ Unmark(s)
      BY <1>0, <1>01, <2>1, <3>1 DEF Announce, Unmark, NotifyAll, CloseScope
    <3>2. CASE ~(Announce(s) \/ Unmark(s))
      <4>1. UNCHANGED pc
        BY <1>5, <3>2 DEF SenderStep, SenderTimer, Top, Woken, Take, Mark, SendOk, SendRejected,
                          SendRetryable, SendRaises, GiveBack, Tick, Retry
      <4>. QED  BY <1>01, <2>1, <4>1 DEF CloseScope
    <3>. QED  BY <3>1, <3>2
  <2>3. run[s] # "dead" /\ \A r \in Senders \ {s} : run'[r] = run[r]
    <3>1. run[s] # "dead"
      BY <1>5 DEF SenderStep, SenderTimer, Top, Woken, Take, Announce, Mark, SendOk, SendRejected,
                  SendRetryable, SendRaises, GiveBack, Unmark, Tick, Retry
    <3>2. \E where : run' = [run EXCEPT ![s] = where]
      BY <1>5 DEF SenderStep, SenderTimer, Top, Woken, Take, Announce, Mark, SendOk, SendRejected,
                  SendRetryable, SendRaises, GiveBack, Unmark, Tick, Retry
    <3>. QED  BY <1>0, <3>1, <3>2
  <2>. QED  BY <2>1, <2>2, <2>3, SameSenders DEF Alive
<1>6. CASE ApiFails \/ ApiRecovers \/ UNCHANGED vars
  <2>1. UNCHANGED <<closes, thread, overlap, run, pc, call>>
    BY <1>6 DEF ApiFails, ApiRecovers, vars
  <2>2. CloseScope'
    BY <1>01, <2>1 DEF CloseScope
  <2>. QED  BY <2>1, <2>2, SameSenders DEF Alive
<1>. QED  BY <1>1, <1>2, <1>3, <1>4, <1>5, <1>6 DEF Next

\* Before the first close() no sender is ever started beside a live one, for
\* any number of threads racing through _ensure_thread().
THEOREM OneSenderWhileOpen == Spec => []SingleSenderWhileOpen
<1>1. Init => SenderInv
  BY DEF Init, SenderInv, CloseScope, ThreadTracked, SingleSenderWhileOpen, Alive
<1>2. SenderInv => SingleSenderWhileOpen
  BY DEF SenderInv
<1>. QED  BY <1>1, <1>2, TypeInit, TypeStep, SenderInvStep, PTL DEF Spec

-----------------------------------------------------------------------------
(* What moves events, and what starts senders.                             *)

Still == UNCHANGED <<buffer, batch, captured, sent, rejected, dropped, foreign>>

\* Every step that moves an event is an operation of the buffer, an answer of
\* the API or a fork.
LEMMA Movers ==
    ASSUME [Next]_vars
    PROVE  \/ Still
           \/ \E t \in HostThreads : Add(t) \/ Fork(t)
           \/ \E s \in Senders : Take(s) \/ SendOk(s) \/ SendRejected(s) \/ GiveBack(s)
<1> USE DEF Go, Step, bufferVars, clientVars, hostVars, senderVars, ledger, envVars, Still
<1>1. ASSUME NEW t \in HostThreads, HostCall(t)
      PROVE  Still
  BY <1>1 DEF HostCall, Capture, FlushCall, CloseCall
<1>2. ASSUME NEW t \in HostThreads, HostStep(t), ~Add(t)
      PROVE  Still
  BY <1>2 DEF HostStep, Ensure, EnsureAlive, Spawn, Recheck, Start, Signal, Peek, Wake,
              Check, CloseStop, CloseRead, CloseJoined, CloseClear, SetWake
<1>3. ASSUME NEW t \in HostThreads, HostTimeout(t)
      PROVE  Still
  BY <1>3 DEF HostTimeout, FlushTimeout, CloseJoinTimeout
<1>4. ASSUME NEW s \in Senders, SenderStep(s) \/ SenderTimer(s),
             ~(Take(s) \/ SendOk(s) \/ SendRejected(s) \/ GiveBack(s))
      PROVE  Still
  BY <1>4 DEF SenderStep, SenderTimer, Top, Woken, Announce, Mark, SendRetryable, SendRaises,
              Unmark, Tick, Retry
<1>5. CASE ApiFails \/ ApiRecovers \/ UNCHANGED vars
  BY <1>5 DEF ApiFails, ApiRecovers, vars
<1> HIDE DEF Still
<1>. QED  BY <1>1, <1>2, <1>3, <1>4, <1>5 DEF Next

\* Only the end of _ensure_thread() makes a sender alive.
LEMMA OnlyStartStarts ==
    ASSUME TypeIInv, [Next]_vars
    PROVE  \/ \E t \in HostThreads : Start(t)
           \/ overlap' = overlap /\ \A s \in Senders : Alive(s)' => Alive(s)
<1>0. run \in [Senders -> SenderPc]
  BY DEF TypeIInv, TypeOK, SenderType
<1> USE DEF Go, Step, bufferVars, clientVars, hostVars, senderVars, ledger, envVars
<1>1. ASSUME NEW t \in HostThreads, HostCall(t) \/ HostTimeout(t)
      PROVE  UNCHANGED <<overlap, run>>
  BY <1>1 DEF HostCall, Capture, FlushCall, CloseCall, HostTimeout, FlushTimeout,
              CloseJoinTimeout
<1>2. ASSUME NEW t \in HostThreads, HostStep(t), ~Start(t)
      PROVE  overlap' = overlap /\ \A s \in Senders : Alive(s)' => Alive(s)
  <2>1. overlap' = overlap
    BY <1>2 DEF HostStep, Ensure, EnsureAlive, Spawn, Recheck, Add, Signal, Peek, Wake,
                Check, CloseStop, CloseRead, CloseJoined, CloseClear, SetWake
  <2>2. CASE Signal(t) \/ Wake(t)
    BY <1>0, <2>1, <2>2 DEF Signal, Wake, SetWake, Alive
  <2>3. CASE CloseStop(t)
    BY <1>0, <2>1, <2>3 DEF CloseStop, Interrupted, Alive
  <2>4. CASE ~(Signal(t) \/ Wake(t) \/ CloseStop(t))
    <3>1. UNCHANGED run
      BY <1>2, <2>4 DEF HostStep, Ensure, EnsureAlive, Spawn, Recheck, Add, Peek, Check,
                        CloseRead, CloseJoined, CloseClear
    <3>. QED  BY <2>1, <3>1 DEF Alive
  <2>. QED  BY <2>2, <2>3, <2>4
<1>3. ASSUME NEW t \in HostThreads, Fork(t)
      PROVE  overlap' = overlap /\ \A s \in Senders : Alive(s)' => Alive(s)
  BY <1>3 DEF Fork, Alive
<1>4. ASSUME NEW s \in Senders, SenderStep(s) \/ SenderTimer(s)
      PROVE  overlap' = overlap /\ \A r \in Senders : Alive(r)' => Alive(r)
  <2>1. overlap' = overlap
    BY <1>4 DEF SenderStep, SenderTimer, Top, Woken, Take, Announce, Mark, SendOk, SendRejected,
                SendRetryable, SendRaises, GiveBack, Unmark, Tick, Retry
  <2>2. run[s] # "dead" /\ \E where : run' = [run EXCEPT ![s] = where]
    BY <1>4 DEF SenderStep, SenderTimer, Top, Woken, Take, Announce, Mark, SendOk, SendRejected,
                SendRetryable, SendRaises, GiveBack, Unmark, Tick, Retry
  <2>. QED  BY <1>0, <2>1, <2>2 DEF Alive
<1>5. CASE ApiFails \/ ApiRecovers \/ UNCHANGED vars
  BY <1>5 DEF ApiFails, ApiRecovers, vars, Alive
<1>6. ASSUME UNCHANGED <<overlap, run>>
      PROVE  overlap' = overlap /\ \A s \in Senders : Alive(s)' => Alive(s)
  BY <1>6 DEF Alive
<1>. QED  BY <1>1, <1>2, <1>3, <1>4, <1>5, <1>6 DEF Next

-----------------------------------------------------------------------------
(* Order.                                                                  *)

Sorted(q) == \A i, j \in DOMAIN q : i < j => q[i] < q[j]
Below(A, B) == \A e \in A, f \in B : e < f

\* A joined list is sorted when its parts are and the first is below the second.
LEMMA SortedConcat ==
    ASSUME NEW s \in Seq(Nat), NEW t \in Seq(Nat)
    PROVE  Sorted(s \o t) <=> Sorted(s) /\ Sorted(t) /\ Below(Range(s), Range(t))
<1> DEFINE j == s \o t
           n == Len(s)
<1>1. /\ j \in Seq(Nat)
      /\ Len(j) = n + Len(t)
      /\ \A i \in 1 .. n + Len(t) : j[i] = IF i <= n THEN s[i] ELSE t[i - n]
  BY ConcatProperties
<1>2. /\ DOMAIN j = 1 .. n + Len(t)
      /\ DOMAIN s = 1 .. n
      /\ DOMAIN t = 1 .. Len(t)
      /\ n \in Nat /\ Len(t) \in Nat
  BY <1>1
<1>3. \A i \in DOMAIN s : i \in DOMAIN j /\ j[i] = s[i]
  BY <1>1, <1>2
<1>4. \A i \in DOMAIN t : i + n \in DOMAIN j /\ j[i + n] = t[i]
  <2> TAKE i \in DOMAIN t
  <2>1. i + n \in 1 .. n + Len(t) /\ i + n > n /\ (i + n) - n = i
    BY <1>2
  <2> HIDE DEF j, n
  <2>. QED  BY <1>1, <1>2, <2>1
<1>5. \A i \in DOMAIN j : \/ i <= n /\ i \in DOMAIN s /\ j[i] = s[i]
                          \/ i > n /\ i - n \in DOMAIN t /\ j[i] = t[i - n]
  <2> TAKE i \in DOMAIN j
  <2>1. CASE i <= n
    BY <1>1, <1>2, <2>1
  <2>2. CASE i > n
    <3>1. i - n \in 1 .. Len(t)
      BY <1>2, <2>2
    <3> HIDE DEF j, n
    <3>. QED  BY <3>1, <1>1, <1>2, <2>2
  <2>. QED  BY <1>2, <2>1, <2>2
<1> HIDE DEF j, n
<1>6. ASSUME Sorted(j)
      PROVE  Sorted(s) /\ Sorted(t) /\ Below(Range(s), Range(t))
  <2>1. Sorted(s)
    BY <1>3, <1>6 DEF Sorted
  <2>2. Sorted(t)
    <3> SUFFICES ASSUME NEW i \in DOMAIN t, NEW k \in DOMAIN t, i < k
                 PROVE  t[i] < t[k]
      BY DEF Sorted
    <3>1. i + n < k + n
      BY <1>2
    <3>. QED  BY <3>1, <1>4, <1>6 DEF Sorted
  <2>3. ASSUME NEW i \in DOMAIN s, NEW k \in DOMAIN t
        PROVE  s[i] < t[k]
    <3>1. i < k + n
      BY <1>2
    <3>. QED  BY <3>1, <1>3, <1>4, <1>6 DEF Sorted
  <2>4. Below(Range(s), Range(t))
    BY <2>3 DEF Below, Range
  <2>. QED  BY <2>1, <2>2, <2>4
<1>7. ASSUME Sorted(s), Sorted(t), Below(Range(s), Range(t))
      PROVE  Sorted(j)
  <2> SUFFICES ASSUME NEW i \in DOMAIN j, NEW k \in DOMAIN j, i < k
               PROVE  j[i] < j[k]
    BY DEF Sorted
  <2>1. i \in Nat /\ k \in Nat
    BY <1>2
  <2>2. CASE k <= n
    <3>1. i \in DOMAIN s /\ k \in DOMAIN s /\ j[i] = s[i] /\ j[k] = s[k]
      BY <1>2, <1>5, <2>1, <2>2
    <3>. QED  BY <3>1, <1>7 DEF Sorted
  <2>3. CASE i > n
    <3>1. i - n \in DOMAIN t /\ k - n \in DOMAIN t /\ j[i] = t[i - n] /\ j[k] = t[k - n]
      BY <1>2, <1>5, <2>1, <2>3
    <3>2. i - n < k - n
      BY <1>2, <2>1
    <3>. QED  BY <3>1, <3>2, <1>7 DEF Sorted
  <2>4. CASE i <= n /\ k > n
    <3>1. j[i] \in Range(s) /\ j[k] \in Range(t)
      BY <1>2, <1>5, <2>1, <2>4 DEF Range
    <3>. QED  BY <3>1, <1>7 DEF Below
  <2>. QED  BY <1>2, <2>1, <2>2, <2>3, <2>4
<1>. QED  BY <1>6, <1>7 DEF j

\* As long as no sender started beside a live one, one is alive at most.
OneAlive == ~overlap => \A r, s \in Senders : Alive(r) /\ Alive(s) => r = s

OrderInv == OneAlive /\ Ordered

InOrder ==
    /\ Sorted(buffer)
    /\ \A s \in Senders : Sorted(batch[s]) /\ Below(Range(batch[s]), Range(buffer))
    /\ Below(sent \cup rejected, Pending)

\* Ordered, in terms of whole lists.
LEMMA OrderedMeans == Ordered <=> (~overlap => InOrder)
<1>1. \A s \in Senders :
        Below(Range(batch[s]), Range(buffer)) <=>
            \A i \in DOMAIN batch[s] : \A e \in Range(buffer) : batch[s][i] < e
  BY DEF Below, Range
<1>. QED  BY <1>1 DEF Ordered, InOrder, Sorted, Below

\* With one sender alive, what is out of the buffer is its batch.
LEMMA OnlyBatch ==
    ASSUME NEW s \in Senders, Alive(s), ~overlap, OneAlive, LedgerInv
    PROVE  /\ \A r \in Senders \ {s} : batch[r] = <<>>
           /\ Others(s) = {}
           /\ Pending = Range(buffer) \cup Range(batch[s])
<1>1. \A r \in Senders \ {s} : run[r] = "dead"
  BY DEF OneAlive, Alive
<1>2. \A r \in Senders \ {s} : batch[r] = <<>>
  BY <1>1 DEF LedgerInv, BatchScope
<1>3. Range(<<>>) = {}
  BY DEF Range
<1>4. Others(s) = {}
  BY <1>2, <1>3 DEF Others
<1>5. Pending = Range(buffer) \cup Range(batch[s]) \cup Others(s)
  BY PendingFrom DEF LedgerInv, Accounted
<1>. QED  BY <1>2, <1>4, <1>5

LEMMA OneAliveStep == TypeIInv /\ OneAlive /\ [Next]_vars => OneAlive'
<1> SUFFICES ASSUME TypeIInv, OneAlive, [Next]_vars  PROVE OneAlive'
  OBVIOUS
<1>0. run \in [Senders -> SenderPc]
  BY DEF TypeIInv, TypeOK, SenderType
<1>1. ASSUME NEW t \in HostThreads, Start(t)
      PROVE  OneAlive'
  <2>1. PICK s \in Senders : run' = [run EXCEPT ![s] = "top"]
    BY <1>1 DEF Start
  <2>2. ~overlap' => \A r \in Senders : ~Alive(r)
    BY <1>1 DEF Start
  <2>3. ~overlap' => \A r \in Senders : Alive(r)' => r = s
    BY <1>0, <2>1, <2>2 DEF Alive
  <2>. QED  BY <2>3 DEF OneAlive
<1>2. CASE overlap' = overlap /\ \A s \in Senders : Alive(s)' => Alive(s)
  BY <1>2 DEF OneAlive
<1>. QED  BY <1>1, <1>2, OnlyStartStarts

\* Nothing captured is above the count of what was captured.
LEMMA NothingAbove ==
    ASSUME TypeIInv, Complete
    PROVE  /\ captured \in Nat
           /\ \A e \in Pending \cup sent \cup rejected \cup dropped \cup foreign :
                 e \in Nat /\ e < captured + 1
<1>1. captured \in Nat
  BY DEF TypeIInv, TypeOK, LedgerType
<1>2. \A e \in 1 .. captured : e \in Nat /\ e < captured + 1
  BY <1>1
<1>. QED  BY <1>1, <1>2 DEF Complete

\* capture(): the new event is the newest.
LEMMA AddInOrder ==
    ASSUME NEW t \in HostThreads, TypeIInv, LedgerInv, InOrder, Add(t)
    PROVE  InOrder'
<1> DEFINE e == captured + 1
<1>1. /\ e \in Nat
      /\ \A f \in Pending \cup sent \cup rejected : f < e
      /\ buffer \in Seq(Nat)
  BY NothingAbove DEF LedgerInv, Accounted, TypeIInv, TypeOK, BufferType
<1>2. UNCHANGED <<batch, sent, rejected, InFlight>>
  BY DEF Add, senderVars, InFlight
<1>3. CASE buffer' = buffer
  <2>1. Pending' = Pending
    BY <1>2, <1>3 DEF Pending
  <2>. QED  BY <1>2, <1>3, <2>1 DEF InOrder
<1>4. CASE buffer' = Append(buffer, e)
  <2> HIDE DEF e
  <2>1. <<e>> \in Seq(Nat) /\ buffer' = buffer \o <<e>>
    BY <1>1, <1>4, AppendIsConcat
  <2>2. Range(<<e>>) = {e} /\ Sorted(<<e>>)
    BY <1>1 DEF Range, Sorted
  <2>3. Range(buffer') = Range(buffer) \cup {e}
    BY <1>1, <2>1, <2>2, RangeConcat
  <2>4. Below(Range(buffer), {e})
    BY <1>1 DEF Below, Pending
  <2>5. Sorted(buffer')
    BY <1>1, <2>1, <2>2, <2>4, SortedConcat DEF InOrder
  <2>6. Pending' = Pending \cup {e}
    BY <1>2, <2>3 DEF Pending
  <2>7. \A s \in Senders : \A f \in Range(batch[s]) : f < e
    BY <1>1 DEF Pending, InFlight
  <2>8. \A s \in Senders : Below(Range(batch[s]), Range(buffer'))
    BY <2>3, <2>7 DEF InOrder, Below
  <2>9. Below(sent \cup rejected, Pending')
    BY <1>1, <2>6 DEF InOrder, Below
  <2>. QED  BY <1>2, <2>5, <2>8, <2>9 DEF InOrder
<1>. QED  BY <1>3, <1>4 DEF Add

\* Sender s, the only one with a batch, exchanges it for the list q.
LEMMA OnlyBatchChanges ==
    ASSUME NEW s \in Senders, NEW q, SenderType,
           \A r \in Senders \ {s} : batch[r] = <<>>,
           batch' = [batch EXCEPT ![s] = q],
           Sorted(q), Sorted(buffer'), Below(Range(q), Range(buffer')),
           Below(sent' \cup rejected', Range(buffer') \cup Range(q))
    PROVE  InOrder'
<1>1. batch'[s] = q /\ \A r \in Senders \ {s} : batch'[r] = <<>>
  BY DEF SenderType
<1>2. Range(<<>>) = {} /\ Sorted(<<>>)
  BY DEF Range, Sorted
<1>3. \A r \in Senders : Sorted(batch'[r]) /\ Below(Range(batch'[r]), Range(buffer'))
  BY <1>1, <1>2 DEF Below
<1>4. InFlight' = Range(q)
  BY <1>1, <1>2 DEF InFlight
<1>. QED  BY <1>3, <1>4 DEF InOrder, Pending

\* take(): the oldest leave the buffer.
LEMMA TakeInOrder ==
    ASSUME NEW s \in Senders, TypeIInv, LedgerInv, OneAlive, ~overlap, InOrder, Take(s)
    PROVE  InOrder'
<1> DEFINE q == Taken(buffer, BatchSize)
<1>1. /\ batch' = [batch EXCEPT ![s] = q]
      /\ buffer' = Remaining(buffer, BatchSize)
      /\ UNCHANGED <<sent, rejected>>
  BY DEF Take, ledger
<1>2. /\ q \in Seq(Nat) /\ buffer' \in Seq(Nat)
      /\ q \o buffer' = buffer
      /\ SenderType
  BY <1>1, TakeSplits, ClientAssumption DEF TypeIInv, TypeOK, BufferType
<1>3. batch[s] = <<>> /\ Alive(s)
  BY DEF LedgerInv, BatchScope, Take, Alive
<1>4. \A r \in Senders \ {s} : batch[r] = <<>>
  BY <1>3, OnlyBatch
<1> HIDE DEF q
<1>5. Sorted(q) /\ Sorted(buffer') /\ Below(Range(q), Range(buffer'))
  BY <1>2, SortedConcat DEF InOrder
<1>6. Range(buffer) = Range(q) \cup Range(buffer')
  BY <1>2, RangeConcat
<1>7. Below(sent' \cup rejected', Range(buffer') \cup Range(q))
  BY <1>1, <1>6 DEF InOrder, Below, Pending
<1>. QED  BY <1>1, <1>2, <1>4, <1>5, <1>7, OnlyBatchChanges

\* An answer: what leaves is older than all that waits.
LEMMA AnsweredInOrder ==
    ASSUME NEW s \in Senders, TypeIInv, LedgerInv, OneAlive, ~overlap, InOrder,
           SendOk(s) \/ SendRejected(s)
    PROVE  InOrder'
<1>1. /\ batch' = [batch EXCEPT ![s] = <<>>]
      /\ buffer' = buffer
      /\ sent' \cup rejected' = sent \cup rejected \cup Range(batch[s])
      /\ Alive(s)
  BY DEF SendOk, SendRejected, bufferVars, Alive
<1>2. SenderType
  BY DEF TypeIInv, TypeOK
<1>3. \A r \in Senders \ {s} : batch[r] = <<>>
  BY <1>1, OnlyBatch
<1>4. Range(<<>>) = {} /\ Sorted(<<>>) /\ Below({}, Range(buffer))
  BY DEF Range, Sorted, Below
<1>5. Below(sent' \cup rejected', Range(buffer))
  BY <1>1 DEF InOrder, Below, Pending
<1>. QED  BY <1>1, <1>2, <1>3, <1>4, <1>5, OnlyBatchChanges DEF InOrder

\* put_back(): the batch is in front again, and what overflows is newer than
\* all that stays.
LEMMA GiveBackInOrder ==
    ASSUME NEW s \in Senders, TypeIInv, LedgerInv, OneAlive, ~overlap, InOrder, GiveBack(s)
    PROVE  InOrder' /\ Below(Range(buffer'), Range(Overflow(batch[s], buffer)))
<1> DEFINE o == Overflow(batch[s], buffer)
<1>1. /\ batch' = [batch EXCEPT ![s] = <<>>]
      /\ buffer' = PutBack(batch[s], buffer)
      /\ UNCHANGED <<sent, rejected>>
      /\ Alive(s)
  BY DEF GiveBack, ledger, Alive
<1>2. buffer \in Seq(Nat) /\ SenderType
  BY DEF TypeIInv, TypeOK, BufferType
<1>3. batch[s] \in Seq(Nat)
  BY <1>2 DEF SenderType
<1>4. /\ buffer' \in Seq(Nat) /\ o \in Seq(Nat)
      /\ buffer' \o o = batch[s] \o buffer
  BY <1>1, <1>2, <1>3, PutBackSplits
<1> HIDE DEF o
<1>5. \A r \in Senders \ {s} : batch[r] = <<>>
  BY <1>1, OnlyBatch
<1>6. Sorted(batch[s] \o buffer)
  BY <1>2, <1>3, SortedConcat DEF InOrder
<1>7. Sorted(buffer') /\ Below(Range(buffer'), Range(o))
  BY <1>4, <1>6, SortedConcat
<1>8. Range(buffer') \subseteq Range(batch[s]) \cup Range(buffer)
  <2>1. Range(buffer' \o o) = Range(buffer') \cup Range(o)
    BY <1>4, RangeConcat
  <2>2. Range(batch[s] \o buffer) = Range(batch[s]) \cup Range(buffer)
    BY <1>2, <1>3, RangeConcat
  <2>. QED  BY <1>4, <2>1, <2>2
<1>9. Range(<<>>) = {} /\ Sorted(<<>>) /\ Below({}, Range(buffer'))
  BY DEF Range, Sorted, Below
<1>10. Below(sent' \cup rejected', Range(buffer') \cup Range(<<>>))
  BY <1>1, <1>8, <1>9 DEF InOrder, Below, Pending, InFlight
<1>11. InOrder'
  BY <1>1, <1>2, <1>5, <1>7, <1>9, <1>10, OnlyBatchChanges
<1>. QED  BY <1>7, <1>11 DEF o

LEMMA ForkInOrder ==
    ASSUME NEW t \in HostThreads, Fork(t)
    PROVE  InOrder'
<1>1. buffer' = <<>> /\ \A s \in Senders : batch'[s] = <<>>
  BY DEF Fork
<1>2. Range(<<>>) = {} /\ Sorted(<<>>)
  BY DEF Range, Sorted
<1>3. Pending' = {}
  BY <1>1, <1>2 DEF Pending, InFlight
<1>. QED  BY <1>1, <1>2, <1>3 DEF InOrder, Below

LEMMA OrderStep == TypeIInv /\ LedgerInv /\ OrderInv /\ [Next]_vars => OrderInv'
<1>1. Ordered' <=> (~overlap' => InOrder')
  BY OrderedMeans, PTL
<1> SUFFICES ASSUME TypeIInv, LedgerInv, OrderInv, [Next]_vars
             PROVE  OrderInv'
  OBVIOUS
<1>2. OneAlive'
  BY OneAliveStep DEF OrderInv
<1>3. ASSUME ~overlap'
      PROVE  ~overlap
  BY <1>3, OnlyStartStarts DEF Start
<1>4. ASSUME ~overlap'
      PROVE  InOrder'
  <2>1. OneAlive /\ InOrder /\ ~overlap
    BY <1>3, <1>4, OrderedMeans DEF OrderInv
  <2>2. CASE Still
    BY <2>1, <2>2 DEF Still, InOrder, Pending, InFlight
  <2>3. ASSUME NEW t \in HostThreads, Add(t) \/ Fork(t)
        PROVE  InOrder'
    BY <2>1, <2>3, AddInOrder, ForkInOrder
  <2>4. ASSUME NEW s \in Senders, Take(s) \/ SendOk(s) \/ SendRejected(s) \/ GiveBack(s)
        PROVE  InOrder'
    BY <2>1, <2>4, TakeInOrder, AnsweredInOrder, GiveBackInOrder
  <2>. QED  BY <2>2, <2>3, <2>4, Movers
<1>. QED  BY <1>1, <1>2, <1>4 DEF OrderInv

\* What put_back() drops, it drops from a buffer it leaves full.
LEMMA OverflowMeansFull ==
    ASSUME NEW b \in Seq(Nat), NEW s \in Seq(Nat), NEW e \in Range(Overflow(b, s))
    PROVE  Len(PutBack(b, s)) = Capacity
<1> DEFINE j == b \o s
           n == NKept(b, s)
<1>1. j \in Seq(Nat) /\ Len(j) = Len(b) + Len(s)
  BY ConcatProperties
<1>2. CASE n = Capacity
  <2>1. Capacity <= Len(j) /\ 1 <= Capacity
    BY <1>1, <1>2, CapacityAssumption DEF NKept
  <2>2. \A i \in 1 .. Capacity : j[i] \in Nat
    BY <1>1, <2>1, CapacityAssumption
  <2>3. Len(SubSeq(j, 1, Capacity)) = Capacity
    BY <1>1, <2>1, <2>2, CapacityAssumption, SubSeqProperties
  <2>. QED  BY <1>2, <2>3 DEF PutBack, Joined
<1>3. CASE n # Capacity
  <2>1. n = Len(j)
    BY <1>1, <1>3 DEF NKept
  <2>2. Overflow(b, s) = SubSeq(j, Len(j) + 1, Len(j))
    BY <1>1, <2>1 DEF Overflow, Joined
  <2>3. Len(j) \in Nat
    BY <1>1
  <2>4. SubSeq(j, Len(j) + 1, Len(j)) = <<>>
    BY <2>3, <1>1, SubSeqEmpty
  <2>. QED  BY <2>2, <2>4 DEF Range
<1>. QED  BY <1>2, <1>3

\* What a step drops is the newest, from a buffer that stays full.
LEMMA KeepsOldestStep == TypeIInv /\ LedgerInv /\ OrderInv /\ [Next]_vars => KeepsOldest
<1> SUFFICES ASSUME TypeIInv, LedgerInv, OrderInv, [Next]_vars,
                    NEW e \in dropped', e \notin dropped
             PROVE  /\ Len(buffer') = Capacity
                    /\ ~overlap => \A f \in Range(buffer') : f < e
  BY DEF KeepsOldest
<1>0. buffer \in Seq(Nat) /\ Len(buffer) \in Nat /\ Len(buffer) <= Capacity
  BY DEF TypeIInv, TypeOK, BufferType
<1>1. ASSUME NEW t \in HostThreads, Add(t)
      PROVE  /\ Len(buffer') = Capacity
             /\ ~overlap => \A f \in Range(buffer') : f < e
  <2>1. IsFull(buffer) /\ buffer' = buffer /\ e = captured + 1
    BY <1>1 DEF Add
  <2>2. \A f \in Range(buffer) : f < e
    BY <2>1, NothingAbove DEF Pending, LedgerInv, Accounted
  <2>. QED  BY <1>0, <2>1, <2>2, CapacityAssumption DEF IsFull
<1>2. ASSUME NEW s \in Senders, GiveBack(s)
      PROVE  /\ Len(buffer') = Capacity
             /\ ~overlap => \A f \in Range(buffer') : f < e
  <2>1. e \in Range(Overflow(batch[s], buffer)) /\ buffer' = PutBack(batch[s], buffer)
    BY <1>2 DEF GiveBack
  <2>2. batch[s] \in Seq(Nat)
    BY DEF TypeIInv, TypeOK, SenderType
  <2>3. Len(buffer') = Capacity
    BY <1>0, <2>1, <2>2, OverflowMeansFull
  <2>4. ASSUME ~overlap
        PROVE  \A f \in Range(buffer') : f < e
    <3>1. OneAlive /\ InOrder
      BY <2>4, OrderedMeans DEF OrderInv
    <3>2. Below(Range(buffer'), Range(Overflow(batch[s], buffer)))
      BY <1>2, <2>4, <3>1, GiveBackInOrder
    <3>. QED  BY <2>1, <3>2 DEF Below
  <2>. QED  BY <2>3, <2>4
<1>3. ASSUME NEW t \in HostThreads, Fork(t)  PROVE FALSE
  BY <1>3 DEF Fork
<1>4. ASSUME NEW s \in Senders, Take(s) \/ SendOk(s) \/ SendRejected(s)  PROVE FALSE
  BY <1>4 DEF Take, SendOk, SendRejected, bufferVars
<1>. QED  BY <1>1, <1>2, <1>3, <1>4, Movers DEF Still

\* For any number of threads, calls, failures, retries and forks: as long as no
\* sender was started beside a live one, events leave in the order they were
\* captured, and only the newest are dropped, from a buffer that stays full
\* (_client.py: _send_with_retry, put_back; _buffer.py: add, take, put_back).
THEOREM AlwaysKeptInOrder == Spec => KeptInOrder
<1>1. Init => TypeIInv /\ LedgerInv /\ OrderInv
  <2> SUFFICES ASSUME Init  PROVE TypeIInv /\ LedgerInv /\ OrderInv
    OBVIOUS
  <2>1. OneAlive
    BY DEF Init, OneAlive, Alive
  <2>2. Range(<<>>) = {} /\ Sorted(<<>>)
    BY DEF Range, Sorted
  <2>3. Pending = {}
    BY <2>2 DEF Init, Pending, InFlight
  <2>4. InOrder
    BY <2>2, <2>3 DEF Init, InOrder, Below
  <2>. QED  BY <2>1, <2>4, TypeInit, LedgerInit, OrderedMeans DEF OrderInv
<1>2. TypeIInv /\ LedgerInv /\ OrderInv /\ [Next]_vars =>
         [Ordered' /\ KeepsOldest]_vars
  BY OrderStep, KeepsOldestStep DEF OrderInv
<1>. QED  BY <1>1, <1>2, TypeStep, LedgerStep, OrderStep, PTL DEF Spec, KeptInOrder

-----------------------------------------------------------------------------
(* The client implements the abstract pipe.                                *)

\* A list that names no event twice names as many as it is long.
LEMMA RangeSize ==
    ASSUME NEW s \in Seq(Nat)
    PROVE  /\ IsFiniteSet(Range(s)) /\ Cardinality(Range(s)) \in Nat
           /\ Cardinality(Range(s)) <= Len(s)
           /\ NoDuplicates(s) => Cardinality(Range(s)) = Len(s)
<1>1. DOMAIN s = 1 .. Len(s) /\ Len(s) \in Nat
  OBVIOUS
<1>2. IsFiniteSet(1 .. Len(s)) /\ Cardinality(1 .. Len(s)) = Len(s)
  BY <1>1, FS_Interval
<1>3. s \in Surjection(1 .. Len(s), Range(s))
  BY <1>1 DEF Surjection, Range
<1>4. NoDuplicates(s) => s \in Injection(1 .. Len(s), Range(s))
  BY <1>1 DEF NoDuplicates, Injection, IsInjective, Range
<1>. QED  BY <1>2, <1>3, <1>4, FS_Surjection, FS_CardinalityType

\* The memory the client uses for events is bounded.
LEMMA PendingBounded ==
    ASSUME TypeIInv
    PROVE  /\ IsFiniteSet(Pending)
           /\ Cardinality(Pending) <= Len(buffer) + BatchSize * Cardinality(Senders)
<1>1. /\ buffer \in Seq(Nat) /\ Len(buffer) \in Nat
      /\ \A s \in Senders : batch[s] \in Seq(Nat) /\ Len(batch[s]) <= BatchSize
      /\ IsFiniteSet(Senders) /\ BatchSize \in Nat
  BY ClientAssumption DEF TypeIInv, TypeOK, BufferType, SenderType
<1> DEFINE Places == Senders \X (1 .. BatchSize)
           Used == {p \in Places : p[2] \in DOMAIN batch[p[1]]}
           At(p) == batch[p[1]][p[2]]
<1>2. /\ IsFiniteSet(Places)
      /\ Cardinality(Places) = Cardinality(Senders) * BatchSize
  <2>1. IsFiniteSet(1 .. BatchSize) /\ Cardinality(1 .. BatchSize) = BatchSize
    BY <1>1, ClientAssumption, FS_Interval
  <2>. QED  BY <1>1, <2>1, FS_Product
<1>3. IsFiniteSet(Used) /\ Cardinality(Used) <= Cardinality(Places)
  <2> HIDE DEF Places
  <2>. QED  BY <1>2, FS_Subset
<1>4. \A e \in InFlight : \E p \in Used : At(p) = e
  <2> SUFFICES ASSUME NEW s \in Senders, NEW e \in Range(batch[s])
               PROVE  \E p \in Used : At(p) = e
    BY DEF InFlight
  <2>1. PICK i \in DOMAIN batch[s] : batch[s][i] = e
    BY DEF Range
  <2>2. i \in 1 .. BatchSize
    BY <1>1, <2>1
  <2>3. <<s, i>> \in Used /\ At(<<s, i>>) = e
    BY <2>1, <2>2
  <2>. QED  BY <2>3
<1>5. \A p \in Used : At(p) \in InFlight
  BY DEF InFlight, Range
<1> DEFINE f == [p \in Used |-> At(p)]
<1>6. f \in Surjection(Used, InFlight)
  <2> HIDE DEF Used, At
  <2>. QED  BY <1>4, <1>5 DEF Surjection
<1>7. IsFiniteSet(InFlight) /\ Cardinality(InFlight) <= Cardinality(Used)
  <2> HIDE DEF Used, f
  <2>. QED  BY <1>3, <1>6, FS_Surjection
<1>8. /\ IsFiniteSet(Range(buffer)) /\ Cardinality(Range(buffer)) <= Len(buffer)
      /\ Cardinality(Range(buffer)) \in Nat
  BY <1>1, RangeSize
<1>9. /\ IsFiniteSet(Pending)
      /\ Cardinality(Pending) <= Cardinality(Range(buffer)) + Cardinality(InFlight)
  <2>1. /\ IsFiniteSet(Range(buffer) \cup InFlight)
        /\ Cardinality(Range(buffer) \cup InFlight) =
              Cardinality(Range(buffer)) + Cardinality(InFlight)
                - Cardinality(Range(buffer) \cap InFlight)
    BY <1>7, <1>8, FS_Union
  <2>2. IsFiniteSet(Range(buffer) \cap InFlight)
    BY <1>8, FS_Subset
  <2>3. /\ Cardinality(Range(buffer) \cap InFlight) \in Nat
        /\ Cardinality(InFlight) \in Nat
    BY <1>7, <2>2, FS_CardinalityType
  <2>. QED  BY <1>8, <2>1, <2>3 DEF Pending
<1>10. /\ Cardinality(InFlight) \in Nat /\ Cardinality(Used) \in Nat
       /\ Cardinality(Places) \in Nat /\ Cardinality(Senders) \in Nat
       /\ Cardinality(Pending) \in Nat
  BY <1>1, <1>2, <1>3, <1>7, <1>9, FS_CardinalityType
<1>11. Cardinality(InFlight) <= Cardinality(Senders) * BatchSize
  <2> HIDE DEF Used, Places
  <2>. QED  BY <1>2, <1>3, <1>7, <1>10
<1>12. Cardinality(Senders) * BatchSize = BatchSize * Cardinality(Senders)
  BY <1>1, <1>10
<1>. QED  BY <1>1, <1>8, <1>9, <1>10, <1>11, <1>12

\* A full buffer is Capacity pending events, and stays within what is pending.
LEMMA FullBuffer ==
    ASSUME NEW s \in Seq(Nat), NEW S, IsFiniteSet(S),
           NoDuplicates(s), Len(s) = Capacity, Range(s) \subseteq S
    PROVE  Cardinality(S) >= Capacity
<1>1. Cardinality(Range(s)) = Capacity
  BY RangeSize
<1>2. Cardinality(Range(s)) <= Cardinality(S)
  BY FS_Subset
<1>3. Cardinality(S) \in Nat
  BY FS_CardinalityType
<1>. QED  BY <1>1, <1>2, <1>3, CapacityAssumption

\* The pipe counts as the client does.
LEMMA SameCount == \A S : Pipe!Cardinality(S) = Cardinality(S)
BY DEF Pipe!Cardinality, Cardinality

\* Every step of the client is a step of the pipe, or none.
LEMMA PipeStep == TypeIInv /\ LedgerInv /\ [Next]_vars => [Pipe!Next]_Pipe!pipeVars
<1> SUFFICES ASSUME TypeIInv, LedgerInv, [Next]_vars
             PROVE  Pipe!Next \/ UNCHANGED <<captured, Pending, sent, rejected, dropped, foreign>>
  BY DEF Pipe!pipeVars
<1>0. /\ buffer \in Seq(Nat) /\ Len(buffer) \in Nat /\ Len(buffer) <= Capacity
      /\ IsFiniteSet(Pending) /\ Cardinality(Pending) \in Nat
      /\ NoDuplicates(buffer)
  BY PendingBounded, FS_CardinalityType
     DEF TypeIInv, TypeOK, BufferType, LedgerInv, Accounted, HeldOnce
<1>1. CASE Still
  BY <1>1 DEF Still, Pending, InFlight
<1>2. ASSUME NEW t \in HostThreads, Add(t)
      PROVE  Pipe!Next
  <2>1. captured' = captured + 1 /\ UNCHANGED <<sent, rejected, foreign>>
    BY <1>2 DEF Add
  <2>2. CASE IsFull(buffer)
    <3>1. Pending' = Pending /\ dropped' = dropped \cup {captured + 1}
      BY <1>2, <2>2, AddAccounted DEF Add
    <3>2. Len(buffer) = Capacity
      BY <1>0, <2>2, CapacityAssumption DEF IsFull
    <3>3. Cardinality(Pending) >= Capacity
      BY <1>0, <3>2, FullBuffer DEF Pending
    <3>4. Pipe!Refuse
      BY <2>1, <3>1, <3>3, SameCount DEF Pipe!Refuse
    <3>. QED  BY <3>4 DEF Pipe!Next
  <2>3. CASE ~IsFull(buffer)
    <3>1. Pending' = Pending \cup {captured + 1} /\ dropped' = dropped
      BY <1>2, <2>3, AddAccounted DEF Add
    <3>2. Len(buffer) < Capacity
      BY <1>0, <2>3, CapacityAssumption DEF IsFull
    <3>3. PICK hands \in Nat : hands = BatchSize * Cardinality(Senders)
      BY ClientAssumption, FS_CardinalityType
    <3>4. Cardinality(Pending) < Capacity + hands
      BY <1>0, <3>2, <3>3, PendingBounded, CapacityAssumption
    <3>5. Pipe!Accept
      BY <2>1, <3>1, <3>3, <3>4, SameCount DEF Pipe!Accept
    <3>. QED  BY <3>5 DEF Pipe!Next
  <2>. QED  BY <2>2, <2>3
<1>3. ASSUME NEW t \in HostThreads, Fork(t)
      PROVE  Pipe!Next
  <2>1. /\ foreign' = foreign \cup Pending
        /\ UNCHANGED <<captured, sent, rejected, dropped>>
    BY <1>3 DEF Fork
  <2>2. Pending' = {}
    BY <1>3, ForkAccounted
  <2>. QED  BY <2>1, <2>2 DEF Pipe!Next, Pipe!Disown
<1>4. ASSUME NEW s \in Senders, Take(s)
      PROVE  UNCHANGED <<captured, Pending, sent, rejected, dropped, foreign>>
  BY <1>4, TakeAccounted DEF Take, ledger
<1>5. ASSUME NEW s \in Senders, SendOk(s) \/ SendRejected(s)
      PROVE  Pipe!Next \/ UNCHANGED <<captured, Pending, sent, rejected, dropped, foreign>>
  <2> DEFINE B == Range(batch[s])
  <2>1. /\ UNCHANGED <<captured, dropped, foreign>>
        /\ \/ sent' = sent \cup B /\ rejected' = rejected
           \/ rejected' = rejected \cup B /\ sent' = sent
    BY <1>5 DEF SendOk, SendRejected, bufferVars
  <2>2. Pending' = Pending \ B
    BY <1>5, AnsweredAccounted
  <2>3. B \subseteq Pending
    BY DEF Pending, InFlight
  <2> HIDE DEF B
  <2>4. CASE B = {}
    BY <2>1, <2>2, <2>4
  <2>5. CASE B # {}
    <3>1. Pipe!Deliver(B)
      BY <2>1, <2>2 DEF Pipe!Deliver
    <3>2. B \in (SUBSET Pending) \ {{}}
      BY <2>3, <2>5
    <3>. QED  BY <3>1, <3>2 DEF Pipe!Next
  <2>. QED  BY <2>4, <2>5
<1>6. ASSUME NEW s \in Senders, GiveBack(s)
      PROVE  Pipe!Next \/ UNCHANGED <<captured, Pending, sent, rejected, dropped, foreign>>
  <2> DEFINE B == Range(Overflow(batch[s], buffer))
  <2>1. /\ UNCHANGED <<captured, sent, rejected, foreign>>
        /\ dropped' = dropped \cup B
        /\ buffer' = PutBack(batch[s], buffer)
    BY <1>6 DEF GiveBack, ledger
  <2>2. Pending' = Pending \ B /\ LedgerInv'
    BY <1>6, GiveBackAccounted
  <2>3. B \subseteq Pending
    <3>1. batch[s] \in Seq(Nat)
      BY DEF TypeIInv, TypeOK, SenderType
    <3>3. /\ PutBack(batch[s], buffer) \in Seq(Nat)
          /\ Overflow(batch[s], buffer) \in Seq(Nat)
          /\ PutBack(batch[s], buffer) \o Overflow(batch[s], buffer) = batch[s] \o buffer
      BY <1>0, <3>1, PutBackSplits
    <3>4. Range(PutBack(batch[s], buffer)) \cup B = Range(batch[s] \o buffer)
      BY <3>3, RangeConcat
    <3>5. Range(batch[s] \o buffer) = Range(batch[s]) \cup Range(buffer)
      BY <1>0, <3>1, RangeConcat
    <3>. QED  BY <3>4, <3>5 DEF Pending, InFlight
  <2>4. CASE B = {}
    <3> HIDE DEF B
    <3>. QED  BY <2>1, <2>2, <2>4
  <2>5. CASE B # {}
    <3>1. batch[s] \in Seq(Nat)
      BY DEF TypeIInv, TypeOK, SenderType
    <3>2. buffer' \in Seq(Nat) /\ Len(buffer') = Capacity
      BY <1>0, <2>1, <2>5, <3>1, PutBackSplits, OverflowMeansFull
    <3>3. NoDuplicates(buffer') /\ Range(buffer') \subseteq Pending'
      BY <2>2 DEF LedgerInv, Accounted, HeldOnce, Pending
    <3> HIDE DEF B
    <3>4. IsFiniteSet(Pending \ B)
      BY <1>0, FS_Subset
    <3>5. Cardinality(Pending \ B) >= Capacity
      BY <2>2, <3>2, <3>3, <3>4, FullBuffer
    <3>6. Pipe!Shed(B)
      BY <2>1, <2>2, <3>5, SameCount DEF Pipe!Shed
    <3>7. B \in (SUBSET Pending) \ {{}}
      BY <2>3, <2>5
    <3>. QED  BY <3>6, <3>7 DEF Pipe!Next
  <2>. QED  BY <2>4, <2>5
<1>. QED  BY <1>1, <1>2, <1>3, <1>4, <1>5, <1>6, Movers

\* Threads, batches, retries and wake-ups are invisible in what the client
\* promises about its events: an event waits until it leaves by exactly one exit,
\* and is refused or shed only when Capacity others wait (_buffer.py, _client.py).
THEOREM ClientImplementsPipe == Spec => ImplementsPipe
<1>1. Init => Pipe!Init
  <2> SUFFICES ASSUME Init  PROVE Pipe!Init
    OBVIOUS
  <2>1. Range(<<>>) = {}
    BY DEF Range
  <2>2. Pending = {}
    BY <2>1 DEF Init, Pending, InFlight
  <2>. QED  BY <2>2 DEF Init, Pipe!Init
<1>. QED  BY <1>1, PipeStep, TypeInit, TypeStep, LedgerInit, LedgerStep, PTL
          DEF Spec, ImplementsPipe, Pipe!Spec
-----------------------------------------------------------------------------
(* What flush() can miss.                                                  *)

\* While one sender at most was ever alive, _sending is true of whoever is at work on an
\* announced batch.
Announced ==
    ~overlap => \A s \in Senders : run[s] \in {"send", "backoff", "putback"} => sending

LEMMA AnnouncedStep == TypeIInv /\ OneAlive /\ Announced /\ [Next]_vars => Announced'
<1> SUFFICES ASSUME TypeIInv, OneAlive, Announced, [Next]_vars  PROVE Announced'
  OBVIOUS
<1>0. run \in [Senders -> SenderPc] /\ (~overlap' => ~overlap)
  <2>1. run \in [Senders -> SenderPc]
    BY DEF TypeIInv, TypeOK, SenderType
  <2>2. ASSUME NEW t \in HostThreads, Start(t)  PROVE ~overlap' => ~overlap
    <3>1. overlap' = (overlap \/ \E s \in Senders : Alive(s))
      BY <2>2 DEF Start
    <3>. QED  BY <3>1
  <2>. QED  BY <2>1, <2>2, OnlyStartStarts
<1> USE DEF Go, Step, bufferVars, clientVars, hostVars, senderVars, ledger, envVars
<1>1. ASSUME UNCHANGED <<run, sending>>  PROVE Announced'
  BY <1>0, <1>1 DEF Announced
<1>2. ASSUME NEW t \in HostThreads, HostCall(t) \/ HostTimeout(t)  PROVE Announced'
  BY <1>1, <1>2 DEF HostCall, Capture, FlushCall, CloseCall, HostTimeout, FlushTimeout,
                    CloseJoinTimeout
<1>3. ASSUME NEW t \in HostThreads, HostStep(t)  PROVE Announced'
  <2>1. CASE Start(t)
    <3>1. PICK s \in Senders : run' = [run EXCEPT ![s] = "top"]
      BY <2>1 DEF Start
    <3>2. sending' = sending
      BY <2>1 DEF Start
    <3>. QED  BY <1>0, <3>1, <3>2 DEF Announced
  <2>2. CASE Signal(t) \/ Wake(t)
    <3>1. sending' = sending
      BY <2>2 DEF Signal, Wake
    <3>. QED  BY <1>0, <2>2, <3>1 DEF Signal, Wake, SetWake, Announced
  <2>3. CASE CloseStop(t)
    <3>1. sending' = sending /\ run' = [s \in Senders |-> Interrupted(s)]
      BY <2>3 DEF CloseStop
    <3>2. \A s \in Senders : run'[s] \in {"send", "backoff", "putback"}
                                => run[s] \in {"send", "backoff", "putback"}
      BY <3>1 DEF Interrupted
    <3>. QED  BY <1>0, <3>1, <3>2 DEF Announced
  <2>4. CASE ~(Start(t) \/ Signal(t) \/ Wake(t) \/ CloseStop(t))
    <3>1. UNCHANGED <<run, sending>>
      BY <1>3, <2>4 DEF HostStep, Ensure, EnsureAlive, Spawn, Recheck, Add, Peek, Check,
                        CloseRead, CloseJoined, CloseClear
    <3>. QED  BY <1>1, <3>1
  <2>. QED  BY <2>1, <2>2, <2>3, <2>4
<1>4. ASSUME NEW t \in HostThreads, Fork(t)  PROVE Announced'
  BY <1>4 DEF Fork, Announced
<1>5. ASSUME NEW s \in Senders, SenderStep(s) \/ SenderTimer(s)  PROVE Announced'
  <2> SUFFICES ASSUME ~overlap'
               PROVE  \A r \in Senders : run'[r] \in {"send", "backoff", "putback"} => sending'
    BY DEF Announced
  <2>0. Alive(s) /\ \A r \in Senders \ {s} : run[r] = "dead"
    <3>1. Alive(s)
      BY <1>5 DEF SenderStep, SenderTimer, Top, Woken, Take, Announce, Mark, SendOk,
                  SendRejected, SendRetryable, SendRaises, GiveBack, Unmark, Tick, Retry, Alive
    <3>. QED  BY <1>0, <3>1 DEF OneAlive, Alive
  <2>1. CASE Mark(s)
    BY <2>1 DEF Mark
  <2>2. CASE Announce(s) \/ Unmark(s)
    <3>1. PICK where \in {"take", "top", "dead"} : run' = [run EXCEPT ![s] = where]
      BY <2>2 DEF Announce, Unmark, AfterPending
    <3>. QED  BY <1>0, <2>0, <3>1
  <2>3. CASE SendRetryable(s) \/ SendRaises(s) \/ Retry(s)
    <3>1. run[s] \in {"send", "backoff"} /\ sending' = sending
      BY <2>3 DEF SendRetryable, SendRaises, Retry
    <3>. QED  BY <1>0, <3>1 DEF Announced
  <2>4. CASE Top(s) \/ Woken(s) \/ Tick(s) \/ Take(s) \/ SendOk(s) \/ SendRejected(s) \/ GiveBack(s)
    <3>1. PICK where \in {"take", "woken", "wait", "announce", "mark", "done", "retreat"} :
             run' = [run EXCEPT ![s] = where]
      BY <2>4 DEF Top, Woken, Tick, Take, SendOk, SendRejected, GiveBack
    <3>. QED  BY <1>0, <2>0, <3>1
  <2>. QED  BY <1>5, <2>1, <2>2, <2>3, <2>4 DEF SenderStep, SenderTimer
<1>6. CASE ApiFails \/ ApiRecovers \/ UNCHANGED vars
  BY <1>1, <1>6 DEF ApiFails, ApiRecovers, vars
<1>. QED  BY <1>2, <1>3, <1>4, <1>5, <1>6 DEF Next

\* Whatever threads, retries and closes interleave: a flush() that waited and returns True
\* leaves nothing behind that was captured before it, but for a batch between take() and
\* _sending = True (_client.py: flush, _is_drained, _send_pending).
THEOREM FlushMissesLittle == Spec => FlushMissesOnlyUnmarked
<1>1. Init => TypeIInv /\ LedgerInv /\ OneAlive /\ Announced
  <2>1. Init => OneAlive /\ Announced
    BY DEF Init, OneAlive, Alive, Announced
  <2>. QED  BY <2>1, TypeInit, LedgerInit
<1>2. LedgerInv /\ Announced =>
         [ \A t \in HostThreads :
              FlushReturnsTrue(t) /\ ~overlap =>
                  Outstanding(t) \subseteq
                      UNION {Range(batch[s]) : s \in {r \in Senders : run[r] = "mark"}} ]_vars
  <2> SUFFICES ASSUME LedgerInv, Announced, NEW t \in HostThreads, IsDrained, ~overlap
               PROVE  Outstanding(t) \subseteq
                         UNION {Range(batch[s]) : s \in {r \in Senders : run[r] = "mark"}}
    BY DEF FlushReturnsTrue
  <2>1. Range(<<>>) = {}
    BY DEF Range
  <2>2. \A s \in Senders : run[s] = "mark" \/ Range(batch[s]) = {}
    BY <2>1 DEF LedgerInv, BatchScope, Announced, IsDrained
  <2>3. Pending = UNION {Range(batch[s]) : s \in Senders}
    BY <2>1 DEF Pending, InFlight, IsDrained
  <2>. QED  BY <2>2, <2>3 DEF Outstanding
<1>. QED  BY <1>1, <1>2, TypeStep, LedgerStep, OneAliveStep, AnnouncedStep, PTL
          DEF Spec, FlushMissesOnlyUnmarked
=============================================================================
