--------------------------- MODULE DeliveryProofs ---------------------------
(***************************************************************************)
(* Proofs about Delivery, and the ingest endpoint in it, for any number of *)
(* handlers, keys, windows and faults.                                     *)
(***************************************************************************)
EXTENDS Delivery, TLAPS

(***************************************************************************)
(* Types.                                                                  *)
(***************************************************************************)

LEMMA TypeInit == Init => DeliveryTypeOK
<1> USE IngestAssumption, DeliveryAssumption
<1>1. IngestInit => HandlerType
  BY DEF IngestInit, HandlerType, Bodies, Statuses
<1>2. IngestInit => RedisType
  <2>1. [req |-> 0, evt |-> 0] \in [req : 0 .. RequestLimit, evt : 0 .. EventLimit]
    OBVIOUS
  <2>2. [w \in 0 .. MaxWindow |-> [req |-> 0, evt |-> 0]]
            \in [0 .. MaxWindow -> [req : 0 .. RequestLimit, evt : 0 .. EventLimit]]
    BY <2>1
  <2>3. IngestInit => used \in [0 .. MaxWindow -> [req : 0 .. RequestLimit, evt : 0 .. EventLimit]]
    BY <2>2 DEF IngestInit
  <2>4. IngestInit => claims \in [Keys -> {"none", "in_flight", "done"}]
    BY DEF IngestInit
  <2>5. IngestInit => cached \in BOOLEAN
    BY DEF IngestInit
  <2>6. IngestInit => jobs \in [Keys \cup {NoKey} -> Nat]
    BY DEF IngestInit
  <2>. HIDE IngestAssumption, DeliveryAssumption
  <2>. QED  BY <2>3, <2>4, <2>5, <2>6, Zenon DEF RedisType
<1>3. IngestInit => StoreType
  <2>1. IngestInit => rows \in [Keys \cup {NoKey} -> Nat]
    BY DEF IngestInit
  <2>2. IngestInit => revoked \in BOOLEAN
    BY DEF IngestInit
  <2>. QED  BY <2>1, <2>2, Zenon DEF StoreType
<1>4. IngestInit => ClockType /\ faults \in 0 .. MaxFaults
  BY DEF IngestInit, ClockType
<1>5. Init => BatchType
  BY DEF Init, BatchType, Phases
<1>. QED  BY <1>1, <1>2, <1>3, <1>4, <1>5 DEF Init, DeliveryTypeOK, IngestTypeOK

\* What a step of a handler writes to its own variables.
LEMMA HandleType ==
    ASSUME IngestTypeOK, NEW h \in Handlers, Handle(h) \/ Break(h) \/ Vacate(h)
    PROVE  HandlerType'
<1> USE IngestAssumption DEF HandlerType
<1>1. CASE Auth(h) \/ Lookup(h) \/ Fill(h) \/ Vacate(h)
  BY <1>1 DEF IngestTypeOK, Auth, Lookup, Fill, Vacate, Admit, Goto, Answer, Calls, Statuses, Bodies
<1>2. CASE ChargeRequest(h) \/ ChargeEvents(h)
  BY <1>2 DEF IngestTypeOK, ClockType, ChargeRequest, ChargeEvents, AfterLimit, Goto, Answer, Calls,
              Statuses
<1>3. CASE Claim(h) \/ Read(h) \/ Complete(h) \/ Release(h)
  BY <1>3 DEF IngestTypeOK, Claim, Read, Complete, Release, Goto, Answer, Calls, Statuses
<1>4. CASE Persist(h) \/ Push(h)
  BY <1>4 DEF IngestTypeOK, Persist, Push, Raise, AfterCommit, Goto, Answer, Calls, Statuses
<1>5. CASE CallFails(h) \/ AnswerLost(h) \/ Crash(h)
  BY <1>5 DEF IngestTypeOK, CallFails, AnswerLost, Crash, Raise, Goto, Answer, Calls, Statuses
<1>. QED  BY <1>1, <1>2, <1>3, <1>4, <1>5 DEF Handle, Break
\* What such a step writes to Redis and Postgres.
LEMMA EffectType ==
    ASSUME IngestTypeOK, NEW h \in Handlers, Handle(h) \/ Break(h) \/ Vacate(h)
    PROVE  RedisType' /\ StoreType' /\ ClockType' /\ faults' \in 0 .. MaxFaults
<1>0. /\ key[h] \in Keys \cup {NoKey}
      /\ window[h] \in 0 .. MaxWindow /\ now \in 0 .. MaxWindow
  BY DEF IngestTypeOK, HandlerType, ClockType
<1>1. claims' \in [Keys -> {"none", "in_flight", "done"}]
  <2>1. \/ UNCHANGED claims
        \/ \E v \in {"none", "in_flight", "done"} : SetClaim(h, v)
    BY DEF Handle, Break, Auth, Lookup, Fill, Vacate, ChargeRequest, ChargeEvents, Claim, Read,
           Complete, Release, Persist, Push, CallFails, AnswerLost, Crash, redisVars
  <2>. QED  BY <2>1 DEF SetClaim, IngestTypeOK, RedisType
<1>2. cached' \in BOOLEAN
  BY DEF Handle, Break, Auth, Lookup, Fill, Vacate, ChargeRequest, ChargeEvents, Claim, Read,
         Complete, Release, Persist, Push, CallFails, AnswerLost, Crash, redisVars,
         IngestTypeOK, RedisType
<1>3. used' \in [0 .. MaxWindow -> [req : 0 .. RequestLimit, evt : 0 .. EventLimit]]
  <2>1. \/ UNCHANGED used
        \/ Fits(now, "req", 1, RequestLimit) /\ Charged(now, "req", 1)
        \/ /\ Fits(window[h], "evt", BatchEvents, EventLimit)
           /\ Charged(window[h], "evt", BatchEvents)
    BY DEF Handle, Break, Auth, Lookup, Fill, Vacate, ChargeRequest, ChargeEvents, Claim, Read,
           Complete, Release, Persist, Push, CallFails, AnswerLost, Crash, redisVars
  <2>2. ASSUME NEW w \in 0 .. MaxWindow, Fits(w, "req", 1, RequestLimit), Charged(w, "req", 1)
        PROVE  used' \in [0 .. MaxWindow -> [req : 0 .. RequestLimit, evt : 0 .. EventLimit]]
    <3>1. used[w] \in [req : 0 .. RequestLimit, evt : 0 .. EventLimit]
      BY DEF IngestTypeOK, RedisType
    <3>2. [used[w] EXCEPT !["req"] = @ + 1] \in [req : 0 .. RequestLimit, evt : 0 .. EventLimit]
      BY <2>2, <3>1, IngestAssumption DEF Fits
    <3>3. used' = [used EXCEPT ![w] = [used[w] EXCEPT !["req"] = @ + 1]]
      BY <2>2 DEF Charged
    <3>. QED  BY <3>2, <3>3 DEF IngestTypeOK, RedisType
  <2>3. ASSUME NEW w \in 0 .. MaxWindow, Fits(w, "evt", BatchEvents, EventLimit),
               Charged(w, "evt", BatchEvents)
        PROVE  used' \in [0 .. MaxWindow -> [req : 0 .. RequestLimit, evt : 0 .. EventLimit]]
    <3>1. used[w] \in [req : 0 .. RequestLimit, evt : 0 .. EventLimit]
      BY DEF IngestTypeOK, RedisType
    <3>2. [used[w] EXCEPT !["evt"] = @ + BatchEvents]
              \in [req : 0 .. RequestLimit, evt : 0 .. EventLimit]
      BY <2>3, <3>1, IngestAssumption DEF Fits
    <3>3. used' = [used EXCEPT ![w] = [used[w] EXCEPT !["evt"] = @ + BatchEvents]]
      BY <2>3 DEF Charged
    <3>. QED  BY <3>2, <3>3 DEF IngestTypeOK, RedisType
  <2>. QED  BY <1>0, <2>1, <2>2, <2>3 DEF IngestTypeOK, RedisType
<1>4. jobs' \in [Keys \cup {NoKey} -> Nat] /\ rows' \in [Keys \cup {NoKey} -> Nat]
  <2>1. /\ UNCHANGED jobs \/ jobs' = [jobs EXCEPT ![key[h]] = @ + 1]
        /\ UNCHANGED rows \/ rows' = [rows EXCEPT ![key[h]] = @ + 1]
    BY DEF Handle, Break, Auth, Lookup, Fill, Vacate, ChargeRequest, ChargeEvents, Claim, Read,
           Complete, Release, Persist, Push, CallFails, AnswerLost, Crash, redisVars, storeVars
  <2>2. jobs \in [Keys \cup {NoKey} -> Nat] /\ rows \in [Keys \cup {NoKey} -> Nat]
    BY DEF IngestTypeOK, RedisType, StoreType
  <2>. QED  BY <1>0, <2>1, <2>2
<1>5. UNCHANGED <<revoked, clockVars>> /\ (UNCHANGED faults \/ Fault)
  BY DEF Handle, Break, Auth, Lookup, Fill, Vacate, ChargeRequest, ChargeEvents, Claim, Read,
         Complete, Release, Persist, Push, CallFails, AnswerLost, Crash, storeVars
<1>6. RedisType'
  BY <1>1, <1>2, <1>3, <1>4, Zenon DEF RedisType
<1>7. StoreType' /\ ClockType'
  BY <1>4, <1>5, Zenon DEF IngestTypeOK, StoreType, ClockType, clockVars
<1>8. faults' \in 0 .. MaxFaults
  BY <1>5, IngestAssumption DEF IngestTypeOK, Fault
<1>. QED  BY <1>6, <1>7, <1>8
LEMMA HandlerStepType ==
    ASSUME IngestTypeOK, NEW h \in Handlers, Handle(h) \/ Break(h) \/ Vacate(h)
    PROVE  IngestTypeOK'
BY HandleType, EffectType DEF IngestTypeOK

LEMMA ArriveType ==
    ASSUME IngestTypeOK, NEW h \in Handlers, NEW k \in Keys \cup {NoKey}, NEW b \in Bodies,
           Arrive(h, k, b)
    PROVE  IngestTypeOK'
<1>1. HandlerType'
  BY DEF IngestTypeOK, HandlerType, Arrive, Goto, Calls, Statuses
<1>2. UNCHANGED <<redisVars, storeVars, clockVars, faults>>
  BY DEF Arrive
<1>. QED
  BY <1>1, <1>2, Zenon DEF IngestTypeOK, RedisType, StoreType, ClockType, redisVars, storeVars, clockVars

LEMMA EnvironmentType ==
    ASSUME IngestTypeOK, Elapse \/ Revoke
    PROVE  IngestTypeOK'
<1>1. UNCHANGED <<handlerVars, used, jobs, rows, faults>>
  BY DEF Elapse, CacheExpires, NextWindow, Expire, Revoke, redisVars, storeVars
<1>2. claims' \in [Keys -> {"none", "in_flight", "done"}]
  BY DEF Elapse, CacheExpires, NextWindow, Expire, Revoke, redisVars, IngestTypeOK, RedisType
<1>3. cached' \in BOOLEAN
  BY DEF Elapse, CacheExpires, NextWindow, Expire, Revoke, redisVars, IngestTypeOK, RedisType
<1>4. revoked' \in BOOLEAN
  BY DEF Elapse, CacheExpires, NextWindow, Expire, Revoke, storeVars, IngestTypeOK, StoreType
<1>5. ClockType'
  BY IngestAssumption
  DEF Elapse, CacheExpires, NextWindow, Expire, Revoke, clockVars, IngestTypeOK, ClockType
<1>6. HandlerType'
  BY <1>1 DEF IngestTypeOK, HandlerType, handlerVars
<1>7. RedisType' /\ StoreType'
  BY <1>1, <1>2, <1>3, <1>4, Zenon DEF IngestTypeOK, RedisType, StoreType
<1>. QED  BY <1>1, <1>5, <1>6, <1>7 DEF IngestTypeOK

LEMMA TypeStep == DeliveryTypeOK /\ [Next]_vars => DeliveryTypeOK'
<1> SUFFICES ASSUME DeliveryTypeOK, [Next]_vars
             PROVE  DeliveryTypeOK'
  OBVIOUS
<1> USE DeliveryAssumption
<1>0. IngestTypeOK /\ BatchType
  BY DEF DeliveryTypeOK
<1>1. ASSUME NEW h \in Handlers, Api(h)
      PROVE  DeliveryTypeOK'
  BY <1>0, <1>1, HandlerStepType DEF Api, batchVars, BatchType, DeliveryTypeOK
<1>2. ASSUME NEW h \in Handlers, NEW k \in Keys, Send(h, k)
      PROVE  IngestTypeOK'
  <2>1. Wire \in Bodies
    BY <1>0 DEF Wire, Bodies, BatchType
  <2>. QED  BY <1>0, <1>2, <2>1, ArriveType DEF Send
<1>3. ASSUME NEW h \in Handlers, First(h)
      PROVE  DeliveryTypeOK'
  <2>1. PICK k \in Keys \ spent : Send(h, k) /\ spent' = spent \cup {k}
    BY <1>3 DEF First
  <2>2. BatchType'
    BY <1>0, <1>3, <2>1 DEF First, Send, BatchType, Phases
  <2>. QED  BY <1>2, <2>1, <2>2 DEF DeliveryTypeOK
<1>4. ASSUME NEW h \in Handlers, Again(h)
      PROVE  DeliveryTypeOK'
  <2>1. Wire \in Bodies
    BY <1>0 DEF Wire, Bodies, BatchType
  <2>2. IngestTypeOK'
    BY <1>0, <1>4, <2>1, ArriveType DEF Again, Send, BatchType
  <2>3. BatchType'
    BY <1>0, <1>4 DEF Again, Send, BatchType, Phases
  <2>. QED  BY <2>2, <2>3 DEF DeliveryTypeOK
<1>5. ASSUME NEW h \in Handlers, Receive(h)
      PROVE  DeliveryTypeOK'
  <2>1. IngestTypeOK'
    BY <1>0, <1>5, HandlerStepType DEF Receive
  <2>2. BatchType'
    BY <1>0, <1>5 DEF Receive, AfterStatus, AfterFailure, BatchType, Phases
  <2>. QED  BY <2>1, <2>2 DEF DeliveryTypeOK
<1>6. ASSUME NEW h \in Handlers, Discard(h)
      PROVE  DeliveryTypeOK'
  BY <1>0, <1>6, HandlerStepType DEF Discard, batchVars, BatchType, DeliveryTypeOK
<1>7. ASSUME NEW h \in Handlers, Other(h)
      PROVE  DeliveryTypeOK'
  <2>1. PICK b \in {"good", "invalid"} : Arrive(h, NoKey, b)
    BY <1>7 DEF Other
  <2>2. IngestTypeOK'
    BY <1>0, <2>1, ArriveType DEF Bodies
  <2>. QED  BY <1>0, <1>7, <2>2 DEF Other, batchVars, BatchType, DeliveryTypeOK
<1>8. CASE GiveUp
  <2>1. IngestTypeOK'
    BY <1>0, <1>8 DEF GiveUp, ingestVars, handlerVars, redisVars, storeVars, clockVars,
                      IngestTypeOK, HandlerType, RedisType, StoreType, ClockType
  <2>2. BatchType'
    BY <1>0, <1>8 DEF GiveUp, AfterFailure, BatchType, Phases
  <2>. QED  BY <2>1, <2>2 DEF DeliveryTypeOK
<1>9. CASE Environment
  BY <1>0, <1>9, EnvironmentType DEF Environment, batchVars, BatchType, DeliveryTypeOK
<1>10. CASE UNCHANGED vars
  BY <1>0, <1>10 DEF vars, batchVars, BatchType, DeliveryTypeOK, ingestVars, handlerVars, redisVars,
                     storeVars, clockVars, IngestTypeOK, HandlerType, RedisType, StoreType, ClockType
<1>. QED  BY <1>1, <1>3, <1>4, <1>5, <1>6, <1>7, <1>8, <1>9, <1>10 DEF Next

\* Whatever the number of handlers, keys and faults, every variable has its
\* type, and no window of the rate limit is charged above its limits.
THEOREM TypeCorrect == Spec => []DeliveryTypeOK
BY TypeInit, TypeStep, PTL DEF Spec

(***************************************************************************)
(* One owner per key, and what its progress says of claim and storage.     *)
(***************************************************************************)

\* What can be said of a request's batch from where its handler is.
Progress(h) ==
    key[h] \in Keys \cup {NoKey} =>
        /\ pc[h] \in {"claim", "read", "release", "complete"} => key[h] # NoKey
        /\ pc[h] \in {"push", "complete"} => rows[key[h]] > 0
        /\ pc[h] = "complete" => jobs[key[h]] > 0
        /\ reply[h] \in {"ok", "replay"} =>
               pc[h] = "answered" /\ rows[key[h]] > 0 /\ jobs[key[h]] > 0

DoneIsStored == \A k \in Keys : claims[k] = "done" => rows[k] > 0 /\ jobs[k] > 0

StorageInv == DoneIsStored /\ \A h \in Handlers : Progress(h)

\* The handler's own part of what a step of it may do to the store.
LEMMA OnlyGrows ==
    ASSUME IngestTypeOK, NEW h \in Handlers, Handle(h) \/ Break(h) \/ Vacate(h)
    PROVE  \A k \in Keys \cup {NoKey} :
               (rows[k] > 0 => rows'[k] > 0) /\ (jobs[k] > 0 => jobs'[k] > 0)
<1>1. /\ UNCHANGED jobs \/ jobs' = [jobs EXCEPT ![key[h]] = @ + 1]
      /\ UNCHANGED rows \/ rows' = [rows EXCEPT ![key[h]] = @ + 1]
  BY DEF Handle, Break, Auth, Lookup, Fill, Vacate, ChargeRequest, ChargeEvents, Claim, Read,
         Complete, Release, Persist, Push, CallFails, AnswerLost, Crash, redisVars, storeVars
<1>2. jobs \in [Keys \cup {NoKey} -> Nat] /\ rows \in [Keys \cup {NoKey} -> Nat]
      /\ key[h] \in Keys \cup {NoKey}
  BY DEF IngestTypeOK, HandlerType, RedisType, StoreType
<1>. QED  BY <1>1, <1>2

LEMMA OthersKeep ==
    ASSUME IngestTypeOK, NEW h \in Handlers, Handle(h) \/ Break(h) \/ Vacate(h)
    PROVE  \A g \in Handlers \ {h} :
               pc'[g] = pc[g] /\ key'[g] = key[g] /\ reply'[g] = reply[g]
BY DEF IngestTypeOK, HandlerType, Handle, Break, Auth, Lookup, Fill, Vacate, ChargeRequest,
       ChargeEvents, Claim, Read, Complete, Release, Persist, Push, CallFails, AnswerLost, Crash,
       Admit, Goto, Answer, Raise

LEMMA ProgressStep ==
    ASSUME IngestTypeOK, StorageInv, NEW h \in Handlers, Handle(h) \/ Break(h) \/ Vacate(h)
    PROVE  StorageInv'
<1> USE IngestAssumption
<1>0. /\ pc \in [Handlers -> Calls \cup {"idle", "answered", "gone"}]
      /\ key \in [Handlers -> Keys \cup {NoKey}]
      /\ reply \in [Handlers -> Statuses]
      /\ claims \in [Keys -> {"none", "in_flight", "done"}]
      /\ jobs \in [Keys \cup {NoKey} -> Nat] /\ rows \in [Keys \cup {NoKey} -> Nat]
  BY DEF IngestTypeOK, HandlerType, RedisType, StoreType
<1>01. Progress(h) /\ DoneIsStored
  BY DEF StorageInv
<1>1. ASSUME NEW g \in Handlers \ {h}
      PROVE  Progress(g)'
  <2>1. pc'[g] = pc[g] /\ key'[g] = key[g] /\ reply'[g] = reply[g]
    BY OthersKeep
  <2>2. Progress(g)
    BY DEF StorageInv
  <2>. QED  BY <1>0, <2>1, <2>2, OnlyGrows DEF Progress
<1>2. Progress(h)'
  <2>1. CASE Auth(h) \/ Lookup(h) \/ Fill(h) \/ Vacate(h)
    BY <1>0, <1>01, <2>1 DEF Progress, Auth, Lookup, Fill, Vacate, Admit, Goto, Answer, redisVars,
                             storeVars
  <2>2. CASE ChargeRequest(h) \/ ChargeEvents(h)
    BY <1>0, <1>01, <2>2 DEF Progress, ChargeRequest, ChargeEvents, AfterLimit, Goto, Answer, storeVars
  <2>3. CASE Claim(h) \/ Read(h) \/ Release(h)
    BY <1>0, <1>01, <2>3 DEF Progress, DoneIsStored, Claim, Read, Release, Goto, Answer, redisVars,
                             storeVars
  <2>4. CASE Complete(h)
    BY <1>0, <1>01, <2>4 DEF Progress, Complete, Goto, Answer, storeVars
  <2>5. CASE Persist(h)
    BY <1>0, <1>01, <2>5 DEF Progress, Persist, Raise, AfterCommit, Goto, Answer, redisVars
  <2>6. CASE Push(h)
    BY <1>0, <1>01, <2>6 DEF Progress, Push, Goto, Answer, storeVars
  <2>7. CASE CallFails(h) \/ Crash(h)
    BY <1>0, <1>01, <2>7 DEF Progress, CallFails, Crash, Raise, Goto, Answer, Calls, redisVars, storeVars
  <2>8. CASE AnswerLost(h)
    <3>1. /\ pc'[h] \in {"release", "answered"} /\ reply'[h] = "error" /\ key' = key
          /\ pc'[h] = "release" => key[h] # NoKey
      BY <1>0, <2>8 DEF AnswerLost, Raise, Goto, Answer
    <3>. QED  BY <3>1 DEF Progress
  <2>. QED  BY <2>1, <2>2, <2>3, <2>4, <2>5, <2>6, <2>7, <2>8 DEF Handle, Break
<1>3. DoneIsStored'
  <2>1. \/ UNCHANGED claims
        \/ key[h] \in Keys /\ claims' = [claims EXCEPT ![key[h]] = "none"]
        \/ key[h] \in Keys /\ claims' = [claims EXCEPT ![key[h]] = "in_flight"]
        \/ pc[h] = "complete" /\ claims' = [claims EXCEPT ![key[h]] = "done"]
    BY <1>0, <1>01 DEF Progress, Handle, Break, Auth, Lookup, Fill, Vacate, ChargeRequest, ChargeEvents,
                       Claim, Read, Complete, Release, Persist, Push, CallFails, AnswerLost, Crash,
                       redisVars, SetClaim
  <2>2. \A k \in Keys : claims'[k] = "done" => rows[k] > 0 /\ jobs[k] > 0
    BY <1>0, <1>01, <2>1 DEF Progress, DoneIsStored
  <2>. QED  BY <2>2, OnlyGrows DEF DoneIsStored
<1>. QED  BY <1>1, <1>2, <1>3 DEF StorageInv

\* Every step of Delivery is a step of a handler, an arrival, or time passing.
LEMMA IngestSteps ==
    ASSUME DeliveryTypeOK, [Next]_vars
    PROVE  \/ \E h \in Handlers : Handle(h) \/ Break(h) \/ Vacate(h)
           \/ \E h \in Handlers, k \in Keys \cup {NoKey}, b \in Bodies : Arrive(h, k, b)
           \/ Elapse \/ Revoke
           \/ UNCHANGED ingestVars
<1>0. Wire \in Bodies
  BY DeliveryAssumption DEF DeliveryTypeOK, BatchType, Wire, Bodies
<1>1. ASSUME NEW h \in Handlers, First(h) \/ Again(h)
      PROVE  \E k \in Keys \cup {NoKey}, b \in Bodies : Arrive(h, k, b)
  BY <1>0, <1>1 DEF First, Again, Send, DeliveryTypeOK, BatchType
<1>2. ASSUME NEW h \in Handlers, Other(h)
      PROVE  \E k \in Keys \cup {NoKey}, b \in Bodies : Arrive(h, k, b)
  <2>1. PICK b \in {"good", "invalid"} : Arrive(h, NoKey, b)
    BY <1>2 DEF Other
  <2>. QED  BY <2>1 DEF Bodies
<1>3. ASSUME NEW h \in Handlers, Receive(h) \/ Discard(h)
      PROVE  Vacate(h)
  BY <1>3 DEF Receive, Discard
<1>4. CASE GiveUp \/ UNCHANGED vars
  BY <1>4 DEF GiveUp, vars
<1>. QED  BY <1>1, <1>2, <1>3, <1>4 DEF Next, Api, Environment

LEMMA StorageStep == DeliveryTypeOK /\ StorageInv /\ [Next]_vars => StorageInv'
<1> SUFFICES ASSUME DeliveryTypeOK, StorageInv, [Next]_vars
             PROVE  StorageInv'
  OBVIOUS
<1>0. /\ pc \in [Handlers -> Calls \cup {"idle", "answered", "gone"}]
      /\ key \in [Handlers -> Keys \cup {NoKey}]
      /\ reply \in [Handlers -> Statuses]
      /\ claims \in [Keys -> {"none", "in_flight", "done"}]
  BY DEF DeliveryTypeOK, IngestTypeOK, HandlerType, RedisType
<1>1. ASSUME NEW h \in Handlers, Handle(h) \/ Break(h) \/ Vacate(h)
      PROVE  StorageInv'
  BY <1>1, ProgressStep DEF DeliveryTypeOK
<1>2. ASSUME NEW h \in Handlers, NEW k \in Keys \cup {NoKey}, NEW b \in Bodies, Arrive(h, k, b)
      PROVE  StorageInv'
  BY <1>0, <1>2 DEF StorageInv, DoneIsStored, Progress, Arrive, Goto, redisVars, storeVars
<1>3. CASE Elapse \/ Revoke
  <2>1. UNCHANGED <<pc, key, reply, rows, jobs>>
    BY <1>3 DEF Elapse, CacheExpires, NextWindow, Expire, Revoke, handlerVars, redisVars, storeVars
  <2>2. \A k \in Keys : claims'[k] \in {claims[k], "none"}
    BY <1>0, <1>3 DEF Elapse, CacheExpires, NextWindow, Expire, Revoke, redisVars
  <2>. QED  BY <2>1, <2>2 DEF StorageInv, DoneIsStored, Progress
<1>4. CASE UNCHANGED ingestVars
  BY <1>4 DEF ingestVars, handlerVars, redisVars, storeVars, StorageInv, DoneIsStored, Progress
<1>. QED  BY <1>1, <1>2, <1>3, <1>4, IngestSteps

\* An answer that says a batch was taken is never wrong, however calls fail,
\* answers get lost and processes die, for any number of requests and keys.
THEOREM NeverAnsweredUnstored == Spec => []TakenIsStored
<1>1. Init => StorageInv
  BY DEF Init, IngestInit, StorageInv, DoneIsStored, Progress
<1>2. DeliveryTypeOK /\ StorageInv => TakenIsStored
  BY DEF DeliveryTypeOK, IngestTypeOK, HandlerType, StorageInv, DoneIsStored, Progress, TakenIsStored
<1>. QED  BY <1>1, <1>2, TypeInit, TypeStep, StorageStep, PTL DEF Spec

(***************************************************************************)
(* The claim: one handler per key, one copy per key.                       *)
(***************************************************************************)

OwnerPc == {"persist", "push", "complete", "release"}

\* What is left of the one copy, and the faults, a key allows.
Budget(k) ==
    /\ rows[k] <= 1 + faults
    /\ claims[k] = "none" => rows[k] <= faults
    /\ \A h \in Owners(k) : pc[h] \in {"persist", "release"} => rows[k] <= faults

ClaimInv == OneOwner /\ \A k \in Keys \ expired : Budget(k)

LEMMA OneOwnerStep ==
    ASSUME IngestTypeOK, OneOwner, NEW h \in Handlers, Handle(h) \/ Break(h) \/ Vacate(h)
    PROVE  OneOwner'
<1> USE IngestAssumption
<1>0. /\ pc \in [Handlers -> Calls \cup {"idle", "answered", "gone"}]
      /\ key \in [Handlers -> Keys \cup {NoKey}]
      /\ claims \in [Keys -> {"none", "in_flight", "done"}]
  BY DEF IngestTypeOK, HandlerType, RedisType
<1>1. \A g \in Handlers \ {h} : pc'[g] = pc[g] /\ key'[g] = key[g]
  BY OthersKeep
\* h becomes an owner by the claim only ...
<1>2. pc'[h] \in OwnerPc /\ key'[h] \in Keys =>
         /\ key'[h] = key[h]
         /\ \/ pc[h] \in OwnerPc /\ UNCHANGED claims
            \/ /\ pc[h] = "claim" /\ claims[key[h]] = "none"
               /\ claims' = [claims EXCEPT ![key[h]] = "in_flight"]
  BY <1>0 DEF Handle, Break, Auth, Lookup, Fill, Vacate, ChargeRequest, ChargeEvents, Claim, Read,
              Complete, Release, Persist, Push, CallFails, AnswerLost, Crash, Admit, Goto, Answer, Raise,
              AfterLimit, AfterCommit, SetClaim, Free, redisVars, OwnerPc
\* ... and changes its own claim only, as an owner or when there is none.
<1>3. \/ UNCHANGED claims
      \/ /\ \E v : claims' = [claims EXCEPT ![key[h]] = v]
         /\ pc[h] \in OwnerPc \/ claims[key[h]] = "none"
  BY <1>0 DEF Handle, Break, Auth, Lookup, Fill, Vacate, ChargeRequest, ChargeEvents, Claim, Read,
              Complete, Release, Persist, Push, CallFails, AnswerLost, Crash, SetClaim, Free, redisVars,
              OwnerPc
<1>. QED  BY <1>0, <1>1, <1>2, <1>3 DEF OneOwner, Owners, OwnerPc

LEMMA BudgetStep ==
    ASSUME IngestTypeOK, OneOwner, NEW h \in Handlers, Handle(h) \/ Break(h) \/ Vacate(h),
           NEW k \in Keys, Budget(k)
    PROVE  Budget(k)'
<1> USE IngestAssumption
<1>0. /\ pc \in [Handlers -> Calls \cup {"idle", "answered", "gone"}]
      /\ key \in [Handlers -> Keys \cup {NoKey}]
      /\ claims \in [Keys -> {"none", "in_flight", "done"}]
      /\ rows \in [Keys \cup {NoKey} -> Nat]
      /\ faults \in Nat
  BY DEF IngestTypeOK, HandlerType, RedisType, StoreType
<1>1. \A g \in Handlers \ {h} : pc'[g] = pc[g] /\ key'[g] = key[g]
  BY OthersKeep
<1>2. faults' \in {faults, faults + 1}
  BY DEF Handle, Break, Auth, Lookup, Fill, Vacate, ChargeRequest, ChargeEvents, Claim, Read,
         Complete, Release, Persist, Push, CallFails, AnswerLost, Crash, Fault
<1>3. CASE key[h] # k
  <2>1. /\ UNCHANGED rows \/ rows' = [rows EXCEPT ![key[h]] = @ + 1]
        /\ UNCHANGED claims \/ \E v : claims' = [claims EXCEPT ![key[h]] = v]
        /\ key'[h] \in {key[h], NoKey}
    BY <1>0 DEF Handle, Break, Auth, Lookup, Fill, Vacate, ChargeRequest, ChargeEvents, Claim, Read,
           Complete, Release, Persist, Push, CallFails, AnswerLost, Crash, SetClaim, redisVars, storeVars
  <2>2. rows'[k] = rows[k] /\ claims'[k] = claims[k]
    BY <1>0, <1>3, <2>1
  <2>3. \A g \in Owners(k)' : g \in Owners(k) /\ pc'[g] = pc[g]
    BY <1>1, <1>3, <2>1 DEF Owners
  <2>. QED  BY <1>0, <1>2, <2>2, <2>3 DEF Budget
<1>4. CASE key[h] = k
  <2>0. \A g \in Owners(k)' : g = h \/ (g \in Owners(k) /\ pc'[g] = pc[g])
    BY <1>1 DEF Owners
  <2>1. CASE Auth(h) \/ Lookup(h) \/ Fill(h) \/ Vacate(h) \/ ChargeRequest(h) \/ ChargeEvents(h) \/ Read(h)
    <3>1. UNCHANGED <<rows, claims>> /\ pc'[h] \notin OwnerPc
      BY <1>0, <1>4, <2>1 DEF Auth, Lookup, Fill, Vacate, ChargeRequest, ChargeEvents, Read, Admit, Goto,
              Answer, AfterLimit, redisVars, storeVars, OwnerPc
    <3>. QED  BY <1>0, <1>2, <2>0, <3>1 DEF Budget, Owners, OwnerPc
  <2>2. CASE Claim(h)
    <3>1. /\ UNCHANGED <<rows, faults>>
          /\ \/ claims[k] = "none" /\ claims'[k] = "in_flight"
             \/ UNCHANGED claims /\ pc'[h] = "read"
      BY <1>0, <1>4, <2>2 DEF Claim, Free, SetClaim, Goto, storeVars
    <3>2. claims[k] = "none" => Owners(k) = {}
      BY DEF OneOwner
    <3>. QED  BY <1>0, <2>0, <3>1, <3>2 DEF Budget, Owners
  <2>3. CASE pc[h] \in OwnerPc /\ (Persist(h) \/ Push(h) \/ Complete(h) \/ Release(h))
    <3>1. \A g \in Owners(k)' : g = h
      BY <1>4, <2>0, <2>3 DEF OneOwner, Owners, OwnerPc
    <3>2. claims[k] = "in_flight" /\ h \in Owners(k)
      BY <1>4, <2>3 DEF OneOwner, Owners, OwnerPc
    <3>3. /\ UNCHANGED faults
          /\ \/ /\ pc[h] = "persist" /\ UNCHANGED claims
                /\ \/ rows'[k] = rows[k]
                   \/ rows'[k] = rows[k] + 1 /\ pc'[h] = "push"
             \/ pc[h] = "push" /\ UNCHANGED <<claims, rows>> /\ pc'[h] \in {"answered", "complete"}
             \/ pc[h] = "complete" /\ UNCHANGED rows /\ claims'[k] = "done" /\ pc'[h] = "answered"
             \/ pc[h] = "release" /\ UNCHANGED rows /\ pc'[h] = "answered"
      BY <1>0, <1>4, <2>3 DEF Persist, Push, Complete, Release, Raise, AfterCommit, Goto, Answer,
              SetClaim, redisVars, storeVars
    <3>. QED  BY <1>0, <3>1, <3>2, <3>3 DEF Budget
  <2>4. CASE Break(h)
    <3>1. faults' = faults + 1 /\ rows'[k] \in {rows[k], rows[k] + 1}
      BY <1>0, <1>4, <2>4 DEF Break, CallFails, AnswerLost, Crash, Fault, storeVars
    <3>2. rows'[k] # rows[k] => pc[h] = "persist"
      BY <1>0, <1>4, <2>4 DEF Break, CallFails, AnswerLost, Crash, storeVars
    <3>3. h \in Owners(k) <=> pc[h] \in OwnerPc
      BY <1>4 DEF Owners, OwnerPc
    <3>4. rows'[k] <= faults'
      BY <1>0, <3>1, <3>2, <3>3 DEF Budget, OwnerPc
    <3>. QED  BY <1>0, <3>1, <3>4 DEF Budget
  <2>5. Persist(h) \/ Push(h) \/ Complete(h) \/ Release(h) => pc[h] \in OwnerPc
    BY DEF Persist, Push, Complete, Release, OwnerPc
  <2>. QED  BY <2>1, <2>2, <2>3, <2>4, <2>5 DEF Handle
<1>. QED  BY <1>3, <1>4

LEMMA ClaimStep == DeliveryTypeOK /\ ClaimInv /\ [Next]_vars => ClaimInv'
<1> SUFFICES ASSUME DeliveryTypeOK, ClaimInv, [Next]_vars
             PROVE  ClaimInv'
  OBVIOUS
<1>0. /\ pc \in [Handlers -> Calls \cup {"idle", "answered", "gone"}]
      /\ key \in [Handlers -> Keys \cup {NoKey}]
      /\ claims \in [Keys -> {"none", "in_flight", "done"}]
  BY DEF DeliveryTypeOK, IngestTypeOK, HandlerType, RedisType
<1>1. ASSUME NEW h \in Handlers, Handle(h) \/ Break(h) \/ Vacate(h)
      PROVE  ClaimInv'
  <2>1. UNCHANGED expired
    BY <1>1 DEF Handle, Break, Auth, Lookup, Fill, Vacate, ChargeRequest, ChargeEvents, Claim, Read,
           Complete, Release, Persist, Push, CallFails, AnswerLost, Crash, clockVars
  <2>. QED  BY <1>1, <2>1, OneOwnerStep, BudgetStep DEF ClaimInv, DeliveryTypeOK
<1>2. ASSUME NEW h \in Handlers, NEW k \in Keys \cup {NoKey}, NEW b \in Bodies, Arrive(h, k, b)
      PROVE  ClaimInv'
  <2>1. UNCHANGED <<claims, rows, faults, expired>>
    BY <1>2 DEF Arrive, redisVars, storeVars, clockVars
  <2>2. \A j \in Keys : \A g \in Owners(j)' : g \in Owners(j) /\ pc'[g] = pc[g]
    BY <1>0, <1>2 DEF Arrive, Goto, Owners
  <2>. QED  BY <2>1, <2>2 DEF ClaimInv, OneOwner, Budget
<1>3. CASE Elapse \/ Revoke
  <2>1. UNCHANGED <<pc, key, rows, faults>>
    BY <1>3 DEF Elapse, CacheExpires, NextWindow, Expire, Revoke, handlerVars, storeVars
  <2>2. \/ UNCHANGED <<claims, expired>>
        \/ \E k \in Keys : /\ Owners(k) = {}
                           /\ claims' = [claims EXCEPT ![k] = "none"]
                           /\ expired' = expired \cup {k}
    BY <1>3 DEF Elapse, CacheExpires, NextWindow, Expire, Revoke, redisVars, clockVars
  <2>3. \A k \in Keys : Owners(k)' = Owners(k)
    BY <2>1 DEF Owners
  <2>. QED  BY <1>0, <2>1, <2>2, <2>3 DEF ClaimInv, OneOwner, Budget
<1>4. CASE UNCHANGED ingestVars
  BY <1>4 DEF ingestVars, handlerVars, redisVars, storeVars, clockVars, ClaimInv, OneOwner, Owners, Budget
<1>. QED  BY <1>1, <1>2, <1>3, <1>4, IngestSteps

LEMMA ClaimInit == Init => ClaimInv
BY IngestAssumption DEF Init, IngestInit, ClaimInv, OneOwner, Owners, Budget

\* However many requests carry one Idempotency-Key, one at a time is between its
\* claim and its response, and the claim stands for as long as it is.
THEOREM OneOwnerPerKey == Spec => []OneOwner
<1>1. ClaimInv => OneOwner
  BY DEF ClaimInv
<1>. QED  BY <1>1, ClaimInit, TypeInit, TypeStep, ClaimStep, PTL DEF Spec

\* Within its 24 hours a key stores one copy, and one more per fault: timeouts
\* and retries of the client add none, for any number of them.
THEOREM OneCopyPerKey == Spec => []OncePerKey
<1>1. ClaimInv => OncePerKey
  BY DEF ClaimInv, Budget, OncePerKey
<1>. QED  BY <1>1, ClaimInit, TypeInit, TypeStep, ClaimStep, PTL DEF Spec

(***************************************************************************)
(* What the SDK counts as delivered, and what it drops.                    *)
(***************************************************************************)

\* A well-formed batch that reaches the API as it was sent.
Honest == content = "good" /\ Inflates

IsStored(k) == rows[k] > 0 /\ jobs[k] > 0

\* Once a key has been claimed, its batch is in a handler, stored, or hit by a fault.
Kept(k) == Owners(k) # {} \/ IsStored(k) \/ faults > 0

\* A request under one of the SDK's keys carries the SDK's batch.
OwnRequests ==
    /\ phase \in {"waiting", "backoff"} => current \in spent
    /\ phase = "waiting" => key[awaiting] = current /\ pc[awaiting] # "idle"
    /\ \A h \in Handlers : key[h] \in Keys => key[h] \in spent /\ body[h] = Wire

\* What the answers to such a request mean.
HonestAnswers ==
    /\ \A h \in Handlers : /\ reply[h] = "unauthorised" => revoked
                           /\ pc[h] \in {"answered", "release"} => reply[h] # "none"
    /\ Honest =>
        /\ \A k \in Keys : claims[k] # "none" => Kept(k)
        /\ \A h \in Handlers : key[h] \in Keys =>
              /\ reply[h] # "invalid"
              /\ pc[h] = "release" => faults > 0
              /\ pc[h] = "read" \/ reply[h] = "conflict" => Kept(key[h])

Outcome ==
    /\ phase = "handled" => \E k \in spent : IsStored(k)
    /\ phase = "dropped" /\ Honest => revoked \/ \E k \in spent : Kept(k)

SentInv == OwnRequests /\ HonestAnswers /\ Outcome

\* A handler keeps what is kept.
LEMMA KeptStays ==
    ASSUME IngestTypeOK, StorageInv, OwnRequests, HonestAnswers, Honest,
           NEW h \in Handlers, Handle(h) \/ Break(h) \/ Vacate(h), NEW k \in Keys, Kept(k)
    PROVE  Kept(k)'
<1> USE IngestAssumption
<1>0. /\ pc \in [Handlers -> Calls \cup {"idle", "answered", "gone"}]
      /\ key \in [Handlers -> Keys \cup {NoKey}]
      /\ rows \in [Keys \cup {NoKey} -> Nat]
      /\ jobs \in [Keys \cup {NoKey} -> Nat]
      /\ faults \in Nat
  BY DEF IngestTypeOK, HandlerType, RedisType, StoreType
<1>1. faults' \in {faults, faults + 1}
  BY DEF Handle, Break, Auth, Lookup, Fill, Vacate, ChargeRequest, ChargeEvents, Claim, Read,
         Complete, Release, Persist, Push, CallFails, AnswerLost, Crash, Fault
<1>2. CASE faults > 0
  BY <1>0, <1>1, <1>2 DEF Kept
<1>3. CASE IsStored(k)
  BY <1>3, OnlyGrows DEF Kept, IsStored
<1>4. ASSUME NEW g \in Owners(k), g # h
      PROVE  Kept(k)'
  <2>1. g \in Owners(k)'
    BY <1>4, OthersKeep DEF Owners
  <2>. QED  BY <2>1 DEF Kept
<1>5. CASE h \in Owners(k)
  <2>1. key[h] = k /\ pc[h] \in OwnerPc
    BY <1>5 DEF Owners, OwnerPc
  <2>2. CASE Break(h)
    BY <1>0, <2>2 DEF Break, CallFails, AnswerLost, Crash, Fault, Kept
  <2>3. CASE pc[h] = "persist"
    <3>1. body[h] = "good"
      BY <2>1 DEF OwnRequests, Wire, Honest
    <3>2. CASE Persist(h)
      <4>1. pc'[h] = "push" /\ key'[h] = k
        BY <1>0, <2>1, <3>1, <3>2 DEF Persist, AfterCommit, Goto
      <4>. QED  BY <4>1 DEF Kept, Owners
    <3>. QED
      BY <2>2, <2>3, <3>2 DEF Handle, Auth, Lookup, Fill, Vacate, ChargeRequest, ChargeEvents, Claim,
             Read, Complete, Release, Push
  <2>4. CASE pc[h] = "push"
    <3>1. CASE Push(h)
      <4>1. pc'[h] = "complete" /\ key'[h] = k
        BY <1>0, <2>1, <3>1 DEF Push, Goto
      <4>. QED  BY <4>1 DEF Kept, Owners
    <3>. QED
      BY <2>2, <2>4, <3>1 DEF Handle, Auth, Lookup, Fill, Vacate, ChargeRequest, ChargeEvents, Claim,
             Read, Complete, Release, Persist
  <2>5. CASE pc[h] = "complete"
    BY <1>0, <1>3, <2>1, <2>5 DEF StorageInv, Progress, IsStored
  <2>6. CASE pc[h] = "release"
    BY <1>2, <2>1, <2>6 DEF HonestAnswers
  <2>. QED  BY <2>1, <2>3, <2>4, <2>5, <2>6 DEF OwnerPc
<1>. QED  BY <1>2, <1>3, <1>4, <1>5 DEF Kept

LEMMA HonestStep ==
    ASSUME IngestTypeOK, StorageInv, OwnRequests, HonestAnswers,
           NEW h \in Handlers, Handle(h) \/ Break(h) \/ Vacate(h), UNCHANGED content
    PROVE  HonestAnswers'
<1> USE IngestAssumption
<1>0. /\ pc \in [Handlers -> Calls \cup {"idle", "answered", "gone"}]
      /\ key \in [Handlers -> Keys \cup {NoKey}]
      /\ reply \in [Handlers -> Statuses]
      /\ claims \in [Keys -> {"none", "in_flight", "done"}]
      /\ faults \in Nat
  BY DEF IngestTypeOK, HandlerType, RedisType
<1>1. UNCHANGED revoked
  BY DEF Handle, Break, Auth, Lookup, Fill, Vacate, ChargeRequest, ChargeEvents, Claim, Read,
         Complete, Release, Persist, Push, CallFails, AnswerLost, Crash, storeVars
<1>2. \A g \in Handlers : reply'[g] = "unauthorised" => revoked
  <2>1. reply'[h] \in {"none", "limited", "replay", "conflict", "ok", "invalid", "error", reply[h]}
            \/ Lookup(h)
    BY <1>0 DEF Handle, Break, Auth, Fill, Vacate, ChargeRequest, ChargeEvents, Claim, Read,
         Complete, Release, Persist, Push, CallFails, AnswerLost, Crash, Admit, Answer, Raise
  <2>2. Lookup(h) => (reply'[h] = "unauthorised" => revoked \/ reply[h] = "unauthorised")
    BY <1>0 DEF Lookup, Usable, Answer
  <2>. QED  BY <2>1, <2>2, OthersKeep DEF HonestAnswers
<1>21. \A g \in Handlers : pc'[g] \in {"answered", "release"} => reply'[g] # "none"
  <2>1. pc'[h] \in {"answered", "release"} => reply'[h] # "none"
    BY <1>0 DEF Handle, Break, Auth, Lookup, Fill, Vacate, ChargeRequest, ChargeEvents, Claim, Read,
         Complete, Release, Persist, Push, CallFails, AnswerLost, Crash, Admit, Answer, Raise, Goto,
         AfterLimit, AfterCommit, HonestAnswers
  <2>. QED  BY <2>1, OthersKeep DEF HonestAnswers
<1>3. ASSUME Honest
      PROVE  \A k \in Keys : claims'[k] # "none" => Kept(k)'
  <2> SUFFICES ASSUME NEW k \in Keys, claims'[k] # "none"
               PROVE  Kept(k)'
    OBVIOUS
  <2>1. CASE claims[k] # "none"
    BY <1>3, <2>1, KeptStays DEF HonestAnswers
  <2>2. CASE claims[k] = "none"
    <3>1. \/ key[h] = k /\ Claim(h) /\ Free(h)
          \/ key[h] = k /\ pc[h] = "complete"
          \/ Break(h)
      BY <1>0, <2>2 DEF Handle, Auth, Lookup, Fill, Vacate, ChargeRequest, ChargeEvents, Claim, Read,
           Complete, Release, Persist, Push, SetClaim, redisVars
    <3>2. CASE key[h] = k /\ Claim(h) /\ Free(h)
      BY <1>0, <3>2 DEF Claim, Goto, Kept, Owners
    <3>3. CASE key[h] = k /\ pc[h] = "complete"
      <4>1. Kept(k)
        BY <3>3 DEF Kept, Owners
      <4>. QED  BY <1>3, <4>1, KeptStays
    <3>4. CASE Break(h)
      BY <1>0, <3>4 DEF Break, CallFails, AnswerLost, Crash, Fault, Kept
    <3>. QED  BY <3>1, <3>2, <3>3, <3>4
  <2>. QED  BY <2>1, <2>2
<1>4. ASSUME Honest, NEW g \in Handlers, key'[g] \in Keys
      PROVE  /\ reply'[g] # "invalid"
             /\ pc'[g] = "release" => faults' > 0
             /\ pc'[g] = "read" \/ reply'[g] = "conflict" => Kept(key[g])'
  <2>0. \/ key'[g] = key[g]
        \/ Vacate(h) /\ g = h /\ key'[g] = NoKey
    BY <1>0, OthersKeep DEF Handle, Break, Auth, Lookup, Fill, Vacate, ChargeRequest, ChargeEvents, Claim, Read,
           Complete, Release, Persist, Push, CallFails, AnswerLost, Crash
  <2>1. key'[g] = key[g] /\ key[g] \in Keys
    BY <1>4, <2>0
  <2>2. faults > 0 => faults' > 0
    BY <1>0 DEF Handle, Break, Auth, Lookup, Fill, Vacate, ChargeRequest, ChargeEvents, Claim, Read,
           Complete, Release, Persist, Push, CallFails, AnswerLost, Crash, Fault
  <2>3. Kept(key[g]) => Kept(key[g])'
    BY <1>4, <2>1, KeptStays DEF Kept, IsStored, Owners
  <2>4. CASE g # h
    BY <1>4, <2>1, <2>2, <2>3, <2>4, OthersKeep DEF HonestAnswers
  <2>5. CASE g = h
    <3>0. body[h] = "good"
      BY <1>4, <2>1, <2>5 DEF OwnRequests, Wire, Honest
    <3>1. reply'[h] # "invalid"
      BY <1>0, <1>4, <2>1, <2>5, <3>0 DEF HonestAnswers, Handle, Break, Auth, Lookup, Fill, Vacate,
           ChargeRequest, ChargeEvents, Claim, Read, Complete, Release, Persist, Push, CallFails,
           AnswerLost, Crash, Admit, Answer, Raise
    <3>2. pc'[h] = "release" => faults' > 0
      BY <1>0, <3>0 DEF Handle, Break, Auth, Lookup, Fill, Vacate,
           ChargeRequest, ChargeEvents, Claim, Read, Complete, Release, Persist, Push, CallFails,
           AnswerLost, Crash, Admit, Answer, Raise, Goto, Fault, AfterLimit, AfterCommit
    <3>3. pc'[h] = "read" => claims[key[h]] # "none" \/ Break(h)
      BY <1>0 DEF Handle, Auth, Lookup, Fill, Vacate,
           ChargeRequest, ChargeEvents, Claim, Read, Complete, Release, Persist, Push,
           Admit, Answer, Raise, Goto, AfterLimit, AfterCommit, Free
    <3>4. reply'[h] = "conflict" => reply[h] = "conflict" \/ pc[h] = "read"
      BY <1>0 DEF Handle, Break, Auth, Lookup, Fill, Vacate,
           ChargeRequest, ChargeEvents, Claim, Read, Complete, Release, Persist, Push, CallFails,
           AnswerLost, Crash, Admit, Answer, Raise
    <3>5. Break(h) => faults' > 0
      BY <1>0 DEF Break, CallFails, AnswerLost, Crash, Fault
    <3>6. faults' > 0 => Kept(key[g])'
      BY DEF Kept
    <3>7. pc'[h] = "read" \/ reply'[h] = "conflict" => Kept(key[g])'
      BY <1>4, <2>1, <2>3, <2>5, <3>3, <3>4, <3>5, <3>6 DEF HonestAnswers
    <3>. QED  BY <2>5, <3>1, <3>2, <3>7
  <2>. QED  BY <2>4, <2>5
<1>5. ASSUME Honest, NEW g \in Handlers, key'[g] \in Keys
      PROVE  key'[g] = key[g]
  BY <1>0, <1>5, IngestAssumption, OthersKeep DEF Handle, Break, Auth, Lookup, Fill, Vacate, ChargeRequest,
     ChargeEvents, Claim, Read, Complete, Release, Persist, Push, CallFails, AnswerLost, Crash
<1>6. Honest' = Honest
  BY DEF Honest
<1>. QED  BY <1>1, <1>2, <1>21, <1>3, <1>4, <1>5, <1>6 DEF HonestAnswers, Kept, IsStored, Owners

\* A handler's step under the SDK's batch as it stands.
LEMMA ApiSent ==
    ASSUME IngestTypeOK, BatchType, StorageInv, SentInv,
           NEW h \in Handlers, Handle(h) \/ Break(h) \/ Vacate(h),
           UNCHANGED <<content, phase, current, spent, awaiting>>,
           pc'[h] = "idle" => awaiting # h
    PROVE  SentInv'
<1> USE IngestAssumption, DeliveryAssumption
<1>0. /\ pc \in [Handlers -> Calls \cup {"idle", "answered", "gone"}]
      /\ key \in [Handlers -> Keys \cup {NoKey}]
      /\ spent \subseteq Keys
      /\ phase = "waiting" => awaiting \in Handlers
  BY DEF IngestTypeOK, HandlerType, BatchType
<1>1. \/ UNCHANGED <<key, body>> /\ pc'[h] # "idle"
      \/ pc'[h] = "idle" /\ key'[h] = NoKey /\ \A g \in Handlers \ {h} : body'[g] = body[g]
  <2>1. CASE Vacate(h)
    BY <1>0, <2>1 DEF Vacate, Goto, IngestTypeOK, HandlerType
  <2>2. CASE Handle(h) \/ Break(h)
    <3>1. UNCHANGED <<key, body>>
      BY <2>2 DEF Handle, Break, Auth, Lookup, Fill, ChargeRequest, ChargeEvents, Claim, Read,
         Complete, Release, Persist, Push, CallFails, AnswerLost, Crash
    <3>2. pc'[h] # "idle"
      BY <1>0, <2>2 DEF Handle, Break, Auth, Lookup, Fill, ChargeRequest, ChargeEvents, Claim, Read,
         Complete, Release, Persist, Push, CallFails, AnswerLost, Crash, Admit, Goto, Answer, Raise,
         AfterLimit, AfterCommit
    <3>. QED  BY <3>1, <3>2
  <2>. QED  BY <2>1, <2>2
<1>2. OwnRequests'
  <2>1. OwnRequests
    BY DEF SentInv
  <2>2. Wire' = Wire
    BY DEF Wire
  <2>3. phase = "waiting" => key'[awaiting] = current /\ pc'[awaiting] # "idle"
    BY <1>0, <1>1, <2>1, OthersKeep DEF OwnRequests
  <2>4. \A g \in Handlers : key'[g] \in Keys => key'[g] \in spent /\ body'[g] = Wire
    BY <1>0, <1>1, <2>1, OthersKeep DEF OwnRequests
  <2>. QED  BY <2>1, <2>2, <2>3, <2>4 DEF OwnRequests
<1>3. HonestAnswers'
  BY HonestStep DEF SentInv
<1>4. Outcome'
  <2>1. Outcome /\ OwnRequests /\ HonestAnswers
    BY DEF SentInv
  <2>2. \A k \in spent : IsStored(k) => IsStored(k)'
    BY <1>0, OnlyGrows DEF IsStored
  <2>3. Honest => (\A k \in spent : Kept(k) => Kept(k)')
    BY <1>0, <2>1, KeptStays
  <2>4. UNCHANGED revoked
    BY DEF Handle, Break, Auth, Lookup, Fill, Vacate, ChargeRequest, ChargeEvents, Claim, Read,
         Complete, Release, Persist, Push, CallFails, AnswerLost, Crash, storeVars
  <2>. QED  BY <2>1, <2>2, <2>3, <2>4 DEF Outcome, Honest, Kept, IsStored, Owners
<1>. QED  BY <1>2, <1>3, <1>4 DEF SentInv

\* A new request changes nothing that was kept.
LEMMA ArriveKept ==
    ASSUME IngestTypeOK, HonestAnswers, UNCHANGED content,
           NEW h \in Handlers, NEW k \in Keys \cup {NoKey}, NEW b \in Bodies, Arrive(h, k, b)
    PROVE  /\ HonestAnswers'
           /\ \A j \in Keys : (Kept(j) => Kept(j)') /\ (IsStored(j) => IsStored(j)')
<1>0. /\ pc \in [Handlers -> Calls \cup {"idle", "answered", "gone"}]
      /\ key \in [Handlers -> Keys \cup {NoKey}]
      /\ reply \in [Handlers -> Statuses]
  BY DEF IngestTypeOK, HandlerType
<1>1. UNCHANGED <<claims, rows, jobs, revoked, faults>>
  BY DEF Arrive, redisVars, storeVars
<1>2. \A j \in Keys : Owners(j) \subseteq Owners(j)'
  BY <1>0 DEF Arrive, Goto, Owners
<1>3. \A j \in Keys : (Kept(j) => Kept(j)') /\ (IsStored(j) => IsStored(j)')
  BY <1>1, <1>2 DEF Kept, IsStored
<1>4. \A g \in Handlers : \/ pc'[g] = pc[g] /\ key'[g] = key[g] /\ reply'[g] = reply[g]
                          \/ pc'[g] = "auth" /\ reply'[g] = "none"
  <2>1. pc'[h] = "auth" /\ reply'[h] = "none"
    BY <1>0 DEF Arrive, Goto
  <2>2. \A g \in Handlers \ {h} : pc'[g] = pc[g] /\ key'[g] = key[g] /\ reply'[g] = reply[g]
    BY <1>0 DEF Arrive, Goto
  <2>. QED  BY <2>1, <2>2
<1>5. Honest' = Honest
  BY DEF Honest
<1>6. ASSUME NEW g \in Handlers
      PROVE  /\ reply'[g] = "unauthorised" => revoked'
             /\ pc'[g] \in {"answered", "release"} => reply'[g] # "none"
  BY <1>1, <1>4 DEF HonestAnswers
<1>7. ASSUME Honest, NEW g \in Handlers, key'[g] \in Keys
      PROVE  /\ reply'[g] # "invalid"
             /\ pc'[g] = "release" => faults' > 0
             /\ pc'[g] = "read" \/ reply'[g] = "conflict" => Kept(key[g])'
  <2>1. CASE pc'[g] = "auth" /\ reply'[g] = "none"
    BY <2>1
  <2>2. CASE pc'[g] = pc[g] /\ key'[g] = key[g] /\ reply'[g] = reply[g]
    <3>1. key[g] \in Keys /\ (Kept(key[g]) => Kept(key[g])')
      BY <1>1, <1>2, <1>7, <2>2 DEF Kept, IsStored
    <3>. QED  BY <1>1, <1>7, <2>2, <3>1 DEF HonestAnswers
  <2>. QED  BY <1>4, <2>1, <2>2
<1>. QED  BY <1>1, <1>3, <1>5, <1>6, <1>7 DEF HonestAnswers

LEMMA SentStep ==
    ASSUME DeliveryTypeOK, StorageInv, SentInv, [Next]_vars
    PROVE  SentInv'
<1> USE IngestAssumption, DeliveryAssumption
<1>0. /\ IngestTypeOK /\ BatchType
      /\ OwnRequests /\ HonestAnswers /\ Outcome
      /\ pc \in [Handlers -> Calls \cup {"idle", "answered", "gone"}]
      /\ key \in [Handlers -> Keys \cup {NoKey}]
      /\ body \in [Handlers -> Bodies]
      /\ spent \subseteq Keys
      /\ phase = "waiting" <=> awaiting # NoHandler
      /\ awaiting \in Handlers \cup {NoHandler}
  BY DEF DeliveryTypeOK, IngestTypeOK, HandlerType, BatchType, SentInv
<1>01. Wire \in Bodies
  BY <1>0 DEF BatchType, Wire, Bodies
<1>1. ASSUME NEW h \in Handlers, Api(h)
      PROVE  SentInv'
  <2>1. pc'[h] # "idle"
    BY <1>0, <1>1 DEF Api, Handle, Break, Auth, Lookup, Fill, ChargeRequest, ChargeEvents, Claim, Read,
         Complete, Release, Persist, Push, CallFails, AnswerLost, Crash, Admit, Goto, Answer, Raise,
         AfterLimit, AfterCommit
  <2>. QED  BY <1>0, <1>1, <2>1, ApiSent DEF Api, batchVars
<1>2. ASSUME NEW h \in Handlers, Discard(h)
      PROVE  SentInv'
  BY <1>0, <1>2, ApiSent DEF Discard, batchVars
<1>3. ASSUME NEW h \in Handlers, NEW k \in Keys, Send(h, k), spent' = spent \cup {k}
      PROVE  SentInv'
  <2>1. Arrive(h, k, Wire) /\ phase' = "waiting" /\ current' = k /\ awaiting' = h
        /\ UNCHANGED content
    BY <1>3 DEF Send
  <2>2. HonestAnswers'
    BY <1>0, <1>01, <2>1, ArriveKept
  <2>3. OwnRequests'
    <3>1. Wire' = Wire
      BY <2>1 DEF Wire
    <3>2. /\ pc'[h] = "auth" /\ key'[h] = k /\ body'[h] = Wire
          /\ \A g \in Handlers \ {h} : key'[g] = key[g] /\ body'[g] = body[g]
      BY <1>0, <2>1 DEF Arrive, Goto
    <3>. QED  BY <1>0, <1>3, <2>1, <3>1, <3>2 DEF OwnRequests
  <2>4. Outcome'
    BY <2>1 DEF Outcome
  <2>. QED  BY <2>2, <2>3, <2>4 DEF SentInv
<1>4. ASSUME NEW h \in Handlers, First(h)
      PROVE  SentInv'
  BY <1>3, <1>4 DEF First
<1>5. ASSUME NEW h \in Handlers, Again(h)
      PROVE  SentInv'
  <2>1. current \in spent /\ current \in Keys /\ spent' = spent \cup {current} /\ Send(h, current)
    BY <1>0, <1>5 DEF Again, OwnRequests
  <2>. QED  BY <1>3, <2>1
<1>6. ASSUME NEW h \in Handlers, Receive(h)
      PROVE  SentInv'
  <2>1. /\ awaiting = h /\ Vacate(h) /\ awaiting' = NoHandler
        /\ phase' = AfterStatus(IF pc[h] = "gone" THEN "error" ELSE reply[h])
        /\ UNCHANGED <<content, attempt, current, spent>>
        /\ pc[h] \in {"answered", "gone"}
    BY <1>6 DEF Receive, Vacate
  <2>2. phase = "waiting" /\ key[h] = current /\ current \in spent /\ current \in Keys
    BY <1>0, <2>1 DEF OwnRequests
  <2>3. OwnRequests'
    <3>1. phase' \in Phases \ {"waiting"}
      BY <2>1 DEF AfterStatus, AfterFailure, Phases
    <3>2. \A g \in Handlers : key'[g] \in Keys => key'[g] = key[g] /\ body'[g] = body[g]
      BY <1>0, <2>1 DEF Vacate
    <3>. QED  BY <1>0, <2>1, <2>2, <3>1, <3>2 DEF OwnRequests, Wire
  <2>4. HonestAnswers'
    BY <1>0, <2>1, HonestStep
  <2>5. /\ phase' = "handled" => pc[h] = "answered" /\ reply[h] \in {"ok", "replay"}
        /\ phase' = "dropped" => /\ pc[h] = "answered"
                                /\ reply[h] \notin {"ok", "replay", "limited", "error"}
    BY <2>1 DEF AfterStatus, AfterFailure, Retryable
  <2>6. phase' = "handled" => IsStored(current)
    BY <1>0, <2>2, <2>5 DEF StorageInv, Progress, IsStored
  <2>7. phase' = "dropped" /\ Honest => revoked \/ Kept(current)
    <3>1. reply[h] \in Statuses
      BY <1>0 DEF IngestTypeOK, HandlerType
    <3>2. pc[h] = "answered" => reply[h] # "none"
      BY <1>0 DEF HonestAnswers
    <3>. QED  BY <1>0, <2>2, <2>5, <3>1, <3>2 DEF HonestAnswers, Statuses
  <2>8. UNCHANGED <<rows, jobs, faults, revoked>> /\ Owners(current) \subseteq Owners(current)'
    BY <1>0, <2>1 DEF Vacate, Goto, redisVars, storeVars, Owners
  <2>9. Outcome'
    BY <2>1, <2>2, <2>6, <2>7, <2>8 DEF Outcome, Honest, Kept, IsStored
  <2>. QED  BY <2>3, <2>4, <2>9 DEF SentInv
<1>7. ASSUME NEW h \in Handlers, Other(h)
      PROVE  SentInv'
  <2>1. PICK b \in {"good", "invalid"} : Arrive(h, NoKey, b)
    BY <1>7 DEF Other
  <2>2. UNCHANGED <<content, phase, current, spent, awaiting>>
    BY <1>7 DEF Other, batchVars
  <2>3. b \in Bodies
    BY DEF Bodies
  <2>4. HonestAnswers' /\ \A j \in Keys : (Kept(j) => Kept(j)') /\ (IsStored(j) => IsStored(j)')
    BY <1>0, <2>1, <2>2, <2>3, ArriveKept
  <2>5. UNCHANGED revoked /\ pc[h] = "idle"
    BY <2>1 DEF Arrive, storeVars
  <2>6. Outcome'
    BY <1>0, <2>2, <2>4, <2>5 DEF Outcome, Honest
  <2>7. OwnRequests'
    <3>1. /\ key'[h] = NoKey
          /\ \A g \in Handlers \ {h} : key'[g] = key[g] /\ body'[g] = body[g] /\ pc'[g] = pc[g]
      BY <1>0, <2>1 DEF Arrive, Goto
    <3>. QED  BY <1>0, <2>2, <2>5, <3>1 DEF OwnRequests, Wire
  <2>. QED  BY <2>4, <2>6, <2>7 DEF SentInv
<1>8. CASE GiveUp
  <2>1. UNCHANGED <<ingestVars, content, current, spent>> /\ phase' \in {"backoff", "ready"}
        /\ phase = "waiting"
    BY <1>8 DEF GiveUp, AfterFailure
  <2>. QED
    BY <1>0, <2>1 DEF ingestVars, handlerVars, redisVars, storeVars, SentInv, OwnRequests,
       HonestAnswers, Outcome, Honest, Kept, IsStored, Owners, Wire
<1>9. CASE Environment
  <2>1. /\ UNCHANGED <<batchVars, handlerVars, rows, jobs, faults>>
        /\ revoked => revoked'
    BY <1>9 DEF Environment, Elapse, CacheExpires, NextWindow, Expire, Revoke, redisVars, storeVars
  <2>2. \A k \in Keys : claims'[k] \in {claims[k], "none"}
    BY <1>0, <1>9 DEF Environment, Elapse, CacheExpires, NextWindow, Expire, Revoke, redisVars,
       IngestTypeOK, RedisType
  <2>. QED
    BY <1>0, <2>1, <2>2 DEF batchVars, handlerVars, SentInv, OwnRequests, HonestAnswers, Outcome, Honest,
       Kept, IsStored, Owners, Wire
<1>10. CASE UNCHANGED vars
  BY <1>0, <1>10 DEF vars, batchVars, ingestVars, handlerVars, redisVars, storeVars, SentInv, OwnRequests,
     HonestAnswers, Outcome, Honest, Kept, IsStored, Owners, Wire
<1>. QED  BY <1>1, <1>2, <1>4, <1>5, <1>6, <1>7, <1>8, <1>9, <1>10 DEF Next

\* For any number of requests, retries, timeouts and schedules: what the SDK
\* counts as delivered is stored and queued, and a well-formed batch it drops
\* without a revocation is stored, on its way, or was hit by a fault.
THEOREM DeliveredIsStored == Spec => []NothingLost
<1>1. Init => StorageInv
  BY DEF Init, IngestInit, StorageInv, DoneIsStored, Progress
<1>2. Init => SentInv
  BY IngestAssumption
  DEF Init, IngestInit, SentInv, OwnRequests, HonestAnswers, Outcome, Honest, Kept, IsStored, Owners
<1>3. DeliveryTypeOK /\ SentInv => NothingLost
  <2> SUFFICES ASSUME DeliveryTypeOK, SentInv
               PROVE  NothingLost
    OBVIOUS
  <2>1. \A k \in spent : IsStored(k) => Stored # {}
    BY DEF IsStored, Stored
  <2>2. \A k \in spent : Owners(k) # {} => UnderWay
    BY DEF Owners, UnderWay, Calls
  <2>. QED
    BY <2>1, <2>2 DEF DeliveryTypeOK, IngestTypeOK, SentInv, Outcome, Honest, Kept, NothingLost
<1>4. DeliveryTypeOK /\ StorageInv /\ SentInv /\ [Next]_vars => SentInv'
  BY SentStep
<1>. QED  BY <1>1, <1>2, <1>3, <1>4, TypeInit, TypeStep, StorageStep, PTL DEF Spec
=============================================================================
