------------------------------- MODULE Ingest -------------------------------
(***************************************************************************)
(* POST /v1/events: the handler receive_events() of                        *)
(* apps/api/roottrace_api/ingest/router.py with idempotency.py, ratelimit.py,*)
(* keys.py and repository.py, over one Redis and one Postgres, for the     *)
(* requests of one project made with one API key.                          *)
(*                                                                         *)
(* A step is one await of the handler: one command to Redis or one         *)
(* transaction of Postgres, at which other requests interleave, the call   *)
(* may fail (with its effect or without) and the process may die.          *)
(***************************************************************************)
EXTENDS Integers, FiniteSets

CONSTANTS
    Handlers,       \* slots for requests being handled, over all processes
    Keys,           \* Idempotency-Key values
    NoKey,          \* a request without that header
    BatchEvents,    \* events in a batch
    RequestLimit,   \* requests_per_minute
    EventLimit,     \* events_per_minute
    MaxWindow,      \* bound: the last rate-limit window
    MaxFaults       \* bound: failed calls and dead processes

ASSUME IngestAssumption ==
    /\ NoKey \notin Keys
    /\ BatchEvents \in Nat /\ RequestLimit \in Nat /\ EventLimit \in Nat
    /\ MaxWindow \in Nat /\ MaxFaults \in Nat

VARIABLES
    pc,         \* handler -> the await it is about to make
    key,        \* handler -> its Idempotency-Key
    body,       \* handler -> what its request body holds
    reply,      \* handler -> the status it answers, or is going to
    window,     \* handler -> the window its request is charged to
    claims,     \* Redis rt:idem:*: none, in_flight, or the stored response
    cached,     \* Redis rt:apikey:*: is the resolved key cached?
    used,       \* Redis rt:rl:*: window -> requests and events charged
    jobs,       \* Redis rt:ingest: key -> how often its batch was queued
    rows,       \* Postgres raw_events: key -> how often its batch was stored
    revoked,    \* Postgres api_keys.revoked_at is not null
    now,        \* the current window
    expired,    \* keys whose claim has run out of its 24 hours
    faults

handlerVars == <<pc, key, body, reply, window>>
redisVars   == <<claims, cached, used, jobs>>
storeVars   == <<rows, revoked>>
clockVars   == <<now, expired>>
ingestVars  == <<handlerVars, redisVars, storeVars, clockVars, faults>>

Calls    == {"auth", "lookup", "fill", "request", "events", "claim", "read",
             "persist", "push", "complete", "release"}
\* A body without a valid event, one Postgres cannot store (a NUL character in a
\* jsonb), one that is no JSON.
Bodies   == {"good", "invalid", "poison", "garbled"}
Statuses == {"none", "ok", "replay", "conflict", "limited", "invalid", "unauthorised",
             "error"}

-----------------------------------------------------------------------------
Goto(h, where) == pc' = [pc EXCEPT ![h] = where]

Answer(h, status) ==
    /\ Goto(h, "answered")
    /\ reply' = [reply EXCEPT ![h] = status]

\* A request of any client arrives.
Arrive(h, k, b) ==
    /\ pc[h] = "idle"
    /\ Goto(h, "auth")
    /\ key' = [key EXCEPT ![h] = k]
    /\ body' = [body EXCEPT ![h] = b]
    /\ reply' = [reply EXCEPT ![h] = "none"]
    /\ UNCHANGED <<window, redisVars, storeVars, clockVars, faults>>

\* The key is good: the body is parsed before anything is charged.
Admit(h) ==
    IF body[h] = "garbled" THEN Answer(h, "invalid") ELSE Goto(h, "request") /\ UNCHANGED reply

\* _resolve(): redis.get
Auth(h) ==
    /\ pc[h] = "auth"
    /\ IF cached THEN Admit(h) ELSE Goto(h, "lookup") /\ UNCHANGED reply
    /\ UNCHANGED <<key, body, window, redisVars, storeVars, clockVars, faults>>

\* repository.resolve_key()'s "revoked_at is null"
Usable == ~revoked

Lookup(h) ==
    /\ pc[h] = "lookup"
    /\ IF Usable THEN Goto(h, "fill") /\ UNCHANGED reply ELSE Answer(h, "unauthorised")
    /\ UNCHANGED <<key, body, window, redisVars, storeVars, clockVars, faults>>

\* redis.set of the resolved key, ex=60
Fill(h) ==
    /\ pc[h] = "fill"
    /\ cached' = TRUE
    /\ Admit(h)
    /\ UNCHANGED <<key, body, window, claims, used, jobs, storeVars, clockVars, faults>>

-----------------------------------------------------------------------------
(* ratelimit.consume(): two buckets, charged one after the other.          *)

Charged(w, dimension, cost) == used' = [used EXCEPT ![w][dimension] = @ + cost]

\* Mutant: INCRBY, without the comparison.
Fits_Always(w, dimension, cost, limit) == TRUE

\* The script refuses what does not fit and charges nothing for it.
Fits(w, dimension, cost, limit) == used[w][dimension] + cost <= limit

ChargeRequest(h) ==
    /\ pc[h] = "request"
    /\ window' = [window EXCEPT ![h] = now]
    /\ \/ /\ Fits(now, "req", 1, RequestLimit)
          /\ Charged(now, "req", 1)
          /\ Goto(h, "events")
          /\ UNCHANGED reply
       \/ /\ ~Fits(now, "req", 1, RequestLimit)
          /\ Answer(h, "limited")
          /\ UNCHANGED used
    /\ UNCHANGED <<key, body, claims, cached, jobs, storeVars, clockVars, faults>>

\* What follows an admitted request.
AfterLimit(h) == IF key[h] = NoKey THEN "persist" ELSE "claim"

ChargeEvents(h) ==
    /\ pc[h] = "events"
    /\ \/ /\ Fits(window[h], "evt", BatchEvents, EventLimit)
          /\ Charged(window[h], "evt", BatchEvents)
          /\ Goto(h, AfterLimit(h))
          /\ UNCHANGED reply
       \/ /\ ~Fits(window[h], "evt", BatchEvents, EventLimit)
          /\ Answer(h, "limited")
          /\ UNCHANGED used
    /\ UNCHANGED <<key, body, window, claims, cached, jobs, storeVars, clockVars, faults>>

-----------------------------------------------------------------------------
(* idempotency.claim(), complete() and release().                          *)

SetClaim(h, value) == claims' = [claims EXCEPT ![key[h]] = value]

\* SET NX succeeds.
Free(h) == claims[key[h]] = "none"

Claim(h) ==
    /\ pc[h] = "claim"
    /\ IF Free(h) THEN SetClaim(h, "in_flight") /\ Goto(h, "persist")
                  ELSE UNCHANGED claims /\ Goto(h, "read")
    /\ UNCHANGED <<key, body, reply, window, cached, used, jobs, storeVars, clockVars, faults>>

\* The GET after a SET NX that failed; the claim may have expired in between.
Read(h) ==
    /\ pc[h] = "read"
    /\ Answer(h, IF claims[key[h]] = "done" THEN "replay" ELSE "conflict")
    /\ UNCHANGED <<key, body, window, redisVars, storeVars, clockVars, faults>>

\* Mutant: the claim is dropped, and no response stored.
Complete_Drops(h) ==
    /\ pc[h] = "complete"
    /\ SetClaim(h, "none")
    /\ Answer(h, "ok")
    /\ UNCHANGED <<key, body, window, cached, used, jobs, storeVars, clockVars, faults>>

Complete(h) ==
    /\ pc[h] = "complete"
    /\ SetClaim(h, "done")
    /\ Answer(h, "ok")
    /\ UNCHANGED <<key, body, window, cached, used, jobs, storeVars, clockVars, faults>>

Release(h) ==
    /\ pc[h] = "release"
    /\ SetClaim(h, "none")
    /\ Goto(h, "answered")
    /\ UNCHANGED <<key, body, reply, window, cached, used, jobs, storeVars, clockVars, faults>>

-----------------------------------------------------------------------------
(* _persist()                                                              *)

\* An exception leaves the handler here: inside the try, the claim goes first.
Raise(h, status) ==
    IF pc[h] \in {"persist", "push"} /\ key[h] # NoKey
    THEN Goto(h, "release") /\ reply' = [reply EXCEPT ![h] = status]
    ELSE Answer(h, status)

\* Mutant: the jobs of a stored batch are not queued.
AfterCommit_Forgets(h) == "complete"

AfterCommit(h) == "push"

\* validate_batch() and the transaction
Persist(h) ==
    /\ pc[h] = "persist"
    /\ \/ /\ body[h] = "invalid"
          /\ Raise(h, "invalid")
          /\ UNCHANGED rows
       \/ /\ body[h] = "poison"
          /\ Raise(h, "error")
          /\ UNCHANGED rows
       \/ /\ body[h] = "good"
          /\ rows' = [rows EXCEPT ![key[h]] = @ + 1]
          /\ Goto(h, AfterCommit(h))
          /\ UNCHANGED reply
    /\ UNCHANGED <<key, body, window, redisVars, revoked, clockVars, faults>>

\* redis.rpush
Push(h) ==
    /\ pc[h] = "push"
    /\ jobs' = [jobs EXCEPT ![key[h]] = @ + 1]
    /\ IF key[h] = NoKey THEN Answer(h, "ok") ELSE Goto(h, "complete") /\ UNCHANGED reply
    /\ UNCHANGED <<key, body, window, claims, cached, used, storeVars, clockVars, faults>>

-----------------------------------------------------------------------------
(* Faults and time.                                                        *)

Fault == faults < MaxFaults /\ faults' = faults + 1

\* A call fails before it did anything (an invalid batch makes no call).
CallFails(h) ==
    /\ pc[h] \in Calls
    /\ pc[h] = "persist" => body[h] = "good"
    /\ Fault
    /\ Raise(h, "error")
    /\ UNCHANGED <<key, body, window, redisVars, storeVars, clockVars>>

\* A call does its work and its answer is lost.
AnswerLost(h) ==
    /\ Fault
    /\ Raise(h, "error")
    /\ \/ /\ pc[h] = "fill"
          /\ cached' = TRUE
          /\ UNCHANGED <<claims, used, jobs, rows>>
       \/ /\ \/ pc[h] = "request" /\ Fits(now, "req", 1, RequestLimit) /\ Charged(now, "req", 1)
             \/ /\ pc[h] = "events"
                /\ Fits(window[h], "evt", BatchEvents, EventLimit)
                /\ Charged(window[h], "evt", BatchEvents)
          /\ UNCHANGED <<claims, cached, jobs, rows>>
       \/ /\ \/ pc[h] = "claim" /\ Free(h) /\ SetClaim(h, "in_flight")
             \/ pc[h] = "complete" /\ SetClaim(h, "done")
             \/ pc[h] = "release" /\ SetClaim(h, "none")
          /\ UNCHANGED <<cached, used, jobs, rows>>
       \/ /\ pc[h] = "persist"
          /\ body[h] = "good"
          /\ rows' = [rows EXCEPT ![key[h]] = @ + 1]
          /\ UNCHANGED <<claims, cached, used, jobs>>
       \/ /\ pc[h] = "push"
          /\ jobs' = [jobs EXCEPT ![key[h]] = @ + 1]
          /\ UNCHANGED <<claims, cached, used, rows>>
    /\ UNCHANGED <<key, body, window, revoked, clockVars>>

\* The process of the handler dies, or is told to stop: a CancelledError is no
\* Exception, and releases nothing.
Crash(h) ==
    /\ pc[h] \in Calls
    /\ Fault
    /\ Goto(h, "gone")
    /\ UNCHANGED <<key, body, reply, window, redisVars, storeVars, clockVars>>

\* The handlers that hold the claim of k.
Owners(k) ==
    {h \in Handlers : key[h] = k /\ pc[h] \in {"persist", "push", "complete", "release"}}

\* Mutant: the claim is set without ex=.
Expire_Never(k) == FALSE /\ UNCHANGED ingestVars

\* The 24 hours of a claim are over.  A handler takes less than that.
Expire(k) ==
    /\ claims[k] # "none"
    /\ Owners(k) = {}
    /\ claims' = [claims EXCEPT ![k] = "none"]
    /\ expired' = expired \cup {k}
    /\ UNCHANGED <<handlerVars, cached, used, jobs, storeVars, now, faults>>

\* The 60 seconds of the cached key are over.
CacheExpires ==
    /\ cached
    /\ cached' = FALSE
    /\ UNCHANGED <<handlerVars, claims, used, jobs, storeVars, clockVars, faults>>

NextWindow ==
    /\ now < MaxWindow
    /\ now' = now + 1
    /\ UNCHANGED <<handlerVars, redisVars, storeVars, expired, faults>>

\* Someone sets api_keys.revoked_at.
Revoke ==
    /\ ~revoked
    /\ revoked' = TRUE
    /\ UNCHANGED <<handlerVars, redisVars, rows, clockVars, faults>>

-----------------------------------------------------------------------------
IngestInit ==
    /\ pc = [h \in Handlers |-> "idle"]
    /\ key = [h \in Handlers |-> NoKey]
    /\ body = [h \in Handlers |-> "good"]
    /\ reply = [h \in Handlers |-> "none"]
    /\ window = [h \in Handlers |-> 0]
    /\ claims = [k \in Keys |-> "none"]
    /\ cached = FALSE
    /\ used = [w \in 0 .. MaxWindow |-> [req |-> 0, evt |-> 0]]
    /\ jobs = [k \in Keys \cup {NoKey} |-> 0]
    /\ rows = [k \in Keys \cup {NoKey} |-> 0]
    /\ revoked = FALSE
    /\ now = 0
    /\ expired = {}
    /\ faults = 0

\* What a handler does when nothing fails.
Handle(h) ==
    \/ Auth(h) \/ Lookup(h) \/ Fill(h)
    \/ ChargeRequest(h) \/ ChargeEvents(h)
    \/ Claim(h) \/ Read(h)
    \/ Persist(h) \/ Push(h)
    \/ Complete(h) \/ Release(h)

\* A slot is free again once nobody waits for its answer.
Vacate(h) ==
    /\ pc[h] \in {"answered", "gone"}
    /\ Goto(h, "idle")
    /\ key' = [key EXCEPT ![h] = NoKey]
    /\ body' = [body EXCEPT ![h] = "good"]
    /\ reply' = [reply EXCEPT ![h] = "none"]
    /\ window' = [window EXCEPT ![h] = 0]
    /\ UNCHANGED <<redisVars, storeVars, clockVars, faults>>

Break(h) == CallFails(h) \/ AnswerLost(h) \/ Crash(h)

Elapse == CacheExpires \/ NextWindow \/ \E k \in Keys : Expire(k)

-----------------------------------------------------------------------------
(* Properties.                                                             *)

HandlerType ==
    /\ pc \in [Handlers -> Calls \cup {"idle", "answered", "gone"}]
    /\ key \in [Handlers -> Keys \cup {NoKey}]
    /\ body \in [Handlers -> Bodies]
    /\ reply \in [Handlers -> Statuses]
    /\ window \in [Handlers -> 0 .. MaxWindow]

RedisType ==
    /\ claims \in [Keys -> {"none", "in_flight", "done"}]
    /\ cached \in BOOLEAN
    /\ used \in [0 .. MaxWindow -> [req : 0 .. RequestLimit, evt : 0 .. EventLimit]]
    /\ jobs \in [Keys \cup {NoKey} -> Nat]

StoreType == rows \in [Keys \cup {NoKey} -> Nat] /\ revoked \in BOOLEAN

ClockType == now \in 0 .. MaxWindow /\ expired \subseteq Keys

IngestTypeOK == HandlerType /\ RedisType /\ StoreType /\ ClockType /\ faults \in 0 .. MaxFaults

\* Between claim and response a key has one handler, and as long as it has, the
\* claim stands: two requests never both store a batch under one key at a time.
OneOwner ==
    \A k \in Keys :
        /\ \A g, h \in Owners(k) : g = h
        /\ Owners(k) # {} => claims[k] = "in_flight"

\* A response that says the batch was taken, first-hand or replayed, is true:
\* the batch is in raw_events and its jobs are queued, whatever failed before.
TakenIsStored ==
    /\ \A h \in Handlers :
          pc[h] = "answered" /\ reply[h] \in {"ok", "replay"} =>
              rows[key[h]] > 0 /\ jobs[key[h]] > 0
    /\ \A k \in Keys : claims[k] = "done" => rows[k] > 0 /\ jobs[k] > 0

\* Under one key a batch is stored once, and again only after a fault or when
\* the 24 hours are over: timeouts and retries of the client do not add copies.
OncePerKey == \A k \in Keys \ expired : rows[k] <= 1 + faults

\* A claim never outlives the day it was made for, not even after a crash.
ClaimsEnd == \A k \in Keys : claims[k] = "in_flight" ~> claims[k] # "in_flight"

\* A revoked key is refused for good once its cached entry has expired.
RevocationHolds ==
    revoked ~> [](\A h \in Handlers : pc[h] \notin Calls \ {"auth", "lookup"})

\* What has a time to live is not relied on for longer: the claim of a process
\* that died ends, and so does the cached word of a revoked key.
LivesEnd == ClaimsEnd /\ RevocationHolds
=============================================================================
