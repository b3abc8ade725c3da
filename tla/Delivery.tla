------------------------------ MODULE Delivery ------------------------------
(***************************************************************************)
(* One batch of the SDK on its way into raw_events: _send_with_retry() of  *)
(* packages/sdk-python/roottrace_sdk/_client.py and HttpTransport.send(),  *)
(* against the ingest endpoint.  A request the client has given up waiting *)
(* for goes on in the API; a schedule of attempts uses one Idempotency-Key, *)
(* the next schedule, after put_back(), another.  Other clients of the same *)
(* project send requests of their own.                                     *)
(***************************************************************************)
EXTENDS Ingest

CONSTANTS
    NoHandler,      \* the client waits for no answer
    MaxAttempts,    \* config.max_attempts
    MaxOthers,      \* bound: batches of other clients
    Inflates,       \* does something before the API undo the SDK's gzip?
    Contents        \* what the SDK's batch may hold

ASSUME DeliveryAssumption ==
    /\ NoHandler \notin Handlers
    /\ MaxAttempts \in Nat \ {0} /\ MaxOthers \in Nat
    /\ Inflates \in BOOLEAN
    /\ Contents \subseteq {"good", "invalid", "poison"}

VARIABLES
    content,    \* what the batch holds
    phase,      \* where the batch is
    attempt,    \* local variable attempt
    current,    \* local variable idempotency_key
    spent,      \* keys of this and earlier schedules
    awaiting    \* the handler whose answer urlopen() waits for

batchVars == <<content, phase, attempt, current, spent, awaiting>>
vars == <<ingestVars, batchVars>>

Phases == {"ready", "waiting", "backoff", "handled", "dropped"}

-----------------------------------------------------------------------------
\* The bytes receive_events() gets: gzip, unless something inflated them.
Wire == IF Inflates THEN content ELSE "garbled"

Send(h, k) ==
    /\ Arrive(h, k, Wire)
    /\ phase' = "waiting"
    /\ current' = k
    /\ awaiting' = h
    /\ UNCHANGED content

\* _send_with_retry() begins, with a fresh key.
First(h) ==
    /\ phase = "ready"
    /\ \E k \in Keys \ spent :
          /\ Send(h, k)
          /\ spent' = spent \cup {k}
    /\ attempt' = 1

\* The backoff delay elapses.
Again(h) ==
    /\ phase = "backoff"
    /\ Send(h, current)
    /\ attempt' = attempt + 1
    /\ UNCHANGED spent

\* Mutant: 429 is not among _RETRYABLE_STATUSES.
Retryable_NotLimited(status) == status = "error"

\* _RETRYABLE_STATUSES, as far as the API uses them; a lost connection is one.
Retryable(status) == status \in {"limited", "error"}

\* After a retryable failure: another attempt, or put_back().
AfterFailure == IF attempt < MaxAttempts THEN "backoff" ELSE "ready"

AfterStatus(status) ==
    IF status \in {"ok", "replay"} THEN "handled"
    ELSE IF Retryable(status) THEN AfterFailure ELSE "dropped"

\* The answer arrives, or the connection breaks with the process.
Receive(h) ==
    /\ awaiting = h
    /\ Vacate(h)
    /\ phase' = AfterStatus(IF pc[h] = "gone" THEN "error" ELSE reply[h])
    /\ awaiting' = NoHandler
    /\ UNCHANGED <<content, attempt, current, spent>>

\* config.timeout elapses, or the answer is lost: the handler knows nothing of it.
GiveUp ==
    /\ phase = "waiting"
    /\ phase' = AfterFailure
    /\ awaiting' = NoHandler
    /\ UNCHANGED <<ingestVars, content, attempt, current, spent>>

\* An answer nobody waits for.
Discard(h) ==
    /\ awaiting # h
    /\ Vacate(h)
    /\ UNCHANGED batchVars

\* Another client posts a batch, without an Idempotency-Key.
Other(h) ==
    /\ \E b \in {"good", "invalid"} :
          /\ b = "good" =>
                rows[NoKey] + Cardinality({g \in Handlers : pc[g] # "idle" /\ key[g] = NoKey})
                    < MaxOthers
          /\ Arrive(h, NoKey, b)
    /\ UNCHANGED batchVars

Init ==
    /\ IngestInit
    /\ content \in Contents
    /\ phase = "ready"
    /\ attempt = 0
    /\ current = NoKey
    /\ spent = {}
    /\ awaiting = NoHandler

Api(h) == (Handle(h) \/ Break(h)) /\ UNCHANGED batchVars

Environment == (Elapse \/ Revoke) /\ UNCHANGED batchVars

Next ==
    \/ \E h \in Handlers : Api(h) \/ First(h) \/ Again(h) \/ Receive(h) \/ Discard(h) \/ Other(h)
    \/ GiveUp
    \/ Environment

Spec == Init /\ [][Next]_vars

\* The event loop runs every handler, and Redis ends what has a time to live.
FairSpec ==
    /\ Spec
    /\ \A h \in Handlers : WF_vars(Handle(h) /\ UNCHANGED batchVars)
    /\ \A k \in Keys : WF_vars(Expire(k) /\ UNCHANGED batchVars)
    /\ WF_vars(CacheExpires /\ UNCHANGED batchVars)

-----------------------------------------------------------------------------
(* Properties.                                                             *)

BatchType ==
    /\ content \in Contents
    /\ phase \in Phases
    /\ attempt \in 0 .. MaxAttempts
    /\ current \in Keys \cup {NoKey}
    /\ spent \subseteq Keys
    /\ awaiting \in Handlers \cup {NoHandler}
    /\ phase = "waiting" <=> awaiting # NoHandler
    /\ phase = "backoff" => attempt < MaxAttempts

\* Every variable has its type: no window is charged above its limits, and no
\* schedule is longer than max_attempts (ratelimit._CONSUME, _send_with_retry).
DeliveryTypeOK == IngestTypeOK /\ BatchType

\* The keys under which the batch is stored with its jobs queued.
Stored == {k \in spent : rows[k] > 0 /\ jobs[k] > 0}

\* The batch is on its way through some handler.
UnderWay == \E h \in Handlers : key[h] \in spent /\ pc[h] \in Calls

\* A batch the SDK counts as delivered is stored and queued.  A well-formed
\* batch that it drops under a good key is too, or a handler still has it, but
\* for faults: without them no overload and no timeout loses a batch.
NothingLost ==
    /\ phase = "handled" => Stored # {}
    /\ phase = "dropped" /\ content = "good" /\ Inflates /\ ~revoked =>
           Stored # {} \/ UnderWay \/ faults > 0

\* docs/05-API-SPEC.md:21, "gzip and br accepted on request and response": a
\* well-formed batch is not answered as an invalid one.
GzipAccepted ==
    \A h \in Handlers : key[h] \in Keys /\ reply[h] = "invalid" => content = "invalid"
=============================================================================
