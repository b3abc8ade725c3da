----------------------------- MODULE LlmGateway -----------------------------
(***************************************************************************)
(* LLMGateway.complete() of worker/ai/gateway.py: the response cache, the  *)
(* breaker around the whole call, failover from provider to provider, the  *)
(* ladder of native call, repair call and salvage, the single retry of an  *)
(* answer that echoes a flagged pattern, and the record of every call.     *)
(* Each await is a step; several calls of complete() run at once.          *)
(***************************************************************************)
EXTENDS CostBreaker, Sequences

CONSTANTS
    Prompts,        \* prompt_hash of a request
    Deterministic,  \* prompts of the stages that ask for the cache
    Flagged,        \* prompts with flagged_injection_patterns
    Costs,          \* what a response may cost
    Texts,          \* what a provider may answer, with its form and whether it echoes
    NoText,
    Route,          \* the ordered providers of "own", the request's tier, and of "fast"
    Providers,      \* the configured ones
    MaxTries,       \* failover.max_provider_attempts
    Triggers,       \* what a ProviderError may say
    FailoverOn,     \* failover.trigger_on
    MaxRequests     \* bound: calls of complete()

ASSUME GatewayAssumption ==
    /\ Deterministic \subseteq Prompts /\ Flagged \subseteq Prompts
    /\ Texts \subseteq [form : {"valid", "fixable", "junk"}, echo : BOOLEAN]
    /\ NoText \notin Texts
    /\ Costs \subseteq 0 .. Ceiling
    /\ DOMAIN Route = {"own", "fast"}
    /\ MaxTries \in Nat \ {0} /\ MaxRequests \in Nat
    /\ FailoverOn \subseteq Triggers

VARIABLES
    gpc,        \* the await each call of complete() is at
    prompt,     \* its prompt_hash
    phase,      \* which call of the ladder: native, repair or retry
    repaired,   \* schema_repair_used
    entry,      \* index in the tier's list
    tries,      \* provider_attempt
    text,       \* raw_text of the response
    price,      \* compute_cost_micro_usd() of the response
    result,     \* what complete() returns or raises
    cached,     \* raw_text under rt:llmcache
    objects,    \* the object store: response.json of a prompt and attempt
    rows,       \* llm_calls, each with the response it is about
    owed,       \* history: responses of this call of complete() without a row
    billed,     \* history: what the responses cost, by counter
    requests

gatewayVars == <<gpc, prompt, phase, repaired, entry, tries, text, price, result, cached,
                 objects, rows, owed, billed, requests>>
vars == <<breakerVars, gatewayVars>>

Validates(t) == t.form = "valid"
Salvages(t) == t.form \in {"valid", "fixable"}

Attempts == {1, 2}

-----------------------------------------------------------------------------
(* The request, the cache and the breaker.                                 *)

\* reserve() and, once it returns, the first call of the ladder.
Begin(w, d) ==
    /\ Reserve(w, d)
    /\ gpc' = [gpc EXCEPT ![w] = "call"]

Request(w, p, d) ==
    /\ gpc[w] = "idle"
    /\ requests < MaxRequests
    /\ requests' = requests + 1
    /\ prompt' = [prompt EXCEPT ![w] = p]
    /\ result' = [result EXCEPT ![w] = [kind |-> "none", text |-> NoText]]
    /\ owed' = [owed EXCEPT ![w] = 0]
    /\ IF p \in Deterministic
       THEN /\ gpc' = [gpc EXCEPT ![w] = "lookup"]
            /\ UNCHANGED breakerVars
       ELSE Begin(w, d)
    /\ UNCHANGED <<phase, repaired, entry, tries, text, price, cached, objects, rows, billed>>

\* _result_from_cache(): a hit is parsed again, and not salvaged.
FromCache(t) == [kind |-> IF Validates(t) THEN "output" ELSE "schemaFailed", text |-> t]

\* get_cached(): what a hit gives is not paid for.
Lookup(w, d) ==
    /\ gpc[w] = "lookup"
    /\ IF cached[prompt[w]] = NoText
       THEN Begin(w, d) /\ UNCHANGED result
       ELSE /\ gpc' = [gpc EXCEPT ![w] = "idle"]
            /\ result' = [result EXCEPT ![w] = FromCache(cached[prompt[w]])]
            /\ UNCHANGED breakerVars
    /\ UNCHANGED <<prompt, phase, repaired, entry, tries, text, price, cached, objects, rows,
                   owed, billed, requests>>

\* The cache raises, before there is a reservation.
LookupRaises(w) ==
    /\ gpc[w] = "lookup"
    /\ faults < MaxFaults
    /\ faults' = faults + 1
    /\ gpc' = [gpc EXCEPT ![w] = "idle"]
    /\ result' = [result EXCEPT ![w].kind = "raised"]
    /\ UNCHANGED counterVars
    /\ UNCHANGED <<prompt, phase, repaired, entry, tries, text, price, cached,
                   objects, rows, owed, billed, requests>>

\* The `finally` clause (`faults` is the caller's): reconcile(), with the cost of the accepted response or with nothing.
Finish(w, kind, actual) ==
    /\ Reconcile(w, actual)
    /\ gpc' = [gpc EXCEPT ![w] = "settle"]
    /\ result' = [result EXCEPT ![w] = [kind |-> kind, text |-> text[w]]]

\* Mutant: a call that fails keeps its estimate.
Raise_KeepsEstimate(w, kind) == Finish(w, kind, Estimate)

Raise(w, kind) == Finish(w, kind, 0)

\* complete() ends: reserve() refused, reconcile() is done, or one of them raised.
Return(w) ==
    /\ Leave(w)
    /\ gpc' = [gpc EXCEPT ![w] = "idle"]
    /\ result' = [result EXCEPT ![w] =
          IF bpc[w] = "settled" THEN @
          ELSE [kind |-> IF bpc[w] = "refused" THEN "quota" ELSE "raised", text |-> NoText]]
    /\ phase' = [phase EXCEPT ![w] = "native"]
    /\ repaired' = [repaired EXCEPT ![w] = FALSE]
    /\ entry' = [entry EXCEPT ![w] = 1]
    /\ tries' = [tries EXCEPT ![w] = 0]
    /\ text' = [text EXCEPT ![w] = NoText]
    /\ price' = [price EXCEPT ![w] = 0]
    /\ UNCHANGED <<prompt, cached, objects, rows, owed, billed, requests>>

-----------------------------------------------------------------------------
(* _dispatch_tier()                                                        *)

Tier(w) == IF phase[w] = "repair" \/ (phase[w] = "retry" /\ repaired[w]) THEN "fast" ELSE "own"
Entries(w) == Route[Tier(w)]
Serving(w) == gpc[w] = "call" /\ bpc[w] = "granted"
Configured(w) == entry[w] <= Len(Entries(w)) /\ Entries(w)[entry[w]] \in Providers

\* An entry of the list that no configured provider serves.
Skip(w) ==
    /\ Serving(w)
    /\ entry[w] <= Len(Entries(w)) /\ ~Configured(w)
    /\ entry' = [entry EXCEPT ![w] = @ + 1]
    /\ UNCHANGED <<breakerVars, gpc, prompt, phase, repaired, tries, text, price, result, cached,
                   objects, rows, owed, billed, requests>>

\* AllProvidersExhaustedError
Exhausted(w) ==
    /\ Serving(w)
    /\ entry[w] > Len(Entries(w))
    /\ Raise(w, "exhausted")
    /\ UNCHANGED <<faults, prompt, phase, repaired, entry, tries, text, price, cached, objects, rows,
                   owed, billed, requests>>

ProviderAnswers(w, t, c) ==
    /\ Serving(w) /\ Configured(w)
    /\ text' = [text EXCEPT ![w] = t]
    /\ price' = [price EXCEPT ![w] = c]
    /\ gpc' = [gpc EXCEPT ![w] = "put"]
    /\ owed' = [owed EXCEPT ![w] = @ + 1]
    /\ billed' = [k \in Counters |-> IF k \in {day[w], Month} THEN billed[k] + c ELSE billed[k]]
    /\ UNCHANGED <<breakerVars, prompt, phase, repaired, entry, tries, result, cached, objects,
                   rows, requests>>

\* Mutant: the last attempt of a provider does not move on to the next.
Another_Stays(w) ==
    /\ tries' = [tries EXCEPT ![w] = (@ + 1) % MaxTries]
    /\ UNCHANGED entry

\* One more attempt of this provider, after the backoff, or on to the next.
Another(w) ==
    IF tries[w] + 1 < MaxTries
    THEN tries' = [tries EXCEPT ![w] = @ + 1] /\ UNCHANGED entry
    ELSE tries' = [tries EXCEPT ![w] = 0] /\ entry' = [entry EXCEPT ![w] = @ + 1]

ShouldFailOver(trigger) == trigger \in FailoverOn

ProviderFails(w, trigger) ==
    /\ Serving(w) /\ Configured(w)
    /\ IF ShouldFailOver(trigger)
       THEN Another(w) /\ UNCHANGED <<breakerVars, gpc, result>>
       ELSE Raise(w, "raised") /\ UNCHANGED <<faults, tries, entry>>
    /\ UNCHANGED <<prompt, phase, repaired, text, price, cached, objects, rows, owed, billed,
                   requests>>

-----------------------------------------------------------------------------
(* _record_call() and the ladder.                                          *)

Attempt(w) == IF Tier(w) = "fast" THEN 2 ELSE 1
\* Both files of the path are written with the response; each replaces what was there.
PutText(w) == objects' = [objects EXCEPT ![<<prompt[w], Attempt(w)>>] = text[w]]

Put(w) ==
    /\ gpc[w] = "put"
    /\ bpc[w] = "granted"
    /\ PutText(w)
    /\ gpc' = [gpc EXCEPT ![w] = "insert"]
    /\ UNCHANGED <<breakerVars, prompt, phase, repaired, entry, tries, text, price, result,
                   cached, rows, owed, billed, requests>>

\* Mutant: only the native call has a row.
AddRow_NativeOnly(w) ==
    IF phase[w] = "native"
    THEN /\ rows' = rows \cup {[prompt |-> prompt[w], attempt |-> Attempt(w), text |-> text[w]]}
         /\ owed' = [owed EXCEPT ![w] = @ - 1]
    ELSE UNCHANGED <<rows, owed>>

AddRow(w) ==
    /\ rows' = rows \cup {[prompt |-> prompt[w], attempt |-> Attempt(w), text |-> text[w]]}
    /\ owed' = [owed EXCEPT ![w] = @ - 1]

Dispatch(w, p) ==
    /\ phase' = [phase EXCEPT ![w] = p]
    /\ repaired' = [repaired EXCEPT ![w] = @ \/ p = "repair"]
    /\ entry' = [entry EXCEPT ![w] = 1]
    /\ tries' = [tries EXCEPT ![w] = 0]
    /\ gpc' = [gpc EXCEPT ![w] = "call"]
    /\ UNCHANGED <<breakerVars, result>>

Accept(w) ==
    /\ IF prompt[w] \in Deterministic
       THEN gpc' = [gpc EXCEPT ![w] = "store"] /\ UNCHANGED <<breakerVars, result>>
       ELSE Finish(w, "output", price[w]) /\ UNCHANGED faults
    /\ UNCHANGED <<phase, repaired, entry, tries>>

Reject(w, kind) ==
    /\ Raise(w, kind)
    /\ UNCHANGED <<faults, phase, repaired, entry, tries>>

\* Mutant: an answer to the retry is taken unless it is rejected for its form.
Suspicious_FirstOnly(w) == prompt[w] \in Flagged /\ text[w].echo /\ phase[w] # "retry"

\* The output-side check of `06` 3.2.
Suspicious(w) == prompt[w] \in Flagged /\ text[w].echo

\* What complete() does with the answer it has just recorded.
Judge(w) ==
    \/ /\ phase[w] = "native" /\ ~Validates(text[w])
       /\ Dispatch(w, "repair")
    \/ /\ phase[w] = "repair" /\ ~Salvages(text[w])
       /\ Reject(w, "schemaFailed")
    \/ /\ \/ phase[w] = "native" /\ Validates(text[w])
          \/ phase[w] = "repair" /\ Salvages(text[w])
       /\ IF Suspicious(w) THEN Dispatch(w, "retry") ELSE Accept(w)
    \/ /\ phase[w] = "retry"
       /\ IF ~Validates(text[w]) \/ Suspicious(w) THEN Reject(w, "suspicious") ELSE Accept(w)

Insert(w) ==
    /\ gpc[w] = "insert"
    /\ bpc[w] = "granted"
    /\ AddRow(w)
    /\ Judge(w)
    /\ UNCHANGED <<prompt, text, price, cached, objects, billed, requests>>

\* put_cached(): the text as the provider sent it.
Store(w) ==
    /\ gpc[w] = "store"
    /\ bpc[w] = "granted"
    /\ cached' = [cached EXCEPT ![prompt[w]] = text[w]]
    /\ Finish(w, "output", price[w])
    /\ UNCHANGED <<faults, prompt, phase, repaired, entry, tries, text, price, objects, rows, owed,
                   billed, requests>>

-----------------------------------------------------------------------------
(* Failures.                                                               *)

\* The object store, the database or the cache raises, its work done or not, or the task is
\* cancelled at an await: `finally` still reconciles.
AwaitRaises(w) ==
    /\ gpc[w] \in {"call", "put", "insert", "store"}
    /\ faults < MaxFaults
    /\ faults' = faults + 1
    /\ \/ UNCHANGED <<objects, rows, cached, owed>>
       \/ gpc[w] = "put" /\ PutText(w) /\ UNCHANGED <<rows, cached, owed>>
       \/ gpc[w] = "insert" /\ AddRow(w) /\ UNCHANGED <<objects, cached>>
       \/ /\ gpc[w] = "store" /\ cached' = [cached EXCEPT ![prompt[w]] = text[w]]
          /\ UNCHANGED <<objects, rows, owed>>
    /\ Raise(w, "raised")
    /\ UNCHANGED <<prompt, phase, repaired, entry, tries, text, price, billed, requests>>

\* The hour of a cached response is over.
Expire(p) ==
    /\ cached[p] # NoText
    /\ cached' = [cached EXCEPT ![p] = NoText]
    /\ UNCHANGED <<breakerVars, gpc, prompt, phase, repaired, entry, tries, text, price, result,
                   objects, rows, owed, billed, requests>>

Init ==
    /\ BreakerInit
    /\ gpc = [w \in Workers |-> "idle"]
    /\ prompt \in [Workers -> Prompts]
    /\ phase = [w \in Workers |-> "native"]
    /\ repaired = [w \in Workers |-> FALSE]
    /\ entry = [w \in Workers |-> 1]
    /\ tries = [w \in Workers |-> 0]
    /\ text = [w \in Workers |-> NoText]
    /\ price = [w \in Workers |-> 0]
    /\ result = [w \in Workers |-> [kind |-> "none", text |-> NoText]]
    /\ cached = [p \in Prompts |-> NoText]
    /\ objects = [o \in Prompts \X Attempts |-> NoText]
    /\ rows = {}
    /\ owed = [w \in Workers |-> 0]
    /\ billed = [c \in Counters |-> 0]
    /\ requests = 0

\* The steps of complete() itself, and of what it waits for.
Complete(w) ==
    \/ \E d \in Days : Lookup(w, d)
    \/ Command(w) /\ UNCHANGED gatewayVars
    \/ Skip(w) \/ Exhausted(w)
    \/ \E t \in Texts, c \in Costs : ProviderAnswers(w, t, c)
    \/ \E trigger \in Triggers : ProviderFails(w, trigger)
    \/ Put(w) \/ Insert(w) \/ Store(w)
    \/ Return(w)

Break(w) ==
    \/ AwaitRaises(w) \/ LookupRaises(w)
    \/ (RedisFails(w) \/ Crash(w)) /\ UNCHANGED gatewayVars

Next ==
    \/ \E w \in Workers :
          \/ \E p \in Prompts, d \in Days : Request(w, p, d)
          \/ Complete(w)
          \/ Break(w)
    \/ \E p \in Prompts : Expire(p)

\* asyncio resumes every task, Redis and the stores answer or raise, and timeout_s ends every
\* provider call.
Spec == Init /\ [][Next]_vars /\ \A w \in Workers : WF_vars(Complete(w))

-----------------------------------------------------------------------------

\* A stage is handed an answer of the schema that echoes nothing flagged, over repair, retry,
\* salvage and the cache that other calls filled.
OnlyCleanOutput ==
    \A w \in Workers : result[w].kind = "output" =>
        /\ Salvages(result[w].text)
        /\ prompt[w] \in Flagged => ~result[w].text.echo

\* Every response of a call that came to a verdict has its row in llm_calls, the rejected
\* ones too, and what a row points to is there, if only with a later response of that name.
EveryCallRecorded ==
    /\ \A w \in Workers :
          result[w].kind \in {"output", "schemaFailed", "suspicious"} => owed[w] = 0
    /\ \A r \in rows : objects[<<r.prompt, r.attempt>>] # NoText

\* A counter is never told of more than the providers billed: failed and cached calls cost
\* nothing there, and no response is counted twice.
NotOvercharged == \A c \in Counters : spent[c] <= billed[c]

\* No echo is served from the cache, and nothing the ladder had rejected; a response that only
\* salvage could read is there, and the call it is served to raises.
CacheHoldsAccepted ==
    \A p \in Prompts : cached[p] # NoText =>
        Salvages(cached[p]) /\ (p \in Flagged => ~cached[p].echo)

\* What a stage is handed and what the cache keeps for the next one was accepted,
\* of the schema and without an echo, over repair, retry, salvage and hits.
AcceptedOnly == OnlyCleanOutput /\ CacheHoldsAccepted

\* complete() ends: failover, repair and retry are bounded, and so is waiting for Redis.
Completes == \A w \in Workers : gpc[w] # "idle" ~> gpc[w] = "idle"
=============================================================================
