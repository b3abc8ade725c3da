# RootTrace: TLA+ models and proofs

RootTrace turns an error in production into a reviewed patch. An SDK in the
application captures events and sends them in batches; an API takes the batches,
stores them, queues jobs and groups events into issues; a worker asks language
models for a diagnosis and a patch; a sandbox validates the patch.

This directory models the parts of that program where order, concurrency and
failure decide whether it is right. Each module is translated from the source,
and `PROJECT.json` says which lines a definition stands for.

## 1. Inventory

| Component | State | Operations | What is hard | What makes it correct |
|---|---|---|---|---|
| SDK client (`roottrace_sdk/_client.py`, `_buffer.py`) | bounded buffer, drop counter, `_wake`, `_stop`, `_sending`, `_thread`, per sender a batch and an attempt | `capture`, `flush`, `close`, `reset_after_fork`, the sender loop | threads of the host race with the sender; four different locks; forks; retries against an overflowing buffer | every event in one place; one sender; order; bounded; flush and close end |
| SDK transport (`_transport.py`) | none | `send`, `backoff_delay` | which failures are retried | nothing is dropped that a retry would save |
| SDK event building (`_event.py`, `_frames.py`, ...) | breadcrumbs | build one dictionary | nothing over time | never raises |
| Ingest endpoint (`ingest/router.py`, `idempotency.py`, `ratelimit.py`, `keys.py`, `repository.py`) | Redis: claims, cached keys, rate-limit buckets, job queue. Postgres: `raw_events`, `api_keys` | `POST /v1/events` | about ten awaits per request, each of which can fail, lose its answer or be the last; retries of a client that gave up | one owner per key; "taken" means stored; copies bounded; limits kept; revocation works |
| Validation, sanitising (`events.py`, `sanitise.py`) | none | pure functions | edge values | the caps hold, nothing secret stays |
| Triage, issues (`triage.py`, `issues.py`, `fingerprint.py`) | Postgres: issues, investigations, environments | fingerprint an event, upsert its issue, decide whether to investigate | concurrent and late events of one issue; a gate read before a unique index is hit; a quota nobody holds | one active investigation per issue; rows true to what arrived; a regression is not forgotten |
| API authentication (`auth/`) | JWKS cache | verify a token | key rotation, refresh storms | no token accepted under a withdrawn key |
| LLM gateway (`worker/ai/`) | Redis: spend counters, response cache; Postgres: call records | route, call, repair, fail over, reserve and reconcile cost | a reservation must survive every exit; two workers at the limit; failover and retry ladders | spend below the limit; every call recorded once; no poisoned cache |
| Understanding, retrieval (`understand/`, `retrieve/`) | one investigation's frames, plan, candidate files | choose the failure point, plan, let a model refine it, fetch by four strategies, rank | two revisions of the repository; a guessed path the tree corrects; a token budget shared by three kinds of item | a reply never makes the plan poorer; what is in the bundle exists; the failing file is first |
| Reasoning, patching, repair (`reason/`, `patch/`, `repair/`) | analysis, patch, attempts | bind evidence, check scope, apply a diff to a window and to a file, route a failed gate | one correction a stage; two appliers of one diff; failures without a route | no claim without evidence; a patch touches what it may; the loop ends with every attempt kept |
| Validation, critique, scoring (`validate/`, `critique/`, `score/`) | verdict, review, decision | host gates, a review that may be missing, components, hard gates, bands | hard gates against arithmetic; an absent review | nothing published that failed, was rejected or is unproven |
| Sandbox orchestrator (`pipeline/validate/orchestrator.py`) | containers, a semaphore per worker | create, start, feed, wait, kill, delete, reap | a container outlives its creator; the reaper meets one that is running or just deleted | what executes is bounded, nothing is leaked, no verdict lost |
| Sandbox runner (`apps/sandbox-runner`) | the tree under `/work`, the results so far | gates G2 to G8 over two versions of the source | each gate replaces the tree of the one before; each subprocess may be cut off | a test that passed proves something; degraded reads as degraded; an answer in any case |
| Database schema (`infra/supabase/migrations`) | tables, policies, triggers | the owner trigger, partitions | triggers under concurrent transactions | an organisation keeps an owner |
| GitHub gateway, web, shared types | fixture files | read | nothing over time | |

How they interact: the SDK posts to the ingest endpoint (over HTTP, with an
`Idempotency-Key`); the endpoint writes `raw_events` and pushes jobs to the Redis
list `rt:ingest`; triage reads the rows; the worker's stages call the LLM gateway
and, for validation, the sandbox orchestrator. There is no code yet that pops
`rt:ingest` or chains the stages: each stage is a class called by tests.

`PROJECT.json` lists the hazards behind the fourth column at their lines.

## 2. Modules

| Module | Models | State and code |
|---|---|---|
| `EventBuffer` | `_buffer.py` | each method holds the lock for its whole body, so each is one operator on a sequence |
| `SdkClient` | `_client.py` over `EventBuffer` | the variables are the client's attributes; `pc`, `call`, `joinee`, `due` are a host thread's place in a call; `run`, `batch`, `attempt`, `final` a sender's place in `_run` |
| `EventPipe` | what the SDK promises | an event waits until it leaves by one exit; it is shed only when `Capacity` older ones wait |
| `SdkClientProofs` | | proofs about `SdkClient` |
| `Ingest` | `receive_events()` with Redis and Postgres | `pc[h]` names the await handler `h` is about to make; `claims`, `cached`, `used`, `jobs` are the Redis keys `rt:idem`, `rt:apikey`, `rt:rl`, `rt:ingest`; `rows` counts copies in `raw_events` per key |
| `Delivery` | `_send_with_retry()` against `Ingest` | one batch: `phase`, `attempt`, `current` (its key), `awaiting` (whose answer `urlopen()` waits for) |
| `DeliveryProofs` | | proofs about `Delivery` |
| `CostBreaker` | `ai/circuit_breaker.py` | `total` is the Redis counters of a day and of the month; `bpc[w]` the `INCRBY` or `DECRBY` call `w` is about to make; `stands`, `spent`, `lost` are history |
| `Budget` | what the breaker promises of a counter | a call is let in while what was spent and one estimate per call under way fit the cap |
| `LlmGateway` | `ai/gateway.py` over `CostBreaker`, with `cache.py`, `routing.py`, `retry.py`, `structured.py`, `storage.py`, `db.py` as it uses them | `gpc[w]` names the await of a call of `complete()`; `phase`, `repaired`, `entry`, `tries` are its place in the ladder and in a tier; `cached`, `objects`, `rows` what it leaves in Redis, the object store and `llm_calls` |
| `LlmGatewayProofs` | | proofs about `CostBreaker` and `LlmGateway` |
| `SandboxFleet` | `pipeline/validate/orchestrator.py` in several workers over one Docker daemon | `pc[r]` names the await of a call of `run()`; `queue` is a semaphore's waiters, `box[r]` the container; `rpc`, `listed`, `due`, `target` are the reaper's place |
| `SandboxFleetProofs` | | proofs about `SandboxFleet` |
| `SandboxRunner` | `apps/sandbox-runner` | `at` is the gate that is due, `work` the parts of the input that lie under `/work`, `resolved` the packages installed, `mode` full or degraded, `lost` the subprocesses that ran out of time, `answer` what the process prints |
| `SandboxRunnerProofs` | | proofs about `SandboxRunner` |
| `Understanding` | `understand/` | operators: frames, failure point, taxonomy (`Preparse`), what a reply may change (`ApplyExtraction`) |
| `Sources` | `github/` as `retrieve/` reads it, `ast_index.py`, `paths.py` | operators: the tree at the commit and at the head, path and import resolution, enclosing functions |
| `Ranking` | `retrieve/ranking.py` | operators: windows, priorities, the budget as a loop over the sorted items |
| `Retrieval` | S4 and S5 over these three | `u` is the understanding, `files`, `graph`, `history`, `tests` the result of each strategy, `outcome` the bundle or the exception |
| `RetrievalProofs` | | proofs about `Retrieval` and the three modules it is built from |
| `UnifiedDiff` | `patch/diffing.py`, `validate/gates` G0 | operators: a hunk on a window, a patch on a file |
| `Scoring` | `score/` | operators: components, weights, hard gates, bands, the decision |
| `PatchPipeline` | S6 to S11 over these two | `bundle` holds the texts retrieved, of files and of tests; `pc` names the stage; `analysis`, `patch`, `tree`, `validation`, `review`, `decision` its documents; `asked` whether the stage's correction is used up; `attempt`, `attempts` the loop |
| `PipelineProofs` | | proofs about `PatchPipeline` |
| `Triage` | S2 and S3 by several workers | `issues` is the table, `active` the live investigations of an issue, `wk[w]` what a worker has read, `dead` the occurrences whose statement raised |
| `TriageProofs` | | proofs about `Triage` |
| `MCSdk`, `MCDelivery`, `MCGateway`, `MCSandbox`, `MCRunner`, `MCRetrieval`, `MCPipeline`, `MCTriage` | | names, symmetry and inputs for TLC |

**Grain.** In `SdkClient` a step is the code between two points where another
thread can be seen: one use of the buffer's lock, of `_drained`, of an `Event`, or
of the unprotected `_thread`. `_ensure_thread()` reads `_thread` twice per test, and
both reads are steps (`Ensure`/`EnsureAlive`, `Spawn`/`Recheck`), because a `close()`
between them makes the call raise. `take()` and `_sending = True` are two steps
(`Take`, `Mark`), as they are in the code. In `Ingest` a step is one await: one
Redis command or one transaction. The transaction of `_persist()` is one step: it
is pipelined, commits once, and nobody reads its rows before. `LlmGateway` and
`SandboxFleet` have the same grain: one Redis command, one call of a provider, of a
store or of Docker. What the code does between two awaits (the verdict on an answer,
the exit of `async with self._semaphore` and the request to delete) belongs to the
step before. `SandboxRunner` steps from gate to gate: it is one process that runs one
subprocess at a time. In `Triage` the upsert is one step, because it is one SQL
statement; the reads of the gate and the insert after them are two. `Retrieval` and
`PatchPipeline` step from stage to stage, `Retrieval` with the three tasks of
`gather()` in any order; what a stage computes is an operator.

**Environment.** `SdkClient` lets the API fail and recover at any time, an answer
be a refusal at any time, a replacement transport raise while the API is down, and
an idle host thread fork. `Ingest` lets any call fail before its effect (`CallFails`),
after it (`AnswerLost`), or be the last of its process (`Crash`), at most
`MaxFaults` times. `Delivery` lets the client's timeout end at any moment
(`GiveUp`): the handler goes on and its answer is discarded. `LlmGateway` lets a
provider give any answer or error at any time, and lets a command, a store or the
cache fail, done or not, a task be cancelled at an await (`AwaitRaises`) and a worker
die (`Crash`). `SandboxFleet` does the same for every call of Docker, lets a container
run for ever, die or print its result, grow old while its run is still at work, and be
met by the reaper at any point of its life. `MaxFaults` bounds the failures.
`SandboxRunner` takes any of its inputs and lets every subprocess be cut off, at most
`MaxLost` times in one validation. `Retrieval` lets any call of the gateway raise. In
`PatchPipeline` a model gives any of the replies at any stage and attempt, or none; the
sandbox gives any of its answers. In `Triage` investigations end and cool down and users
resolve or mute an issue at any moment.

**Abstractions.** An event is its number in the order `add()` admitted it. A batch
in `Delivery` is one of four kinds: good, without a valid event, one Postgres
refuses (a NUL character in a jsonb is a 500 each time), or bytes that are no JSON.
Time is what elapses: `flush_interval` and backoff delays are actions `Tick` and
`Retry`, the 24 hours of a claim `Expire`, the 60 seconds of a cached key
`CacheExpires`, a rate-limit minute `NextWindow`. `Expire` needs that no handler
holds the claim: a request takes less than a day. `Inflates` says whether something
in front of the API undoes the SDK's gzip; nothing in the repository does (see
`delivery_gzip`), so what the other runs of `Delivery` show is about a deployment
with a proxy that does, or about a client that sends plain JSON.
`LlmGateway` makes of an answer its form (`valid`; `fixable`, which only salvage can
read; `junk`), whether it echoes a flagged pattern, and its cost. The prompt hash is a
model value, so two requests with one are the same request. A cached response can
`Expire` at any time; the counters' keys (48 hours, 40 days) outlive the calls that
name them. `CostBreaker` has one project and one month. In `SandboxFleet` the hard
timeout may end `container.wait()` at any moment (`HardTimeout`), and `Age` makes a
container older than the reaper's limit; the isolation flags of a container are data.

In `SandboxRunner` a test is its outcome on each version of the source, a finding of a
linter its rule, row and level, and a file in `/work` the part of the input it came from.
In `Understanding` and `Retrieval` a file is its functions, classes, calls and imports at
line numbers; parsing yields these, or fails. `PatchPipeline` writes a line of code as a
model value, so that hunks apply and fail as they do, and knows of it whether it starts a
function or a test (a line `def test_`, as `patch/validate.py:142` looks for; an `async
def test_` is not one) or does not parse. What was retrieved of a file is its text, a
window of it, or, of a test, its signatures; a window and signatures are joined lines,
whose last has no newline. The files of the commit end with one, and diffs carry no "\ No
newline at end of file". Confidence is in units of 1/10000 instead of floating point. The
caller that counts attempts and re-enters the stage a repair routes to is in no file yet:
it is modelled as the stages' parameters and results foresee it. In `Triage` a message is
a sequence of tokens: a word, digits that stand alone with how many they are, or what
another pattern takes (an address, a quoted string, ...). Digits glued to letters are part
of a word, as `\b` has it, and no pattern takes in more than one token. The hash is
injective. A statement that raises ends that occurrence (`dead`): the retries and the dead
letters of the caller are in no file, and a retry would raise again. The code that inserts
an investigation and debits the quota is in no file either: it is modelled from the gate's
docstring and the unique index (`000500_investigations.sql:59`), and marked external.

## 3. Runs

| Run | Question | Bounds | States |
|---|---|---|---|
| `sdk_threads` | do racing threads lose, duplicate or strand anything; how many senders; what can `flush()` miss | 2 host threads, 2 senders, 2 events, buffer and batch of 1, 1 attempt, 1 close, 1 outage | 2.0 million, symmetry |
| `sdk_live` | order, overflow, refinement of `EventPipe`, and what must eventually happen | 1 host thread, 2 senders, 3 events, buffer and batch of 2, 2 attempts, 1 close, 1 outage, 1 fork | 218 thousand |
| `delivery` | claims, storage, copies and losses under retries, timeouts and a fault | 2 handlers, 2 keys (schedules), 2 attempts, 1 fault, 2 windows, 1 batch of another client | 3.3 million, symmetry |
| `delivery_live` | claims end, revocation holds | 2 handlers, 1 key, 3 kinds of batch, 1 fault | 294 thousand |
| `gateway` | what a stage, the cache, the records and the counters may end up with | 2 workers, 2 requests, 1 flagged and cached prompt, every form of answer, 2 attempts per provider, 1 fault | 805 thousand, symmetry |
| `gateway_cost` | are the counters exact, do they let calls in as a budget does, does every call end | 2 workers, 3 requests, 2 days, costs 1 and 3 around an estimate of 2, caps 3 and 4, 1 fault | 168 thousand |
| `sandbox` | what executes at once, what is left behind, whose verdict is lost, do runs and orphans end | 2 runs of 1 worker, 1 permit, 2 faults | 245 thousand |
| `runner` | what does a result of the sandbox prove, and is there always one | some 500 inputs around a good patch: manifests, tests on both versions, findings, lists of gates, escapes; 2 subprocesses cut off | 39 thousand |
| `pipeline` | evidence, scope, the loop and the decision of one investigation | 3 contexts (a test whole and as signatures), 6 analyses, 20 patches over 4 files and a new one, 7 sandbox answers, 5 reviews, no answer anywhere, 3 attempts (the real limit) | 59 thousand |
| `triage` | rows, runs and quota under racing workers | 2 workers, 5 occurrences (3 of one bug with 3 numbers, 2 of them without a release, 1 late; 2 under the rules of `docs/03`), 1 run of quota | 103 thousand, symmetry |
| `retrieval` | the plan, the bundle and its budget | 7 errors, 3 replies or none, 2 revisions of 7 files, a budget that leaves some out | 511 |
| `delivery_gzip` | does the API read the SDK's body? | expected violation | |

*Why the bounds are enough.* Two host threads and two senders are what every race of the
client needs: two callers in `_ensure_thread()`, or one that flushes while another closes,
and an orphan beside a new sender. A buffer of one makes `add()` overflow at the second
event and `put_back()` at the first; the runs with a batch of two have partial batches and
a full one. Two attempts are a first and a last one. Two handlers are a request and its
retry, and two keys a schedule and the one after `put_back()`; `OncePerKey` counts faults,
so one fault shows the slope. In `gateway`, the second request meets what the first left
in the cache and overtakes or is overtaken by it; in `gateway_cost` the caps have room for
one or two estimates and the third call meets what two cost, so a refusal by the day, by
the month and by neither all occur, with another worker's commands in between. In
`sandbox` one permit for two runs makes one wait, and two faults are a run that is left
behind and one that fails on the way. In `runner` every input departs from a good one in
one group of fields, because a gate reads one group: what gates share is the tree, and its
states do not depend on the rest. Two cut-off subprocesses are the run on each version. In
`pipeline` a patch may insert, delete, replace, create or remove; its hunks may be out of
order, overlap, lie outside the window, touch its last line, match only signatures or name
the wrong lines; three attempts are a first, a middle and a last one. In `triage` two
workers are a gate that reads what another is about to change; `QUOTA` of one makes the
overrun happen; the numbers are one of each class (two digits, three to seven, eight), and
the second occurrence without a release is the one that raises. The inputs of `retrieval`
are one error for each way a path is found or missed, and the three tasks may finish in
any order: that is why its states are few. `MaxRequests`, `MaxEvents`, `MaxCloses`,
`MaxOutages`, `MaxForks`, `MaxFaults`, `MaxWindow`, `MaxOthers` and `MaxLost` bound the
environment only and appear in the guards of its actions; `SlowJoins` chooses whether a
join may time out. The theorems below hold for all of their values.

Only the runs of `SdkClient` check deadlock. The others stop where the system does: the
batch has left, every slot is free, the limits are used up and the key is revoked; the
requests are answered; the runs are over and the reaper is dead; the result is printed;
the bundle or the decision is there; the occurrences are triaged. That nothing stops
before is what `LivesEnd`, `Completes`, `AllEnd` and `AlwaysAnswers` say.

*Fairness.* `SdkClient!FairSpec` gives weak fairness to the steps a host thread
makes inside a call and to those a sender makes without waiting for a timer: the
scheduler runs every thread that can run. It promises nothing about calls, forks,
the API, the timeouts of `flush()` and `join()`, or timers; properties that need
the timers (`Settles`, `FlushReturns`) say so in their hypothesis (`TimersRun`), and
those that need the API assume it stays up from some point on. A close or a fork
cuts such a property short, since nothing runs after it. `Delivery!FairSpec` gives
weak fairness to a handler's steps (the event loop runs every task) and to the ends
of a claim's and a cached key's time to live (Redis keeps `EX`). It gives none to
the client, to faults or to other clients. `LlmGateway!Spec` gives weak fairness to the
steps of each `complete()`: asyncio resumes every task, Redis and the stores answer or
raise, and `timeout_s` ends every provider call. `SandboxFleet!Spec` gives it to the
steps of each `run()`, the hard timeout among them, to the reaper, whose sleep ends, and
to the age of a container; it gives none to what runs inside one. That `create()`,
`start()` and the others come back is Docker's promise alone: the code has no timeout
around them. `SandboxRunner!Spec` gives it to the process as a whole, which runs gate
after gate and has a timeout around every subprocess. `Retrieval`, `PatchPipeline` and
`Triage` state no liveness: nothing in the repository runs their stages yet.

### What the runs show

* Every captured event is in exactly one place (`Accounted`): buffered, in one sender's
  hands, sent, refused by the API, dropped and counted, or left to the parent of a fork.
  This holds with orphaned senders too.
* There is one sender until the first `close()` (`SingleSenderWhileOpen`); after a
  `close()` whose join timed out there can be two, and the model's orphans are those.
* While there is one, batches leave in order, and what the buffer sheds is the newest
  (`KeptInOrder`: `Ordered` and `KeepsOldest`).
* `flush() = True` misses at most the batch a sender has taken and not yet announced
  (`FlushMissesOnlyUnmarked`); without that exception the run fails. flush()'s early
  return, for a client without a thread, promises less: after a timed-out join an orphan
  may still hold a batch.
* `Progress` is four properties: a capture that fills a batch is sent without waiting for
  the tick (`FullBatchPrompt`); a batch given back is sent once the API is up (`Settles`);
  `flush()` returns (`FlushReturns`); a sender told to stop ends without waiting for a
  timer (`StopTerminates`).
* The client implements `EventPipe`: it never sheds an event while fewer than `Capacity`
  older ones wait.
* One handler at a time is between claim and response of a key (proved: `OneOwnerPerKey`);
  an answer "taken" is true (`TakenIsStored`); a fault costs at most one further copy of a
  batch (`OncePerKey`). A claim ends whatever dies, and a revoked key is refused for good
  once its cached entry is gone (`LivesEnd`: `ClaimsEnd`, `RevocationHolds`).
* What the SDK counts as delivered is stored and queued, and without faults no timeout,
  overload or race loses a well-formed batch (`NothingLost`). But the SDK drops it on a
  409 its own retry provoked (the disjunct `UnderWay`), and the API does not read the
  SDK's gzip (`delivery_gzip`).
* Copies are bounded per key only: after `put_back()` a batch travels under a new key, so
  what timed out but was stored is stored again.
* `AcceptedOnly`: no stage gets an answer that echoes a flagged pattern or that nothing
  could read (`OnlyCleanOutput`), from a provider or from the cache, and what the cache
  holds was accepted (`CacheHoldsAccepted`); but a salvaged answer is cached as it was
  sent and is parsed without salvage on a hit, which raises. Every response of a call that
  came to a verdict has its row (`EveryCallRecorded`), though the retry of a suspicious
  answer replaces the stored response of the row before.
* The counters are exact whatever interleaves (`Exact`), and what calls cost passes a cap
  by at most what the calls under way bill beyond their estimates (`Overshoot`). The
  counters of a month and of a day implement `Budget` (`WithinBudgets`), and every call
  ends (`Completes`). But they are told of accepted responses only, so they never exceed
  the bill (`NotOvercharged`), and the bill is bounded by no cap.
* At most `Concurrency` containers of a worker execute (`Capped`), although permits come
  back before containers are deleted; `finally` leaves none behind that it knows of
  (`NoneLeft`); the reaper costs a run its verdict only when the container was old
  (`VerdictKept`). Runs end, and orphans are removed unless the reaper died (`AllEnd`:
  `RunsEnd`, `OrphansReaped`); it dies of a container that its own run deletes between
  `list()` and `show()`. The cap is one of each worker: several share a daemon.
* A result of the sandbox that passed G4 and G5 was given for a test that fails without
  the patch and passes with it, though each gate lays out `/work` anew
  (`RegressionProven`). What could not be checked claims nothing (`SignalsHonest`).
  `DeltasHonest`: G6 lets a regression pass only where it cannot see it (an error, a skip,
  a lost report, a suite that cannot import), and G7 blames a patch for a HIGH finding
  that is new or has moved. The process always answers (`AlwaysAnswers`).
* An analysis that patching goes on concludes, and what it quotes is in the file of the
  commit it names (`EvidenceHolds`); but a conclusion may quote nothing. What the sandbox
  runs is the commit but for what the patch may touch, and no test disappears, but by a
  section that replaces its whole file (`PatchInScope`: `ScopeHolds`, `TestsSurvive`). S7
  and G0 disagree about a patch only in the cases `AppliedAlike` lists. `MayFail`:
  accepted and then refused are insertions, hunks out of order, and hunks that match the
  signatures of a trimmed test and not the test itself (`diffing.py:101`). `Unchecked`:
  refused without need are hunks that leave the window or reach its last line, which lost
  its newline when the window was joined (`windowing.py:44`).
* The loop keeps its attempts and ends with them used up or with a failure that has no
  route, whose attempt is forgotten (`AttemptsKept`). What is published passed, builds,
  was not rejected, and is an open pull request only with its regression test
  (`PublishedSafely`); a critical finding that is not about security is overridden
  (`BlockingSlips`; together `Published`).
* An issue's row is true to the occurrences taken, late ones included (`RowsTrue`), but
  for those the statement raises for: `array_agg` over no release is NULL, the column is
  not null, and so an occurrence without a release of an issue that knows of none is lost,
  each time.
* Occurrences of one bug share an issue and an issue has one live run, though the gate
  only reads (`OneRunPerBug`). Two cases split a bug: `NumbersTell`, because integers of
  one and two digits stay in the message, those of three to seven become `<num>` and
  longer ones `<hex>` ("User 8821 not found" and "User 77 not found" are two issues,
  against `docs/03-PIPELINE-SPEC.md:266-268`), and `RulesTell`, the project's own rules.
  The quota is overrun by less than the number of workers (`QuotaOverrun`); a regression's
  mark stays (`RegressionSticks`).
* A bundle keeps its budget (`BudgetKept`) and holds what exists: files of the release's
  tree, each once, callers that call (`RealEvidence`). A model's reply takes nothing from
  the plan but what the cap cuts (`ReplyNeverPoorer`). The failing file is first, if S4
  named it as the tree does and its windows fit (`FailurePointKept`); if only S5 found its
  path, it may be last. One file gives one window: where the call graph finds a second one
  in the failing file that defines more of the implicated symbols, `_dedup` keeps that
  one, and the lines around the failure are not in the bundle. The error in `stock` of
  `MCRetrieval` is such a case (`ranking.py:275-287`; `docs/03-PIPELINE-SPEC.md:630` calls
  the failure point's function non-negotiable).

`PROJECT.json` lists under "findings" where a document, a comment or a test says more than
this. Their properties state what does hold, with the exception as a disjunct of its own;
`delivery_gzip` alone refutes a sentence as it stands.

## 4. Proofs

`SdkClientProofs` proves, for any number of host threads, senders, events, closes,
outages and forks and any buffer, batch and attempt bounds:

* `TypeCorrect`: `Spec => []TypeOK`. `TypeOK` is inductive. The steps on the buffer
  rest on `TakeSplits` and `PutBackSplits`: what `take()` hands out and leaves, and
  what `put_back()` keeps and drops, are the list they were given, cut in two.
* `AlwaysAccounted`: `Spec => []Accounted`. Inductive with the types and with
  `BatchScope` (only a sender between taking and giving back holds a batch). Events
  move between the places in one of five ways (`AddAccounted`, `TakeAccounted`,
  `AnsweredAccounted`, `GiveBackAccounted`, `ForkAccounted`); every action is one of
  them or moves nothing (`LedgerStep`).
* `OneSenderWhileOpen`: `Spec => []SingleSenderWhileOpen`. The property is not
  inductive: the new sender is started because *`_thread`* is dead, and that says
  something of all senders only because before the first close every live sender is
  `_thread` (`ThreadTracked`), and because no thread can be in `close()` before one
  was called (`CloseScope`).
* `AlwaysKeptInOrder`: `Spec => KeptInOrder`, order and what an overflow sheds. While
  no two senders were alive at once (`OneAlive`), what was sent, the one batch and the
  buffer are one increasing sequence (`InOrder`), so that a batch given back goes before
  all of the buffer; of what does not fit then, the newest is dropped
  (`OverflowMeansFull`, `KeepsOldestStep`).
* `ClientImplementsPipe`: `Spec => ImplementsPipe`, the refinement of `EventPipe`. Each
  step is a step of the pipe or a stutter (`PipeStep`): only `add()` and `put_back()`
  shed, and what they shed has a full buffer of older events before it (`FullBuffer`).
  Batches in the hands of senders count as waiting, hence the hypothesis that there are
  finitely many senders.
* `FlushMissesLittle`: `Spec => FlushMissesOnlyUnmarked`. While no two senders were alive
  at once, `_sending` is true as long as one works on a batch it announced (`Announced`;
  not so once two were, since the flag is one bit that either of them clears). A `flush()`
  that reads it false therefore misses only a batch between `take()` and the flag.

`DeliveryProofs` proves, for any number of handlers, keys, windows, attempts, other
batches and faults:

* `TypeCorrect`: `Spec => []DeliveryTypeOK`, the limits of each window included.
* `NeverAnsweredUnstored`: `Spec => []TakenIsStored`. The strengthening `Progress`
  says what the place of a handler implies (past the insert the batch is stored,
  past `rpush` it is queued, only an answered handler has said "ok"), and
  `DoneIsStored` that a stored response is about a stored batch.
* `OneOwnerPerKey` and `OneCopyPerKey`: `Spec => []OneOwner`, `Spec => []OncePerKey`.
  `OneOwner` is inductive; the bound on copies needs `Budget`: the one copy a key
  allows without faults is still unused as long as its claim is free, or held by a
  handler that has not inserted or is about to release it.
* `DeliveredIsStored`: `Spec => []NothingLost`. Its core is `Kept(k)`: once a
  well-formed batch's key was claimed, a handler holds the claim, the batch is
  stored, or there was a fault. It is stable (`KeptStays`), a 409 is only answered
  when it holds, and it is what a dropped batch leaves behind.

`LlmGatewayProofs` proves of `CostBreaker`, for any number of workers and days, any caps,
any estimate and any number of faults:

* `TypeCorrect`: `BreakerSpec => []BreakerTypeOK`.
* `AlwaysExact`: `BreakerSpec => []Exact`. The invariant behind it, `Shape`, is what the
  place of a worker says of the counters its estimate stands in and of the replies it
  has seen. From it, `EveryStep` shows that a step does one of a few things to a
  counter (`CounterStep`): it leaves it alone, takes an estimate in, undoes one, is told
  the cost of one, or forsakes one. The overshoot and the budgets rest on it too.
* `OnlyFaultsLeave`: `BreakerSpec => []LeftByFaults`, from `Faulted`: the workers that
  failed and have not left yet, and what was left already, are no more than the faults.
* `BoundedOvershoot`: `BreakerSpec => []Overshoot`. By `Exact`, a reply within the cap
  means that there is room for one more estimate (`RoomForOneMore`); every other step
  keeps the bound.
* `ImplementsBudgets`: `BreakerSpec => WithinBudgets`. What a step does to a counter is
  a `Grant`, a `Settle` or a stutter of `Budget`.

It proves then that every behaviour of the gateway is one of the breaker
(`UsesTheBreaker`: each action of `complete()` is a step of `BreakerNext` or leaves its
variables alone), so that these results hold of `LlmGateway!Spec` too
(`SpendAccounted`, `SpendWithinBudgets`). And of `complete()` itself, for any requests,
texts, providers, prices and ladders:

* `OnlyAccepted`: `Spec => []AcceptedOnly`. `LadderInv` says what a call holds on the
  way: what waits to be stored, inserted or settled is a text that was accepted for its
  own prompt, so that whatever another call finds in the cache under that prompt was too.
* `EveryVerdictRecorded`: `Spec => []EveryCallRecorded`, from the same invariant: a call
  leaves the ladder only with its rows written or with an exception.
* `NeverOvercharged`: `Spec => []NotOvercharged`. `BillInv` relates a counter to the
  providers' bill and to what the calls under way have yet to tell it: what is told, and
  what is owed, is billed already. Sums over workers are sizes of sets of pairs
  (`TokensOfOne`, `TokensChange`); `EveryStepBills` is the ledger's case analysis.

`SandboxFleetProofs` proves, for any runs, workers, permits and faults:

* `TypeCorrect`: `Spec => []FleetTypeOK`. The queue part rests on `AppendLists`,
  `TailLists` and `WithoutLists`: joining, being served and being withdrawn each keep a
  sequence that names a set, every member once.
* `FinallyDeletes` and `YoungKeepVerdict`: `Spec => []NoneLeft`, `Spec =>
  []VerdictKept`. Neither is inductive. `Scope` adds what the place of a run says of its
  container (none before `create()`, executing only from `start()` to the end of the
  wait or the kill, gone early only if it was old) and that the reaper is only ever about
  to remove a container that is old and exists.
* `AlwaysCapped`: `Spec => []Capped`. `Room` (a worker's holders fit its permits) is
  inductive with the types, because only `Acquire` enters the block (`Enters`); with
  `Scope`, what executes without a failure behind it is held by one of them.

`SandboxRunnerProofs` proves, for any inputs, any list of gates that keeps the order of
`RunnerAssumption`, and any number of subprocesses cut off:

* `PassedMeansProven`: `Spec => []RegressionProven`, `SignalsClaimNoMore`: `Spec =>
  []SignalsHonest`, and `DeltasAreThePatchs`: `Spec => []DeltasHonest`. They share one
  invariant. `ResultsHonest` says of each result what it may claim in the mode and with
  the cut-off subprocesses so far (`Says`): a gate decided on the tree it laid out itself,
  not on what the gate before left (`RunnerInv` keeps what is under `/work` at every
  gate). `CountsKeys` carries the difference of two bags of findings to sets of keys.
  `ReportStep` turns the list of results into the answer.

`PipelineProofs` proves, for any contexts, repositories, replies, answers and reviews of the
shape their schemas allow, and any limits:

* `HistoryKept`: `Spec => []AttemptsKept`. `LoopInv` adds that before the end
  one attempt less is noted than is counted, that a repair has a failed gate, and that the
  count is within its limit.
* `AnalysisHolds`: `Spec => []EvidenceHolds`. That a line quoted from a window is a line
  of the file is `WindowInFile`, from the assumption that windows were read from the
  commit.
* `PublishedIsSafe`: `Spec => []Published`. `DecisionSafe` shows it of the decision for
  *every* integer as confidence: bands and arithmetic cannot outvote the hard gates
  (`HardGatesBound`). `PublishInv` carries validation and review to the decision.
* `ScopeAlwaysKept`: `Spec => []PatchInScope`, over diffs of any length. `PatchInv` adds
  only that the patch was accepted and the tree is what the diff makes of the commit. That
  a diff touches no other file, and what it makes of its own, is `PatchedMeans`; that a
  file's copy takes each line from the original or from a hunk is `WholeMeans`.
* `AlwaysAppliedAlike`: `Spec => []AppliedAlike`, for contexts with windows of files and tests
  whole or as signatures (`ContextAssumption`). A hunk that S7 found in the window is in
  the file at the same place (`AtInWindow`), and hunks in order, each where it says, all
  apply (`WholeFits`, `PatchedFits`): so what is left for S7 to accept and G0 to refuse is
  insertions, order, and hunks that were found in signatures. The other way round, a section
  the file takes has its hunks where they say, so that S7 refuses it only beyond what it compares.

The lemmas about diffs are inductions over hunks and lines. The induction theorems of the
library cannot be instantiated here, but well-foundedness of `<` gives induction for a *set*
of naturals (`NatSetInduction`), and the recursive functions of `UnifiedDiff` are
explicit functions over `0 .. n`, whose recursion `TextsSteps`, `CopiedSteps` and
`PatchedSteps` unfold.

`TriageProofs` proves, for any workers, occurrences, rules and quota:

* `TableTrue`: `Spec => []RowsTrue`. `TableInv` adds that an issue without a row has no
  occurrence that was counted; `UpsertedRow` is what the SQL statement makes of a row. An
  occurrence it raises for has no release, and neither had any that was counted.
* `OverrunBounded`: `Spec => []QuotaOverrun`. `QuotaInv`: once the quota is
  used up nobody new passes the gate, and each worker that did may take one unit more, so
  what is taken and about to be taken beyond the quota is one unit for each worker but the
  first at most.
* `NeverTwoRuns`: `Spec => []LiveOnce`, the first part of `OneRunPerBug`, and
  `RegressionNeverForgotten`: `Spec => RegressionSticks`.
* `BugRunsOnce`: `Spec => []OneRunPerBug`, without a hypothesis on rules or messages: two
  occurrences that neither numbers nor rules tell apart have the same list to hash, under the
  default and under a rule.

`RetrievalProofs` proves, for any tree, mappings, errors, replies, commits, limits and
budget, and any order of the tasks of `gather()`:

* The invariant `Inv` says that each variable is what its stage computes from the variables
  before it: `u` from the error and some reply or none, `files` from `u.frames`, `graph`,
  `history` and `tests` from `u` and `files`, the bundle from all of them. The properties
  speak of `outcome`, `u`, `graph` and the tree at once, so none is inductive without it.
  The state needs no more than that; the work is in what the stages compute.
* `BundleWithinBudget`: `Spec => []BudgetKept`. `TakenInv` is the invariant of a loop that
  admits items while they fit, in one of several forms (`TakenStep`, `TakenMeans`): what is
  used is what was used plus the tokens of what was admitted, within the budget. Files and
  tests are both admitted by it.
* `FramesSurviveTheReply`: `Spec => []ReplyNeverPoorer`. `MergeMeans` shows of one list that
  what is cut is cut behind the base's part; `LoweredMeans` that no confidence is raised;
  `KeptInv` (of the loop in `_hypotheses`) that priors add up to at most one. `SoundU`, what
  later stages rely on, is preserved with it (`MergedIsSound`).
* `EvidenceIsReal`: `Spec => []RealEvidence`. Each strategy returns files of the tree
  (`FrameFilesMean`, `ReferencesExpanded`, `CallersExpanded`, `TestsMean`), whatever the
  search over the other revision returned, since every hit is read again at the commit.
  `DedupMeans` and `OrderMeans`: one entry of each path, and each once in the order.
* `FailingFileComesFirst`: `Spec => []FailurePointKept`. Priority 1 is claimed by the failing
  path alone (`RankFileMeans`), so its entry comes before every other (`OrderMeans`) and the
  loop admits it first (`AdmittedMeans`). `MoreSymbols` turns the comparison of relevances
  around: a later strategy with a lower weight wins only by symbols. The attempt to prove
  the plain statement, that the frame's window is shown, failed for the reason given in
  section 3.

Lists here are picked by the positions they keep (`Picked`), and a sort is the rank of its
elements (`InOrder`): so that what they return follows from cardinalities alone
(`RanksAreTaken`, `PickedMeans`), with induction over a set of naturals as for the diffs.

The assumptions are those on the constants (`CapacityAssumption`,
`ClientAssumption`, `IngestAssumption`, `DeliveryAssumption`, `BreakerAssumption`,
`GatewayAssumption`, `FleetAssumption`, `RunnerAssumption`, `LimitAssumption`,
`ContextAssumption`, `ReplyAssumption`, `AnswerAssumption`, `TriageAssumption`,
`MappingAssumption`, `TreeAssumption`, `BudgetAssumption`, `EventAssumption`,
`HistoryAssumption`, `BoundsAssumption`): sets are
disjoint where the code has different things, bounds are naturals, sizes positive, there are
finitely many senders, replies have the types their schemas give them, a diff is what
its parser returns (`IsDiff`: sections of hunks of lines), and a window shows lines of its
file. `RunnerAssumption` says that none of G4 to G6 comes before G2, because they rely on the
packages G2 installs; it does not say that the other gates run. For a list with G6 and
without G3 the proof of `DeltasHonest` failed for a reason: a patch that cannot
be imported makes both of G6's runs empty, and G6 passes. `RegressionsSlipUnseen` names this
case, and the run has such lists. For `Retrieval` they say that paths, plans and symbols
are lists, that a file's lines are naturals and the tree's paths are among `PATHS`, that a
commit has a size and an age, and that a hypothesis names frames by naturals; nothing is
assumed of the search's results, of the confidence or priors of a reply, or of what one
revision has in common with the other.

Model-checked only is what speaks of fairness (`Progress`, `LivesEnd`, `Completes`,
`AllEnd`, `AlwaysAnswers`), which the prover cannot do. Every invariant the runs check is
proved.

## 5. Not modelled

* The path of `_ensure_thread()` that finds a foreign pid by itself: with the fork
  hook registered the pid is already right. A fork from a thread inside the client.
* `__init__.py`'s global client, swapped by `init()` and `close()`; a call that fetched
  the old client may use it after its close, which `SdkClient` allows anyway.
* The amount of a delay, `Retry-After`, the wording of reports, headers, body and
  batch size limits (a request refused for them has no effect).
* An event a racing `close()` loses in `capture()` before `add()` counts it: the model
  has the exception, `Accounted` begins at `add()`.
* What a batch of several events shares when some of them are invalid: the valid
  ones are stored, which for the properties here is a good batch.
* The gateway without a cache or a breaker, which nothing instantiates; a price that is
  not listed; `max_repair_attempts`, which no code reads; the content of `prompt.json`,
  which is written with the response's text (`gateway.py:373-375`). An error of a
  provider that `failover.trigger_on` does not name leaves the gateway as it is
  (`ProviderFails`), although `errors.py:21-25` says that none does.
* What a container does with its input beyond reporting or dying, its image and its
  flags. `docs/07-SANDBOX-VALIDATION.md:478` calls the concurrency global; the code has
  a semaphore in each orchestrator, and that is what `Capped` is about.
* Python, pip, pytest, ruff and bandit: what each reports is an input of `SandboxRunner`.
  What `pip --user` leaves under `/work/.local` is removed with the tree by the next gate.
* The fixture's writes to GitHub, which nothing calls. What floating
  point does to a score at the boundary of a band. The markdown report.
* Findings of one review are taken as distinct. The correction a stage may ask for once is
  modelled, its wording is not; the wording of `instruction_delta` reaches neither S6 nor S7,
  although `docs/03` S9 has them called with it.
* The owner trigger of migration 001100, which returns `old` from a `BEFORE UPDATE` and
  counts the other owners as its own transaction sees them: no code of the repository
  removes an owner, and what two removals at once see is a matter of Postgres alone.
* The key cache of `auth/`: it replaces its key set by one assignment; an expired cache
  and an unknown kid are two fetches in a row, and nothing else can go wrong over time.
* Row-level security, partitions, token cryptography, redaction patterns, prompts,
  the contents of fixtures, the web stub.

What a reader of the models may want to know, and no property is about:

* `normalize_message` is not idempotent (`a@b.co0xff`), although `fingerprint.py:74` says
  "Idempotent by construction"; each event is normalised once.
* `understand/validate.py:104` cuts the plan of S4 at `MAX_PLAN_ITEMS` when a reply
  comes, even where the reply adds nothing (`ReplyNeverPoorer` says `Cut`);
  `low_frame_confidence` is not computed again after a reply lowers confidences.
* A relative `vendor/x.py` counts as in-app (`frames.py:73-87`); `from . import x` at the
  root never resolves; the second symbol of a file gets no window of its own. The model has
  these. It does not have that `lstrip("./")` eats the dot of a hidden directory, nor the case
  folding of `is_in_app`: names are segments, and have one case.
* `NotOvercharged` bounds what is spent from one side: costs the counters never hear of, and
  an estimate left behind, are in `Exact` and in the findings. `RealEvidence` looks at a
  callee's path, not at its definition in the release. `DeltasHonest` names a lost report and
  a moved finding as exceptions.
* The plan's `must_fetch_by_symbol` and `want_*` are not fetched by S5, and `must_fetch`
  feeds only history and tests; blame that was dropped from the bundle still counts in
  its statistics.
* The cap of 0.35 and the band "low" of `syntax_only` never decide anything: its
  `build_passed` is false, which forbids publishing by itself. `score()` does not read
  `validation.passed`; that only a passed validation gets there is the loop's doing.

## 6. Plan

1. Done: `EventBuffer`, `SdkClient`, `EventPipe`, `Ingest`, `Delivery`, with proofs.
2. Done: `CostBreaker`, `Budget`, `LlmGateway`, with proofs.
3. Done: `SandboxFleet`, with proofs, and `SandboxRunner`.
4. Done: `UnifiedDiff`, `Scoring`, `PatchPipeline`, with proofs.
5. Done: `Triage`, with proofs.
6. Done: `Understanding`, `Sources`, `Ranking`, `Retrieval`, with proofs.
7. Done: proofs that `SdkClient` implements `EventPipe`, of order, of what the gateway
   accepts, records and bills, of the runner for any list of gates, of scope over any diff,
   of what a bundle holds.
8. Left: type correctness of the modules that have no theorem of it, where a proof needs it.
9. Left: the composition of worker, stages and queue, as soon as the code has the loop that
   pops `rt:ingest` and calls the stages; removals of owners, as soon as a route makes them.
