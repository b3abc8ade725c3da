---------------------------- MODULE SandboxFleet ----------------------------
(***************************************************************************)
(* The sandbox containers of worker/pipeline/validate/orchestrator.py:     *)
(* SandboxOrchestrator.run() in several worker processes, each with its    *)
(* semaphore, the one Docker daemon they share, and SandboxReaper, which   *)
(* removes what a dead worker left.  Each await is a step.                 *)
(***************************************************************************)
EXTENDS Integers, FiniteSets, Sequences

CONSTANTS
    Runs,           \* calls of run(), each with the one container it creates
    Workers,        \* processes with an orchestrator
    Home,           \* the worker a run is a call in
    Concurrency,    \* permits of an orchestrator's semaphore
    Nobody,
    MaxFaults       \* bound: failed calls of Docker, cancellations, crashes

ASSUME FleetAssumption ==
    /\ IsFiniteSet(Runs)
    /\ Nobody \notin Runs
    /\ Home \in [Runs -> Workers]
    /\ Concurrency \in Nat \ {0}
    /\ MaxFaults \in Nat

VARIABLES
    pc,         \* the await each run is at
    queue,      \* the waiters of a worker's semaphore, first come first
    verdict,    \* what run() returns or raises
    box,        \* its container
    old,        \* containers past orphan_max_age_seconds
    rpc,        \* the await the reaper is at
    listed,     \* the containers it has yet to look at
    due,        \* those that were old when it listed them
    target,     \* the one it is removing
    faults,
    failed      \* history: what failed of a run

runVars == <<pc, queue, verdict>>
reaperVars == <<rpc, listed, due, target>>
vars == <<runVars, box, old, reaperVars, faults, failed>>

Present == {"created", "running", "fed", "done", "died"}
Executing == {"running", "fed"}
Exists(r) == box[r] \in Present

\* The runs inside `async with self._semaphore`.
Inside == {"create", "start", "stdin", "wait", "kill", "log"}
Holding(w) == {r \in Runs : pc[r] \in Inside /\ Home[r] = w}

\* Mutant: a run that timed out leaves the block by a path that does not release.
Taken_KeptByTimeout(w) ==
    Holding(w) \cup {r \in Runs : Home[r] = w /\ verdict[r] = "timeout"}

\* Mutant: the block ends once the container has started.
Taken_UntilStarted(w) == {r \in Holding(w) : pc[r] \in {"create", "start"}}

Taken(w) == Holding(w)

-----------------------------------------------------------------------------
(* run()                                                                   *)

Call(r) ==
    /\ pc[r] = "new"
    /\ pc' = [pc EXCEPT ![r] = "queued"]
    /\ queue' = [queue EXCEPT ![Home[r]] = Append(@, r)]
    /\ UNCHANGED <<verdict, box, old, reaperVars, faults, failed>>

Acquire(r) ==
    /\ pc[r] = "queued"
    /\ r = Head(queue[Home[r]])
    /\ Cardinality(Taken(Home[r])) < Concurrency
    /\ pc' = [pc EXCEPT ![r] = "create"]
    /\ queue' = [queue EXCEPT ![Home[r]] = Tail(@)]
    /\ UNCHANGED <<verdict, box, old, reaperVars, faults, failed>>

\* An await that comes back with b done to the container, and the next one.
Step(r, from, to, b) ==
    /\ pc[r] = from
    /\ pc' = [pc EXCEPT ![r] = to]
    /\ box' = [box EXCEPT ![r] = b]
    /\ UNCHANGED <<queue, verdict, old, reaperVars, faults, failed>>

\* Mutant: only a run that has a verdict deletes its container.
Exit_VerdictOnly(r, v) ==
    /\ pc' = [pc EXCEPT ![r] = IF v \in {"result", "timeout"} THEN "delete" ELSE "over"]
    /\ verdict' = [verdict EXCEPT ![r] = v]
    /\ UNCHANGED queue

\* The block of the semaphore is left, with a value or an exception, and then `finally`
\* begins to delete: __aexit__() and the request are one step, nothing awaits in between.
Exit(r, v) ==
    /\ pc' = [pc EXCEPT ![r] = "delete"]
    /\ verdict' = [verdict EXCEPT ![r] = v]
    /\ UNCHANGED queue

Leaves(r, from, v) ==
    /\ pc[r] = from
    /\ Exit(r, v)
    /\ UNCHANGED <<box, old, reaperVars, faults, failed>>

Create(r) == Step(r, "create", "start", "created")

\* The reaper may have removed the container of any await.
Start(r) ==
    \/ Exists(r) /\ Step(r, "start", "stdin", "running")
    \/ ~Exists(r) /\ Leaves(r, "start", "raised")

WriteStdin(r) ==
    \/ box[r] = "running" /\ Step(r, "stdin", "wait", "fed")
    \/ box[r] = "died" /\ (Step(r, "stdin", "wait", box[r]) \/ Leaves(r, "stdin", "broken"))
    \/ ~Exists(r) /\ Leaves(r, "stdin", "raised")

Waited(r) == box[r] \notin Executing /\ Step(r, "wait", "log", box[r])

\* wait_for() gives up on container.wait(), exited or not.
HardTimeout(r) == Step(r, "wait", "kill", box[r])

Killed(r) == box' = [box EXCEPT ![r] = IF @ \in Executing THEN "died" ELSE @]

Kill(r) ==
    /\ pc[r] = "kill"
    /\ Killed(r)
    /\ Exit(r, "timeout")
    /\ UNCHANGED <<old, reaperVars, faults, failed>>

\* container.log() and _extract_result(): no markers, no result.
ReadLog(r) ==
    \/ box[r] = "done" /\ Leaves(r, "log", "result")
    \/ box[r] = "died" /\ Leaves(r, "log", "broken")
    \/ ~Exists(r) /\ Leaves(r, "log", "raised")

\* delete(force=True); that it is gone already is suppressed.
Delete(r) ==
    /\ pc[r] = "delete"
    /\ pc' = [pc EXCEPT ![r] = "over"]
    /\ box' = [box EXCEPT ![r] = "gone"]
    /\ UNCHANGED <<queue, verdict, old, reaperVars, faults, failed>>

-----------------------------------------------------------------------------
(* What goes wrong: a call of Docker raises, its work done or not, or the  *)
(* task is cancelled at an await.                                          *)

Fault(r, how) ==
    /\ faults < MaxFaults
    /\ faults' = faults + 1
    /\ failed' = [failed EXCEPT ![r] = IF @ = "left" THEN @ ELSE how]
    /\ UNCHANGED <<old, reaperVars>>

Without(r, q) ==
    LET at == CHOOSE i \in DOMAIN q : q[i] = r
    IN  SubSeq(q, 1, at - 1) \o SubSeq(q, at + 1, Len(q))

\* Semaphore.acquire() takes a cancelled waiter out of the queue.
Withdrawn(r) == Without(r, queue[Home[r]])

Cancelled(r) ==
    /\ pc[r] = "queued"
    /\ Fault(r, "call")
    /\ queue' = [queue EXCEPT ![Home[r]] = Withdrawn(r)]
    /\ pc' = [pc EXCEPT ![r] = "over"]
    /\ verdict' = [verdict EXCEPT ![r] = "raised"]
    /\ UNCHANGED box

\* run() never learns of a container that create() made before it raised.
CreateRaises(r) ==
    /\ pc[r] = "create"
    /\ Fault(r, "left")
    /\ \E b \in {"none", "created"} : box' = [box EXCEPT ![r] = b]
    /\ pc' = [pc EXCEPT ![r] = "over"]
    /\ verdict' = [verdict EXCEPT ![r] = "raised"]
    /\ UNCHANGED queue

\* What start() and the input may have done before they raised.
AfterRaise(r) ==
    CASE pc[r] = "start" /\ box[r] = "created" -> {"created", "running"}
      [] pc[r] = "stdin" /\ box[r] = "running" -> {"running", "fed"}
      [] OTHER -> {box[r]}

CallRaises(r) ==
    /\ pc[r] \in {"start", "stdin", "wait", "log"}
    /\ Fault(r, "call")
    /\ \E b \in AfterRaise(r) : box' = [box EXCEPT ![r] = b]
    /\ Exit(r, "raised")

\* suppress(Exception): the verdict stands; a cancellation is not an Exception and replaces it.
KillFails(r) ==
    /\ pc[r] = "kill"
    /\ Fault(r, "call")
    /\ Killed(r) \/ UNCHANGED box
    /\ \E v \in {"timeout", "raised"} : Exit(r, v)

DeleteFails(r) ==
    /\ pc[r] = "delete"
    /\ Fault(r, "left")
    /\ pc' = [pc EXCEPT ![r] = "over"]
    /\ box' = [box EXCEPT ![r] = "gone"] \/ UNCHANGED box
    /\ verdict' = [verdict EXCEPT ![r] = "raised"] \/ UNCHANGED verdict
    /\ UNCHANGED queue

\* A worker process dies, and with it every run of it; its successor starts afresh.
Crash(w) ==
    /\ faults < MaxFaults
    /\ faults' = faults + 1
    /\ LET dead == {r \in Runs : pc[r] \notin {"new", "over"} /\ Home[r] = w} IN
         /\ dead # {}
         /\ pc' = [r \in Runs |-> IF r \in dead THEN "over" ELSE pc[r]]
         /\ verdict' = [r \in Runs |-> IF r \in dead THEN "lost" ELSE verdict[r]]
         /\ failed' = [r \in Runs |-> IF r \in dead THEN "left" ELSE failed[r]]
    /\ queue' = [queue EXCEPT ![w] = <<>>]
    /\ UNCHANGED <<box, old, reaperVars>>

-----------------------------------------------------------------------------
(* The containers.                                                         *)

Becomes(r, from, b) ==
    /\ box[r] \in from
    /\ box' = [box EXCEPT ![r] = b]
    /\ UNCHANGED <<runVars, old, reaperVars, faults, failed>>

\* The runner prints its result and exits, or is killed inside its limits before it could.
Reports(r) == Becomes(r, {"fed"}, "done")
Dies(r) == Becomes(r, Executing, "died")

Age(r) ==
    /\ Exists(r) /\ r \notin old
    /\ old' = old \cup {r}
    /\ UNCHANGED <<runVars, box, reaperVars, faults, failed>>

-----------------------------------------------------------------------------
(* SandboxReaper                                                           *)

Labelled == {r \in Runs : Exists(r)}

Listing == Labelled

\* Mutant: every labelled container is removed.
Due_All == Listing

\* Ages are reckoned from the moment of the listing.
Due == Listing \cap old

List ==
    /\ rpc = "asleep"
    /\ rpc' = "look"
    /\ listed' = Listing
    /\ due' = Due
    /\ UNCHANGED <<runVars, target, box, old, faults, failed>>

\* container.show(), which raises when the container is gone: nothing catches that, in
\* reap_once() or in run_forever().
Show(r) ==
    /\ rpc = "look" /\ r \in listed
    /\ listed' = listed \ {r}
    /\ IF ~Exists(r) THEN rpc' = "dead" /\ UNCHANGED target
       ELSE IF r \in due THEN rpc' = "remove" /\ target' = r
       ELSE UNCHANGED <<rpc, target>>
    /\ UNCHANGED <<runVars, due, box, old, faults, failed>>

Removed ==
    /\ rpc = "remove"
    /\ rpc' = "look"
    /\ target' = Nobody
    /\ UNCHANGED <<runVars, listed, due, old>>

Remove ==
    /\ Removed
    /\ box' = [box EXCEPT ![target] = "gone"]
    /\ UNCHANGED <<faults, failed>>

Sleep ==
    /\ rpc = "look" /\ listed = {}
    /\ rpc' = "asleep"
    /\ due' = {}
    /\ UNCHANGED <<runVars, listed, target, box, old, faults, failed>>

ReaperFault ==
    /\ faults < MaxFaults
    /\ faults' = faults + 1
    /\ UNCHANGED <<box, failed>>

\* delete() raises and is suppressed: the next round tries again.
RemoveFails == Removed /\ ReaperFault

\* list() or show() raises.
ReaperRaises ==
    /\ rpc \in {"asleep", "look"}
    /\ ReaperFault
    /\ rpc' = "dead"
    /\ UNCHANGED <<runVars, listed, due, target, old>>

-----------------------------------------------------------------------------
Init ==
    /\ pc = [r \in Runs |-> "new"]
    /\ queue = [w \in Workers |-> <<>>]
    /\ verdict = [r \in Runs |-> "none"]
    /\ box = [r \in Runs |-> "none"]
    /\ old = {}
    /\ rpc = "asleep" /\ listed = {} /\ due = {} /\ target = Nobody
    /\ faults = 0
    /\ failed = [r \in Runs |-> "nothing"]

\* What run() does by itself, given that Docker answers.
Proceed(r) ==
    \/ Acquire(r) \/ Create(r) \/ Start(r) \/ WriteStdin(r)
    \/ Waited(r) \/ HardTimeout(r) \/ Kill(r) \/ ReadLog(r) \/ Delete(r)

Fail(r) ==
    Cancelled(r) \/ CreateRaises(r) \/ CallRaises(r) \/ KillFails(r) \/ DeleteFails(r)

Reap == List \/ (\E r \in Runs : Show(r)) \/ Remove \/ Sleep

Next ==
    \/ \E r \in Runs :
          \/ Call(r)
          \/ Proceed(r)
          \/ Fail(r)
          \/ Reports(r) \/ Dies(r)
          \/ Age(r)
    \/ \E w \in Workers : Crash(w)
    \/ Reap
    \/ RemoveFails \/ ReaperRaises

\* asyncio resumes every task and serves waiters in order, Docker answers or raises, timers
\* elapse, containers grow old.  Nothing is promised of what runs in a container.
Spec ==
    /\ Init /\ [][Next]_vars
    /\ \A r \in Runs : WF_vars(Proceed(r)) /\ WF_vars(Age(r))
    /\ WF_vars(Reap)

-----------------------------------------------------------------------------
Pcs == Inside \cup {"new", "queued", "delete", "over"}
Verdicts == {"none", "result", "timeout", "broken", "raised", "lost"}

\* A semaphore's queue holds the runs that wait for it, once each.
QueueOK ==
    /\ queue \in [Workers -> Seq(Runs)]
    /\ \A w \in Workers :
          /\ \A r \in Runs : (\E i \in DOMAIN queue[w] : queue[w][i] = r)
                                 <=> pc[r] = "queued" /\ Home[r] = w
          /\ \A i, j \in DOMAIN queue[w] : queue[w][i] = queue[w][j] => i = j

StateOK ==
    /\ pc \in [Runs -> Pcs]
    /\ verdict \in [Runs -> Verdicts]
    /\ box \in [Runs -> Present \cup {"none", "gone"}]
    /\ old \subseteq Runs
    /\ rpc \in {"asleep", "look", "remove", "dead"}
    /\ listed \subseteq Runs /\ due \subseteq Runs
    /\ target \in Runs \cup {Nobody} /\ (rpc = "remove" => target # Nobody)
    /\ faults \in 0 .. MaxFaults
    /\ failed \in [Runs -> {"nothing", "call", "left"}]

\* The type of the state, and of the semaphores' queues.
FleetTypeOK == StateOK /\ QueueOK

\* The cap on what runs untrusted code at once, for each worker: only a container with a
\* failed call or a dead worker behind it executes beyond the permits, although a permit
\* is released before the container it was for is deleted.
Capped ==
    \A w \in Workers :
        Cardinality({r \in Runs : Home[r] = w /\ box[r] \in Executing /\ failed[r] = "nothing"})
            <= Concurrency

\* `finally` leaves no container behind, whatever raised and wherever: what outlives its run
\* was made by a create() that raised, met a delete() that did, or lost its process.
NoneLeft == \A r \in Runs : pc[r] = "over" /\ Exists(r) => failed[r] = "left"

\* The reaper never costs a run its verdict while its container is young: without a failure
\* run() ends with what the container printed, a timeout, or a container that died.
VerdictKept ==
    \A r \in Runs :
        /\ verdict[r] = "raised" => failed[r] # "nothing" \/ r \in old
        /\ verdict[r] = "lost" => failed[r] = "left"

\* Every call of run() ends: permits come back on every path, the hard timeout needs nothing
\* of the container, and waiters are served in order.
RunsEnd == \A r \in Runs : pc[r] = "queued" ~> pc[r] = "over"

Orphan(r) == pc[r] = "over" /\ Exists(r)

\* What is left behind is removed, whatever state it is in, unless the reaper died.
OrphansReaped == \A r \in Runs : Orphan(r) ~> ~Exists(r) \/ rpc = "dead"

\* Every call ends, and what a worker that died left behind is removed.
AllEnd == RunsEnd /\ OrphansReaped
=============================================================================
