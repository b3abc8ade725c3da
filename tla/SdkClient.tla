----------------------------- MODULE SdkClient -----------------------------
(***************************************************************************)
(* The Python SDK's client: packages/sdk-python/roottrace_sdk/_client.py   *)
(* over _buffer.py.  Threads of the host application capture events and    *)
(* call flush() and close(); background sender threads take batches from   *)
(* the buffer and send them with retries.                                  *)
(*                                                                         *)
(* A step is the code between two points where another thread can be seen: *)
(* one use of the buffer's lock, of the _drained condition, of an Event or *)
(* of the unprotected attribute _thread.  Events are named by the order in *)
(* which the buffer's lock admitted them to add(): 1, 2, 3 ...             *)
(***************************************************************************)
EXTENDS EventBuffer, FiniteSets

CONSTANTS
    HostThreads,    \* threads of the application
    Senders,        \* identities for sender threads (a dead one is reused)
    NoThread,       \* _thread is None
    BatchSize,      \* config.batch_size
    MaxAttempts,    \* config.max_attempts
    MaxEvents,      \* bound: capture() calls
    MaxCloses,      \* bound: close() calls
    MaxOutages,     \* bound: how often the API goes down
    MaxForks,       \* bound: os.fork() calls followed into the child
    SlowJoins       \* bound: may a sender outlive the timeout of close()'s join?

ASSUME ClientAssumption ==
    /\ NoThread \notin Senders
    /\ IsFiniteSet(Senders)
    /\ BatchSize \in Nat \ {0}
    /\ MaxAttempts \in Nat \ {0}
    /\ MaxEvents \in Nat
    /\ MaxCloses \in Nat
    /\ MaxOutages \in Nat
    /\ MaxForks \in Nat
    /\ SlowJoins \in BOOLEAN

VARIABLES
    buffer,     \* EventBuffer._events
    dropped,    \* the events ever counted in EventBuffer._dropped
    wake,       \* Event _wake
    stop,       \* Event _stop
    sending,    \* _sending, guarded by the condition _drained
    thread,     \* _thread: the sender this client believes it has
    pc,         \* host thread -> where it is in a call of the client
    call,       \* host thread -> the method it is in
    joinee,     \* host thread -> the sender close() joins
    due,        \* host thread -> events captured when its flush() began
    run,        \* sender -> where it is in _run / _send_pending
    batch,      \* sender -> local variable batch
    attempt,    \* sender -> local variable attempt
    final,      \* sender -> is it past the loop of _run?
    captured,   \* how many events add() has been given
    sent,       \* events of the batches the API took
    rejected,   \* events of the batches dropped as a 4xx
    foreign,    \* events pending in the parent at the last fork
    overlap,    \* has a sender ever started beside a live one?
    api,        \* does the API answer?
    outages, closes, forks

bufferVars == <<buffer, dropped>>
clientVars == <<wake, stop, sending, thread>>
hostVars   == <<pc, call, joinee, due>>
senderVars == <<run, batch, attempt, final>>
ledger     == <<captured, sent, rejected, foreign, overlap>>
envVars    == <<api, outages, closes, forks>>
vars == <<bufferVars, clientVars, hostVars, senderVars, ledger, envVars>>

HostPc   == {"idle", "peek", "ensure", "alive", "spawn", "recheck", "add", "signal",
             "wake", "check", "wait", "stop", "read", "join", "clear"}
SenderPc == {"dead", "top", "wait", "woken", "take", "announce", "mark", "send",
             "backoff", "putback", "done", "retreat"}
Events   == 1 .. MaxEvents

-----------------------------------------------------------------------------
Alive(s) == run[s] # "dead"

\* _thread is not None and _thread.is_alive()
ThreadAlive == thread # NoThread /\ Alive(thread)

\* Mutant: flush() looks at the buffer only.
IsDrained_IgnoresSending == buffer = <<>>

\* _is_drained()
IsDrained == ~sending /\ buffer = <<>>

InFlight == UNION {Range(batch[s]) : s \in Senders}
Pending  == Range(buffer) \cup InFlight

\* _wake.set(): every thread in _wake.wait() returns.
SetWake ==
    /\ wake' = TRUE
    /\ run' = [s \in Senders |-> IF run[s] = "wait" THEN "woken" ELSE run[s]]

\* _drained.notify_all(): every flush() re-evaluates _is_drained().
NotifyAll == pc' = [t \in HostThreads |-> IF pc[t] = "wait" THEN "check" ELSE pc[t]]

-----------------------------------------------------------------------------
(* The host application's threads.                                         *)

Go(t, where) == pc' = [pc EXCEPT ![t] = where]

AfterEnsure(t) == IF call[t] = "capture" THEN "add" ELSE "wake"

\* capture() is called.
Capture(t) ==
    /\ pc[t] = "idle"
    /\ captured + Cardinality({u \in HostThreads : call[u] = "capture"}) < MaxEvents
    /\ call' = [call EXCEPT ![t] = "capture"]
    /\ Go(t, "ensure")
    /\ UNCHANGED <<bufferVars, clientVars, joinee, due, senderVars, ledger, envVars>>

\* The end of a call: a return, or an exception the SDK's guard swallows.
Leave(t) ==
    /\ Go(t, "idle")
    /\ call' = [call EXCEPT ![t] = "none"]
    /\ due' = [due EXCEPT ![t] = 0]

\* "_thread is not None and _thread.is_alive()" reads _thread twice.  Ensure and
\* Spawn are the first read, EnsureAlive and Recheck the second, where a close() that
\* cleared _thread in between makes the call raise.

\* _ensure_thread(), the test without the lock.
Ensure(t) ==
    /\ pc[t] = "ensure"
    /\ Go(t, IF thread = NoThread THEN "spawn" ELSE "alive")
    /\ UNCHANGED <<bufferVars, clientVars, call, joinee, due, senderVars, ledger, envVars>>

EnsureAlive(t) ==
    /\ pc[t] = "alive"
    /\ IF thread = NoThread
       THEN Leave(t)
       ELSE Go(t, IF Alive(thread) THEN AfterEnsure(t) ELSE "spawn") /\ UNCHANGED <<call, due>>
    /\ UNCHANGED <<bufferVars, clientVars, joinee, senderVars, ledger, envVars>>

\* A thread object nobody holds a reference to.
Fresh(s) == ~Alive(s) /\ \A t \in HostThreads : joinee[t] # s

\* The end of _ensure_thread(): a new sender.
Start(t) ==
    /\ \E s \in Senders :
          /\ Fresh(s)
          /\ thread' = s
          /\ run' = [run EXCEPT ![s] = "top"]
          /\ final' = [final EXCEPT ![s] = FALSE]
    /\ stop' = FALSE
    /\ overlap' = (overlap \/ \E s \in Senders : Alive(s))
    /\ Go(t, AfterEnsure(t))
    /\ UNCHANGED <<bufferVars, wake, sending, call, joinee, due, batch, attempt,
                   captured, sent, rejected, foreign, envVars>>

\* _thread_lock is free: its critical section has one point where it can be seen.
Unlocked == \A u \in HostThreads : pc[u] # "recheck"

\* Mutant: the test is not repeated once the lock is held.
Spawn_Unchecked(t) == pc[t] = "spawn" /\ Unlocked /\ Start(t)

\* _ensure_thread() enters _thread_lock and tests again.
Spawn(t) ==
    /\ pc[t] = "spawn"
    /\ Unlocked
    /\ \/ thread = NoThread /\ Start(t)
       \/ /\ thread # NoThread
          /\ Go(t, "recheck")
          /\ UNCHANGED <<bufferVars, clientVars, call, joinee, due, senderVars, ledger, envVars>>

Recheck(t) ==
    /\ pc[t] = "recheck"
    /\ \/ thread # NoThread /\ ~Alive(thread) /\ Start(t)
       \/ /\ \/ thread = NoThread /\ Leave(t)
             \/ ThreadAlive /\ Go(t, AfterEnsure(t)) /\ UNCHANGED <<call, due>>
          /\ UNCHANGED <<bufferVars, clientVars, joinee, senderVars, ledger, envVars>>

\* EventBuffer.add()
Add(t) ==
    /\ pc[t] = "add"
    /\ captured' = captured + 1
    /\ \/ /\ IsFull(buffer)
          /\ dropped' = dropped \cup {captured + 1}
          /\ UNCHANGED buffer
       \/ /\ ~IsFull(buffer)
          /\ buffer' = Append(buffer, captured + 1)
          /\ UNCHANGED dropped
    /\ Go(t, "signal")
    /\ UNCHANGED <<clientVars, call, joinee, due, senderVars, sent, rejected, foreign,
                   overlap, envVars>>

\* capture() wakes the sender when a whole batch is waiting.
BatchReady == Len(buffer) >= BatchSize

Signal(t) ==
    /\ pc[t] = "signal"
    /\ IF BatchReady THEN SetWake ELSE UNCHANGED <<wake, run>>
    /\ call' = [call EXCEPT ![t] = "none"]
    /\ Go(t, "idle")
    /\ UNCHANGED <<bufferVars, stop, sending, thread, joinee, due, batch, attempt, final,
                   ledger, envVars>>

\* flush() returns: to the application, or to close().
Return(t) ==
    /\ Go(t, IF call[t] = "close" THEN "stop" ELSE "idle")
    /\ call' = [call EXCEPT ![t] = IF @ = "close" THEN "close" ELSE "none"]
    /\ due' = [due EXCEPT ![t] = 0]

\* flush() reads _thread: its early return needs None.
Begin(t) ==
    /\ due' = [due EXCEPT ![t] = captured]
    /\ Go(t, IF thread = NoThread THEN "peek" ELSE "ensure")

\* flush() called by the application.
FlushCall(t) ==
    /\ pc[t] = "idle"
    /\ call' = [call EXCEPT ![t] = "flush"]
    /\ Begin(t)
    /\ UNCHANGED <<bufferVars, clientVars, joinee, senderVars, ledger, envVars>>

\* close() called: it flushes first.
CloseCall(t) ==
    /\ pc[t] = "idle"
    /\ closes < MaxCloses
    /\ closes' = closes + 1
    /\ call' = [call EXCEPT ![t] = "close"]
    /\ Begin(t)
    /\ UNCHANGED <<bufferVars, clientVars, joinee, senderVars, ledger, api, outages, forks>>

\* ... and an empty buffer: True at once.
Peek(t) ==
    /\ pc[t] = "peek"
    /\ IF buffer = <<>> THEN Return(t) ELSE Go(t, "ensure") /\ UNCHANGED <<call, due>>
    /\ UNCHANGED <<bufferVars, clientVars, joinee, senderVars, ledger, envVars>>

\* flush() sets _wake.
Wake(t) ==
    /\ pc[t] = "wake"
    /\ SetWake
    /\ Go(t, "check")
    /\ UNCHANGED <<bufferVars, stop, sending, thread, call, joinee, due, batch, attempt,
                   final, ledger, envVars>>

\* wait_for() evaluates its predicate, under _drained.
Check(t) ==
    /\ pc[t] = "check"
    /\ IF IsDrained THEN Return(t) ELSE Go(t, "wait") /\ UNCHANGED <<call, due>>
    /\ UNCHANGED <<bufferVars, clientVars, joinee, senderVars, ledger, envVars>>

\* The timeout of flush() elapses; it returns what the predicate then says.
FlushTimeout(t) ==
    /\ pc[t] = "wait"
    /\ Return(t)
    /\ UNCHANGED <<bufferVars, clientVars, joinee, senderVars, ledger, envVars>>

\* A backoff is a wait on _stop: setting _stop ends it.
Interrupted(s) == IF run[s] = "backoff" THEN "putback"
                  ELSE IF run[s] = "wait" THEN "woken" ELSE run[s]

\* close() sets _stop and _wake.
CloseStop(t) ==
    /\ pc[t] = "stop"
    /\ stop' = TRUE
    /\ wake' = TRUE
    /\ run' = [s \in Senders |-> Interrupted(s)]
    /\ Go(t, "read")
    /\ UNCHANGED <<bufferVars, sending, thread, call, joinee, due, batch, attempt, final,
                   ledger, envVars>>

\* close() reads _thread, and joins it if it is alive.
CloseRead(t) ==
    /\ pc[t] = "read"
    /\ IF ThreadAlive
       THEN joinee' = [joinee EXCEPT ![t] = thread] /\ Go(t, "join")
       ELSE UNCHANGED joinee /\ Go(t, "clear")
    /\ UNCHANGED <<bufferVars, clientVars, call, due, senderVars, ledger, envVars>>

\* join(timeout) returns because the sender ended ...
CloseJoined(t) ==
    /\ pc[t] = "join"
    /\ ~Alive(joinee[t])
    /\ joinee' = [joinee EXCEPT ![t] = NoThread]
    /\ Go(t, "clear")
    /\ UNCHANGED <<bufferVars, clientVars, call, due, senderVars, ledger, envVars>>

\* ... or although it did not.
CloseJoinTimeout(t) ==
    /\ SlowJoins
    /\ pc[t] = "join"
    /\ Alive(joinee[t])
    /\ joinee' = [joinee EXCEPT ![t] = NoThread]
    /\ Go(t, "clear")
    /\ UNCHANGED <<bufferVars, clientVars, call, due, senderVars, ledger, envVars>>

\* close() forgets the thread, whatever became of it.
CloseClear(t) ==
    /\ pc[t] = "clear"
    /\ thread' = NoThread
    /\ call' = [call EXCEPT ![t] = "none"]
    /\ Go(t, "idle")
    /\ UNCHANGED <<bufferVars, wake, stop, sending, joinee, due, senderVars, ledger, envVars>>

-----------------------------------------------------------------------------
(* A sender thread.                                                        *)

Step(s, where) == run' = [run EXCEPT ![s] = where]

\* Mutant: a round that failed kills the thread.
AfterPending_Dies(s) == "dead"

\* The end of a call of _send_pending(), suppressed(): the loop goes on.
AfterPending(s) == IF final[s] THEN "dead" ELSE "top"

\* The loop test of _run(), and the entry of _wake.wait().
Top(s) ==
    /\ run[s] = "top"
    /\ final' = [final EXCEPT ![s] = stop]
    /\ Step(s, IF stop THEN "take" ELSE IF wake THEN "woken" ELSE "wait")
    /\ UNCHANGED <<bufferVars, clientVars, hostVars, batch, attempt, ledger, envVars>>

\* flush_interval elapses.
Tick(s) ==
    /\ run[s] = "wait"
    /\ Step(s, "woken")
    /\ UNCHANGED <<bufferVars, clientVars, hostVars, batch, attempt, final, ledger, envVars>>

\* _wake.clear()
Woken(s) ==
    /\ run[s] = "woken"
    /\ wake' = FALSE
    /\ Step(s, "take")
    /\ UNCHANGED <<bufferVars, stop, sending, thread, hostVars, batch, attempt, final,
                   ledger, envVars>>

\* _send_pending() takes a batch.
Take(s) ==
    /\ run[s] = "take"
    /\ batch' = [batch EXCEPT ![s] = Taken(buffer, BatchSize)]
    /\ buffer' = Remaining(buffer, BatchSize)
    /\ Step(s, IF buffer = <<>> THEN "announce" ELSE "mark")
    /\ UNCHANGED <<dropped, clientVars, hostVars, attempt, final, ledger, envVars>>

\* _announce_drained()
Announce(s) ==
    /\ run[s] = "announce"
    /\ sending' = FALSE
    /\ NotifyAll
    /\ Step(s, AfterPending(s))
    /\ UNCHANGED <<bufferVars, wake, stop, thread, call, joinee, due, batch, attempt, final,
                   ledger, envVars>>

\* _sending = True, in a critical section after the one that took the batch.
Mark(s) ==
    /\ run[s] = "mark"
    /\ sending' = TRUE
    /\ attempt' = [attempt EXCEPT ![s] = 1]
    /\ Step(s, "send")
    /\ UNCHANGED <<bufferVars, wake, stop, thread, hostVars, batch, final, ledger, envVars>>

\* The API took the batch.
SendOk(s) ==
    /\ run[s] = "send"
    /\ api
    /\ sent' = sent \cup Range(batch[s])
    /\ batch' = [batch EXCEPT ![s] = <<>>]
    /\ Step(s, "done")
    /\ UNCHANGED <<bufferVars, clientVars, hostVars, attempt, final, captured, rejected,
                   foreign, overlap, envVars>>

\* A status that is not retryable: the batch is dropped, deliberately.
SendRejected(s) ==
    /\ run[s] = "send"
    /\ api
    /\ rejected' = rejected \cup Range(batch[s])
    /\ batch' = [batch EXCEPT ![s] = <<>>]
    /\ Step(s, "done")
    /\ UNCHANGED <<bufferVars, clientVars, hostVars, attempt, final, captured, sent,
                   foreign, overlap, envVars>>

\* A retryable failure: back off (unless _stop is set already), or give the
\* batch back when that was the last attempt.
SendRetryable(s) ==
    /\ run[s] = "send"
    /\ ~api
    /\ Step(s, IF attempt[s] = MaxAttempts \/ stop THEN "putback" ELSE "backoff")
    /\ UNCHANGED <<bufferVars, clientVars, hostVars, batch, attempt, final, ledger, envVars>>

\* Mutant: without the except clause the batch dies with the exception.
SendRaises_Loses(s) ==
    /\ run[s] = "send"
    /\ ~api
    /\ Step(s, "retreat")
    /\ batch' = [batch EXCEPT ![s] = <<>>]
    /\ UNCHANGED <<bufferVars, clientVars, hostVars, attempt, final, ledger, envVars>>

\* The transport itself raises: the except clause of _send_pending().
SendRaises(s) ==
    /\ run[s] = "send"
    /\ ~api
    /\ Step(s, "putback")
    /\ UNCHANGED <<bufferVars, clientVars, hostVars, batch, attempt, final, ledger, envVars>>

\* The backoff delay elapses.
Retry(s) ==
    /\ run[s] = "backoff"
    /\ attempt' = [attempt EXCEPT ![s] = @ + 1]
    /\ Step(s, "send")
    /\ UNCHANGED <<bufferVars, clientVars, hostVars, batch, final, ledger, envVars>>

\* EventBuffer.put_back()
GiveBack(s) ==
    /\ run[s] = "putback"
    /\ buffer' = PutBack(batch[s], buffer)
    /\ dropped' = dropped \cup Range(Overflow(batch[s], buffer))
    /\ batch' = [batch EXCEPT ![s] = <<>>]
    /\ Step(s, "retreat")
    /\ UNCHANGED <<clientVars, hostVars, attempt, final, ledger, envVars>>

\* The finally clause of _send_pending(); a batch that went back ends the round.
Unmark(s) ==
    /\ run[s] \in {"done", "retreat"}
    /\ sending' = FALSE
    /\ NotifyAll
    /\ attempt' = [attempt EXCEPT ![s] = 1]
    /\ Step(s, IF run[s] = "done" THEN "take" ELSE AfterPending(s))
    /\ UNCHANGED <<bufferVars, wake, stop, thread, call, joinee, due, batch, final,
                   ledger, envVars>>

-----------------------------------------------------------------------------
(* The environment.                                                        *)

\* os.fork() from an application thread that is not inside the client, seen
\* from the child: no other thread survives, and the hook registered by
\* register_fork_hook() runs reset_after_fork() before anything else does.
Fork(t) ==
    /\ pc[t] = "idle"
    /\ forks < MaxForks
    /\ forks' = forks + 1
    /\ foreign' = foreign \cup Pending
    /\ buffer' = <<>>
    /\ wake' = FALSE
    /\ stop' = FALSE
    /\ sending' = FALSE
    /\ thread' = NoThread
    /\ pc' = [u \in HostThreads |-> "idle"]
    /\ call' = [u \in HostThreads |-> "none"]
    /\ joinee' = [u \in HostThreads |-> NoThread]
    /\ due' = [u \in HostThreads |-> 0]
    /\ run' = [s \in Senders |-> "dead"]
    /\ batch' = [s \in Senders |-> <<>>]
    /\ attempt' = [s \in Senders |-> 1]
    /\ final' = [s \in Senders |-> FALSE]
    /\ UNCHANGED <<dropped, captured, sent, rejected, overlap, api, outages,
                   closes>>

ApiFails ==
    /\ api
    /\ outages < MaxOutages
    /\ api' = FALSE
    /\ outages' = outages + 1
    /\ UNCHANGED <<bufferVars, clientVars, hostVars, senderVars, ledger, closes, forks>>

ApiRecovers ==
    /\ ~api
    /\ api' = TRUE
    /\ UNCHANGED <<bufferVars, clientVars, hostVars, senderVars, ledger, outages, closes, forks>>

-----------------------------------------------------------------------------
Init ==
    /\ buffer = <<>>
    /\ dropped = {}
    /\ wake = FALSE
    /\ stop = FALSE
    /\ sending = FALSE
    /\ thread = NoThread
    /\ pc = [t \in HostThreads |-> "idle"]
    /\ call = [t \in HostThreads |-> "none"]
    /\ joinee = [t \in HostThreads |-> NoThread]
    /\ due = [t \in HostThreads |-> 0]
    /\ run = [s \in Senders |-> "dead"]
    /\ batch = [s \in Senders |-> <<>>]
    /\ attempt = [s \in Senders |-> 1]
    /\ final = [s \in Senders |-> FALSE]
    /\ captured = 0
    /\ sent = {}
    /\ rejected = {}
    /\ foreign = {}
    /\ overlap = FALSE
    /\ api = TRUE
    /\ outages = 0
    /\ closes = 0
    /\ forks = 0

\* What a host thread does by itself once it is inside a call.
HostStep(t) ==
    \/ Ensure(t) \/ EnsureAlive(t) \/ Spawn(t) \/ Recheck(t)
    \/ Add(t) \/ Signal(t)
    \/ Peek(t) \/ Wake(t) \/ Check(t)
    \/ CloseStop(t) \/ CloseRead(t) \/ CloseJoined(t) \/ CloseClear(t)

HostCall(t) == Capture(t) \/ FlushCall(t) \/ CloseCall(t)

HostTimeout(t) == FlushTimeout(t) \/ CloseJoinTimeout(t)

\* What a sender does without waiting for flush_interval or a backoff delay.
SenderStep(s) ==
    \/ Top(s) \/ Woken(s) \/ Take(s) \/ Announce(s) \/ Mark(s)
    \/ SendOk(s) \/ SendRejected(s) \/ SendRetryable(s) \/ SendRaises(s)
    \/ GiveBack(s) \/ Unmark(s)

SenderTimer(s) == Tick(s) \/ Retry(s)

Next ==
    \/ \E t \in HostThreads : HostCall(t) \/ HostStep(t) \/ HostTimeout(t) \/ Fork(t)
    \/ \E s \in Senders : SenderStep(s) \/ SenderTimer(s)
    \/ ApiFails \/ ApiRecovers

Spec == Init /\ [][Next]_vars

\* The operating system schedules every thread that can run.  Nothing is
\* promised of timers, calls, forks and the API.
FairSpec ==
    /\ Spec
    /\ \A t \in HostThreads : WF_vars(HostStep(t))
    /\ \A s \in Senders : WF_vars(SenderStep(s))

-----------------------------------------------------------------------------
(* Properties.                                                             *)

BufferType ==
    /\ buffer \in Seq(Nat) /\ Len(buffer) <= Capacity
    /\ dropped \subseteq Nat

ClientType ==
    /\ wake \in BOOLEAN /\ stop \in BOOLEAN /\ sending \in BOOLEAN
    /\ thread \in Senders \cup {NoThread}

HostType ==
    /\ pc \in [HostThreads -> HostPc]
    /\ call \in [HostThreads -> {"none", "capture", "flush", "close"}]
    /\ joinee \in [HostThreads -> Senders \cup {NoThread}]
    /\ due \in [HostThreads -> Nat]

SenderType ==
    /\ run \in [Senders -> SenderPc]
    /\ batch \in [Senders -> Seq(Nat)]
    /\ \A s \in Senders : Len(batch[s]) <= BatchSize
    /\ attempt \in [Senders -> 1 .. MaxAttempts]
    /\ final \in [Senders -> BOOLEAN]

LedgerType ==
    /\ captured \in Nat
    /\ sent \subseteq Nat /\ rejected \subseteq Nat /\ foreign \subseteq Nat
    /\ overlap \in BOOLEAN

EnvType ==
    /\ api \in BOOLEAN
    /\ outages \in 0 .. MaxOutages /\ closes \in 0 .. MaxCloses /\ forks \in 0 .. MaxForks

\* Every variable has its type; the buffer is never above its bound, no batch
\* is longer than batch_size and no batch is attempted more often than
\* max_attempts (EventBuffer.add, take, put_back; _send_with_retry).
TypeOK == BufferType /\ ClientType /\ HostType /\ SenderType /\ LedgerType /\ EnvType

\* Every captured event is somewhere, and where it is not pending it is out.
Complete == 1 .. captured = Pending \cup sent \cup rejected \cup dropped \cup foreign

\* An event leaves by one exit, and never comes back.
ExitsDisjoint ==
    /\ Pending \cap (sent \cup rejected \cup dropped \cup foreign) = {}
    /\ sent \cap (rejected \cup dropped \cup foreign) = {}
    /\ rejected \cap (dropped \cup foreign) = {}
    /\ dropped \cap foreign = {}

\* A pending event is queued once or in the hands of one sender once.
HeldOnce ==
    /\ NoDuplicates(buffer)
    /\ \A s \in Senders :
          /\ NoDuplicates(batch[s])
          /\ Range(batch[s]) \cap Range(buffer) = {}
          /\ \A r \in Senders \ {s} : Range(batch[s]) \cap Range(batch[r]) = {}

\* Every event ever captured is in exactly one place.  Nothing is lost without
\* being counted, nothing is sent twice by the client, and what a forked
\* child inherited is never its own to send (_send_pending, put_back,
\* reset_after_fork), however calls, senders, failures and forks interleave.
Accounted == Complete /\ ExitsDisjoint /\ HeldOnce

\* As long as close() has not been called there is one sender at most, however
\* many threads find none and start one: _ensure_thread()'s double test.
SingleSenderWhileOpen == closes = 0 => ~overlap

\* Batches leave in the order their events were captured, across every retry
\* and every put_back(), as long as there was only one sender.
Ordered ==
    ~overlap =>
        /\ \A i, j \in DOMAIN buffer : i < j => buffer[i] < buffer[j]
        /\ \A s \in Senders : \A i \in DOMAIN batch[s] :
              /\ \A j \in DOMAIN batch[s] : i < j => batch[s][i] < batch[s][j]
              /\ \A e \in Range(buffer) : batch[s][i] < e
        /\ \A e \in sent \cup rejected, f \in Pending : e < f

\* On overflow the newest event is dropped, not the oldest (_buffer.py:5), and
\* only from a buffer that stays full.
KeepsOldest ==
    \A e \in dropped' \ dropped :
        /\ Len(buffer') = Capacity
        /\ ~overlap => \A f \in Range(buffer') : f < e

\* Batches leave in the order their events were captured, and what does not fit
\* is the newest: the two say together what a step may lose and reorder.
KeptInOrder == [][Ordered' /\ KeepsOldest]_vars

\* The flush() of thread t, having waited for the sender, returns True in this
\* step (its early return, which waits for nobody, promises less).
FlushReturnsTrue(t) ==
    /\ pc[t] \in {"check", "wait"}
    /\ pc'[t] \in {"idle", "stop"}
    /\ IsDrained
    /\ UNCHANGED forks

\* The events captured before the flush() of t began and still not handled.
Outstanding(t) == {e \in Pending : e <= due[t]}

\* flush() = True means that everything captured before it was handled, except
\* for one batch a sender has taken and not yet announced by _sending = True.
FlushMissesOnlyUnmarked ==
    [][ \A t \in HostThreads :
            FlushReturnsTrue(t) /\ ~overlap =>
                Outstanding(t) \subseteq
                    UNION {Range(batch[s]) : s \in {r \in Senders : run[r] = "mark"}} ]_vars

\* The client implements the abstract pipe.
Pipe == INSTANCE EventPipe WITH
            pending <- Pending,
            InHands <- BatchSize * Cardinality(Senders)

ImplementsPipe == Pipe!Spec

\* The delays a sender waits for, flush_interval and backoff, elapse.
TimersRun == \A s \in Senders : WF_vars(SenderTimer(s))

\* Once the API stays up, every event captured is handled, whatever was put
\* back before; nobody has to call flush() for it. The application captures
\* MaxEvents at most, so that the client comes to hold none.
Settles ==
    <>[]api /\ TimersRun => (Pending # {} /\ closes = 0 ~> Pending = {} \/ closes > 0)

\* A full batch is sent at once and not at the next tick: capture()'s wake-up
\* is never lost between _wake.wait() and _wake.clear().
FullBatchPrompt ==
    []api => (Len(buffer) >= BatchSize /\ closes = 0
                ~> Len(buffer) < BatchSize \/ closes > 0)

\* flush() returns by the sender's notification, without its own timeout.
FlushReturns ==
    <>[]api /\ TimersRun =>
        \A t \in HostThreads : pc[t] = "wait" /\ closes = 0 ~> pc[t] # "wait" \/ closes > 0

\* A sender told to stop ends without waiting for any timer, with the API down
\* and in the middle of a backoff, unless a later capture() clears _stop.
StopTerminates ==
    \A s \in Senders : stop /\ Alive(s) ~> ~stop \/ ~Alive(s)

\* Nobody waits for ever, and what waits for a tick does so for a reason: events
\* are handled, full batches at once, flush() returns, a stopped sender ends.
Progress == Settles /\ FullBatchPrompt /\ FlushReturns /\ StopTerminates
=============================================================================
