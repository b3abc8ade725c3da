---------------------------- MODULE CostBreaker -----------------------------
(***************************************************************************)
(* The cost breaker of one project, worker/ai/circuit_breaker.py: reserve() *)
(* and reconcile() on the counter of a day and the counter of the month.   *)
(* Every INCRBY and DECRBY is an await of its own, atomic in Redis.         *)
(***************************************************************************)
EXTENDS Integers, FiniteSets

CONSTANTS
    Workers,        \* calls of LLMGateway.complete() that may be under way at once
    Days,           \* days of one month
    Month,          \* that month's counter
    Estimate,       \* estimate_micro_usd
    DailyCap,
    MonthlyCap,
    Ceiling,        \* the most one call bills
    MaxFaults       \* bound: failures of Redis and of workers

ASSUME BreakerAssumption ==
    /\ IsFiniteSet(Workers)
    /\ Days # {} /\ Month \notin Days
    /\ Estimate \in Nat \ {0} /\ DailyCap \in Nat /\ MonthlyCap \in Nat
    /\ Ceiling \in Nat /\ Ceiling >= Estimate
    /\ MaxFaults \in Nat

VARIABLES
    total,      \* the counters, as Redis holds them
    bpc,        \* the next command of each worker
    day,        \* reservation.day_key
    fits,       \* counters whose reply was within the cap
    cost,       \* actual_micro_usd
    faults,     \* failures so far, those around the breaker included
    stands,     \* history: counters that hold the worker's estimate
    spent,      \* history: costs a counter was told
    lost        \* history: estimates nobody will take back

counterVars == <<total, bpc, day, fits, cost, stands, spent, lost>>
breakerVars == <<counterVars, faults>>

Counters == Days \cup {Month}
CapOf(c) == IF c = Month THEN MonthlyCap ELSE DailyCap

Commands == {"chargeDay", "chargeMonth", "undoDay", "undoMonth", "settleDay", "settleMonth"}
BreakerPcs == Commands \cup {"idle", "granted", "refused", "settled", "failed"}

-----------------------------------------------------------------------------
\* The key a command names: a reservation keeps the day it was made on.
Target(w) ==
    IF bpc[w] \in {"chargeDay", "undoDay", "settleDay"} THEN day[w] ELSE Month

Charging(w) == bpc[w] \in {"chargeDay", "chargeMonth"}
Settling(w) == bpc[w] \in {"settleDay", "settleMonth"}

\* Mutant: reconcile() gives the whole estimate back.
Amount_Whole(w) == IF Charging(w) THEN Estimate ELSE -Estimate

\* INCRBY by the estimate, DECRBY by it, or DECRBY by what it exceeds the cost.
Amount(w) ==
    IF Charging(w) THEN Estimate
    ELSE IF Settling(w) THEN cost[w] - Estimate ELSE -Estimate

\* What the command of w does in Redis.
Effect(w) ==
    /\ total' = [total EXCEPT ![Target(w)] = @ + Amount(w)]
    /\ stands' = [stands EXCEPT ![w] =
                     IF Charging(w) THEN @ \cup {Target(w)} ELSE @ \ {Target(w)}]
    /\ spent' = [spent EXCEPT ![Target(w)] = IF Settling(w) THEN @ + cost[w] ELSE @]

NoEffect == UNCHANGED <<total, stands, spent>>

-----------------------------------------------------------------------------
Reserve(w, d) ==
    /\ bpc[w] = "idle"
    /\ bpc' = [bpc EXCEPT ![w] = "chargeDay"]
    /\ day' = [day EXCEPT ![w] = d]
    /\ UNCHANGED <<fits, cost, faults, lost>>
    /\ NoEffect

\* Mutant: the caps are checked before the estimate is added.
Fitting_Before(w) == IF total[Target(w)] <= CapOf(Target(w)) THEN fits[w] \cup {Target(w)} ELSE fits[w]

\* The reply of INCRBY against the cap.
Fitting(w) ==
    IF total[Target(w)] + Estimate <= CapOf(Target(w)) THEN fits[w] \cup {Target(w)} ELSE fits[w]

\* Mutant: only the day's cap is looked at.
Granting_DayOnly(w) == day[w] \in Fitting(w)

\* Both totals are within their caps.
Granting(w) == {day[w], Month} \subseteq Fitting(w)

Charge(w) ==
    /\ Charging(w)
    /\ Effect(w)
    /\ fits' = [fits EXCEPT ![w] = Fitting(w)]
    /\ bpc' = [bpc EXCEPT ![w] =
                  IF @ = "chargeDay" THEN "chargeMonth"
                  ELSE IF Granting(w) THEN "granted" ELSE "undoDay"]
    /\ UNCHANGED <<day, cost, faults, lost>>

AfterUndo(w) == IF bpc[w] = "undoDay" THEN "undoMonth" ELSE "refused"

\* A cap is exceeded: out of both counters, then QuotaExhaustedError.
Undo(w) ==
    /\ bpc[w] \in {"undoDay", "undoMonth"}
    /\ Effect(w)
    /\ bpc' = [bpc EXCEPT ![w] = AfterUndo(w)]
    /\ UNCHANGED <<day, fits, cost, faults, lost>>

\* reconcile() begins: no command when the call cost what was set aside for it.
Reconcile(w, c) ==
    /\ bpc[w] = "granted"
    /\ cost' = [cost EXCEPT ![w] = c]
    /\ IF c = Estimate
       THEN /\ bpc' = [bpc EXCEPT ![w] = "settled"]
            /\ stands' = [stands EXCEPT ![w] = {}]
            /\ spent' = [k \in Counters |-> IF k \in stands[w] THEN spent[k] + c ELSE spent[k]]
       ELSE /\ bpc' = [bpc EXCEPT ![w] = "settleDay"]
            /\ UNCHANGED <<stands, spent>>
    /\ UNCHANGED <<total, day, fits, lost>>

Settle(w) ==
    /\ Settling(w)
    /\ Effect(w)
    /\ bpc' = [bpc EXCEPT ![w] = IF @ = "settleDay" THEN "settleMonth" ELSE "settled"]
    /\ UNCHANGED <<day, fits, cost, faults, lost>>

\* A command raises, done or not: nothing in reserve() or reconcile() catches it.
RedisFails(w) ==
    /\ bpc[w] \in Commands
    /\ faults < MaxFaults
    /\ faults' = faults + 1
    /\ Effect(w) \/ NoEffect
    /\ bpc' = [bpc EXCEPT ![w] = "failed"]
    /\ UNCHANGED <<day, fits, cost, lost>>

\* The worker process dies.
Crash(w) ==
    /\ bpc[w] \notin {"idle", "failed"}
    /\ faults < MaxFaults
    /\ faults' = faults + 1
    /\ bpc' = [bpc EXCEPT ![w] = "failed"]
    /\ NoEffect
    /\ UNCHANGED <<day, fits, cost, lost>>

\* The outcome is known; what still stands for w stands for ever.
Leave(w) ==
    /\ bpc[w] \in {"refused", "settled", "failed"}
    /\ bpc' = [bpc EXCEPT ![w] = "idle"]
    /\ stands' = [stands EXCEPT ![w] = {}]
    /\ lost' = [c \in Counters |-> IF c \in stands[w] THEN lost[c] + 1 ELSE lost[c]]
    /\ day' = [day EXCEPT ![w] = Month]
    /\ fits' = [fits EXCEPT ![w] = {}]
    /\ cost' = [cost EXCEPT ![w] = 0]
    /\ UNCHANGED <<total, faults, spent>>

\* The call the breaker is around may fail.
Elsewhere == faults' \in {faults, faults + 1}

Command(w) == Charge(w) \/ Undo(w) \/ Settle(w)

BreakerInit ==
    /\ total = [c \in Counters |-> 0]
    /\ bpc = [w \in Workers |-> "idle"]
    /\ day = [w \in Workers |-> Month]
    /\ fits = [w \in Workers |-> {}]
    /\ cost = [w \in Workers |-> 0]
    /\ faults = 0
    /\ stands = [w \in Workers |-> {}]
    /\ spent = [c \in Counters |-> 0]
    /\ lost = [c \in Counters |-> 0]

BreakerNext ==
    \E w \in Workers :
        \/ \E d \in Days : Reserve(w, d)
        \/ Command(w)
        \/ \E c \in 0 .. Ceiling : Reconcile(w, c) /\ Elsewhere
        \/ RedisFails(w)
        \/ Crash(w)
        \/ Leave(w)
        \/ UNCHANGED counterVars /\ Elsewhere

BreakerSpec == BreakerInit /\ [][BreakerNext]_breakerVars
-----------------------------------------------------------------------------
\* The type of the breaker's state: every counter an integer, every key a counter.
BreakerTypeOK ==
    /\ total \in [Counters -> Int]
    /\ bpc \in [Workers -> BreakerPcs]
    /\ day \in [Workers -> Counters]
    /\ fits \in [Workers -> SUBSET Counters]
    /\ cost \in [Workers -> 0 .. Ceiling]
    /\ faults \in Nat
    /\ stands \in [Workers -> SUBSET Counters]
    /\ spent \in [Counters -> Nat]
    /\ lost \in [Counters -> Nat]

Standing(c) == {w \in Workers : c \in stands[w]}

\* A counter is what reconcile() told it, one estimate for each reservation that stands in it
\* and one for each that a failure or a crash left behind: concurrent reservations,
\* refusals and reconciliations neither lose nor double an amount.
Exact ==
    \A c \in Counters :
        total[c] = spent[c] + Estimate * (Cardinality(Standing(c)) + lost[c])

\* Only a failure leaves an estimate behind: a refusal, a result and an exception of the call
\* all take it out of both counters.
LeftByFaults == \A c \in Counters : lost[c] <= faults

\* The callers a counter has room for, of those it holds.
Held(c) == {w \in Workers : c \in stands[w] \cap fits[w]}

\* What the calls let in cost may exceed a cap by what each call under way together bills
\* beyond its estimate, and by no more: never by what earlier calls billed beyond theirs.
Overshoot ==
    \A c \in Counters :
        spent[c] + Estimate * Cardinality(Held(c))
            <= CapOf(c) + (Cardinality(Workers) - Cardinality(Held(c))) * (Ceiling - Estimate)

MonthBudget == INSTANCE Budget WITH
    Cap <- MonthlyCap, under <- Cardinality(Held(Month)), spent <- spent[Month]

\* Any day stands for the others: no definition here tells one from another.
SomeDay == CHOOSE d \in Days : TRUE

DayBudget == INSTANCE Budget WITH
    Cap <- DailyCap, under <- Cardinality(Held(SomeDay)), spent <- spent[SomeDay]

\* The month's counter lets calls in as a budget does: charging, refusing, undoing and
\* reconciling in separate commands, among the commands of other workers, has the effect of
\* one Grant or one Settle.
WithinMonthBudget == MonthBudget!Spec

\* So does the counter of a day, whichever counter refuses.
WithinDayBudget == DayBudget!Spec

\* The two caps together: separate commands on two counters let calls in as
\* two budgets do.
WithinBudgets == WithinMonthBudget /\ WithinDayBudget
=============================================================================
