-------------------------- MODULE LlmGatewayProofs --------------------------
(***************************************************************************)
(* Proofs about the cost breaker and the gateway that uses it.  The cost   *)
(* breaker comes first, for any number of workers, any caps and any        *)
(* failures: every step does one of five things to a counter, and the      *)
(* account, the bound on the overshoot and the refinement follow from      *)
(* that.  LLMGateway.complete() then uses the breaker as the breaker is    *)
(* specified, so what is proved of the breaker holds of every run of the   *)
(* gateway; last comes what complete() accepts and records, and what it    *)
(* bills, for any number of concurrent calls.                              *)
(***************************************************************************)
EXTENDS LlmGateway, FiniteSetTheorems, TLAPS

\* What stands for a worker, command by command.
Shape ==
    \A w \in Workers :
        /\ bpc[w] \notin {"idle", "refused", "settled", "failed"} => day[w] \in Days
        /\ bpc[w] \in {"idle", "chargeDay", "refused", "settled"} => stands[w] = {}
        /\ bpc[w] = "chargeMonth" => stands[w] = {day[w]}
        /\ bpc[w] \in {"undoDay", "granted", "settleDay"} => stands[w] = {day[w], Month}
        /\ bpc[w] \in {"undoMonth", "settleMonth"} => stands[w] = {Month}
        /\ bpc[w] \in {"idle", "chargeDay"} => fits[w] = {}
        /\ bpc[w] = "chargeMonth" => fits[w] \subseteq {day[w]}
        /\ bpc[w] \in {"granted", "settleDay", "settleMonth"} => {day[w], Month} \subseteq fits[w]

IInv == BreakerTypeOK /\ Shape

\* What a step may do to counter c.
Alone(c) == UNCHANGED <<total[c], spent[c], lost[c], Standing(c), Held(c)>>

Taken(c, w) ==
    /\ w \notin Standing(c)
    /\ Standing(c)' = Standing(c) \cup {w}
    /\ total'[c] = total[c] + Estimate
    /\ UNCHANGED <<spent[c], lost[c]>>
    /\ \/ Held(c)' = Held(c)
       \/ w \notin Held(c) /\ Held(c)' = Held(c) \cup {w} /\ total[c] + Estimate <= CapOf(c)

Left(c, w) ==
    /\ w \in Standing(c)
    /\ Standing(c)' = Standing(c) \ {w}
    /\ Held(c)' = Held(c) \ {w}

Undone(c, w) ==
    /\ Left(c, w)
    /\ total'[c] = total[c] - Estimate
    /\ UNCHANGED <<spent[c], lost[c]>>

Told(c, w, x) ==
    /\ Left(c, w)
    /\ w \in Held(c)
    /\ total'[c] = total[c] + (x - Estimate)
    /\ spent'[c] = spent[c] + x
    /\ UNCHANGED lost[c]

Forsaken(c, w) ==
    /\ Left(c, w)
    /\ lost'[c] = lost[c] + 1
    /\ UNCHANGED <<total[c], spent[c]>>

CounterStep(c) ==
    \/ Alone(c)
    \/ \E w \in Workers :
          \/ Taken(c, w) \/ Undone(c, w) \/ Forsaken(c, w)
          \/ \E x \in 0 .. Ceiling : Told(c, w, x)

-----------------------------------------------------------------------------
(* Types and shape.                                                        *)

LEMMA Pcs ==
    /\ {"chargeDay", "chargeMonth", "undoDay", "undoMonth", "settleDay", "settleMonth"} = Commands
    /\ Commands \subseteq BreakerPcs
    /\ {"idle", "granted", "refused", "settled", "failed"} \subseteq BreakerPcs
  BY DEF Commands, BreakerPcs

LEMMA TargetIsCounter ==
    ASSUME IInv, NEW w \in Workers, bpc[w] \in Commands
    PROVE  /\ Target(w) \in Counters
           /\ Amount(w) \in Int
           /\ cost[w] \in Nat /\ Estimate \in Nat /\ Ceiling \in Nat
  BY BreakerAssumption DEF IInv, Shape, BreakerTypeOK, Target, Amount, Counters, Commands

LEMMA EffectTyped ==
    ASSUME IInv, NEW w \in Workers, bpc[w] \in Commands, Effect(w)
    PROVE  /\ total' \in [Counters -> Int]
           /\ stands' \in [Workers -> SUBSET Counters]
           /\ spent' \in [Counters -> Nat]
  <1>1. Target(w) \in Counters /\ Amount(w) \in Int /\ cost[w] \in Nat
    BY TargetIsCounter
  <1>2. total' \in [Counters -> Int]
    BY <1>1 DEF Effect, IInv, BreakerTypeOK
  <1>3. stands' \in [Workers -> SUBSET Counters]
    BY <1>1 DEF Effect, IInv, BreakerTypeOK
  <1>4. spent' \in [Counters -> Nat]
    BY <1>1 DEF Effect, IInv, BreakerTypeOK
  <1>. QED  BY <1>2, <1>3, <1>4

LEMMA TypeStep ==
    ASSUME IInv, [BreakerNext]_breakerVars
    PROVE  BreakerTypeOK'
  <1>. USE DEF BreakerTypeOK
  <1>1. CASE UNCHANGED counterVars /\ (UNCHANGED faults \/ Elsewhere)
    BY <1>1 DEF counterVars, Elsewhere, IInv, Counters
  <1>2. ASSUME NEW w \in Workers, NEW d \in Days, Reserve(w, d)
        PROVE  BreakerTypeOK'
    BY <1>2, Pcs DEF Reserve, NoEffect, IInv, Counters
  <1>3. ASSUME NEW w \in Workers, Charge(w)
        PROVE  BreakerTypeOK'
    <2>1. bpc[w] \in Commands
      BY <1>3 DEF Charge, Charging, Commands
    <2>2. Fitting(w) \in SUBSET Counters
      BY <2>1, TargetIsCounter DEF Fitting, IInv
    <2>3. fits' \in [Workers -> SUBSET Counters]
      BY <1>3, <2>2 DEF Charge, IInv
    <2>4. bpc' \in [Workers -> BreakerPcs]
      BY <1>3 DEF Charge, IInv, BreakerPcs, Commands
    <2>. QED  BY <1>3, <2>1, <2>3, <2>4, EffectTyped DEF Charge, IInv
  <1>4. ASSUME NEW w \in Workers, Undo(w)
        PROVE  BreakerTypeOK'
    <2>1. bpc[w] \in Commands
      BY <1>4 DEF Undo, Commands
    <2>2. bpc' \in [Workers -> BreakerPcs]
      BY <1>4 DEF Undo, AfterUndo, IInv, BreakerPcs, Commands
    <2>. QED  BY <1>4, <2>1, <2>2, EffectTyped DEF Undo, IInv
  <1>5. ASSUME NEW w \in Workers, Settle(w)
        PROVE  BreakerTypeOK'
    <2>1. bpc[w] \in Commands
      BY <1>5 DEF Settle, Settling, Commands
    <2>2. bpc' \in [Workers -> BreakerPcs]
      BY <1>5 DEF Settle, IInv, BreakerPcs, Commands
    <2>. QED  BY <1>5, <2>1, <2>2, EffectTyped DEF Settle, IInv
  <1>6. ASSUME NEW w \in Workers, NEW c \in 0 .. Ceiling, Reconcile(w, c), Elsewhere
        PROVE  BreakerTypeOK'
    <2>0. c \in Nat
      BY BreakerAssumption
    <2>1. stands' \in [Workers -> SUBSET Counters] /\ spent' \in [Counters -> Nat]
      BY <1>6, <2>0 DEF Reconcile, IInv
    <2>2. bpc' \in [Workers -> BreakerPcs]
      BY <1>6 DEF Reconcile, IInv, BreakerPcs, Commands
    <2>3. cost' \in [Workers -> 0 .. Ceiling]
      BY <1>6 DEF Reconcile, IInv
    <2>. QED  BY <1>6, <2>1, <2>2, <2>3 DEF Reconcile, Elsewhere, IInv
  <1>7. ASSUME NEW w \in Workers, RedisFails(w)
        PROVE  BreakerTypeOK'
    <2>1. /\ total' \in [Counters -> Int]
          /\ stands' \in [Workers -> SUBSET Counters]
          /\ spent' \in [Counters -> Nat]
      BY <1>7, EffectTyped DEF RedisFails, NoEffect, IInv
    <2>2. bpc' \in [Workers -> BreakerPcs]
      BY <1>7 DEF RedisFails, IInv, BreakerPcs, Commands
    <2>3. faults' \in Nat
      BY <1>7 DEF RedisFails, IInv
    <2>. QED  BY <1>7, <2>1, <2>2, <2>3 DEF RedisFails, IInv
  <1>8. ASSUME NEW w \in Workers, Crash(w)
        PROVE  BreakerTypeOK'
    <2>1. bpc' \in [Workers -> BreakerPcs] /\ faults' \in Nat
      BY <1>8 DEF Crash, IInv, BreakerPcs, Commands
    <2>. QED  BY <1>8, <2>1 DEF Crash, NoEffect, IInv
  <1>9. ASSUME NEW w \in Workers, Leave(w)
        PROVE  BreakerTypeOK'
    <2>1. bpc' \in [Workers -> BreakerPcs]
      BY <1>9 DEF Leave, IInv, BreakerPcs, Commands
    <2>2. stands' \in [Workers -> SUBSET Counters] /\ fits' \in [Workers -> SUBSET Counters]
      BY <1>9 DEF Leave, IInv
    <2>3. lost' \in [Counters -> Nat]
      BY <1>9 DEF Leave, IInv
    <2>4. day' \in [Workers -> Counters] /\ cost' \in [Workers -> 0 .. Ceiling]
      BY <1>9, BreakerAssumption DEF Leave, IInv, Counters
    <2>. QED  BY <1>9, <2>1, <2>2, <2>3, <2>4 DEF Leave, IInv
  <1>. QED
    BY <1>1, <1>2, <1>3, <1>4, <1>5, <1>6, <1>7, <1>8, <1>9, BreakerAssumption
       DEF BreakerNext, Command, breakerVars

LEMMA ShapeStep ==
    ASSUME IInv, [BreakerNext]_breakerVars
    PROVE  Shape'
  <1>. USE DEF BreakerTypeOK
  <1>. DEFINE ShapeOf(b, d, f, s) ==
            /\ b \notin {"idle", "refused", "settled", "failed"} => d \in Days
            /\ b \in {"idle", "chargeDay", "refused", "settled"} => s = {}
            /\ b = "chargeMonth" => s = {d}
            /\ b \in {"undoDay", "granted", "settleDay"} => s = {d, Month}
            /\ b \in {"undoMonth", "settleMonth"} => s = {Month}
            /\ b \in {"idle", "chargeDay"} => f = {}
            /\ b = "chargeMonth" => f \subseteq {d}
            /\ b \in {"granted", "settleDay", "settleMonth"} => {d, Month} \subseteq f
  <1>0. /\ \A w \in Workers : ShapeOf(bpc[w], day[w], fits[w], stands[w])
        /\ Shape' <=> \A w \in Workers : ShapeOf(bpc'[w], day'[w], fits'[w], stands'[w])
    BY DEF IInv, Shape
  <1>. HIDE DEF ShapeOf
  <1>1. CASE UNCHANGED counterVars
    BY <1>0, <1>1 DEF counterVars
  <1>2. ASSUME NEW w \in Workers,
               \A v \in Workers \ {w} : /\ bpc'[v] = bpc[v] /\ day'[v] = day[v]
                                       /\ fits'[v] = fits[v] /\ stands'[v] = stands[v],
               ShapeOf(bpc'[w], day'[w], fits'[w], stands'[w])
        PROVE  Shape'
    BY <1>0, <1>2
  <1>3. ASSUME NEW w \in Workers, NEW d \in Days, Reserve(w, d)
        PROVE  Shape'
    <2>1. \A v \in Workers \ {w} : /\ bpc'[v] = bpc[v] /\ day'[v] = day[v]
                                  /\ fits'[v] = fits[v] /\ stands'[v] = stands[v]
      BY <1>3 DEF Reserve, NoEffect, IInv
    <2>2. ShapeOf(bpc'[w], day'[w], fits'[w], stands'[w])
      BY <1>0, <1>3 DEF Reserve, NoEffect, IInv, ShapeOf
    <2>. QED  BY <1>2, <2>1, <2>2
  <1>4. ASSUME NEW w \in Workers, Charge(w)
        PROVE  Shape'
    <2>1. \A v \in Workers \ {w} : /\ bpc'[v] = bpc[v] /\ day'[v] = day[v]
                                  /\ fits'[v] = fits[v] /\ stands'[v] = stands[v]
      BY <1>4 DEF Charge, Effect, IInv
    <2>2. CASE bpc[w] = "chargeDay"
      <3>1. /\ bpc'[w] = "chargeMonth" /\ day'[w] = day[w] /\ day[w] \in Days
            /\ stands'[w] = {day[w]} /\ fits'[w] \subseteq {day[w]}
        BY <1>0, <1>4, <2>2 DEF Charge, Effect, Charging, Target, Fitting, IInv, ShapeOf
      <3>. QED  BY <1>2, <2>1, <3>1 DEF ShapeOf
    <2>3. CASE bpc[w] = "chargeMonth"
      <3>1. /\ day'[w] = day[w] /\ day[w] \in Days
            /\ stands'[w] = {day[w], Month} /\ fits'[w] = Fitting(w)
            /\ bpc'[w] = IF {day[w], Month} \subseteq Fitting(w) THEN "granted" ELSE "undoDay"
        BY <1>0, <1>4, <2>3 DEF Charge, Granting, Effect, Charging, Target, IInv, ShapeOf
      <3>. QED  BY <1>2, <2>1, <3>1 DEF ShapeOf
    <2>. QED  BY <1>4, <2>2, <2>3 DEF Charge, Charging
  <1>5. ASSUME NEW w \in Workers, Undo(w)
        PROVE  Shape'
    <2>1. \A v \in Workers \ {w} : /\ bpc'[v] = bpc[v] /\ day'[v] = day[v]
                                  /\ fits'[v] = fits[v] /\ stands'[v] = stands[v]
      BY <1>5 DEF Undo, Effect, IInv
    <2>2. ShapeOf(bpc'[w], day'[w], fits'[w], stands'[w])
      BY <1>0, <1>5, BreakerAssumption
         DEF Undo, AfterUndo, Effect, Charging, Target, IInv, ShapeOf
    <2>. QED  BY <1>2, <2>1, <2>2
  <1>6. ASSUME NEW w \in Workers, Settle(w)
        PROVE  Shape'
    <2>1. \A v \in Workers \ {w} : /\ bpc'[v] = bpc[v] /\ day'[v] = day[v]
                                  /\ fits'[v] = fits[v] /\ stands'[v] = stands[v]
      BY <1>6 DEF Settle, Effect, IInv
    <2>2. ShapeOf(bpc'[w], day'[w], fits'[w], stands'[w])
      BY <1>0, <1>6, BreakerAssumption
         DEF Settle, Settling, Effect, Charging, Target, IInv, ShapeOf
    <2>. QED  BY <1>2, <2>1, <2>2
  <1>7. ASSUME NEW w \in Workers, NEW c \in 0 .. Ceiling, Reconcile(w, c)
        PROVE  Shape'
    <2>1. \A v \in Workers \ {w} : /\ bpc'[v] = bpc[v] /\ day'[v] = day[v]
                                  /\ fits'[v] = fits[v] /\ stands'[v] = stands[v]
      BY <1>7 DEF Reconcile, IInv
    <2>2. ShapeOf(bpc'[w], day'[w], fits'[w], stands'[w])
      BY <1>0, <1>7 DEF Reconcile, IInv, ShapeOf
    <2>. QED  BY <1>2, <2>1, <2>2
  <1>8. ASSUME NEW w \in Workers, RedisFails(w) \/ Crash(w)
        PROVE  Shape'
    <2>1. \A v \in Workers \ {w} : /\ bpc'[v] = bpc[v] /\ day'[v] = day[v]
                                  /\ fits'[v] = fits[v] /\ stands'[v] = stands[v]
      BY <1>8 DEF RedisFails, Crash, Effect, NoEffect, IInv
    <2>2. ShapeOf(bpc'[w], day'[w], fits'[w], stands'[w])
      BY <1>8 DEF RedisFails, Crash, IInv, ShapeOf
    <2>. QED  BY <1>2, <2>1, <2>2
  <1>9. ASSUME NEW w \in Workers, Leave(w)
        PROVE  Shape'
    <2>1. \A v \in Workers \ {w} : /\ bpc'[v] = bpc[v] /\ day'[v] = day[v]
                                  /\ fits'[v] = fits[v] /\ stands'[v] = stands[v]
      BY <1>9 DEF Leave, IInv
    <2>2. ShapeOf(bpc'[w], day'[w], fits'[w], stands'[w])
      BY <1>9 DEF Leave, IInv, ShapeOf
    <2>. QED  BY <1>2, <2>1, <2>2
  <1>. QED
    BY <1>1, <1>3, <1>4, <1>5, <1>6, <1>7, <1>8, <1>9, BreakerAssumption
       DEF BreakerNext, Command, breakerVars

LEMMA InitIInv == BreakerInit => IInv
  BY BreakerAssumption DEF BreakerInit, IInv, BreakerTypeOK, Shape, BreakerPcs, Commands, Counters

LEMMA NextIInv == IInv /\ [BreakerNext]_breakerVars => IInv'
  BY TypeStep, ShapeStep DEF IInv

\* The breaker's state keeps its type: no failure or refusal leaves a worker without a next
\* command or a counter without a number.
THEOREM TypeCorrect == BreakerSpec => []BreakerTypeOK
  <1>1. IInv => BreakerTypeOK
    BY DEF IInv
  <1>. QED  BY <1>1, InitIInv, NextIInv, PTL DEF BreakerSpec

-----------------------------------------------------------------------------
(* Every step does one of the five things to a counter.                    *)

LEMMA EffectOnOthers ==
    ASSUME IInv, NEW w \in Workers, bpc[w] \in Commands, Effect(w), NEW c \in Counters,
           c # Target(w), lost' = lost,
           \A v \in Workers : (c \in fits'[v]) = (c \in fits[v])
    PROVE  Alone(c)
  <1>1. total'[c] = total[c] /\ spent'[c] = spent[c]
    BY TargetIsCounter DEF Effect, IInv, BreakerTypeOK
  <1>2. \A v \in Workers : (c \in stands'[v]) = (c \in stands[v])
    BY DEF Effect, IInv, BreakerTypeOK
  <1>. QED  BY <1>1, <1>2 DEF Alone, Standing, Held

LEMMA ChargeOnCounter ==
    ASSUME IInv, NEW w \in Workers, Charging(w), Effect(w), lost' = lost,
           \/ fits' = fits
           \/ fits' = [fits EXCEPT ![w] = Fitting(w)]
    PROVE  \A c \in Counters : CounterStep(c)
  <1>0. bpc[w] \in Commands
    BY DEF Charging, Commands
  <1>. PICK T \in Counters : T = Target(w)
    BY <1>0, TargetIsCounter
  <1>1. T \notin stands[w] /\ T \notin fits[w]
    BY BreakerAssumption DEF Charging, Target, IInv, Shape
  <1>2. /\ total'[T] = total[T] + Estimate
        /\ spent'[T] = spent[T]
        /\ \A v \in Workers \ {w} : stands'[v] = stands[v] /\ fits'[v] = fits[v]
        /\ stands'[w] = stands[w] \cup {T}
    BY <1>0 DEF Effect, Amount, Charging, Settling, IInv, BreakerTypeOK
  <1>3. Standing(T)' = Standing(T) \cup {w} /\ w \notin Standing(T) /\ w \notin Held(T)
    BY <1>1, <1>2 DEF Standing, Held
  <1>4. \/ Held(T)' = Held(T)
        \/ Held(T)' = Held(T) \cup {w} /\ total[T] + Estimate <= CapOf(T)
    <2>1. CASE fits' = fits
      BY <1>1, <1>2, <2>1 DEF Held
    <2>2. CASE fits' = [fits EXCEPT ![w] = Fitting(w)] /\ total[T] + Estimate <= CapOf(T)
      <3>1. fits'[w] = fits[w] \cup {T}
        BY <2>2 DEF Fitting, IInv, BreakerTypeOK
      <3>. QED  BY <1>1, <1>2, <2>2, <3>1 DEF Held
    <2>3. CASE fits' = [fits EXCEPT ![w] = Fitting(w)] /\ ~(total[T] + Estimate <= CapOf(T))
      <3>1. fits'[w] = fits[w]
        BY <2>3 DEF Fitting, IInv, BreakerTypeOK
      <3>. QED  BY <1>1, <1>2, <3>1 DEF Held
    <2>. QED  BY <2>1, <2>2, <2>3
  <1>5. Taken(T, w)
    BY <1>2, <1>3, <1>4 DEF Taken
  <1>6. ASSUME NEW c \in Counters, c # T
        PROVE  Alone(c)
    <2>1. \A v \in Workers : (c \in fits'[v]) = (c \in fits[v])
      BY <1>6 DEF Fitting, IInv, BreakerTypeOK
    <2>. QED  BY <1>0, <1>6, <2>1, EffectOnOthers
  <1>. QED  BY <1>5, <1>6 DEF CounterStep

LEMMA BackOutOfCounter ==
    ASSUME IInv, NEW w \in Workers, bpc[w] \in Commands, ~Charging(w), Effect(w),
           lost' = lost, fits' = fits
    PROVE  \A c \in Counters : CounterStep(c)
  <1>. PICK T \in Counters : T = Target(w)
    BY TargetIsCounter
  <1>0. cost[w] \in 0 .. Ceiling /\ Estimate \in Nat
    BY TargetIsCounter DEF IInv, BreakerTypeOK
  <1>1. T \in stands[w] /\ (Settling(w) => T \in fits[w])
    BY BreakerAssumption DEF Charging, Settling, Target, Commands, IInv, Shape
  <1>2. /\ \A v \in Workers \ {w} : stands'[v] = stands[v]
        /\ stands'[w] = stands[w] \ {T}
    BY DEF Effect, IInv, BreakerTypeOK
  <1>3. Left(T, w)
    BY <1>1, <1>2 DEF Left, Standing, Held
  <1>4. CASE Settling(w)
    <2>1. total'[T] = total[T] + (cost[w] - Estimate) /\ spent'[T] = spent[T] + cost[w]
      BY <1>0, <1>4 DEF Effect, Amount, IInv, BreakerTypeOK
    <2>2. w \in Held(T)
      BY <1>1, <1>4 DEF Held
    <2>. QED  BY <1>0, <1>3, <2>1, <2>2, EffectOnOthers DEF Told, CounterStep
  <1>5. CASE ~Settling(w)
    <2>1. total'[T] = total[T] - Estimate /\ spent'[T] = spent[T]
      BY <1>0, <1>5 DEF Effect, Amount, IInv, BreakerTypeOK
    <2>. QED  BY <1>0, <1>3, <2>1, EffectOnOthers DEF Undone, CounterStep
  <1>. QED  BY <1>4, <1>5

LEMMA EveryStep ==
    ASSUME IInv, [BreakerNext]_breakerVars
    PROVE  \A c \in Counters : CounterStep(c)
  <1>1. ASSUME UNCHANGED <<total, spent, lost, stands, fits>>
        PROVE  \A c \in Counters : CounterStep(c)
    BY <1>1 DEF CounterStep, Alone, Standing, Held
  <1>2. CASE UNCHANGED counterVars
    BY <1>1, <1>2 DEF counterVars
  <1>3. ASSUME NEW w \in Workers, NEW d \in Days, Reserve(w, d)
        PROVE  \A c \in Counters : CounterStep(c)
    BY <1>1, <1>3 DEF Reserve, NoEffect
  <1>4. ASSUME NEW w \in Workers, Charge(w)
        PROVE  \A c \in Counters : CounterStep(c)
    BY <1>4, ChargeOnCounter DEF Charge
  <1>5. ASSUME NEW w \in Workers, Undo(w) \/ Settle(w)
        PROVE  \A c \in Counters : CounterStep(c)
    BY <1>5, BackOutOfCounter DEF Undo, Settle, Settling, Charging, Commands
  <1>6. ASSUME NEW w \in Workers, NEW x \in 0 .. Ceiling, Reconcile(w, x), NEW c \in Counters
        PROVE  CounterStep(c)
    <2>1. CASE x # Estimate
      BY <1>1, <1>6, <2>1 DEF Reconcile
    <2>2. CASE x = Estimate /\ c \notin stands[w]
      <3>1. /\ total'[c] = total[c] /\ spent'[c] = spent[c] /\ lost'[c] = lost[c]
            /\ \A v \in Workers : (c \in stands'[v]) = (c \in stands[v])
            /\ fits' = fits
        BY <1>6, <2>2 DEF Reconcile, IInv, BreakerTypeOK
      <3>. QED  BY <3>1 DEF CounterStep, Alone, Standing, Held
    <2>3. CASE x = Estimate /\ c \in stands[w]
      <3>1. /\ total'[c] = total[c] /\ spent'[c] = spent[c] + x /\ lost'[c] = lost[c]
            /\ \A v \in Workers \ {w} : stands'[v] = stands[v]
            /\ stands'[w] = {} /\ fits' = fits
        BY <1>6, <2>3 DEF Reconcile, IInv, BreakerTypeOK
      <3>2. c \in fits[w]
        BY <1>6, <2>3 DEF Reconcile, IInv, Shape
      <3>3. Left(c, w) /\ w \in Held(c)
        BY <2>3, <3>1, <3>2 DEF Left, Standing, Held
      <3>4. total'[c] = total[c] + (x - Estimate)
        BY <2>3, <3>1, BreakerAssumption DEF IInv, BreakerTypeOK
      <3>. QED  BY <3>1, <3>3, <3>4 DEF CounterStep, Told
    <2>. QED  BY <2>1, <2>2, <2>3
  <1>7. ASSUME NEW w \in Workers, RedisFails(w)
        PROVE  \A c \in Counters : CounterStep(c)
    <2>1. CASE NoEffect
      BY <1>1, <1>7, <2>1 DEF RedisFails, NoEffect
    <2>2. CASE Effect(w) /\ Charging(w)
      BY <1>7, <2>2, ChargeOnCounter DEF RedisFails
    <2>3. CASE Effect(w) /\ ~Charging(w)
      BY <1>7, <2>3, BackOutOfCounter DEF RedisFails
    <2>. QED  BY <1>7, <2>1, <2>2, <2>3 DEF RedisFails
  <1>8. ASSUME NEW w \in Workers, Crash(w)
        PROVE  \A c \in Counters : CounterStep(c)
    BY <1>1, <1>8 DEF Crash, NoEffect
  <1>9. ASSUME NEW w \in Workers, Leave(w), NEW c \in Counters
        PROVE  CounterStep(c)
    <2>1. /\ total'[c] = total[c] /\ spent'[c] = spent[c]
          /\ lost'[c] = IF c \in stands[w] THEN lost[c] + 1 ELSE lost[c]
          /\ \A v \in Workers \ {w} : stands'[v] = stands[v] /\ fits'[v] = fits[v]
          /\ stands'[w] = {}
      BY <1>9 DEF Leave, IInv, BreakerTypeOK
    <2>2. CASE c \in stands[w]
      BY <2>1, <2>2 DEF CounterStep, Forsaken, Left, Standing, Held
    <2>3. CASE c \notin stands[w]
      BY <2>1, <2>3 DEF CounterStep, Alone, Standing, Held
    <2>. QED  BY <2>2, <2>3
  <1>. QED
    BY <1>2, <1>3, <1>4, <1>5, <1>6, <1>7, <1>8, <1>9, BreakerAssumption
       DEF BreakerNext, Command, breakerVars

-----------------------------------------------------------------------------
(* The account.                                                            *)

LEMMA FiniteCallers ==
    ASSUME NEW c \in Counters
    PROVE  /\ IsFiniteSet(Standing(c)) /\ IsFiniteSet(Held(c))
           /\ IsFiniteSet(Standing(c)') /\ IsFiniteSet(Held(c)')
           /\ Cardinality(Workers) \in Nat
           /\ Cardinality(Standing(c)) \in Nat /\ Cardinality(Held(c)) \in Nat
           /\ Cardinality(Held(c)) <= Cardinality(Standing(c))
           /\ Cardinality(Held(c)) <= Cardinality(Workers)
           /\ Cardinality(Held(c)') \in Nat /\ Cardinality(Held(c)') <= Cardinality(Workers)
  <1>1. Standing(c) \subseteq Workers /\ Held(c) \subseteq Standing(c)
    BY DEF Standing, Held
  <1>2. Standing(c)' \subseteq Workers /\ Held(c)' \subseteq Workers
    BY DEF Standing, Held
  <1>3. IsFiniteSet(Workers)
    BY BreakerAssumption
  <1>4. IsFiniteSet(Standing(c)) /\ Cardinality(Standing(c)) <= Cardinality(Workers)
    BY <1>1, <1>3, FS_Subset
  <1>5. IsFiniteSet(Held(c)) /\ Cardinality(Held(c)) <= Cardinality(Standing(c))
    BY <1>1, <1>4, FS_Subset
  <1>6. IsFiniteSet(Standing(c)')
    BY <1>2, <1>3, FS_Subset
  <1>7. IsFiniteSet(Held(c)') /\ Cardinality(Held(c)') <= Cardinality(Workers)
    BY <1>2, <1>3, FS_Subset
  <1>8. /\ Cardinality(Workers) \in Nat /\ Cardinality(Standing(c)) \in Nat
        /\ Cardinality(Held(c)) \in Nat /\ Cardinality(Held(c)') \in Nat
    BY <1>3, <1>4, <1>5, <1>7, FS_CardinalityType
  <1>. QED  BY <1>4, <1>5, <1>6, <1>7, <1>8

\* How many there are when one joins and when one goes.
LEMMA OneMore ==
    ASSUME NEW S, IsFiniteSet(S), NEW w, w \notin S
    PROVE  Cardinality(S \cup {w}) = Cardinality(S) + 1
  BY FS_AddElement

LEMMA OneLess ==
    ASSUME NEW S, IsFiniteSet(S), NEW w, w \in S
    PROVE  Cardinality(S \ {w}) = Cardinality(S) - 1
  BY FS_RemoveElement

\* Estimates in proportion.
LEMMA Multiples ==
    ASSUME NEW e \in Nat, NEW n \in Int
    PROVE  /\ e * (n + 1) = e * n + e
           /\ e * (n - 1) = e * n - e
           /\ e * n \in Int
  OBVIOUS

LEMMA ExactStep ==
    ASSUME IInv, Exact, [BreakerNext]_breakerVars, NEW c \in Counters
    PROVE  total'[c] = spent'[c] + Estimate * (Cardinality(Standing(c)') + lost'[c])
  <1>. DEFINE n == Cardinality(Standing(c)) + lost[c]
  <1>0. /\ total[c] = spent[c] + Estimate * n
        /\ total[c] \in Int /\ spent[c] \in Nat /\ lost[c] \in Nat /\ Estimate \in Nat
        /\ Cardinality(Standing(c)) \in Nat
    BY FiniteCallers, BreakerAssumption DEF Exact, IInv, BreakerTypeOK
  <1>1. /\ Estimate * (n + 1) = Estimate * n + Estimate
        /\ Estimate * (n - 1) = Estimate * n - Estimate
        /\ Estimate * n \in Int
    BY <1>0, Multiples
  <1>2. CounterStep(c)
    BY EveryStep
  <1>3. CASE Alone(c)
    BY <1>0, <1>3 DEF Alone
  <1>4. ASSUME NEW w \in Workers, Taken(c, w)
        PROVE  total'[c] = spent'[c] + Estimate * (Cardinality(Standing(c)') + lost'[c])
    <2>1. Cardinality(Standing(c)') + lost'[c] = n + 1
      BY <1>0, <1>4, FiniteCallers, OneMore DEF Taken
    <2>. HIDE DEF n
    <2>. QED  BY <1>0, <1>1, <1>4, <2>1 DEF Taken
  <1>5. ASSUME NEW w \in Workers, Left(c, w)
        PROVE  Cardinality(Standing(c)') = Cardinality(Standing(c)) - 1
    BY <1>5, FiniteCallers, OneLess DEF Left
  <1>6. ASSUME NEW w \in Workers, Undone(c, w)
        PROVE  total'[c] = spent'[c] + Estimate * (Cardinality(Standing(c)') + lost'[c])
    <2>1. Cardinality(Standing(c)') + lost'[c] = n - 1
      BY <1>0, <1>5, <1>6 DEF Undone
    <2>. HIDE DEF n
    <2>. QED  BY <1>0, <1>1, <1>6, <2>1 DEF Undone
  <1>7. ASSUME NEW w \in Workers, NEW x \in 0 .. Ceiling, Told(c, w, x)
        PROVE  total'[c] = spent'[c] + Estimate * (Cardinality(Standing(c)') + lost'[c])
    <2>1. Cardinality(Standing(c)') + lost'[c] = n - 1
      BY <1>0, <1>5, <1>7 DEF Told
    <2>. HIDE DEF n
    <2>. QED  BY <1>0, <1>1, <1>7, <2>1, BreakerAssumption DEF Told
  <1>8. ASSUME NEW w \in Workers, Forsaken(c, w)
        PROVE  total'[c] = spent'[c] + Estimate * (Cardinality(Standing(c)') + lost'[c])
    <2>0. Cardinality(Standing(c)') = Cardinality(Standing(c)) - 1 /\ lost'[c] = lost[c] + 1
      BY <1>5, <1>8 DEF Forsaken
    <2>1. Cardinality(Standing(c)) \in Nat /\ lost[c] \in Nat
      BY <1>0
    <2>2. Cardinality(Standing(c)') + lost'[c] = n
      BY <2>0, <2>1
    <2>. HIDE DEF n
    <2>. QED  BY <1>0, <1>1, <1>8, <2>2 DEF Forsaken
  <1>. QED  BY <1>2, <1>3, <1>4, <1>6, <1>7, <1>8 DEF CounterStep

LEMMA ExactInit == BreakerInit => Exact
  <1>. SUFFICES ASSUME BreakerInit, NEW c \in Counters
                PROVE  total[c] = spent[c] + Estimate * (Cardinality(Standing(c)) + lost[c])
    BY DEF Exact
  <1>1. Standing(c) = {}
    BY DEF BreakerInit, Standing
  <1>2. Cardinality(Standing(c)) = 0
    BY <1>1, FS_EmptySet
  <1>. QED  BY <1>2, BreakerAssumption DEF BreakerInit

LEMMA ExactNext == IInv /\ Exact /\ [BreakerNext]_breakerVars => Exact'
  BY ExactStep DEF Exact

\* A counter is what it was told, one estimate for each reservation in it and one for each left
\* behind, whatever the interleaving and whatever fails.
THEOREM AlwaysExact == BreakerSpec => []Exact
  BY InitIInv, NextIInv, ExactInit, ExactNext, PTL DEF BreakerSpec

-----------------------------------------------------------------------------
(* What stays behind.                                                      *)

Broken == {w \in Workers : bpc[w] = "failed"}

\* Every estimate left behind has its failure, and so has every worker about to leave one.
Faulted == \A c \in Counters : lost[c] + Cardinality(Broken) <= faults

LEMMA FiniteBroken ==
    /\ IsFiniteSet(Broken) /\ Cardinality(Broken) \in Nat
    /\ IsFiniteSet(Broken') /\ Cardinality(Broken') \in Nat
  <1>1. Broken \subseteq Workers /\ Broken' \subseteq Workers
    BY DEF Broken
  <1>2. IsFiniteSet(Broken) /\ IsFiniteSet(Broken')
    BY <1>1, BreakerAssumption, FS_Subset
  <1>. QED  BY <1>2, FS_CardinalityType

LEMMA FaultedInit == BreakerInit => Faulted
  <1>. SUFFICES ASSUME BreakerInit PROVE Faulted
    OBVIOUS
  <1>1. Broken = {}
    BY DEF BreakerInit, Broken
  <1>. QED  BY <1>1, FS_EmptySet DEF BreakerInit, Faulted

LEMMA FaultedNext == IInv /\ Faulted /\ [BreakerNext]_breakerVars => Faulted'
  <1>. SUFFICES ASSUME IInv, Faulted, [BreakerNext]_breakerVars
                PROVE  Faulted'
    OBVIOUS
  <1>. USE FiniteBroken
  <1>0. /\ \A c \in Counters : lost[c] \in Nat /\ lost[c] + Cardinality(Broken) <= faults
        /\ faults \in Nat
    BY DEF Faulted, IInv, BreakerTypeOK
  <1>1. ASSUME lost' = lost, Broken' = Broken, faults' \in {faults, faults + 1}
        PROVE  Faulted'
    BY <1>0, <1>1 DEF Faulted
  <1>2. CASE UNCHANGED counterVars /\ (UNCHANGED faults \/ Elsewhere)
    BY <1>1, <1>2 DEF counterVars, Elsewhere, Broken
  <1>3. ASSUME NEW w \in Workers, bpc[w] # "failed", bpc'[w] # "failed",
               \A v \in Workers \ {w} : bpc'[v] = bpc[v]
        PROVE  Broken' = Broken
    BY <1>3 DEF Broken
  <1>4. ASSUME NEW w \in Workers, NEW d \in Days, Reserve(w, d)
        PROVE  Faulted'
    BY <1>1, <1>3, <1>4 DEF Reserve, IInv, BreakerTypeOK
  <1>5. ASSUME NEW w \in Workers, Command(w)
        PROVE  Faulted'
    <2>1. /\ bpc[w] # "failed" /\ bpc'[w] # "failed"
          /\ \A v \in Workers \ {w} : bpc'[v] = bpc[v]
          /\ lost' = lost /\ faults' = faults
      BY <1>5 DEF Command, Charge, Charging, Undo, AfterUndo, Settle, Settling, IInv, BreakerTypeOK
    <2>. QED  BY <1>1, <1>3, <2>1
  <1>6. ASSUME NEW w \in Workers, NEW c \in 0 .. Ceiling, Reconcile(w, c), Elsewhere
        PROVE  Faulted'
    <2>1. /\ bpc[w] # "failed" /\ bpc'[w] # "failed"
          /\ \A v \in Workers \ {w} : bpc'[v] = bpc[v]
          /\ lost' = lost
      BY <1>6 DEF Reconcile, IInv, BreakerTypeOK
    <2>. QED  BY <1>1, <1>3, <1>6, <2>1 DEF Elsewhere
  <1>7. ASSUME NEW w \in Workers, RedisFails(w) \/ Crash(w)
        PROVE  Faulted'
    <2>1. /\ Broken' = Broken \cup {w} /\ w \notin Broken
          /\ lost' = lost /\ faults' = faults + 1
      BY <1>7 DEF RedisFails, Crash, Commands, Broken, IInv, BreakerTypeOK
    <2>2. Cardinality(Broken') = Cardinality(Broken) + 1
      BY <2>1, OneMore
    <2>. QED  BY <1>0, <2>1, <2>2 DEF Faulted
  <1>8. ASSUME NEW w \in Workers, Leave(w)
        PROVE  Faulted'
    <2>1. CASE bpc[w] = "failed"
      <3>1. Broken' = Broken \ {w} /\ w \in Broken /\ faults' = faults
        BY <1>8, <2>1 DEF Leave, Broken, IInv, BreakerTypeOK
      <3>2. Cardinality(Broken') = Cardinality(Broken) - 1
        BY <3>1, OneLess
      <3>3. \A c \in Counters : lost'[c] \in Nat /\ lost'[c] <= lost[c] + 1
        BY <1>0, <1>8 DEF Leave
      <3>. QED  BY <1>0, <3>1, <3>2, <3>3 DEF Faulted
    <2>2. CASE bpc[w] # "failed"
      <3>1. stands[w] = {}
        BY <1>8, <2>2 DEF Leave, IInv, Shape
      <3>2. lost' = lost /\ faults' = faults
        BY <1>8, <3>1 DEF Leave, IInv, BreakerTypeOK
      <3>3. bpc'[w] # "failed" /\ \A v \in Workers \ {w} : bpc'[v] = bpc[v]
        BY <1>8 DEF Leave, IInv, BreakerTypeOK
      <3>. QED  BY <1>1, <1>3, <2>2, <3>2, <3>3
    <2>. QED  BY <2>1, <2>2
  <1>. QED
    BY <1>2, <1>4, <1>5, <1>6, <1>7, <1>8 DEF BreakerNext, breakerVars

\* A call that is refused, that succeeds or that fails gives its estimate back; only a fault of
\* Redis or of the worker leaves one behind, one per counter and fault.
THEOREM OnlyFaultsLeave == BreakerSpec => []LeftByFaults
  <1>1. IInv /\ Faulted => LeftByFaults
    BY FiniteBroken DEF Faulted, LeftByFaults, IInv, BreakerTypeOK
  <1>. QED  BY <1>1, InitIInv, NextIInv, FaultedInit, FaultedNext, PTL DEF BreakerSpec

-----------------------------------------------------------------------------
(* The budget.                                                             *)

\* A caller is let in only when there is room for it.
LEMMA RoomForOneMore ==
    ASSUME IInv, Exact, NEW c \in Counters, total[c] + Estimate <= CapOf(c)
    PROVE  spent[c] + Estimate * (Cardinality(Held(c)) + 1) <= CapOf(c)
  <1>. DEFINE n == Cardinality(Standing(c)) + lost[c]
              g == Cardinality(Held(c))
  <1>0. /\ total[c] = spent[c] + Estimate * n
        /\ total[c] \in Int /\ spent[c] \in Nat /\ Estimate \in Nat
        /\ n \in Nat /\ g \in Nat /\ g <= n /\ CapOf(c) \in Nat
    BY FiniteCallers, BreakerAssumption DEF Exact, IInv, BreakerTypeOK, CapOf
  <1>. HIDE DEF n, g
  <1>1. Estimate * (g + 1) = Estimate * g + Estimate /\ Estimate * g \in Int
    BY <1>0, Multiples
  <1>2. Estimate * g <= Estimate * n
    BY <1>0
  <1>. QED  BY <1>0, <1>1, <1>2 DEF g

LEMMA OvershootStep ==
    ASSUME IInv, Exact, Overshoot, [BreakerNext]_breakerVars, NEW c \in Counters
    PROVE  spent'[c] + Estimate * Cardinality(Held(c)')
              <= CapOf(c) + (Cardinality(Workers) - Cardinality(Held(c)')) * (Ceiling - Estimate)
  <1>. DEFINE g == Cardinality(Held(c))
              h == Cardinality(Held(c)')
              n == Cardinality(Workers)
              o == Ceiling - Estimate
  <1>0. /\ spent[c] \in Nat /\ Estimate \in Nat /\ CapOf(c) \in Nat /\ Ceiling \in Nat
        /\ n \in Nat /\ g \in Nat /\ h \in Nat /\ g <= n /\ h <= n /\ o \in Nat
        /\ spent[c] + Estimate * g <= CapOf(c) + (n - g) * o
    BY FiniteCallers, BreakerAssumption DEF Overshoot, IInv, BreakerTypeOK, CapOf
  <1>1. CounterStep(c)
    BY EveryStep
  <1>2. ASSUME h = g, spent'[c] = spent[c]
        PROVE  spent'[c] + Estimate * h <= CapOf(c) + (n - h) * o
    BY <1>0, <1>2
  <1>3. CASE Alone(c)
    BY <1>2, <1>3 DEF Alone
  <1>4. ASSUME NEW w \in Workers, Taken(c, w)
        PROVE  spent'[c] + Estimate * h <= CapOf(c) + (n - h) * o
    <2>1. CASE Held(c)' = Held(c)
      BY <1>2, <1>4, <2>1 DEF Taken
    <2>2. CASE w \notin Held(c) /\ Held(c)' = Held(c) \cup {w} /\ total[c] + Estimate <= CapOf(c)
      <3>1. h = g + 1
        BY <2>2, FiniteCallers, OneMore
      <3>2. spent[c] + Estimate * (g + 1) <= CapOf(c)
        BY <2>2, RoomForOneMore
      <3>3. spent'[c] = spent[c]
        BY <1>4 DEF Taken
      <3>. HIDE DEF g, h, n, o
      <3>4. (n - h) * o >= 0
        BY <1>0
      <3>5. (n - h) * o \in Int
        BY <1>0
      <3>. QED  BY <1>0, <3>1, <3>2, <3>3, <3>4, <3>5
    <2>. QED  BY <1>4, <2>1, <2>2 DEF Taken
  <1>5. ASSUME NEW w \in Workers, NEW x \in 0 .. Ceiling, Held(c)' = Held(c) \ {w},
               \/ spent'[c] = spent[c]
               \/ w \in Held(c) /\ spent'[c] = spent[c] + x
        PROVE  spent'[c] + Estimate * h <= CapOf(c) + (n - h) * o
    <2>1. CASE w \notin Held(c)
      BY <1>2, <1>5, <2>1
    <2>2. CASE w \in Held(c)
      <3>1. h = g - 1
        BY <1>5, <2>2, FiniteCallers, OneLess
      <3>2. spent'[c] \in Nat /\ spent'[c] <= spent[c] + Ceiling
        BY <1>0, <1>5
      <3>. HIDE DEF g, h, n
      <3>3. Estimate * (g - 1) = Estimate * g - Estimate /\ Estimate * g \in Int
        BY <1>0, Multiples
      <3>4. o * ((n - g) + 1) = o * (n - g) + o /\ o * (n - g) \in Int
        <4>. HIDE DEF o
        <4>. QED  BY <1>0, Multiples
      <3>5. (n - h) * o = (n - g) * o + o
        <4>1. n - h = (n - g) + 1
          BY <1>0, <3>1
        <4>. HIDE DEF o
        <4>2. ((n - g) + 1) * o = (n - g) * o + o
          BY <1>0
        <4>. QED  BY <4>1, <4>2
      <3>6. (n - g) * o \in Int
        BY <1>0
      <3>. QED  BY <1>0, <3>1, <3>2, <3>3, <3>5, <3>6
    <2>. QED  BY <2>1, <2>2
  <1>6. 0 \in 0 .. Ceiling
    BY <1>0
  <1>. QED  BY <1>1, <1>3, <1>4, <1>5, <1>6 DEF CounterStep, Undone, Told, Forsaken, Left

LEMMA OvershootInit == BreakerInit => Overshoot
  <1>. SUFFICES ASSUME BreakerInit, NEW c \in Counters
                PROVE  spent[c] + Estimate * Cardinality(Held(c))
                          <= CapOf(c) + (Cardinality(Workers) - Cardinality(Held(c)))
                                          * (Ceiling - Estimate)
    BY DEF Overshoot
  <1>1. Held(c) = {}
    BY DEF BreakerInit, Held
  <1>2. Cardinality(Held(c)) = 0 /\ Cardinality(Workers) \in Nat
    BY <1>1, FS_EmptySet, FiniteCallers
  <1>3. CapOf(c) \in Nat /\ Ceiling - Estimate \in Nat /\ spent[c] = 0
    BY BreakerAssumption DEF CapOf, BreakerInit
  <1>. DEFINE n == Cardinality(Workers)
              o == Ceiling - Estimate
  <1>4. (n - 0) * o >= 0 /\ (n - 0) * o \in Int
    <2>. n \in Nat /\ o \in Nat
      BY <1>2, <1>3
    <2>. HIDE DEF n, o
    <2>. QED  OBVIOUS
  <1>. QED  BY <1>2, <1>3, <1>4, BreakerAssumption

LEMMA OvershootNext == IInv /\ Exact /\ Overshoot /\ [BreakerNext]_breakerVars => Overshoot'
  BY OvershootStep DEF Overshoot, CapOf

\* What is spent passes a cap by no more than what the calls under way together bill beyond
\* their estimates, for any number of calls, any estimate and any failures.
THEOREM BoundedOvershoot == BreakerSpec => []Overshoot
  BY InitIInv, NextIInv, ExactInit, ExactNext, OvershootInit, OvershootNext, PTL DEF BreakerSpec

-----------------------------------------------------------------------------
(* Each counter implements a budget.                                       *)

\* The caps of the counters, as a budget's step sees them.
BudgetStep(c) ==
    \/ /\ spent[c] + Estimate * (Cardinality(Held(c)) + 1) <= CapOf(c)
       /\ Cardinality(Held(c)') = Cardinality(Held(c)) + 1
       /\ spent'[c] = spent[c]
    \/ \E x \in 0 .. Ceiling :
          /\ Cardinality(Held(c)) > 0
          /\ Cardinality(Held(c)') = Cardinality(Held(c)) - 1
          /\ spent'[c] = spent[c] + x
    \/ Cardinality(Held(c)') = Cardinality(Held(c)) /\ spent'[c] = spent[c]

LEMMA EveryStepIsBudget ==
    ASSUME IInv, Exact, [BreakerNext]_breakerVars, NEW c \in Counters
    PROVE  BudgetStep(c)
  <1>1. CounterStep(c)
    BY EveryStep
  <1>2. CASE Alone(c)
    BY <1>2 DEF Alone, BudgetStep
  <1>3. ASSUME NEW w \in Workers, Taken(c, w)
        PROVE  BudgetStep(c)
    <2>1. CASE Held(c)' = Held(c)
      BY <1>3, <2>1 DEF Taken, BudgetStep
    <2>2. CASE w \notin Held(c) /\ Held(c)' = Held(c) \cup {w} /\ total[c] + Estimate <= CapOf(c)
      <3>1. Cardinality(Held(c)') = Cardinality(Held(c)) + 1
        BY <2>2, FiniteCallers, OneMore
      <3>2. spent[c] + Estimate * (Cardinality(Held(c)) + 1) <= CapOf(c)
        BY <2>2, RoomForOneMore
      <3>. QED  BY <1>3, <3>1, <3>2 DEF Taken, BudgetStep
    <2>. QED  BY <1>3, <2>1, <2>2 DEF Taken
  <1>4. ASSUME NEW w \in Workers, Held(c)' = Held(c) \ {w}, w \in Held(c)
        PROVE  /\ Cardinality(Held(c)) > 0
               /\ Cardinality(Held(c)') = Cardinality(Held(c)) - 1
    <2>1. Cardinality(Held(c)') = Cardinality(Held(c)) - 1
      BY <1>4, FiniteCallers, OneLess
    <2>. QED  BY <2>1, FiniteCallers
  <1>5. ASSUME NEW w \in Workers, Held(c)' = Held(c) \ {w}, spent'[c] = spent[c]
        PROVE  BudgetStep(c)
    <2>1. spent'[c] = spent[c] + 0 /\ 0 \in 0 .. Ceiling
      BY <1>5, BreakerAssumption DEF IInv, BreakerTypeOK
    <2>2. CASE w \in Held(c)
      BY <1>4, <1>5, <2>1, <2>2 DEF BudgetStep
    <2>3. CASE w \notin Held(c)
      <3>1. Held(c)' = Held(c)
        BY <1>5, <2>3
      <3>. QED  BY <1>5, <3>1 DEF BudgetStep
    <2>. QED  BY <2>2, <2>3
  <1>6. ASSUME NEW w \in Workers, Undone(c, w) \/ Forsaken(c, w)
        PROVE  BudgetStep(c)
    BY <1>5, <1>6 DEF Undone, Forsaken, Left
  <1>7. ASSUME NEW w \in Workers, NEW x \in 0 .. Ceiling, Told(c, w, x)
        PROVE  BudgetStep(c)
    BY <1>4, <1>7 DEF Told, Left, BudgetStep
  <1>. QED  BY <1>1, <1>2, <1>3, <1>6, <1>7 DEF CounterStep

LEMMA BudgetInit ==
    ASSUME BreakerInit, NEW c \in Counters
    PROVE  Cardinality(Held(c)) = 0 /\ spent[c] = 0
  <1>1. Held(c) = {}
    BY DEF BreakerInit, Held
  <1>. QED  BY <1>1, FS_EmptySet DEF BreakerInit

\* The month's counter implements the budget: no interleaving of the commands of reserve() and
\* reconcile() lets in a call for which there was no room.
THEOREM ImplementsMonthBudget == BreakerSpec => WithinMonthBudget
  <1>0. Month \in Counters /\ CapOf(Month) = MonthlyCap
    BY DEF Counters, CapOf
  <1>1. BreakerInit => MonthBudget!Init
    BY <1>0, BudgetInit DEF MonthBudget!Init
  <1>2. IInv /\ Exact /\ [BreakerNext]_breakerVars => [MonthBudget!Next]_(MonthBudget!vars)
    <2>. SUFFICES ASSUME IInv, Exact, [BreakerNext]_breakerVars
                  PROVE  [MonthBudget!Next]_(MonthBudget!vars)
      OBVIOUS
    <2>1. BudgetStep(Month)
      BY <1>0, EveryStepIsBudget
    <2>. QED
      BY <1>0, <2>1
         DEF BudgetStep, MonthBudget!Next, MonthBudget!Grant, MonthBudget!Settle, MonthBudget!vars
  <1>. QED
    BY <1>1, <1>2, InitIInv, NextIInv, ExactInit, ExactNext, PTL
       DEF BreakerSpec, WithinMonthBudget, MonthBudget!Spec

\* The counter of a day implements the budget too.
THEOREM ImplementsDayBudget == BreakerSpec => WithinDayBudget
  <1>0. SomeDay \in Counters /\ CapOf(SomeDay) = DailyCap
    BY BreakerAssumption DEF SomeDay, Counters, CapOf
  <1>1. BreakerInit => DayBudget!Init
    BY <1>0, BudgetInit DEF DayBudget!Init
  <1>2. IInv /\ Exact /\ [BreakerNext]_breakerVars => [DayBudget!Next]_(DayBudget!vars)
    <2>. SUFFICES ASSUME IInv, Exact, [BreakerNext]_breakerVars
                  PROVE  [DayBudget!Next]_(DayBudget!vars)
      OBVIOUS
    <2>1. BudgetStep(SomeDay)
      BY <1>0, EveryStepIsBudget
    <2>. QED
      BY <1>0, <2>1
         DEF BudgetStep, DayBudget!Next, DayBudget!Grant, DayBudget!Settle, DayBudget!vars
  <1>. QED
    BY <1>1, <1>2, InitIInv, NextIInv, ExactInit, ExactNext, PTL
       DEF BreakerSpec, WithinDayBudget, DayBudget!Spec

\* The two caps are enforced together: under any interleaving of the commands both
\* counters, month and day, let calls in as a budget does.
THEOREM ImplementsBudgets == BreakerSpec => WithinBudgets
  BY ImplementsMonthBudget, ImplementsDayBudget DEF WithinBudgets
-----------------------------------------------------------------------------
\* LLMGateway.complete().

Priced == price \in [Workers -> 0 .. Ceiling]

LEMMA PricedInit == Init => Priced
  BY BreakerAssumption DEF Init, Priced

LEMMA PricedNext == Priced /\ [Next]_vars => Priced'
  <1>. SUFFICES ASSUME Priced, [Next]_vars PROVE Priced'
    OBVIOUS
  <1>. USE DEF Priced
  <1>1. ASSUME NEW w \in Workers, NEW t \in Texts, NEW c \in Costs, ProviderAnswers(w, t, c)
        PROVE  Priced'
    BY <1>1, GatewayAssumption DEF ProviderAnswers
  <1>2. ASSUME NEW w \in Workers, Return(w)
        PROVE  Priced'
    BY <1>2, BreakerAssumption DEF Return
  <1>3. ASSUME UNCHANGED price
        PROVE  Priced'
    BY <1>3
  <1>4. ASSUME NEW w \in Workers, NEW p \in Prompts, NEW d \in Days, Request(w, p, d)
        PROVE  Priced'
    BY <1>3, <1>4 DEF Request
  <1>5. ASSUME NEW w \in Workers, NEW d \in Days, Lookup(w, d)
        PROVE  Priced'
    BY <1>3, <1>5 DEF Lookup
  <1>6. ASSUME NEW w \in Workers, Skip(w) \/ Exhausted(w) \/ Put(w) \/ Insert(w) \/ Store(w)
        PROVE  Priced'
    BY <1>3, <1>6 DEF Skip, Exhausted, Put, Insert, Store
  <1>7. ASSUME NEW w \in Workers, NEW trigger \in Triggers, ProviderFails(w, trigger)
        PROVE  Priced'
    BY <1>3, <1>7 DEF ProviderFails
  <1>8. ASSUME NEW w \in Workers, Break(w)
        PROVE  Priced'
    BY <1>3, <1>8 DEF Break, AwaitRaises, LookupRaises, gatewayVars
  <1>9. ASSUME NEW p \in Prompts, Expire(p)
        PROVE  Priced'
    BY <1>3, <1>9 DEF Expire
  <1>10. CASE UNCHANGED vars
    BY <1>3, <1>10 DEF vars, gatewayVars
  <1>11. ASSUME NEW w \in Workers, Command(w), UNCHANGED gatewayVars
         PROVE  Priced'
    BY <1>3, <1>11 DEF gatewayVars
  <1>. QED
    BY <1>1, <1>2, <1>4, <1>5, <1>6, <1>7, <1>8, <1>9, <1>10, <1>11 DEF Next, Complete

\* Every step of complete() leaves the breaker alone or is one of its steps.
LEMMA EveryStepOfTheBreaker ==
    ASSUME Priced, [Next]_vars
    PROVE  [BreakerNext]_breakerVars
  <1>0. Estimate \in 0 .. Ceiling /\ 0 \in 0 .. Ceiling
    BY BreakerAssumption
  <1>1. ASSUME NEW w \in Workers, NEW x \in 0 .. Ceiling, Reconcile(w, x),
               UNCHANGED faults \/ faults' = faults + 1
        PROVE  [BreakerNext]_breakerVars
    BY <1>1 DEF BreakerNext, Elsewhere
  <1>2. CASE UNCHANGED vars
    BY <1>2 DEF vars
  <1>3. ASSUME NEW w \in Workers, NEW p \in Prompts, NEW d \in Days, Request(w, p, d)
        PROVE  [BreakerNext]_breakerVars
    BY <1>3 DEF Request, Begin, BreakerNext
  <1>4. ASSUME NEW w \in Workers, NEW d \in Days, Lookup(w, d)
        PROVE  [BreakerNext]_breakerVars
    BY <1>4 DEF Lookup, Begin, BreakerNext
  <1>5. ASSUME NEW w \in Workers, Command(w) \/ Return(w) \/ RedisFails(w) \/ Crash(w)
        PROVE  [BreakerNext]_breakerVars
    BY <1>5 DEF Return, BreakerNext
  <1>6. ASSUME NEW w \in Workers, Exhausted(w)
        PROVE  [BreakerNext]_breakerVars
    BY <1>0, <1>1, <1>6 DEF Exhausted, Raise, Finish
  <1>7. ASSUME NEW w \in Workers, NEW trigger \in Triggers, ProviderFails(w, trigger)
        PROVE  [BreakerNext]_breakerVars
    BY <1>0, <1>1, <1>7 DEF ProviderFails, Raise, Finish
  <1>8. ASSUME NEW w \in Workers, Insert(w)
        PROVE  [BreakerNext]_breakerVars
    <2>1. price[w] \in 0 .. Ceiling
      BY DEF Priced
    <2>. QED
      BY <1>0, <1>1, <1>8, <2>1 DEF Insert, Judge, Dispatch, Accept, Reject, Raise, Finish
  <1>9. ASSUME NEW w \in Workers, Store(w)
        PROVE  [BreakerNext]_breakerVars
    BY <1>1, <1>9 DEF Store, Finish, Priced
  <1>10. ASSUME NEW w \in Workers, Skip(w) \/ Put(w)
         PROVE  [BreakerNext]_breakerVars
    BY <1>10 DEF Skip, Put
  <1>11. ASSUME NEW w \in Workers, NEW t \in Texts, NEW c \in Costs, ProviderAnswers(w, t, c)
         PROVE  [BreakerNext]_breakerVars
    BY <1>11 DEF ProviderAnswers
  <1>12. ASSUME NEW p \in Prompts, Expire(p)
         PROVE  [BreakerNext]_breakerVars
    BY <1>12 DEF Expire
  <1>13. ASSUME NEW w \in Workers, AwaitRaises(w) \/ LookupRaises(w)
         PROVE  [BreakerNext]_breakerVars
    <2>1. CASE AwaitRaises(w)
      BY <1>0, <1>1, <2>1 DEF AwaitRaises, Raise, Finish
    <2>2. CASE LookupRaises(w)
      BY <2>2 DEF LookupRaises, BreakerNext, Elsewhere
    <2>. QED  BY <1>13, <2>1, <2>2
  <1>. QED
    BY <1>2, <1>3, <1>4, <1>5, <1>6, <1>7, <1>8, <1>9, <1>10, <1>11, <1>12, <1>13
       DEF Next, Complete, Break

\* The gateway uses the breaker as it is meant to be used: one reservation and at most one
\* reconciliation for each call of complete(), on every path out of it.
THEOREM UsesTheBreaker == Spec => BreakerSpec
  <1>1. Init => BreakerInit
    BY DEF Init
  <1>. QED  BY <1>1, PricedInit, PricedNext, EveryStepOfTheBreaker, PTL DEF Spec, BreakerSpec

\* In every run of the gateway the counters are exact, nothing but a fault leaves an estimate in
\* them, and the overshoot is bounded.
THEOREM SpendAccounted == Spec => []Exact /\ []LeftByFaults /\ []Overshoot
  BY UsesTheBreaker, AlwaysExact, OnlyFaultsLeave, BoundedOvershoot

\* In every run of the gateway each counter admits calls as a budget does.
THEOREM SpendWithinBudgets == Spec => WithinBudgets
  BY UsesTheBreaker, ImplementsBudgets

-----------------------------------------------------------------------------
(* The ladder: what is accepted, and what is recorded.                      *)

GatewayPcs == {"idle", "lookup", "call", "put", "insert", "store", "settle"}
Kinds == {"none", "output", "schemaFailed", "suspicious", "exhausted", "quota", "raised"}
MaybeText == Texts \cup {NoText}

GatewayTypeOK ==
    /\ gpc \in [Workers -> GatewayPcs]
    /\ prompt \in [Workers -> Prompts]
    /\ phase \in [Workers -> {"native", "repair", "retry"}]
    /\ text \in [Workers -> MaybeText]
    /\ result \in [Workers -> [kind : Kinds, text : MaybeText]]
    /\ cached \in [Prompts -> MaybeText]
    /\ objects \in [Prompts \X Attempts -> MaybeText]
    /\ rows \subseteq [prompt : Prompts, attempt : Attempts, text : Texts]
    /\ owed \in [Workers -> {0, 1}]

Clean(p, t) == Salvages(t) /\ (p \in Flagged => ~t.echo)

\* While a call of complete() is on its way it has no result, and owes a row from a response to
\* its row; what is about to be stored was accepted.
OnTheWay(w) ==
    /\ gpc[w] \in {"lookup", "call", "put", "insert", "store"} =>
          /\ result[w].kind = "none"
          /\ owed[w] = (IF gpc[w] \in {"put", "insert"} THEN 1 ELSE 0)
    /\ gpc[w] \in {"put", "insert", "store"} => text[w] \in Texts
    /\ gpc[w] = "insert" => objects[<<prompt[w], Attempt(w)>>] # NoText
    /\ gpc[w] = "store" => Clean(prompt[w], text[w])

LadderInv ==
    /\ GatewayTypeOK
    /\ \A w \in Workers : OnTheWay(w)
    /\ AcceptedOnly
    /\ EveryCallRecorded

LEMMA LadderInit == Init => LadderInv
  <1>. SUFFICES ASSUME Init PROVE LadderInv
    OBVIOUS
  <1>1. GatewayTypeOK
    BY DEF Init, GatewayTypeOK, GatewayPcs, Kinds, MaybeText
  <1>2. \A w \in Workers : OnTheWay(w)
    BY DEF Init, OnTheWay
  <1>3. AcceptedOnly /\ EveryCallRecorded
    BY DEF Init, AcceptedOnly, OnlyCleanOutput, CacheHoldsAccepted, EveryCallRecorded
  <1>. QED  BY <1>1, <1>2, <1>3 DEF LadderInv

LEMMA AttemptInAttempts == \A w \in Workers : Attempt(w) \in Attempts
  BY DEF Attempt, Attempts

\* The `finally` clause.
LEMMA FinishTypes ==
    ASSUME GatewayTypeOK, NEW w \in Workers, NEW k \in Kinds, NEW a, Finish(w, k, a)
    PROVE  /\ gpc' = [gpc EXCEPT ![w] = "settle"] /\ gpc' \in [Workers -> GatewayPcs]
           /\ result' = [result EXCEPT ![w] = [kind |-> k, text |-> text[w]]]
           /\ result' \in [Workers -> [kind : Kinds, text : MaybeText]]
  <1>1. [kind |-> k, text |-> text[w]] \in [kind : Kinds, text : MaybeText]
    BY DEF GatewayTypeOK
  <1>. QED  BY <1>1 DEF Finish, GatewayTypeOK, GatewayPcs

LEMMA LadderNext == LadderInv /\ [Next]_vars => LadderInv'
  <1>. SUFFICES ASSUME LadderInv, [Next]_vars PROVE LadderInv'
    OBVIOUS
  <1>. USE DEF LadderInv, GatewayTypeOK, GatewayPcs, Kinds, MaybeText, OnTheWay, Clean,
           AcceptedOnly, OnlyCleanOutput, CacheHoldsAccepted, EveryCallRecorded
  <1>1. ASSUME NEW w \in Workers, NEW p \in Prompts, NEW d \in Days, Request(w, p, d)
        PROVE  LadderInv'
    BY <1>1 DEF Request, Begin, Attempt, Tier
  <1>2. ASSUME NEW w \in Workers, NEW d \in Days, Lookup(w, d)
        PROVE  LadderInv'
    <2>1. GatewayTypeOK'
      <3>1. FromCache(cached[prompt[w]]) \in [kind : Kinds, text : MaybeText]
        BY DEF FromCache
      <3>. QED  BY <1>2, <3>1 DEF Lookup, Begin
    <2>2. \A x \in Workers : OnTheWay(x)'
      BY <1>2 DEF Lookup, Begin, FromCache, Validates, Salvages, Attempt, Tier
    <2>3. AcceptedOnly'
      BY <1>2 DEF Lookup, Begin, FromCache, Validates, Salvages, Attempt, Tier
    <2>4. EveryCallRecorded'
      BY <1>2 DEF Lookup, Begin, FromCache, Validates, Salvages, Attempt, Tier
    <2>. QED  BY <2>1, <2>2, <2>3, <2>4
  <1>3. ASSUME NEW w \in Workers, Skip(w)
        PROVE  LadderInv'
    BY <1>3 DEF Skip, Attempt, Tier
  <1>4. ASSUME NEW w \in Workers, Exhausted(w)
        PROVE  LadderInv'
    BY <1>4 DEF Exhausted, Raise, Finish, Serving, Attempt, Tier
  <1>5. ASSUME NEW w \in Workers, NEW t \in Texts, NEW c \in Costs, ProviderAnswers(w, t, c)
        PROVE  LadderInv'
    <2>1. GatewayTypeOK'
      <3>1. owed[w] = 0
        BY <1>5 DEF ProviderAnswers, Serving
      <3>. QED  BY <1>5, <3>1 DEF ProviderAnswers
    <2>2. \A x \in Workers : OnTheWay(x)'
      BY <1>5 DEF ProviderAnswers, Serving, Attempt, Tier
    <2>3. AcceptedOnly'
      BY <1>5 DEF ProviderAnswers, Serving, Attempt, Tier
    <2>4. EveryCallRecorded'
      BY <1>5 DEF ProviderAnswers, Serving, Attempt, Tier
    <2>. QED  BY <2>1, <2>2, <2>3, <2>4
  <1>6. ASSUME NEW w \in Workers, NEW trigger \in Triggers, ProviderFails(w, trigger)
        PROVE  LadderInv'
    <2>1. GatewayTypeOK'
      BY <1>6, FinishTypes DEF ProviderFails, Raise
    <2>2. \A x \in Workers : OnTheWay(x)'
      BY <1>6 DEF ProviderFails, Another, Serving, Raise, Finish, Attempt, Tier
    <2>3. AcceptedOnly'
      BY <1>6 DEF ProviderFails, Another, Serving, Raise, Finish, Attempt, Tier
    <2>4. EveryCallRecorded'
      BY <1>6 DEF ProviderFails, Another, Serving, Raise, Finish, Attempt, Tier
    <2>. QED  BY <2>1, <2>2, <2>3, <2>4
  <1>7. ASSUME NEW w \in Workers, Put(w)
        PROVE  LadderInv'
    BY <1>7, AttemptInAttempts, GatewayAssumption DEF Put, PutText, Attempt, Tier
  <1>8. ASSUME NEW w \in Workers, Insert(w)
        PROVE  LadderInv'
    <2>. DEFINE row == [prompt |-> prompt[w], attempt |-> Attempt(w), text |-> text[w]]
    <2>0. /\ gpc[w] = "insert" /\ text[w] \in Texts /\ owed[w] = 1 /\ result[w].kind = "none"
          /\ UNCHANGED <<prompt, text, cached, objects>>
          /\ rows' = rows \cup {row} /\ owed' = [owed EXCEPT ![w] = @ - 1]
          /\ objects[<<prompt[w], Attempt(w)>>] # NoText
          /\ Judge(w)
      BY <1>8 DEF Insert, AddRow
    <2>1. /\ row \in [prompt : Prompts, attempt : Attempts, text : Texts]
          /\ objects[<<row.prompt, row.attempt>>] # NoText
          /\ owed' = [owed EXCEPT ![w] = 0]
      BY <2>0, AttemptInAttempts
    <2>2. /\ rows' \subseteq [prompt : Prompts, attempt : Attempts, text : Texts]
          /\ \A r \in rows' : objects'[<<r.prompt, r.attempt>>] # NoText
      BY <2>0, <2>1
    <2>3. ASSUME NEW p \in {"repair", "retry"}, Dispatch(w, p)
          PROVE  LadderInv'
      <3>1. GatewayTypeOK'
        BY <2>0, <2>1, <2>2, <2>3 DEF Dispatch
      <3>. QED  BY <2>0, <2>1, <2>2, <2>3, <3>1 DEF Dispatch, Attempt, Tier
    <2>4. ASSUME NEW k \in {"schemaFailed", "suspicious"}, Reject(w, k)
          PROVE  LadderInv'
      <3>1. GatewayTypeOK'
        BY <2>0, <2>1, <2>2, <2>4, FinishTypes DEF Reject, Raise
      <3>2. /\ gpc' = [gpc EXCEPT ![w] = "settle"]
            /\ result' = [result EXCEPT ![w] = [kind |-> k, text |-> text[w]]]
            /\ UNCHANGED <<phase, repaired>>
        BY <2>4, FinishTypes DEF Reject, Raise
      <3>3. \A x \in Workers : OnTheWay(x)'
        BY <2>0, <2>1, <3>1, <3>2 DEF Attempt, Tier
      <3>4. AcceptedOnly'
        BY <2>0, <3>1, <3>2
      <3>5. EveryCallRecorded'
        BY <2>0, <2>1, <2>2, <3>1, <3>2
      <3>. QED  BY <3>1, <3>3, <3>4, <3>5
    <2>5. ASSUME Accept(w), Clean(prompt[w], text[w])
          PROVE  LadderInv'
      <3>1. CASE prompt[w] \in Deterministic
        <4>1. GatewayTypeOK'
          BY <2>0, <2>1, <2>2, <2>5, <3>1 DEF Accept
        <4>2. /\ gpc' = [gpc EXCEPT ![w] = "store"]
              /\ UNCHANGED <<result, phase, repaired>>
          BY <2>5, <3>1 DEF Accept
        <4>3. \A x \in Workers : OnTheWay(x)'
          BY <2>0, <2>1, <2>5, <4>1, <4>2 DEF Attempt, Tier
        <4>4. AcceptedOnly' /\ EveryCallRecorded'
          BY <2>0, <2>1, <2>2, <4>1, <4>2
        <4>. QED  BY <4>1, <4>3, <4>4
      <3>2. CASE prompt[w] \notin Deterministic
        <4>1. GatewayTypeOK'
          BY <2>0, <2>1, <2>2, <2>5, <3>2, FinishTypes DEF Accept
        <4>2. /\ gpc' = [gpc EXCEPT ![w] = "settle"]
              /\ result' = [result EXCEPT ![w] = [kind |-> "output", text |-> text[w]]]
              /\ UNCHANGED <<phase, repaired>>
          BY <2>5, <3>2, FinishTypes DEF Accept
        <4>3. \A x \in Workers : OnTheWay(x)'
          BY <2>0, <2>1, <4>1, <4>2 DEF Attempt, Tier
        <4>4. AcceptedOnly'
          BY <2>0, <2>5, <4>1, <4>2
        <4>5. EveryCallRecorded'
          BY <2>0, <2>1, <2>2, <4>1, <4>2
        <4>. QED  BY <4>1, <4>3, <4>4, <4>5
      <3>. QED  BY <3>1, <3>2
    <2>. QED
      BY <2>0, <2>3, <2>4, <2>5 DEF Judge, Suspicious, Validates, Salvages
  <1>9. ASSUME NEW w \in Workers, Store(w)
        PROVE  LadderInv'
    BY <1>9 DEF Store, Finish, Salvages, Attempt, Tier
  <1>10. ASSUME NEW w \in Workers, Return(w)
        PROVE  LadderInv'
    BY <1>10 DEF Return, Attempt, Tier
  <1>11. ASSUME NEW w \in Workers, AwaitRaises(w)
        PROVE  LadderInv'
    <2>1. /\ gpc[w] \in {"call", "put", "insert", "store"}
          /\ UNCHANGED <<prompt, phase, repaired, text>>
          /\ Finish(w, "raised", 0)
      BY <1>11 DEF AwaitRaises, Raise
    <2>2. /\ objects' \in [Prompts \X Attempts -> MaybeText]
          /\ \A o \in Prompts \X Attempts : objects[o] # NoText => objects'[o] # NoText
      <3>1. CASE UNCHANGED objects
        BY <3>1
      <3>2. CASE gpc[w] = "put" /\ PutText(w)
        <4>1. text[w] \in Texts /\ text[w] # NoText
          BY <3>2, GatewayAssumption
        <4>. QED  BY <3>2, <4>1, AttemptInAttempts DEF PutText
      <3>. QED  BY <1>11, <3>1, <3>2 DEF AwaitRaises
    <2>3. /\ rows' \subseteq [prompt : Prompts, attempt : Attempts, text : Texts]
          /\ \A r \in rows' : objects'[<<r.prompt, r.attempt>>] # NoText
      <3>1. CASE rows' = rows
        BY <2>2, <3>1
      <3>2. CASE gpc[w] = "insert" /\ AddRow(w) /\ UNCHANGED <<objects, cached>>
        <4>. DEFINE row == [prompt |-> prompt[w], attempt |-> Attempt(w), text |-> text[w]]
        <4>1. /\ row \in [prompt : Prompts, attempt : Attempts, text : Texts]
              /\ objects'[<<row.prompt, row.attempt>>] # NoText
          BY <3>2, AttemptInAttempts
        <4>. QED  BY <2>2, <3>2, <4>1 DEF AddRow
      <3>. QED  BY <1>11, <3>1, <3>2 DEF AwaitRaises
    <2>4. /\ owed' \in [Workers -> {0, 1}]
          /\ \A x \in Workers \ {w} : owed'[x] = owed[x]
      <3>1. CASE UNCHANGED owed
        BY <3>1
      <3>2. CASE gpc[w] = "insert" /\ AddRow(w)
        <4>1. owed[w] = 1
          <5>1. gpc[w] = "insert" /\ OnTheWay(w)
            BY <3>2
          <5>. QED  BY ONLY <5>1 DEF OnTheWay
        <4>. QED  BY <3>2, <4>1 DEF AddRow
      <3>. QED  BY <1>11, <3>1, <3>2 DEF AwaitRaises
    <2>5. /\ cached' \in [Prompts -> MaybeText]
          /\ CacheHoldsAccepted'
      BY <1>11, <2>1 DEF AwaitRaises
    <2>6. GatewayTypeOK'
      BY <2>1, <2>2, <2>3, <2>4, <2>5, FinishTypes
    <2>7. \A x \in Workers : OnTheWay(x)'
      BY <2>1, <2>2, <2>4, <2>6, FinishTypes, AttemptInAttempts DEF Attempt, Tier
    <2>8. AcceptedOnly'
      BY <2>1, <2>5, FinishTypes
    <2>9. EveryCallRecorded'
      BY <2>1, <2>3, <2>4, FinishTypes
    <2>. QED  BY <2>6, <2>7, <2>8, <2>9
  <1>12. ASSUME NEW w \in Workers, LookupRaises(w)
        PROVE  LadderInv'
    BY <1>12 DEF LookupRaises, Attempt, Tier
  <1>13. ASSUME NEW p \in Prompts, Expire(p)
        PROVE  LadderInv'
    BY <1>13 DEF Expire, Attempt, Tier
  <1>14. CASE UNCHANGED gatewayVars
    BY <1>14 DEF gatewayVars, Attempt, Tier
  <1>. QED
    BY <1>1, <1>2, <1>3, <1>4, <1>5, <1>6, <1>7, <1>8, <1>9, <1>10, <1>11, <1>12, <1>13, <1>14
       DEF Next, Complete, Break, vars

\* Every output complete() returns and every text in the cache was accepted: it can be read
\* into the schema, and echoes no flagged pattern, whichever call, retry or hit it comes from.
THEOREM OnlyAccepted == Spec => []AcceptedOnly
  <1>1. LadderInv => AcceptedOnly
    BY DEF LadderInv
  <1>. QED  BY <1>1, LadderInit, LadderNext, PTL DEF Spec

\* A call that came to a verdict owes no row of llm_calls, and what a row points to has been
\* written, whatever the stores raise and whichever calls share a prompt.
THEOREM EveryVerdictRecorded == Spec => []EveryCallRecorded
  <1>1. LadderInv => EveryCallRecorded
    BY DEF LadderInv
  <1>. QED  BY <1>1, LadderInit, LadderNext, PTL DEF Spec

-----------------------------------------------------------------------------
(* The bill.  A response that is on its way to reconcile() is owed to the   *)
(* counters it has yet to be told to; told and owed together never exceed   *)
(* what was billed.                                                         *)

\* The counters w has yet to tell, and what it may tell them.
Untold(w) == IF bpc[w] = "settleMonth" THEN {Month} ELSE {day[w], Month}
Due(w) ==
    IF bpc[w] = "granted" /\ gpc[w] \in {"put", "insert", "store"} THEN price[w]
    ELSE IF Settling(w) THEN cost[w] ELSE 0
Owes(w, c) == IF c \in Untold(w) THEN Due(w) ELSE 0
Owing(c) == [w \in Workers |-> Owes(w, c)]

\* A sum over the workers, as a number of tokens: f[w] of them for each w.
Tokens(f) == {x \in Workers \X (1 .. Ceiling) : x[2] <= f[x[1]]}

BillInv ==
    /\ billed \in [Counters -> Nat]
    /\ \A w \in Workers : Charging(w) => gpc[w] = "call"
    /\ \A c \in Counters : spent[c] + Cardinality(Tokens(Owing(c))) <= billed[c]

LEMMA TokensOfOne ==
    ASSUME NEW w \in Workers, NEW n \in 0 .. Ceiling
    PROVE  IsFiniteSet({w} \X (1 .. n)) /\ Cardinality({w} \X (1 .. n)) = n
  <1>1. IsFiniteSet(1 .. n) /\ Cardinality(1 .. n) = n
    BY FS_Interval, BreakerAssumption
  <1>2. IsFiniteSet({w}) /\ Cardinality({w}) = 1
    BY FS_Singleton
  <1>. QED  BY <1>1, <1>2, FS_Product

\* One worker's number changes, and the sum changes by as much.
LEMMA TokensChange ==
    ASSUME NEW f \in [Workers -> 0 .. Ceiling], NEW g \in [Workers -> 0 .. Ceiling],
           NEW w \in Workers, \A x \in Workers \ {w} : f[x] = g[x]
    PROVE  /\ Cardinality(Tokens(f)) \in Nat /\ Cardinality(Tokens(g)) \in Nat
           /\ Cardinality(Tokens(g)) = Cardinality(Tokens(f)) - f[w] + g[w]
  <1>. DEFINE Rest == {x \in Tokens(f) : x[1] # w}
  <1>0. IsFiniteSet(Workers \X (1 .. Ceiling))
    <2>1. IsFiniteSet(1 .. Ceiling) /\ IsFiniteSet(Workers)
      BY FS_Interval, BreakerAssumption
    <2>. QED  BY <2>1, FS_Product
  <1>1. IsFiniteSet(Rest)
    BY <1>0, FS_Subset DEF Tokens
  <1>2. ASSUME NEW h \in [Workers -> 0 .. Ceiling], \A x \in Workers \ {w} : f[x] = h[x]
        PROVE  Cardinality(Tokens(h)) = Cardinality(Rest) + h[w]
    <2>1. Tokens(h) = Rest \cup ({w} \X (1 .. h[w]))
      <3>1. \A x \in Tokens(h) : x \in Rest \cup ({w} \X (1 .. h[w]))
        BY <1>2, BreakerAssumption DEF Tokens
      <3>2. \A x \in Rest : x \in Tokens(h)
        BY <1>2 DEF Tokens
      <3>3. \A x \in {w} \X (1 .. h[w]) : x \in Tokens(h)
        BY <1>2, BreakerAssumption DEF Tokens
      <3>. QED  BY <3>1, <3>2, <3>3
    <2>2. Rest \cap ({w} \X (1 .. h[w])) = {}
      OBVIOUS
    <2>3. h[w] \in 0 .. Ceiling
      BY <1>2
    <2>4. IsFiniteSet({w} \X (1 .. h[w])) /\ Cardinality({w} \X (1 .. h[w])) = h[w]
      BY <2>3, TokensOfOne
    <2>5. Cardinality(Rest \cap ({w} \X (1 .. h[w]))) = 0
      BY <2>2, FS_EmptySet
    <2>6. Cardinality(Rest) \in Nat
      BY <1>1, FS_CardinalityType
    <2>. DEFINE Own == {w} \X (1 .. h[w])
    <2>. HIDE DEF Rest, Own
    <2>7. Cardinality(Rest \cup Own) =
            Cardinality(Rest) + Cardinality(Own) - Cardinality(Rest \cap Own)
      BY <1>1, <2>4, FS_Union DEF Own
    <2>. QED  BY <2>1, <2>3, <2>4, <2>5, <2>6, <2>7, BreakerAssumption DEF Own
  <1>3. Cardinality(Tokens(f)) = Cardinality(Rest) + f[w]
    BY <1>2
  <1>4. Cardinality(Tokens(g)) = Cardinality(Rest) + g[w]
    BY <1>2
  <1>5. Cardinality(Rest) \in Nat
    BY <1>1, FS_CardinalityType
  <1>. HIDE DEF Rest
  <1>6. f[w] \in 0 .. Ceiling /\ g[w] \in 0 .. Ceiling
    OBVIOUS
  <1>. QED  BY <1>3, <1>4, <1>5, <1>6, BreakerAssumption

\* What a step of w does to the bill of c: what it adds to what is told and owed was billed.
Billing(c, w) ==
    /\ \A x \in Workers \ {w} : Owes(x, c)' = Owes(x, c)
    /\ (spent'[c] - spent[c]) + (Owes(w, c)' - Owes(w, c)) <= billed'[c] - billed[c]

GInv == IInv /\ Priced /\ LadderInv /\ BillInv

LEMMA OwesTyped ==
    ASSUME BreakerTypeOK, Priced, NEW c \in Counters
    PROVE  /\ Owing(c) \in [Workers -> 0 .. Ceiling]
           /\ \A w \in Workers : Due(w) \in 0 .. Ceiling
  BY BreakerAssumption DEF BreakerTypeOK, Priced, Owing, Owes, Due

LEMMA BilledIsTyped ==
    ASSUME BillInv, [Next]_vars
    PROVE  billed' \in [Counters -> Nat]
  <1>. USE DEF BillInv
  <1>1. ASSUME NEW w \in Workers, NEW t \in Texts, NEW c \in Costs, ProviderAnswers(w, t, c)
        PROVE  billed' \in [Counters -> Nat]
    BY <1>1, GatewayAssumption, BreakerAssumption DEF ProviderAnswers
  <1>2. CASE UNCHANGED billed
    BY <1>2
  <1>. QED
    BY <1>1, <1>2 DEF Next, Complete, Break, Request, Lookup, LookupRaises, Skip, Exhausted,
       ProviderFails, Put, Insert, Store, AwaitRaises, Return, Expire, vars, gatewayVars

LEMMA ChargingCalls ==
    ASSUME GInv, [Next]_vars
    PROVE  \A w \in Workers : Charging(w)' => gpc'[w] = "call"
  <1>. DEFINE AllCall == \A x \in Workers : Charging(x)' => gpc'[x] = "call"
  <1>. USE DEF GInv, IInv, BreakerTypeOK, LadderInv, GatewayTypeOK, GatewayPcs, BillInv, Charging
  <1>0. ASSUME UNCHANGED <<bpc, gpc>>
        PROVE  AllCall
    BY <1>0
  <1>1. ASSUME NEW w \in Workers, NEW k, NEW a, Finish(w, k, a)
        PROVE  AllCall
    BY <1>1 DEF Finish, Reconcile
  <1>2. ASSUME NEW w \in Workers, NEW d, Begin(w, d)
        PROVE  AllCall
    BY <1>2 DEF Begin, Reserve
  <1>3. ASSUME NEW w \in Workers, ~Charging(w),
               UNCHANGED bpc, \A x \in Workers \ {w} : gpc'[x] = gpc[x]
        PROVE  AllCall
    BY <1>3
  <1>4. ASSUME NEW w \in Workers, Command(w), UNCHANGED gpc
        PROVE  AllCall
    BY <1>4 DEF Command, Charge, Undo, Settle, AfterUndo
  <1>5. ASSUME NEW w \in Workers, RedisFails(w) \/ Crash(w), UNCHANGED gpc
        PROVE  AllCall
    BY <1>5 DEF RedisFails, Crash
  <1>6. ASSUME NEW w \in Workers, Return(w)
        PROVE  AllCall
    BY <1>6 DEF Return, Leave
  <1>7. ASSUME NEW w \in Workers, NEW p \in Prompts, NEW d \in Days, Request(w, p, d)
        PROVE  AllCall
    BY <1>2, <1>3, <1>7 DEF Request, breakerVars, counterVars
  <1>8. ASSUME NEW w \in Workers, NEW d \in Days, Lookup(w, d)
        PROVE  AllCall
    BY <1>2, <1>3, <1>8 DEF Lookup, breakerVars, counterVars
  <1>9. ASSUME NEW w \in Workers, LookupRaises(w)
        PROVE  AllCall
    BY <1>3, <1>9 DEF LookupRaises, counterVars
  <1>10. ASSUME NEW w \in Workers, NEW t, NEW c, ProviderAnswers(w, t, c)
         PROVE  AllCall
    BY <1>3, <1>10 DEF ProviderAnswers, Serving, breakerVars, counterVars
  <1>11. ASSUME NEW w \in Workers, Put(w)
         PROVE  AllCall
    BY <1>3, <1>11 DEF Put, breakerVars, counterVars
  <1>12. ASSUME NEW w \in Workers, Insert(w)
         PROVE  AllCall
    BY <1>1, <1>3, <1>12
       DEF Insert, Judge, Dispatch, Accept, Reject, Raise, breakerVars, counterVars
  <1>13. ASSUME NEW w \in Workers, NEW trigger, ProviderFails(w, trigger)
         PROVE  AllCall
    BY <1>0, <1>1, <1>13 DEF ProviderFails, Raise, breakerVars, counterVars
  <1>14. ASSUME NEW w \in Workers, Exhausted(w) \/ Store(w) \/ AwaitRaises(w)
         PROVE  AllCall
    BY <1>1, <1>14 DEF Exhausted, Store, AwaitRaises, Raise
  <1>15. ASSUME (\E w \in Workers : Skip(w)) \/ (\E p \in Prompts : Expire(p)) \/ UNCHANGED vars
         PROVE  AllCall
    BY <1>0, <1>15 DEF Skip, Expire, vars, gatewayVars, breakerVars, counterVars
  <1>. QED
    BY <1>4, <1>5, <1>6, <1>7, <1>8, <1>9, <1>10, <1>11, <1>12, <1>13, <1>14, <1>15
       DEF Next, Complete, Break, gatewayVars

LEMMA SameOwed ==
    ASSUME NEW w \in Workers, NEW c \in Counters,
           gpc'[w] = gpc[w], bpc'[w] = bpc[w], day'[w] = day[w], price'[w] = price[w],
           cost'[w] = cost[w]
    PROVE  Owes(w, c)' = Owes(w, c)
  BY DEF Owes, Untold, Due, Settling

LEMMA EveryStepBills ==
    ASSUME GInv, [Next]_vars, NEW c \in Counters
    PROVE  \/ \E w \in Workers : Billing(c, w)
           \/ /\ \A w \in Workers : Owes(w, c)' = Owes(w, c)
              /\ UNCHANGED <<spent, billed>>
  <1>. DEFINE Bills == \E w \in Workers : Billing(c, w)
  <1>. USE DEF Billing
  <1>0. /\ BreakerTypeOK /\ Shape /\ Priced
        /\ gpc \in [Workers -> GatewayPcs]
        /\ billed \in [Counters -> Nat]
        /\ \A w \in Workers : Charging(w) => gpc[w] = "call"
    BY DEF GInv, IInv, LadderInv, GatewayTypeOK, BillInv
  <1>1. /\ Estimate \in Nat \ {0} /\ Ceiling \in Nat /\ Month \notin Days
        /\ \A w \in Workers : Owes(w, c) \in Nat /\ Due(w) \in Nat
    BY <1>0, BreakerAssumption, OwesTyped DEF Owing
  \* What is owed does not grow and nothing is told or billed.
  <1>2. ASSUME NEW w \in Workers, UNCHANGED <<spent, billed>>,
               \A x \in Workers \ {w} : Owes(x, c)' = Owes(x, c),
               Owes(w, c)' \in {0, Owes(w, c)}
        PROVE  Bills
    <2>1. spent[c] \in Nat /\ billed[c] \in Nat
      BY <1>0 DEF BreakerTypeOK
    <2>. QED  BY <1>1, <1>2, <2>1
  <1>3. ASSUME NEW w \in Workers, NEW k, NEW a \in {0, price[w]}, Finish(w, k, a),
               gpc[w] \in {"insert", "store"} \/ a = 0, UNCHANGED <<price, billed>>
        PROVE  Bills
    <2>1. /\ bpc[w] = "granted" /\ stands[w] = {day[w], Month} /\ day[w] \in Counters
          /\ a \in 0 .. Ceiling /\ a <= Due(w) /\ price[w] \in 0 .. Ceiling
          /\ spent \in [Counters -> Nat]
      BY <1>0, <1>1, <1>3 DEF Finish, Reconcile, Shape, BreakerTypeOK, Priced, Due
    <2>2. \A x \in Workers \ {w} : Owes(x, c)' = Owes(x, c)
      BY <1>0, <1>3, SameOwed DEF Finish, Reconcile, BreakerTypeOK
    <2>3. CASE a = Estimate
      <3>1. Owes(w, c)' = 0
        BY <1>0, <1>3, <2>3 DEF Finish, Reconcile, Owes, Due, Settling, BreakerTypeOK
      <3>2. spent'[c] = IF c \in {day[w], Month} THEN spent[c] + a ELSE spent[c]
        BY <1>3, <2>1, <2>3 DEF Finish, Reconcile
      <3>3. Owes(w, c) = IF c \in {day[w], Month} THEN Due(w) ELSE 0
        BY <2>1 DEF Owes, Untold
      <3>4. Due(w) \in Nat
        BY <1>1
      <3>. QED  BY <1>0, <1>3, <2>1, <2>2, <3>1, <3>2, <3>3, <3>4
    <2>4. CASE a # Estimate
      <3>1. spent' = spent
        BY <1>3, <2>4 DEF Finish, Reconcile
      <3>2. Owes(w, c)' = IF c \in {day[w], Month} THEN a ELSE 0
        BY <1>0, <1>3, <2>4 DEF Finish, Reconcile, Owes, Untold, Due, Settling, BreakerTypeOK
      <3>3. Owes(w, c) = IF c \in {day[w], Month} THEN Due(w) ELSE 0
        BY <2>1 DEF Owes, Untold
      <3>4. Due(w) \in Nat /\ spent[c] \in Nat /\ billed[c] \in Nat
        BY <1>0, <1>1, <2>1
      <3>. QED  BY <1>3, <2>1, <2>2, <3>1, <3>2, <3>3, <3>4
    <2>. QED  BY <2>3, <2>4
  <1>4. ASSUME NEW w \in Workers, NEW d, Begin(w, d), UNCHANGED <<price, billed>>
        PROVE  Bills
    <2>1. \A x \in Workers \ {w} : Owes(x, c)' = Owes(x, c)
      BY <1>0, <1>4, SameOwed DEF Begin, Reserve, BreakerTypeOK
    <2>2. Owes(w, c)' = 0
      BY <1>0, <1>4 DEF Begin, Reserve, Owes, Due, Settling, BreakerTypeOK
    <2>. QED  BY <1>2, <1>4, <2>1, <2>2 DEF Begin, Reserve, NoEffect
  <1>5. ASSUME NEW w \in Workers, UNCHANGED <<breakerVars, price, billed>>,
               \A x \in Workers \ {w} : gpc'[x] = gpc[x],
               gpc'[w] \in {"put", "insert", "store"} => gpc[w] \in {"put", "insert", "store"}
        PROVE  Bills
    <2>1. \A x \in Workers \ {w} : Owes(x, c)' = Owes(x, c)
      BY <1>5, SameOwed DEF breakerVars, counterVars
    <2>2. Owes(w, c)' \in {0, Owes(w, c)}
      BY <1>5 DEF breakerVars, counterVars, Owes, Untold, Due, Settling
    <2>. QED  BY <1>2, <1>5, <2>1, <2>2 DEF breakerVars, counterVars
  <1>6. ASSUME NEW w \in Workers, Command(w), UNCHANGED gatewayVars
        PROVE  Bills
    <2>1. \A x \in Workers \ {w} : Owes(x, c)' = Owes(x, c)
      BY <1>0, <1>6, SameOwed DEF Command, Charge, Undo, Settle, BreakerTypeOK, gatewayVars
    <2>2. CASE Charge(w) \/ Undo(w)
      <3>1. spent' = spent
        BY <1>0, <2>2 DEF Charge, Undo, Charging, Settling, Effect, BreakerTypeOK
      <3>2. Owes(w, c)' = 0
        BY <1>0, <1>6, <2>2
           DEF Charge, Undo, AfterUndo, Charging, Owes, Due, Settling, BreakerTypeOK, gatewayVars
      <3>. QED  BY <1>2, <1>6, <2>1, <3>1, <3>2 DEF gatewayVars
    <2>3. CASE Settle(w)
      <3>1. spent'[c] = IF c = Target(w) /\ Settling(w) THEN spent[c] + cost[w] ELSE spent[c]
        BY <1>0, <2>3 DEF Settle, Effect, BreakerTypeOK
      <3>2. Settling(w) => Target(w) \in Untold(w) /\ Due(w) = cost[w]
        BY DEF Settling, Target, Untold, Due
      <3>3. cost[w] \in Nat /\ spent[c] \in Nat /\ billed[c] \in Nat
        BY <1>0, BreakerAssumption DEF BreakerTypeOK
      <3>4. Owes(w, c)' = IF c \in Untold(w) /\ c # Target(w) THEN cost[w] ELSE 0
        BY <1>0, <1>1, <1>6, <2>3
           DEF Settle, Settling, Owes, Untold, Target, Due, BreakerTypeOK, Shape, gatewayVars
      <3>. QED  BY <1>6, <2>1, <2>3, <3>1, <3>2, <3>3, <3>4 DEF Owes, Settle, gatewayVars
    <2>. QED  BY <1>6, <2>2, <2>3 DEF Command
  <1>7. ASSUME NEW w \in Workers, RedisFails(w) \/ Crash(w), UNCHANGED gatewayVars
        PROVE  Bills
    <2>1. \A x \in Workers \ {w} : Owes(x, c)' = Owes(x, c)
      BY <1>0, <1>7, SameOwed DEF RedisFails, Crash, BreakerTypeOK, gatewayVars
    <2>2. Owes(w, c)' = 0
      BY <1>0, <1>7 DEF RedisFails, Crash, Owes, Due, Settling, BreakerTypeOK
    <2>3. CASE spent' = spent
      BY <1>2, <1>7, <2>1, <2>2, <2>3 DEF gatewayVars
    <2>4. CASE Effect(w)
      <3>1. spent'[c] = IF c = Target(w) /\ Settling(w) THEN spent[c] + cost[w] ELSE spent[c]
        BY <1>0, <2>4 DEF Settle, Effect, BreakerTypeOK
      <3>2. Settling(w) => Target(w) \in Untold(w) /\ Due(w) = cost[w]
        BY DEF Settling, Target, Untold, Due
      <3>3. cost[w] \in Nat /\ spent[c] \in Nat /\ billed[c] \in Nat
        BY <1>0, BreakerAssumption DEF BreakerTypeOK
      <3>. QED  BY <1>1, <1>7, <2>1, <2>2, <3>1, <3>2, <3>3 DEF Owes, gatewayVars
    <2>. QED  BY <1>7, <2>3, <2>4 DEF RedisFails, Crash, NoEffect
  <1>8. ASSUME NEW w \in Workers, Return(w)
        PROVE  Bills
    <2>1. \A x \in Workers \ {w} : Owes(x, c)' = Owes(x, c)
      BY <1>0, <1>8, SameOwed DEF Return, Leave, BreakerTypeOK, Priced
    <2>2. Owes(w, c)' = 0
      BY <1>0, <1>8 DEF Return, Leave, Owes, Due, Settling, BreakerTypeOK
    <2>. QED  BY <1>2, <1>8, <2>1, <2>2 DEF Return, Leave
  <1>9. ASSUME NEW w \in Workers, NEW t, NEW x \in Costs, ProviderAnswers(w, t, x)
        PROVE  Bills
    <2>1. \A y \in Workers \ {w} : Owes(y, c)' = Owes(y, c)
      BY <1>0, <1>9, SameOwed DEF ProviderAnswers, breakerVars, counterVars, Priced
    <2>2. bpc[w] = "granted" /\ gpc[w] = "call" /\ UNCHANGED breakerVars
      BY <1>9 DEF ProviderAnswers, Serving
    <2>3. Owes(w, c) = 0
      BY <2>2 DEF Owes, Due, Settling
    <2>4. Owes(w, c)' = IF c \in {day[w], Month} THEN x ELSE 0
      BY <1>0, <1>9, <2>2 DEF ProviderAnswers, Owes, Untold, Due, breakerVars, counterVars, Priced
    <2>5. billed'[c] = IF c \in {day[w], Month} THEN billed[c] + x ELSE billed[c]
      BY <1>9 DEF ProviderAnswers
    <2>6. spent'[c] = spent[c] /\ spent[c] \in Nat /\ billed[c] \in Nat /\ x \in Nat
      BY <1>0, <1>1, <2>2, GatewayAssumption DEF breakerVars, counterVars, BreakerTypeOK
    <2>. QED  BY <2>1, <2>3, <2>4, <2>5, <2>6
  <1>10. ASSUME NEW w \in Workers, NEW p, NEW d, Request(w, p, d)
         PROVE  Bills
    BY <1>0, <1>4, <1>5, <1>10 DEF Request
  <1>11. ASSUME NEW w \in Workers, NEW d, Lookup(w, d)
         PROVE  Bills
    BY <1>0, <1>4, <1>5, <1>11 DEF Lookup
  <1>12. ASSUME NEW w \in Workers, Put(w) \/ Skip(w)
         PROVE  Bills
    BY <1>0, <1>5, <1>12 DEF Put, Skip
  <1>13. ASSUME NEW w \in Workers, Insert(w)
         PROVE  Bills
    BY <1>0, <1>3, <1>5, <1>13 DEF Insert, Judge, Dispatch, Accept, Reject, Raise
  <1>14. ASSUME NEW w \in Workers, Exhausted(w) \/ Store(w) \/ AwaitRaises(w)
         PROVE  Bills
    BY <1>3, <1>14 DEF Exhausted, Store, AwaitRaises, Raise
  <1>15. ASSUME NEW w \in Workers, NEW trigger, ProviderFails(w, trigger)
         PROVE  Bills
    BY <1>0, <1>3, <1>5, <1>15 DEF ProviderFails, Raise
  <1>16. ASSUME NEW w \in Workers, LookupRaises(w)
         PROVE  Bills
    <2>1. \A x \in Workers \ {w} : Owes(x, c)' = Owes(x, c)
      BY <1>0, <1>16, SameOwed DEF LookupRaises, counterVars
    <2>2. Owes(w, c)' \in {0, Owes(w, c)}
      BY <1>0, <1>16 DEF LookupRaises, counterVars, Owes, Untold, Due, Settling
    <2>. QED  BY <1>2, <1>16, <2>1, <2>2 DEF LookupRaises, counterVars
  <1>17. ASSUME (\E p \in Prompts : Expire(p)) \/ UNCHANGED vars
         PROVE  (\A w \in Workers : Owes(w, c)' = Owes(w, c)) /\ UNCHANGED <<spent, billed>>
    BY <1>17, SameOwed DEF Expire, vars, gatewayVars, breakerVars, counterVars
  <1>. QED
    BY <1>6, <1>7, <1>8, <1>9, <1>10, <1>11, <1>12, <1>13, <1>14, <1>15, <1>16, <1>17
       DEF Next, Complete, Break

LEMMA BillInit == Init => BillInv
  <1>. SUFFICES ASSUME Init PROVE BillInv
    OBVIOUS
  <1>1. billed \in [Counters -> Nat] /\ \A w \in Workers : ~Charging(w)
    BY DEF Init, BreakerInit, Charging
  <1>2. ASSUME NEW c \in Counters
        PROVE  spent[c] + Cardinality(Tokens(Owing(c))) <= billed[c]
    <2>1. \A w \in Workers : Owing(c)[w] = 0
      BY DEF Init, BreakerInit, Owing, Owes, Due, Settling
    <2>2. Tokens(Owing(c)) = {}
      BY <2>1 DEF Tokens
    <2>3. Cardinality(Tokens(Owing(c))) = 0
      BY <2>2, FS_EmptySet
    <2>. QED  BY <2>3 DEF Init, BreakerInit
  <1>. QED  BY <1>1, <1>2 DEF BillInv

LEMMA BillNext ==
    ASSUME GInv, [Next]_vars, IInv', Priced'
    PROVE  BillInv'
  <1>1. BillInv /\ BreakerTypeOK /\ BreakerTypeOK' /\ Priced
    BY DEF GInv, IInv
  <1>2. billed' \in [Counters -> Nat]
    BY <1>1, BilledIsTyped
  <1>3. ASSUME NEW c \in Counters
        PROVE  spent'[c] + Cardinality(Tokens(Owing(c))') <= billed'[c]
    <2>. DEFINE f == Owing(c)
                g == Owing(c)'
    <2>1. f \in [Workers -> 0 .. Ceiling] /\ g \in [Workers -> 0 .. Ceiling]
      <3>1. Owing(c)' \in [Workers -> 0 .. Ceiling]
        BY <1>1, Priced', BreakerAssumption DEF BreakerTypeOK, Priced, Owing, Owes, Due
      <3>. QED  BY <1>1, <3>1, OwesTyped
    <2>2. \A w \in Workers : f[w] = Owes(w, c) /\ g[w] = Owes(w, c)'
      BY DEF Owing
    <2>3. spent[c] + Cardinality(Tokens(f)) <= billed[c]
      BY <1>1 DEF BillInv
    <2>4. /\ spent[c] \in Nat /\ spent'[c] \in Nat
          /\ billed[c] \in Nat /\ billed'[c] \in Nat
      BY <1>1, <1>2 DEF BreakerTypeOK, BillInv
    <2>5. Tokens(Owing(c))' = Tokens(g)
      BY DEF Tokens
    <2>. HIDE DEF f, g
    <2>6. ASSUME NEW w \in Workers, Billing(c, w)
          PROVE  spent'[c] + Cardinality(Tokens(g)) <= billed'[c]
      <3>1. \A x \in Workers \ {w} : f[x] = g[x]
        BY <2>2, <2>6 DEF Billing
      <3>2. /\ Cardinality(Tokens(f)) \in Nat
            /\ Cardinality(Tokens(g)) = Cardinality(Tokens(f)) - f[w] + g[w]
        BY <2>1, <3>1, TokensChange
      <3>3. f[w] \in Nat /\ g[w] \in Nat
        BY <2>1, BreakerAssumption
      <3>4. (spent'[c] - spent[c]) + (g[w] - f[w]) <= billed'[c] - billed[c]
        BY <2>2, <2>6 DEF Billing
      <3>. QED  BY <2>3, <2>4, <3>2, <3>3, <3>4
    <2>7. ASSUME \A w \in Workers : Owes(w, c)' = Owes(w, c), UNCHANGED <<spent, billed>>
          PROVE  spent'[c] + Cardinality(Tokens(g)) <= billed'[c]
      <3>1. f = g
        BY <2>1, <2>2, <2>7
      <3>. QED  BY <2>3, <2>7, <3>1
    <2>. QED  BY <2>5, <2>6, <2>7, EveryStepBills
  <1>. QED  BY <1>2, <1>3, ChargingCalls DEF BillInv

LEMMA GInvInit == Init => GInv
  BY InitIInv, PricedInit, LadderInit, BillInit DEF Init, GInv

LEMMA GInvNext == GInv /\ [Next]_vars => GInv'
  BY EveryStepOfTheBreaker, NextIInv, PricedNext, LadderNext, BillNext DEF GInv

\* No counter is told of more than the providers billed on it, whatever fails, however many
\* calls of complete() run and in whichever order their commands reach Redis.
THEOREM NeverOvercharged == Spec => []NotOvercharged
  <1>1. GInv => NotOvercharged
    <2>. SUFFICES ASSUME GInv, NEW c \in Counters PROVE spent[c] <= billed[c]
      BY DEF NotOvercharged
    <2>1. Owing(c) \in [Workers -> 0 .. Ceiling]
      BY OwesTyped DEF GInv, IInv
    <2>2. /\ spent[c] \in Nat /\ billed[c] \in Nat
          /\ spent[c] + Cardinality(Tokens(Owing(c))) <= billed[c]
      BY DEF GInv, IInv, BreakerTypeOK, BillInv
    <2>3. Cardinality(Tokens(Owing(c))) \in Nat
      <3>1. IsFiniteSet(1 .. Ceiling) /\ IsFiniteSet(Workers)
        BY FS_Interval, BreakerAssumption
      <3>2. IsFiniteSet(Workers \X (1 .. Ceiling))
        BY <3>1, FS_Product
      <3>3. Tokens(Owing(c)) \subseteq Workers \X (1 .. Ceiling)
        BY DEF Tokens
      <3>. QED  BY <3>2, <3>3, FS_Subset, FS_CardinalityType
    <2>. QED  BY <2>2, <2>3
  <1>. QED  BY <1>1, GInvInit, GInvNext, PTL DEF Spec
=============================================================================
