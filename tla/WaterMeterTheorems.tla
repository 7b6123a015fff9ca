------------------------ MODULE WaterMeterTheorems ------------------------
(***************************************************************************)
(* The water meter for every timer width, pulse count and period, however  *)
(* edges, ticks and the steps of the loop interleave: it never over-counts *)
(* (Credit), misses little (Ledger), sends one packet a wake (OutOfStep)   *)
(* and keeps the sensor powered while water runs (Waited).                 *)
(*                                                                         *)
(* NoOverCount is not inductive: at Reload the total grows and edges does  *)
(* not.  The edges a decilitre stands for have to be accounted for from    *)
(* the moment timer 1 overflows: Credit puts a value on the flag, on the   *)
(* program counter between the acknowledgement and the reload, and on the  *)
(* progress of timer 1 since its preload.                                  *)
(***************************************************************************)
EXTENDS WaterMeter, TLAPS

Progress(t) == IF t >= HALL_PULSES_CNT THEN t - HALL_PULSES_CNT ELSE 0
Worth(owed) == IF owed THEN PulsesPerDecilitre ELSE 0

Credit ==
  PulsesPerDecilitre * millilitres
    + 100 * (Progress(tmr1) + Worth(TMR1IF) + Worth(pc = "reload")) <= 100 * edges

Counters ==
  /\ tmr1 \in 0..(TimerSpan - 1)
  /\ TMR1IF \in BOOLEAN
  /\ millilitres \in Nat
  /\ edges \in Nat

IInv == Counters /\ Credit

LEMMA Widths ==
  /\ TimerSpan \in Nat /\ PulsesPerDecilitre \in Nat
  /\ 0 < PulsesPerDecilitre /\ PulsesPerDecilitre < TimerSpan
BY WaterAssumption

LEMMA Worths ==
  /\ \A t \in 0..(TimerSpan - 1) : Progress(t) \in Nat /\ Progress(t) < PulsesPerDecilitre
  /\ \A owed \in BOOLEAN : Worth(owed) \in Nat
  /\ Worth(TRUE) = PulsesPerDecilitre /\ Worth(FALSE) = 0
  /\ Progress(HALL_PULSES_CNT) = 0 /\ Progress(0) = 0
BY Widths DEF Progress, Worth, HALL_PULSES_CNT

(***************************************************************************)
(* The arithmetic of the budget: m is what the total stands for, c and d   *)
(* the worth before and after.                                             *)
(***************************************************************************)
LEMMA Budget ==
  ASSUME NEW m \in Int, NEW c \in Int, NEW d \in Int, NEW e \in Int,
         m + 100 * c <= 100 * e
  PROVE  /\ d <= c + 1 => m + 100 * d <= 100 * (e + 1)
         /\ \A p \in Int : d + p <= c => (m + 100 * p) + 100 * d <= 100 * e
OBVIOUS

LEMMA Product ==
  ASSUME Counters
  PROVE  /\ PulsesPerDecilitre * millilitres \in Int
         /\ PulsesPerDecilitre * (millilitres + 100)
              = PulsesPerDecilitre * millilitres + 100 * PulsesPerDecilitre
BY Widths DEF Counters

(***************************************************************************)
(* What timer 1 may do at an edge: it advances by one, or wraps and raises *)
(* its flag; the worth grows by one edge at most.                          *)
(***************************************************************************)
LEMMA EdgeWorth ==
  ASSUME NEW t \in 0..(TimerSpan - 1), NEW f \in BOOLEAN
  PROVE  LET t1 == (t + 1) % TimerSpan
             f1 == f \/ t + 1 = TimerSpan
         IN  /\ t1 \in 0..(TimerSpan - 1) /\ f1 \in BOOLEAN
             /\ Progress(t1) + Worth(f1) <= Progress(t) + Worth(f) + 1
<1>1. CASE t + 1 = TimerSpan
  <2>1. (t + 1) % TimerSpan = 0 /\ (f \/ t + 1 = TimerSpan) = TRUE
    <3>1. (t + 1) % TimerSpan = 0
      BY <1>1, Widths
    <3> QED BY <3>1, <1>1
  <2>2. Progress(t) = PulsesPerDecilitre - 1
    BY <1>1, Widths DEF Progress, HALL_PULSES_CNT
  <2>3. Progress(0) + Worth(TRUE) <= Progress(t) + Worth(f) + 1
    <3>1. Worth(f) \in Nat
      BY Worths
    <3>2. Progress(0) = 0 /\ Worth(TRUE) = PulsesPerDecilitre
      BY Worths
    <3> DEFINE before == Progress(t)
               owed   == Worth(f)
               zero   == Progress(0)
               due    == Worth(TRUE)
    <3>3. owed \in Nat /\ before = PulsesPerDecilitre - 1 /\ zero = 0
            /\ due = PulsesPerDecilitre
      BY <2>2, <3>1, <3>2
    <3> HIDE DEF before, owed, zero, due
    <3>4. zero + due <= before + owed + 1
      BY <3>3, Widths
    <3> QED BY <3>4 DEF before, owed, zero, due
  <2>4. 0 \in 0..(TimerSpan - 1)
    BY Widths
  <2> QED BY <2>1, <2>3, <2>4
<1>2. CASE t + 1 # TimerSpan
  <2>1. (t + 1) % TimerSpan = t + 1 /\ t + 1 \in 0..(TimerSpan - 1)
    BY <1>2, Widths
  <2>2. (f \/ t + 1 = TimerSpan) = f
    BY <1>2
  <2>3. Progress(t + 1) <= Progress(t) + 1
    BY <2>1, Widths DEF Progress, HALL_PULSES_CNT
  <2>4. Progress(t + 1) + Worth(f) <= Progress(t) + Worth(f) + 1
    BY <2>1, <2>3, Worths
  <2> QED BY <2>1, <2>2, <2>4
<1> QED BY <1>1, <1>2

LEMMA EdgeCredit == ASSUME IInv, Edge PROVE IInv'
<1> DEFINE m == PulsesPerDecilitre * millilitres
           r == Worth(pc = "reload")
           c == Progress(tmr1) + Worth(TMR1IF) + r
           d == Progress(tmr1') + Worth(TMR1IF') + r
<1>1. tmr1' = (tmr1 + 1) % TimerSpan /\ TMR1IF' = (TMR1IF \/ tmr1 + 1 = TimerSpan)
        /\ edges' = edges + 1 /\ millilitres' = millilitres /\ pc' = pc
  BY DEF Edge, loopvars
<1>2. tmr1 \in 0..(TimerSpan - 1) /\ TMR1IF \in BOOLEAN /\ edges \in Nat /\ millilitres \in Nat
  BY DEF IInv, Counters
<1>3. /\ tmr1' \in 0..(TimerSpan - 1) /\ TMR1IF' \in BOOLEAN
      /\ Progress(tmr1') + Worth(TMR1IF') <= Progress(tmr1) + Worth(TMR1IF) + 1
  BY <1>1, <1>2, EdgeWorth
<1>4. m \in Int /\ r \in Nat /\ Progress(tmr1) \in Nat /\ Worth(TMR1IF) \in Nat
        /\ Progress(tmr1') \in Nat /\ Worth(TMR1IF') \in Nat
  BY <1>2, <1>3, Worths, Product DEF IInv
<1>5. c \in Int /\ d \in Int /\ d <= c + 1
  <2> HIDE DEF r
  <2> QED BY <1>3, <1>4
<1>6. m + 100 * c <= 100 * edges
  BY DEF IInv, Credit
<1>7. m + 100 * d <= 100 * (edges + 1)
  <2> HIDE DEF m, c, d
  <2> QED BY <1>2, <1>4, <1>5, <1>6, Budget
<1>8. Credit'
  BY <1>1, <1>7 DEF Credit
<1>9. Counters'
  BY <1>1, <1>2, <1>3 DEF Counters
<1> QED BY <1>8, <1>9 DEF IInv

(***************************************************************************)
(* Acknowledging the flag moves its worth to the program counter; the      *)
(* reload gives up the progress and turns the worth into a decilitre.      *)
(***************************************************************************)
LEMMA OverflowCredit == ASSUME IInv, Overflow PROVE IInv'
<1>1. UNCHANGED <<tmr1, millilitres, edges>> /\ TMR1IF' = FALSE /\ pc = "count"
        /\ pc' = IF TMR1IF THEN "reload" ELSE "timer"
  BY DEF Overflow, loopvars
<1>2. (pc = "reload") = FALSE /\ (pc' = "reload") = TMR1IF
  BY <1>1 DEF IInv, Counters
<1>3. Worth(TMR1IF') + Worth(pc' = "reload") = Worth(TMR1IF) + Worth(pc = "reload")
  <2>1. Worth(TMR1IF') = 0 /\ Worth(pc = "reload") = 0
    BY <1>1, <1>2, Worths
  <2>2. Worth(pc' = "reload") = Worth(TMR1IF) /\ Worth(TMR1IF) \in Nat
    BY <1>2, Worths DEF IInv, Counters
  <2> QED BY <2>1, <2>2
<1>4. /\ Progress(tmr1) \in Nat
      /\ Worth(TMR1IF') \in Nat /\ Worth(pc' = "reload") \in Nat
      /\ Worth(TMR1IF) \in Nat /\ Worth(pc = "reload") \in Nat
  BY <1>1, <1>2, Worths DEF IInv, Counters
<1>5. Progress(tmr1') + Worth(TMR1IF') + Worth(pc' = "reload")
        = Progress(tmr1) + Worth(TMR1IF) + Worth(pc = "reload")
  <2>1. Progress(tmr1') = Progress(tmr1)
    BY <1>1
  <2> QED BY <1>3, <1>4, <2>1
<1>6. Credit'
  BY <1>1, <1>5 DEF IInv, Credit
<1> QED BY <1>1, <1>6 DEF IInv, Counters

LEMMA ReloadCredit == ASSUME IInv, Reload PROVE IInv'
<1> DEFINE m == PulsesPerDecilitre * millilitres
           c == Progress(tmr1) + Worth(TMR1IF) + Worth(pc = "reload")
           d == Progress(tmr1') + Worth(TMR1IF') + Worth(pc' = "reload")
<1>1. tmr1' = HALL_PULSES_CNT /\ millilitres' = millilitres + 100
        /\ edges' = edges /\ TMR1IF' = TMR1IF /\ pc = "reload" /\ pc' = "timer"
  BY DEF Reload
<1>2. tmr1 \in 0..(TimerSpan - 1) /\ TMR1IF \in BOOLEAN /\ edges \in Nat /\ millilitres \in Nat
  BY DEF IInv, Counters
<1>3. /\ Progress(tmr1) \in Nat /\ Worth(TMR1IF) \in Nat /\ Progress(tmr1') = 0
      /\ Worth(pc = "reload") = PulsesPerDecilitre /\ Worth(pc' = "reload") = 0
      /\ Worth(TMR1IF') = Worth(TMR1IF)
  BY <1>1, <1>2, Worths DEF Worth
<1>4. m \in Int /\ PulsesPerDecilitre * millilitres' = m + 100 * PulsesPerDecilitre
  BY <1>1, Product DEF IInv
<1>5. c \in Int /\ d \in Int /\ d + PulsesPerDecilitre <= c
  BY <1>3, Widths
<1>6. m + 100 * c <= 100 * edges
  BY DEF IInv, Credit
<1>7. (m + 100 * PulsesPerDecilitre) + 100 * d <= 100 * edges
  <2> HIDE DEF m, c, d
  <2> QED BY <1>2, <1>4, <1>5, <1>6, Budget, Widths
<1>8. Credit'
  BY <1>1, <1>4, <1>7 DEF Credit
<1>9. Counters'
  BY <1>1, <1>2, Widths DEF Counters, HALL_PULSES_CNT
<1> QED BY <1>8, <1>9 DEF IInv

(***************************************************************************)
(* Every other step leaves timer 1, the flag, the total and the history    *)
(* alone, and none of them enters or leaves the reload.                    *)
(***************************************************************************)
LEMMA OtherCredit ==
  ASSUME IInv, UNCHANGED <<tmr1, TMR1IF, millilitres, edges>>,
         (pc' = "reload") = (pc = "reload")
  PROVE  IInv'
BY DEF IInv, Counters, Credit

LEMMA CreditStep == IInv /\ [Next]_vars => IInv'
<1> SUFFICES ASSUME IInv, [Next]_vars PROVE IInv'
  OBVIOUS
<1> USE DEF loopvars
<1>1. CASE Edge        BY <1>1, EdgeCredit
<1>2. CASE Tick        BY <1>2, OtherCredit DEF Tick
<1>3. CASE Wake        BY <1>3, OtherCredit DEF Wake
<1>4. CASE HallMoved   BY <1>4, OtherCredit DEF HallMoved
<1>5. CASE HallLatch   BY <1>5, OtherCredit DEF HallLatch
<1>6. CASE HallStill   BY <1>6, OtherCredit DEF HallStill
<1>7. CASE HallOff     BY <1>7, OtherCredit DEF HallOff
<1>8. CASE Overflow    BY <1>8, OverflowCredit
<1>9. CASE Reload      BY <1>9, ReloadCredit
<1>10. CASE NoTick     BY <1>10, OtherCredit DEF NoTick
<1>11. CASE Count      BY <1>11, OtherCredit DEF Count, Due
<1>12. CASE SendUsage  BY <1>12, OtherCredit DEF SendUsage
<1>13. CASE SendBattery BY <1>13, OtherCredit DEF SendBattery
<1>14. CASE UNCHANGED vars BY <1>14, OtherCredit DEF vars
<1> QED
  BY <1>1, <1>2, <1>3, <1>4, <1>5, <1>6, <1>7, <1>8, <1>9, <1>10, <1>11, <1>12,
     <1>13, <1>14 DEF Next, Loop

LEMMA CreditInit == Init => IInv
<1> SUFFICES ASSUME Init PROVE IInv
  OBVIOUS
<1> USE DEF Init, HALL_PULSES_CNT
<1>1. Counters
  <2>1. HALL_PULSES_CNT \in 0..(TimerSpan - 1)
    BY Widths
  <2> HIDE DEF HALL_PULSES_CNT
  <2> QED BY <2>1 DEF Counters
<1>2. Progress(tmr1) = 0 /\ Worth(TMR1IF) = 0 /\ Worth(pc = "reload") = 0
  BY Worths DEF Worth
<1>3. PulsesPerDecilitre * millilitres = 0
  BY Widths
<1>4. Credit
  BY <1>2, <1>3 DEF Credit
<1> QED BY <1>1, <1>4 DEF IInv

(***************************************************************************)
(* The total never exceeds what the edges of the hall sensor stand for.    *)
(***************************************************************************)
THEOREM MeterNeverOverCounts == Spec => []NoOverCount
<1>1. IInv => NoOverCount
  <2> SUFFICES ASSUME IInv PROVE NoOverCount
    OBVIOUS
  <2>1. tmr1 \in 0..(TimerSpan - 1) /\ TMR1IF \in BOOLEAN /\ edges \in Nat
    BY DEF IInv, Counters
  <2>2. Progress(tmr1) \in Nat /\ Worth(TMR1IF) \in Nat /\ Worth(pc = "reload") \in Nat
    BY <2>1, Worths
  <2>3. PulsesPerDecilitre * millilitres \in Int
    BY Product DEF IInv
  <2> QED BY <2>1, <2>2, <2>3 DEF IInv, Credit, NoOverCount
<1> QED BY CreditInit, CreditStep, <1>1, PTL DEF Spec

-----------------------------------------------------------------------------
(***************************************************************************)
(* Type correctness.  A counter at zero is seen only on the way to the     *)
(* packet it sends; otherwise the next tick would take it below zero.      *)
(***************************************************************************)
Running ==
  /\ send_timer = 0 => pc = "usage"
  /\ send_timer_battery = 0 => pc \in {"usage", "battery"}

LEMMA Periods ==
  /\ UsagePeriod \in Nat \ {0} /\ HallPeriod \in Nat \ {0}
  /\ SEND_DELAY_BATTERY * TIMER_HZ \in Nat \ {0}
  /\ SEND_DELAY_BATTERY <= SEND_DELAY_BATTERY * TIMER_HZ
  /\ SEND_DELAY_BATTERY \in Nat \ {0}
<1>1. \A m, n \in Nat \ {0} : m * n \in Nat \ {0} /\ m <= m * n
  OBVIOUS
<1> QED BY <1>1, WaterAssumption DEF UsagePeriod, HallPeriod

LEMMA LowType == \A t \in Nat : Low(t) \in 0..(ByteSpan - 1)
BY WaterAssumption DEF Low

LEMMA PreloadType == HALL_PULSES_CNT \in Nat /\ HALL_PULSES_CNT \in 0..(TimerSpan - 1)
BY Widths DEF HALL_PULSES_CNT

LEMMA TypeInit == Init => TypeOK /\ Running
<1> SUFFICES ASSUME Init PROVE TypeOK /\ Running
  OBVIOUS
<1>1. hall_last \in 0..(ByteSpan - 1)
  BY LowType, PreloadType DEF Init
<1>2. send_timer \in 0..UsagePeriod /\ send_timer # 0
  BY Periods DEF Init
<1>3. /\ send_timer_battery \in 0..(SEND_DELAY_BATTERY * TIMER_HZ + 1)
      /\ send_timer_battery # 0
  BY Periods DEF Init
<1>4. hall_delay \in 0..HallPeriod /\ quiet \in 0..HallPeriod
  BY Periods DEF Init
<1> QED BY <1>1, <1>2, <1>3, <1>4, PreloadType DEF Init, TypeOK, Running

LEMMA TypeStep == TypeOK /\ Running /\ [Next]_vars => (TypeOK /\ Running)'
<1> SUFFICES ASSUME TypeOK, Running, [Next]_vars PROVE (TypeOK /\ Running)'
  OBVIOUS
<1> USE DEF TypeOK, Running, loopvars
<1>1. CASE Edge
  <2>1. tmr1' \in 0..(TimerSpan - 1)
    BY <1>1, EdgeWorth DEF Edge
  <2> QED BY <1>1, <2>1, Periods DEF Edge
<1>2. CASE Tick        BY <1>2, Periods DEF Tick
<1>3. CASE Wake        BY <1>3 DEF Wake
<1>4. CASE HallMoved   BY <1>4 DEF HallMoved
<1>5. CASE HallLatch
  <2>1. hall_last' \in 0..(ByteSpan - 1)
    BY <1>5, LowType DEF HallLatch
  <2> QED BY <1>5, <2>1, Periods DEF HallLatch
<1>6. CASE HallStill   BY <1>6 DEF HallStill
<1>7. CASE HallOff     BY <1>7 DEF HallOff
<1>8. CASE Overflow    BY <1>8 DEF Overflow
<1>9. CASE Reload      BY <1>9, PreloadType DEF Reload
<1>10. CASE NoTick     BY <1>10 DEF NoTick
<1>11. CASE Count
  <2>1. send_timer # 0 /\ send_timer_battery # 0
    BY <1>11 DEF Count
  <2>2. /\ send_timer' = send_timer - 1 /\ send_timer' \in 0..UsagePeriod
        /\ send_timer_battery' = send_timer_battery - 1
        /\ send_timer_battery' \in 0..(SEND_DELAY_BATTERY * TIMER_HZ + 1)
        /\ hall_delay' \in 0..HallPeriod
    BY <1>11, <2>1, Periods DEF Count
  <2>3. pc' = Due(send_timer', send_timer_battery')
    BY <1>11 DEF Count
  <2>4. Running' /\ pc' \in {"usage", "battery", "sleep"}
    BY <2>3 DEF Due
  <2> QED BY <1>11, <2>2, <2>4 DEF Count
<1>12. CASE SendUsage  BY <1>12, Periods DEF SendUsage
<1>13. CASE SendBattery BY <1>13, Periods DEF SendBattery
<1>14. CASE UNCHANGED vars BY <1>14 DEF vars
<1> QED
  BY <1>1, <1>2, <1>3, <1>4, <1>5, <1>6, <1>7, <1>8, <1>9, <1>10, <1>11, <1>12,
     <1>13, <1>14 DEF Next, Loop

(***************************************************************************)
(* Every variable keeps its type; the two unsigned counters never wrap.    *)
(***************************************************************************)
THEOREM MeterTypes == Spec => []TypeOK
BY TypeInit, TypeStep, PTL DEF Spec

-----------------------------------------------------------------------------
(***************************************************************************)
(* The two timers: their difference stays one off a multiple of half the   *)
(* usage period, as each reload adds such a multiple, so they are never at *)
(* zero together.                                                          *)
(***************************************************************************)
Half == CHOOSE half \in 2..UsagePeriod : HalfPeriods(half)

OutOfStep == \E k \in Int : send_timer_battery - send_timer = 1 + k * Half

AtZero ==
  /\ pc = "usage" => send_timer = 0
  /\ pc = "battery" => send_timer_battery = 0

StepInv == TypeOK /\ Running /\ AtZero /\ OutOfStep

LEMMA HalfIsHalf ==
  /\ Half \in Nat /\ Half >= 2 /\ UsagePeriod = 2 * Half
  /\ \E m \in Nat : SEND_DELAY_BATTERY = m * Half
<1>1. Half \in 2..UsagePeriod /\ HalfPeriods(Half)
  BY PeriodAssumption DEF Half
<1> QED BY <1>1, Periods DEF HalfPeriods

(***************************************************************************)
(* Multiples of a half period.                                             *)
(***************************************************************************)
LEMMA Multiples ==
  ASSUME NEW h \in Nat, NEW k \in Int, NEW m \in Int, NEW n \in Int
  PROVE  /\ k * h \in Int
         /\ (k + m) * h = k * h + m * h
         /\ (k - 2) * h = k * h - 2 * h
         /\ (m * h) * n = (m * n) * h
         /\ h >= 2 => 1 + k * h # 0
<1>1. k * h \in Int /\ (k + m) * h = k * h + m * h /\ (k - 2) * h = k * h - 2 * h
  OBVIOUS
<1>2. (m * h) * n = (m * n) * h
  OBVIOUS
<1>3. ASSUME h >= 2 PROVE 1 + k * h # 0
  <2>1. CASE k >= 0
    <3>1. k * h >= 0
      BY <2>1
    <3> QED BY <3>1, <1>1
  <2>2. CASE k <= -1
    <3>1. (-k) * h >= h
      <4>1. \A p \in Nat : (p + 1) * h = p * h + h /\ p * h >= 0
        OBVIOUS
      <4>2. -k - 1 \in Nat /\ (-k - 1) + 1 = -k
        BY <2>2
      <4> QED BY <4>1, <4>2
    <3>2. (-k) * h = -(k * h)
      OBVIOUS
    <3> QED BY <3>1, <3>2, <1>1, <1>3
  <2> QED BY <2>1, <2>2
<1> QED BY <1>1, <1>2, <1>3

LEMMA StepInit == Init => StepInv
<1> SUFFICES ASSUME Init PROVE StepInv
  OBVIOUS
<1>1. PICK m \in Nat : SEND_DELAY_BATTERY = m * Half
  BY HalfIsHalf
<1>2. m * TIMER_HZ \in Int /\ m * TIMER_HZ - 2 \in Int
  BY WaterAssumption
<1>3. SEND_DELAY_BATTERY * TIMER_HZ = (m * TIMER_HZ) * Half
  BY <1>1, Multiples, HalfIsHalf, WaterAssumption
<1>4. (m * TIMER_HZ - 2) * Half = (m * TIMER_HZ) * Half - 2 * Half
  BY <1>2, Multiples, HalfIsHalf
<1>5. send_timer_battery - send_timer = 1 + (m * TIMER_HZ - 2) * Half
  <2>1. send_timer = 2 * Half /\ send_timer_battery = (m * TIMER_HZ) * Half + 1
    BY <1>3, HalfIsHalf DEF Init
  <2>2. (m * TIMER_HZ) * Half \in Int
    BY <1>2, Multiples, HalfIsHalf
  <2> DEFINE x == (m * TIMER_HZ) * Half
             y == (m * TIMER_HZ - 2) * Half
  <2>3. x \in Int /\ y = x - 2 * Half /\ send_timer_battery = x + 1 /\ send_timer = 2 * Half
    BY <1>4, <2>1, <2>2
  <2> HIDE DEF x, y
  <2>4. send_timer_battery - send_timer = 1 + y
    BY <2>3, HalfIsHalf
  <2> QED BY <2>4 DEF y
<1>6. OutOfStep
  BY <1>2, <1>5 DEF OutOfStep
<1>7. AtZero
  BY DEF Init, AtZero
<1> QED BY <1>6, <1>7, TypeInit DEF StepInv

LEMMA StepStep == StepInv /\ [Next]_vars => StepInv'
<1> SUFFICES ASSUME StepInv, [Next]_vars PROVE StepInv'
  OBVIOUS
<1>1. (TypeOK /\ Running)'
  BY TypeStep DEF StepInv
<1>2. PICK k \in Int : send_timer_battery - send_timer = 1 + k * Half
  BY DEF StepInv, OutOfStep
<1>3. send_timer \in Nat /\ send_timer_battery \in Nat /\ k * Half \in Int
  BY <1>2, Multiples, HalfIsHalf, Periods DEF StepInv, TypeOK
<1> DEFINE Kept == UNCHANGED <<send_timer, send_timer_battery>>
<1>4. ASSUME Kept, pc' \notin {"usage", "battery"} PROVE OutOfStep' /\ AtZero'
  <2>1. send_timer_battery' - send_timer' = 1 + k * Half
    BY <1>2, <1>4
  <2> QED BY <1>4, <2>1 DEF AtZero, OutOfStep
<1>5. ASSUME Kept, pc' = pc PROVE OutOfStep' /\ AtZero'
  <2>1. send_timer_battery' - send_timer' = 1 + k * Half
    BY <1>2, <1>5
  <2> QED BY <1>5, <2>1 DEF AtZero, OutOfStep, StepInv
<1>6. CASE Count
  <2>1. send_timer' = send_timer - 1 /\ send_timer_battery' = send_timer_battery - 1
          /\ pc' = Due(send_timer', send_timer_battery')
    BY <1>6 DEF Count
  <2>2. send_timer_battery' - send_timer' = 1 + k * Half
    BY <1>2, <1>3, <2>1
  <2>3. AtZero'
    BY <2>1 DEF AtZero, Due
  <2> QED BY <1>1, <2>2, <2>3 DEF StepInv, OutOfStep
<1>7. CASE SendUsage
  <2>1. send_timer = 0 /\ send_timer' = 2 * Half /\ send_timer_battery' = send_timer_battery
          /\ pc' = IF send_timer_battery = 0 THEN "battery" ELSE "sleep"
    BY <1>7, HalfIsHalf DEF SendUsage, StepInv, AtZero
  <2>2. k - 2 \in Int /\ (k - 2) * Half = k * Half - 2 * Half
    BY Multiples, HalfIsHalf
  <2>3. send_timer_battery' - send_timer' = 1 + (k - 2) * Half
    <3> DEFINE x == k * Half
               y == (k - 2) * Half
    <3>1. x \in Int /\ y = x - 2 * Half /\ send_timer_battery - send_timer = 1 + x
      BY <1>2, <1>3, <2>2
    <3> HIDE DEF x, y
    <3>2. send_timer_battery' - send_timer' = 1 + y
      BY <1>3, <2>1, <3>1, HalfIsHalf
    <3> QED BY <3>2 DEF y
  <2>4. AtZero'
    BY <2>1 DEF AtZero
  <2> QED BY <1>1, <2>2, <2>3, <2>4 DEF StepInv, OutOfStep
<1>8. CASE SendBattery
  <2>1. send_timer_battery = 0 /\ send_timer_battery' = SEND_DELAY_BATTERY
          /\ send_timer' = send_timer /\ pc' = "sleep"
    BY <1>8 DEF SendBattery, StepInv, AtZero
  <2>2. PICK m \in Nat : SEND_DELAY_BATTERY = m * Half
    BY HalfIsHalf
  <2>3. k + m \in Int /\ (k + m) * Half = k * Half + m * Half /\ m * Half \in Int
    BY Multiples, HalfIsHalf
  <2>4. send_timer_battery' - send_timer' = 1 + (k + m) * Half
    <3> DEFINE x == k * Half
               y == m * Half
               z == (k + m) * Half
    <3>1. x \in Int /\ y \in Int /\ z = x + y /\ send_timer_battery - send_timer = 1 + x
            /\ send_timer_battery' = y
      BY <1>2, <1>3, <2>1, <2>2, <2>3
    <3> HIDE DEF x, y, z
    <3>2. send_timer_battery' - send_timer' = 1 + z
      BY <1>3, <2>1, <3>1
    <3> QED BY <3>2 DEF z
  <2>5. AtZero'
    BY <2>1 DEF AtZero
  <2> QED BY <1>1, <2>3, <2>4, <2>5 DEF StepInv, OutOfStep
<1> USE DEF loopvars
<1>9. CASE Edge      BY <1>1, <1>5, <1>9 DEF Edge, StepInv
<1>10. CASE Tick     BY <1>1, <1>5, <1>10 DEF Tick, StepInv
<1>11. CASE Wake \/ HallMoved \/ HallStill \/ HallOff \/ NoTick
  BY <1>1, <1>4, <1>11 DEF Wake, HallMoved, HallStill, HallOff, NoTick, StepInv
<1>12. CASE HallLatch \/ Overflow \/ Reload
  BY <1>1, <1>4, <1>12 DEF HallLatch, Overflow, Reload, StepInv
<1>13. CASE UNCHANGED vars BY <1>1, <1>5, <1>13 DEF vars, StepInv
<1> QED
  BY <1>6, <1>7, <1>8, <1>9, <1>10, <1>11, <1>12, <1>13 DEF Next, Loop

(***************************************************************************)
(* No wake transmits both reports: the + 1 in the first battery period     *)
(* keeps the timers apart for ever, and not only in the first rounds.      *)
(***************************************************************************)
THEOREM MeterOnePacketPerWake == Spec => []OnePacketPerWake
<1>1. StepInv => OnePacketPerWake
  <2> SUFFICES ASSUME StepInv, pc = "usage", send_timer_battery = 0 PROVE FALSE
    BY DEF OnePacketPerWake
  <2>1. PICK k \in Int : send_timer_battery - send_timer = 1 + k * Half
    BY DEF StepInv, OutOfStep
  <2>2. send_timer = 0
    BY DEF StepInv, AtZero
  <2>3. 1 + k * Half = 0
    BY <2>1, <2>2
  <2> QED BY <2>3, Multiples, HalfIsHalf
<1> QED BY StepInit, StepStep, <1>1, PTL DEF Spec

-----------------------------------------------------------------------------
(***************************************************************************)
(* What is lost.  From an overflow to its reload, timer 1 has counted no   *)
(* more than the edges since: those since TMR1L was last compared, and     *)
(* when that was after the overflow, those of one more turn.  So timer 1   *)
(* does not overflow again, and the reload writes over two turns' edges.   *)
(***************************************************************************)
Owed == TMR1IF \/ pc = "reload"

Compared == {"idle", "count", "reload"}   \* from the comparison to the test of the flag

Recent ==
  /\ fresh <= EdgesPerTurn
  /\ Owed => tmr1 + 1 <= IF pc \in Compared THEN EdgesPerTurn + fresh ELSE fresh
  /\ ~Owed => tmr1 >= HALL_PULSES_CNT
  /\ pc = "reload" => ~TMR1IF

Pending == IF Owed THEN PulsesPerDecilitre + tmr1 ELSE tmr1 - HALL_PULSES_CNT

Ledger == 100 * edges <= EdgesPerDecilitre * millilitres + 100 * Pending

LossInv == TypeOK /\ Running /\ Recent /\ Ledger

LEMMA LossWidths ==
  /\ EdgesPerTurn \in Nat /\ EdgesPerTurn < PulsesPerDecilitre
  /\ 3 * PulsesPerDecilitre < TimerSpan
  /\ EdgesPerDecilitre \in Nat
  /\ EdgesPerDecilitre = PulsesPerDecilitre + 2 * EdgesPerTurn - 1
  /\ HALL_PULSES_CNT = TimerSpan - PulsesPerDecilitre
BY WaterAssumption, Widths DEF EdgesPerDecilitre, HALL_PULSES_CNT

LEMMA LossProduct ==
  ASSUME millilitres \in Nat
  PROVE  /\ EdgesPerDecilitre * millilitres \in Int
         /\ EdgesPerDecilitre * (millilitres + 100)
              = EdgesPerDecilitre * millilitres + 100 * EdgesPerDecilitre
BY LossWidths

LEMMA LossInit == Init => LossInv
<1> SUFFICES ASSUME Init PROVE LossInv
  OBVIOUS
<1>1. Recent
  BY LossWidths DEF Init, Recent, Owed
<1>2. Pending = 0 /\ EdgesPerDecilitre * millilitres = 0
  BY LossWidths, Widths DEF Init, Pending, Owed
<1>3. Ledger
  BY <1>2 DEF Init, Ledger
<1> QED BY <1>1, <1>3, TypeInit DEF LossInv

LEMMA EdgeLoss == ASSUME LossInv, Edge PROVE Recent' /\ Ledger'
<1> USE DEF loopvars
<1>1. tmr1 \in 0..(TimerSpan - 1) /\ edges \in Nat /\ fresh \in Nat /\ TMR1IF \in BOOLEAN
        /\ EdgesPerDecilitre * millilitres \in Int
  BY LossProduct DEF LossInv, TypeOK
<1>2. tmr1' = (tmr1 + 1) % TimerSpan /\ TMR1IF' = (TMR1IF \/ tmr1 + 1 = TimerSpan)
        /\ edges' = edges + 1 /\ fresh' = fresh + 1 /\ fresh < EdgesPerTurn
        /\ millilitres' = millilitres /\ pc' = pc
  BY DEF Edge
<1>3. CASE tmr1 + 1 = TimerSpan
  <2>1. tmr1' = 0 /\ TMR1IF'
    <3>1. tmr1' = 0
      BY <1>2, <1>3, Widths
    <3> QED BY <1>2, <1>3, <3>1
  <2>2. ~Owed
    <3> SUFFICES ASSUME Owed PROVE FALSE
      OBVIOUS
    <3>1. tmr1 + 1 <= EdgesPerTurn + fresh
      BY <1>1, <1>2, LossWidths DEF LossInv, Recent
    <3> QED BY <1>1, <1>2, <1>3, <3>1, LossWidths, Widths
  <2>3. Recent'
    <3>1. pc # "reload" /\ ~TMR1IF
      BY <2>2 DEF Owed
    <3> QED BY <1>1, <1>2, <2>1, <3>1, LossWidths DEF Recent, Owed
  <2>4. Pending' = PulsesPerDecilitre /\ Pending = PulsesPerDecilitre - 1
    BY <1>1, <1>3, <2>1, <2>2, LossWidths, Widths DEF Pending, Owed
  <2>5. Ledger'
    BY <1>1, <1>2, <2>4, Widths DEF LossInv, Ledger
  <2> QED BY <2>3, <2>5
<1>4. CASE tmr1 + 1 # TimerSpan
  <2>1. tmr1' = tmr1 + 1 /\ TMR1IF' = TMR1IF
    BY <1>1, <1>2, <1>4, Widths
  <2>2. Owed' = Owed
    BY <1>2, <2>1 DEF Owed
  <2>3. Recent'
    BY <1>1, <1>2, <2>1, <2>2, LossWidths DEF LossInv, Recent
  <2>4. Pending' = Pending + 1 /\ Pending \in Int
    BY <1>1, <2>1, <2>2, LossWidths, Widths DEF Pending
  <2>5. Ledger'
    BY <1>1, <1>2, <2>4 DEF LossInv, Ledger
  <2> QED BY <2>3, <2>5
<1> QED BY <1>3, <1>4

LEMMA ReloadLoss == ASSUME LossInv, Reload PROVE Recent' /\ Ledger'
<1>1. tmr1 \in 0..(TimerSpan - 1) /\ edges \in Nat /\ fresh \in Nat
        /\ EdgesPerDecilitre * millilitres \in Int
  BY LossProduct DEF LossInv, TypeOK
<1>2. tmr1' = HALL_PULSES_CNT /\ millilitres' = millilitres + 100
        /\ UNCHANGED <<TMR1IF, edges, fresh>> /\ pc = "reload" /\ pc' = "timer"
  BY DEF Reload
<1>3. ~TMR1IF /\ tmr1 + 1 <= EdgesPerTurn + fresh /\ fresh <= EdgesPerTurn
  BY <1>2 DEF LossInv, Recent, Owed, Compared
<1>4. Pending <= EdgesPerDecilitre /\ Pending \in Int
  BY <1>1, <1>2, <1>3, LossWidths, Widths DEF Pending, Owed
<1>5. Pending' = 0
  BY <1>2, <1>3, LossWidths, Widths DEF Pending, Owed
<1>6. Ledger'
  <2>1. EdgesPerDecilitre * millilitres' = EdgesPerDecilitre * millilitres + 100 * EdgesPerDecilitre
    BY <1>2, LossProduct DEF LossInv, TypeOK
  <2> QED BY <1>1, <1>2, <1>4, <1>5, <2>1, LossWidths DEF LossInv, Ledger
<1>7. Recent'
  BY <1>2, <1>3, LossWidths, Widths DEF Recent, Owed
<1> QED BY <1>6, <1>7

LEMMA LossStep == LossInv /\ [Next]_vars => LossInv'
<1> SUFFICES ASSUME LossInv, [Next]_vars PROVE LossInv'
  OBVIOUS
<1>1. (TypeOK /\ Running)'
  BY TypeStep DEF LossInv
<1> SUFFICES Recent' /\ Ledger'
  BY <1>1 DEF LossInv
<1> DEFINE Same == UNCHANGED <<tmr1, TMR1IF, edges, millilitres>>
<1>2. tmr1 \in Nat /\ fresh \in Nat /\ TMR1IF \in BOOLEAN /\ EdgesPerTurn \in Nat
  BY LossWidths, Widths DEF LossInv, TypeOK
<1>3. ASSUME Same, Owed' = Owed PROVE Ledger'
  BY <1>3 DEF LossInv, Ledger, Pending
<1> USE DEF loopvars
<1>4. CASE Edge   BY <1>4, EdgeLoss
<1>5. CASE Reload BY <1>5, ReloadLoss
<1>6. CASE Overflow
  <2>1. UNCHANGED <<tmr1, edges, millilitres, fresh>> /\ pc = "count"
          /\ pc' = (IF TMR1IF THEN "reload" ELSE "timer") /\ TMR1IF' = FALSE
    BY <1>6 DEF Overflow
  <2>2. Owed' = Owed
    BY <2>1, <1>2 DEF Owed
  <2>3. Ledger'
    BY <2>1, <2>2 DEF LossInv, Ledger, Pending
  <2>4. Recent'
    BY <2>1, <2>2, <1>2 DEF LossInv, Recent, Owed, Compared
  <2> QED BY <2>3, <2>4
<1>7. CASE HallLatch
  <2>1. Same /\ fresh' = 0 /\ pc = "latch" /\ pc' = "count"
    BY <1>7 DEF HallLatch
  <2>2. Owed' = Owed
    BY <2>1 DEF Owed
  <2>3. Recent'
    BY <2>1, <2>2, <1>2 DEF LossInv, Recent, Compared
  <2> QED BY <1>3, <2>1, <2>2, <2>3
<1>8. CASE HallStill
  <2>1. Same /\ fresh' = 0 /\ pc = "hall" /\ pc' \in {"idle", "count"}
    BY <1>8 DEF HallStill
  <2>2. Owed' = Owed
    BY <2>1 DEF Owed
  <2>3. Recent'
    BY <2>1, <2>2, <1>2 DEF LossInv, Recent, Compared
  <2> QED BY <1>3, <2>1, <2>2, <2>3
<1>9. ASSUME Same, fresh' = fresh, pc' \in Compared <=> pc \in Compared,
             pc' = "reload" <=> pc = "reload"
      PROVE  Recent' /\ Ledger'
  <2>1. Owed' = Owed
    BY <1>9 DEF Owed
  <2>2. Recent'
    BY <1>9, <2>1 DEF LossInv, Recent
  <2> QED BY <1>3, <1>9, <2>1, <2>2
<1> USE DEF Compared
<1>10. CASE Tick        BY <1>9, <1>10 DEF Tick
<1>11. CASE Wake        BY <1>9, <1>11 DEF Wake
<1>12. CASE HallMoved   BY <1>9, <1>12 DEF HallMoved
<1>13. CASE HallOff     BY <1>9, <1>13 DEF HallOff
<1>14. CASE NoTick      BY <1>9, <1>14 DEF NoTick
<1>15. CASE Count       BY <1>9, <1>15 DEF Count, Due
<1>16. CASE SendUsage   BY <1>9, <1>16 DEF SendUsage
<1>17. CASE SendBattery BY <1>9, <1>17 DEF SendBattery
<1>18. CASE UNCHANGED vars BY <1>9, <1>18 DEF vars
<1> QED
  BY <1>4, <1>5, <1>6, <1>7, <1>8, <1>10, <1>11, <1>12, <1>13, <1>14, <1>15,
     <1>16, <1>17, <1>18 DEF Next, Loop

(***************************************************************************)
(* For every width of the timer and every speed of the water below one     *)
(* decilitre a turn, what the meter misses stays within the two turns'     *)
(* edges of each decilitre it counts.                                      *)
(***************************************************************************)
THEOREM MeterLossBounded == Spec => []LossBounded
<1>1. LossInv => LossBounded
  <2> SUFFICES ASSUME LossInv PROVE LossBounded
    OBVIOUS
  <2>1. tmr1 \in 0..(TimerSpan - 1) /\ edges \in Nat /\ fresh \in Nat
          /\ EdgesPerDecilitre * millilitres \in Int
    BY LossProduct DEF LossInv, TypeOK
  <2>2. Pending <= EdgesPerDecilitre /\ Pending \in Int
    <3>1. CASE Owed
      <4>1. tmr1 + 1 <= EdgesPerTurn + fresh /\ fresh <= EdgesPerTurn
        BY <2>1, <3>1, LossWidths DEF LossInv, Recent
      <4> QED BY <2>1, <3>1, <4>1, LossWidths, Widths DEF Pending
    <3>2. CASE ~Owed /\ EdgesPerTurn > 0
      BY <2>1, <3>2, LossWidths, Widths DEF Pending
    <3>3. CASE ~Owed /\ EdgesPerTurn = 0
      BY <2>1, <3>3, LossWidths, Widths DEF Pending
    <3> QED BY <3>1, <3>2, <3>3, LossWidths
  <2> QED BY <2>1, <2>2, LossWidths DEF LossInv, Ledger, LossBounded
<1> QED BY LossInit, LossStep, <1>1, PTL DEF Spec

-----------------------------------------------------------------------------
(***************************************************************************)
(* The comparison of TMR1L.  Since it was last compared, timer 1 has moved *)
(* by the fresh edges, or was preloaded on the way; in either case its low *)
(* byte is the remembered one only when there were no edges.               *)
(***************************************************************************)
Linked ==
  \E s \in 0..(TimerSpan - 1) :
    /\ hall_last = Low(s)
    /\ tmr1 = IF s + fresh < TimerSpan THEN s + fresh ELSE s + fresh - TimerSpan

Preloaded ==
  \E s \in 0..(TimerSpan - 1) :
    /\ hall_last = Low(s)
    /\ tmr1 >= HALL_PULSES_CNT /\ tmr1 - HALL_PULSES_CNT <= fresh
    /\ s < EdgesPerTurn \/ (TimerSpan - s) + (tmr1 - HALL_PULSES_CNT) <= fresh

(***************************************************************************)
(* The wait.  Without edges the delay runs down no faster than the quiet   *)
(* ticks add up, but for one tick that was pending when it was started;    *)
(* that tick is made up for by the one that wakes the loop to switch off.  *)
(***************************************************************************)
Waited ==
  /\ pc \in {"hall", "latch", "idle"} => hall
  /\ pc = "hall" => TMR0IF \/ TMR1IF
  /\ fresh = 0 => quiet + hall_delay >= HallPeriod - 1
  /\ fresh = 0 /\ TMR0IF => quiet + hall_delay >= HallPeriod
  /\ fresh = 0 /\ (pc = "idle" \/ ~hall) => quiet = HallPeriod

CutInv == LossInv /\ (Linked \/ Preloaded) /\ Waited

LEMMA NoMultiple ==
  ASSUME NEW d \in Int, NEW q \in Int, d = q * ByteSpan, -ByteSpan < d, d < ByteSpan
  PROVE  d = 0
<1>1. ByteSpan \in Nat
  BY WaterAssumption
<1>2. CASE q >= 1
  <2>1. q - 1 \in Nat /\ q * ByteSpan = (q - 1) * ByteSpan + ByteSpan /\ (q - 1) * ByteSpan >= 0
    BY <1>1, <1>2
  <2> QED BY <1>1, <2>1
<1>3. CASE q <= -1
  <2>1. -q - 1 \in Nat /\ (-q - 1) * ByteSpan >= 0
    BY <1>1, <1>3
  <2>2. (-q - 1) * ByteSpan = -(q * ByteSpan) - ByteSpan
    BY <1>1
  <2> QED BY <1>1, <2>1, <2>2
<1>4. CASE q = 0
  BY <1>1, <1>4
<1> QED BY <1>2, <1>3, <1>4

LEMMA Division ==
  ASSUME NEW n \in Int, NEW b \in Int, b > 0,
         NEW q \in Int, q = n \div b, NEW r \in Int, r = n % b
  PROVE  n = b * q + r
OBVIOUS

LEMMA LowMultiple ==
  ASSUME NEW s \in Nat, NEW t \in Nat, Low(s) = Low(t)
  PROVE  \E q \in Int : t - s = q * ByteSpan
<1>1. ByteSpan \in Nat /\ ByteSpan > 0
  BY WaterAssumption
<1> DEFINE a == s \div ByteSpan
           b == t \div ByteSpan
           r == s % ByteSpan
<1>2. a \in Int /\ b \in Int /\ r \in Int /\ r = t % ByteSpan
  BY <1>1 DEF Low
<1>3. s = ByteSpan * a + r /\ t = ByteSpan * b + r
  BY <1>1, <1>2, Division
<1> HIDE DEF a, b, r
<1>4. b - a \in Int /\ t - s = (b - a) * ByteSpan
  BY <1>1, <1>2, <1>3
<1> QED BY <1>4

(***************************************************************************)
(* The low byte tells.                                                     *)
(***************************************************************************)
LEMMA LowTells ==
  ASSUME TypeOK, Recent, Linked \/ Preloaded, hall_last = Low(tmr1)
  PROVE  fresh = 0
<1>1. PICK n \in Nat : TimerSpan = n * ByteSpan
  BY LowAssumption, Widths
<1>2. tmr1 \in Nat /\ fresh \in Nat /\ fresh <= EdgesPerTurn /\ ByteSpan \in Nat
        /\ PulsesPerDecilitre + EdgesPerTurn <= ByteSpan
  BY LowAssumption, WaterAssumption, Widths DEF TypeOK, Recent
<1>3. ASSUME Linked PROVE fresh = 0
  <2>1. PICK s \in 0..(TimerSpan - 1) :
          /\ hall_last = Low(s)
          /\ tmr1 = IF s + fresh < TimerSpan THEN s + fresh ELSE s + fresh - TimerSpan
    BY <1>3 DEF Linked
  <2>2. s \in Nat
    BY Widths
  <2>3. PICK q \in Int : tmr1 - s = q * ByteSpan
    BY <1>2, <2>1, <2>2, LowMultiple
  <2>4. fresh < ByteSpan
    BY <1>2, LossWidths, Widths
  <2>5. CASE s + fresh < TimerSpan
    BY <1>2, <2>1, <2>2, <2>3, <2>4, <2>5, NoMultiple
  <2>6. CASE ~(s + fresh < TimerSpan)
    <3>1. fresh = (q + n) * ByteSpan
      <4>1. (q + n) * ByteSpan = q * ByteSpan + n * ByteSpan
        BY <1>2
      <4> QED BY <1>1, <1>2, <2>1, <2>2, <2>3, <2>6, <4>1, Widths
    <3>2. q + n \in Int
      OBVIOUS
    <3> QED BY <1>2, <2>4, <3>1, <3>2, NoMultiple
  <2> QED BY <2>5, <2>6
<1>4. ASSUME Preloaded PROVE FALSE
  <2>1. PICK s \in 0..(TimerSpan - 1) :
          /\ hall_last = Low(s)
          /\ tmr1 >= HALL_PULSES_CNT /\ tmr1 - HALL_PULSES_CNT <= fresh
          /\ s < EdgesPerTurn \/ (TimerSpan - s) + (tmr1 - HALL_PULSES_CNT) <= fresh
    BY <1>4 DEF Preloaded
  <2>2. s \in Nat
    BY Widths
  <2>3. PICK q \in Int : tmr1 - s = q * ByteSpan
    BY <1>2, <2>1, <2>2, LowMultiple
  <2>4. CASE s < EdgesPerTurn
    <3> DEFINE d == tmr1 - s - TimerSpan
    <3>1. d = (q - n) * ByteSpan
      <4>1. (q - n) * ByteSpan = q * ByteSpan - n * ByteSpan
        BY <1>2
      <4> QED BY <1>1, <1>2, <2>2, <2>3, <4>1, Widths
    <3>2. d \in Int /\ -ByteSpan < d /\ d < 0
      BY <1>2, <2>1, <2>2, <2>4, LossWidths, Widths
    <3>3. q - n \in Int /\ d < ByteSpan
      BY <1>2, <3>2
    <3> HIDE DEF d
    <3> QED BY <3>1, <3>2, <3>3, NoMultiple
  <2>5. CASE (TimerSpan - s) + (tmr1 - HALL_PULSES_CNT) <= fresh
    <3> DEFINE d == tmr1 - s
    <3>1. d \in Int /\ -ByteSpan < d /\ d < 0 /\ d < ByteSpan /\ d = q * ByteSpan
      BY <1>2, <2>1, <2>2, <2>3, <2>5, LossWidths, Widths
    <3> HIDE DEF d
    <3> QED BY <3>1, NoMultiple
  <2> QED BY <2>1, <2>4, <2>5
<1> QED BY <1>3, <1>4

LEMMA CutInit == Init => CutInv
<1> SUFFICES ASSUME Init PROVE CutInv
  OBVIOUS
<1>1. Linked
  <2>1. HALL_PULSES_CNT \in 0..(TimerSpan - 1) /\ HALL_PULSES_CNT \in Nat
    BY PreloadType
  <2>2. HALL_PULSES_CNT + fresh < TimerSpan /\ tmr1 = HALL_PULSES_CNT + fresh
    BY <2>1, Widths DEF Init
  <2>3. hall_last = Low(HALL_PULSES_CNT)
    BY DEF Init
  <2> QED BY <2>1, <2>2, <2>3 DEF Linked
<1>2. Waited
  BY Periods DEF Init, Waited
<1> QED BY <1>1, <1>2, LossInit DEF CutInv

LEMMA EdgeLinked == ASSUME LossInv, Linked \/ Preloaded, Edge PROVE (Linked \/ Preloaded)'
<1>1. tmr1 \in 0..(TimerSpan - 1) /\ fresh \in Nat /\ fresh < EdgesPerTurn
        /\ tmr1' = (tmr1 + 1) % TimerSpan /\ fresh' = fresh + 1 /\ hall_last' = hall_last
  BY DEF LossInv, TypeOK, Edge, loopvars
<1>2. tmr1' = IF tmr1 + 1 = TimerSpan THEN 0 ELSE tmr1 + 1
  BY <1>1, Widths
<1>3. CASE Linked
  <2>1. PICK s \in 0..(TimerSpan - 1) :
          /\ hall_last = Low(s)
          /\ tmr1 = IF s + fresh < TimerSpan THEN s + fresh ELSE s + fresh - TimerSpan
    BY <1>3 DEF Linked
  <2>2. tmr1' = IF s + fresh' < TimerSpan THEN s + fresh' ELSE s + fresh' - TimerSpan
    BY <1>1, <1>2, <2>1, Widths, LossWidths
  <2> QED BY <1>1, <2>1, <2>2 DEF Linked
<1>4. CASE Preloaded
  <2>1. PICK s \in 0..(TimerSpan - 1) :
          /\ hall_last = Low(s)
          /\ tmr1 >= HALL_PULSES_CNT /\ tmr1 - HALL_PULSES_CNT <= fresh
          /\ s < EdgesPerTurn \/ (TimerSpan - s) + (tmr1 - HALL_PULSES_CNT) <= fresh
    BY <1>4 DEF Preloaded
  <2>2. tmr1' = tmr1 + 1
    BY <1>1, <1>2, <2>1, Widths, LossWidths
  <2>3. /\ tmr1' >= HALL_PULSES_CNT /\ tmr1' - HALL_PULSES_CNT <= fresh'
        /\ s < EdgesPerTurn \/ (TimerSpan - s) + (tmr1' - HALL_PULSES_CNT) <= fresh'
    BY <1>1, <2>1, <2>2, Widths, LossWidths
  <2> QED BY <1>1, <2>1, <2>3 DEF Preloaded, HALL_PULSES_CNT
<1> QED BY <1>3, <1>4

LEMMA ReloadLinked == ASSUME LossInv, Linked \/ Preloaded, Reload PROVE Preloaded'
<1>1. tmr1 \in 0..(TimerSpan - 1) /\ fresh \in Nat /\ fresh <= EdgesPerTurn
        /\ tmr1' = HALL_PULSES_CNT /\ UNCHANGED <<fresh, hall_last>>
        /\ tmr1 + 1 <= EdgesPerTurn + fresh
  BY DEF LossInv, TypeOK, Recent, Owed, Compared, Reload
<1>2. CASE Linked
  <2>1. PICK s \in 0..(TimerSpan - 1) :
          /\ hall_last = Low(s)
          /\ tmr1 = IF s + fresh < TimerSpan THEN s + fresh ELSE s + fresh - TimerSpan
    BY <1>2 DEF Linked
  <2>2. s < EdgesPerTurn \/ (TimerSpan - s) + (tmr1' - HALL_PULSES_CNT) <= fresh'
    BY <1>1, <2>1, Widths, LossWidths
  <2>3. tmr1' >= HALL_PULSES_CNT /\ tmr1' - HALL_PULSES_CNT <= fresh'
    BY <1>1, Widths, LossWidths
  <2> QED BY <1>1, <2>1, <2>2, <2>3 DEF Preloaded, HALL_PULSES_CNT
<1>3. CASE Preloaded
  <2>1. tmr1 >= HALL_PULSES_CNT
    BY <1>3 DEF Preloaded
  <2> QED BY <1>1, <2>1, Widths, LossWidths
<1> QED BY <1>2, <1>3

LEMMA CutStep == CutInv /\ [Next]_vars => CutInv'
<1> SUFFICES ASSUME CutInv, [Next]_vars PROVE CutInv'
  OBVIOUS
<1>1. LossInv'
  BY LossStep DEF CutInv
<1> SUFFICES (Linked \/ Preloaded)' /\ Waited'
  BY <1>1 DEF CutInv
<1>2. /\ quiet \in 0..HallPeriod /\ hall_delay \in 0..HallPeriod /\ fresh \in Nat
      /\ TMR0IF \in BOOLEAN /\ TMR1IF \in BOOLEAN /\ hall \in BOOLEAN
      /\ HallPeriod \in Nat /\ tmr1 \in 0..(TimerSpan - 1)
  BY Periods DEF CutInv, LossInv, TypeOK
<1>3. ASSUME UNCHANGED <<tmr1, hall_last, fresh>> PROVE (Linked \/ Preloaded)'
  BY <1>3 DEF CutInv, Linked, Preloaded, HALL_PULSES_CNT, Low
<1>4. ASSUME hall_last = Low(tmr1), UNCHANGED <<tmr1, hall_last>>, fresh' = 0
      PROVE  Linked'
  <2>1. tmr1 + fresh' < TimerSpan /\ tmr1' = tmr1 + fresh' /\ hall_last' = Low(tmr1)
    BY <1>2, <1>4, Widths
  <2> QED BY <1>2, <2>1 DEF Linked
<1> USE DEF loopvars
<1>5. CASE Edge
  <2>1. Waited'
    BY <1>2, <1>5 DEF Edge, CutInv, Waited
  <2> QED BY <1>5, <2>1, EdgeLinked DEF CutInv
<1>6. CASE Tick
  <2>1. Waited'
    BY <1>2, <1>6 DEF Tick, CutInv, Waited
  <2> QED BY <1>3, <1>6, <2>1 DEF Tick
<1>7. CASE Wake
  <2>1. Waited'
    BY <1>2, <1>7 DEF Wake, CutInv, Waited
  <2> QED BY <1>3, <1>7, <2>1 DEF Wake
<1>8. CASE HallMoved
  <2>1. Waited'
    BY <1>2, <1>8 DEF HallMoved, CutInv, Waited
  <2> QED BY <1>3, <1>8, <2>1 DEF HallMoved
<1>9. CASE HallLatch
  <2>1. Linked'
    <3>1. hall_last' = Low(tmr1) /\ tmr1' = tmr1 /\ fresh' = 0
      BY <1>9 DEF HallLatch
    <3>2. tmr1 + fresh' < TimerSpan /\ tmr1' = tmr1 + fresh'
      BY <1>2, <3>1, Widths
    <3> QED BY <1>2, <3>1, <3>2 DEF Linked
  <2>2. Waited'
    BY <1>2, <1>9 DEF HallLatch, CutInv, Waited
  <2> QED BY <2>1, <2>2
<1>10. CASE HallStill
  <2>1. hall_last = Low(tmr1) /\ UNCHANGED <<tmr1, hall_last, hall_delay, quiet, TMR0IF, TMR1IF, hall>>
          /\ fresh' = 0 /\ pc = "hall" /\ pc' = IF hall_delay = 0 THEN "idle" ELSE "count"
    BY <1>10 DEF HallStill
  <2>2. fresh = 0
    BY <2>1, LowTells DEF CutInv, LossInv
  <2>3. ~TMR1IF
    <3> SUFFICES ASSUME TMR1IF PROVE FALSE
      OBVIOUS
    <3>1. tmr1 + 1 <= fresh
      BY <2>1 DEF CutInv, LossInv, Recent, Owed, Compared
    <3> QED BY <1>2, <2>2, <3>1, Widths
  <2>4. TMR0IF /\ hall
    BY <2>1, <2>3 DEF CutInv, Waited
  <2>5. quiet + hall_delay >= HallPeriod
    BY <2>2, <2>4 DEF CutInv, Waited
  <2>6. Waited'
    BY <1>2, <2>1, <2>4, <2>5 DEF Waited
  <2> QED BY <1>4, <2>1, <2>6
<1>11. CASE HallOff
  <2>1. Waited'
    BY <1>2, <1>11 DEF HallOff, CutInv, Waited
  <2> QED BY <1>3, <1>11, <2>1 DEF HallOff
<1>12. CASE Overflow
  <2>1. Waited'
    BY <1>2, <1>12 DEF Overflow, CutInv, Waited
  <2> QED BY <1>3, <1>12, <2>1 DEF Overflow
<1>13. CASE Reload
  <2>1. Waited'
    BY <1>2, <1>13 DEF Reload, CutInv, Waited
  <2> QED BY <1>13, <2>1, ReloadLinked DEF CutInv
<1>14. CASE NoTick
  <2>1. Waited'
    BY <1>2, <1>14 DEF NoTick, CutInv, Waited
  <2> QED BY <1>3, <1>14, <2>1 DEF NoTick
<1>15. CASE Count
  <2>1. pc' \in {"usage", "battery", "sleep"} /\ TMR0IF /\ ~TMR0IF' /\ pc = "timer"
          /\ UNCHANGED <<hall, fresh, quiet>>
          /\ hall_delay' = IF hall_delay > 0 THEN hall_delay - 1 ELSE 0
    BY <1>15 DEF Count, Due
  <2>2. Waited'
    BY <1>2, <2>1 DEF CutInv, Waited
  <2> QED BY <1>3, <1>15, <2>2 DEF Count
<1>16. CASE SendUsage
  <2>1. Waited'
    BY <1>2, <1>16 DEF SendUsage, CutInv, Waited
  <2> QED BY <1>3, <1>16, <2>1 DEF SendUsage
<1>17. CASE SendBattery
  <2>1. Waited'
    BY <1>2, <1>17 DEF SendBattery, CutInv, Waited
  <2> QED BY <1>3, <1>17, <2>1 DEF SendBattery
<1>18. CASE UNCHANGED vars
  <2>1. Waited'
    BY <1>18 DEF vars, CutInv, Waited
  <2> QED BY <1>3, <1>18, <2>1 DEF vars
<1> QED
  BY <1>5, <1>6, <1>7, <1>8, <1>9, <1>10, <1>11, <1>12, <1>13, <1>14, <1>15,
     <1>16, <1>17, <1>18 DEF Next, Loop

(***************************************************************************)
(* The sensor never loses its power over a sleep while water may still be  *)
(* running and no edge shows in TMR1L to bring it back.                    *)
(***************************************************************************)
THEOREM MeterNotCutOff == Spec => []NotCutOff
<1>1. CutInv => NotCutOff
  <2> SUFFICES ASSUME CutInv, pc = "sleep", ~hall, hall_last = Low(tmr1)
               PROVE  quiet = HallPeriod
    BY DEF NotCutOff
  <2>1. fresh = 0
    BY LowTells DEF CutInv, LossInv
  <2> QED BY <2>1 DEF CutInv, Waited
<1> QED BY CutInit, CutStep, <1>1, PTL DEF Spec
=============================================================================
