---------------------------- MODULE WaterMeter ----------------------------
(***************************************************************************)
(* The PIC build of water-usage/main.c: a hall sensor clocks timer 1, which *)
(* is preloaded so that it overflows after the pulses of one decilitre;    *)
(* timer 0 ticks TIMER_HZ times a second; the processor sleeps until one of *)
(* the two overflows, and runs the body of the main loop once per wake.    *)
(*                                                                         *)
(* The hardware is an actor of its own: an edge of the hall sensor or a    *)
(* tick may come between any two steps of the loop, also during a wake or  *)
(* the transmission of a packet.  Sealing a packet is in KotiNetwork; here *)
(* it is the time a transmission takes.                                    *)
(***************************************************************************)
EXTENDS Integers

CONSTANTS TimerSpan,          \* timer 1 wraps here: 2^16
          ByteSpan,           \* its low byte wraps here: 2^8
          PulsesPerDecilitre, \* the 60 of HALL_PULSES_CNT
          TIMER_HZ, HALL_WAIT, SEND_DELAY, SEND_DELAY_BATTERY,
          EdgesPerTurn,       \* edges between two turns of the loop: at most a decilitre
          MaxEdges            \* bound: edges in a run

ASSUME WaterAssumption ==
  /\ TimerSpan \in Nat /\ ByteSpan \in Nat \ {0}
  /\ PulsesPerDecilitre \in Nat \ {0} /\ 3 * PulsesPerDecilitre < TimerSpan
  /\ TIMER_HZ \in Nat \ {0} /\ HALL_WAIT \in Nat \ {0}
  /\ SEND_DELAY \in Nat \ {0} /\ SEND_DELAY_BATTERY \in Nat \ {0}
  /\ EdgesPerTurn \in 0..(PulsesPerDecilitre - 1) /\ MaxEdges \in Nat

HALL_PULSES_CNT == TimerSpan - PulsesPerDecilitre

Low(t) == t % ByteSpan

ASSUME LowAssumption ==   \* what makes the low byte alone tell whether edges came
  /\ \E n \in 1..TimerSpan : TimerSpan = n * ByteSpan
  /\ PulsesPerDecilitre + EdgesPerTurn <= ByteSpan

UsagePeriod == SEND_DELAY * TIMER_HZ
HallPeriod  == HALL_WAIT * TIMER_HZ

(***************************************************************************)
(* The later battery periods (600 ticks) are a multiple of half the usage  *)
(* period (400 ticks).                                                     *)
(***************************************************************************)
HalfPeriods(half) ==
  /\ UsagePeriod = 2 * half
  /\ \E m \in 1..SEND_DELAY_BATTERY : SEND_DELAY_BATTERY = m * half

ASSUME PeriodAssumption == \E half \in 2..UsagePeriod : HalfPeriods(half)

-----------------------------------------------------------------------------
VARIABLES
  pc,                 \* where the loop is
  tmr1, TMR1IF,       \* timer 1 and its overflow flag
  TMR0IF,             \* overflow flag of timer 0
  hall,               \* the hall sensor is powered (HALL_PIN_EN low)
  hall_last, hall_delay,
  send_timer, send_timer_battery,
  millilitres,
  edges,              \* history: edges timer 1 has seen
  fresh,              \* history: edges since TMR1L was compared
  quiet               \* history: ticks since the last edge, up to HallPeriod

loopvars == <<hall_last, hall_delay, send_timer, send_timer_battery, millilitres>>
vars == <<pc, tmr1, TMR1IF, TMR0IF, hall, loopvars, edges, fresh, quiet>>

InitInStep ==   \* a mutant: both timers start on a multiple of their period
  /\ pc = "sleep"
  /\ tmr1 = HALL_PULSES_CNT
  /\ TMR1IF = FALSE /\ TMR0IF = FALSE
  /\ hall = FALSE
  /\ hall_last = Low(HALL_PULSES_CNT)
  /\ hall_delay = 0
  /\ send_timer = UsagePeriod
  /\ send_timer_battery = SEND_DELAY_BATTERY * TIMER_HZ
  /\ millilitres = 0
  /\ edges = 0 /\ fresh = 0
  /\ quiet = HallPeriod

Init ==
  /\ pc = "sleep"
  /\ tmr1 = HALL_PULSES_CNT
  /\ TMR1IF = FALSE
  /\ TMR0IF = FALSE
  /\ hall = FALSE
  /\ hall_last = Low(HALL_PULSES_CNT)
  /\ hall_delay = 0
  /\ send_timer = UsagePeriod
  /\ send_timer_battery = SEND_DELAY_BATTERY * TIMER_HZ + 1
  /\ millilitres = 0
  /\ edges = 0
  /\ fresh = 0
  /\ quiet = HallPeriod

-----------------------------------------------------------------------------
(***************************************************************************)
(* The hardware.  An unpowered sensor gives no edge; a second overflow     *)
(* before the first is handled finds the flag already set.                 *)
(***************************************************************************)
Edge ==
  /\ hall
  /\ edges < MaxEdges
  /\ fresh < EdgesPerTurn
  /\ tmr1' = (tmr1 + 1) % TimerSpan
  /\ TMR1IF' = (TMR1IF \/ tmr1 + 1 = TimerSpan)
  /\ edges' = edges + 1
  /\ fresh' = fresh + 1
  /\ quiet' = 0
  /\ UNCHANGED <<pc, TMR0IF, hall, loopvars>>

Tick ==
  /\ TMR0IF' = TRUE
  /\ quiet' = IF quiet < HallPeriod THEN quiet + 1 ELSE quiet
  /\ UNCHANGED <<pc, tmr1, TMR1IF, hall, loopvars, edges, fresh>>

-----------------------------------------------------------------------------
(***************************************************************************)
(* One turn of the loop.  SLEEP() ends, or does nothing, when one of the   *)
(* flags is set; the sensor is powered for the rest of the turn.           *)
(***************************************************************************)
WakeOnWater ==   \* a mutant: the interrupt of timer 0 is not enabled
  /\ pc = "sleep"
  /\ TMR1IF
  /\ pc' = "hall"
  /\ hall' = TRUE
  /\ UNCHANGED <<tmr1, TMR1IF, TMR0IF, loopvars, edges, fresh, quiet>>

Wake ==
  /\ pc = "sleep"
  /\ TMR0IF \/ TMR1IF
  /\ pc' = "hall"
  /\ hall' = TRUE
  /\ UNCHANGED <<tmr1, TMR1IF, TMR0IF, loopvars, edges, fresh, quiet>>

(***************************************************************************)
(* TMR1L is read once to compare and once more to remember.                *)
(***************************************************************************)
HallMoved ==
  /\ pc = "hall"
  /\ hall_last # Low(tmr1)
  /\ pc' = "latch"
  /\ UNCHANGED <<tmr1, TMR1IF, TMR0IF, hall, loopvars, edges, fresh, quiet>>

HallLatchOnly ==   \* a mutant: the delay is not started
  /\ pc = "latch"
  /\ hall_last' = Low(tmr1)
  /\ fresh' = 0
  /\ pc' = "count"
  /\ UNCHANGED <<tmr1, TMR1IF, TMR0IF, hall, hall_delay, send_timer,
                 send_timer_battery, millilitres, edges, quiet>>

HallLatch ==
  /\ pc = "latch"
  /\ hall_last' = Low(tmr1)
  /\ hall_delay' = HallPeriod
  /\ fresh' = 0
  /\ pc' = "count"
  /\ UNCHANGED <<tmr1, TMR1IF, TMR0IF, hall, send_timer, send_timer_battery,
                 millilitres, edges, quiet>>

HallStill ==
  /\ pc = "hall"
  /\ hall_last = Low(tmr1)
  /\ pc' = IF hall_delay = 0 THEN "idle" ELSE "count"
  /\ fresh' = 0
  /\ UNCHANGED <<tmr1, TMR1IF, TMR0IF, hall, loopvars, edges, quiet>>

HallOff ==
  /\ pc = "idle"
  /\ hall' = FALSE
  /\ pc' = "count"
  /\ UNCHANGED <<tmr1, TMR1IF, TMR0IF, loopvars, edges, fresh, quiet>>

(***************************************************************************)
(* The overflow is acknowledged, then timer 1 is preloaded again.          *)
(***************************************************************************)
OverflowKept ==   \* a mutant: the flag is not cleared
  /\ pc = "count"
  /\ pc' = IF TMR1IF THEN "reload" ELSE "timer"
  /\ UNCHANGED <<tmr1, TMR1IF, TMR0IF, hall, loopvars, edges, fresh, quiet>>

Overflow ==
  /\ pc = "count"
  /\ TMR1IF' = FALSE
  /\ pc' = IF TMR1IF THEN "reload" ELSE "timer"
  /\ UNCHANGED <<tmr1, TMR0IF, hall, loopvars, edges, fresh, quiet>>

Reload ==
  /\ pc = "reload"
  /\ tmr1' = HALL_PULSES_CNT
  /\ millilitres' = millilitres + 100
  /\ pc' = "timer"
  /\ UNCHANGED <<TMR1IF, TMR0IF, hall, hall_last, hall_delay, send_timer,
                 send_timer_battery, edges, fresh, quiet>>

(***************************************************************************)
(* A tick: the three counters run down; a counter at zero sends.           *)
(***************************************************************************)
NoTick ==
  /\ pc = "timer"
  /\ ~TMR0IF
  /\ pc' = "sleep"
  /\ UNCHANGED <<tmr1, TMR1IF, TMR0IF, hall, loopvars, edges, fresh, quiet>>

Due(usage, battery) ==
  CASE usage = 0   -> "usage"
    [] usage # 0 /\ battery = 0 -> "battery"
    [] OTHER       -> "sleep"

CountClearsBoth ==   \* a mutant: both flags are cleared at the end
  /\ pc = "timer"
  /\ TMR0IF
  /\ TMR0IF' = FALSE /\ TMR1IF' = FALSE
  /\ hall_delay' = IF hall_delay > 0 THEN hall_delay - 1 ELSE 0
  /\ send_timer' = send_timer - 1
  /\ send_timer_battery' = send_timer_battery - 1
  /\ pc' = Due(send_timer - 1, send_timer_battery - 1)
  /\ UNCHANGED <<tmr1, hall, hall_last, millilitres, edges, fresh, quiet>>

Count ==
  /\ pc = "timer"
  /\ TMR0IF
  /\ TMR0IF' = FALSE
  /\ hall_delay' = IF hall_delay > 0 THEN hall_delay - 1 ELSE 0
  /\ send_timer' = send_timer - 1
  /\ send_timer_battery' = send_timer_battery - 1
  /\ pc' = Due(send_timer - 1, send_timer_battery - 1)
  /\ UNCHANGED <<tmr1, TMR1IF, hall, hall_last, millilitres, edges, fresh, quiet>>

SendUsageOnce ==   \* a mutant: the timer is not started again
  /\ pc = "usage"
  /\ pc' = IF send_timer_battery = 0 THEN "battery" ELSE "sleep"
  /\ UNCHANGED <<tmr1, TMR1IF, TMR0IF, hall, loopvars, edges, fresh, quiet>>

SendUsage ==
  /\ pc = "usage"
  /\ send_timer' = UsagePeriod
  /\ pc' = IF send_timer_battery = 0 THEN "battery" ELSE "sleep"
  /\ UNCHANGED <<tmr1, TMR1IF, TMR0IF, hall, hall_last, hall_delay,
                 send_timer_battery, millilitres, edges, fresh, quiet>>

SendBattery ==
  /\ pc = "battery"
  /\ send_timer_battery' = SEND_DELAY_BATTERY
  /\ pc' = "sleep"
  /\ UNCHANGED <<tmr1, TMR1IF, TMR0IF, hall, hall_last, hall_delay,
                 send_timer, millilitres, edges, fresh, quiet>>

Loop ==
  \/ Wake \/ HallMoved \/ HallLatch \/ HallStill \/ HallOff \/ Overflow \/ Reload
  \/ NoTick \/ Count \/ SendUsage \/ SendBattery

Next == Edge \/ Tick \/ Loop

(***************************************************************************)
(* Timer 0 runs from its own oscillator and the loop never waits for       *)
(* anything but the flags; nothing makes water flow.                       *)
(***************************************************************************)
Spec == Init /\ [][Next]_vars /\ WF_vars(Tick) /\ WF_vars(Loop)

-----------------------------------------------------------------------------
(***************************************************************************)
(* Type invariant.                                                         *)
(***************************************************************************)
TypeOK ==
  /\ pc \in {"sleep", "hall", "latch", "idle", "count", "reload", "timer", "usage", "battery"}
  /\ tmr1 \in 0..(TimerSpan - 1)
  /\ TMR1IF \in BOOLEAN /\ TMR0IF \in BOOLEAN /\ hall \in BOOLEAN
  /\ hall_last \in 0..(ByteSpan - 1)
  /\ hall_delay \in 0..HallPeriod
  /\ send_timer \in 0..UsagePeriod
  /\ send_timer_battery \in 0..(SEND_DELAY_BATTERY * TIMER_HZ + 1)
  /\ millilitres \in Nat /\ edges \in Nat /\ fresh \in Nat
  /\ quiet \in 0..HallPeriod

(***************************************************************************)
(* The meter never reports more water than the sensor has seen: an         *)
(* overflow is counted once, although its flag, the reload and the total   *)
(* are three steps between which edges keep coming.                        *)
(***************************************************************************)
NoOverCount == PulsesPerDecilitre * millilitres <= 100 * edges

(***************************************************************************)
(* It misses little: the edges that come between an overflow and the       *)
(* preload, which the preload writes over, and these are never more than   *)
(* two turns of the loop bring.  No overflow is lost or merged with the    *)
(* next one.                                                               *)
(***************************************************************************)
EdgesPerDecilitre == PulsesPerDecilitre + 2 * EdgesPerTurn - 1

LossBounded ==
  100 * edges <= EdgesPerDecilitre * millilitres + 100 * EdgesPerDecilitre

(***************************************************************************)
(* The sensor is left unpowered over a sleep only after HALL_WAIT seconds  *)
(* without an edge; an edge that slipped in between the comparison and the *)
(* power-off shows in TMR1L and is noticed at the next wake.               *)
(***************************************************************************)
NotCutOff ==
  pc = "sleep" /\ ~hall /\ hall_last = Low(tmr1) => quiet = HallPeriod

(***************************************************************************)
(* A wake transmits one packet at most: the + 1 in the first battery       *)
(* period keeps the two timers out of step for ever.                       *)
(***************************************************************************)
OnePacketPerWake == pc = "usage" => send_timer_battery # 0

(***************************************************************************)
(* Every overflow ends up in the total, also one that comes while the loop *)
(* is past the test of the flag or busy transmitting.                      *)
(***************************************************************************)
OverflowIsMetered ==
  \A n \in 0..MaxEdges : TMR1IF /\ millilitres = 100 * n ~> millilitres > 100 * n

(***************************************************************************)
(* Both reports go out for ever, whatever the water does.                  *)
(***************************************************************************)
ReportsKeepComing == []<>(pc = "usage") /\ []<>(pc = "battery")
=============================================================================
