----------------------------- MODULE LedLights -----------------------------
(***************************************************************************)
(* The channels of the ESP32 light (esp32/led-6ch/main.c): the array ch[], *)
(* shared without a lock by the main task, which sweeps all channels, and  *)
(* by the task of the MQTT client, which carries out commands; and the PWM *)
(* outputs both of them drive.  A step writes ch[] once, reads what a duty *)
(* is computed from, or drives the PWM, and the tasks interleave between   *)
(* any two.  Some make two accesses: a duty is read with its switch        *)
(* (MainEval, LedEval, RgbEval), and a group's switch is stored together   *)
(* with the reading of the value beside it (RgbSwitch).                    *)
(*                                                                         *)
(* Values are 0..VALUE_MAX for the 0..255 of uint8_t, a group has G        *)
(* channels for the three of an RGB strip.  Publications are left out.     *)
(***************************************************************************)
EXTENDS Integers, FiniteSets

CONSTANTS G,           \* channels of a group: 3
          VALUE_MAX,   \* 255
          FLASH,       \* duty of the smartconfig flasher
          Steps,       \* by how much an overheated light is dimmed: 1 and 5
          Groups,      \* groups commands are sent to: 0 and 1
          Payload,     \* numbers in commands, also outside 0..VALUE_MAX
          MaxSweeps    \* bound: motion and smartconfig sweeps

Channel == 0..(2 * G - 1)
Value   == 0..VALUE_MAX

ASSUME LightsAssumption ==
  /\ G \in Nat \ {0} /\ VALUE_MAX \in Nat
  /\ FLASH \in Value /\ Steps \subseteq Nat \ {0}
  /\ Groups \subseteq {0, 1} /\ Payload \subseteq Int /\ MaxSweeps \in Nat

Idle == [op |-> "idle", arg |-> 0, at |-> "none", i |-> 0, reg |-> 0]

VARIABLES
  value, state,   \* value[c], state[c]: ch[c] of the code
  duty,           \* duty[c]: what PWM channel c puts out
  main,           \* what the main task is doing: operation, place, register
  handler,        \* the same for the client's task
  client,         \* mqtt_connect has started a client
  hot,            \* the temperature is over TEMPERATURE_LIMIT
  sweeps,         \* motion and smartconfig sweeps so far, for the bound
  overlap,        \* history: the tasks were both busy since one was idle
  clean           \* history: channels last driven by an operation on channels
                  \* one by one, with no other task about

ch   == <<value, state>>
vars == <<ch, duty, main, handler, client, hot, sweeps, overlap, clean>>

Lit(c) == IF state[c] THEN value[c] ELSE 0

Init ==
  /\ value = [c \in Channel |-> 0]
  /\ state = [c \in Channel |-> FALSE]
  /\ duty = [c \in Channel |-> 0]
  /\ main = Idle /\ handler = Idle
  /\ client = FALSE
  /\ hot \in BOOLEAN
  /\ sweeps = 0
  /\ overlap = FALSE
  /\ clean = Channel

-----------------------------------------------------------------------------
(***************************************************************************)
(* The main task.  The sweeps go over the channels in order and take, for  *)
(* each, the steps                                                         *)
(*   adjust          read value, write value, evaluate the duty, drive     *)
(*   on, off         write state, evaluate, drive                          *)
(*   reset           evaluate, drive                                       *)
(*   flash           drive                                                 *)
(***************************************************************************)
FirstStep(op) ==
  CASE op = "adjust"        -> "read"
    [] op \in {"on", "off"} -> "switch"
    [] op = "reset"         -> "eval"
    [] op = "flash"         -> "drive"

BeginMain(op, arg) ==
  /\ main = Idle
  /\ main' = [op |-> op, arg |-> arg, at |-> FirstStep(op), i |-> 0,
              reg |-> IF op = "flash" THEN FLASH ELSE 0]
  /\ overlap' = (handler # Idle)
  /\ UNCHANGED <<ch, duty, handler, client, hot, clean>>

BeginAdjust == hot /\ UNCHANGED sweeps /\ \E d \in Steps : BeginMain("adjust", d)

BeginMotion ==
  /\ sweeps < MaxSweeps
  /\ sweeps' = sweeps + 1
  /\ \E op \in {"on", "off"} : BeginMain(op, 0)

BeginFlash ==
  /\ sweeps < MaxSweeps
  /\ sweeps' = sweeps + 1
  /\ BeginMain("flash", 0)

BeginReset == ~client /\ UNCHANGED sweeps /\ BeginMain("reset", 0)

ClipWrapped(v) == v % (VALUE_MAX + 1)   \* a mutant: the uint8_t is left to wrap

Clip(v) == IF v < 0 THEN 0 ELSE IF v > VALUE_MAX THEN VALUE_MAX ELSE v

AdjustReadAhead ==   \* a mutant: the value is read from the channel after
  /\ main.at = "read"
  /\ main' = [main EXCEPT !.reg = value[(main.i + 1) % (2 * G)], !.at = "write"]
  /\ UNCHANGED <<ch, duty, handler, client, hot, sweeps, overlap, clean>>

AdjustRead ==
  /\ main.at = "read"
  /\ main' = [main EXCEPT !.reg = value[main.i], !.at = "write"]
  /\ UNCHANGED <<ch, duty, handler, client, hot, sweeps, overlap, clean>>

AdjustWrite ==
  /\ main.at = "write"
  /\ value' = [value EXCEPT ![main.i] = Clip(main.reg - main.arg)]
  /\ main' = [main EXCEPT !.at = "eval"]
  /\ UNCHANGED <<state, duty, handler, client, hot, sweeps, overlap, clean>>

MotionSwitch ==
  /\ main.at = "switch"
  /\ state' = [state EXCEPT ![main.i] = (main.op = "on")]
  /\ main' = [main EXCEPT !.at = "eval"]
  /\ UNCHANGED <<value, duty, handler, client, hot, sweeps, overlap, clean>>

MainEval ==
  /\ main.at = "eval"
  /\ main' = [main EXCEPT !.reg = Lit(main.i), !.at = "drive"]
  /\ UNCHANGED <<ch, duty, handler, client, hot, sweeps, overlap, clean>>

(***************************************************************************)
(* pwm_set_duty, then the next channel; after a reset the client starts.   *)
(***************************************************************************)
MainDrive ==
  /\ main.at = "drive"
  /\ duty' = [duty EXCEPT ![main.i] = main.reg]
  /\ main' = IF main.i = 2 * G - 1 THEN Idle
             ELSE [main EXCEPT !.i = @ + 1, !.at = FirstStep(main.op)]
  /\ client' = (client \/ (main.op = "reset" /\ main.i = 2 * G - 1))
  /\ clean' = IF overlap \/ main.op = "flash" THEN clean \ {main.i} ELSE clean \cup {main.i}
  /\ UNCHANGED <<ch, handler, hot, sweeps, overlap>>

MainSweep == AdjustRead \/ AdjustWrite \/ MotionSwitch \/ MainEval \/ MainDrive

-----------------------------------------------------------------------------
(***************************************************************************)
(* The client's task.  A command for group g, whose first channel is       *)
(* g * G, or for one channel.                                              *)
(***************************************************************************)
BeginCommand(op, at, i, arg) ==
  /\ client
  /\ handler = Idle
  /\ handler' = [op |-> op, arg |-> arg, at |-> at, i |-> i, reg |-> 0]
  /\ overlap' = (main # Idle)
  /\ UNCHANGED <<ch, duty, main, client, hot, sweeps>>

(***************************************************************************)
(* A list of numbers for a group: a missing one or one out of range leaves *)
(* its channel alone.                                                      *)
(***************************************************************************)
BeginRgb ==
  \E g \in Groups, numbers \in [0..(G - 1) -> Payload] :
    /\ BeginCommand("rgb", "store", 0, [off |-> g * G, numbers |-> numbers])
    /\ clean' = clean \ (0..(G - 1) \cup {g * G + k : k \in 0..(G - 1)})

RgbStore ==
  /\ handler.at = "store"
  /\ LET c == handler.arg.off + handler.i
         n == handler.arg.numbers[handler.i]
     IN  value' = IF n \in Value THEN [value EXCEPT ![c] = n] ELSE value
  /\ handler' = IF handler.i = G - 1 THEN [handler EXCEPT !.at = "rgb_eval", !.i = 0]
                ELSE [handler EXCEPT !.i = @ + 1]
  /\ UNCHANGED <<state, duty, main, client, hot, sweeps, overlap, clean>>

(***************************************************************************)
(* All the duties of a group go by the switch of its first channel, and to *)
(* the PWM channels from 0 on.                                             *)
(***************************************************************************)
RgbEval ==
  /\ handler.at = "rgb_eval"
  /\ LET off == handler.arg.off
     IN  handler' = [handler EXCEPT !.at = "rgb_drive",
                       !.reg = IF state[off] THEN value[off + handler.i] ELSE 0]
  /\ UNCHANGED <<ch, duty, main, client, hot, sweeps, overlap, clean>>

BeginRgbSwitch ==
  \E g \in Groups, sw \in BOOLEAN :
    /\ BeginCommand("rgb_switch", "rgb_switch", 0, [off |-> g * G, sw |-> sw])
    /\ clean' = clean \ (0..(G - 1) \cup {g * G + k : k \in 0..(G - 1)})

RgbSwitch ==
  /\ handler.at = "rgb_switch"
  /\ LET c == handler.arg.off + handler.i
     IN  /\ state' = [state EXCEPT ![c] = handler.arg.sw]
         /\ handler' = [handler EXCEPT !.at = "rgb_drive",
                          !.reg = IF handler.arg.sw THEN value[c] ELSE 0]
  /\ UNCHANGED <<value, duty, main, client, hot, sweeps, overlap, clean>>

RgbDrive ==
  /\ handler.at = "rgb_drive"
  /\ duty' = [duty EXCEPT ![handler.i] = handler.reg]
  /\ handler' = IF handler.i = G - 1 THEN Idle
                ELSE [handler EXCEPT !.i = @ + 1,
                        !.at = IF handler.op = "rgb" THEN "rgb_eval" ELSE "rgb_switch"]
  /\ UNCHANGED <<ch, main, client, hot, sweeps, overlap, clean>>

(***************************************************************************)
(* A number or a switch for one channel; atoi() is cut to uint8_t.         *)
(***************************************************************************)
BeginLedWide ==   \* a mutant: the number is not cut to a byte
  \E c \in Channel :
    /\ \/ \E n \in Payload : BeginCommand("led", "set", c, n)
       \/ \E sw \in BOOLEAN : BeginCommand("led_switch", "led_switch", c, sw)
    /\ UNCHANGED clean

BeginLed ==
  \E c \in Channel :
    /\ \/ \E n \in Payload : BeginCommand("led", "set", c, n % (VALUE_MAX + 1))
       \/ \E sw \in BOOLEAN : BeginCommand("led_switch", "led_switch", c, sw)
    /\ UNCHANGED clean

LedSet ==
  /\ handler.at = "set"
  /\ value' = [value EXCEPT ![handler.i] = handler.arg]
  /\ handler' = [handler EXCEPT !.at = "eval"]
  /\ UNCHANGED <<state, duty, main, client, hot, sweeps, overlap, clean>>

LedSwitchLate ==   \* a mutant: the duty is taken before the switch
  /\ handler.at = "led_switch"
  /\ state' = [state EXCEPT ![handler.i] = handler.arg]
  /\ handler' = [handler EXCEPT !.reg = Lit(handler.i), !.at = "drive"]
  /\ UNCHANGED <<value, duty, main, client, hot, sweeps, overlap, clean>>

LedSwitch ==
  /\ handler.at = "led_switch"
  /\ state' = [state EXCEPT ![handler.i] = handler.arg]
  /\ handler' = [handler EXCEPT !.at = "eval"]
  /\ UNCHANGED <<value, duty, main, client, hot, sweeps, overlap, clean>>

LedEval ==
  /\ handler.at = "eval"
  /\ handler' = [handler EXCEPT !.reg = Lit(handler.i), !.at = "drive"]
  /\ UNCHANGED <<ch, duty, main, client, hot, sweeps, overlap, clean>>

LedDrive ==
  /\ handler.at = "drive"
  /\ duty' = [duty EXCEPT ![handler.i] = handler.reg]
  /\ handler' = Idle
  /\ clean' = IF overlap THEN clean \ {handler.i} ELSE clean \cup {handler.i}
  /\ UNCHANGED <<ch, main, client, hot, sweeps, overlap>>

HandlerStep ==
  RgbStore \/ RgbEval \/ RgbSwitch \/ RgbDrive \/ LedSet \/ LedSwitch \/ LedEval \/ LedDrive

-----------------------------------------------------------------------------
Temperature ==
  /\ hot' = ~hot
  /\ UNCHANGED <<ch, duty, main, handler, client, sweeps, overlap, clean>>

Next ==
  \/ BeginAdjust \/ BeginMotion \/ BeginFlash \/ BeginReset \/ MainSweep
  \/ BeginRgb \/ BeginRgbSwitch \/ BeginLed \/ HandlerStep
  \/ Temperature

(***************************************************************************)
(* Both tasks run to the end of what they began; the temperature is looked *)
(* at once a second, for ever.                                             *)
(***************************************************************************)
Spec ==
  /\ Init /\ [][Next]_vars
  /\ WF_vars(MainSweep) /\ WF_vars(HandlerStep) /\ SF_vars(BeginAdjust)

-----------------------------------------------------------------------------
(***************************************************************************)
(* Type invariant.                                                         *)
(***************************************************************************)
TypeOK ==
  /\ value \in [Channel -> Value]
  /\ state \in [Channel -> BOOLEAN]
  /\ duty \in [Channel -> Value]
  /\ main.i \in Channel /\ handler.i \in Channel
  /\ main.reg \in Value /\ handler.reg \in Value

(***************************************************************************)
(* A channel last driven on its own, by a command for it or by a sweep,    *)
(* while the other task was idle, puts out its value if it is switched on  *)
(* and nothing if it is off: no step leaves an output behind the array.    *)
(***************************************************************************)
DutyFollows ==
  main = Idle /\ handler = Idle => \A c \in clean : duty[c] = Lit(c)

(***************************************************************************)
(* A light that stays too hot and gets no more commands is dimmed to       *)
(* nothing, and does not come back on the way.                             *)
(***************************************************************************)
CoolsDown ==
  <>[](hot /\ handler = Idle) => <>[](\A c \in Channel : value[c] = 0)

(***************************************************************************)
(* Only a command can make the sweep of an overheated light brighten a     *)
(* channel (adjust_all_channels): in a sweep the client's task stays out   *)
(* of from beginning to end, each channel that is not yet dark loses some  *)
(* of its value.                                                           *)
(***************************************************************************)
DimsAlone ==
  [][AdjustWrite /\ ~overlap => value'[main.i] = 0 \/ value'[main.i] < value[main.i]]_vars

(***************************************************************************)
(* What main.c says of the sweep of an overheated light ("adjust PWM       *)
(* values lower if needed"): it never makes a channel brighter.            *)
(***************************************************************************)
ThermalOnlyLowers ==
  [][AdjustWrite => value'[main.i] <= value[main.i]]_vars

(***************************************************************************)
(* What main.c says of the topics of the second group ("second RGB         *)
(* channel", channels 3 to 5): a command for it leaves the outputs of the  *)
(* first group alone.                                                      *)
(***************************************************************************)
OtherGroupUntouched ==
  [][RgbDrive /\ handler.arg.off = G =>
       \A c \in 0..(G - 1) : duty'[c] = duty[c]]_vars
=============================================================================
