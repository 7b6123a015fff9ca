------------------------- MODULE LedLightsTheorems -------------------------
(***************************************************************************)
(* The channels of the ESP32 light for every number of channels, every     *)
(* range of values and every payload.                                      *)
(*                                                                         *)
(* DutyFollows speaks of the moments both tasks are idle.  In between, a   *)
(* clean channel follows its output unless a task is at work on it         *)
(* (Follows); a task that works alone has evaluated the duty it is about   *)
(* to drive from what the array holds (Evaluated); and a command for a     *)
(* group has given up every channel it may touch (GivenUp).                *)
(*                                                                         *)
(* DimsAlone relates a write of the thermal sweep to the reading before    *)
(* it: what was read is still there (Remembered), since a command begun in *)
(* between sets overlap and an older one had set it before.                *)
(***************************************************************************)
EXTENDS LedLights, TLAPS

MainAt  == {"none", "read", "write", "switch", "eval", "drive"}
GroupAt == {"store", "rgb_eval", "rgb_switch", "rgb_drive"}
LedAt   == {"set", "led_switch", "eval", "drive"}

MainType ==
  /\ main \in [op : {"idle", "adjust", "on", "off", "reset", "flash"}, arg : Nat,
               at : MainAt, i : Channel, reg : Value]
  /\ main.at = "none" <=> main = Idle
  /\ main.op = "idle" => main.at = "none"

Shape(h) == h = [op |-> h.op, arg |-> h.arg, at |-> h.at, i |-> h.i, reg |-> h.reg]

HandlerType ==
  /\ Shape(handler)
  /\ handler.at \in {"none"} \cup GroupAt \cup LedAt
  /\ handler.at = "none" <=> handler = Idle
  /\ handler.i \in Channel /\ handler.reg \in Value
  /\ handler.at \in GroupAt => handler.i \in 0..(G - 1) /\ handler.arg.off \in {0, G}
  /\ handler.at \in {"store", "rgb_eval"} => handler.op = "rgb"
  /\ handler.at = "rgb_switch" => handler.op = "rgb_switch"
  /\ handler.op = "rgb_switch" => handler.arg.sw \in BOOLEAN
  /\ handler.at = "rgb_drive" => handler.op \in {"rgb", "rgb_switch"}
  /\ handler.at = "set" => handler.arg \in Value
  /\ handler.at = "led_switch" => handler.arg \in BOOLEAN

ArrayType ==
  /\ value \in [Channel -> Value]
  /\ state \in [Channel -> BOOLEAN]
  /\ duty \in [Channel -> Value]

Types == ArrayType /\ MainType /\ HandlerType

-----------------------------------------------------------------------------
LEMMA Ranges ==
  /\ G \in Nat /\ G > 0 /\ VALUE_MAX \in Nat
  /\ 0 \in Channel /\ 0 \in Value /\ FLASH \in Value
  /\ \A i \in 0..(G - 1), off \in {0, G} : i \in Channel /\ off + i \in Channel /\ off \in Channel
  /\ \A g \in Groups : g * G \in {0, G}
  /\ \A v \in Int : Clip(v) \in Value
  /\ \A n \in Int : n % (VALUE_MAX + 1) \in Value
  /\ \A c \in Channel : c # 2 * G - 1 => c + 1 \in Channel
  /\ \A v \in Value, n \in Nat : v - n \in Int
BY LightsAssumption DEF Channel, Value, Clip

LEMMA Width == G \in Nat /\ G > 0 /\ 0 \in 0..(G - 1)
BY Ranges

LEMMA LitType == ASSUME ArrayType, NEW c \in Channel PROVE Lit(c) \in Value
BY Ranges DEF ArrayType, Lit

LEMMA FirstSteps ==
  \A op \in {"adjust", "on", "off", "reset", "flash"} :
    FirstStep(op) \in MainAt /\ FirstStep(op) # "none"
BY DEF FirstStep, MainAt

LEMMA TypesInit == Init => Types
<1> SUFFICES ASSUME Init PROVE Types
  OBVIOUS
<1>1. ArrayType
  BY Ranges DEF Init, ArrayType
<1>2. MainType
  BY Ranges DEF Init, MainType, Idle, MainAt
<1>3. HandlerType
  BY Ranges DEF Init, HandlerType, Shape, Idle, GroupAt, LedAt
<1> QED BY <1>1, <1>2, <1>3 DEF Types

(***************************************************************************)
(* The main task.                                                          *)
(***************************************************************************)
LEMMA BeginMainTypes ==
  ASSUME Types, NEW op \in {"adjust", "on", "off", "reset", "flash"}, NEW arg \in Nat,
         BeginMain(op, arg)
  PROVE  Types'
<1>1. FirstStep(op) \in MainAt /\ FirstStep(op) # "none"
  BY FirstSteps
<1>2. /\ main' = [op |-> op, arg |-> arg, at |-> FirstStep(op), i |-> 0,
                  reg |-> IF op = "flash" THEN FLASH ELSE 0]
      /\ UNCHANGED <<value, state, duty, handler>>
  BY DEF BeginMain, ch
<1>3. MainType'
  BY <1>1, <1>2, Ranges DEF MainType, Idle
<1> QED BY <1>2, <1>3 DEF Types, ArrayType, HandlerType, Shape

LEMMA BeginsTypes ==
  ASSUME Types, BeginAdjust \/ BeginMotion \/ BeginFlash \/ BeginReset
  PROVE  Types'
<1>1. Steps \subseteq Nat /\ 0 \in Nat
  BY LightsAssumption
<1>2. CASE BeginAdjust BY <1>1, <1>2, BeginMainTypes DEF BeginAdjust
<1>3. CASE BeginMotion BY <1>1, <1>3, BeginMainTypes DEF BeginMotion
<1>4. CASE BeginFlash  BY <1>1, <1>4, BeginMainTypes DEF BeginFlash
<1>5. CASE BeginReset  BY <1>1, <1>5, BeginMainTypes DEF BeginReset
<1> QED BY <1>2, <1>3, <1>4, <1>5

LEMMA SweepTypes == ASSUME Types, MainSweep PROVE Types'
<1> USE DEF Types, ch
<1>1. main.i \in Channel /\ main.reg \in Value /\ main.arg \in Nat
  BY DEF MainType
<1>2. CASE AdjustRead
  <2>1. value[main.i] \in Value
    BY <1>1 DEF ArrayType
  <2>2. MainType'
    BY <1>2, <2>1 DEF AdjustRead, MainType, MainAt, Idle
  <2> QED BY <1>2, <2>2 DEF AdjustRead, ArrayType, HandlerType, Shape
<1>3. CASE AdjustWrite
  <2>1. Clip(main.reg - main.arg) \in Value
    BY <1>1, Ranges
  <2>2. ArrayType'
    BY <1>1, <1>3, <2>1 DEF AdjustWrite, ArrayType
  <2>3. MainType'
    BY <1>3 DEF AdjustWrite, MainType, MainAt, Idle
  <2> QED BY <1>3, <2>2, <2>3 DEF AdjustWrite, HandlerType, Shape
<1>4. CASE MotionSwitch
  <2>1. ArrayType'
    BY <1>1, <1>4 DEF MotionSwitch, ArrayType
  <2>2. MainType'
    BY <1>4 DEF MotionSwitch, MainType, MainAt, Idle
  <2> QED BY <1>4, <2>1, <2>2 DEF MotionSwitch, HandlerType, Shape
<1>5. CASE MainEval
  <2>1. Lit(main.i) \in Value
    BY <1>1, LitType
  <2>2. MainType'
    BY <1>5, <2>1 DEF MainEval, MainType, MainAt, Idle
  <2> QED BY <1>5, <2>2 DEF MainEval, ArrayType, HandlerType, Shape
<1>6. CASE MainDrive
  <2>1. ArrayType'
    BY <1>1, <1>6 DEF MainDrive, ArrayType
  <2>2. CASE main.i = 2 * G - 1
    <3>1. main' = Idle
      BY <1>6, <2>2 DEF MainDrive
    <3>2. MainType'
      BY <3>1, Ranges DEF MainType, MainAt, Idle
    <3> QED BY <1>6, <2>1, <3>2 DEF MainDrive, HandlerType, Shape
  <2>3. CASE main.i # 2 * G - 1
    <3>1. main' = [main EXCEPT !.i = @ + 1, !.at = FirstStep(main.op)]
      BY <1>6, <2>3 DEF MainDrive
    <3>2. main.op \in {"adjust", "on", "off", "reset", "flash"}
      BY <1>6 DEF MainDrive, MainType
    <3>3. FirstStep(main.op) \in MainAt /\ FirstStep(main.op) # "none" /\ main.i + 1 \in Channel
      BY <1>1, <2>3, <3>2, FirstSteps, Ranges
    <3>4. MainType'
      BY <3>1, <3>2, <3>3 DEF MainType, Idle
    <3> QED BY <1>6, <2>1, <3>4 DEF MainDrive, HandlerType, Shape
  <2> QED BY <2>2, <2>3
<1> QED BY <1>2, <1>3, <1>4, <1>5, <1>6 DEF MainSweep

(***************************************************************************)
(* The task of the client.                                                 *)
(***************************************************************************)
LEMMA BeginCommandTypes ==
  ASSUME Types, NEW op, NEW at \in {"store", "rgb_switch", "set", "led_switch"},
         NEW i \in Channel, NEW arg, BeginCommand(op, at, i, arg),
         \/ at = "store" /\ op = "rgb" /\ i = 0 /\ arg.off \in {0, G}
         \/ at = "rgb_switch" /\ op = "rgb_switch" /\ i = 0 /\ arg.off \in {0, G}
              /\ arg.sw \in BOOLEAN
         \/ at = "set" /\ op = "led" /\ arg \in Value
         \/ at = "led_switch" /\ op = "led_switch" /\ arg \in BOOLEAN
  PROVE  Types'
<1>1. /\ handler' = [op |-> op, arg |-> arg, at |-> at, i |-> i, reg |-> 0]
      /\ UNCHANGED <<value, state, duty, main>>
  BY DEF BeginCommand, ch
<1>2. handler'.op = op /\ handler'.arg = arg /\ handler'.at = at /\ handler'.i = i
        /\ handler'.reg = 0 /\ Shape(handler') /\ handler' # Idle
  BY <1>1 DEF Shape, Idle
<1>3. at # "none" /\ at \in GroupAt \cup LedAt /\ at # "rgb_drive" /\ 0 \in 0..(G - 1)
  BY Width DEF GroupAt, LedAt
<1>4. HandlerType'
  BY <1>2, <1>3, Ranges DEF HandlerType, GroupAt
<1> QED BY <1>1, <1>4 DEF Types, ArrayType, MainType

LEMMA CommandsTypes ==
  ASSUME Types, BeginRgb \/ BeginRgbSwitch \/ BeginLed PROVE Types'
<1>1. CASE BeginRgb
  <2>1. PICK g \in Groups, numbers \in [0..(G - 1) -> Payload] :
          BeginCommand("rgb", "store", 0, [off |-> g * G, numbers |-> numbers])
    BY <1>1 DEF BeginRgb
  <2>2. [off |-> g * G, numbers |-> numbers].off \in {0, G} /\ 0 \in Channel
    BY Ranges
  <2> QED BY <2>1, <2>2, BeginCommandTypes
<1>2. CASE BeginRgbSwitch
  <2>1. PICK g \in Groups, sw \in BOOLEAN :
          BeginCommand("rgb_switch", "rgb_switch", 0, [off |-> g * G, sw |-> sw])
    BY <1>2 DEF BeginRgbSwitch
  <2>2. [off |-> g * G, sw |-> sw].off \in {0, G} /\ 0 \in Channel
          /\ [off |-> g * G, sw |-> sw].sw \in BOOLEAN
    BY Ranges
  <2> QED BY <2>1, <2>2, BeginCommandTypes
<1>3. CASE BeginLed
  <2>1. PICK c \in Channel :
          \/ \E n \in Payload : BeginCommand("led", "set", c, n % (VALUE_MAX + 1))
          \/ \E sw \in BOOLEAN : BeginCommand("led_switch", "led_switch", c, sw)
    BY <1>3 DEF BeginLed
  <2>2. ASSUME NEW n \in Payload, BeginCommand("led", "set", c, n % (VALUE_MAX + 1))
        PROVE  Types'
    <3>1. n % (VALUE_MAX + 1) \in Value
      BY Ranges, LightsAssumption
    <3> HIDE DEF Types
    <3> QED BY <2>2, <3>1, BeginCommandTypes DEF GroupAt
  <2>3. ASSUME NEW sw \in BOOLEAN, BeginCommand("led_switch", "led_switch", c, sw)
        PROVE  Types'
    BY <2>3, BeginCommandTypes DEF GroupAt
  <2> QED BY <2>1, <2>2, <2>3
<1> QED BY <1>1, <1>2, <1>3

(***************************************************************************)
(* A step that goes on with the command keeps its operation and argument.  *)
(***************************************************************************)
LEMMA Goes ==
  ASSUME Shape(handler), NEW at \in GroupAt \cup LedAt, NEW i \in Channel, NEW reg \in Value,
         handler' = [handler EXCEPT !.at = at, !.i = i, !.reg = reg]
  PROVE  /\ handler'.op = handler.op /\ handler'.arg = handler.arg
         /\ handler'.at = at /\ handler'.i = i /\ handler'.reg = reg
         /\ Shape(handler')
         /\ handler' # Idle
BY DEF Shape, Idle, GroupAt, LedAt

LEMMA HandlerTypes == ASSUME Types, HandlerStep PROVE Types'
<1> USE DEF Types, ch, GroupAt, LedAt
<1>0. Shape(handler) /\ handler.i \in Channel /\ handler.reg \in Value
  BY DEF HandlerType
<1> DEFINE h == handler
<1>1. CASE RgbStore
  <2>1. h.i \in 0..(G - 1) /\ h.arg.off \in {0, G} /\ h.at = "store"
    BY <1>1 DEF RgbStore, HandlerType
  <2>2. ArrayType'
    BY <1>1, <2>1, Ranges DEF RgbStore, ArrayType
  <2>3. CASE h.i = G - 1
    <3>1. handler' = [handler EXCEPT !.at = "rgb_eval", !.i = 0, !.reg = h.reg]
      BY <1>0, <1>1, <2>3 DEF RgbStore, Shape
    <3>2. HandlerType'
      <4>1. /\ handler'.op = h.op /\ handler'.arg = h.arg /\ handler'.at = "rgb_eval"
            /\ handler'.i = 0 /\ handler'.reg = h.reg /\ Shape(handler') /\ handler' # Idle
        BY <1>0, <3>1, Goes, Ranges
      <4>2. h.op = "rgb" /\ 0 \in Channel
        BY <2>1, Ranges DEF HandlerType
      <4> QED BY <1>0, <2>1, <4>1, <4>2, Width DEF HandlerType
    <3> QED BY <1>1, <2>2, <3>2 DEF RgbStore, MainType
  <2>4. CASE h.i # G - 1
    <3>1. handler' = [handler EXCEPT !.at = "store", !.i = h.i + 1, !.reg = h.reg]
      BY <1>0, <1>1, <2>1, <2>4 DEF RgbStore, Shape
    <3>2. h.i + 1 \in 0..(G - 1)
      BY <2>1, <2>4, Width
    <3>3. HandlerType'
      BY <1>0, <2>1, <3>1, <3>2, Goes, Ranges DEF HandlerType
    <3> QED BY <1>1, <2>2, <3>3 DEF RgbStore, MainType
  <2> QED BY <2>3, <2>4
<1>2. CASE RgbEval
  <2>1. h.i \in 0..(G - 1) /\ h.arg.off \in {0, G} /\ h.at = "rgb_eval"
    BY <1>2 DEF RgbEval, HandlerType
  <2> DEFINE r == IF state[h.arg.off] THEN value[h.arg.off + h.i] ELSE 0
  <2>2. r \in Value
    BY <2>1, Ranges DEF ArrayType
  <2>3. handler' = [handler EXCEPT !.at = "rgb_drive", !.i = h.i, !.reg = r]
    BY <1>0, <1>2 DEF RgbEval, Shape
  <2> HIDE DEF r
  <2>4. h.op = "rgb"
    BY <2>1 DEF HandlerType
  <2>5. HandlerType'
    <3>1. /\ handler'.op = h.op /\ handler'.arg = h.arg /\ handler'.at = "rgb_drive"
          /\ handler'.i = h.i /\ handler'.reg = r /\ Shape(handler') /\ handler' # Idle
      BY <1>0, <2>2, <2>3, Goes
    <3> QED BY <1>0, <2>1, <2>2, <2>4, <3>1 DEF HandlerType
  <2> QED BY <1>2, <2>5 DEF RgbEval, ArrayType, MainType
<1>3. CASE RgbSwitch
  <2>1. h.i \in 0..(G - 1) /\ h.arg.off \in {0, G} /\ h.at = "rgb_switch"
          /\ h.op = "rgb_switch" /\ h.arg.sw \in BOOLEAN
    BY <1>3 DEF RgbSwitch, HandlerType
  <2> DEFINE c == h.arg.off + h.i
             r == IF h.arg.sw THEN value[c] ELSE 0
  <2>2. c \in Channel
    BY <2>1, Ranges
  <2>3. r \in Value
    BY <2>2, Ranges DEF ArrayType
  <2>4. state' = [state EXCEPT ![c] = h.arg.sw] /\ UNCHANGED <<value, duty, main>>
    BY <1>3 DEF RgbSwitch
  <2>5. handler' = [handler EXCEPT !.at = "rgb_drive", !.i = h.i, !.reg = r]
    BY <1>0, <1>3 DEF RgbSwitch, Shape
  <2> HIDE DEF r, c
  <2>6. ArrayType'
    BY <2>1, <2>2, <2>4 DEF ArrayType
  <2>7. HandlerType'
    <3>1. /\ handler'.op = h.op /\ handler'.arg = h.arg /\ handler'.at = "rgb_drive"
          /\ handler'.i = h.i /\ handler'.reg = r /\ Shape(handler') /\ handler' # Idle
      BY <1>0, <2>3, <2>5, Goes
    <3> QED BY <1>0, <2>1, <2>3, <3>1 DEF HandlerType
  <2> QED BY <2>4, <2>6, <2>7 DEF MainType
<1>4. CASE RgbDrive
  <2>1. h.i \in 0..(G - 1) /\ h.arg.off \in {0, G} /\ h.at = "rgb_drive"
          /\ h.op \in {"rgb", "rgb_switch"} /\ UNCHANGED <<value, state, main>>
    BY <1>4 DEF RgbDrive, HandlerType
  <2>2. ArrayType'
    BY <1>0, <1>4, <2>1 DEF RgbDrive, ArrayType
  <2>3. CASE h.i = G - 1
    <3>1. handler' = Idle
      BY <1>4, <2>3 DEF RgbDrive
    <3>2. HandlerType'
      BY <3>1, Ranges DEF HandlerType, Idle, Shape
    <3> QED BY <2>1, <2>2, <3>2 DEF MainType
  <2>4. CASE h.i # G - 1
    <3> DEFINE at == IF h.op = "rgb" THEN "rgb_eval" ELSE "rgb_switch"
    <3>1. handler' = [handler EXCEPT !.at = at, !.i = h.i + 1, !.reg = h.reg]
      BY <1>0, <1>4, <2>4 DEF RgbDrive, Shape
    <3>2. h.i + 1 \in 0..(G - 1) /\ h.i + 1 \in Channel
      BY <1>0, <2>1, <2>4, Width DEF Channel
    <3>3. at # "none" /\ at \in {"rgb_eval", "rgb_switch"}
            /\ (at = "rgb_eval" <=> h.op = "rgb")
      OBVIOUS
    <3> HIDE DEF at
    <3>4. /\ handler'.op = h.op /\ handler'.arg = h.arg /\ handler'.at = at
          /\ handler'.i = h.i + 1 /\ handler'.reg = h.reg /\ Shape(handler') /\ handler' # Idle
      BY <1>0, <3>1, <3>2, <3>3, Goes
    <3>5. HandlerType'
      BY <1>0, <2>1, <3>2, <3>3, <3>4 DEF HandlerType
    <3> QED BY <2>1, <2>2, <3>5 DEF MainType
  <2> QED BY <2>3, <2>4
<1>5. CASE LedSet
  <2>1. h.arg \in Value /\ h.at = "set"
    BY <1>5 DEF LedSet, HandlerType
  <2>2. ArrayType'
    BY <1>0, <1>5, <2>1 DEF LedSet, ArrayType
  <2>3. handler' = [handler EXCEPT !.at = "eval", !.i = h.i, !.reg = h.reg]
    BY <1>0, <1>5 DEF LedSet, Shape
  <2>4. /\ handler'.op = h.op /\ handler'.arg = h.arg /\ handler'.at = "eval"
        /\ handler'.i = h.i /\ handler'.reg = h.reg /\ Shape(handler') /\ handler' # Idle
    BY <1>0, <2>3, Goes
  <2>5. HandlerType'
    BY <1>0, <2>4 DEF HandlerType
  <2> QED BY <1>5, <2>2, <2>5 DEF LedSet, MainType
<1>6. CASE LedSwitch
  <2>1. h.arg \in BOOLEAN /\ h.at = "led_switch"
    BY <1>6 DEF LedSwitch, HandlerType
  <2>2. ArrayType'
    BY <1>0, <1>6, <2>1 DEF LedSwitch, ArrayType
  <2>3. handler' = [handler EXCEPT !.at = "eval", !.i = h.i, !.reg = h.reg]
    BY <1>0, <1>6 DEF LedSwitch, Shape
  <2>4. /\ handler'.op = h.op /\ handler'.arg = h.arg /\ handler'.at = "eval"
        /\ handler'.i = h.i /\ handler'.reg = h.reg /\ Shape(handler') /\ handler' # Idle
    BY <1>0, <2>3, Goes
  <2>5. HandlerType'
    BY <1>0, <2>4 DEF HandlerType
  <2> QED BY <1>6, <2>2, <2>5 DEF LedSwitch, MainType
<1>7. CASE LedEval
  <2>1. Lit(h.i) \in Value
    BY <1>0, LitType
  <2>2. handler' = [handler EXCEPT !.at = "drive", !.i = h.i, !.reg = Lit(h.i)]
    BY <1>0, <1>7 DEF LedEval, Shape
  <2>3. /\ handler'.op = h.op /\ handler'.arg = h.arg /\ handler'.at = "drive"
        /\ handler'.i = h.i /\ handler'.reg = Lit(h.i) /\ Shape(handler') /\ handler' # Idle
    BY <1>0, <2>1, <2>2, Goes
  <2>4. HandlerType'
    BY <1>0, <2>1, <2>3 DEF HandlerType
  <2> QED BY <1>7, <2>4 DEF LedEval, ArrayType, MainType
<1>8. CASE LedDrive
  <2>1. ArrayType'
    BY <1>0, <1>8 DEF LedDrive, ArrayType
  <2>2. HandlerType'
    BY <1>8, Ranges DEF LedDrive, HandlerType, Idle, Shape
  <2> QED BY <1>8, <2>1, <2>2 DEF LedDrive, MainType
<1> QED BY <1>1, <1>2, <1>3, <1>4, <1>5, <1>6, <1>7, <1>8 DEF HandlerStep

LEMMA TypesStep == Types /\ [Next]_vars => Types'
<1> SUFFICES ASSUME Types, [Next]_vars PROVE Types'
  OBVIOUS
<1>1. CASE Temperature
  BY <1>1 DEF Temperature, Types, ArrayType, MainType, HandlerType, Shape, ch
<1>2. CASE UNCHANGED vars
  BY <1>2 DEF vars, Types, ArrayType, MainType, HandlerType, Shape, ch
<1> QED BY <1>1, <1>2, BeginsTypes, SweepTypes, CommandsTypes, HandlerTypes DEF Next

(***************************************************************************)
(* Values and duties stay within a byte, and both tasks within the array,  *)
(* whatever numbers the commands carry.                                    *)
(***************************************************************************)
THEOREM LightsTypes == Spec => []TypeOK
<1>1. Types => TypeOK
  BY DEF Types, ArrayType, MainType, HandlerType, TypeOK
<1> QED BY TypesInit, TypesStep, <1>1, PTL DEF Spec

-----------------------------------------------------------------------------
(***************************************************************************)
(* The parts of the invariant behind DutyFollows.                          *)
(***************************************************************************)
Overlapped == main # Idle /\ handler # Idle => overlap

MainOn(c)    == main.at # "none" /\ main.i = c
HandlerOn(c) == handler.at \in LedAt /\ handler.i = c

Follows == \A c \in clean : duty[c] = Lit(c) \/ MainOn(c) \/ HandlerOn(c)

Evaluated ==
  /\ main.at = "drive" /\ main.op # "flash" /\ ~overlap => main.reg = Lit(main.i)
  /\ handler.at = "drive" /\ ~overlap => handler.reg = Lit(handler.i)

OfGroup(off) == 0..(G - 1) \cup {off + k : k \in 0..(G - 1)}

GivenUp == handler.at \in GroupAt => clean \cap OfGroup(handler.arg.off) = {}

Inv == Types /\ clean \subseteq Channel /\ Overlapped /\ Follows /\ Evaluated /\ GivenUp

(***************************************************************************)
(* A task at work is not idle, and an idle one is nowhere.                 *)
(***************************************************************************)
LEMMA AtWork ==
  ASSUME Types
  PROVE  /\ main.at # "none" <=> main # Idle
         /\ handler.at # "none" <=> handler # Idle
         /\ handler.at \in GroupAt \cup LedAt <=> handler # Idle
         /\ main.i \in Channel /\ handler.i \in Channel
BY DEF Types, MainType, HandlerType, GroupAt, LedAt

LEMMA InvInit == Init => Inv
<1> SUFFICES ASSUME Init PROVE Inv
  OBVIOUS
<1>1. Types BY TypesInit
<1>2. Overlapped /\ Evaluated /\ GivenUp
  BY DEF Init, Overlapped, Evaluated, GivenUp, GroupAt, Idle
<1>3. Follows
  BY DEF Init, Follows, Lit
<1> QED BY <1>1, <1>2, <1>3 DEF Inv, Init

LEMMA BeginMainInv ==
  ASSUME Inv, Types', NEW op \in {"adjust", "on", "off", "reset", "flash"}, NEW arg,
         BeginMain(op, arg)
  PROVE  Inv'
<1>1. /\ main = Idle /\ main'.op = op /\ main'.at = FirstStep(op)
      /\ overlap' = (handler # Idle)
      /\ UNCHANGED <<value, state, duty, handler, clean>>
  BY DEF BeginMain, ch
<1>2. main.at = "none" /\ (FirstStep(op) = "drive" => op = "flash")
  BY <1>1, AtWork DEF Idle, Inv, FirstStep
<1>3. Overlapped'
  BY <1>1 DEF Overlapped
<1>4. Follows'
  BY <1>1, <1>2 DEF Inv, Follows, MainOn, HandlerOn, Lit
<1>5. Evaluated'
  <2>1. handler.at = "drive" => handler # Idle
    BY DEF Idle
  <2> QED BY <1>1, <1>2, <2>1 DEF Inv, Evaluated, Lit
<1>6. GivenUp'
  BY <1>1 DEF Inv, GivenUp
<1> QED BY <1>1, <1>3, <1>4, <1>5, <1>6 DEF Inv

LEMMA BeginsInv ==
  ASSUME Inv, Types', BeginAdjust \/ BeginMotion \/ BeginFlash \/ BeginReset
  PROVE  Inv'
<1>2. CASE BeginAdjust BY <1>2, BeginMainInv DEF BeginAdjust
<1>3. CASE BeginMotion BY <1>3, BeginMainInv DEF BeginMotion
<1>4. CASE BeginFlash  BY <1>4, BeginMainInv DEF BeginFlash
<1>5. CASE BeginReset  BY <1>5, BeginMainInv DEF BeginReset
<1> QED BY <1>2, <1>3, <1>4, <1>5

LEMMA SweepInv == ASSUME Inv, Types', MainSweep PROVE Inv'
<1>0. /\ main.at # "none" /\ main # Idle /\ main.i \in Channel
      /\ UNCHANGED <<handler, overlap>>
      /\ main.op \in {"idle", "adjust", "on", "off", "reset", "flash"}
  <2>1. main.at # "none"
    BY DEF MainSweep, AdjustRead, AdjustWrite, MotionSwitch, MainEval, MainDrive
  <2>2. Types
    BY DEF Inv
  <2>3. UNCHANGED <<handler, overlap>>
    BY DEF MainSweep, AdjustRead, AdjustWrite, MotionSwitch, MainEval, MainDrive
  <2> QED BY <2>1, <2>2, <2>3, AtWork DEF Types, MainType
<1>1. handler # Idle => overlap
  BY <1>0 DEF Inv, Overlapped
<1>2. Overlapped'
  BY <1>0, <1>1 DEF Overlapped
<1>3. handler.at = "drive" => overlap
  BY <1>1 DEF Idle
<1>4. ASSUME ~MainDrive
      PROVE  /\ \A c \in Channel : c # main.i => value'[c] = value[c] /\ state'[c] = state[c]
             /\ main'.at # "none" /\ main'.i = main.i /\ main'.op = main.op
             /\ UNCHANGED <<duty, clean>>
             /\ main'.at = "drive" => MainEval
  <2>1. Types
    BY DEF Inv
  <2>2. CASE AdjustRead
    BY <2>1, <2>2 DEF AdjustRead, ch, Types, MainType, MainEval
  <2>3. CASE AdjustWrite
    BY <1>0, <2>1, <2>3 DEF AdjustWrite, Types, MainType, ArrayType
  <2>4. CASE MotionSwitch
    BY <1>0, <2>1, <2>4 DEF MotionSwitch, Types, MainType, ArrayType
  <2>5. CASE MainEval
    BY <2>1, <2>5 DEF MainEval, ch, Types, MainType
  <2> QED BY <1>4, <2>2, <2>3, <2>4, <2>5 DEF MainSweep
<1>5. CASE ~MainDrive
  <2>1. Follows'
    BY <1>0, <1>4, <1>5 DEF Inv, Follows, MainOn, HandlerOn, Lit
  <2>2. Evaluated'
    <3>1. CASE MainEval
      <4>1. main'.reg = Lit(main.i) /\ UNCHANGED <<value, state>> /\ main'.i = main.i
        BY <3>1, <1>0 DEF MainEval, ch, Inv, Types, MainType
      <4> QED BY <1>0, <1>3, <4>1 DEF Evaluated, Lit
    <3>2. CASE ~MainEval
      BY <1>0, <1>3, <1>4, <1>5, <3>2 DEF Evaluated
    <3> QED BY <3>1, <3>2
  <2>3. GivenUp'
    BY <1>0, <1>4, <1>5 DEF Inv, GivenUp
  <2> QED BY <1>2, <1>4, <1>5, <2>1, <2>2, <2>3 DEF Inv
<1>6. CASE MainDrive
  <2>1. /\ main.at = "drive"
        /\ duty' = [duty EXCEPT ![main.i] = main.reg]
        /\ UNCHANGED <<value, state>>
        /\ clean' = IF overlap \/ main.op = "flash" THEN clean \ {main.i}
                    ELSE clean \cup {main.i}
        /\ main' = IF main.i = 2 * G - 1 THEN Idle
                   ELSE [main EXCEPT !.i = @ + 1, !.at = FirstStep(main.op)]
    BY <1>6 DEF MainDrive, ch
  <2>2. ArrayType
    BY DEF Inv, Types
  <2>3. clean' \subseteq Channel
    BY <1>0, <2>1 DEF Inv
  <2>4. duty'[main.i] = main.reg /\ \A c \in Channel : c # main.i => duty'[c] = duty[c]
    BY <1>0, <2>1, <2>2 DEF ArrayType
  <2>5. Follows'
    <3> SUFFICES ASSUME NEW c \in clean'
                 PROVE  duty'[c] = Lit(c) \/ HandlerOn(c)
      BY <1>0, <2>1 DEF Follows, Lit, HandlerOn
    <3>1. CASE c = main.i
      <4>1. ~overlap /\ main.op # "flash"
        BY <2>1, <3>1
      <4> QED BY <2>1, <2>4, <3>1, <4>1 DEF Inv, Evaluated
    <3>2. CASE c # main.i
      <4>1. c \in clean /\ c \in Channel
        BY <2>1, <2>3, <3>2
      <4> QED BY <2>4, <3>2, <4>1 DEF Inv, Follows, MainOn
    <3> QED BY <3>1, <3>2
  <2>6. Evaluated'
    <3>1. main'.at = "drive" => main'.op = "flash"
      <4>1. CASE main.i = 2 * G - 1
        BY <2>1, <4>1 DEF Idle
      <4>2. CASE main.i # 2 * G - 1
        <5>1. main'.at = FirstStep(main.op) /\ main'.op = main.op
          BY <2>1, <4>2 DEF Inv, Types, MainType
        <5>2. main.op # "idle"
          BY <1>0 DEF Inv, Types, MainType
        <5> QED BY <1>0, <5>1, <5>2 DEF FirstStep
      <4> QED BY <4>1, <4>2
    <3> QED BY <1>0, <1>3, <3>1 DEF Evaluated
  <2>7. GivenUp'
    <3> SUFFICES ASSUME handler.at \in GroupAt
                 PROVE  clean' \cap OfGroup(handler.arg.off) = {}
      BY <1>0 DEF GivenUp, OfGroup
    <3>1. overlap
      BY <1>1 DEF Idle, GroupAt
    <3> QED BY <2>1, <3>1 DEF Inv, GivenUp
  <2> QED BY <1>2, <2>3, <2>5, <2>6, <2>7 DEF Inv
<1> QED BY <1>5, <1>6

(***************************************************************************)
(* The task of the client.                                                 *)
(***************************************************************************)
LEMMA BeginCommandInv ==
  ASSUME Inv, Types', NEW op, NEW at \in {"store", "rgb_switch", "set", "led_switch"},
         NEW i, NEW arg, BeginCommand(op, at, i, arg),
         clean' \subseteq clean,
         at \in GroupAt => clean' \cap OfGroup(arg.off) = {}
  PROVE  Inv'
<1>1. /\ handler = Idle /\ handler'.at = at /\ handler'.arg = arg
      /\ overlap' = (main # Idle)
      /\ UNCHANGED <<value, state, duty, main>>
  BY DEF BeginCommand, ch
<1>2. Overlapped'
  BY <1>1 DEF Overlapped
<1>3. Follows'
  BY <1>1 DEF Inv, Follows, MainOn, HandlerOn, Lit, Idle, LedAt
<1>4. Evaluated'
  <2>1. main.at = "drive" => main # Idle
    BY DEF Idle
  <2>2. handler'.at # "drive"
    BY <1>1
  <2> QED BY <1>1, <2>1, <2>2 DEF Inv, Evaluated
<1>5. GivenUp'
  BY <1>1 DEF GivenUp, OfGroup
<1> QED BY <1>2, <1>3, <1>4, <1>5 DEF Inv

LEMMA CommandsInv == ASSUME Inv, Types', BeginRgb \/ BeginRgbSwitch \/ BeginLed PROVE Inv'
<1>1. CASE BeginRgb
  <2>1. PICK g \in Groups, numbers \in [0..(G - 1) -> Payload] :
          /\ BeginCommand("rgb", "store", 0, [off |-> g * G, numbers |-> numbers])
          /\ clean' = clean \ OfGroup(g * G)
    BY <1>1 DEF BeginRgb, OfGroup
  <2>2. /\ [off |-> g * G, numbers |-> numbers].off = g * G
        /\ clean' \subseteq clean /\ clean' \cap OfGroup(g * G) = {}
    BY <2>1
  <2> QED BY <2>1, <2>2, BeginCommandInv
<1>2. CASE BeginRgbSwitch
  <2>1. PICK g \in Groups, sw \in BOOLEAN :
          /\ BeginCommand("rgb_switch", "rgb_switch", 0, [off |-> g * G, sw |-> sw])
          /\ clean' = clean \ OfGroup(g * G)
    BY <1>2 DEF BeginRgbSwitch, OfGroup
  <2>2. /\ [off |-> g * G, sw |-> sw].off = g * G
        /\ clean' \subseteq clean /\ clean' \cap OfGroup(g * G) = {}
    BY <2>1
  <2> QED BY <2>1, <2>2, BeginCommandInv
<1>3. CASE BeginLed
  BY <1>3, BeginCommandInv DEF BeginLed, GroupAt
<1> QED BY <1>1, <1>2, <1>3

(***************************************************************************)
(* A step on a group touches only channels that have been given up.        *)
(***************************************************************************)
LEMMA GroupInv ==
  ASSUME Inv, Types', RgbStore \/ RgbEval \/ RgbSwitch \/ RgbDrive
  PROVE  Inv'
<1> DEFINE h == handler
<1>1. /\ h.at \in GroupAt /\ h # Idle /\ h.i \in 0..(G - 1) /\ h.arg.off \in {0, G}
      /\ Shape(h) /\ UNCHANGED <<main, overlap, clean>>
  BY DEF Inv, Types, HandlerType, RgbStore, RgbEval, RgbSwitch, RgbDrive, GroupAt, Idle
<1>2. main # Idle => overlap
  BY <1>1 DEF Inv, Overlapped
<1>3. \A c \in clean : c # h.i /\ c # h.arg.off + h.i /\ c \in Channel
  BY <1>1 DEF Inv, GivenUp, OfGroup
<1>4. \A c \in clean : /\ value'[c] = value[c] /\ state'[c] = state[c]
                       /\ duty'[c] = duty[c]
  <2>1. ArrayType
    BY DEF Inv, Types
  <2>2. CASE RgbStore
    BY <1>3, <2>1, <2>2 DEF ArrayType, RgbStore
  <2>3. CASE RgbEval
    BY <2>3 DEF RgbEval, ch
  <2>4. CASE RgbSwitch
    BY <1>3, <2>1, <2>4 DEF ArrayType, RgbSwitch
  <2>5. CASE RgbDrive
    BY <1>3, <2>1, <2>5 DEF ArrayType, RgbDrive, ch
  <2> QED BY <2>2, <2>3, <2>4, <2>5
<1>5. handler'.at \notin LedAt /\ (handler'.at \in GroupAt => handler'.arg = h.arg)
  <2>1. CASE RgbStore
    BY <1>1, <2>1 DEF RgbStore, GroupAt, LedAt, Shape
  <2>2. CASE RgbEval
    BY <1>1, <2>2 DEF RgbEval, GroupAt, LedAt, Shape
  <2>3. CASE RgbSwitch
    BY <1>1, <2>3 DEF RgbSwitch, GroupAt, LedAt, Shape
  <2>4. CASE RgbDrive
    <3>1. CASE h.i = G - 1
      BY <2>4, <3>1 DEF RgbDrive, Idle, GroupAt, LedAt
    <3>2. CASE h.i # G - 1
      BY <1>1, <2>4, <3>2 DEF RgbDrive, GroupAt, LedAt, Shape
    <3> QED BY <3>1, <3>2
  <2> QED BY <2>1, <2>2, <2>3, <2>4
<1>6. Overlapped'
  BY <1>1, <1>2 DEF Overlapped
<1>7. Follows'
  BY <1>1, <1>4 DEF Inv, Follows, MainOn, HandlerOn, Lit, GroupAt, LedAt
<1>8. Evaluated'
  <2>1. main.at = "drive" => overlap
    BY <1>2 DEF Idle
  <2> QED BY <1>1, <1>5, <2>1 DEF Evaluated, LedAt
<1>9. GivenUp'
  BY <1>1, <1>5 DEF Inv, GivenUp
<1> QED BY <1>1, <1>6, <1>7, <1>8, <1>9 DEF Inv

LEMMA LedInv == ASSUME Inv, Types', LedSet \/ LedSwitch \/ LedEval PROVE Inv'
<1> DEFINE h == handler
<1>1. /\ h.at \in LedAt /\ h # Idle /\ h.i \in Channel /\ Shape(h)
      /\ handler'.at \in {"eval", "drive"} /\ handler'.i = h.i
      /\ UNCHANGED <<main, duty, overlap, clean>>
  BY DEF Inv, Types, HandlerType, LedSet, LedSwitch, LedEval, LedAt, Idle, Shape
<1>2. main # Idle => overlap
  BY <1>1 DEF Inv, Overlapped
<1>3. \A c \in Channel : c # h.i => value'[c] = value[c] /\ state'[c] = state[c]
  BY DEF Inv, Types, ArrayType, LedSet, LedSwitch, LedEval, ch
<1>4. handler'.at = "drive" => handler'.reg = Lit(h.i) /\ UNCHANGED <<value, state>>
  BY <1>1 DEF LedSet, LedSwitch, LedEval, ch, Shape
<1>5. Overlapped'
  BY <1>1, <1>2 DEF Overlapped
<1>6. Follows'
  BY <1>1, <1>3 DEF Inv, Follows, MainOn, HandlerOn, Lit, LedAt
<1>7. Evaluated'
  <2>1. main.at = "drive" => overlap
    BY <1>2 DEF Idle
  <2> QED BY <1>1, <1>4, <2>1 DEF Evaluated, Lit
<1>8. GivenUp'
  BY <1>1 DEF GivenUp, GroupAt
<1> QED BY <1>1, <1>5, <1>6, <1>7, <1>8 DEF Inv

LEMMA LedDriveInv == ASSUME Inv, Types', LedDrive PROVE Inv'
<1> DEFINE h == handler
<1>1. /\ h.at = "drive" /\ h # Idle /\ h.i \in Channel
      /\ duty' = [duty EXCEPT ![h.i] = h.reg] /\ handler' = Idle
      /\ clean' = IF overlap THEN clean \ {h.i} ELSE clean \cup {h.i}
      /\ UNCHANGED <<value, state, main, overlap>>
  BY DEF Inv, Types, HandlerType, LedDrive, Idle, ch
<1>2. main # Idle => overlap
  BY <1>1 DEF Inv, Overlapped
<1>3. clean' \subseteq Channel
  BY <1>1 DEF Inv
<1>4. Overlapped' /\ GivenUp'
  BY <1>1 DEF Overlapped, GivenUp, Idle, GroupAt
<1>5. Follows'
  <2> SUFFICES ASSUME NEW c \in clean' PROVE duty'[c] = Lit(c) \/ MainOn(c)
    BY <1>1 DEF Follows, Lit, MainOn
  <2>1. CASE c = h.i
    <3>1. ~overlap
      BY <1>1, <2>1
    <3>2. duty'[c] = h.reg
      BY <1>1, <2>1 DEF Inv, Types, ArrayType
    <3> QED BY <1>1, <2>1, <3>1, <3>2 DEF Inv, Evaluated
  <2>2. CASE c # h.i
    <3>1. c \in clean /\ c \in Channel
      BY <1>1, <1>3, <2>2
    <3>2. duty'[c] = duty[c]
      BY <1>1, <2>2, <3>1 DEF Inv, Types, ArrayType
    <3> QED BY <2>2, <3>1, <3>2 DEF Inv, Follows, HandlerOn
  <2> QED BY <2>1, <2>2
<1>6. Evaluated'
  <2>1. main.at = "drive" => overlap
    BY <1>2 DEF Idle
  <2> QED BY <1>1, <2>1 DEF Evaluated, Idle
<1> QED BY <1>3, <1>4, <1>5, <1>6 DEF Inv

LEMMA InvStep == Inv /\ [Next]_vars => Inv'
<1> SUFFICES ASSUME Inv, [Next]_vars PROVE Inv'
  OBVIOUS
<1>1. Types'
  BY TypesStep DEF Inv
<1>2. CASE Temperature \/ UNCHANGED vars
  <2>1. UNCHANGED <<value, state, duty, main, handler, overlap, clean>>
    BY <1>2 DEF Temperature, vars, ch
  <2> QED BY <1>1, <2>1 DEF Inv, Overlapped, Follows, MainOn, HandlerOn, Evaluated, GivenUp, Lit
<1>3. CASE HandlerStep
  BY <1>1, <1>3, GroupInv, LedInv, LedDriveInv DEF HandlerStep
<1> QED BY <1>1, <1>2, <1>3, BeginsInv, SweepInv, CommandsInv DEF Next

(***************************************************************************)
(* However many channels there are, a channel last driven on its own puts  *)
(* out what the array says once both tasks are idle.                       *)
(***************************************************************************)
THEOREM LightsDutyFollows == Spec => []DutyFollows
<1>1. Inv => DutyFollows
  <2> SUFFICES ASSUME Inv, main = Idle, handler = Idle, NEW c \in clean
               PROVE  duty[c] = Lit(c)
    BY DEF DutyFollows
  <2>1. main.at = "none" /\ handler.at \notin LedAt
    BY DEF Idle, LedAt
  <2> QED BY <2>1 DEF Inv, Follows, MainOn, HandlerOn
<1> QED BY InvInit, InvStep, <1>1, PTL DEF Spec

-----------------------------------------------------------------------------
(***************************************************************************)
(* What a sweep has read is still there when it writes, unless a command   *)
(* came between.                                                           *)
(***************************************************************************)
Remembered == main.at = "write" /\ ~overlap => main.reg = value[main.i]

LEMMA RememberedStep == Inv /\ Remembered /\ [Next]_vars => Remembered'
<1> SUFFICES ASSUME Inv, Remembered, [Next]_vars, main'.at = "write", ~overlap'
             PROVE  main'.reg = value'[main'.i]
  BY DEF Remembered
<1>1. Types
  BY DEF Inv
<1>2. CASE BeginAdjust \/ BeginMotion \/ BeginFlash \/ BeginReset
  <2>1. \E op \in {"adjust", "on", "off", "reset", "flash"} : \E arg : BeginMain(op, arg)
    BY <1>2 DEF BeginAdjust, BeginMotion, BeginFlash, BeginReset
  <2>2. \E op \in {"adjust", "on", "off", "reset", "flash"} : main'.at = FirstStep(op)
    BY <2>1 DEF BeginMain
  <2>3. main'.at # "write"
    BY <2>2 DEF FirstStep
  <2> QED BY <2>3
<1>3. CASE MainSweep
  <2>1. AdjustRead
    <3>1. CASE AdjustWrite BY <1>1, <3>1 DEF AdjustWrite, Types, MainType
    <3>2. CASE MotionSwitch BY <1>1, <3>2 DEF MotionSwitch, Types, MainType
    <3>3. CASE MainEval BY <1>1, <3>3 DEF MainEval, Types, MainType
    <3>4. CASE MainDrive
      <4>1. CASE main.i = 2 * G - 1 BY <3>4, <4>1 DEF MainDrive, Idle
      <4>2. CASE main.i # 2 * G - 1
        <5>1. main'.at = FirstStep(main.op) /\ main.op \in {"adjust", "on", "off", "reset", "flash"}
          BY <1>1, <3>4, <4>2 DEF MainDrive, Types, MainType
        <5> QED BY <5>1 DEF FirstStep
      <4> QED BY <4>1, <4>2
    <3> QED BY <1>3, <3>1, <3>2, <3>3, <3>4 DEF MainSweep
  <2> QED BY <1>1, <2>1 DEF AdjustRead, ch, Types, MainType
<1>4. CASE BeginRgb \/ BeginRgbSwitch \/ BeginLed
  <2>1. UNCHANGED <<main, value>> /\ handler = Idle /\ overlap' = (main # Idle)
    BY <1>4 DEF BeginRgb, BeginRgbSwitch, BeginLed, BeginCommand, ch
  <2>2. main = Idle
    BY <2>1
  <2> QED BY <2>1, <2>2 DEF Idle
<1>5. CASE HandlerStep
  <2>1. UNCHANGED <<main, overlap>> /\ handler.at # "none"
    BY <1>5 DEF HandlerStep, RgbStore, RgbEval, RgbSwitch, RgbDrive, LedSet, LedSwitch, LedEval,
                LedDrive
  <2>2. main # Idle /\ handler # Idle
    BY <2>1 DEF Idle
  <2> QED BY <2>1, <2>2 DEF Inv, Overlapped
<1>6. CASE Temperature \/ UNCHANGED vars
  BY <1>6 DEF Temperature, vars, ch, Remembered
<1> QED BY <1>2, <1>3, <1>4, <1>5, <1>6 DEF Next

(***************************************************************************)
(* Of a sweep, the operation is adjust and the argument one of the steps.  *)
(***************************************************************************)
Dimming == main.at \in {"read", "write"} => main.op = "adjust"

ByStep == main.op = "adjust" => main.arg \in Steps

LEMMA DimmingStep == Types /\ Dimming /\ ByStep /\ [Next]_vars => Dimming' /\ ByStep'
<1> SUFFICES ASSUME Types, Dimming, ByStep, [Next]_vars PROVE Dimming' /\ ByStep'
  OBVIOUS
<1>1. CASE BeginAdjust \/ BeginMotion \/ BeginFlash \/ BeginReset
  <2>1. PICK op \in {"adjust", "on", "off", "reset", "flash"} :
          \E a : BeginMain(op, a) /\ (op = "adjust" => a \in Steps)
    BY <1>1 DEF BeginAdjust, BeginMotion, BeginFlash, BeginReset
  <2>2. /\ main'.op = op /\ main'.at = FirstStep(op)
        /\ op = "adjust" => main'.arg \in Steps
    BY <2>1 DEF BeginMain
  <2> QED BY <2>1, <2>2 DEF Dimming, ByStep, FirstStep
<1>2. CASE MainSweep
  <2> USE DEF Types, MainType, Dimming, ByStep
  <2>1. CASE AdjustRead BY <2>1 DEF AdjustRead
  <2>2. CASE AdjustWrite BY <2>2 DEF AdjustWrite
  <2>3. CASE MotionSwitch BY <2>3 DEF MotionSwitch
  <2>4. CASE MainEval BY <2>4 DEF MainEval
  <2>5. CASE MainDrive
    <3>1. CASE main.i = 2 * G - 1 BY <2>5, <3>1 DEF MainDrive, Idle
    <3>2. CASE main.i # 2 * G - 1
      <4>1. /\ main'.at = FirstStep(main.op) /\ main'.op = main.op /\ main'.arg = main.arg
            /\ main.op \in {"adjust", "on", "off", "reset", "flash"}
        BY <2>5, <3>2 DEF MainDrive
      <4> QED BY <4>1 DEF FirstStep
    <3> QED BY <3>1, <3>2
  <2> QED BY <1>2, <2>1, <2>2, <2>3, <2>4, <2>5 DEF MainSweep
<1>3. CASE UNCHANGED main
  BY <1>3 DEF Dimming, ByStep
<1>4. BeginRgb \/ BeginRgbSwitch \/ BeginLed \/ HandlerStep \/ Temperature \/ UNCHANGED vars
        => UNCHANGED main
  BY DEF BeginRgb, BeginRgbSwitch, BeginLed, BeginCommand, HandlerStep, RgbStore, RgbEval, RgbSwitch,
         RgbDrive, LedSet, LedSwitch, LedEval, LedDrive, Temperature, vars
<1> QED BY <1>1, <1>2, <1>3, <1>4 DEF Next

(***************************************************************************)
(* For any number of channels, range of values and steps: a sweep that the *)
(* client's task stays out of dims every channel that is not dark.         *)
(***************************************************************************)
THEOREM LightsDimsAlone == Spec => DimsAlone
<1>1. Init => Remembered /\ Dimming /\ ByStep
  BY DEF Init, Idle, Remembered, Dimming, ByStep
<1>2. Inv => Types
  BY DEF Inv
<1>3. Inv /\ Remembered /\ Dimming /\ ByStep /\ [Next]_vars =>
        [AdjustWrite /\ ~overlap => value'[main.i] = 0 \/ value'[main.i] < value[main.i]]_vars
  <2> SUFFICES ASSUME Inv, Remembered, Dimming, ByStep, AdjustWrite, ~overlap
               PROVE  value'[main.i] = 0 \/ value'[main.i] < value[main.i]
    OBVIOUS
  <2>1. main.i \in Channel /\ main.arg \in Nat \ {0} /\ main.reg = value[main.i]
    BY LightsAssumption DEF AdjustWrite, Remembered, Dimming, ByStep, Inv, Types, MainType
  <2>2. value \in [Channel -> Value]
    BY DEF Inv, Types, ArrayType
  <2>3. value'[main.i] = Clip(value[main.i] - main.arg)
    BY <2>1, <2>2 DEF AdjustWrite
  <2>4. \A v \in Value, n \in Nat \ {0} : Clip(v - n) = 0 \/ Clip(v - n) < v
    BY LightsAssumption DEF Value, Clip
  <2> QED BY <2>1, <2>2, <2>3, <2>4
<1> QED BY <1>1, <1>2, <1>3, InvInit, InvStep, RememberedStep, DimmingStep, PTL DEF Spec, DimsAlone
=============================================================================
