---------------------------- MODULE KotiNetwork ----------------------------
(***************************************************************************)
(* Sensors, the radio, the LAN, the bridge and the controller.             *)
(*                                                                         *)
(* A sensor (th, water-usage, click) fills its one transmit buffer, seals  *)
(* it in place with koti_send and transmits it on the radio or, built with *)
(* USE_BROADCAST, on the LAN.  The bridge (proxy/nrf24l01p/main.c) relays  *)
(* every radio packet to the LAN and every LAN packet to the radio.  The   *)
(* controller (proxy/mqtt/main.py) opens what it finds on the LAN and      *)
(* publishes it to MQTT.                                                   *)
(*                                                                         *)
(* Both media lose, duplicate and reorder packets: a packet once sent      *)
(* stays available, and a reader takes any one at any time, or none.       *)
(***************************************************************************)
EXTENDS KotiPacket, FiniteSets

CONSTANTS Device,       \* the sensors
          Installation, \* the sets of sensors a household may have
          Program,      \* Program[d]: the firmware and target d runs
          Uuid,         \* Uuid[d]: the four words of the uuid of d
          DeviceKey,    \* DeviceKey[d]: KEY_STRING compiled into d
          RadioDevice,  \* sensors with a radio; the others use the LAN
          Config,       \* config.yaml: key of each registered uuid
          Rand,         \* values of rand() & 0xff
          Reading,      \* what a t&h chip returns: two 4-byte floats
          Adc,          \* values of ADRESH at the end of a conversion
          Voltage,      \* battery voltages, as 4-byte floats
          Text,         \* debug texts: 8 bytes, as two words
          MaxSent,      \* MaxSent[d], bound: packets of d
          MaxMetered    \* bound: millilitres per water meter

Programs == {"th_pic", "th_host", "water_pic", "water_host", "click_pic", "click_host"}

UuidWords == [4..7 -> Word]

ASSUME NetworkAssumption ==
  /\ Byte = 0..255
  /\ Installation \subseteq SUBSET Device
  /\ Program \in [Device -> Programs]
  /\ Uuid \in [Device -> UuidWords]
  /\ \A c, d \in Device : Uuid[c] = Uuid[d] => c = d
  /\ DeviceKey \in [Device -> Key]
  /\ RadioDevice \subseteq Device
  /\ \A d \in Device : Uuid[d] \in DOMAIN Config => Config[Uuid[d]] = DeviceKey[d]
  /\ Rand \subseteq Byte /\ Adc \subseteq Byte
  /\ Reading \subseteq Block /\ Voltage \subseteq Word /\ Text \subseteq Block
  /\ MaxSent \in [Device -> Nat] /\ MaxMetered \in Nat

-----------------------------------------------------------------------------
(***************************************************************************)
(* Codes of koti.h and nrf.h, the same in constants.py.                    *)
(***************************************************************************)
KOTI_NRF_ADDR_CTRL      == 0
KOTI_NRF_ADDR_BROADCAST == 255

KOTI_TYPE_PSU                   == 2
KOTI_TYPE_WATER_FLOW_LITRE      == 3
KOTI_TYPE_WATER_FLOW_MILLILITRE == 4
KOTI_TYPE_TH                    == 5
KOTI_TYPE_CLICK                 == 6
KOTI_TYPE_COUNT                 == 7
KOTI_TYPE_DEBUG                 == 255

LithiumAsTh               == 5   \* a mutant: a code that is also a packet type
KOTI_PSU_BATTERY_LITHIUM  == 65
KOTI_PSU_BATTERY_ALKALINE == 66

OneBlockMore     == 3            \* a mutant: one that covers the uuid
ENC_RC5_2_BLOCKS == 2

ZeroWord  == [i \in 1..4 |-> 0]
ZeroWords == [n \in 0..7 |-> ZeroWord]

(***************************************************************************)
(* The low and high words of a uint64_t in little endian order; no total   *)
(* here reaches 2^24.                                                      *)
(***************************************************************************)
LowWord(n) == <<n % 256, (n \div 256) % 256, (n \div 65536) % 256, 0>>

-----------------------------------------------------------------------------
VARIABLES
  installed,   \* the sensors of this household
  pc,          \* pc[d]: what d did last; "off" before p_init
  sequence,    \* sequence[d]: static uint8_t sequence of nrf.c
  pck,         \* pck[d]: the transmit buffer, which koti_send encrypts in place
  driver,      \* driver[d]: a t&h chip was found (driver_index < 0xff)
  temperature, \* temperature[d], humidity[d]: the last values read
  humidity,
  millilitres, \* millilitres[d]: total of the water meter
  air,         \* packets that were on the radio
  lan,         \* datagrams that were on the LAN
  published,   \* messages handed to the MQTT broker
  built,       \* history: what the sensors set out to report
  sent         \* sent[d]: packets transmitted, for the bound

device == <<pc, sequence, pck, driver, temperature, humidity, millilitres, built, sent>>
vars   == <<installed, device, air, lan, published>>

Init ==
  /\ installed \in Installation
  /\ pc = [d \in Device |-> "off"]
  /\ sequence = [d \in Device |-> 0]
  /\ pck = [d \in Device |-> [enc |-> 0, ttl |-> 0, w |-> ZeroWords]]
  /\ driver = [d \in Device |-> FALSE]
  /\ temperature = [d \in Device |-> ZeroWord]
  /\ humidity = [d \in Device |-> ZeroWord]
  /\ millilitres = [d \in Device |-> 0]
  /\ air = {}
  /\ lan = {}
  /\ published = {}
  /\ built = {}
  /\ sent = [d \in Device |-> 0]

-----------------------------------------------------------------------------
(***************************************************************************)
(* Filling the buffer: memset() of all but the uuid, the addresses and the *)
(* type, the payload in words 2 and 3, memcpy() of the uuid.  Nothing of   *)
(* the packet encrypted in the same buffer before is left.                 *)
(***************************************************************************)
Filled(d, type, x, y) ==
  [n \in 0..7 |->
     CASE n = 0 -> <<KOTI_NRF_ADDR_BROADCAST, KOTI_NRF_ADDR_CTRL, 0, 0>>
       [] n = 1 -> <<0, 0, type, 0>>
       [] n = 2 -> x
       [] n = 3 -> y
       [] OTHER -> Uuid[d][n]]

Transmit(d, seq, w) ==
  \E rand, rsv \in Rand :
    LET p == koti_send(DeviceKey[d], [enc |-> ENC_RC5_2_BLOCKS, ttl |-> 0, w |-> w],
                       seq, rand, rsv)
    IN  /\ sent[d] < MaxSent[d]
        /\ sent' = [sent EXCEPT ![d] = @ + 1]
        /\ pck' = [pck EXCEPT ![d] = p]
        /\ sequence' = [sequence EXCEPT ![d] = (seq + 1) % 256]
        /\ air' = IF d \in RadioDevice THEN air \cup {p} ELSE air
        /\ lan' = IF d \in RadioDevice THEN lan ELSE lan \cup {p}

(***************************************************************************)
(* The history of a send: the arguments the sensor had, kept apart from    *)
(* where the code puts them in the packet.                                 *)
(***************************************************************************)
Report(d, kind, args) ==
  built' = built \cup {[uuid |-> Uuid[d], kind |-> kind, args |-> args]}

send_debug(d, seq, text) ==
  /\ Transmit(d, seq, Filled(d, KOTI_TYPE_DEBUG, text[1], text[2]))
  /\ Report(d, "debug", text)

send_th(d, t, h) ==
  /\ Transmit(d, sequence[d], Filled(d, KOTI_TYPE_TH, t, h))
  /\ Report(d, "th", <<t, h>>)

send_battery(d, percentage, type, cells, voltage) ==
  /\ Transmit(d, sequence[d],
              Filled(d, KOTI_TYPE_PSU, <<percentage, type, cells, 0>>, voltage))
  /\ Report(d, "battery", <<<<percentage>>, <<type>>, <<cells>>, voltage>>)

send_usage(d) ==
  /\ Transmit(d, sequence[d], Filled(d, KOTI_TYPE_WATER_FLOW_MILLILITRE,
                                     LowWord(millilitres[d]), ZeroWord))
  /\ Report(d, "usage", <<LowWord(millilitres[d]), ZeroWord>>)

send_click(d) ==
  /\ Transmit(d, sequence[d], Filled(d, KOTI_TYPE_CLICK, ZeroWord, ZeroWord))
  /\ Report(d, "click", <<>>)

-----------------------------------------------------------------------------
(***************************************************************************)
(* p_init: the sequence number starts from zero; a t&h sensor probes its   *)
(* drivers and reports the name of the first one that opens.               *)
(***************************************************************************)
Start(d) ==
  /\ pc[d] = "off"
  /\ pc' = [pc EXCEPT ![d] = "boot"]
  /\ \/ /\ Program[d] \in {"th_pic", "th_host"}
        /\ driver' = [driver EXCEPT ![d] = TRUE]
        /\ \E name \in Text : send_debug(d, 0, name)
     \/ /\ driver' = [driver EXCEPT ![d] = FALSE]
        /\ sequence' = [sequence EXCEPT ![d] = 0]
        /\ UNCHANGED <<pck, air, lan, built, sent>>
  /\ UNCHANGED <<temperature, humidity, millilitres, published>>

(***************************************************************************)
(* The host loop sends random readings; the PIC loop reads the chip, and   *)
(* sends what the variables hold whether or not the read succeeded.        *)
(***************************************************************************)
SendTh(d) ==
  /\ \/ Program[d] = "th_host" /\ pc[d] \in {"boot", "battery"}
     \/ Program[d] = "th_pic" /\ pc[d] # "off" /\ driver[d]
  /\ \E r \in Reading :
       /\ temperature' = [temperature EXCEPT ![d] = r[1]]
       /\ humidity' = [humidity EXCEPT ![d] = r[2]]
       /\ send_th(d, r[1], r[2])
  /\ pc' = [pc EXCEPT ![d] = "th"]
  /\ UNCHANGED <<driver, millilitres, published>>

SendStaleTh(d) ==
  /\ Program[d] = "th_pic" /\ pc[d] # "off" /\ driver[d]
  /\ send_th(d, temperature[d], humidity[d])
  /\ pc' = [pc EXCEPT ![d] = "th"]
  /\ UNCHANGED <<driver, temperature, humidity, millilitres, published>>

SendError(d) ==
  /\ Program[d] = "th_pic" /\ pc[d] # "off" /\ ~driver[d]
  /\ \E text \in Text : send_debug(d, sequence[d], text)
  /\ pc' = [pc EXCEPT ![d] = "debug"]
  /\ UNCHANGED <<driver, temperature, humidity, millilitres, published>>

(***************************************************************************)
(* The battery percentage from the high byte of the conversion; the host   *)
(* loops send a fixed one.                                                 *)
(***************************************************************************)
Percentage(adresh) ==
  IF adresh > 137 THEN 0
  ELSE IF 137 - adresh < 50 THEN 2 * (137 - adresh) ELSE 100

Percentages(d) ==
  IF Program[d] \in {"water_pic", "click_pic"}
  THEN {Percentage(a) : a \in Adc}
  ELSE {75}

SendBattery(d) ==
  /\ \/ Program[d] = "th_host" /\ pc[d] = "th"
     \/ Program[d] = "water_host" /\ pc[d] = "usage"
     \/ Program[d] = "click_host" /\ pc[d] = "click"
     \/ Program[d] \in {"water_pic", "click_pic"} /\ pc[d] # "off"
  /\ \E percentage \in Percentages(d), voltage \in Voltage :
       send_battery(d, percentage, KOTI_PSU_BATTERY_LITHIUM, 1, voltage)
  /\ pc' = [pc EXCEPT ![d] = "battery"]
  /\ millilitres' =
       IF Program[d] = "water_host" THEN [millilitres EXCEPT ![d] = @ + 1] ELSE millilitres
  /\ UNCHANGED <<driver, temperature, humidity, published>>

SendUsage(d) ==
  /\ \/ Program[d] = "water_host" /\ pc[d] \in {"boot", "battery"}
     \/ Program[d] = "water_pic" /\ pc[d] # "off"
  /\ send_usage(d)
  /\ pc' = [pc EXCEPT ![d] = "usage"]
  /\ UNCHANGED <<driver, temperature, humidity, millilitres, published>>

SendClick(d) ==
  /\ Program[d] = "click_host" /\ pc[d] \in {"boot", "battery"}
  /\ send_click(d)
  /\ pc' = [pc EXCEPT ![d] = "click"]
  /\ UNCHANGED <<driver, temperature, humidity, millilitres, published>>

(***************************************************************************)
(* Timer 1 of a PIC water meter overflowed: another decilitre.             *)
(***************************************************************************)
Meter(d) ==
  /\ Program[d] = "water_pic" /\ pc[d] # "off"
  /\ millilitres[d] + 100 <= MaxMetered
  /\ millilitres' = [millilitres EXCEPT ![d] = @ + 100]
  /\ UNCHANGED <<pc, sequence, pck, driver, temperature, humidity, built, sent,
                 air, lan, published>>

(***************************************************************************)
(* A power cycle: everything a sensor keeps is in RAM.                     *)
(***************************************************************************)
Restart(d) ==
  /\ pc[d] # "off"
  /\ pc' = [pc EXCEPT ![d] = "off"]
  /\ sequence' = [sequence EXCEPT ![d] = 0]
  /\ pck' = [pck EXCEPT ![d] = [enc |-> 0, ttl |-> 0, w |-> ZeroWords]]
  /\ driver' = [driver EXCEPT ![d] = FALSE]
  /\ temperature' = [temperature EXCEPT ![d] = ZeroWord]
  /\ humidity' = [humidity EXCEPT ![d] = ZeroWord]
  /\ millilitres' = [millilitres EXCEPT ![d] = 0]
  /\ UNCHANGED <<built, sent, air, lan, published>>

-----------------------------------------------------------------------------
(***************************************************************************)
(* The two directions of the bridge's loop.                                *)
(***************************************************************************)
RadioToLan(p) ==
  /\ p \in air
  /\ lan' = lan \cup {p}
  /\ UNCHANGED <<device, air, published>>

LanToRadio(p) ==
  /\ p \in lan
  /\ air' = air \cup {p}
  /\ UNCHANGED <<device, lan, published>>

-----------------------------------------------------------------------------
(***************************************************************************)
(* The controller.  parse_header looks at the clear part of the packet:    *)
(* the addresses, and the uuid whose key config.yaml must hold.            *)
(***************************************************************************)
UuidOf(w) == [n \in 4..7 |-> w[n]]

parse_header(w) ==
  /\ Dst(w) \in {KOTI_NRF_ADDR_CTRL, KOTI_NRF_ADDR_BROADCAST}
  /\ Src(w) = KOTI_NRF_ADDR_BROADCAST
  /\ UuidOf(w) \in DOMAIN Config

Message(uuid, topic, text, value) ==
  [uuid |-> uuid, topic |-> topic, text |-> text, value |-> value]

PsuType(type) ==
  CASE type = KOTI_PSU_BATTERY_LITHIUM  -> "LITHIUM"
    [] type = KOTI_PSU_BATTERY_ALKALINE -> "ALKALINE"
    [] OTHER                            -> "UNKNOWN"

(***************************************************************************)
(* struct.unpack of the psu payload: percentage, type and cells in word 2, *)
(* the voltage in word 3.                                                  *)
(***************************************************************************)
PsuMessagesSwapped(u, w) ==   \* a mutant: type and cells swapped
  {Message(u, "psu/percentage", "", <<<<p>>>>) : p \in {n \in {w[2][1]} : n <= 100}}
    \cup {Message(u, "psu/type", PsuType(w[2][3]), <<>>)}
    \cup {Message(u, "psu/cells", "", <<<<c>>>>) : c \in {n \in {w[2][2]} : n > 0}}
    \cup {Message(u, "psu/voltage", "", <<w[3]>>)}

PsuMessages(u, w) ==
  {Message(u, "psu/percentage", "", <<<<p>>>>) : p \in {n \in {w[2][1]} : n <= 100}}
    \cup {Message(u, "psu/type", PsuType(w[2][2]), <<>>)}
    \cup {Message(u, "psu/cells", "", <<<<c>>>>) : c \in {n \in {w[2][3]} : n > 0}}
    \cup {Message(u, "psu/voltage", "", <<w[3]>>)}

(***************************************************************************)
(* The tests on the variable type after the psu branch.                    *)
(***************************************************************************)
TypeMessages(type, u, w) ==
  CASE type = KOTI_TYPE_WATER_FLOW_LITRE ->
         {Message(u, "water", "litre", <<w[2], w[3]>>)}
    [] type = KOTI_TYPE_WATER_FLOW_MILLILITRE ->
         {Message(u, "water", "millilitre", <<w[2], w[3]>>)}
    [] type = KOTI_TYPE_TH ->
         {Message(u, "temperature", "", <<w[2]>>),
          Message(u, "humidity", "", <<w[3]>>),
          Message(u, "temperature/config", "retain", <<>>),
          Message(u, "humidity/config", "retain", <<>>)}
    [] type = KOTI_TYPE_CLICK ->
         {Message(u, "click", "CLICK", <<>>)}
    [] type = KOTI_TYPE_COUNT ->
         {Message(u, "count", "", <<w[2], w[3]>>)}
    [] type = KOTI_TYPE_DEBUG ->
         {Message(u, "debug", "", <<w[2], w[3], w[4], w[5], w[6], w[7]>>)}
    [] OTHER -> {}

(***************************************************************************)
(* What the loop publishes for a decrypted packet.  The psu branch         *)
(* overwrites the variable type with the type of the power supply, and the *)
(* later tests run on that.                                                *)
(***************************************************************************)
Publications(u, w) ==
  IF Type(w) = KOTI_TYPE_PSU
  THEN PsuMessages(u, w) \cup TypeMessages(w[2][2], u, w)
  ELSE TypeMessages(Type(w), u, w)

Accepts(p) ==
  /\ parse_header(p.w)
  /\ decrypt(Config[UuidOf(p.w)], p).ok

Receive(p) ==
  /\ p \in lan
  /\ Accepts(p)
  /\ published' = published \cup
       Publications(UuidOf(p.w), decrypt(Config[UuidOf(p.w)], p).w)
  /\ UNCHANGED <<device, air, lan>>

-----------------------------------------------------------------------------
DeviceStep(d) ==
  \/ Start(d) \/ SendTh(d) \/ SendStaleTh(d) \/ SendError(d) \/ SendBattery(d)
  \/ SendUsage(d) \/ SendClick(d) \/ Meter(d) \/ Restart(d)

Next ==
  /\ \/ \E d \in installed : DeviceStep(d)
     \/ \E p \in air : RadioToLan(p)
     \/ \E p \in lan : LanToRadio(p) \/ Receive(p)
  /\ UNCHANGED installed

Spec == Init /\ [][Next]_vars

-----------------------------------------------------------------------------
(***************************************************************************)
(* Type invariant.                                                         *)
(***************************************************************************)
TypeOK ==
  /\ installed \subseteq Device
  /\ pc \in [Device -> {"off", "boot", "th", "debug", "battery", "usage", "click"}]
  /\ sequence \in [Device -> 0..255]
  /\ pck \in [Device -> Packet]
  /\ driver \in [Device -> BOOLEAN]
  /\ temperature \in [Device -> Word]
  /\ humidity \in [Device -> Word]
  /\ millilitres \in [Device -> Nat]
  /\ air \subseteq Packet
  /\ lan \subseteq Packet
  /\ sent \in [Device -> Nat]

(***************************************************************************)
(* What a report is worth to a subscriber: the messages the broker may see *)
(* because a sensor made it.                                               *)
(***************************************************************************)
Meaning(b) ==
  LET a == b.args
      Says(topic, text, value) == Message(b.uuid, topic, text, value)
  IN  CASE b.kind = "th" ->
             {Says("temperature", "", <<a[1]>>), Says("humidity", "", <<a[2]>>),
              Says("temperature/config", "retain", <<>>),
              Says("humidity/config", "retain", <<>>)}
        [] b.kind = "battery" ->
             {Says("psu/percentage", "", <<a[1]>>), Says("psu/type", "LITHIUM", <<>>),
              Says("psu/cells", "", <<a[3]>>), Says("psu/voltage", "", <<a[4]>>)}
        [] b.kind = "usage" -> {Says("water", "millilitre", a)}
        [] b.kind = "click" -> {Says("click", "CLICK", <<>>)}
        [] b.kind = "debug" ->
             {Says("debug", "", <<a[1], a[2], b.uuid[4], b.uuid[5], b.uuid[6], b.uuid[7]>>)}

(***************************************************************************)
(* Every message the broker gets is the meaning of a report that the       *)
(* sensor with that uuid made: no mix of two packets, no field read at     *)
(* another place, no packet read as another type, whatever the order and   *)
(* the number of the deliveries and whatever restarted in between.         *)
(***************************************************************************)
Authentic == \A m \in published : \E b \in built : m \in Meaning(b)

(***************************************************************************)
(* Every packet in flight, relayed or not, is accepted by the controller   *)
(* if it comes from a registered sensor: nothing is dropped for its crc,   *)
(* and the uuid is still readable.                                         *)
(***************************************************************************)
Readable ==
  \A p \in air \cup lan :
    /\ UuidOf(p.w) \in {Uuid[d] : d \in Device}
    /\ UuidOf(p.w) \in DOMAIN Config => Accepts(p)
=============================================================================
