------------------------ MODULE KotiNetworkTheorems ------------------------
(***************************************************************************)
(* Whatever the sensors, their programs, keys and uuids, and however       *)
(* packets are lost, repeated, reordered and relayed: every packet in      *)
(* flight is readable, and every published message is authentic.           *)
(***************************************************************************)
EXTENDS KotiNetwork, KotiPacketTheorems

(***************************************************************************)
(* A packet of d that opens as type, x, y: what koti_send leaves in the    *)
(* buffer after Filled, seen from the controller.                          *)
(***************************************************************************)
Carries(p, d, type, x, y) ==
  /\ UuidOf(p.w) = Uuid[d]
  /\ Src(p.w) = KOTI_NRF_ADDR_BROADCAST /\ Dst(p.w) = KOTI_NRF_ADDR_CTRL
  /\ decrypt(DeviceKey[d], p).ok
  /\ LET w == decrypt(DeviceKey[d], p).w
     IN  /\ Type(w) = type /\ w[2] = x /\ w[3] = y
         /\ \A n \in 4..7 : w[n] = Uuid[d][n]

(***************************************************************************)
(* A packet that means no more than some report its sensor made.           *)
(***************************************************************************)
Genuine(p) ==
  \E d \in Device, b \in built :
    /\ UuidOf(p.w) = Uuid[d]
    /\ Src(p.w) = KOTI_NRF_ADDR_BROADCAST /\ Dst(p.w) = KOTI_NRF_ADDR_CTRL
    /\ decrypt(DeviceKey[d], p).ok
    /\ Publications(Uuid[d], decrypt(DeviceKey[d], p).w) \subseteq Meaning(b)

AllGenuine == \A p \in air \cup lan : Genuine(p)

IInv == TypeOK /\ AllGenuine /\ Authentic

-----------------------------------------------------------------------------
LEMMA ByteValues ==
  /\ 0 \in Byte /\ 1 \in Byte /\ 75 \in Byte /\ 255 \in Byte
  /\ KOTI_NRF_ADDR_CTRL \in Byte /\ KOTI_NRF_ADDR_BROADCAST \in Byte
  /\ ZeroWord \in Word /\ ZeroWords \in Words
  BY NetworkAssumption
  DEF NetworkAssumption, KOTI_NRF_ADDR_CTRL, KOTI_NRF_ADDR_BROADCAST,
      ZeroWord, ZeroWords, Word, Words

(***************************************************************************)
(* The buffer before koti_send: eight words, addresses, type, payload and  *)
(* uuid where the header declares them.                                    *)
(***************************************************************************)
LEMMA FilledFields ==
  ASSUME NEW d \in Device, NEW type \in Byte, NEW x \in Word, NEW y \in Word
  PROVE  LET w == Filled(d, type, x, y) IN
           /\ w \in Words
           /\ w[0][1] = KOTI_NRF_ADDR_BROADCAST /\ w[0][2] = KOTI_NRF_ADDR_CTRL
           /\ w[1][3] = type /\ w[2] = x /\ w[3] = y
           /\ \A n \in 4..7 : w[n] = Uuid[d][n]
<1> DEFINE w  == Filled(d, type, x, y)
           w0 == <<KOTI_NRF_ADDR_BROADCAST, KOTI_NRF_ADDR_CTRL, 0, 0>>
           w1 == <<0, 0, type, 0>>
<1>1. w0 \in Word /\ w0[1] = KOTI_NRF_ADDR_BROADCAST /\ w0[2] = KOTI_NRF_ADDR_CTRL
  BY ByteValues DEF Word
<1>2. w1 \in Word /\ w1[3] = type
  BY ByteValues DEF Word
<1>3. /\ w = [n \in 0..7 |-> w[n]]
      /\ w[0] = w0 /\ w[1] = w1 /\ w[2] = x /\ w[3] = y
      /\ \A n \in 4..7 : w[n] = Uuid[d][n]
  BY DEF Filled
<1>4. \A n \in 4..7 : Uuid[d][n] \in Word
  BY NetworkAssumption DEF NetworkAssumption, UuidWords
<1> HIDE DEF w, w0, w1
<1>5. \A n \in 0..7 : w[n] \in Word
  BY <1>1, <1>2, <1>3, <1>4
<1>6. w \in Words
  BY <1>3, <1>5 DEF Words
<1>7. QED
  BY <1>1, <1>2, <1>3, <1>6 DEF w

(***************************************************************************)
(* Stamping and sealing leave the addresses and the uuid in the clear, and *)
(* opening gives back type, payload and uuid.                              *)
(***************************************************************************)
LEMMA SealedCarries ==
  ASSUME NEW d \in Device, NEW type \in Byte, NEW x \in Word, NEW y \in Word,
         NEW seq \in Byte, NEW rand \in Byte, NEW rsv \in Byte
  PROVE  LET p == koti_send(DeviceKey[d],
                            [enc |-> ENC_RC5_2_BLOCKS, ttl |-> 0,
                             w |-> Filled(d, type, x, y)], seq, rand, rsv)
         IN  p \in Packet /\ Carries(p, d, type, x, y)
<1> DEFINE w == Filled(d, type, x, y)
           f == [enc |-> ENC_RC5_2_BLOCKS, ttl |-> 0, w |-> w]
           k == DeviceKey[d]
           p == koti_send(k, f, seq, rand, rsv)
<1>1. k \in Key
  BY NetworkAssumption DEF NetworkAssumption
<1>2. /\ w \in Words
      /\ w[0][1] = KOTI_NRF_ADDR_BROADCAST /\ w[0][2] = KOTI_NRF_ADDR_CTRL
      /\ w[1][3] = type /\ w[2] = x /\ w[3] = y
      /\ \A n \in 4..7 : w[n] = Uuid[d][n]
  BY FilledFields
<1> HIDE DEF w, k
<1>3. f \in Packet /\ f.w = w /\ f.enc \in 0..2
  BY <1>2 DEF Packet, EncLevel, TTL_MAX, ENC_RC5_2_BLOCKS
<1> HIDE DEF f
<1>4. p = koti_send(k, f, seq, rand, rsv)
  OBVIOUS
<1> HIDE DEF p
<1>5. /\ p \in Packet
      /\ p.w[0][1] = w[0][1] /\ p.w[0][2] = w[0][2]
      /\ \A n \in 4..7 : p.w[n] = w[n]
      /\ decrypt(k, p).ok
      /\ decrypt(k, p).w[1][3] = w[1][3]
      /\ \A n \in 2..7 : decrypt(k, p).w[n] = w[n]
  BY <1>1, <1>3, <1>4, SealedFields
<1>6. UuidOf(p.w) = Uuid[d]
  <2>1. \A n \in 4..7 : p.w[n] = Uuid[d][n]
    BY <1>2, <1>5
  <2>2. Uuid[d] = [n \in 4..7 |-> Uuid[d][n]]
    BY NetworkAssumption DEF NetworkAssumption, UuidWords
  <2>3. QED
    BY <2>1, <2>2 DEF UuidOf
<1>7. Carries(p, d, type, x, y)
  BY <1>2, <1>5, <1>6 DEF Carries, Src, Dst, Type, k
<1>8. QED
  BY <1>5, <1>7 DEF p, f, w, k

-----------------------------------------------------------------------------
(***************************************************************************)
(* What the controller publishes for opened words of each type, against    *)
(* the meaning of the report behind them.                                  *)
(***************************************************************************)
LEMMA ThMeans ==
  ASSUME NEW u, NEW w, NEW t, NEW h,
         Type(w) = KOTI_TYPE_TH, w[2] = t, w[3] = h
  PROVE  Publications(u, w) = Meaning([uuid |-> u, kind |-> "th", args |-> <<t, h>>])
<1>1. Type(w) # KOTI_TYPE_PSU
  BY DEF KOTI_TYPE_PSU, KOTI_TYPE_TH
<1>2. Publications(u, w) =
        {Message(u, "temperature", "", <<t>>), Message(u, "humidity", "", <<h>>),
         Message(u, "temperature/config", "retain", <<>>),
         Message(u, "humidity/config", "retain", <<>>)}
  BY <1>1 DEF Publications, TypeMessages,
              KOTI_TYPE_PSU, KOTI_TYPE_WATER_FLOW_LITRE, KOTI_TYPE_WATER_FLOW_MILLILITRE,
              KOTI_TYPE_TH, KOTI_TYPE_CLICK, KOTI_TYPE_COUNT, KOTI_TYPE_DEBUG
<1>3. QED
  BY <1>2 DEF Meaning

LEMMA UsageMeans ==
  ASSUME NEW u, NEW w, NEW x, NEW y,
         Type(w) = KOTI_TYPE_WATER_FLOW_MILLILITRE, w[2] = x, w[3] = y
  PROVE  Publications(u, w) = Meaning([uuid |-> u, kind |-> "usage", args |-> <<x, y>>])
<1>1. Type(w) # KOTI_TYPE_PSU
  BY DEF KOTI_TYPE_PSU, KOTI_TYPE_WATER_FLOW_MILLILITRE
<1>2. Publications(u, w) = {Message(u, "water", "millilitre", <<x, y>>)}
  BY <1>1 DEF Publications, TypeMessages,
              KOTI_TYPE_PSU, KOTI_TYPE_WATER_FLOW_LITRE, KOTI_TYPE_WATER_FLOW_MILLILITRE,
              KOTI_TYPE_TH, KOTI_TYPE_CLICK, KOTI_TYPE_COUNT, KOTI_TYPE_DEBUG
<1>3. QED
  BY <1>2 DEF Meaning

LEMMA ClickMeans ==
  ASSUME NEW u, NEW w, Type(w) = KOTI_TYPE_CLICK
  PROVE  Publications(u, w) = Meaning([uuid |-> u, kind |-> "click", args |-> <<>>])
<1>1. Type(w) # KOTI_TYPE_PSU
  BY DEF KOTI_TYPE_PSU, KOTI_TYPE_CLICK
<1>2. Publications(u, w) = {Message(u, "click", "CLICK", <<>>)}
  BY <1>1 DEF Publications, TypeMessages,
              KOTI_TYPE_PSU, KOTI_TYPE_WATER_FLOW_LITRE, KOTI_TYPE_WATER_FLOW_MILLILITRE,
              KOTI_TYPE_TH, KOTI_TYPE_CLICK, KOTI_TYPE_COUNT, KOTI_TYPE_DEBUG
<1>3. QED
  BY <1>2 DEF Meaning

LEMMA DebugMeans ==
  ASSUME NEW u, NEW w, NEW text, Type(w) = KOTI_TYPE_DEBUG,
         w[2] = text[1], w[3] = text[2], \A n \in 4..7 : w[n] = u[n]
  PROVE  Publications(u, w) = Meaning([uuid |-> u, kind |-> "debug", args |-> text])
<1>0. w[4] = u[4] /\ w[5] = u[5] /\ w[6] = u[6] /\ w[7] = u[7]
  OBVIOUS
<1>1. Type(w) # KOTI_TYPE_PSU
  BY DEF KOTI_TYPE_PSU, KOTI_TYPE_DEBUG
<1>2. Publications(u, w) =
        {Message(u, "debug", "", <<text[1], text[2], u[4], u[5], u[6], u[7]>>)}
  BY <1>1, <1>0 DEF Publications, TypeMessages,
              KOTI_TYPE_PSU, KOTI_TYPE_WATER_FLOW_LITRE, KOTI_TYPE_WATER_FLOW_MILLILITRE,
              KOTI_TYPE_TH, KOTI_TYPE_CLICK, KOTI_TYPE_COUNT, KOTI_TYPE_DEBUG
<1>3. QED
  BY <1>2 DEF Meaning

(***************************************************************************)
(* A battery report: the type byte of the supply ends up in the variable   *)
(* that the later tests read, and is none of the packet types.             *)
(***************************************************************************)
LEMMA BatteryMeans ==
  ASSUME NEW u, NEW w, NEW percentage, NEW cells, NEW voltage,
         Type(w) = KOTI_TYPE_PSU,
         w[2] = <<percentage, KOTI_PSU_BATTERY_LITHIUM, cells, 0>>, w[3] = voltage
  PROVE  Publications(u, w) \subseteq
           Meaning([uuid |-> u, kind |-> "battery",
                    args |-> <<<<percentage>>, <<KOTI_PSU_BATTERY_LITHIUM>>,
                               <<cells>>, voltage>>])
<1>1. w[2][1] = percentage /\ w[2][2] = KOTI_PSU_BATTERY_LITHIUM /\ w[2][3] = cells
  OBVIOUS
<1>2. Publications(u, w) = PsuMessages(u, w)
  <2>1. TypeMessages(KOTI_PSU_BATTERY_LITHIUM, u, w) = {}
    BY DEF TypeMessages, KOTI_PSU_BATTERY_LITHIUM, KOTI_TYPE_WATER_FLOW_LITRE,
           KOTI_TYPE_WATER_FLOW_MILLILITRE, KOTI_TYPE_TH, KOTI_TYPE_CLICK,
           KOTI_TYPE_COUNT, KOTI_TYPE_DEBUG
  <2>2. QED
    BY <1>1, <2>1 DEF Publications
<1>3. PsuMessages(u, w) \subseteq
        {Message(u, "psu/percentage", "", <<<<percentage>>>>),
         Message(u, "psu/type", "LITHIUM", <<>>),
         Message(u, "psu/cells", "", <<<<cells>>>>),
         Message(u, "psu/voltage", "", <<voltage>>)}
  <2>1. PsuType(w[2][2]) = "LITHIUM"
    BY <1>1 DEF PsuType, KOTI_PSU_BATTERY_LITHIUM, KOTI_PSU_BATTERY_ALKALINE
  <2>2. QED
    BY <1>1, <2>1 DEF PsuMessages
<1>4. QED
  BY <1>2, <1>3 DEF Meaning

-----------------------------------------------------------------------------
(***************************************************************************)
(* One transmission of a report: the packet that goes out is genuine, and  *)
(* the packets already out stay so.                                        *)
(***************************************************************************)
LEMMA SendStep ==
  ASSUME TypeOK, AllGenuine, NEW d \in Device, NEW seq \in 0..255,
         NEW type \in Byte, NEW x \in Word, NEW y \in Word, NEW kind, NEW args,
         Transmit(d, seq, Filled(d, type, x, y)), Report(d, kind, args),
         \A w : (/\ Type(w) = type /\ w[2] = x /\ w[3] = y
                 /\ \A n \in 4..7 : w[n] = Uuid[d][n])
                  => Publications(Uuid[d], w) \subseteq
                       Meaning([uuid |-> Uuid[d], kind |-> kind, args |-> args])
  PROVE  /\ sequence' \in [Device -> 0..255]
         /\ pck' \in [Device -> Packet]
         /\ air' \subseteq Packet /\ lan' \subseteq Packet
         /\ sent' \in [Device -> Nat]
         /\ AllGenuine'
         /\ built \subseteq built'
<1> DEFINE b == [uuid |-> Uuid[d], kind |-> kind, args |-> args]
           f == [enc |-> ENC_RC5_2_BLOCKS, ttl |-> 0, w |-> Filled(d, type, x, y)]
<1>1. PICK rand, rsv, p :
        /\ rand \in Rand /\ rsv \in Rand
        /\ p = koti_send(DeviceKey[d], f, seq, rand, rsv)
        /\ sent' = [sent EXCEPT ![d] = @ + 1]
        /\ pck' = [pck EXCEPT ![d] = p]
        /\ sequence' = [sequence EXCEPT ![d] = (seq + 1) % 256]
        /\ air' \subseteq air \cup {p}
        /\ lan' \subseteq lan \cup {p}
  BY DEF Transmit
<1>2. p \in Packet /\ Carries(p, d, type, x, y)
  <2>1. seq \in Byte /\ rand \in Byte /\ rsv \in Byte
    BY <1>1, NetworkAssumption DEF NetworkAssumption
  <2>2. QED
    BY <1>1, <2>1, SealedCarries
<1>3. b \in built' /\ built \subseteq built'
  BY DEF Report
<1>4. (Genuine(p))'
  <2>1. Publications(Uuid[d], decrypt(DeviceKey[d], p).w) \subseteq Meaning(b)
    BY <1>2 DEF Carries
  <2>2. QED
    BY <1>2, <1>3, <2>1 DEF Carries, Genuine
<1>5. \A q \in air \cup lan : (Genuine(q))'
  BY <1>3 DEF AllGenuine, Genuine
<1>6. AllGenuine'
  BY <1>1, <1>4, <1>5 DEF AllGenuine
<1>7. /\ sequence' \in [Device -> 0..255]
      /\ pck' \in [Device -> Packet]
      /\ sent' \in [Device -> Nat]
      /\ air' \subseteq Packet /\ lan' \subseteq Packet
  BY <1>1, <1>2 DEF TypeOK
<1>8. QED
  BY <1>3, <1>6, <1>7

(***************************************************************************)
(* What the sensors put in their packets are bytes and words.              *)
(***************************************************************************)
LEMMA Values ==
  /\ \A r \in Reading \cup Text : r[1] \in Word /\ r[2] \in Word
  /\ \A v \in Voltage : v \in Word
  /\ \A d \in Device : \A c \in Percentages(d) :
       <<c, KOTI_PSU_BATTERY_LITHIUM, 1, 0>> \in Word
  /\ \A n \in Nat : LowWord(n) \in Word
  /\ KOTI_TYPE_PSU \in Byte /\ KOTI_TYPE_TH \in Byte /\ KOTI_TYPE_CLICK \in Byte
  /\ KOTI_TYPE_WATER_FLOW_MILLILITRE \in Byte /\ KOTI_TYPE_DEBUG \in Byte
<1>1. \A r \in Reading \cup Text : r[1] \in Word /\ r[2] \in Word
  BY NetworkAssumption DEF NetworkAssumption, Block
<1>2. \A v \in Voltage : v \in Word
  BY NetworkAssumption DEF NetworkAssumption
<1>3. ASSUME NEW d \in Device, NEW c \in Percentages(d)
      PROVE  <<c, KOTI_PSU_BATTERY_LITHIUM, 1, 0>> \in Word
  <2>1. \A a \in 0..255 : Percentage(a) \in 0..255
    BY DEF Percentage
  <2>2. c \in 0..255
    <3>1. Adc \subseteq 0..255
      BY NetworkAssumption DEF NetworkAssumption
    <3>2. CASE \E a \in Adc : c = Percentage(a)
      BY <2>1, <3>1, <3>2
    <3>3. CASE c = 75
      BY <3>3
    <3>4. QED
      BY <3>2, <3>3 DEF Percentages
  <2>3. QED
    BY <2>2, NetworkAssumption DEF NetworkAssumption, Word, KOTI_PSU_BATTERY_LITHIUM
<1>4. ASSUME NEW n \in Nat
      PROVE  LowWord(n) \in Word
  <2>1. n % 256 \in 0..255 /\ (n \div 256) % 256 \in 0..255 /\ (n \div 65536) % 256 \in 0..255
    OBVIOUS
  <2>2. QED
    BY <2>1, NetworkAssumption DEF NetworkAssumption, LowWord, Word
<1>5. /\ KOTI_TYPE_PSU \in Byte /\ KOTI_TYPE_TH \in Byte /\ KOTI_TYPE_CLICK \in Byte
      /\ KOTI_TYPE_WATER_FLOW_MILLILITRE \in Byte /\ KOTI_TYPE_DEBUG \in Byte
  BY NetworkAssumption
  DEF NetworkAssumption, KOTI_TYPE_PSU, KOTI_TYPE_TH, KOTI_TYPE_CLICK,
      KOTI_TYPE_WATER_FLOW_MILLILITRE, KOTI_TYPE_DEBUG
<1>6. QED
  BY <1>1, <1>2, <1>3, <1>4, <1>5

LEMMA InitInv == Init => IInv
  BY ByteValues, NetworkAssumption
  DEF NetworkAssumption, Init, IInv, TypeOK, AllGenuine, Authentic, Packet, EncLevel, TTL_MAX

(***************************************************************************)
(* The part of the invariant a send leaves to prove: everything but what   *)
(* SendStep gives.                                                         *)
(***************************************************************************)
LEMMA AuthenticStays ==
  ASSUME Authentic, built \subseteq built', published' = published
  PROVE  Authentic'
  BY DEF Authentic

(***************************************************************************)
(* The five kinds of send, each from SendStep and the meaning of its type. *)
(***************************************************************************)
LEMMA DebugStep ==
  ASSUME TypeOK, AllGenuine, NEW d \in Device, NEW seq \in 0..255,
         NEW text \in Text, send_debug(d, seq, text)
  PROVE  /\ sequence' \in [Device -> 0..255] /\ pck' \in [Device -> Packet]
         /\ air' \subseteq Packet /\ lan' \subseteq Packet
         /\ sent' \in [Device -> Nat] /\ AllGenuine' /\ built \subseteq built'
<1>1. text[1] \in Word /\ text[2] \in Word /\ KOTI_TYPE_DEBUG \in Byte
  BY Values
<1>2. \A w : (/\ Type(w) = KOTI_TYPE_DEBUG /\ w[2] = text[1] /\ w[3] = text[2]
              /\ \A n \in 4..7 : w[n] = Uuid[d][n])
               => Publications(Uuid[d], w) \subseteq
                    Meaning([uuid |-> Uuid[d], kind |-> "debug", args |-> text])
  BY DebugMeans
<1>3. QED
  BY <1>1, <1>2, SendStep DEF send_debug

LEMMA ThStep ==
  ASSUME TypeOK, AllGenuine, NEW d \in Device, NEW t \in Word, NEW h \in Word,
         send_th(d, t, h)
  PROVE  /\ sequence' \in [Device -> 0..255] /\ pck' \in [Device -> Packet]
         /\ air' \subseteq Packet /\ lan' \subseteq Packet
         /\ sent' \in [Device -> Nat] /\ AllGenuine' /\ built \subseteq built'
<1>1. \A w : (/\ Type(w) = KOTI_TYPE_TH /\ w[2] = t /\ w[3] = h
              /\ \A n \in 4..7 : w[n] = Uuid[d][n])
               => Publications(Uuid[d], w) \subseteq
                    Meaning([uuid |-> Uuid[d], kind |-> "th", args |-> <<t, h>>])
  BY ThMeans
<1>2. sequence[d] \in 0..255 /\ KOTI_TYPE_TH \in Byte
  BY Values DEF TypeOK
<1>3. QED
  BY <1>1, <1>2, SendStep DEF send_th

LEMMA BatteryStep ==
  ASSUME TypeOK, AllGenuine, NEW d \in Device,
         NEW c \in Percentages(d), NEW v \in Voltage,
         send_battery(d, c, KOTI_PSU_BATTERY_LITHIUM, 1, v)
  PROVE  /\ sequence' \in [Device -> 0..255] /\ pck' \in [Device -> Packet]
         /\ air' \subseteq Packet /\ lan' \subseteq Packet
         /\ sent' \in [Device -> Nat] /\ AllGenuine' /\ built \subseteq built'
<1> DEFINE args == <<<<c>>, <<KOTI_PSU_BATTERY_LITHIUM>>, <<1>>, v>>
           x == <<c, KOTI_PSU_BATTERY_LITHIUM, 1, 0>>
<1>1. \A w : (/\ Type(w) = KOTI_TYPE_PSU /\ w[2] = x /\ w[3] = v
              /\ \A n \in 4..7 : w[n] = Uuid[d][n])
               => Publications(Uuid[d], w) \subseteq
                    Meaning([uuid |-> Uuid[d], kind |-> "battery", args |-> args])
  BY BatteryMeans
<1>2. sequence[d] \in 0..255 /\ KOTI_TYPE_PSU \in Byte /\ x \in Word /\ v \in Word
  BY Values DEF TypeOK
<1>3. Transmit(d, sequence[d], Filled(d, KOTI_TYPE_PSU, x, v)) /\ Report(d, "battery", args)
  BY DEF send_battery
<1> HIDE DEF args, x
<1>4. QED
  BY <1>1, <1>2, <1>3, SendStep

LEMMA UsageStep ==
  ASSUME TypeOK, AllGenuine, NEW d \in Device, send_usage(d)
  PROVE  /\ sequence' \in [Device -> 0..255] /\ pck' \in [Device -> Packet]
         /\ air' \subseteq Packet /\ lan' \subseteq Packet
         /\ sent' \in [Device -> Nat] /\ AllGenuine' /\ built \subseteq built'
<1> DEFINE x == LowWord(millilitres[d])
<1>1. \A w : (/\ Type(w) = KOTI_TYPE_WATER_FLOW_MILLILITRE /\ w[2] = x /\ w[3] = ZeroWord
              /\ \A n \in 4..7 : w[n] = Uuid[d][n])
               => Publications(Uuid[d], w) \subseteq
                    Meaning([uuid |-> Uuid[d], kind |-> "usage", args |-> <<x, ZeroWord>>])
  BY UsageMeans
<1>2. /\ sequence[d] \in 0..255 /\ KOTI_TYPE_WATER_FLOW_MILLILITRE \in Byte
      /\ x \in Word /\ ZeroWord \in Word
  BY Values, ByteValues DEF TypeOK
<1>3. QED
  BY <1>1, <1>2, SendStep DEF send_usage

LEMMA ClickStep ==
  ASSUME TypeOK, AllGenuine, NEW d \in Device, send_click(d)
  PROVE  /\ sequence' \in [Device -> 0..255] /\ pck' \in [Device -> Packet]
         /\ air' \subseteq Packet /\ lan' \subseteq Packet
         /\ sent' \in [Device -> Nat] /\ AllGenuine' /\ built \subseteq built'
<1>1. \A w : (/\ Type(w) = KOTI_TYPE_CLICK /\ w[2] = ZeroWord /\ w[3] = ZeroWord
              /\ \A n \in 4..7 : w[n] = Uuid[d][n])
               => Publications(Uuid[d], w) \subseteq
                    Meaning([uuid |-> Uuid[d], kind |-> "click", args |-> <<>>])
  BY ClickMeans
<1>2. sequence[d] \in 0..255 /\ KOTI_TYPE_CLICK \in Byte /\ ZeroWord \in Word
  BY Values, ByteValues DEF TypeOK
<1>3. QED
  BY <1>1, <1>2, SendStep DEF send_click

-----------------------------------------------------------------------------
(***************************************************************************)
(* Every action preserves the invariant.                                   *)
(***************************************************************************)
LEMMA StepInv == IInv /\ [Next]_vars => IInv'
<1> SUFFICES ASSUME IInv, [Next]_vars PROVE IInv'
  OBVIOUS
<1>0. TypeOK /\ AllGenuine /\ Authentic
  BY DEF IInv
<1>i. installed' = installed
  BY DEF Next, vars
<1>1. ASSUME NEW d \in Device, Start(d) PROVE IInv'
  <2>1. CASE \E name \in Text : send_debug(d, 0, name)
    <3>1. /\ sequence' \in [Device -> 0..255] /\ pck' \in [Device -> Packet]
          /\ air' \subseteq Packet /\ lan' \subseteq Packet
          /\ sent' \in [Device -> Nat] /\ AllGenuine' /\ built \subseteq built'
      BY <1>0, <2>1, DebugStep
    <3>2. published' = published
      BY <1>1 DEF Start
    <3>3. TypeOK'
      BY <1>0, <1>i, <1>1, <3>1 DEF Start, TypeOK
    <3>4. QED
      BY <1>0, <3>1, <3>2, <3>3, AuthenticStays DEF IInv
  <2>2. CASE /\ driver' = [driver EXCEPT ![d] = FALSE]
             /\ sequence' = [sequence EXCEPT ![d] = 0]
             /\ UNCHANGED <<pck, air, lan, built, sent>>
    <3>1. TypeOK'
      BY <1>0, <1>i, <1>1, <2>2 DEF Start, TypeOK
    <3>2. AllGenuine' /\ Authentic'
      BY <1>0, <1>1, <2>2 DEF Start, AllGenuine, Genuine, Authentic
    <3>3. QED
      BY <3>1, <3>2 DEF IInv
  <2>3. QED
    BY <1>1, <2>1, <2>2 DEF Start
<1>2. ASSUME NEW d \in Device, SendTh(d) PROVE IInv'
  <2>1. PICK r \in Reading :
          /\ temperature' = [temperature EXCEPT ![d] = r[1]]
          /\ humidity' = [humidity EXCEPT ![d] = r[2]]
          /\ send_th(d, r[1], r[2])
    BY <1>2 DEF SendTh
  <2>2. r[1] \in Word /\ r[2] \in Word
    BY Values
  <2>3. /\ sequence' \in [Device -> 0..255] /\ pck' \in [Device -> Packet]
        /\ air' \subseteq Packet /\ lan' \subseteq Packet
        /\ sent' \in [Device -> Nat] /\ AllGenuine' /\ built \subseteq built'
    BY <1>0, <2>1, <2>2, ThStep
  <2>4. TypeOK'
    BY <1>0, <1>i, <1>2, <2>1, <2>2, <2>3 DEF SendTh, TypeOK
  <2>5. published' = published
    BY <1>2 DEF SendTh
  <2>6. QED
    BY <1>0, <2>3, <2>4, <2>5, AuthenticStays DEF IInv
<1>3. ASSUME NEW d \in Device, SendStaleTh(d) PROVE IInv'
  <2>1. temperature[d] \in Word /\ humidity[d] \in Word
    BY <1>0 DEF TypeOK
  <2>2. send_th(d, temperature[d], humidity[d]) /\ published' = published
    BY <1>3 DEF SendStaleTh
  <2>3. /\ sequence' \in [Device -> 0..255] /\ pck' \in [Device -> Packet]
        /\ air' \subseteq Packet /\ lan' \subseteq Packet
        /\ sent' \in [Device -> Nat] /\ AllGenuine' /\ built \subseteq built'
    BY <1>0, <2>1, <2>2, ThStep
  <2>4. TypeOK'
    BY <1>0, <1>i, <1>3, <2>3 DEF SendStaleTh, TypeOK
  <2>5. QED
    BY <1>0, <2>2, <2>3, <2>4, AuthenticStays DEF IInv
<1>4. ASSUME NEW d \in Device, SendError(d) PROVE IInv'
  <2>1. sequence[d] \in 0..255 /\ published' = published
    BY <1>0, <1>4 DEF TypeOK, SendError
  <2>2. /\ sequence' \in [Device -> 0..255] /\ pck' \in [Device -> Packet]
        /\ air' \subseteq Packet /\ lan' \subseteq Packet
        /\ sent' \in [Device -> Nat] /\ AllGenuine' /\ built \subseteq built'
    BY <1>0, <1>4, <2>1, DebugStep DEF SendError
  <2>3. TypeOK'
    BY <1>0, <1>i, <1>4, <2>2 DEF SendError, TypeOK
  <2>4. QED
    BY <1>0, <2>1, <2>2, <2>3, AuthenticStays DEF IInv
<1>5. ASSUME NEW d \in Device, SendBattery(d) PROVE IInv'
  <2>1. published' = published
    BY <1>5 DEF SendBattery
  <2>2. /\ sequence' \in [Device -> 0..255] /\ pck' \in [Device -> Packet]
        /\ air' \subseteq Packet /\ lan' \subseteq Packet
        /\ sent' \in [Device -> Nat] /\ AllGenuine' /\ built \subseteq built'
    BY <1>0, <1>5, BatteryStep DEF SendBattery
  <2>3. TypeOK'
    <3>1. millilitres' \in [Device -> Nat]
      <4>1. millilitres \in [Device -> Nat]
        BY <1>0 DEF TypeOK
      <4>2. millilitres' = [millilitres EXCEPT ![d] = @ + 1] \/ millilitres' = millilitres
        BY <1>5 DEF SendBattery
      <4>3. QED
        BY <4>1, <4>2
    <3>2. pc' = [pc EXCEPT ![d] = "battery"]
          /\ UNCHANGED <<driver, temperature, humidity, published>>
      BY <1>5 DEF SendBattery
    <3>3. QED
      BY <1>0, <1>i, <2>2, <3>1, <3>2 DEF TypeOK
  <2>4. QED
    BY <1>0, <2>1, <2>2, <2>3, AuthenticStays DEF IInv
<1>6. ASSUME NEW d \in Device, SendUsage(d) PROVE IInv'
  <2>1. send_usage(d) /\ published' = published
    BY <1>6 DEF SendUsage
  <2>2. /\ sequence' \in [Device -> 0..255] /\ pck' \in [Device -> Packet]
        /\ air' \subseteq Packet /\ lan' \subseteq Packet
        /\ sent' \in [Device -> Nat] /\ AllGenuine' /\ built \subseteq built'
    BY <1>0, <2>1, UsageStep
  <2>3. TypeOK'
    BY <1>0, <1>i, <1>6, <2>2 DEF SendUsage, TypeOK
  <2>4. QED
    BY <1>0, <2>1, <2>2, <2>3, AuthenticStays DEF IInv
<1>7. ASSUME NEW d \in Device, SendClick(d) PROVE IInv'
  <2>1. send_click(d) /\ published' = published
    BY <1>7 DEF SendClick
  <2>2. /\ sequence' \in [Device -> 0..255] /\ pck' \in [Device -> Packet]
        /\ air' \subseteq Packet /\ lan' \subseteq Packet
        /\ sent' \in [Device -> Nat] /\ AllGenuine' /\ built \subseteq built'
    BY <1>0, <2>1, ClickStep
  <2>3. TypeOK'
    BY <1>0, <1>i, <1>7, <2>2 DEF SendClick, TypeOK
  <2>4. QED
    BY <1>0, <2>1, <2>2, <2>3, AuthenticStays DEF IInv
<1>8. ASSUME NEW d \in Device, Meter(d) PROVE IInv'
  <2>1. millilitres' \in [Device -> Nat]
    BY <1>0, <1>8 DEF Meter, TypeOK
  <2>2. TypeOK'
    BY <1>0, <1>i, <1>8, <2>1 DEF Meter, TypeOK
  <2>3. AllGenuine' /\ Authentic'
    BY <1>0, <1>8 DEF Meter, AllGenuine, Genuine, Authentic
  <2>4. QED
    BY <2>2, <2>3 DEF IInv
<1>9. ASSUME NEW d \in Device, Restart(d) PROVE IInv'
  <2>1. [enc |-> 0, ttl |-> 0, w |-> ZeroWords] \in Packet /\ ZeroWord \in Word
    BY ByteValues DEF Packet, EncLevel, TTL_MAX
  <2>2. TypeOK'
    BY <1>0, <1>i, <1>9, <2>1 DEF Restart, TypeOK
  <2>3. AllGenuine' /\ Authentic'
    BY <1>0, <1>9 DEF Restart, AllGenuine, Genuine, Authentic
  <2>4. QED
    BY <2>2, <2>3 DEF IInv
<1>10. ASSUME NEW p \in air, RadioToLan(p) PROVE IInv'
  <2>1. TypeOK'
    BY <1>0, <1>i, <1>10 DEF RadioToLan, TypeOK, device
  <2>2. AllGenuine' /\ Authentic'
    BY <1>0, <1>10 DEF RadioToLan, AllGenuine, Genuine, Authentic, device
  <2>3. QED
    BY <2>1, <2>2 DEF IInv
<1>11. ASSUME NEW p \in lan, LanToRadio(p) PROVE IInv'
  <2>1. TypeOK'
    BY <1>0, <1>i, <1>11 DEF LanToRadio, TypeOK, device
  <2>2. AllGenuine' /\ Authentic'
    BY <1>0, <1>11 DEF LanToRadio, AllGenuine, Genuine, Authentic, device
  <2>3. QED
    BY <2>1, <2>2 DEF IInv
<1>12. ASSUME NEW p \in lan, Receive(p) PROVE IInv'
  <2>1. TypeOK'
    BY <1>0, <1>i, <1>12 DEF Receive, TypeOK, device
  <2>2. AllGenuine'
    BY <1>0, <1>12 DEF Receive, AllGenuine, Genuine, device
  <2>3. PICK d \in Device, b \in built :
          /\ UuidOf(p.w) = Uuid[d]
          /\ Publications(Uuid[d], decrypt(DeviceKey[d], p).w) \subseteq Meaning(b)
    BY <1>0 DEF AllGenuine, Genuine
  <2>4. Config[UuidOf(p.w)] = DeviceKey[d]
    BY <1>12, <2>3, NetworkAssumption
    DEF NetworkAssumption, Receive, Accepts, parse_header
  <2>5. published' \subseteq published \cup Meaning(b) /\ built' = built
    BY <1>12, <2>3, <2>4 DEF Receive, device
  <2>6. Authentic'
    BY <1>0, <2>5 DEF Authentic
  <2>7. QED
    BY <2>1, <2>2, <2>6 DEF IInv
<1>13. CASE UNCHANGED vars
  BY <1>0, <1>13 DEF IInv, vars, device, TypeOK, AllGenuine, Genuine, Authentic
<1>14. QED
  BY <1>0, <1>1, <1>2, <1>3, <1>4, <1>5, <1>6, <1>7, <1>8, <1>9, <1>10, <1>11, <1>12, <1>13
  DEF Next, DeviceStep, TypeOK

(***************************************************************************)
(* The sensors, the media and the controller stay well typed.              *)
(***************************************************************************)
THEOREM NetworkTypes == Spec => []TypeOK
<1>1. IInv => TypeOK
  BY DEF IInv
<1>2. QED
  BY <1>1, InitInv, StepInv, PTL DEF Spec

(***************************************************************************)
(* Every published message is the meaning of a report its sensor made.     *)
(***************************************************************************)
THEOREM NetworkAuthentic == Spec => []Authentic
<1>1. IInv => Authentic
  BY DEF IInv
<1>2. QED
  BY <1>1, InitInv, StepInv, PTL DEF Spec

(***************************************************************************)
(* Every packet of a registered sensor is accepted by the controller.      *)
(***************************************************************************)
THEOREM NetworkReadable == Spec => []Readable
<1>1. IInv => Readable
  <2> SUFFICES ASSUME AllGenuine, NEW p \in air \cup lan
               PROVE  /\ UuidOf(p.w) \in {Uuid[d] : d \in Device}
                      /\ UuidOf(p.w) \in DOMAIN Config => Accepts(p)
    BY DEF IInv, Readable
  <2>1. PICK d \in Device :
          /\ UuidOf(p.w) = Uuid[d]
          /\ Src(p.w) = KOTI_NRF_ADDR_BROADCAST /\ Dst(p.w) = KOTI_NRF_ADDR_CTRL
          /\ decrypt(DeviceKey[d], p).ok
    BY DEF AllGenuine, Genuine
  <2>2. UuidOf(p.w) \in DOMAIN Config => Config[UuidOf(p.w)] = DeviceKey[d]
    BY <2>1, NetworkAssumption DEF NetworkAssumption
  <2>3. QED
    BY <2>1, <2>2 DEF Accepts, parse_header
<1>2. QED
  BY <1>1, InitInv, StepInv, PTL DEF Spec
=============================================================================
