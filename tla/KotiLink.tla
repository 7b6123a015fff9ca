----------------------------- MODULE KotiLink -----------------------------
(***************************************************************************)
(* One sender, the controller and a C listener on a medium that loses      *)
(* nothing: what a packet sealed by koti_send with any encryption level    *)
(* looks like to the two programs that open packets.  The sender fills a   *)
(* packet, koti_send seals it in place, and each reader opens its own copy *)
(* at any time before the next transmission.                               *)
(***************************************************************************)
EXTENDS KotiPacket

CONSTANTS SharedKey,   \* the key the sender, the controller and the listener hold
          Fillings,    \* contents a caller may leave in the buffer before koti_send
          Rand,        \* values of rand() & 0xff
          SeqSpan      \* sequence numbers wrap at SeqSpan

ASSUME LinkAssumption ==
  /\ SharedKey \in Key
  /\ Fillings \subseteq Words
  /\ Rand \subseteq Byte
  /\ SeqSpan \in Nat \ {0}
  /\ 0..(SeqSpan - 1) \subseteq Byte

VARIABLES sequence,    \* static uint8_t sequence of nrf.c
          pck,         \* the sender's transmit buffer
          sealed,      \* history: the buffer when its crc was stored, before encryption
          opened,      \* result of the controller's decrypt(), {} until it ran
          heard        \* result of the listener's koti_recv, {} until it ran

vars == <<sequence, pck, sealed, opened, heard>>

Opening == [ok : BOOLEAN, w : Words]

ZeroWords == [n \in 0..7 |-> [i \in 1..4 |-> 0]]

Init ==
  /\ sequence = 0
  /\ pck = [enc |-> 0, ttl |-> 0, w |-> ZeroWords]
  /\ sealed = ZeroWords
  /\ opened = {}
  /\ heard = {}

(***************************************************************************)
(* The caller fills the buffer and asks for an encryption level; the       *)
(* buffer then holds the sealed packet, which is what goes on the air.     *)
(* (SendUnwrapped, a mutant, lets the sequence number run one too far.)    *)
(***************************************************************************)
SendUnwrapped(w, enc, rand, rsv) ==
  /\ pck' = koti_send(SharedKey, [enc |-> enc, ttl |-> 0, w |-> w], sequence, rand, rsv)
  /\ sealed' = Summed(Stamp(w, sequence, rand, rsv))
  /\ sequence' = IF sequence < SeqSpan THEN sequence + 1 ELSE 0
  /\ opened' = {}
  /\ heard' = {}

Send(w, enc, rand, rsv) ==
  /\ pck' = koti_send(SharedKey, [enc |-> enc, ttl |-> 0, w |-> w], sequence, rand, rsv)
  /\ sealed' = Summed(Stamp(w, sequence, rand, rsv))
  /\ sequence' = (sequence + 1) % SeqSpan
  /\ opened' = {}
  /\ heard' = {}

Sent == sealed # ZeroWords

ControllerOpens ==
  /\ Sent
  /\ opened' = {decrypt(SharedKey, pck)}
  /\ UNCHANGED <<sequence, pck, sealed, heard>>

ListenerOpens ==
  /\ Sent
  /\ heard' = {koti_recv(SharedKey, pck)}
  /\ UNCHANGED <<sequence, pck, sealed, opened>>

(***************************************************************************)
(* Power cycle: sequence and the static buffer start from zero again.      *)
(***************************************************************************)
Restart ==
  /\ sequence' = 0
  /\ pck' = [enc |-> 0, ttl |-> 0, w |-> ZeroWords]
  /\ sealed' = ZeroWords
  /\ opened' = {}
  /\ heard' = {}

Next ==
  \/ \E w \in Fillings, enc \in EncLevel, rand, rsv \in Rand : Send(w, enc, rand, rsv)
  \/ ControllerOpens
  \/ ListenerOpens
  \/ Restart

Spec == Init /\ [][Next]_vars

-----------------------------------------------------------------------------
(***************************************************************************)
(* Type invariant: every word of a sealed or opened packet stays a word.   *)
(***************************************************************************)
TypeOK ==
  /\ sequence \in 0..(SeqSpan - 1)
  /\ pck \in Packet
  /\ sealed \in Words
  /\ opened \subseteq Opening
  /\ heard \subseteq Opening

(***************************************************************************)
(* The controller recovers, at every encryption level, exactly what the    *)
(* sender had in its buffer when it computed the crc, and accepts it: the  *)
(* order in which decrypt.py undoes the overlapping blocks 1 and 2 is the  *)
(* inverse of the order in which nrf.c applies them.                       *)
(***************************************************************************)
ControllerRecovers ==
  \A o \in opened : o.ok /\ o.w = NoCrc(sealed)

(***************************************************************************)
(* Words a reader without the key must find as the sender wrote them.  The *)
(* controller depends on it: it reads the uuid from words 4..7 to look up  *)
(* the key, so a sensor may ask for at most two blocks.                    *)
(***************************************************************************)
Covered(enc) ==
  CASE enc = 0 -> {}
    [] enc = 1 -> 1..2
    [] enc = 2 -> 1..3
    [] enc = 3 -> 1..5
    [] OTHER   -> 1..7

ClearBeyondBlocks ==
  \A n \in 0..7 \ Covered(pck.enc) : pck.w[n] = sealed[n]

(***************************************************************************)
(* What nrf.h says of the crc ("crc of whole packet unencrypted with flags *)
(* set to rand") and what koti_recv checks: the listener accepts what      *)
(* koti_send transmitted.                                                  *)
(***************************************************************************)
ListenerAccepts == \A h \in heard : h.ok
=============================================================================
