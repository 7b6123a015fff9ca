----------------------------- MODULE RadioLibs -----------------------------
(***************************************************************************)
(* Eight-bit stand-ins for the libraries behind KotiPacket, for the models *)
(* that use the real packet codes: the exclusive or by nibble table, the   *)
(* dallas crc of proxy/mqtt/crc.py bit by bit, and a Feistel network in    *)
(* the place of RC5.                                                       *)
(***************************************************************************)
EXTENDS Integers, Sequences

Bit(b, i) == (b \div 2^i) % 2

Nibbles ==
  [a \in 0..15 |-> [b \in 0..15 |->
     LET x(i) == 2^i * ((Bit(a, i) + Bit(b, i)) % 2)
     IN  x(0) + x(1) + x(2) + x(3)]]

XorTable ==
  [a \in 0..255 |-> [b \in 0..255 |->
     16 * Nibbles[a \div 16][b \div 16] + Nibbles[a % 16][b % 16]]]

XorByte(a, b) == XorTable[a][b]

CrcTaps == <<94, 188, 97, 194, 157, 35, 70, 140>>

CrcTable ==
  [b \in 0..255 |->
     LET crc[i \in 0..8] ==
           IF i = 0 THEN 0
           ELSE IF Bit(b, i - 1) = 1 THEN XorByte(crc[i - 1], CrcTaps[i]) ELSE crc[i - 1]
     IN  crc[8]]

crc8_step(b) == CrcTable[b]

WordXor(u, v) == [i \in 1..4 |-> XorByte(u[i], v[i])]

Round(k, u) == [i \in 1..4 |-> (u[(i % 4) + 1] * 3 + u[i] + 17 * k + i) % 256]

FeistelEncrypt(k, b) ==
  LET v == WordXor(b[2], Round(k, b[1]))
  IN  <<WordXor(b[1], Round(k, v)), v>>

FeistelDecrypt(k, b) ==
  LET u == WordXor(b[1], Round(k, b[2]))
  IN  <<u, WordXor(b[2], Round(k, u))>>
=============================================================================
