---------------------------- MODULE MCKotiLink ----------------------------
(***************************************************************************)
(* KotiLink with two-bit bytes, small enough to evaluate the assumptions   *)
(* on the cipher for every key and every block.  The cipher is a two-round *)
(* Feistel network and the crc a table-driven pass over the 32 bytes, both *)
(* stand-ins for the libraries.                                            *)
(***************************************************************************)
EXTENDS KotiLink, KotiPacketTheorems

MCByte == 0..3
MCKey  == {1, 2}

MCXor(a, b) == ((a + b) % 2) + 2 * (((a \div 2) + (b \div 2)) % 2)

MCWordXor(u, v) == [i \in 1..4 |-> MCXor(u[i], v[i])]

MCRound(k, u) == [i \in 1..4 |-> (u[(i % 4) + 1] * u[i] + k + i) % 4]

MCRc5Encrypt(k, b) ==
  LET v == MCWordXor(b[2], MCRound(k, b[1]))
  IN  <<MCWordXor(b[1], MCRound(k, v)), v>>

MCRc5Decrypt(k, b) ==
  LET u == MCWordXor(b[1], MCRound(k, b[2]))
  IN  <<u, MCWordXor(b[2], MCRound(k, u))>>

MCCrcStep(b) == <<0, 3, 1, 2>>[1 + b]

MCWord(n, v) == [i \in 1..4 |-> (i * n + v) % 4]

(***************************************************************************)
(* Contents of the buffer: a broadcast header, then one of two values for  *)
(* each payload word.                                                      *)
(***************************************************************************)
MCFillings ==
  {[n \in 0..7 |-> IF n = 0 THEN <<3, 0, 0, 0>>
                   ELSE IF n = 1 THEN <<0, 0, 2, 0>>
                   ELSE MCWord(n, IF n \in ones THEN 1 ELSE 2)] :
     ones \in SUBSET {2, 5}}
=============================================================================
