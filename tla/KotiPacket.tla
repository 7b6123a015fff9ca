---------------------------- MODULE KotiPacket ----------------------------
(***************************************************************************)
(* The koti radio packet: 32 bytes, here eight words of four bytes, and    *)
(* the three routines that seal and open it:                               *)
(*   koti_send  common/nrf24l01p/nrf.c nrf24l01p_koti_send, every sensor;  *)
(*   decrypt    proxy/mqtt/decrypt.py, the controller;                     *)
(*   koti_recv  common/nrf24l01p/nrf.c nrf24l01p_koti_recv, C listeners.   *)
(*                                                                         *)
(*   word 0  src, dst, flags, seq      word 2..7  payload; a sensor puts   *)
(*   word 1  crc, rand, type, rsv                 its uuid in words 4..7   *)
(*                                                                         *)
(* The flags byte of a packet in flight is held in the fields enc (bits    *)
(* 5-7) and ttl (bits 0-1): every routine takes it out of word 0 before it *)
(* computes a crc or an exclusive or, and the byte it puts there instead   *)
(* (0 or rand) is the third byte of word 0.                                *)
(*                                                                         *)
(* The byte operations of the libraries are parameters: any exclusive or   *)
(* that cancels itself, any crc, any keyed permutation of 8-byte blocks.   *)
(***************************************************************************)
EXTENDS Integers

CONSTANTS Byte,              \* the values of a byte
          Key,               \* RC5 keys, as padded to 16 bytes by both sides
          Xor(_, _),         \* exclusive or of two bytes
          CrcStep(_),        \* the table of the dallas crc, one byte per step
          Rc5Encrypt(_, _),  \* rc5_encrypt() of a block under a key
          Rc5Decrypt(_, _)   \* rc5_decrypt() of a block under a key

Word  == [1..4 -> Byte]
Words == [0..7 -> Word]
Block == [1..2 -> Word]

EncLevel == 0..7
TTL_MAX  == 3

Packet == [enc : EncLevel, ttl : 0..TTL_MAX, w : Words]

(***************************************************************************)
(* Header fields by name.                                                  *)
(***************************************************************************)
Src(w)  == w[0][1]
Dst(w)  == w[0][2]
Type(w) == w[1][3]

XorWord(u, v) == [i \in 1..4 |-> Xor(u[i], v[i])]

(***************************************************************************)
(* crc8_dallas: every byte in turn is combined with the crc so far, and    *)
(* the result is looked up.                                                *)
(***************************************************************************)
CrcWord(c, u) ==
  CrcStep(Xor(CrcStep(Xor(CrcStep(Xor(CrcStep(Xor(c, u[1])), u[2])), u[3])), u[4]))

Crc8(w) ==
  CrcWord(CrcWord(CrcWord(CrcWord(CrcWord(CrcWord(CrcWord(CrcWord(0,
    w[0]), w[1]), w[2]), w[3]), w[4]), w[5]), w[6]), w[7])

(***************************************************************************)
(* Block 1 covers bytes 4..11 (words 1 and 2) and only its first word is   *)
(* chained to the word before it.  Block n >= 2 covers words 2n-2 and 2n-1 *)
(* and is chained to the two words before it.                              *)
(***************************************************************************)
EncryptFirst(k, w) ==
  LET c == Rc5Encrypt(k, <<XorWord(w[1], w[0]), w[2]>>)
  IN  [w EXCEPT ![1] = c[1], ![2] = c[2]]

EncryptBlock(k, w, n) ==
  LET a == 2 * n - 2
      c == Rc5Encrypt(k, <<XorWord(w[a], w[a - 2]), XorWord(w[a + 1], w[a - 1])>>)
  IN  [w EXCEPT ![a] = c[1], ![a + 1] = c[2]]

(***************************************************************************)
(* EncryptEager is Encrypt with the third block encrypted one level early. *)
(***************************************************************************)
EncryptEager(k, w, enc) ==
  LET w1 == IF enc >= 1 THEN EncryptFirst(k, w)     ELSE w
      w2 == IF enc >= 2 THEN EncryptBlock(k, w1, 2) ELSE w1
      w3 == IF enc >= 2 THEN EncryptBlock(k, w2, 3) ELSE w2
  IN        IF enc >= 4 THEN EncryptBlock(k, w3, 4) ELSE w3

Encrypt(k, w, enc) ==
  LET w1 == IF enc >= 1 THEN EncryptFirst(k, w)     ELSE w
      w2 == IF enc >= 2 THEN EncryptBlock(k, w1, 2) ELSE w1
      w3 == IF enc >= 3 THEN EncryptBlock(k, w2, 3) ELSE w2
  IN        IF enc >= 4 THEN EncryptBlock(k, w3, 4) ELSE w3

DecryptFirst(k, w) ==
  LET c == Rc5Decrypt(k, <<w[1], w[2]>>)
  IN  [w EXCEPT ![1] = XorWord(c[1], w[0]), ![2] = c[2]]

DecryptBlock(k, w, n) ==
  LET a == 2 * n - 2
      c == Rc5Decrypt(k, <<w[a], w[a + 1]>>)
  IN  [w EXCEPT ![a]     = XorWord(c[1], w[a - 2]),
                ![a + 1] = XorWord(c[2], w[a - 1])]

(***************************************************************************)
(* DecryptForward is Decrypt with the blocks undone in the order in which  *)
(* the sender applied them.                                                *)
(***************************************************************************)
DecryptForward(k, w, enc) ==
  LET w1 == IF enc >= 1 THEN DecryptFirst(k, w)     ELSE w
      w2 == IF enc >= 2 THEN DecryptBlock(k, w1, 2) ELSE w1
      w3 == IF enc >= 3 THEN DecryptBlock(k, w2, 3) ELSE w2
  IN        IF enc >= 4 THEN DecryptBlock(k, w3, 4) ELSE w3

Decrypt(k, w, enc) ==
  LET w4 == IF enc >= 4 THEN DecryptBlock(k, w, 4)  ELSE w
      w3 == IF enc >= 3 THEN DecryptBlock(k, w4, 3) ELSE w4
      w2 == IF enc >= 2 THEN DecryptBlock(k, w3, 2) ELSE w3
  IN        IF enc >= 1 THEN DecryptFirst(k, w2)    ELSE w2

(***************************************************************************)
(* nrf24l01p_koti_send up to the transmission: sequence number, two random *)
(* bytes, crc over the packet with flags and crc zero, encryption in       *)
(* place, flags restored with the ttl at its maximum.                      *)
(***************************************************************************)
Stamp(w, seq, rand, rsv) ==
  [w EXCEPT ![0] = [@ EXCEPT ![3] = 0, ![4] = seq],
            ![1] = [@ EXCEPT ![1] = 0, ![2] = rand, ![4] = rsv]]

Summed(w) == [w EXCEPT ![1] = [@ EXCEPT ![1] = Crc8(w)]]

(***************************************************************************)
(* koti_send_ttl is koti_send with a ttl that does not fit its two bits.   *)
(***************************************************************************)
koti_send_ttl(k, p, seq, rand, rsv) ==
  [enc |-> p.enc,
   ttl |-> TTL_MAX + 1,
   w   |-> Encrypt(k, Summed(Stamp(p.w, seq, rand, rsv)), p.enc)]

koti_send(k, p, seq, rand, rsv) ==
  [enc |-> p.enc,
   ttl |-> TTL_MAX,
   w   |-> Encrypt(k, Summed(Stamp(p.w, seq, rand, rsv)), p.enc)]

(***************************************************************************)
(* The controller's decrypt(): flags zeroed, blocks undone from the last   *)
(* to the first, crc compared with the crc byte zeroed.                    *)
(***************************************************************************)
NoCrc(w) == [w EXCEPT ![1] = [@ EXCEPT ![1] = 0]]

(***************************************************************************)
(* decrypt_crc is decrypt with the crc byte left in place for the check.   *)
(***************************************************************************)
decrypt_crc(k, p) ==
  LET w == Decrypt(k, p.w, p.enc)
  IN  [ok |-> Crc8(w) = w[1][1], w |-> NoCrc(w)]

decrypt(k, p) ==
  LET w == Decrypt(k, p.w, p.enc)
  IN  [ok |-> Crc8(NoCrc(w)) = w[1][1], w |-> NoCrc(w)]

(***************************************************************************)
(* The listeners' nrf24l01p_koti_recv after a reception.  The switch falls *)
(* through from block 4 to block 1, has no case for the levels 5..7, and   *)
(* blocks 2 and 1 are deciphered without the exclusive or; the crc is      *)
(* taken with rand in the place of flags.                                  *)
(***************************************************************************)
RawDecrypt(k, w, a) ==
  LET c == Rc5Decrypt(k, <<w[a], w[a + 1]>>)
  IN  [w EXCEPT ![a] = c[1], ![a + 1] = c[2]]

koti_recv(k, p) ==
  LET w4 == IF p.enc = 4      THEN DecryptBlock(k, p.w, 4) ELSE p.w
      w3 == IF p.enc \in 3..4 THEN DecryptBlock(k, w4, 3)  ELSE w4
      w2 == IF p.enc \in 2..4 THEN RawDecrypt(k, w3, 2)    ELSE w3
      w1 == IF p.enc \in 1..4 THEN RawDecrypt(k, w2, 1)    ELSE w2
      z  == [NoCrc(w1) EXCEPT ![0] = [@ EXCEPT ![3] = w1[1][2]]]
  IN  [ok |-> Crc8(z) = w1[1][1], w |-> z]
=============================================================================
