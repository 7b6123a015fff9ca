------------------------ MODULE KotiPacketTheorems ------------------------
(***************************************************************************)
(* Sealing and opening a packet are inverse at every encryption level, for *)
(* any cipher, any exclusive or and any crc table that meet the            *)
(* assumptions.                                                            *)
(***************************************************************************)
EXTENDS KotiPacket, TLAPS

(***************************************************************************)
(* What is assumed of the byte operations: results are bytes, and the      *)
(* exclusive or cancels itself.                                            *)
(***************************************************************************)
ASSUME ByteOps ==
  /\ 0 \in Byte
  /\ \A b \in Byte : CrcStep(b) \in Byte
  /\ \A a, b \in Byte : Xor(a, b) \in Byte /\ Xor(Xor(a, b), b) = a

(***************************************************************************)
(* What is assumed of RC5: a key permutes the blocks.                      *)
(***************************************************************************)
ASSUME Cipher ==
  \A k \in Key : \A b \in Block :
    /\ Rc5Encrypt(k, b) \in Block
    /\ Rc5Decrypt(k, b) \in Block
    /\ Rc5Decrypt(k, Rc5Encrypt(k, b)) = b

(***************************************************************************)
(* The exclusive or of two words is a word and cancels itself.             *)
(***************************************************************************)
LEMMA XorWordCancels ==
  ASSUME NEW u \in Word, NEW v \in Word
  PROVE  /\ XorWord(u, v) \in Word
         /\ XorWord(XorWord(u, v), v) = u
  BY ByteOps DEF XorWord, Word

(***************************************************************************)
(* The crc of eight words is a byte.                                       *)
(***************************************************************************)
LEMMA CrcWordType ==
  ASSUME NEW c \in Byte, NEW u \in Word
  PROVE  CrcWord(c, u) \in Byte
  BY ByteOps DEF CrcWord, Word

LEMMA CrcType ==
  ASSUME NEW w \in Words
  PROVE  Crc8(w) \in Byte
<1>1. \A n \in 0..7 : w[n] \in Word
  BY DEF Words
<1>2. 0 \in Byte
  BY ByteOps
<1>3. CrcWord(CrcWord(CrcWord(CrcWord(0, w[0]), w[1]), w[2]), w[3]) \in Byte
  BY <1>1, <1>2, CrcWordType
<1>4. QED
  BY <1>1, <1>3, CrcWordType DEF Crc8

(***************************************************************************)
(* The first block: bytes 4..11, of which the first four are chained.      *)
(***************************************************************************)
LEMMA FirstBlockInverse ==
  ASSUME NEW k \in Key, NEW w \in Words
  PROVE  /\ EncryptFirst(k, w) \in Words
         /\ DecryptFirst(k, EncryptFirst(k, w)) = w
<1> DEFINE b == <<XorWord(w[1], w[0]), w[2]>>
           c == Rc5Encrypt(k, b)
           e == EncryptFirst(k, w)
<1>1. w[0] \in Word /\ w[1] \in Word /\ w[2] \in Word
  BY DEF Words
<1>2. b \in Block
  BY <1>1, XorWordCancels DEF Block
<1>3. c \in Block /\ Rc5Decrypt(k, c) = b
  BY <1>2, Cipher
<1>4. c[1] \in Word /\ c[2] \in Word /\ c = <<c[1], c[2]>>
  BY <1>3 DEF Block
<1> HIDE DEF b, c
<1>5. e = [w EXCEPT ![1] = c[1], ![2] = c[2]]
  BY DEF EncryptFirst, b, c
<1>6. e \in Words /\ e[0] = w[0] /\ e[1] = c[1] /\ e[2] = c[2]
  BY <1>4, <1>5 DEF Words
<1>7. Rc5Decrypt(k, <<e[1], e[2]>>) = b
  BY <1>3, <1>4, <1>6
<1>8. XorWord(b[1], w[0]) = w[1] /\ b[2] = w[2]
  BY <1>1, XorWordCancels DEF b
<1>9. DecryptFirst(k, e) = [e EXCEPT ![1] = w[1], ![2] = w[2]]
  BY <1>6, <1>7, <1>8 DEF DecryptFirst
<1>10. [e EXCEPT ![1] = w[1], ![2] = w[2]] = w
  BY <1>5 DEF Words
<1>11. QED
  BY <1>6, <1>9, <1>10

(***************************************************************************)
(* Blocks 2, 3 and 4: eight bytes chained to the eight before them.        *)
(***************************************************************************)
LEMMA ChainedBlockInverse ==
  ASSUME NEW k \in Key, NEW w \in Words, NEW n \in 2..4
  PROVE  /\ EncryptBlock(k, w, n) \in Words
         /\ DecryptBlock(k, EncryptBlock(k, w, n), n) = w
<1> DEFINE a == 2 * n - 2
           b == <<XorWord(w[a], w[a - 2]), XorWord(w[a + 1], w[a - 1])>>
           c == Rc5Encrypt(k, b)
           e == EncryptBlock(k, w, n)
<1>0. a \in 2..6
  OBVIOUS
<1>1. a \in 0..7 /\ a + 1 \in 0..7 /\ a - 1 \in 0..7 /\ a - 2 \in 0..7
  BY <1>0
<1>2. w[a] \in Word /\ w[a + 1] \in Word /\ w[a - 1] \in Word /\ w[a - 2] \in Word
  BY <1>1 DEF Words
<1>3. b \in Block
  BY <1>2, XorWordCancels DEF Block
<1>4. c \in Block /\ Rc5Decrypt(k, c) = b
  BY <1>3, Cipher
<1>5. c[1] \in Word /\ c[2] \in Word /\ c = <<c[1], c[2]>>
  BY <1>4 DEF Block
<1>6. e = [w EXCEPT ![a] = c[1], ![a + 1] = c[2]]
  BY DEF EncryptBlock
<1>7. XorWord(b[1], w[a - 2]) = w[a] /\ XorWord(b[2], w[a - 1]) = w[a + 1]
  BY <1>2, XorWordCancels
<1>8. DecryptBlock(k, e, n) =
        [e EXCEPT ![a] = XorWord(Rc5Decrypt(k, <<e[a], e[a + 1]>>)[1], e[a - 2]),
                  ![a + 1] = XorWord(Rc5Decrypt(k, <<e[a], e[a + 1]>>)[2], e[a - 1])]
  BY DEF DecryptBlock
<1> HIDE DEF a, b, c, e
<1>9. e \in Words /\ e[a] = c[1] /\ e[a + 1] = c[2]
                  /\ e[a - 1] = w[a - 1] /\ e[a - 2] = w[a - 2]
  BY <1>0, <1>1, <1>5, <1>6 DEF Words
<1>10. Rc5Decrypt(k, <<e[a], e[a + 1]>>) = b
  BY <1>4, <1>5, <1>9
<1>11. DecryptBlock(k, e, n) = [e EXCEPT ![a] = w[a], ![a + 1] = w[a + 1]]
  BY <1>7, <1>8, <1>9, <1>10
<1>12. [e EXCEPT ![a] = w[a], ![a + 1] = w[a + 1]] = w
  BY <1>0, <1>1, <1>6 DEF Words
<1>13. QED
  BY <1>9, <1>11, <1>12 DEF e

(***************************************************************************)
(* Whatever the level in the flags, decrypt.py undoes what nrf.c did to    *)
(* the 32 bytes.                                                           *)
(***************************************************************************)
THEOREM RoundTrip ==
  ASSUME NEW k \in Key, NEW w \in Words, NEW enc \in EncLevel
  PROVE  /\ Encrypt(k, w, enc) \in Words
         /\ Decrypt(k, Encrypt(k, w, enc), enc) = w
<1> DEFINE w1 == IF enc >= 1 THEN EncryptFirst(k, w)     ELSE w
           w2 == IF enc >= 2 THEN EncryptBlock(k, w1, 2) ELSE w1
           w3 == IF enc >= 3 THEN EncryptBlock(k, w2, 3) ELSE w2
           w4 == IF enc >= 4 THEN EncryptBlock(k, w3, 4) ELSE w3
<1>1. w1 \in Words /\ (IF enc >= 1 THEN DecryptFirst(k, w1) ELSE w1) = w
  BY FirstBlockInverse
<1> HIDE DEF w1
<1>2. w2 \in Words /\ (IF enc >= 2 THEN DecryptBlock(k, w2, 2) ELSE w2) = w1
  BY <1>1, ChainedBlockInverse
<1> HIDE DEF w2
<1>3. w3 \in Words /\ (IF enc >= 3 THEN DecryptBlock(k, w3, 3) ELSE w3) = w2
  BY <1>2, ChainedBlockInverse
<1> HIDE DEF w3
<1>4. w4 \in Words /\ (IF enc >= 4 THEN DecryptBlock(k, w4, 4) ELSE w4) = w3
  BY <1>3, ChainedBlockInverse
<1>5. Encrypt(k, w, enc) = w4
  BY DEF Encrypt, w1, w2, w3, w4
<1> HIDE DEF w4
<1>6. Decrypt(k, w4, enc) = w
  BY <1>1, <1>2, <1>3, <1>4 DEF Decrypt
<1>7. QED
  BY <1>4, <1>5, <1>6

(***************************************************************************)
(* The buffer when its crc is stored: the crc byte is the crc of the same  *)
(* words with that byte zero.                                              *)
(***************************************************************************)
LEMMA SummedChecks ==
  ASSUME NEW w \in Words, NEW seq \in Byte, NEW rand \in Byte, NEW rsv \in Byte
  PROVE  LET s == Stamp(w, seq, rand, rsv) IN
           /\ s \in Words
           /\ Summed(s) \in Words
           /\ NoCrc(Summed(s)) = s
           /\ Summed(s)[1][1] = Crc8(s)
<1> DEFINE s == Stamp(w, seq, rand, rsv)
<1>1. 0 \in Byte
  BY ByteOps
<1>2. s \in Words /\ s[1][1] = 0
  BY <1>1 DEF Stamp, Words, Word
<1>3. Crc8(s) \in Byte
  BY <1>2, CrcType
<1> HIDE DEF s
<1>4. Summed(s) \in Words /\ Summed(s)[1][1] = Crc8(s)
  BY <1>2, <1>3 DEF Summed, Words, Word
<1>5. NoCrc(Summed(s)) = s
  BY <1>2, <1>3 DEF NoCrc, Summed, Words, Word
<1>6. QED
  BY <1>2, <1>4, <1>5 DEF s

(***************************************************************************)
(* The controller accepts every packet sealed under the key it looks up,   *)
(* whatever the level, the sequence number and the random bytes, and finds *)
(* in it what the sender stamped.                                          *)
(***************************************************************************)
THEOREM SealedOpens ==
  ASSUME NEW k \in Key, NEW p \in Packet,
         NEW seq \in Byte, NEW rand \in Byte, NEW rsv \in Byte
  PROVE  /\ koti_send(k, p, seq, rand, rsv) \in Packet
         /\ decrypt(k, koti_send(k, p, seq, rand, rsv)).ok
         /\ decrypt(k, koti_send(k, p, seq, rand, rsv)).w = Stamp(p.w, seq, rand, rsv)
<1> DEFINE s == Stamp(p.w, seq, rand, rsv)
           q == koti_send(k, p, seq, rand, rsv)
<1>1. p.w \in Words /\ p.enc \in EncLevel
  BY DEF Packet
<1>2. s \in Words /\ Summed(s) \in Words /\ NoCrc(Summed(s)) = s
                  /\ Summed(s)[1][1] = Crc8(s)
  BY <1>1, SummedChecks
<1> HIDE DEF s
<1>3. q = [enc |-> p.enc, ttl |-> TTL_MAX, w |-> Encrypt(k, Summed(s), p.enc)]
  BY DEF koti_send, s
<1>4. /\ Encrypt(k, Summed(s), p.enc) \in Words
      /\ Decrypt(k, Encrypt(k, Summed(s), p.enc), p.enc) = Summed(s)
  BY <1>1, <1>2, RoundTrip
<1>5. q \in Packet
  BY <1>1, <1>3, <1>4 DEF Packet, TTL_MAX
<1>6. decrypt(k, q) = [ok |-> Crc8(NoCrc(Summed(s))) = Summed(s)[1][1],
                       w  |-> NoCrc(Summed(s))]
  BY <1>3, <1>4 DEF decrypt
<1>7. Crc8(NoCrc(Summed(s))) = Summed(s)[1][1]
  BY <1>2
<1>8. decrypt(k, q).ok
  <2>1. decrypt(k, q) = [ok |-> TRUE, w |-> NoCrc(Summed(s))]
    BY <1>6, <1>7, Zenon
  <2>2. decrypt(k, q).ok = TRUE
    BY <2>1
  <2>3. QED
    BY <2>2
<1>9. decrypt(k, q).w = s
  BY <1>2, <1>6
<1>10. QED
  BY <1>5, <1>8, <1>9 DEF s

(***************************************************************************)
(* Words no block covers leave the sender as they were: with at most two   *)
(* blocks, that is what lets the controller read the uuid.                 *)
(***************************************************************************)
THEOREM UuidStaysClear ==
  ASSUME NEW k \in Key, NEW w \in Words, NEW enc \in 0..2, NEW n \in {0, 4, 5, 6, 7}
  PROVE  Encrypt(k, w, enc)[n] = w[n]
<1> DEFINE w1 == IF enc >= 1 THEN EncryptFirst(k, w)     ELSE w
           w2 == IF enc >= 2 THEN EncryptBlock(k, w1, 2) ELSE w1
<1>1. w1 \in Words
  BY FirstBlockInverse
<1>2. w1[n] = w[n]
  BY DEF EncryptFirst, Words
<1> HIDE DEF w1
<1>3. w2[n] = w1[n]
  BY <1>1 DEF EncryptBlock, Words
<1>4. Encrypt(k, w, enc) = w2
  BY DEF Encrypt, w1, w2
<1>5. QED
  BY <1>2, <1>3, <1>4

(***************************************************************************)
(* What a packet with at most two encrypted blocks shows before it is      *)
(* opened and after: addresses and the last four words in the clear, type  *)
(* and payload once opened.                                                *)
(***************************************************************************)
LEMMA SealedFields ==
  ASSUME NEW k \in Key, NEW f \in Packet, f.enc \in 0..2,
         NEW seq \in Byte, NEW rand \in Byte, NEW rsv \in Byte,
         NEW p, p = koti_send(k, f, seq, rand, rsv)
  PROVE  /\ p \in Packet
         /\ p.w[0][1] = f.w[0][1] /\ p.w[0][2] = f.w[0][2]
         /\ \A n \in 4..7 : p.w[n] = f.w[n]
         /\ decrypt(k, p).ok
         /\ decrypt(k, p).w[1][3] = f.w[1][3]
         /\ \A n \in 2..7 : decrypt(k, p).w[n] = f.w[n]
<1> DEFINE s == Stamp(f.w, seq, rand, rsv)
<1>1. f.w \in Words /\ f.enc \in EncLevel
  BY DEF Packet
<1>2. p \in Packet
  BY SealedOpens
<1>3. decrypt(k, p).ok
  BY SealedOpens
<1>4. decrypt(k, p).w = s
  <2>1. decrypt(k, koti_send(k, f, seq, rand, rsv)).w = Stamp(f.w, seq, rand, rsv)
    BY SealedOpens, SMTT(30)
  <2>2. QED
    BY <2>1
<1>5. /\ s[0][1] = f.w[0][1] /\ s[0][2] = f.w[0][2] /\ s[1][3] = f.w[1][3]
      /\ \A n \in 2..7 : s[n] = f.w[n]
  BY <1>1 DEF Stamp, Words, Word
<1>6. s \in Words /\ Summed(s) \in Words
  BY <1>1, SummedChecks
<1>7. p.w = Encrypt(k, Summed(s), f.enc)
  BY DEF koti_send
<1> HIDE DEF s
<1>8. \A n \in {0, 4, 5, 6, 7} : Summed(s)[n] = s[n]
  BY <1>6 DEF Summed, Words
<1>9. \A n \in {0, 4, 5, 6, 7} : p.w[n] = s[n]
  BY <1>6, <1>7, <1>8, UuidStaysClear
<1>10. QED
  BY <1>2, <1>3, <1>4, <1>5, <1>9
=============================================================================
