------------------------- MODULE KotiLinkTheorems -------------------------
(***************************************************************************)
(* What the controller and a listener get out of a sealed packet, for any  *)
(* cipher, crc table and contents, at every encryption level.              *)
(***************************************************************************)
EXTENDS KotiLink, KotiPacketTheorems

(***************************************************************************)
(* Opening yields words even when a packet was not sealed under the key.   *)
(***************************************************************************)
LEMMA DecryptTypes ==
  ASSUME NEW k \in Key, NEW w \in Words
  PROVE  /\ DecryptFirst(k, w) \in Words
         /\ \A n \in 2..4 : DecryptBlock(k, w, n) \in Words
         /\ \A a \in {1, 2} : RawDecrypt(k, w, a) \in Words
<1>1. \A a \in 0..6 : <<w[a], w[a + 1]>> \in Block
  BY DEF Block, Words
<1>2. \A a \in 0..6 : /\ Rc5Decrypt(k, <<w[a], w[a + 1]>>)[1] \in Word
                      /\ Rc5Decrypt(k, <<w[a], w[a + 1]>>)[2] \in Word
  BY <1>1, Cipher DEF Block
<1>3. DecryptFirst(k, w) \in Words
  <2>1. Rc5Decrypt(k, <<w[1], w[2]>>)[1] \in Word /\ Rc5Decrypt(k, <<w[1], w[2]>>)[2] \in Word
    BY <1>2
  <2>2. XorWord(Rc5Decrypt(k, <<w[1], w[2]>>)[1], w[0]) \in Word
    BY <2>1, XorWordCancels DEF Words
  <2>3. QED
    BY <2>1, <2>2 DEF DecryptFirst, Words
<1>4. ASSUME NEW n \in 2..4 PROVE DecryptBlock(k, w, n) \in Words
  <2> DEFINE a == 2 * n - 2
             c == Rc5Decrypt(k, <<w[a], w[a + 1]>>)
  <2>1. a \in 2..6 /\ c[1] \in Word /\ c[2] \in Word
    BY <1>2
  <2>2. w[a - 2] \in Word /\ w[a - 1] \in Word
    BY <2>1 DEF Words
  <2>3. XorWord(c[1], w[a - 2]) \in Word /\ XorWord(c[2], w[a - 1]) \in Word
    BY <2>1, <2>2, XorWordCancels
  <2>4. DecryptBlock(k, w, n) = [w EXCEPT ![a]     = XorWord(c[1], w[a - 2]),
                                          ![a + 1] = XorWord(c[2], w[a - 1])]
    BY DEF DecryptBlock
  <2> HIDE DEF a, c
  <2>5. QED
    BY <2>1, <2>3, <2>4 DEF Words
<1>5. ASSUME NEW a \in {1, 2} PROVE RawDecrypt(k, w, a) \in Words
  <2>1. /\ Rc5Decrypt(k, <<w[a], w[a + 1]>>)[1] \in Word
        /\ Rc5Decrypt(k, <<w[a], w[a + 1]>>)[2] \in Word
    BY <1>2
  <2>2. QED
    BY <2>1 DEF RawDecrypt, Words
<1>6. QED
  BY <1>3, <1>4, <1>5

LEMMA HeardType ==
  ASSUME NEW k \in Key, NEW p \in Packet
  PROVE  koti_recv(k, p) \in Opening
<1> DEFINE w4 == IF p.enc = 4      THEN DecryptBlock(k, p.w, 4) ELSE p.w
           w3 == IF p.enc \in 3..4 THEN DecryptBlock(k, w4, 3)  ELSE w4
           w2 == IF p.enc \in 2..4 THEN RawDecrypt(k, w3, 2)    ELSE w3
           w1 == IF p.enc \in 1..4 THEN RawDecrypt(k, w2, 1)    ELSE w2
           z  == [NoCrc(w1) EXCEPT ![0] = [@ EXCEPT ![3] = w1[1][2]]]
<1>1. w4 \in Words
  BY DecryptTypes DEF Packet
<1> HIDE DEF w4
<1>2. w3 \in Words
  BY <1>1, DecryptTypes
<1> HIDE DEF w3
<1>3. w2 \in Words
  BY <1>2, DecryptTypes
<1> HIDE DEF w2
<1>4. w1 \in Words
  BY <1>3, DecryptTypes
<1> HIDE DEF w1
<1>5. NoCrc(w1) \in Words /\ w1[1][2] \in Byte
  BY <1>4, ByteOps DEF NoCrc, Words, Word
<1>6. z \in Words
  BY <1>5 DEF Words, Word
<1>7. koti_recv(k, p) = [ok |-> Crc8(z) = w1[1][1], w |-> z]
  BY DEF koti_recv, w1, w2, w3, w4
<1>8. QED
  BY <1>6, <1>7 DEF Opening

-----------------------------------------------------------------------------
(***************************************************************************)
(* Inductive: whatever was transmitted last is the sealing of the recorded *)
(* contents, so the controller may open it at any later time.              *)
(***************************************************************************)
Sealed == Sent => decrypt(SharedKey, pck) = [ok |-> TRUE, w |-> NoCrc(sealed)]

IInv == TypeOK /\ Sealed /\ ControllerRecovers

LEMMA LinkInit == Init => IInv
<1>1. ZeroWords \in Words
  BY ByteOps DEF ZeroWords, Words, Word
<1>2. QED
  BY <1>1, LinkAssumption
  DEF LinkAssumption, Init, IInv, TypeOK, Sealed, Sent, ControllerRecovers, Packet,
      EncLevel, TTL_MAX

LEMMA LinkStep == IInv /\ [Next]_vars => IInv'
<1> SUFFICES ASSUME IInv, [Next]_vars PROVE IInv'
  OBVIOUS
<1>0. TypeOK /\ Sealed /\ ControllerRecovers /\ SharedKey \in Key
  BY LinkAssumption DEF LinkAssumption, IInv
<1>1. ASSUME NEW w \in Fillings, NEW enc \in EncLevel, NEW rand \in Rand, NEW rsv \in Rand,
             Send(w, enc, rand, rsv)
      PROVE  IInv'
  <2> DEFINE f == [enc |-> enc, ttl |-> 0, w |-> w]
             s == Stamp(w, sequence, rand, rsv)
  <2>1. /\ f \in Packet /\ f.w = w /\ w \in Words
        /\ sequence \in Byte /\ rand \in Byte /\ rsv \in Byte
    BY <1>0, LinkAssumption DEF LinkAssumption, TypeOK, Packet, TTL_MAX
  <2>2. s \in Words /\ Summed(s) \in Words /\ NoCrc(Summed(s)) = s
    BY <2>1, SummedChecks
  <2>3. pck' = koti_send(SharedKey, f, sequence, rand, rsv) /\ sealed' = Summed(s)
    BY <1>1 DEF Send
  <2> HIDE DEF f
  <2>4. pck' \in Packet
    BY <1>0, <2>1, <2>3, SealedOpens
  <2>5. decrypt(SharedKey, pck') = [ok |-> TRUE, w |-> s]
    <3>1. decrypt(SharedKey, pck').ok
      BY <1>0, <2>1, <2>3, SealedOpens
    <3>2. decrypt(SharedKey, koti_send(SharedKey, f, sequence, rand, rsv)).w
            = Stamp(f.w, sequence, rand, rsv)
      BY <1>0, <2>1, SealedOpens, SMTT(30)
    <3>3. decrypt(SharedKey, pck').w = s
      BY <2>1, <2>3, <3>2
    <3>4. QED
      BY <3>1, <3>3 DEF decrypt
  <2>6. Sealed'
    BY <2>2, <2>3, <2>5 DEF Sealed
  <2>7. TypeOK' /\ ControllerRecovers'
    <3>1. sequence' \in 0..(SeqSpan - 1)
      BY <1>0, <1>1, LinkAssumption DEF LinkAssumption, Send, TypeOK
    <3>2. QED
      BY <1>1, <2>2, <2>3, <2>4, <3>1 DEF Send, TypeOK, ControllerRecovers
  <2>8. QED
    BY <2>6, <2>7 DEF IInv
<1>2. CASE ControllerOpens
  <2>1. opened' = {[ok |-> TRUE, w |-> NoCrc(sealed)]} /\ UNCHANGED <<sequence, pck, sealed, heard>>
    BY <1>0, <1>2 DEF ControllerOpens, Sealed
  <2>2. NoCrc(sealed) \in Words
    BY <1>0, ByteOps DEF TypeOK, NoCrc, Words, Word
  <2>3. QED
    BY <1>0, <2>1, <2>2 DEF IInv, TypeOK, Sealed, Sent, ControllerRecovers, Opening
<1>3. CASE ListenerOpens
  <2>1. heard' \subseteq Opening /\ UNCHANGED <<sequence, pck, sealed, opened>>
    BY <1>0, <1>3, HeardType DEF ListenerOpens, TypeOK
  <2>2. QED
    BY <1>0, <2>1 DEF IInv, TypeOK, Sealed, Sent, ControllerRecovers
<1>4. CASE Restart
  <2>1. ZeroWords \in Words
    BY ByteOps DEF ZeroWords, Words, Word
  <2>2. QED
    BY <1>4, <2>1, LinkAssumption
    DEF LinkAssumption, Restart, IInv, TypeOK, Sealed, Sent, ControllerRecovers, Packet,
        EncLevel, TTL_MAX
<1>5. CASE UNCHANGED vars
  BY <1>0, <1>5 DEF vars, IInv, TypeOK, Sealed, Sent, ControllerRecovers
<1>6. QED
  BY <1>1, <1>2, <1>3, <1>4, <1>5 DEF Next

(***************************************************************************)
(* Sealed and opened packets stay eight words of four bytes.               *)
(***************************************************************************)
THEOREM LinkTypes == Spec => []TypeOK
<1>1. IInv => TypeOK
  BY DEF IInv
<1>2. QED
  BY <1>1, LinkInit, LinkStep, PTL DEF Spec

(***************************************************************************)
(* The controller recovers what the sender sealed, at every level.         *)
(***************************************************************************)
THEOREM LinkControllerRecovers == Spec => []ControllerRecovers
<1>1. IInv => ControllerRecovers
  BY DEF IInv
<1>2. QED
  BY <1>1, LinkInit, LinkStep, PTL DEF Spec

-----------------------------------------------------------------------------
(***************************************************************************)
(* A block changes the two words it covers; what a level covers is the     *)
(* union of its blocks.                                                    *)
(***************************************************************************)
LEMMA BlocksCover ==
  ASSUME NEW k \in Key, NEW w \in Words, NEW n \in 0..7
  PROVE  /\ n \notin 1..2 => EncryptFirst(k, w)[n] = w[n]
         /\ n \notin 2..3 => EncryptBlock(k, w, 2)[n] = w[n]
         /\ n \notin 4..5 => EncryptBlock(k, w, 3)[n] = w[n]
         /\ n \notin 6..7 => EncryptBlock(k, w, 4)[n] = w[n]
<1>1. w = [i \in 0..7 |-> w[i]]
  BY DEF Words
<1>2. n \notin 1..2 => EncryptFirst(k, w)[n] = w[n]
  BY <1>1 DEF EncryptFirst
<1>3. ASSUME NEW m \in 2..4, n # 2 * m - 2, n # 2 * m - 1
      PROVE  EncryptBlock(k, w, m)[n] = w[n]
  <2>1. 2 * m - 2 + 1 = 2 * m - 1
    OBVIOUS
  <2> QED BY <1>1, <1>3, <2>1 DEF EncryptBlock
<1> QED BY <1>2, <1>3

LEMMA EncryptCovers ==
  ASSUME NEW k \in Key, NEW w \in Words, NEW enc \in EncLevel, NEW n \in 0..7 \ Covered(enc)
  PROVE  Encrypt(k, w, enc)[n] = w[n]
<1> DEFINE w1 == IF enc >= 1 THEN EncryptFirst(k, w)     ELSE w
           w2 == IF enc >= 2 THEN EncryptBlock(k, w1, 2) ELSE w1
           w3 == IF enc >= 3 THEN EncryptBlock(k, w2, 3) ELSE w2
           w4 == IF enc >= 4 THEN EncryptBlock(k, w3, 4) ELSE w3
<1>0. /\ enc \in 0..7
      /\ enc >= 1 => n \notin 1..2
      /\ enc >= 2 => n \notin 2..3
      /\ enc >= 3 => n \notin 4..5
      /\ enc >= 4 => n \notin 6..7
  BY DEF EncLevel, Covered
<1>1. w1 \in Words /\ w1[n] = w[n]
  BY <1>0, FirstBlockInverse, BlocksCover
<1> HIDE DEF w1
<1>2. w2 \in Words /\ w2[n] = w[n]
  BY <1>0, <1>1, ChainedBlockInverse, BlocksCover
<1> HIDE DEF w2
<1>3. w3 \in Words /\ w3[n] = w[n]
  <2>1. EncryptBlock(k, w2, 3) \in Words
    BY <1>2, ChainedBlockInverse
  <2>2. enc >= 3 => EncryptBlock(k, w2, 3)[n] = w2[n]
    BY <1>0, <1>2, BlocksCover
  <2> QED BY <1>2, <2>1, <2>2
<1> HIDE DEF w3
<1>4. w4[n] = w[n]
  BY <1>0, <1>3, BlocksCover
<1>5. Encrypt(k, w, enc) = w4
  BY DEF Encrypt, w1, w2, w3
<1> QED BY <1>4, <1>5

(***************************************************************************)
(* Of a packet on the air, the words beyond its encrypted blocks are as    *)
(* the sender summed them.                                                 *)
(***************************************************************************)
THEOREM LinkClearBeyondBlocks == Spec => []ClearBeyondBlocks
<1>1. Init => ClearBeyondBlocks
  BY DEF Init, ClearBeyondBlocks
<1>2. IInv /\ ClearBeyondBlocks /\ [Next]_vars => ClearBeyondBlocks'
  <2> SUFFICES ASSUME IInv, ClearBeyondBlocks, [Next]_vars PROVE ClearBeyondBlocks'
    OBVIOUS
  <2>1. ASSUME NEW w \in Fillings, NEW enc \in EncLevel, NEW rand \in Rand, NEW rsv \in Rand,
               Send(w, enc, rand, rsv)
        PROVE  ClearBeyondBlocks'
    <3> DEFINE s == Summed(Stamp(w, sequence, rand, rsv))
    <3>1. SharedKey \in Key /\ w \in Words /\ sequence \in Byte /\ rand \in Byte /\ rsv \in Byte
      BY LinkAssumption DEF LinkAssumption, IInv, TypeOK
    <3>2. s \in Words
      BY <3>1, SummedChecks
    <3>3. pck'.enc = enc /\ pck'.w = Encrypt(SharedKey, s, enc) /\ sealed' = s
      BY <2>1 DEF Send, koti_send
    <3> HIDE DEF s
    <3> QED BY <3>1, <3>2, <3>3, EncryptCovers DEF ClearBeyondBlocks
  <2>2. CASE Restart
    BY <2>2 DEF Restart, ClearBeyondBlocks
  <2>3. CASE ControllerOpens \/ ListenerOpens \/ UNCHANGED vars
    BY <2>3 DEF ControllerOpens, ListenerOpens, vars, ClearBeyondBlocks
  <2> QED BY <2>1, <2>2, <2>3 DEF Next
<1> QED BY <1>1, <1>2, LinkInit, LinkStep, PTL DEF Spec
=============================================================================
