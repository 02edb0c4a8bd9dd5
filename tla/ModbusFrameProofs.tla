------------------------- MODULE ModbusFrameProofs -------------------------
(***************************************************************************)
(* Proofs about ModbusFrame for every checksum that satisfies its          *)
(* assumption, every set of frames and every way the bytes arrive.         *)
(***************************************************************************)
EXTENDS ModbusFrame, SequenceTheorems, TLAPS

-----------------------------------------------------------------------------
(***************************************************************************)
(* Bytes.                                                                  *)
(***************************************************************************)
\* The weights of the bits, one by one.
LEMMA Weights ==
  /\ Power2[1] = 1 /\ Power2[2] = 2 /\ Power2[3] = 4 /\ Power2[4] = 8
  /\ Power2[5] = 16 /\ Power2[6] = 32 /\ Power2[7] = 64 /\ Power2[8] = 128
BY DEF Power2

\* A byte with a bit flipped is a byte.
LEMMA FlippedByte ==
  ASSUME NEW x \in Byte, NEW b \in 0 .. 7
  PROVE  (IF Bit(x, b) = 1 THEN x - Power2[b + 1] ELSE x + Power2[b + 1]) \in Byte
<1>1. CASE b = 0 BY <1>1, Weights DEF Bit, Byte
<1>2. CASE b = 1 BY <1>2, Weights DEF Bit, Byte
<1>3. CASE b = 2 BY <1>3, Weights DEF Bit, Byte
<1>4. CASE b = 3 BY <1>4, Weights DEF Bit, Byte
<1>5. CASE b = 4 BY <1>5, Weights DEF Bit, Byte
<1>6. CASE b = 5 BY <1>6, Weights DEF Bit, Byte
<1>7. CASE b = 6 BY <1>7, Weights DEF Bit, Byte
<1>8. CASE b = 7 BY <1>8, Weights DEF Bit, Byte
<1>9. QED BY <1>1, <1>2, <1>3, <1>4, <1>5, <1>6, <1>7, <1>8

\* The relays read from the byte of a set of relays are that set.
LEMMA CoilsRoundTrip ==
  ASSUME NEW c, c \subseteq 0 .. NUM_DO - 1
  PROVE  {i \in 0 .. NUM_DO - 1 : Bit(CoilByte(c), i) = 1} = c
<1> DEFINE t(i) == IF i \in c THEN 1 ELSE 0
<1>1. CoilByte(c) = t(0) + 2 * t(1) + 4 * t(2) + 8 * t(3) + 16 * t(4) + 32 * t(5)
  BY Weights DEF CoilByte
<1>2. \A i \in 0 .. 5 : t(i) \in {0, 1} /\ (t(i) = 1 <=> i \in c)
  OBVIOUS
<1> HIDE DEF t
<1>3. ASSUME NEW i \in 0 .. 5
      PROVE  Bit(CoilByte(c), i) = t(i)
  <2>1. /\ t(0) \in {0, 1} /\ t(1) \in {0, 1} /\ t(2) \in {0, 1}
        /\ t(3) \in {0, 1} /\ t(4) \in {0, 1} /\ t(5) \in {0, 1}
    BY <1>2
  <2>2. CASE i = 0 BY <2>1, <2>2, <1>1, Weights DEF Bit
  <2>3. CASE i = 1 BY <2>1, <2>3, <1>1, Weights DEF Bit
  <2>4. CASE i = 2 BY <2>1, <2>4, <1>1, Weights DEF Bit
  <2>5. CASE i = 3 BY <2>1, <2>5, <1>1, Weights DEF Bit
  <2>6. CASE i = 4 BY <2>1, <2>6, <1>1, Weights DEF Bit
  <2>7. CASE i = 5 BY <2>1, <2>7, <1>1, Weights DEF Bit
  <2>8. QED BY <2>2, <2>3, <2>4, <2>5, <2>6, <2>7
<1>4. 0 .. NUM_DO - 1 = 0 .. 5
  BY DEF NUM_DO
<1>5. \A i \in 0 .. 5 : Bit(CoilByte(c), i) = 1 <=> i \in c
  BY <1>2, <1>3
<1>6. QED BY <1>4, <1>5, Zenon

-----------------------------------------------------------------------------
(***************************************************************************)
(* Frames.                                                                 *)
(***************************************************************************)
\* A frame that ends with its checksum: its first bytes are those given.
LEMMA ChecksumBehind ==
  ASSUME NEW buf \in Seq(Int)
  PROVE  /\ DOMAIN GenerateCRC_modbus(buf) = 1 .. Len(buf) + 2
         /\ Len(GenerateCRC_modbus(buf)) = Len(buf) + 2
         /\ \A i \in 1 .. Len(buf) : GenerateCRC_modbus(buf)[i] = buf[i]
<1> DEFINE S    == Int \cup {CRC16(buf) % 256, CRC16(buf) \div 256}
           tail == <<CRC16(buf) % 256, CRC16(buf) \div 256>>
<1>1. tail \in Seq(S) /\ Len(tail) = 2
  OBVIOUS
<1>2. GenerateCRC_modbus(buf) = buf \o tail
  BY DEF GenerateCRC_modbus
<1>3. buf \in Seq(S)
  <2>1. Int \subseteq S
    OBVIOUS
  <2>2. QED BY <2>1, SeqMonotonic
<1> HIDE DEF tail, S
<1>4. /\ buf \o tail \in Seq(S)
      /\ Len(buf \o tail) = Len(buf) + Len(tail)
      /\ \A i \in 1 .. Len(buf) + Len(tail) :
           (buf \o tail)[i] = IF i <= Len(buf) THEN buf[i] ELSE tail[i - Len(buf)]
  BY <1>1, <1>3, ConcatProperties
<1>5. DOMAIN (buf \o tail) = 1 .. Len(buf \o tail)
  BY <1>4, LenProperties
<1>6. Len(buf \o tail) = Len(buf) + 2 /\ Len(buf) \in Nat
  BY <1>1, <1>4, LenProperties
<1>7. QED BY <1>1, <1>2, <1>4, <1>5, <1>6

\* A function on 1 .. n is a sequence of length n.
LEMMA SeqOfFunction ==
  ASSUME NEW S, NEW n \in Nat, NEW s \in [1 .. n -> S]
  PROVE  s \in Seq(S) /\ Len(s) = n
<1>1. s \in Seq(S)
  BY SeqDef
<1>2. Len(s) \in Nat /\ 1 .. Len(s) = 1 .. n
  BY <1>1, LenProperties
<1>3. QED BY <1>1, <1>2

\* Six weights at most add up to a byte.
LEMMA CoilByteIsByte ==
  ASSUME NEW c PROVE CoilByte(c) \in Byte
BY Weights DEF CoilByte, Byte

\* An answer with one byte of data: its length and its bytes.
LEMMA AnswerShape ==
  ASSUME NEW c \in Coils, NEW code \in {1, 2}, NEW f,
         f = GenerateCRC_modbus(<<1, code, 1, CoilByte(c)>>)
  PROVE  /\ DOMAIN f = 1 .. 6 /\ Len(f) = 6
         /\ f[2] = code /\ f[3] = 1 /\ f[4] = CoilByte(c)
         /\ CoilsOf(f) = c
<1> DEFINE buf == <<1, code, 1, CoilByte(c)>>
<1>1. buf \in Seq(Int) /\ Len(buf) = 4
  BY CoilByteIsByte DEF Byte
<1>2. buf[2] = code /\ buf[3] = 1 /\ buf[4] = CoilByte(c)
  OBVIOUS
<1>0. f = GenerateCRC_modbus(buf)
  OBVIOUS
<1> HIDE DEF buf
<1>3. /\ DOMAIN f = 1 .. 6 /\ Len(f) = 6
      /\ f[2] = buf[2] /\ f[3] = buf[3] /\ f[4] = buf[4]
  <2>1. /\ DOMAIN f = 1 .. Len(buf) + 2 /\ Len(f) = Len(buf) + 2
        /\ \A i \in 1 .. Len(buf) : f[i] = buf[i]
    BY <1>1, <1>0, ChecksumBehind
  <2>2. QED BY <2>1, <1>1
<1>4. c \subseteq 0 .. NUM_DO - 1
  BY ModbusFrameAssumption
<1>5. CoilsOf(f) = c
  BY ZenonT(30), <1>2, <1>3, <1>4, CoilsRoundTrip DEF CoilsOf
<1>6. QED BY <1>2, <1>3, <1>5

\* Sizes and bytes of the answer to GetAI, and the values read from it.
LEMMA ValuesShape ==
  ASSUME NEW v \in Values
  PROVE  /\ DOMAIN AnswerAI[v] = 1 .. 17 /\ Len(AnswerAI[v]) = 17
         /\ AnswerAI[v][2] = 4 /\ AnswerAI[v][3] = 12
         /\ ValuesOf(AnswerAI[v]) = v
<1> DEFINE head == <<1, 4, 2 * NUM_AI>>
           data == [k \in 1 .. 2 * NUM_AI |-> IF k % 2 = 1 THEN v[(k + 1) \div 2] \div 256
                                              ELSE v[k \div 2] % 256]
           buf  == head \o data
<1>1. v \in [1 .. 6 -> Int] /\ \A i \in 1 .. 6 : v[i] \in Short
  BY ModbusFrameAssumption DEF NUM_AI, Short
<1>2. /\ data = [k \in 1 .. 12 |-> data[k]]
      /\ \A k \in 1 .. 12 : data[k] = IF k % 2 = 1 THEN v[(k + 1) \div 2] \div 256
                                      ELSE v[k \div 2] % 256
  BY DEF NUM_AI
<1>4. head \in Seq(Int) /\ Len(head) = 3 /\ head[2] = 4 /\ head[3] = 12
  BY DEF NUM_AI
<1>7. AnswerAI[v] = GenerateCRC_modbus(buf)
  BY DEF AnswerAI
<1> HIDE DEF head, data, buf
<1>3. data \in Seq(Int) /\ Len(data) = 12
  <2>1. data \in [1 .. 12 -> Int]
    <3>1. ASSUME NEW k \in 1 .. 12
          PROVE  data[k] \in Int
      <4>1. CASE k % 2 = 1
        <5>1. (k + 1) \div 2 \in 1 .. 6
          BY <4>1
        <5>2. QED BY <5>1, <4>1, <1>1, <1>2
      <4>2. CASE k % 2 # 1
        <5>1. k \div 2 \in 1 .. 6
          BY <4>2
        <5>2. QED BY <5>1, <4>2, <1>1, <1>2
      <4>3. QED BY <4>1, <4>2
    <3>2. QED BY <3>1, <1>2
  <2>2. QED BY <2>1, SeqOfFunction
<1>5. buf \in Seq(Int) /\ Len(buf) = 15
  <2>1. buf \in Seq(Int) /\ Len(buf) = Len(head) + Len(data)
    BY <1>3, <1>4, ConcatProperties DEF buf
  <2>2. QED BY <2>1, <1>3, <1>4
<1>6. buf[2] = 4 /\ buf[3] = 12 /\ \A k \in 1 .. 12 : buf[3 + k] = data[k]
  <2>1. \A i \in 1 .. Len(head) + Len(data) :
          buf[i] = IF i <= Len(head) THEN head[i] ELSE data[i - Len(head)]
    BY <1>3, <1>4, ConcatProperties DEF buf
  <2>2. \A i \in 1 .. 15 : buf[i] = IF i <= 3 THEN head[i] ELSE data[i - 3]
    BY <2>1, <1>3, <1>4
  <2>3. QED BY <2>2, <1>4
<1>8. /\ DOMAIN AnswerAI[v] = 1 .. 17 /\ Len(AnswerAI[v]) = 17
      /\ \A i \in 1 .. 15 : AnswerAI[v][i] = buf[i]
  <2>1. /\ DOMAIN AnswerAI[v] = 1 .. Len(buf) + 2 /\ Len(AnswerAI[v]) = Len(buf) + 2
        /\ \A i \in 1 .. Len(buf) : AnswerAI[v][i] = buf[i]
    BY <1>5, <1>7, ChecksumBehind
  <2>2. QED BY <2>1, <1>5
<1>9. ASSUME NEW i \in 1 .. 6
      PROVE  HighByteFirst(AnswerAI[v][2 + 2 * i], AnswerAI[v][3 + 2 * i]) = v[i]
  <2>1. AnswerAI[v][2 + 2 * i] = data[2 * i - 1] /\ AnswerAI[v][3 + 2 * i] = data[2 * i]
    <3>1. 2 * i - 1 \in 1 .. 12 /\ 2 * i \in 1 .. 12
      OBVIOUS
    <3>2. buf[3 + (2 * i - 1)] = data[2 * i - 1] /\ buf[3 + 2 * i] = data[2 * i]
      BY <1>6, <3>1
    <3>3. QED BY <1>8, <3>1, <3>2
  <2>2. data[2 * i - 1] = v[i] \div 256 /\ data[2 * i] = v[i] % 256
    <3>1. (2 * i - 1) % 2 = 1 /\ (2 * i - 1 + 1) \div 2 = i /\ 2 * i - 1 \in 1 .. 12
      OBVIOUS
    <3>2. (2 * i) % 2 # 1 /\ (2 * i) \div 2 = i /\ 2 * i \in 1 .. 12
      OBVIOUS
    <3>3. QED BY <3>1, <3>2, <1>2
  <2>3. v[i] \in Short
    BY <1>1
  <2>4. (v[i] \div 256) * 256 + (v[i] % 256) = v[i]
    <3>1. \A x \in Nat : (x \div 256) * 256 + (x % 256) = x
      OBVIOUS
    <3>2. QED BY <2>3, <3>1 DEF Short
  <2>5. QED BY <2>1, <2>2, <2>4 DEF HighByteFirst
<1>10. ValuesOf(AnswerAI[v]) = v
  <2>1. \A i \in 1 .. 6 : 2 + 2 * i <= 17 /\ 3 + 2 * i <= 17
    OBVIOUS
  <2>2. ValuesOf(AnswerAI[v]) =
          [i \in 1 .. 6 |-> HighByteFirst(AnswerAI[v][2 + 2 * i], AnswerAI[v][3 + 2 * i])]
    BY <1>8, <2>1 DEF ValuesOf, NUM_AI
  <2>3. QED BY <1>1, <1>9, <2>2
<1>11. QED BY <1>6, <1>8, <1>10

\* The frames that are always the same.
LEMMA FixedFrames ==
  /\ Len(Refusal) = 5 /\ Refusal[2] = 129
  /\ Len(EchoDO) = 8 /\ EchoDO[2] = 5
  /\ Len(Beat) = 4 /\ Beat[2] = 100
<1>1. Len(Refusal) = 5 /\ Refusal[2] = 129
  <2> DEFINE buf == <<1, 129, 2>>
  <2>1. buf \in Seq(Int) /\ Len(buf) = 3 /\ buf[2] = 129 /\ Refusal = GenerateCRC_modbus(buf)
    BY DEF Refusal
  <2> HIDE DEF buf
  <2>2. Len(Refusal) = Len(buf) + 2 /\ \A i \in 1 .. Len(buf) : Refusal[i] = buf[i]
    BY ZenonT(30), <2>1, ChecksumBehind
  <2>3. QED BY <2>1, <2>2
<1>2. Len(EchoDO) = 8 /\ EchoDO[2] = 5
  <2> DEFINE buf == <<1, 5, 0, 2, 255, 0>>
  <2>1. buf \in Seq(Int) /\ Len(buf) = 6 /\ buf[2] = 5 /\ EchoDO = GenerateCRC_modbus(buf)
    BY DEF EchoDO
  <2> HIDE DEF buf
  <2>2. Len(EchoDO) = Len(buf) + 2 /\ \A i \in 1 .. Len(buf) : EchoDO[i] = buf[i]
    BY <2>1, ChecksumBehind
  <2>3. QED BY <2>1, <2>2
<1>3. Len(Beat) = 4 /\ Beat[2] = 100
  <2> DEFINE buf == <<1, 100>>
  <2>1. buf \in Seq(Int) /\ Len(buf) = 2 /\ buf[2] = 100 /\ Beat = GenerateCRC_modbus(buf)
    BY DEF Beat
  <2> HIDE DEF buf
  <2>2. Len(Beat) = Len(buf) + 2 /\ \A i \in 1 .. Len(buf) : Beat[i] = buf[i]
    BY <2>1, ChecksumBehind
  <2>3. QED BY <2>1, <2>2
<1>4. QED BY <1>1, <1>2, <1>3

\* What kinds of frames there are.
LEMMA FrameShape ==
  ASSUME NEW f \in Frames
  PROVE  /\ f \in Seq(Byte) /\ Len(f) >= 4 /\ CRC16(f) = 0
         /\ f # Refusal => FrameSize(f) = Len(f)
         /\ f = Refusal => FrameSize(f) = 8 /\ Len(f) = 5 /\ f[2] = 129
         /\ f[2] = 1 => \E c \in Coils : f = AnswerDO[c] /\ CoilsOf(f) = c
         /\ f[2] = 2 => \E c \in Coils : f = AnswerDI[c] /\ CoilsOf(f) = c
         /\ f[2] = 4 => \E v \in Values : f = AnswerAI[v] /\ ValuesOf(f) = v
<1>1. f \in Seq(Byte) /\ CRC16(f) = 0
  BY CRC16Assumption
<1>2. /\ Len(Refusal) = 5 /\ Refusal[2] = 129
      /\ Len(EchoDO) = 8 /\ EchoDO[2] = 5
      /\ Len(Beat) = 4 /\ Beat[2] = 100
  BY FixedFrames
<1>3. CASE \E c \in Coils : f = AnswerDO[c]
  <2>1. PICK c \in Coils : f = AnswerDO[c]
    BY <1>3
  <2>2. f = GenerateCRC_modbus(<<1, 1, 1, CoilByte(c)>>)
    BY <2>1 DEF AnswerDO
  <2>3. Len(f) = 6 /\ f[2] = 1 /\ f[3] = 1 /\ CoilsOf(f) = c
    BY <2>2, AnswerShape
  <2>4. QED BY <1>1, <1>2, <2>1, <2>3 DEF FrameSize
<1>4. CASE \E c \in Coils : f = AnswerDI[c]
  <2>1. PICK c \in Coils : f = AnswerDI[c]
    BY <1>4
  <2>2. f = GenerateCRC_modbus(<<1, 2, 1, CoilByte(c)>>)
    BY <2>1 DEF AnswerDI
  <2>3. Len(f) = 6 /\ f[2] = 2 /\ f[3] = 1 /\ CoilsOf(f) = c
    BY <2>2, AnswerShape
  <2>4. QED BY <1>1, <1>2, <2>1, <2>3 DEF FrameSize
<1>5. CASE \E v \in Values : f = AnswerAI[v]
  <2>1. PICK v \in Values : f = AnswerAI[v]
    BY <1>5
  <2>2. Len(f) = 17 /\ f[2] = 4 /\ f[3] = 12 /\ ValuesOf(f) = v
    BY <2>1, ValuesShape
  <2>3. QED BY <1>1, <1>2, <2>1, <2>2 DEF FrameSize
<1>6. CASE f \in {EchoDO, Refusal, Beat}
  <2>1. f[2] \in {5, 129, 100} /\ f[2] \notin 1 .. 4
    BY <1>2, <1>6
  <2>2. FrameSize(f) = IF f[2] = 100 THEN 4 ELSE 8
    BY <2>1 DEF FrameSize
  <2>3. CASE f = EchoDO
    <3>1. f[2] = 5 /\ Len(f) = 8 /\ FrameSize(f) = 8
      BY <1>2, <2>2, <2>3
    <3>2. f # Refusal
      BY <1>2, <2>3
    <3>3. QED BY <1>1, <3>1, <3>2
  <2>4. CASE f = Refusal
    <3>1. f[2] = 129 /\ Len(f) = 5 /\ FrameSize(f) = 8
      BY <1>2, <2>2, <2>4
    <3>2. f = Refusal
      BY <1>2, <2>4
    <3>3. QED BY <1>1, <3>1, <3>2
  <2>5. CASE f = Beat
    <3>1. f[2] = 100 /\ Len(f) = 4 /\ FrameSize(f) = 4
      BY <1>2, <2>2, <2>5
    <3>2. f # Refusal
      BY <1>2, <2>5
    <3>3. QED BY <1>1, <3>1, <3>2
  <2>6. QED BY <1>6, <2>3, <2>4, <2>5
<1>7. QED BY <1>3, <1>4, <1>5, <1>6 DEF Frames

\* What arrives of a frame has its length and is made of bytes; if a bit was
\* flipped, its checksum shows it.
LEMMA ArrivalShape ==
  ASSUME NEW f \in Frames, NEW g \in Arrivals(f)
  PROVE  /\ g \in Seq(Byte) /\ Len(g) = Len(f)
         /\ g # f => CRC16(g) # 0
<1>1. f \in Seq(Byte)
  BY FrameShape
<1>2. CASE g = f
  BY <1>1, <1>2
<1>3. CASE g \in Damaged(f)
  <2>1. PICK k \in DOMAIN f, b \in NoiseBits : g = Flip(f, k, b)
    BY <1>3 DEF Damaged
  <2>2. f[k] \in Byte /\ b \in 0 .. 7
    BY <1>1, ModbusFrameAssumption
  <2>3. g = [f EXCEPT ![k] = IF Bit(f[k], b) = 1 THEN f[k] - Power2[b + 1]
                             ELSE f[k] + Power2[b + 1]]
    BY <2>1 DEF Flip
  <2>4. (IF Bit(f[k], b) = 1 THEN f[k] - Power2[b + 1] ELSE f[k] + Power2[b + 1]) \in Byte
    BY <2>2, FlippedByte
  <2>5. g \in Seq(Byte) /\ Len(g) = Len(f)
    BY <1>1, <2>1, <2>3, <2>4
  <2>6. QED BY <2>5, <1>3, CRC16Assumption
<1>4. QED BY <1>2, <1>3 DEF Arrivals

-----------------------------------------------------------------------------
(***************************************************************************)
(* The invariant.                                                          *)
(***************************************************************************)
\* The bytes on the wire are those of the frames that arrived, one after
\* the other.
StreamInv ==
  /\ Len(arrived) = Len(sent) /\ Len(ends) = Len(sent)
  /\ Begin(Len(sent) + 1) = Len(wire)
  /\ \A k \in DOMAIN sent :
       /\ arrived[k] \in Arrivals(sent[k])
       /\ ends[k] = Begin(k) + Len(sent[k]) /\ ends[k] <= Len(wire)
       /\ \A j \in 1 .. Len(sent[k]) : wire[Begin(k) + j] = arrived[k][j]

\* The thread reads the frame after those it has accepted, from its
\* beginning and not further than the size that its head gives.
AlignInv ==
  LET n == Len(accepted)
  IN /\ n <= Len(sent)
     /\ pc = "select" => taken = Begin(n + 1)
     /\ Reading => n < Len(sent) /\ start = Begin(n + 1)
     /\ pc = "head" => taken <= start + HeadSize
     /\ pc = "body" => /\ start + HeadSize <= taken
                       /\ taken <= start + FrameSize(arrived[n + 1])
     /\ pc = "wrong" => /\ n < Len(sent)
                        /\ arrived[n + 1] # sent[n + 1] \/ sent[n + 1] = Refusal

\* The accepted frames are the first ones that arrived, and nothing but
\* heartbeats was accepted that had not arrived as it was sent.
AcceptInv ==
  \A i \in DOMAIN accepted :
    /\ accepted[i] = arrived[i] /\ accepted[i][2] = sent[i][2]
    /\ accepted[i] = sent[i] \/ accepted[i][2] = 100

\* The last answer of a kind is what its name says.
IsLastAnswer(code, i) ==
  IF i = 0 THEN \A j \in DOMAIN accepted : accepted[j][2] # code
  ELSE /\ i \in DOMAIN accepted /\ accepted[i][2] = code
       /\ \A j \in DOMAIN accepted : accepted[j][2] = code => j <= i

ReadingInv ==
  /\ \A code \in {1, 2, 4} : IsLastAnswer(code, LastAnswer(code))
  /\ LastAnswer(1) # 0 => m_DO = CoilsOf(accepted[LastAnswer(1)])
  /\ LastAnswer(2) # 0 => m_DI = CoilsOf(accepted[LastAnswer(2)])
  /\ LastAnswer(4) # 0 => m_AI = ValuesOf(accepted[LastAnswer(4)])

\* A thread that still polls has polls left.
PollInv == Reading => over_count < TimeOut

IInv ==
  /\ TypeOK /\ PollInv /\ StreamInv /\ ReadingInv
  /\ HeadsTold => AlignInv /\ AcceptInv

-----------------------------------------------------------------------------
(***************************************************************************)
(* Types.                                                                  *)
(***************************************************************************)
\* What is in the buffer is bytes of the wire.
LEMMA BufferBytes ==
  ASSUME TypeOK
  PROVE  /\ buf_recv \in Seq(Byte) /\ Len(buf_recv) = taken - start
         /\ \A i \in 1 .. taken - start : buf_recv[i] = wire[start + i]
<1>1. start \in Nat /\ taken \in Nat /\ start <= taken /\ taken <= Len(wire)
  <2>1. Len(wire) \in Nat
    BY LenProperties DEF TypeOK
  <2>2. QED BY <2>1 DEF TypeOK
<1>2. \A i \in start + 1 .. taken : wire[i] \in Byte
  <2>1. wire \in Seq(Byte)
    BY DEF TypeOK
  <2>2. ASSUME NEW i \in start + 1 .. taken
        PROVE  i \in 1 .. Len(wire)
    BY <1>1
  <2>3. QED BY <2>1, <2>2, ElementOfSeq
<1>3. /\ buf_recv \in Seq(Byte)
      /\ Len(buf_recv) = IF start + 1 <= taken THEN taken - (start + 1) + 1 ELSE 0
      /\ \A i \in 1 .. taken - (start + 1) + 1 : buf_recv[i] = wire[start + 1 + i - 1]
  BY SMTT(30), <1>1, <1>2, SubSeqProperties DEF buf_recv
<1>4. \A i \in 1 .. taken - start : start + 1 + i - 1 = start + i
  BY <1>1
<1>5. QED BY <1>1, <1>3, <1>4

\* Readings of bytes are in range, whatever the bytes.
LEMMA ReadingTypes ==
  ASSUME NEW frame \in Seq(Byte)
  PROVE  /\ CoilsOf(frame) \subseteq 0 .. NUM_DO - 1
         /\ ValuesOf(frame) \in [1 .. NUM_AI -> Short]
<1> DEFINE byte(k) == IF k <= Len(frame) THEN frame[k] ELSE 0
<1>1. ASSUME NEW k \in Nat, k >= 1
      PROVE  byte(k) \in Byte
  <2>1. Len(frame) \in Nat
    BY LenProperties
  <2>2. CASE k <= Len(frame)
    BY <1>1, <2>1, <2>2, ElementOfSeq
  <2>3. CASE ~(k <= Len(frame))
    BY <2>3 DEF Byte
  <2>4. QED BY <2>2, <2>3
<1>2. ValuesOf(frame) = [i \in 1 .. NUM_AI |-> HighByteFirst(byte(2 + 2 * i), byte(3 + 2 * i))]
  BY DEF ValuesOf
<1> HIDE DEF byte
<1>3. ASSUME NEW i \in 1 .. NUM_AI
      PROVE  HighByteFirst(byte(2 + 2 * i), byte(3 + 2 * i)) \in Short
  <2>1. byte(2 + 2 * i) \in Byte /\ byte(3 + 2 * i) \in Byte
    BY <1>1 DEF NUM_AI
  <2>2. \A hi, lo \in Byte : hi * 256 + lo \in Short
    BY DEF Byte, Short
  <2>3. QED BY <2>1, <2>2 DEF HighByteFirst
<1>4. QED BY <1>2, <1>3 DEF CoilsOf

\* Accepting a frame changes the readings to readings.
LEMMA AcceptTypes ==
  ASSUME TypeOK, NEW frame \in Seq(Byte), Accept(frame)
  PROVE  /\ m_DO' \subseteq 0 .. NUM_DO - 1 /\ m_DI' \subseteq 0 .. NUM_DI - 1
         /\ m_AI' \in [1 .. NUM_AI -> Short]
         /\ accepted' \in Seq(Seq(Byte)) /\ pc' = "select"
<1>1. NUM_DI = NUM_DO
  BY DEF NUM_DI, NUM_DO
<1>2. CoilsOf(frame) \subseteq 0 .. NUM_DO - 1 /\ ValuesOf(frame) \in [1 .. NUM_AI -> Short]
  BY ReadingTypes
<1>3. accepted' \in Seq(Seq(Byte))
  BY DEF Accept, TypeOK
<1>4. m_DO \subseteq 0 .. NUM_DO - 1 /\ m_DI \subseteq 0 .. NUM_DO - 1
      /\ m_AI \in [1 .. NUM_AI -> Short]
  BY <1>1 DEF TypeOK
<1>5. QED BY <1>1, <1>2, <1>3, <1>4 DEF Accept

\* Types at first, and polls left.
LEMMA TypeInit == Init => TypeOK /\ PollInv
BY ModbusFrameAssumption DEF Init, TypeOK, PollInv, Reading, NUM_DO, NUM_DI, NUM_AI, Short

\* A step keeps the types, and a thread that still polls has polls left.
LEMMA TypeStep ==
  ASSUME TypeOK, PollInv, [Next]_vars
  PROVE  TypeOK' /\ PollInv'
<1>0. Len(wire) \in Nat /\ TimeOut \in Nat /\ TimeOut > 0
  BY LenProperties, ModbusFrameAssumption DEF TypeOK
<1>1. CASE Send
  <2>0. PICK frame \in Frames : \E arrival \in Arrivals(frame) :
          /\ sent' = Append(sent, frame) /\ arrived' = Append(arrived, arrival)
          /\ wire' = wire \o arrival /\ ends' = Append(ends, Len(wire'))
    BY <1>1 DEF Send
  <2>1. PICK arrival \in Arrivals(frame) :
          /\ sent' = Append(sent, frame) /\ arrived' = Append(arrived, arrival)
          /\ wire' = wire \o arrival /\ ends' = Append(ends, Len(wire'))
    BY <2>0
  <2>2. arrival \in Seq(Byte)
    BY ArrivalShape
  <2>3. wire' \in Seq(Byte) /\ Len(wire') = Len(wire) + Len(arrival)
    BY <2>1, <2>2, ConcatProperties DEF TypeOK
  <2>4. Len(arrival) \in Nat /\ Len(wire') \in Nat
    BY <2>2, <2>3, LenProperties
  <2>5. start \in Nat /\ taken \in Nat /\ start <= taken /\ taken <= Len(wire')
    BY <1>0, <2>3, <2>4 DEF TypeOK
  <2>6. sent' \in Seq(Frames) /\ arrived' \in Seq(Seq(Byte)) /\ ends' \in Seq(Nat)
    BY <2>1, <2>2, <2>4 DEF TypeOK
  <2>7. QED BY <1>1, <2>3, <2>5, <2>6 DEF Send, TypeOK, PollInv, Reading, readings
<1>2. CASE SelectReady
  BY <1>0, <1>2 DEF SelectReady, TypeOK, PollInv, Reading, line, readings
<1>3. CASE Recv
  <2>1. PICK n \in 1 .. Wanted : taken + n <= Len(wire) /\ taken' = taken + n
    BY <1>3 DEF Recv
  <2>2. n \in Nat
    OBVIOUS
  <2>3. taken' \in start .. Len(wire)
    BY <1>0, <2>1, <2>2 DEF TypeOK
  <2>4. QED BY <1>3, <2>3 DEF Recv, TypeOK, PollInv, Reading, line, readings
<1>4. CASE RecvNothing
  <2>1. over_count' = over_count + 1 /\ Reading /\ over_count < TimeOut
    BY <1>4 DEF RecvNothing, OneMorePoll, PollInv
  <2>2. over_count' \in 0 .. TimeOut
    BY <1>0, <2>1 DEF TypeOK
  <2>3. pc' \in {pc, "incomplete"} /\ (pc' = pc /\ pc # "incomplete" => over_count' < TimeOut)
    BY <1>0, <1>4, <2>2 DEF RecvNothing, PollsUsedUp
  <2>4. QED BY <1>4, <2>2, <2>3 DEF RecvNothing, TypeOK, PollInv, Reading, line, readings
<1>5. CASE HeadRead
  BY <1>0, <1>5 DEF HeadRead, TypeOK, PollInv, Reading, line, readings
<1>6. CASE FrameRead
  <2>1. CASE ChecksumWrong(buf_recv)
    BY <1>6, <2>1 DEF FrameRead, TypeOK, PollInv, Reading, line, readings
  <2>2. CASE ~ChecksumWrong(buf_recv)
    <3>1. Accept(buf_recv)
      BY <1>6, <2>2 DEF FrameRead
    <3>2. /\ m_DO' \subseteq 0 .. NUM_DO - 1 /\ m_DI' \subseteq 0 .. NUM_DI - 1
          /\ m_AI' \in [1 .. NUM_AI -> Short]
          /\ accepted' \in Seq(Seq(Byte)) /\ pc' = "select"
      BY <3>1, BufferBytes, AcceptTypes
    <3>3. QED BY <1>6, <3>2 DEF FrameRead, TypeOK, PollInv, Reading, line
  <2>3. QED BY <2>1, <2>2
<1>7. CASE RecvFails
  BY <1>7 DEF RecvFails, TypeOK, PollInv, Reading, line, readings
<1>8. CASE UNCHANGED vars
  BY <1>8 DEF vars, TypeOK, PollInv, Reading, line, readings
<1>9. QED BY <1>1, <1>2, <1>3, <1>4, <1>5, <1>6, <1>7, <1>8 DEF Next, Reader

-----------------------------------------------------------------------------
(***************************************************************************)
(* The stream.                                                             *)
(***************************************************************************)
\* What Append does.
LEMMA AppendShape ==
  ASSUME NEW S, NEW s \in Seq(S), NEW e \in S
  PROVE  /\ Len(Append(s, e)) = Len(s) + 1
         /\ DOMAIN Append(s, e) = 1 .. Len(s) + 1
         /\ Append(s, e)[Len(s) + 1] = e
         /\ \A k \in 1 .. Len(s) : Append(s, e)[k] = s[k]
OBVIOUS

\* A frame more, damaged or not, is appended to the stream.
LEMMA StreamSend ==
  ASSUME TypeOK, StreamInv, NEW frame \in Frames, NEW arrival \in Arrivals(frame),
         sent' = Append(sent, frame), arrived' = Append(arrived, arrival),
         wire' = wire \o arrival, ends' = Append(ends, Len(wire'))
  PROVE  /\ StreamInv'
         /\ DOMAIN sent' = 1 .. Len(sent) + 1
         /\ Len(wire) <= Len(wire') /\ \A i \in 1 .. Len(wire) : wire'[i] = wire[i]
         /\ \A k \in 1 .. Len(sent) : sent'[k] = sent[k] /\ arrived'[k] = arrived[k]
         /\ \A k \in 1 .. Len(sent) + 1 : Begin(k)' = Begin(k)
<1>0. PICK n \in Nat : n = Len(sent)
  BY LenProperties DEF TypeOK
<1>1. /\ Len(sent) = n /\ Len(arrived) = n /\ Len(ends) = n /\ Begin(n + 1) = Len(wire)
      /\ DOMAIN sent = 1 .. n /\ Len(wire) \in Nat
  BY <1>0, LenProperties DEF TypeOK, StreamInv
<1>2. /\ arrival \in Seq(Byte) /\ Len(arrival) = Len(frame) /\ Len(frame) \in Nat
  BY FrameShape, ArrivalShape, LenProperties
<1>3. /\ Len(wire') = Len(wire) + Len(frame)
      /\ \A i \in 1 .. Len(wire) : wire'[i] = wire[i]
      /\ \A j \in 1 .. Len(frame) : wire'[Len(wire) + j] = arrival[j]
  <2>1. wire \in Seq(Byte)
    BY DEF TypeOK
  <2>2. /\ Len(wire') = Len(wire) + Len(arrival)
        /\ \A i \in 1 .. Len(wire) + Len(arrival) :
             wire'[i] = IF i <= Len(wire) THEN wire[i] ELSE arrival[i - Len(wire)]
    BY ZenonT(30), <1>2, <2>1, ConcatProperties
  <2>3. \A j \in 1 .. Len(frame) : /\ Len(wire) + j \in 1 .. Len(wire) + Len(arrival)
                                   /\ ~(Len(wire) + j <= Len(wire))
                                   /\ Len(wire) + j - Len(wire) = j
    BY <1>1, <1>2
  <2>4. Len(wire') = Len(wire) + Len(frame)
    BY <1>2, <2>2
  <2>5. ASSUME NEW i \in 1 .. Len(wire)
        PROVE  wire'[i] = wire[i]
    <3>1. i \in 1 .. Len(wire) + Len(arrival) /\ i <= Len(wire)
      BY <1>1, <1>2
    <3>2. QED BY <2>2, <3>1
  <2>6. ASSUME NEW j \in 1 .. Len(frame)
        PROVE  wire'[Len(wire) + j] = arrival[j]
    BY <2>2, <2>3
  <2>7. QED BY <2>4, <2>5, <2>6
<1>4. /\ Len(sent') = n + 1 /\ Len(arrived') = n + 1 /\ Len(ends') = n + 1
      /\ DOMAIN sent' = 1 .. n + 1
      /\ sent'[n + 1] = frame /\ arrived'[n + 1] = arrival /\ ends'[n + 1] = Len(wire')
      /\ \A k \in 1 .. n : sent'[k] = sent[k] /\ arrived'[k] = arrived[k] /\ ends'[k] = ends[k]
  <2>1. sent \in Seq(Frames) /\ arrived \in Seq(Seq(Byte)) /\ ends \in Seq(Nat)
    BY DEF TypeOK
  <2>2. Len(wire') \in Nat
    BY <1>1, <1>2, <1>3
  <2>3. /\ Len(sent') = n + 1 /\ DOMAIN sent' = 1 .. n + 1 /\ sent'[n + 1] = frame
        /\ \A k \in 1 .. n : sent'[k] = sent[k]
    BY <1>1, <2>1, AppendShape
  <2>4. /\ Len(arrived') = n + 1 /\ arrived'[n + 1] = arrival
        /\ \A k \in 1 .. n : arrived'[k] = arrived[k]
    <3>1. /\ Len(arrived') = Len(arrived) + 1 /\ arrived'[Len(arrived) + 1] = arrival
          /\ \A k \in 1 .. Len(arrived) : arrived'[k] = arrived[k]
      BY <1>2, <2>1, AppendShape
    <3>2. QED BY <1>1, <3>1
  <2>5. /\ Len(ends') = n + 1 /\ ends'[n + 1] = Len(wire')
        /\ \A k \in 1 .. n : ends'[k] = ends[k]
    <3>1. /\ Len(ends') = Len(ends) + 1 /\ ends'[Len(ends) + 1] = Len(wire')
          /\ \A k \in 1 .. Len(ends) : ends'[k] = ends[k]
      BY <2>1, <2>2, AppendShape
    <3>2. QED BY <1>1, <3>1
  <2>6. QED BY <2>3, <2>4, <2>5
<1>5. \A k \in 1 .. n + 1 : Begin(k)' = Begin(k)
  <2>1. ASSUME NEW k \in 1 .. n + 1, k # 1
        PROVE  ends'[k - 1] = ends[k - 1]
    <3>1. k - 1 \in 1 .. n
      BY <1>1, <2>1
    <3>2. QED BY <1>4, <3>1
  <2>2. QED BY <2>1 DEF Begin
<1>6. Begin(Len(sent) + 1)' = Len(wire')
  BY <1>0, <1>4 DEF Begin
<1>7. ASSUME NEW k \in 1 .. n
      PROVE  /\ arrived'[k] \in Arrivals(sent'[k])
             /\ ends'[k] = Begin(k)' + Len(sent'[k]) /\ ends'[k] <= Len(wire')
             /\ \A j \in 1 .. Len(sent'[k]) : wire'[Begin(k)' + j] = arrived'[k][j]
  <2>1. /\ arrived[k] \in Arrivals(sent[k])
        /\ ends[k] = Begin(k) + Len(sent[k]) /\ ends[k] <= Len(wire)
        /\ \A j \in 1 .. Len(sent[k]) : wire[Begin(k) + j] = arrived[k][j]
    BY <1>1 DEF StreamInv
  <2>2. ends[k] \in Nat /\ Begin(k) \in Nat /\ sent[k] \in Frames
    BY SMTT(30), <1>1 DEF TypeOK, Begin
  <2>3. Len(sent[k]) \in Nat
    BY <2>2, FrameShape, LenProperties
  <2>4. \A j \in 1 .. Len(sent[k]) : Begin(k) + j \in 1 .. Len(wire)
    BY <1>1, <2>1, <2>2, <2>3
  <2>5. \A j \in 1 .. Len(sent[k]) : wire'[Begin(k) + j] = arrived[k][j]
    BY <1>3, <2>1, <2>4
  <2>6. Begin(k)' = Begin(k) /\ ends[k] <= Len(wire')
    <3>1. k \in 1 .. n + 1
      BY <1>1
    <3>2. QED BY <1>1, <1>2, <1>3, <1>5, <2>1, <2>2, <3>1
  <2>7. arrived'[k] = arrived[k] /\ sent'[k] = sent[k] /\ ends'[k] = ends[k]
    BY <1>4
  <2>8. QED BY <2>1, <2>5, <2>6, <2>7
<1>8. /\ arrived'[n + 1] \in Arrivals(sent'[n + 1])
      /\ ends'[n + 1] = Begin(n + 1)' + Len(sent'[n + 1]) /\ ends'[n + 1] <= Len(wire')
      /\ \A j \in 1 .. Len(sent'[n + 1]) : wire'[Begin(n + 1)' + j] = arrived'[n + 1][j]
  <2>1. Begin(n + 1)' = Len(wire)
    <3>1. n + 1 \in 1 .. n + 1
      BY <1>1
    <3>2. QED BY <1>1, <1>5, <3>1
  <2>2. arrived'[n + 1] \in Arrivals(sent'[n + 1])
    BY <1>4
  <2>3. ends'[n + 1] = Begin(n + 1)' + Len(sent'[n + 1]) /\ ends'[n + 1] <= Len(wire')
    <3>1. Len(wire') = Len(wire) + Len(frame) /\ Len(wire') <= Len(wire')
      BY <1>1, <1>2, <1>3
    <3>2. QED BY <1>4, <2>1, <3>1
  <2>4. QED BY <1>3, <1>4, <2>1, <2>2, <2>3
<1>9. \A k \in 1 .. n + 1 : k \in 1 .. n \/ k = n + 1
  BY <1>1
<1>10. Len(arrived') = Len(sent') /\ Len(ends') = Len(sent')
  BY <1>4
<1>11. ASSUME NEW k \in DOMAIN sent'
       PROVE  /\ arrived'[k] \in Arrivals(sent'[k])
              /\ ends'[k] = Begin(k)' + Len(sent'[k]) /\ ends'[k] <= Len(wire')
              /\ \A j \in 1 .. Len(sent'[k]) : wire'[Begin(k)' + j] = arrived'[k][j]
  <2>1. CASE k \in 1 .. n
    BY <1>7, <2>1
  <2>2. CASE k = n + 1
    BY <1>8, <2>2
  <2>3. QED BY <1>4, <1>9, <2>1, <2>2
<1>12. StreamInv'
  BY <1>6, <1>10, <1>11 DEF StreamInv
<1>13. Len(wire) <= Len(wire')
  BY <1>1, <1>2, <1>3
<1>14. QED BY <1>0, <1>3, <1>4, <1>5, <1>12, <1>13

\* Nothing is on the wire at first.
LEMMA StreamInit == Init => StreamInv
<1> SUFFICES ASSUME Init PROVE StreamInv
  OBVIOUS
<1>1. sent = <<>> /\ arrived = <<>> /\ ends = <<>> /\ wire = <<>>
  BY DEF Init
<1>2. Len(sent) = 0 /\ DOMAIN sent = {}
  BY <1>1
<1>3. Begin(1) = 0
  BY DEF Begin
<1>4. QED BY <1>1, <1>2, <1>3 DEF StreamInv

\* What was sent stays what it is, and so does where it begins.
LEMMA StreamStep ==
  ASSUME TypeOK, StreamInv, [Next]_vars
  PROVE  /\ StreamInv'
         /\ Len(sent) <= Len(sent')
         /\ Len(wire) <= Len(wire') /\ \A i \in 1 .. Len(wire) : wire'[i] = wire[i]
         /\ \A k \in 1 .. Len(sent) : sent'[k] = sent[k] /\ arrived'[k] = arrived[k]
         /\ \A k \in 1 .. Len(sent) + 1 : Begin(k)' = Begin(k)
<1>0. Len(sent) \in Nat /\ Len(wire) \in Nat
  BY LenProperties DEF TypeOK
<1>1. CASE Send
  <2>1. PICK frame \in Frames : \E arrival \in Arrivals(frame) :
          /\ sent' = Append(sent, frame) /\ arrived' = Append(arrived, arrival)
          /\ wire' = wire \o arrival /\ ends' = Append(ends, Len(wire'))
    BY <1>1 DEF Send
  <2>2. PICK arrival \in Arrivals(frame) :
          /\ sent' = Append(sent, frame) /\ arrived' = Append(arrived, arrival)
          /\ wire' = wire \o arrival /\ ends' = Append(ends, Len(wire'))
    BY <2>1
  <2>3. Len(sent') = Len(sent) + 1
    BY <2>2, AppendShape DEF TypeOK
  <2>4. /\ StreamInv'
        /\ Len(wire) <= Len(wire') /\ \A i \in 1 .. Len(wire) : wire'[i] = wire[i]
        /\ \A k \in 1 .. Len(sent) : sent'[k] = sent[k] /\ arrived'[k] = arrived[k]
        /\ \A k \in 1 .. Len(sent) + 1 : Begin(k)' = Begin(k)
    BY <2>2, StreamSend
  <2>5. Len(sent) <= Len(sent')
    BY <1>0, <2>3
  <2>6. QED BY <2>4, <2>5
<1>2. CASE UNCHANGED line
  <2>1. wire' = wire /\ sent' = sent /\ arrived' = arrived /\ ends' = ends
    BY <1>2 DEF line
  <2>2. \A k : Begin(k)' = Begin(k)
    BY <2>1 DEF Begin
  <2>3. Begin(Len(sent) + 1)' = Begin(Len(sent) + 1)
    BY <2>1 DEF Begin
  <2>4. StreamInv'
    BY <2>1, <2>2, <2>3 DEF StreamInv
  <2>5. QED BY <1>0, <2>1, <2>2, <2>4
<1>3. QED
  <2>1. Reader \/ RecvFails \/ UNCHANGED vars => UNCHANGED line
    BY DEF Reader, SelectReady, Recv, RecvNothing, HeadRead, FrameRead, RecvFails, vars
  <2>2. QED BY <1>1, <1>2, <2>1 DEF Next

\* Where frame k is on the wire, and what it has become there.
LEMMA FrameOnWire ==
  ASSUME TypeOK, StreamInv, NEW k \in Nat, k >= 1, k <= Len(sent)
  PROVE  /\ k \in DOMAIN sent /\ sent[k] \in Frames
         /\ arrived[k] \in Arrivals(sent[k]) /\ arrived[k] \in Seq(Byte)
         /\ Len(sent[k]) \in Nat /\ Len(sent[k]) >= 4 /\ Len(arrived[k]) = Len(sent[k])
         /\ arrived[k] # sent[k] => CRC16(arrived[k]) # 0
         /\ Begin(k) \in Nat /\ Begin(k + 1) = Begin(k) + Len(sent[k])
         /\ Begin(k + 1) <= Len(wire)
         /\ \A j \in 1 .. Len(sent[k]) : wire[Begin(k) + j] = arrived[k][j]
<1>1. /\ sent \in Seq(Frames) /\ ends \in Seq(Nat) /\ Len(sent) \in Nat
      /\ DOMAIN sent = 1 .. Len(sent) /\ DOMAIN ends = 1 .. Len(sent)
  BY LenProperties DEF TypeOK, StreamInv
<1>2. k \in DOMAIN sent /\ sent[k] \in Frames
  BY <1>1
<1>3. /\ arrived[k] \in Arrivals(sent[k])
      /\ ends[k] = Begin(k) + Len(sent[k]) /\ ends[k] <= Len(wire)
      /\ \A j \in 1 .. Len(sent[k]) : wire[Begin(k) + j] = arrived[k][j]
  BY <1>2 DEF StreamInv
<1>4. /\ arrived[k] \in Seq(Byte) /\ Len(arrived[k]) = Len(sent[k])
      /\ arrived[k] # sent[k] => CRC16(arrived[k]) # 0
  BY <1>2, <1>3, ArrivalShape
<1>5. Len(sent[k]) \in Nat /\ Len(sent[k]) >= 4
  BY <1>2, FrameShape, LenProperties
<1>6. Begin(k) \in Nat
  <2>1. CASE k = 1
    BY <2>1 DEF Begin
  <2>2. CASE k # 1
    <3>1. k - 1 \in DOMAIN ends
      BY <1>1, <2>2
    <3>2. QED BY <1>1, <2>2, <3>1 DEF Begin
  <2>3. QED BY <2>1, <2>2
<1>7. Begin(k + 1) = ends[k]
  <2>1. k + 1 # 1 /\ k + 1 - 1 = k
    OBVIOUS
  <2>2. QED BY <2>1 DEF Begin
<1>8. QED BY <1>2, <1>3, <1>4, <1>5, <1>6, <1>7

\* The size that the head of whatever arrives gives is a number, and no less
\* than the head.
LEMMA SizeOfArrival ==
  ASSUME NEW g \in Seq(Byte), Len(g) >= 4
  PROVE  FrameSize(g) \in Nat /\ FrameSize(g) >= HeadSize
<1>1. Len(g) \in Nat
  BY LenProperties
<1>2. g[3] \in Nat
  BY <1>1, ElementOfSeq DEF Byte
<1>3. QED BY <1>2 DEF FrameSize, HeadSize

\* What has been cut off stays what it is: if every damage to a head shows
\* after a step, it did before.
LEMMA HeadsBefore ==
  ASSUME TypeOK, StreamInv, [Next]_vars, HeadsTold'
  PROVE  HeadsTold
<1>1. /\ Len(sent) \in Nat /\ DOMAIN sent = 1 .. Len(sent)
      /\ Len(sent') \in Nat /\ DOMAIN sent' = 1 .. Len(sent')
      /\ Len(wire) \in Nat /\ Len(wire') \in Nat
  <2>1. sent \in Seq(Frames) /\ wire \in Seq(Byte)
    BY DEF TypeOK
  <2>2. sent' \in Seq(Frames) /\ wire' \in Seq(Byte)
    <3>1. CASE Send
      <4>1. PICK frame \in Frames : \E arrival \in Arrivals(frame) :
              sent' = Append(sent, frame) /\ wire' = wire \o arrival
        BY <3>1 DEF Send
      <4>2. PICK arrival \in Arrivals(frame) : wire' = wire \o arrival
        BY <4>1
      <4>3. arrival \in Seq(Byte)
        BY ArrivalShape
      <4>4. QED BY <2>1, <4>1, <4>2, <4>3, ConcatProperties
    <3>2. CASE UNCHANGED <<sent, wire>>
      BY <2>1, <3>2
    <3>3. QED
      BY <3>1, <3>2 DEF Next, Reader, SelectReady, Recv, RecvNothing, HeadRead, FrameRead,
                        RecvFails, vars, line
  <2>3. QED BY <2>1, <2>2, LenProperties
<1>2. /\ Len(sent) <= Len(sent')
      /\ Len(wire) <= Len(wire') /\ \A i \in 1 .. Len(wire) : wire'[i] = wire[i]
      /\ \A k \in 1 .. Len(sent) : sent'[k] = sent[k] /\ arrived'[k] = arrived[k]
      /\ \A k \in 1 .. Len(sent) + 1 : Begin(k)' = Begin(k)
  BY StreamStep
<1>3. ASSUME NEW k \in 1 .. Len(sent), ~SameHead(sent[k], arrived[k]),
             Begin(k) + FrameSize(arrived[k]) <= Len(wire)
      PROVE  ChecksumWrong(CutAt(k))
  <2>1. k \in DOMAIN sent' /\ Begin(k)' = Begin(k) /\ sent'[k] = sent[k] /\ arrived'[k] = arrived[k]
    BY <1>1, <1>2
  <2>2. Begin(k) \in Nat /\ arrived[k] \in Seq(Byte) /\ Len(arrived[k]) >= 4
    BY <1>1, FrameOnWire
  <2>3. PICK first \in Nat : first = Begin(k)
    BY <2>2
  <2>4. PICK size \in Nat : size = FrameSize(arrived[k])
    BY <2>2, SizeOfArrival
  <2>5. ChecksumWrong(SubSeq(wire', first + 1, first + size))
    <3>1. first + size <= Len(wire')
      BY <1>1, <1>2, <1>3, <2>3, <2>4
    <3>2. Begin(k)' + FrameSize(arrived'[k]) <= Len(wire') => ChecksumWrong(CutAt(k))'
      BY <1>3, <2>1 DEF HeadsTold
    <3>3. ChecksumWrong(CutAt(k))'
      BY <2>1, <2>3, <2>4, <3>1, <3>2
    <3>4. QED BY <2>1, <2>3, <2>4, <3>3 DEF CutAt
  <2>6. ASSUME NEW i \in first + 1 .. first + size
        PROVE  wire[i] \in Byte /\ wire'[i] = wire[i]
    <3>1. i \in 1 .. Len(wire)
      BY <1>1, <1>3, <2>3, <2>4
    <3>2. QED BY <1>2, <3>1, ElementOfSeq DEF TypeOK
  <2>7. SubSeq(wire', first + 1, first + size) = SubSeq(wire, first + 1, first + size)
    <3>1. PICK last \in Int : last = first + size
      OBVIOUS
    <3>2. PICK next \in Int : next = first + 1
      OBVIOUS
    <3>3. \A i \in next .. last : wire[i] \in Byte /\ wire'[i] \in Byte /\ wire'[i] = wire[i]
      BY <2>6, <3>1, <3>2
    <3>4. /\ SubSeq(wire, next, last) \in Seq(Byte)
          /\ Len(SubSeq(wire, next, last)) = IF next <= last THEN last - next + 1 ELSE 0
          /\ \A i \in 1 .. last - next + 1 : SubSeq(wire, next, last)[i] = wire[next + i - 1]
      BY <3>3, SubSeqProperties
    <3>5. /\ SubSeq(wire', next, last) \in Seq(Byte)
          /\ Len(SubSeq(wire', next, last)) = IF next <= last THEN last - next + 1 ELSE 0
          /\ \A i \in 1 .. last - next + 1 : SubSeq(wire', next, last)[i] = wire'[next + i - 1]
      BY <3>3, SubSeqProperties
    <3>6. \A i \in 1 .. last - next + 1 : next + i - 1 \in next .. last
      OBVIOUS
    <3>7. last - next + 1 = IF next <= last THEN last - next + 1 ELSE 0
      BY <3>1, <3>2
    <3>8. QED BY <3>1, <3>2, <3>3, <3>4, <3>5, <3>6, <3>7, SeqEqual
  <2>8. QED BY <2>3, <2>4, <2>5, <2>7 DEF CutAt
<1>4. QED BY <1>1, <1>3 DEF HeadsTold

-----------------------------------------------------------------------------
(***************************************************************************)
(* The readings.                                                           *)
(***************************************************************************)
\* LastAnswer chooses the index that its name says, if there is one.
LEMMA LastAnswerChoice ==
  ASSUME NEW acc \in Seq(Seq(Byte)), NEW code, NEW i \in Nat,
         IF i = 0 THEN \A j \in DOMAIN acc : acc[j][2] # code
         ELSE /\ i \in DOMAIN acc /\ acc[i][2] = code
              /\ \A j \in DOMAIN acc : acc[j][2] = code => j <= i
  PROVE  LET S == {j \in DOMAIN acc : acc[j][2] = code}
         IN (IF S = {} THEN 0 ELSE CHOOSE j \in S : \A k \in S : k <= j) = i
<1> DEFINE S == {j \in DOMAIN acc : acc[j][2] = code}
<1>1. S \subseteq Nat
  BY LenProperties
<1>2. CASE i = 0
  <2>1. S = {}
    BY <1>2
  <2>2. QED BY <1>2, <2>1
<1>3. CASE i # 0
  <2>1. i \in S /\ \A k \in S : k <= i
    BY <1>3
  <2>2. \A j \in S : (\A k \in S : k <= j) => j = i
    BY <1>1, <2>1
  <2> HIDE DEF S
  <2>3. (CHOOSE j \in S : \A k \in S : k <= j) = i
    BY <2>1, <2>2
  <2>4. QED BY <2>1, <2>3 DEF S
<1>4. QED BY <1>2, <1>3

\* What accepting a frame does to the last answer of a kind.
LEMMA LastAnswerStep ==
  ASSUME TypeOK, NEW frame \in Seq(Byte), accepted' = Append(accepted, frame),
         NEW code, IsLastAnswer(code, LastAnswer(code))
  PROVE  /\ IsLastAnswer(code, LastAnswer(code))'
         /\ frame[2] = code => /\ LastAnswer(code)' = Len(accepted) + 1
                               /\ accepted'[LastAnswer(code)'] = frame
         /\ frame[2] # code => LastAnswer(code)' = LastAnswer(code)
         /\ frame[2] # code /\ LastAnswer(code) # 0 =>
              accepted'[LastAnswer(code)'] = accepted[LastAnswer(code)]
<1>0. PICK n \in Nat : n = Len(accepted)
  BY LenProperties DEF TypeOK
<1>1. /\ accepted \in Seq(Seq(Byte)) /\ accepted' \in Seq(Seq(Byte))
      /\ DOMAIN accepted = 1 .. n /\ DOMAIN accepted' = 1 .. n + 1
      /\ accepted'[n + 1] = frame
      /\ \A j \in 1 .. n : accepted'[j] = accepted[j]
  BY <1>0, AppendShape, LenProperties DEF TypeOK
<1>2. PICK l : l = LastAnswer(code)
  OBVIOUS
<1>3. l \in 0 .. n
  BY <1>1, <1>2 DEF IsLastAnswer
<1>4. PICK m : m = IF frame[2] = code THEN n + 1 ELSE l
  OBVIOUS
<1>5. /\ m \in Nat
      /\ IF m = 0 THEN \A j \in DOMAIN accepted' : accepted'[j][2] # code
         ELSE /\ m \in DOMAIN accepted' /\ accepted'[m][2] = code
              /\ \A j \in DOMAIN accepted' : accepted'[j][2] = code => j <= m
  <2>1. \A j \in 1 .. n + 1 : j \in 1 .. n \/ j = n + 1
    OBVIOUS
  <2>2. CASE frame[2] = code
    BY <1>1, <1>4, <2>2
  <2>3. CASE frame[2] # code
    BY <1>1, <1>2, <1>3, <1>4, <2>1, <2>3 DEF IsLastAnswer
  <2>4. QED BY <2>2, <2>3
<1>6. LastAnswer(code)' = m
  BY <1>1, <1>5, LastAnswerChoice DEF LastAnswer
<1>7. IsLastAnswer(code, LastAnswer(code))'
  BY <1>5, <1>6 DEF IsLastAnswer
<1>8. QED BY <1>0, <1>1, <1>2, <1>3, <1>4, <1>6, <1>7

\* There is no last answer at first.
LEMMA ReadingInit == Init => ReadingInv
<1> SUFFICES ASSUME Init PROVE ReadingInv
  OBVIOUS
<1>1. accepted = <<>> /\ accepted \in Seq(Seq(Byte)) /\ DOMAIN accepted = {}
  BY DEF Init
<1>2. \A code : LastAnswer(code) = 0
  BY <1>1 DEF LastAnswer
<1>3. \A code : IsLastAnswer(code, 0)
  BY <1>1 DEF IsLastAnswer
<1>4. QED BY <1>2, <1>3 DEF ReadingInv

\* A step keeps the readings those of the last answers.
LEMMA ReadingStep ==
  ASSUME TypeOK, ReadingInv, [Next]_vars
  PROVE  ReadingInv'
<1>1. CASE FrameRead /\ ~ChecksumWrong(buf_recv)
  <2>1. Accept(buf_recv) /\ buf_recv \in Seq(Byte)
    BY <1>1, BufferBytes DEF FrameRead
  <2>2. PICK frame \in Seq(Byte) : frame = buf_recv
    BY <2>1
  <2>3. /\ accepted' = Append(accepted, frame)
        /\ m_DO' = IF frame[2] = 1 THEN CoilsOf(frame) ELSE m_DO
        /\ m_DI' = IF frame[2] = 2 THEN CoilsOf(frame) ELSE m_DI
        /\ m_AI' = IF frame[2] = 4 THEN ValuesOf(frame) ELSE m_AI
    BY <2>1, <2>2 DEF Accept
  <2>4. ASSUME NEW code \in {1, 2, 4}
        PROVE  /\ IsLastAnswer(code, LastAnswer(code))'
               /\ frame[2] = code => accepted'[LastAnswer(code)'] = frame
               /\ frame[2] # code => LastAnswer(code)' = LastAnswer(code)
               /\ frame[2] # code /\ LastAnswer(code) # 0 =>
                    accepted'[LastAnswer(code)'] = accepted[LastAnswer(code)]
    BY <2>3, LastAnswerStep DEF ReadingInv
  <2>5. LastAnswer(1)' # 0 => m_DO' = CoilsOf(accepted'[LastAnswer(1)'])
    BY <2>3, <2>4 DEF ReadingInv
  <2>6. LastAnswer(2)' # 0 => m_DI' = CoilsOf(accepted'[LastAnswer(2)'])
    BY <2>3, <2>4 DEF ReadingInv
  <2>7. LastAnswer(4)' # 0 => m_AI' = ValuesOf(accepted'[LastAnswer(4)'])
    BY <2>3, <2>4 DEF ReadingInv
  <2>8. QED BY <2>4, <2>5, <2>6, <2>7 DEF ReadingInv
<1>2. CASE UNCHANGED <<readings, accepted>>
  BY <1>2 DEF readings, ReadingInv, IsLastAnswer, LastAnswer
<1>3. QED
  <2>1. Send \/ SelectReady \/ Recv \/ RecvNothing \/ HeadRead \/ RecvFails
          \/ UNCHANGED vars \/ (FrameRead /\ ChecksumWrong(buf_recv))
          => UNCHANGED <<readings, accepted>>
    BY DEF Send, SelectReady, Recv, RecvNothing, HeadRead, RecvFails, FrameRead, vars
  <2>2. QED BY <1>1, <1>2, <2>1 DEF Next, Reader

-----------------------------------------------------------------------------
(***************************************************************************)
(* The frame under way.                                                    *)
(***************************************************************************)
\* What the thread knows of the frame under way from the four bytes that it
\* has read is what has arrived.
LEMMA HeadOfBuffer ==
  ASSUME TypeOK, StreamInv, AlignInv, pc = "body",
         NEW n \in Nat, n = Len(accepted)
  PROVE  /\ n < Len(sent)
         /\ FrameSize(buf_recv) = FrameSize(arrived[n + 1])
         /\ buf_recv[2] = arrived[n + 1][2]
<1>1. n < Len(sent) /\ start = Begin(n + 1) /\ start + 4 <= taken
  BY DEF AlignInv, Reading, HeadSize
<1>2. Len(sent) \in Nat
  BY LenProperties DEF TypeOK
<1>3. /\ n + 1 \in DOMAIN sent /\ Len(sent[n + 1]) \in Nat /\ Len(sent[n + 1]) >= 4
      /\ \A j \in 1 .. Len(sent[n + 1]) : wire[Begin(n + 1) + j] = arrived[n + 1][j]
  BY <1>1, <1>2, FrameOnWire
<1>4. start \in Nat /\ taken \in Nat
  BY LenProperties DEF TypeOK
<1>5. ASSUME NEW j \in {2, 3}
      PROVE  buf_recv[j] = arrived[n + 1][j]
  <2>1. j \in 1 .. taken - start /\ j \in 1 .. Len(sent[n + 1])
    BY <1>1, <1>3, <1>4
  <2>2. buf_recv[j] = wire[start + j]
    BY <2>1, BufferBytes
  <2>3. QED BY <1>1, <1>3, <2>1, <2>2
<1>6. FrameSize(buf_recv) = FrameSize(arrived[n + 1])
  BY <1>5 DEF FrameSize
<1>7. QED BY <1>1, <1>5, <1>6

\* When the thread has what it wanted, the buffer holds the frame and
\* nothing else; if its head was damaged, the checksum shows it; after a refusal it holds three bytes of the next frame too,
\* and the checksum of that is wrong.
LEMMA FrameInBuffer ==
  ASSUME TypeOK, StreamInv, HeadsTold, AlignInv, pc = "body", Wanted = 0,
         NEW n \in Nat, n = Len(accepted)
  PROVE  /\ n < Len(sent)
         /\ ~ChecksumWrong(buf_recv) =>
              /\ buf_recv = arrived[n + 1] /\ taken = Begin(n + 2)
              /\ sent[n + 1] # Refusal /\ SameHead(sent[n + 1], arrived[n + 1])
         /\ ChecksumWrong(buf_recv) => arrived[n + 1] # sent[n + 1] \/ sent[n + 1] = Refusal
<1>1. /\ n < Len(sent) /\ FrameSize(buf_recv) = FrameSize(arrived[n + 1])
      /\ buf_recv[2] = arrived[n + 1][2]
  BY HeadOfBuffer
<1>2. Len(sent) \in Nat /\ start \in Nat /\ taken \in Nat /\ taken <= Len(wire) /\ Len(wire) \in Nat
  BY LenProperties DEF TypeOK
<1>3. start = Begin(n + 1)
  BY DEF AlignInv, Reading
<1>4. /\ n + 1 \in DOMAIN sent /\ sent[n + 1] \in Frames
      /\ arrived[n + 1] \in Arrivals(sent[n + 1]) /\ arrived[n + 1] \in Seq(Byte)
      /\ Len(sent[n + 1]) \in Nat /\ Len(sent[n + 1]) >= 4
      /\ Len(arrived[n + 1]) = Len(sent[n + 1])
      /\ arrived[n + 1] # sent[n + 1] => CRC16(arrived[n + 1]) # 0
      /\ Begin(n + 1 + 1) = Begin(n + 1) + Len(sent[n + 1])
      /\ \A j \in 1 .. Len(sent[n + 1]) : wire[Begin(n + 1) + j] = arrived[n + 1][j]
  BY <1>1, <1>2, FrameOnWire
<1>5. n + 1 + 1 = n + 2
  OBVIOUS
<1>6. taken - start = FrameSize(arrived[n + 1]) /\ taken = start + FrameSize(arrived[n + 1])
  <2>1. FrameSize(arrived[n + 1]) \in Nat
    BY <1>4, SizeOfArrival
  <2>2. start + FrameSize(arrived[n + 1]) - taken = 0
    BY <1>1 DEF Wanted
  <2>3. QED BY <1>2, <2>1, <2>2
<1>7. /\ buf_recv \in Seq(Byte) /\ Len(buf_recv) = taken - start
      /\ \A i \in 1 .. taken - start : buf_recv[i] = wire[start + i]
  BY BufferBytes
<1>8. CASE ~SameHead(sent[n + 1], arrived[n + 1])
  <2>1. buf_recv = CutAt(n + 1)
    BY <1>3, <1>6 DEF buf_recv, CutAt
  <2>2. Begin(n + 1) + FrameSize(arrived[n + 1]) <= Len(wire)
    BY <1>2, <1>3, <1>6
  <2>3. ChecksumWrong(buf_recv)
    BY <1>4, <1>8, <2>1, <2>2 DEF HeadsTold
  <2>4. arrived[n + 1] # sent[n + 1]
    BY <1>8 DEF SameHead
  <2>5. QED BY <1>1, <2>3, <2>4
<1>9. CASE sent[n + 1] # Refusal /\ SameHead(sent[n + 1], arrived[n + 1])
  <2>1. taken - start = Len(sent[n + 1])
    BY <1>4, <1>6, <1>9, FrameShape DEF SameHead
  <2>2. \A j \in 1 .. Len(buf_recv) : buf_recv[j] = arrived[n + 1][j]
    BY <1>3, <1>4, <1>7, <2>1
  <2>3. Len(buf_recv) = Len(arrived[n + 1])
    BY <1>4, <1>7, <2>1
  <2>4. buf_recv = arrived[n + 1]
    BY <1>4, <1>7, <2>2, <2>3, SeqEqual
  <2>5. taken = Begin(n + 2)
    BY <1>2, <1>3, <1>4, <1>5, <2>1
  <2>6. CRC16(sent[n + 1]) = 0
    BY <1>4, FrameShape
  <2>7. QED BY <1>1, <1>9, <2>4, <2>5, <2>6 DEF ChecksumWrong
<1>10. CASE sent[n + 1] = Refusal /\ SameHead(sent[n + 1], arrived[n + 1])
  <2>1. taken = start + 8 /\ Begin(n + 2) = start + 5 /\ Len(sent[n + 1]) = 5
        /\ buf_recv[2] = 129
    <3>1. /\ FrameSize(sent[n + 1]) = 8 /\ Len(sent[n + 1]) = 5
          /\ sent[n + 1][2] = 129
      BY <1>4, <1>10, FrameShape
    <3>2. FrameSize(arrived[n + 1]) = 8 /\ buf_recv[2] = 129
      BY <1>1, <1>10, <3>1 DEF SameHead
    <3>3. QED BY <1>2, <1>3, <1>4, <1>5, <1>6, <3>1, <3>2
  <2>2. n + 2 <= Len(sent)
    <3>1. SUFFICES ASSUME n + 1 = Len(sent) PROVE FALSE
      BY <1>1, <1>2
    <3>2. Begin(n + 2) = Len(wire)
      BY <1>5, <3>1 DEF StreamInv
    <3>3. QED BY <1>2, <2>1, <3>2
  <2>3. PICK g : g = arrived[n + 2]
    OBVIOUS
  <2>4. /\ n + 2 \in DOMAIN sent /\ sent[n + 2] \in Frames
        /\ g \in Arrivals(sent[n + 2]) /\ g \in Seq(Byte)
        /\ Len(sent[n + 2]) \in Nat /\ Len(sent[n + 2]) >= 4 /\ Len(g) = Len(sent[n + 2])
        /\ \A j \in 1 .. Len(sent[n + 2]) : wire[Begin(n + 2) + j] = g[j]
    BY <2>2, <2>3, FrameOnWire
  <2>6. PICK r : r = arrived[n + 1]
    OBVIOUS
  <2>7. PICK t : t = SubSeq(g, 1, 3)
    OBVIOUS
  <2>8. t \in Seq(Byte) /\ Len(t) = 3 /\ \A i \in 1 .. 3 : t[i] = g[i]
    <3>1. \A i \in 1 .. 3 : g[i] \in Byte
      BY <2>4, ElementOfSeq
    <3>2. /\ t \in Seq(Byte)
          /\ Len(t) = IF 1 <= 3 THEN 3 - 1 + 1 ELSE 0
          /\ \A i \in 1 .. 3 - 1 + 1 : t[i] = g[1 + i - 1]
      BY <2>7, <3>1, SubSeqProperties
    <3>3. \A i \in 1 .. 3 : i \in 1 .. 3 - 1 + 1 /\ 1 + i - 1 = i
      OBVIOUS
    <3>4. QED BY <3>2, <3>3
  <2>9. r \in Seq(Byte) /\ Len(r) = 5
    BY <1>4, <2>1, <2>6
  <2>10. /\ r \o t \in Seq(Byte) /\ Len(r \o t) = 8
         /\ \A i \in 1 .. 8 : (r \o t)[i] = IF i <= 5 THEN r[i] ELSE t[i - 5]
    <3>1. /\ r \o t \in Seq(Byte) /\ Len(r \o t) = Len(r) + Len(t)
          /\ \A i \in 1 .. Len(r) + Len(t) :
               (r \o t)[i] = IF i <= Len(r) THEN r[i] ELSE t[i - Len(r)]
      BY <2>8, <2>9, ConcatProperties
    <3>2. Len(r) + Len(t) = 8
      BY <2>8, <2>9
    <3>3. QED BY <2>9, <3>1, <3>2
  <2>11. Len(buf_recv) = 8 /\ \A i \in 1 .. 8 : buf_recv[i] = wire[start + i]
    <3>1. taken - start = 8
      BY <1>2, <2>1
    <3>2. QED BY <1>7, <3>1
  <2>12. ASSUME NEW i \in 1 .. 8
         PROVE  buf_recv[i] = (r \o t)[i]
    <3>0. i \in 1 .. 5 \/ i \in 6 .. 8
      OBVIOUS
    <3>1. CASE i \in 1 .. 5
      <4>1. i \in 1 .. Len(sent[n + 1]) /\ i <= 5
        BY <2>1, <3>1
      <4>2. wire[start + i] = r[i]
        BY <1>3, <1>4, <2>6, <4>1
      <4>3. QED BY <2>10, <2>11, <4>1, <4>2
    <3>2. CASE i \in 6 .. 8
      <4>1. ~(i <= 5) /\ i - 5 \in 1 .. 3 /\ i - 5 \in 1 .. Len(sent[n + 2]) /\ start + i = Begin(n + 2) + (i - 5)
        BY <1>2, <2>1, <2>4, <3>2
      <4>2. wire[start + i] = g[i - 5] /\ t[i - 5] = g[i - 5]
        BY <2>4, <2>8, <4>1
      <4>3. QED BY <2>10, <2>11, <4>1, <4>2
    <3>3. QED BY <3>0, <3>1, <3>2
  <2>13. buf_recv = r \o t
    <3>1. Len(buf_recv) = Len(r \o t) /\ \A i \in 1 .. Len(buf_recv) : buf_recv[i] = (r \o t)[i]
      BY <2>10, <2>11, <2>12
    <3>2. QED BY <1>7, <2>10, <3>1, SeqEqual
  <2>14. CRC16(buf_recv) # 0
    <3>1. r \in Arrivals(Refusal)
      BY <1>4, <1>10, <2>6
    <3>2. CRC16(r \o SubSeq(g, 1, 3)) # 0
      BY <2>4, <3>1, CRC16Assumption
    <3>3. QED BY <2>7, <2>13, <3>2
  <2>15. ChecksumWrong(buf_recv)
    BY <2>1, <2>14 DEF ChecksumWrong
  <2>16. QED BY <1>1, <1>10, <2>15
<1>11. QED BY <1>9, <1>10, <1>8

\* AlignInv and AcceptInv of the next state, said of a number.
LEMMA AlignNext ==
  ASSUME NEW n \in Nat, n = Len(accepted'), n <= Len(sent'),
         pc' = "select" => taken' = Begin(n + 1)',
         pc' \in {"head", "body"} => n < Len(sent') /\ start' = Begin(n + 1)',
         pc' = "head" => taken' <= start' + HeadSize,
         pc' = "body" => /\ start' + HeadSize <= taken'
                         /\ taken' <= start' + FrameSize(arrived'[n + 1]),
         pc' = "wrong" => /\ n < Len(sent')
                          /\ arrived'[n + 1] # sent'[n + 1] \/ sent'[n + 1] = Refusal
  PROVE  AlignInv'
BY DEF AlignInv, Reading, Begin

\* Whatever the thread does, if the heads are intact, it stays in step with
\* the frames and accepts them as they are.
LEMMA AlignStep ==
  ASSUME TypeOK, StreamInv, HeadsTold, AlignInv, AcceptInv, [Next]_vars
  PROVE  AlignInv' /\ AcceptInv'
<1>0. PICK n \in Nat : n = Len(accepted)
  BY LenProperties DEF TypeOK
<1>1. /\ n <= Len(sent)
      /\ pc = "select" => taken = Begin(n + 1)
      /\ pc \in {"head", "body"} => n < Len(sent) /\ start = Begin(n + 1)
      /\ pc = "head" => taken <= start + HeadSize
      /\ pc = "body" => /\ start + HeadSize <= taken
                        /\ taken <= start + FrameSize(arrived[n + 1])
      /\ pc = "wrong" => /\ n < Len(sent)
                         /\ arrived[n + 1] # sent[n + 1] \/ sent[n + 1] = Refusal
  BY <1>0 DEF AlignInv, Reading
<1>2. /\ Len(sent) \in Nat /\ Len(sent') \in Nat /\ Len(sent) <= Len(sent')
      /\ \A k \in 1 .. Len(sent) : sent'[k] = sent[k] /\ arrived'[k] = arrived[k]
      /\ \A k \in 1 .. Len(sent) + 1 : Begin(k)' = Begin(k)
  <2>1. sent' \in Seq(Frames)
    <3>1. CASE Send
      BY <3>1 DEF Send, TypeOK
    <3>2. CASE UNCHANGED sent
      BY <3>2 DEF TypeOK
    <3>3. QED
      BY <3>1, <3>2 DEF Next, Reader, SelectReady, Recv, RecvNothing, HeadRead, FrameRead,
                        RecvFails, vars, line
  <2>2. Len(sent) \in Nat /\ Len(sent') \in Nat
    BY <2>1, LenProperties DEF TypeOK
  <2>3. QED BY <2>2, StreamStep
<1>3. /\ Begin(n + 1)' = Begin(n + 1) /\ n <= Len(sent')
      /\ n < Len(sent) => /\ n < Len(sent')
                          /\ sent'[n + 1] = sent[n + 1] /\ arrived'[n + 1] = arrived[n + 1]
                          /\ Begin(n + 2)' = Begin(n + 2)
  <2>1. n + 1 \in 1 .. Len(sent) + 1 /\ n <= Len(sent')
    BY <1>1, <1>2
  <2>2. n < Len(sent) => n + 1 \in 1 .. Len(sent) /\ n + 2 \in 1 .. Len(sent) + 1 /\ n < Len(sent')
    BY <1>2
  <2>3. QED BY <1>2, <2>1, <2>2
<1>4. start \in Nat /\ taken \in Nat /\ taken <= Len(wire) /\ Len(wire) \in Nat
  BY LenProperties DEF TypeOK
<1>5. /\ DOMAIN accepted = 1 .. n
      /\ \A i \in 1 .. n : /\ i \in 1 .. Len(sent) /\ accepted[i] = arrived[i]
                           /\ accepted[i][2] = sent[i][2]
                           /\ accepted[i] = sent[i] \/ accepted[i][2] = 100
  <2>1. DOMAIN accepted = 1 .. n
    BY <1>0, LenProperties DEF TypeOK
  <2>2. QED BY <1>1, <1>2, <2>1 DEF AcceptInv
<1>6. ASSUME UNCHANGED accepted
      PROVE  n = Len(accepted') /\ AcceptInv'
  BY <1>0, <1>2, <1>5, <1>6 DEF AcceptInv
<1>7. CASE Send
  <2>1. UNCHANGED <<accepted, pc, taken, start>>
    BY <1>7 DEF Send
  <2>2. AlignInv'
    BY <1>0, <1>1, <1>3, <2>1, AlignNext
  <2>3. QED BY <1>6, <2>1, <2>2
<1>8. CASE SelectReady
  <2>1. /\ UNCHANGED <<accepted, taken>> /\ pc = "select" /\ taken < Len(wire)
        /\ pc' = "head" /\ start' = taken
    BY <1>8 DEF SelectReady
  <2>2. n < Len(sent)
    <3>1. SUFFICES ASSUME n = Len(sent) PROVE FALSE
      BY <1>1, <1>2
    <3>2. Begin(n + 1) = Len(wire)
      BY <3>1 DEF StreamInv
    <3>3. QED BY <1>1, <1>4, <2>1, <3>2
  <2>3. taken' <= start' + HeadSize
    BY <1>4, <2>1 DEF HeadSize
  <2>4. AlignInv'
    BY <1>0, <1>1, <1>3, <2>1, <2>2, <2>3, AlignNext
  <2>5. QED BY <1>6, <2>1, <2>4
<1>9. CASE Recv
  <2>1. /\ UNCHANGED <<accepted, start, pc>> /\ pc \in {"head", "body"}
        /\ \E m \in 1 .. Wanted : taken' = taken + m
    BY <1>9 DEF Recv, Reading
  <2>2. PICK m \in 1 .. Wanted : taken' = taken + m
    BY <2>1
  <2>3. CASE pc = "head"
    <3>1. m \in 1 .. start + HeadSize - taken
      BY <2>2, <2>3 DEF Wanted
    <3>2. taken' <= start' + HeadSize
      BY <1>4, <2>1, <2>2, <3>1 DEF HeadSize
    <3>3. AlignInv'
      BY <1>0, <1>1, <1>3, <2>1, <2>3, <3>2, AlignNext
    <3>4. QED BY <1>6, <2>1, <3>3
  <2>4. CASE pc = "body"
    <3>1. FrameSize(buf_recv) = FrameSize(arrived[n + 1])
      BY <1>0, <2>4, HeadOfBuffer
    <3>2. FrameSize(arrived[n + 1]) \in Nat
      <4>1. n + 1 \in Nat /\ n + 1 >= 1 /\ n + 1 <= Len(sent)
        BY <1>1, <1>2, <2>4
      <4>2. QED BY <4>1, FrameOnWire, SizeOfArrival
    <3>3. m \in 1 .. start + FrameSize(arrived[n + 1]) - taken
      BY <2>2, <2>4, <3>1 DEF Wanted
    <3>4. start' + HeadSize <= taken' /\ taken' <= start' + FrameSize(arrived[n + 1])
      BY <1>1, <1>4, <2>1, <2>2, <2>4, <3>2, <3>3 DEF HeadSize
    <3>5. AlignInv'
      BY <1>0, <1>1, <1>3, <2>1, <2>4, <3>4, AlignNext
    <3>6. QED BY <1>6, <2>1, <3>5
  <2>5. QED BY <2>1, <2>3, <2>4
<1>10. CASE RecvNothing \/ RecvFails
  <2>1. /\ UNCHANGED <<accepted, start, taken>> /\ pc \in {"head", "body"}
        /\ pc' \in {pc, "incomplete", "broken"}
    BY <1>10 DEF RecvNothing, RecvFails, Reading
  <2>2. AlignInv'
    BY <1>0, <1>1, <1>3, <2>1, AlignNext
  <2>3. QED BY <1>6, <2>1, <2>2
<1>11. CASE HeadRead
  <2>1. /\ UNCHANGED <<accepted, start, taken>> /\ pc = "head" /\ pc' = "body"
        /\ start + HeadSize - taken = 0
    BY <1>11 DEF HeadRead, Wanted
  <2>2. FrameSize(arrived[n + 1]) \in Nat /\ FrameSize(arrived[n + 1]) >= HeadSize
    <3>1. n + 1 \in Nat /\ n + 1 >= 1 /\ n + 1 <= Len(sent)
      BY <1>1, <1>2, <2>1
    <3>2. QED BY <3>1, FrameOnWire, SizeOfArrival
  <2>3. start' + HeadSize <= taken' /\ taken' <= start' + FrameSize(arrived[n + 1])
    BY <1>4, <2>1, <2>2 DEF HeadSize
  <2>4. AlignInv'
    BY <1>0, <1>1, <1>3, <2>1, <2>3, AlignNext
  <2>5. QED BY <1>6, <2>1, <2>4
<1>12. CASE FrameRead
  <2>1. pc = "body" /\ Wanted = 0 /\ UNCHANGED <<line, taken, start>>
    BY <1>12 DEF FrameRead
  <2>2. /\ n < Len(sent)
        /\ ~ChecksumWrong(buf_recv) =>
             /\ buf_recv = arrived[n + 1] /\ taken = Begin(n + 2)
             /\ sent[n + 1] # Refusal /\ SameHead(sent[n + 1], arrived[n + 1])
        /\ ChecksumWrong(buf_recv) => arrived[n + 1] # sent[n + 1] \/ sent[n + 1] = Refusal
    BY <1>0, <2>1, FrameInBuffer
  <2>3. /\ CRC16(sent[n + 1]) = 0
        /\ arrived[n + 1] # sent[n + 1] => CRC16(arrived[n + 1]) # 0
    <3>1. n + 1 \in Nat /\ n + 1 >= 1 /\ n + 1 <= Len(sent)
      BY <1>2, <2>2
    <3>2. QED BY <3>1, FrameOnWire, FrameShape
  <2>4. CASE ChecksumWrong(buf_recv)
    <3>1. pc' = "wrong" /\ UNCHANGED accepted
      BY <1>12, <2>4 DEF FrameRead
    <3>2. arrived[n + 1] # sent[n + 1] \/ sent[n + 1] = Refusal
      BY <2>2, <2>4
    <3>3. AlignInv'
      BY <1>0, <1>3, <2>2, <3>1, <3>2, AlignNext
    <3>4. QED BY <1>6, <3>1, <3>3
  <2>5. CASE ~ChecksumWrong(buf_recv)
    <3>1. accepted' = Append(accepted, buf_recv) /\ pc' = "select"
      BY <1>12, <2>5 DEF FrameRead, Accept
    <3>2. buf_recv = arrived[n + 1] /\ taken = Begin(n + 2)
      BY <2>2, <2>5
    <3>3. /\ Len(accepted') = n + 1 /\ DOMAIN accepted' = 1 .. n + 1
          /\ accepted'[n + 1] = buf_recv
          /\ \A i \in 1 .. n : accepted'[i] = accepted[i]
      <4>1. accepted \in Seq(Seq(Byte)) /\ buf_recv \in Seq(Byte)
        BY BufferBytes DEF TypeOK
      <4>2. QED BY <1>0, <3>1, <4>1, AppendShape
    <3>4. n + 1 \in Nat /\ n + 1 <= Len(sent') /\ n + 1 + 1 = n + 2
      BY <1>2, <1>3, <2>2
    <3>5. taken' = Begin(n + 1 + 1)'
      <4>1. Begin(n + 2)' = Begin(n + 2)
        BY <1>3, <2>2
      <4>2. QED BY <2>1, <3>2, <4>1 DEF Begin
    <3>6. AlignInv'
      BY <3>1, <3>3, <3>4, <3>5, AlignNext
    <3>7. /\ buf_recv[2] = sent[n + 1][2]
          /\ buf_recv = sent[n + 1] \/ buf_recv[2] = 100
      BY <2>2, <2>3, <2>5, <3>2 DEF ChecksumWrong, SameHead
    <3>8. ASSUME NEW i \in DOMAIN accepted'
          PROVE  /\ accepted'[i] = arrived'[i] /\ accepted'[i][2] = sent'[i][2]
                 /\ accepted'[i] = sent'[i] \/ accepted'[i][2] = 100
      <4>1. i \in 1 .. n \/ i = n + 1
        BY <3>3
      <4>2. CASE i \in 1 .. n
        BY <1>2, <1>5, <3>3, <4>2
      <4>3. CASE i = n + 1
        BY <1>3, <2>2, <3>2, <3>3, <3>7, <4>3
      <4>4. QED BY <4>1, <4>2, <4>3
    <3>9. QED BY <3>6, <3>8 DEF AcceptInv
  <2>6. QED BY <2>4, <2>5
<1>13. CASE UNCHANGED vars
  <2>1. UNCHANGED <<accepted, pc, taken, start>>
    BY <1>13 DEF vars
  <2>2. AlignInv'
    BY <1>0, <1>1, <1>3, <2>1, AlignNext
  <2>3. QED BY <1>6, <2>1, <2>2
<1>14. QED BY <1>7, <1>8, <1>9, <1>10, <1>11, <1>12, <1>13 DEF Next, Reader

-----------------------------------------------------------------------------
(***************************************************************************)
(* The theorems.                                                           *)
(***************************************************************************)
\* IInv holds at first: nothing has been sent, nothing read.
LEMMA InvInit == Init => IInv
<1> SUFFICES ASSUME Init PROVE IInv
  OBVIOUS
<1>1. TypeOK /\ PollInv /\ StreamInv /\ ReadingInv
  BY TypeInit, StreamInit, ReadingInit
<1>2. accepted = <<>> /\ sent = <<>> /\ pc = "select" /\ taken = 0
  BY DEF Init
<1>3. Len(accepted) = 0 /\ Len(sent) = 0 /\ DOMAIN accepted = {}
  BY <1>2
<1>4. taken = Begin(0 + 1)
  BY <1>2 DEF Begin
<1>5. AlignInv
  BY <1>2, <1>3, <1>4 DEF AlignInv, Reading
<1>6. AcceptInv
  BY <1>3 DEF AcceptInv
<1>7. QED BY <1>1, <1>5, <1>6 DEF IInv

\* Every step preserves IInv.
LEMMA InvStep == IInv /\ [Next]_vars => IInv'
<1> SUFFICES ASSUME IInv, [Next]_vars PROVE IInv'
  OBVIOUS
<1>1. TypeOK /\ PollInv /\ StreamInv /\ ReadingInv
  BY DEF IInv
<1>2. TypeOK' /\ PollInv'
  BY <1>1, TypeStep
<1>3. StreamInv' /\ ReadingInv'
  BY <1>1, StreamStep, ReadingStep
<1>4. ASSUME HeadsTold'
      PROVE  AlignInv' /\ AcceptInv'
  <2>1. HeadsTold
    BY <1>1, <1>4, HeadsBefore
  <2>2. AlignInv /\ AcceptInv
    BY <2>1 DEF IInv
  <2>3. QED BY <1>1, <2>1, <2>2, AlignStep
<1>5. QED BY <1>2, <1>3, <1>4 DEF IInv

\* IInv holds in every reachable state.
LEMMA Invariance == Spec => []IInv
<1>1. Init => IInv
  BY InvInit
<1>2. IInv /\ [Next]_vars => IInv'
  BY InvStep
<1>3. QED BY <1>1, <1>2, PTL DEF Spec

\* Every variable keeps its type; in particular L_recv never polls more often
\* than it may, and never takes bytes that have not arrived.
THEOREM TypeCorrect == Spec => []TypeOK
<1>1. IInv => TypeOK
  BY DEF IInv
<1>2. QED BY <1>1, Invariance, PTL

\* Whatever the device sends, in whatever pieces it arrives: when the thread
\* waits for a frame again, it has taken whole frames, unless the checksum
\* has failed to show that a head was damaged.
THEOREM StaysOnBoundary == Spec => [](HeadsTold => OnBoundary)
<1>1. IInv => (HeadsTold => OnBoundary)
  <2> SUFFICES ASSUME IInv, HeadsTold, pc = "select" PROVE taken \in Boundaries
    BY DEF OnBoundary
  <2>1. TypeOK /\ StreamInv /\ AlignInv
    BY DEF IInv
  <2>2. PICK n \in Nat : n = Len(accepted)
    BY <2>1, LenProperties DEF TypeOK
  <2>3. n <= Len(sent) /\ taken = Begin(n + 1) /\ Len(ends) = Len(sent)
    BY <2>1, <2>2 DEF AlignInv, StreamInv
  <2>4. Len(sent) \in Nat /\ DOMAIN ends = 1 .. Len(sent)
    BY <2>1, <2>3, LenProperties DEF TypeOK
  <2>5. CASE n = 0
    BY <2>3, <2>5 DEF Begin, Boundaries
  <2>6. CASE n # 0
    <3>1. n \in DOMAIN ends /\ n + 1 # 1 /\ n + 1 - 1 = n
      BY <2>3, <2>4, <2>6
    <3>2. QED BY <2>3, <3>1 DEF Begin, Boundaries
  <2>7. QED BY <2>5, <2>6
<1>2. QED BY <1>1, Invariance, PTL

\* What the thread accepts is, frame by frame, what the device sent; only a
\* heartbeat, whose checksum is not looked at, may have been damaged.
THEOREM AcceptsWhatWasSent == Spec => [](HeadsTold => AcceptedWereSent)
<1>1. IInv => (HeadsTold => AcceptedWereSent)
  BY DEF IInv, AcceptInv, AcceptedWereSent
<1>2. QED BY <1>1, Invariance, PTL

\* The relays, inputs and analog values that the thread shows are those of
\* the last answer of their kind, as the device encoded them.
THEOREM ReadsTheAnswers == Spec => [](HeadsTold => ReadingsAreAnswers)
<1>1. IInv => (HeadsTold => ReadingsAreAnswers)
  <2> SUFFICES ASSUME IInv, HeadsTold PROVE ReadingsAreAnswers
    OBVIOUS
  <2>1. TypeOK /\ StreamInv /\ ReadingInv /\ AlignInv /\ AcceptInv
    BY DEF IInv
  <2>2. ASSUME NEW code \in {1, 2, 4}, NEW i, i = LastAnswer(code), i # 0
        PROVE  /\ accepted[i] = sent[i] /\ sent[i] \in Frames /\ sent[i][2] = code
    <3>1. i \in DOMAIN accepted /\ accepted[i][2] = code
      BY <2>1, <2>2 DEF ReadingInv, IsLastAnswer
    <3>2. accepted[i] = sent[i]
      BY <2>1, <3>1 DEF AcceptInv
    <3>3. i \in DOMAIN sent
      <4>1. /\ DOMAIN accepted = 1 .. Len(accepted) /\ DOMAIN sent = 1 .. Len(sent)
            /\ Len(accepted) \in Nat /\ Len(sent) \in Nat
        BY <2>1, LenProperties DEF TypeOK
      <4>2. Len(accepted) <= Len(sent)
        BY <2>1 DEF AlignInv
      <4>3. QED BY <3>1, <4>1, <4>2
    <3>4. sent[i] \in Frames
      BY <2>1, <3>3, ElementOfSeq, LenProperties DEF TypeOK
    <3>5. QED BY <3>1, <3>2, <3>4
  <2>3. LastAnswer(1) # 0 => \E c \in Coils : sent[LastAnswer(1)] = AnswerDO[c] /\ m_DO = c
    <3>1. SUFFICES ASSUME NEW i, i = LastAnswer(1), i # 0
                   PROVE  \E c \in Coils : sent[i] = AnswerDO[c] /\ m_DO = c
      OBVIOUS
    <3>2. accepted[i] = sent[i] /\ sent[i] \in Frames /\ sent[i][2] = 1
      BY <2>2, <3>1
    <3>3. m_DO = CoilsOf(sent[i])
      BY <2>1, <3>1, <3>2 DEF ReadingInv
    <3>4. QED BY <3>2, <3>3, FrameShape
  <2>4. LastAnswer(2) # 0 => \E c \in Coils : sent[LastAnswer(2)] = AnswerDI[c] /\ m_DI = c
    <3>1. SUFFICES ASSUME NEW i, i = LastAnswer(2), i # 0
                   PROVE  \E c \in Coils : sent[i] = AnswerDI[c] /\ m_DI = c
      OBVIOUS
    <3>2. accepted[i] = sent[i] /\ sent[i] \in Frames /\ sent[i][2] = 2
      BY <2>2, <3>1
    <3>3. m_DI = CoilsOf(sent[i])
      BY <2>1, <3>1, <3>2 DEF ReadingInv
    <3>4. QED BY <3>2, <3>3, FrameShape
  <2>5. LastAnswer(4) # 0 => \E v \in Values : sent[LastAnswer(4)] = AnswerAI[v] /\ m_AI = v
    <3>1. SUFFICES ASSUME NEW i, i = LastAnswer(4), i # 0
                   PROVE  \E v \in Values : sent[i] = AnswerAI[v] /\ m_AI = v
      OBVIOUS
    <3>2. accepted[i] = sent[i] /\ sent[i] \in Frames /\ sent[i][2] = 4
      BY <2>2, <3>1
    <3>3. m_AI = ValuesOf(sent[i])
      BY <2>1, <3>1, <3>2 DEF ReadingInv
    <3>4. QED BY <3>2, <3>3, FrameShape
  <2>6. QED BY <2>3, <2>4, <2>5 DEF ReadingsAreAnswers
<1>2. QED BY <1>1, Invariance, PTL

\* HeadsTold is a matter of the bytes behind a damaged head.  Where noise
\* spares the heads, whatever it does to the rest of a frame, nothing is left
\* to hope for: the frames are found, a damaged one is refused, and the
\* readings are those of the device.
HeadsIntact ==
  \A k \in DOMAIN sent :
    /\ arrived[k][2] = sent[k][2]
    /\ sent[k][2] \in 1 .. 4 => arrived[k][3] = sent[k][3]

THEOREM DamageBehindTheHead ==
  Spec => [](HeadsIntact => OnBoundary /\ AcceptedWereSent /\ ReadingsAreAnswers)
<1>1. HeadsIntact => HeadsTold
  BY DEF HeadsIntact, HeadsTold, SameHead, FrameSize
<1>2. QED BY <1>1, StaysOnBoundary, AcceptsWhatWasSent, ReadsTheAnswers, PTL

\* If nothing was damaged, the link ends with a wrong checksum only because
\* the device refused an order; no condition is needed for that.
THEOREM EndsForACause == Spec => []WrongForACause
<1>1. IInv => WrongForACause
  <2> SUFFICES ASSUME IInv, pc = "wrong", arrived = sent
               PROVE  \E i \in DOMAIN sent : sent[i] = Refusal
    BY DEF WrongForACause, noisy
  <2>1. HeadsTold
    BY DEF HeadsTold, SameHead
  <2>2. TypeOK /\ AlignInv
    BY <2>1 DEF IInv
  <2>3. PICK n \in Nat : n = Len(accepted)
    BY <2>2, LenProperties DEF TypeOK
  <2>4. n < Len(sent) /\ sent[n + 1] = Refusal
    BY <2>2, <2>3 DEF AlignInv
  <2>5. n + 1 \in DOMAIN sent
    BY <2>2, <2>3, <2>4, LenProperties DEF TypeOK
  <2>6. QED BY <2>4, <2>5
<1>2. QED BY <1>1, Invariance, PTL

=============================================================================
