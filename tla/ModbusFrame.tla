---------------------------- MODULE ModbusFrame ----------------------------
(***************************************************************************)
(* How MC_thread_client takes Modbus frames out of the bytes a device      *)
(* sends, and the readings out of the frames.                              *)
(*                                                                         *)
(* A TCP stream has no frames: bytes arrive in pieces of any size, and the *)
(* thread learns from the first four how many belong together.  It reads   *)
(* the two parts with L_recv, which polls a limited number of times, and   *)
(* then the checksum; it never looks for the beginning of a frame again,   *)
(* so that whatever is wrong has to end the link.  SockProc models the     *)
(* link around this, SockDevice what becomes of an accepted frame.         *)
(*                                                                         *)
(* The checksum is a constant with the three properties the framing rests  *)
(* on; MCModbusFrame puts CRC16_modbus of module Checksum in its place.    *)
(***************************************************************************)
EXTENDS Integers, Sequences

CONSTANTS
  CRC16(_),   \* the checksum of a buffer, 16 bits
  Coils,      \* what its relays and inputs can be: sets of indices
  Values,     \* what its analog values can be: sequences of NUM_AI words
  MaxFrames,  \* bound: frames the device sends
  NoiseBits,  \* bound: bits of a byte that noise may flip
  TimeOut     \* polls of L_recv, 5 in the code

NUM_DO == 6
NUM_DI == 6
NUM_AI == 6

Byte  == {n \in Nat : n < 256}
Short == {n \in Nat : n < 65536}

ASSUME ModbusFrameAssumption ==
  /\ \A c \in Coils : c \subseteq 0 .. NUM_DO - 1
  /\ \A v \in Values : v \in [1 .. NUM_AI -> Short]
  /\ MaxFrames \in Nat /\ TimeOut \in Nat \ {0}
  /\ NoiseBits \subseteq 0 .. 7

-----------------------------------------------------------------------------
(***************************************************************************)
(* The frames of the device: answers to GetDO, GetDI, GetAI and SetDO, a   *)
(* refusal (Modbus sets the top bit of the function code), a heartbeat.    *)
(***************************************************************************)
Power2 == <<1, 2, 4, 8, 16, 32, 64, 128>>
Bit(x, b) == (x \div Power2[b + 1]) % 2

\* The checksum is stored behind the frame, low byte first.
GenerateCRC_modbus(buf) == buf \o <<CRC16(buf) % 256, CRC16(buf) \div 256>>

CoilByte(c) ==
  LET coil(i) == IF i \in c THEN Power2[i + 1] ELSE 0
  IN coil(0) + coil(1) + coil(2) + coil(3) + coil(4) + coil(5)

AnswerDO[c \in Coils] == GenerateCRC_modbus(<<1, 1, 1, CoilByte(c)>>)
AnswerDI[c \in Coils] == GenerateCRC_modbus(<<1, 2, 1, CoilByte(c)>>)
AnswerAI[v \in Values] ==
  GenerateCRC_modbus(<<1, 4, 2 * NUM_AI>> \o
    [k \in 1 .. 2 * NUM_AI |-> IF k % 2 = 1 THEN v[(k + 1) \div 2] \div 256
                               ELSE v[k \div 2] % 256])
EchoDO  == GenerateCRC_modbus(<<1, 5, 0, 2, 255, 0>>)
Refusal == GenerateCRC_modbus(<<1, 129, 2>>)
Beat    == GenerateCRC_modbus(<<1, 100>>)

Frames == {AnswerDO[c] : c \in Coils} \cup {AnswerDI[c] : c \in Coils}
            \cup {AnswerAI[v] : v \in Values} \cup {EchoDO, Refusal, Beat}

\* What may arrive of a frame: the frame, or the frame with a bit flipped.
Flip(frame, k, b) ==
  [frame EXCEPT ![k] = IF Bit(@, b) = 1 THEN @ - Power2[b + 1] ELSE @ + Power2[b + 1]]

Damaged(frame)  == {Flip(frame, k, b) : k \in DOMAIN frame, b \in NoiseBits}
Arrivals(frame) == {frame} \cup Damaged(frame)

\* How long a frame is: its size field, and what the field does not count.
FrameSizeShort(head) == IF head[2] \in 1 .. 4 THEN head[3] + 4 ELSE 8
FrameSize(head) ==
  IF head[2] \in 1 .. 4 THEN head[3] + 5 ELSE IF head[2] = 100 THEN 4 ELSE 8

HeadSize == 4

\* The checksum fits its two bytes and comes out as 0 for a frame that ends
\* with it; it tells a flipped bit, and a refusal together with the bytes of
\* the next frame up to the size of 8 that is read for it.
ASSUME CRC16Assumption ==
  /\ \A f \in Frames : f \in Seq(Byte) /\ CRC16(f) = 0
  /\ \A f \in Frames : \A g \in Damaged(f) : CRC16(g) # 0
  /\ \A r \in Arrivals(Refusal), f \in Frames : \A g \in Arrivals(f) :
       CRC16(r \o SubSeq(g, 1, 3)) # 0

-----------------------------------------------------------------------------
VARIABLES
  wire,        \* every byte that has arrived
  taken,       \* how many of them recv has returned
  start,       \* where the frame in buf_recv begins
  pc,          \* the thread: position, or how the link ended
  over_count,  \* polls of the L_recv under way
  m_DO, m_DI, m_AI,  \* readings
  sent,        \* history: the frames as the device sent them
  arrived,     \* history: the same as they arrived
  ends,        \* history: where each of them ends in wire
  accepted     \* history: the frames the thread accepted

line     == <<wire, sent, arrived, ends>>
readings == <<m_DO, m_DI, m_AI>>
vars     == <<line, taken, start, pc, over_count, readings, accepted>>

Init ==
  /\ wire = <<>> /\ taken = 0 /\ start = 0
  /\ pc = "select" /\ over_count = 0
  /\ m_DO = {} /\ m_DI = {} /\ m_AI = [i \in 1 .. NUM_AI |-> 0]
  /\ sent = <<>> /\ arrived = <<>> /\ ends = <<>> /\ accepted = <<>>

\* Bound: noise flips one bit in all.
noisy == arrived # sent

Send ==
  /\ Len(sent) < MaxFrames
  /\ \E frame \in Frames : \E arrival \in Arrivals(frame) :
       /\ noisy => arrival = frame
       /\ sent' = Append(sent, frame) /\ arrived' = Append(arrived, arrival)
       /\ wire' = wire \o arrival /\ ends' = Append(ends, Len(wire'))
  /\ UNCHANGED <<taken, start, pc, over_count, readings, accepted>>

-----------------------------------------------------------------------------
(***************************************************************************)
(* L_recv: position "head" reads the first 4 bytes, "body" the rest.       *)
(***************************************************************************)
buf_recv == SubSeq(wire, start + 1, taken)

Wanted ==
  IF pc = "head" THEN start + HeadSize - taken
  ELSE start + FrameSize(buf_recv) - taken

Reading == pc \in {"head", "body"}

\* recv returns what of it has arrived.
Recv ==
  /\ Reading /\ taken < Len(wire)
  /\ \E n \in 1 .. Wanted : taken + n <= Len(wire) /\ taken' = taken + n
  /\ UNCHANGED <<line, start, pc, over_count, readings, accepted>>

\* WSAEWOULDBLOCK: nothing has.  The polls of all the pieces are counted;
\* when they are used up the part is incomplete.
OneMorePollForgotten == over_count
OneMorePoll == over_count + 1

PollsUsedUp == over_count' >= TimeOut

RecvNothing ==
  /\ Reading /\ Wanted > 0
  /\ over_count' = OneMorePoll
  /\ pc' = IF PollsUsedUp THEN "incomplete" ELSE pc
  /\ UNCHANGED <<line, taken, start, readings, accepted>>

\* The device has closed the connection, or recv fails.
RecvFails ==
  /\ Reading /\ Wanted > 0
  /\ pc' = "broken"
  /\ UNCHANGED <<line, taken, start, over_count, readings, accepted>>

-----------------------------------------------------------------------------
(***************************************************************************)
(* The frame.                                                              *)
(***************************************************************************)
\* select says that there is something to read.
SelectReady ==
  /\ pc = "select" /\ taken < Len(wire)
  /\ pc' = "head" /\ start' = taken /\ over_count' = 0
  /\ UNCHANGED <<line, taken, readings, accepted>>

HeadRead ==
  /\ pc = "head" /\ Wanted = 0
  /\ pc' = "body" /\ over_count' = 0
  /\ UNCHANGED <<line, taken, start, readings, accepted>>

\* A heartbeat is taken without looking at its checksum.
ChecksumWrongNever(frame) == FALSE
ChecksumWrong(frame) == frame[2] # 100 /\ CRC16(frame) # 0

\* Byte 3 of an answer holds the relays or inputs, the lowest bit the first one; two
\* bytes, the high one first, hold each analog value.
CoilsOf(frame) == {i \in 0 .. NUM_DO - 1 : Bit(frame[4], i) = 1}
LowByteFirst(hi, lo) == lo * 256 + hi
HighByteFirst(hi, lo) == hi * 256 + lo
ValuesOf(frame) ==
  LET byte(k) == IF k <= Len(frame) THEN frame[k] ELSE 0   \* memset
  IN [i \in 1 .. NUM_AI |-> HighByteFirst(byte(2 + 2 * i), byte(3 + 2 * i))]

Accept(frame) ==
  /\ accepted' = Append(accepted, frame)
  /\ m_DO' = IF frame[2] = 1 THEN CoilsOf(frame) ELSE m_DO
  /\ m_DI' = IF frame[2] = 2 THEN CoilsOf(frame) ELSE m_DI
  /\ m_AI' = IF frame[2] = 4 THEN ValuesOf(frame) ELSE m_AI
  /\ pc' = "select"

FrameRead ==
  /\ pc = "body" /\ Wanted = 0
  /\ IF ChecksumWrong(buf_recv)
     THEN pc' = "wrong" /\ UNCHANGED <<readings, accepted>>
     ELSE Accept(buf_recv)
  /\ UNCHANGED <<line, taken, start, over_count>>

Reader == SelectReady \/ Recv \/ RecvNothing \/ HeadRead \/ FrameRead

Next == Send \/ Reader \/ RecvFails

Spec == Init /\ [][Next]_vars

\* The thread runs; nothing has to be sent, and nothing has to arrive.
FairSpec == Spec /\ WF_vars(Reader)

-----------------------------------------------------------------------------
(***************************************************************************)
(* Properties.                                                             *)
(***************************************************************************)
\* L_recv takes no byte that has not arrived and polls no more often than it
\* may, whatever is on the wire the readings are readings.
TypeOK ==
  /\ wire \in Seq(Byte)
  /\ start \in Nat /\ taken \in start .. Len(wire)
  /\ pc \in {"select", "head", "body", "incomplete", "broken", "wrong"}
  /\ over_count \in 0 .. TimeOut
  /\ m_DO \subseteq 0 .. NUM_DO - 1 /\ m_DI \subseteq 0 .. NUM_DI - 1
  /\ m_AI \in [1 .. NUM_AI -> Short]
  /\ sent \in Seq(Frames) /\ arrived \in Seq(Seq(Byte)) /\ ends \in Seq(Nat)
  /\ accepted \in Seq(Seq(Byte))

\* Where frames end.
Boundaries == {0} \cup {ends[k] : k \in DOMAIN ends}

\* Where frame k begins in wire.
Begin(k) == IF k = 1 THEN 0 ELSE ends[k - 1]

\* What arrived still says which frame it is and how long.
SameHead(frame, arrival) ==
  arrival[2] = frame[2] /\ FrameSize(arrival) = FrameSize(frame)

\* What is cut off for frame k, once enough has arrived.
CutAt(k) == SubSeq(wire, Begin(k) + 1, Begin(k) + FrameSize(arrived[k]))

\* Either noise has left a frame its function code and its size, or the
\* checksum of what is cut off in its place shows it.  That is a matter of
\* the bytes that follow, which the link does not bound: a checksum of 16
\* bits cannot promise it.
HeadsTold ==
  \A k \in DOMAIN sent :
    \/ SameHead(sent[k], arrived[k])
    \/ Begin(k) + FrameSize(arrived[k]) <= Len(wire) => ChecksumWrong(CutAt(k))

\* However the bytes arrive and whatever bit is flipped, the link ends or
\* the thread waits for the next frame exactly where one begins.
OnBoundary == pc = "select" => taken \in Boundaries

\* What is accepted is what the device sent, in that order and complete.
\* Only a heartbeat may have been changed on the way.
AcceptedWereSent ==
  \A i \in DOMAIN accepted :
     \/ accepted[i] = sent[i]
     \/ accepted[i][2] = 100 /\ sent[i][2] = 100

LastAnswer(code) ==
  LET S == {i \in DOMAIN accepted : accepted[i][2] = code}
  IN IF S = {} THEN 0 ELSE CHOOSE i \in S : \A j \in S : j <= i

\* The readings are those of the last answers, as the device had them.
ReadingsAreAnswers ==
  LET do == LastAnswer(1)
      di == LastAnswer(2)
      ai == LastAnswer(4)
  IN /\ do # 0 => \E c \in Coils : sent[do] = AnswerDO[c] /\ m_DO = c
     /\ di # 0 => \E c \in Coils : sent[di] = AnswerDI[c] /\ m_DI = c
     /\ ai # 0 => \E v \in Values : sent[ai] = AnswerAI[v] /\ m_AI = v

\* A link only ends with a wrong checksum if a bit was flipped or the device
\* refused an order, which is read as a frame of 8 bytes.
WrongForACause ==
  pc = "wrong" => noisy \/ \E i \in DOMAIN sent : sent[i] = Refusal

\* Neither part of a frame keeps the thread, and with it m_lock_sock, for
\* ever when the rest does not come.
ReadEnds == Reading ~> ~Reading
=============================================================================
