----------------------------- MODULE OscStream -----------------------------
(***************************************************************************)
(* OSC packets over a TCP byte stream (class EosOsc): the sending half of  *)
(* one EosOsc, the bytes on their way, and the receiving half of another.  *)
(* A frame is the length of a packet, big-endian, and the packet.  TCP may *)
(* hand over the bytes in any pieces, and a failing send may leave a part  *)
(* of a frame on the wire.  A peer that is no EosOsc may put a header on   *)
(* the wire that announces no packet at all.                               *)
(***************************************************************************)
EXTENDS Integers, SequencesExt, FiniteSetsExt

CONSTANTS
  Base,                 \* the number of values of a byte (256)
  HeaderSize,           \* sizeof(int32_t)
  Packets,              \* the packets that may be sent
  EmptyHeaders,         \* headers of a peer that announce zero bytes, or fewer
  RecvBufSize,          \* RECV_BUF_SIZE, what one recv() returns at most
  MaxPackets            \* bound: how many packets are sent

Byte == 0..(Base - 1)

ASSUME SizesAssumption == {Base, HeaderSize, RecvBufSize} \subseteq Nat \ {0} /\ MaxPackets \in Nat

VARIABLES
  queue,                \* the sender's m_Q
  sendPacket,           \* the sender's m_SendPacket, kept between packets
  up,                   \* the sender's connection is CONNECT_CONNECTED
  wire,                 \* bytes sent and not yet received
  inputBuffer,          \* the receiver's m_InputBuffer
  written,              \* history: the packets whose frames were sent whole
  delivered,            \* history: the commands the receiver has queued
  malformed             \* history: a header without a packet was sent

senderVars == <<queue, sendPacket, up>>
vars == <<senderVars, wire, inputBuffer, written, delivered, malformed>>

----------------------------------------------------------------------------
(* Frames. *)

\* Swap32: the first byte counts most.
BigEndian(bytes) ==
  LET n[i \in 0..Len(bytes)] == IF i = 0 THEN 0 ELSE n[i - 1] * Base + bytes[i]
  IN  n[Len(bytes)]

\* int32_t: the upper half of the values is negative.
Negative(bytes) == 2 * bytes[1] >= Base

\* n without its last digits, for 0 to HeaderSize of them.
Shifted(n) ==
  LET rest[i \in 0..HeaderSize] == IF i = 0 THEN n ELSE rest[i - 1] \div Base
  IN  rest

Header(size) == [i \in 1..HeaderSize |-> Shifted(size)[HeaderSize - i] % Base]

Frame(packet) == Header(Len(packet)) \o packet

OscPacketLen(buffer) ==
  LET header == SubSeq(buffer, 1, HeaderSize)
  IN  IF Negative(header) THEN 0 ELSE BigEndian(header)

TotalSize(buffer) == HeaderSize + OscPacketLen(buffer)

\* Mutant of HasPacket: waits for one more byte.
HasPacketAndMore(buffer) ==
  /\ Len(buffer) >= HeaderSize
  /\ OscPacketLen(buffer) > 0
  /\ Len(buffer) > TotalSize(buffer)

HasPacket(buffer) ==
  /\ Len(buffer) >= HeaderSize
  /\ OscPacketLen(buffer) > 0
  /\ Len(buffer) >= TotalSize(buffer)

\* Mutant of ShiftAway: memcpy copies from the top, over bytes still to be copied.
ShiftAwayFromTop(buffer, n) ==
  LET size == Len(buffer) - n
      moved[i \in 1..size] == IF i + n <= size THEN moved[i + n] ELSE buffer[i + n]
  IN  [i \in 1..size |-> moved[i]]

(***************************************************************************)
(* The rest of the buffer moves to its beginning.  The code uses memcpy on *)
(* regions that overlap when the rest is longer than the frame.  memcpy is *)
(* memmove in the C libraries of the platforms it is built for, macOS and  *)
(* Windows, so the bytes arrive unharmed.                                  *)
(***************************************************************************)
ShiftAway(buffer, n) == SubSeq(buffer, n + 1, Len(buffer))

\* The packets the loop of Recv has taken out, and the bytes that remain.
Run == [packets : Seq(Seq(Byte)), rest : Seq(Byte)]

\* One round: the packet at the head of the buffer, if it is there.
ExtractNext[run \in Run] ==
  LET size == TotalSize(run.rest)
  IN  IF HasPacket(run.rest)
      THEN [packets |-> Append(run.packets, SubSeq(run.rest, HeaderSize + 1, size)),
            rest    |-> ShiftAway(run.rest, size)]
      ELSE run

\* Mutant of Extract: takes one packet per call.
ExtractOne(buffer) == ExtractNext[[packets |-> <<>>, rest |-> buffer]]

\* The loop of Recv: no more rounds than there are bytes.
Extract(buffer) ==
  LET run[i \in 0..Len(buffer)] ==
        IF i = 0 THEN [packets |-> <<>>, rest |-> buffer] ELSE ExtractNext[run[i - 1]]
  IN  run[Len(buffer)]

\* Mutant of CapacityFor: never uses the room left.
CapacityOnTop(capacity, required) == capacity + required

\* The buffer grows to what is required, and never shrinks.
CapacityFor(capacity, required) == IF capacity < required THEN required ELSE capacity

(***************************************************************************)
(* OSCPacketWriter never makes an empty packet, and the length of one is a *)
(* positive int32_t: its first digit is in the lower half.                 *)
(***************************************************************************)
ASSUME PacketsAssumption ==
  /\ Packets # {} /\ IsFiniteSet(Packets)
  /\ \A p \in Packets : /\ p \in Seq(Byte) /\ p # <<>>
                         /\ 2 * Shifted(Len(p))[HeaderSize - 1] < Base
ASSUME EmptyHeadersAssumption ==
  \A h \in EmptyHeaders : h \in Seq(Byte) /\ Len(h) = HeaderSize /\ OscPacketLen(h) = 0

----------------------------------------------------------------------------
\* m_SendPacket with a frame at its beginning: allocated anew only when too small.
Overwritten(buffer, frame) ==
  IF Len(buffer) < Len(frame) THEN frame
  ELSE frame \o SubSeq(buffer, Len(frame) + 1, Len(buffer))

\* SendPacket: n bytes of the frame get into the stream; if not all, the connection is given up.
SendPacket(packet, n) ==
  LET size == HeaderSize + Len(packet)
  IN  /\ n <= size
      /\ sendPacket' = Overwritten(sendPacket, Frame(packet))
      /\ wire' = wire \o SubSeq(sendPacket', 1, n)
      /\ up' = (n = size)
      /\ written' = IF n = size THEN Append(written, packet) ELSE written

Prepared == Len(written) + Len(queue)

\* EosOsc::Send, queued.
Send(packet) ==
  /\ up /\ Prepared < MaxPackets
  /\ queue' = Append(queue, packet)
  /\ UNCHANGED <<sendPacket, up, wire, inputBuffer, written, delivered, malformed>>

\* EosOsc::Send, immediate: overtakes the queue.
SendImmediate(packet, n) ==
  /\ up /\ Prepared < MaxPackets
  /\ SendPacket(packet, n)
  /\ UNCHANGED <<queue, inputBuffer, delivered, malformed>>

\* EosOsc::Tick: one packet leaves the queue, sent or not.
Tick(n) ==
  /\ up /\ queue # <<>>
  /\ SendPacket(Head(queue), n)
  /\ queue' = Tail(queue)
  /\ UNCHANGED <<inputBuffer, delivered, malformed>>

\* A peer that frames its packets in another way announces an empty packet.
PeerSendsEmpty(header) ==
  /\ up /\ ~malformed
  /\ wire' = wire \o header
  /\ malformed' = TRUE
  /\ UNCHANGED <<senderVars, inputBuffer, written, delivered>>

\* EosOsc::Recv: the next n bytes arrive.
Recv(n) ==
  LET arrived == inputBuffer.data \o SubSeq(wire, 1, n)
      result  == Extract(arrived)
  IN  /\ wire' = SubSeq(wire, n + 1, Len(wire))
      /\ inputBuffer' = [data     |-> result.rest,
                         capacity |-> CapacityFor(inputBuffer.capacity, Len(arrived))]
      /\ delivered' = delivered \o result.packets
      /\ UNCHANGED <<senderVars, written, malformed>>

RecvSome == \E n \in 1..Min({RecvBufSize, Len(wire)}) : Recv(n)

Init ==
  /\ queue = <<>> /\ sendPacket = <<>> /\ up = TRUE
  /\ wire = <<>>
  /\ inputBuffer = [data |-> <<>>, capacity |-> 0]
  /\ written = <<>> /\ delivered = <<>> /\ malformed = FALSE

SentBytes(packet) == 0..(HeaderSize + Len(packet))

TickSome == \E n \in SentBytes(Head(queue)) : Tick(n)

Next ==
  \/ \E p \in Packets : Send(p)
  \/ \E p \in Packets : \E n \in SentBytes(p) : SendImmediate(p, n)
  \/ queue # <<>> /\ TickSome
  \/ \E h \in EmptyHeaders : PeerSendsEmpty(h)
  \/ RecvSome

\* The application keeps calling Tick, which sends and receives (main.cpp:90-136).
Spec == Init /\ [][Next]_vars /\ WF_vars(queue # <<>> /\ TickSome) /\ WF_vars(RecvSome)

----------------------------------------------------------------------------
(***************************************************************************)
(* Commands are the packets that were sent, in that order, none invented,  *)
(* merged, cut or repeated, wherever the stream was cut, whatever frames   *)
(* the send buffer held before, and even behind a frame that is broken off *)
(* or a header that announces no packet.                                   *)
(***************************************************************************)
DeliveredInOrder == IsPrefix(delivered, written)

(***************************************************************************)
(* When every byte has been received, every packet that was sent whole has *)
(* been delivered: the receiver holds no complete packet back until more   *)
(* bytes come, which might never happen.                                   *)
(***************************************************************************)
NothingHeldBack == wire = <<>> /\ ~malformed => delivered = written

(***************************************************************************)
(* The input buffer never needs more room than a frame that lacks a byte   *)
(* and one recv(), however many packets pass through it.                   *)
(***************************************************************************)
LongestFrame == HeaderSize + Max({Len(p) : p \in Packets})

BufferBounded == ~malformed => inputBuffer.capacity < LongestFrame + RecvBufSize

(***************************************************************************)
(* As long as the connection holds, everything queued is sent and          *)
(* delivered in the end.                                                   *)
(***************************************************************************)
EverythingArrives ==
  []<>(~up \/ malformed \/ (queue = <<>> /\ wire = <<>> /\ delivered = written))
=============================================================================
