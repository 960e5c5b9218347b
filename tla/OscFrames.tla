----------------------------- MODULE OscFrames -----------------------------
(***************************************************************************)
(* The byte stream of the parser (class OSCStream): frames with a header   *)
(* of four bytes, as in OSC 1.0, or between SLIP delimiters, as in OSC     *)
(* 1.1.  A stream is its bytes (m_Buf and m_Size) and its m_Capacity; that *)
(* m_Buf is null is a capacity of zero.                                    *)
(***************************************************************************)
EXTENDS OscArgument

CONSTANTS
  MaxFrameSize,         \* MAX_FRAME_SIZE
  MaxBufSize            \* MAX_BUF_SIZE

ASSUME FrameSizesAssumption == MaxFrameSize \in Nat /\ MaxBufSize \in Nat

FrameMode == {"FRAME_MODE_1_0", "FRAME_MODE_1_1"}

HeaderSize == 4

END     == 192
ESC     == 219
ESC_END == 220
ESC_ESC == 221

NoFrame == <<>>

----------------------------------------------------------------------------
(* CreateFrame *)

\* Mutant of Escaped: an escape byte of the packet is left as it is.
EscapedEndOnly(byte) == IF byte = END THEN <<ESC, ESC_END>> ELSE <<byte>>

Escaped(byte) ==
  CASE byte = END -> <<ESC, ESC_END>>
    [] byte = ESC -> <<ESC, ESC_ESC>>
    [] OTHER      -> <<byte>>

Escapes(packet) == FlattenSeq([i \in DOMAIN packet |-> Escaped(packet[i])])

CreateFrame(mode, packet) ==
  IF Len(packet) \notin 1..MaxFrameSize THEN NoFrame
  ELSE IF mode = "FRAME_MODE_1_0" THEN BigEndian(Len(packet)) \o packet
  ELSE <<END>> \o Escapes(packet) \o <<END>>

----------------------------------------------------------------------------
(* The receiving side. *)

NewStream == [buf |-> <<>>, capacity |-> 0]

GrowMultiplier == 3

\* Three times what the bytes need, when they do not fit.
GrownCapacity(stream, size) ==
  LET avail == stream.capacity - Len(stream.buf)
  IN  IF stream.capacity = 0 THEN GrowMultiplier * size
      ELSE IF avail < size THEN GrowMultiplier * (stream.capacity + size - avail)
      ELSE stream.capacity

\* Mutant of Overflows: the limit of a frame.
OverflowsFrame(stream, size) == size > 0 /\ GrownCapacity(stream, size) > MaxFrameSize

Overflows(stream, size) == size > 0 /\ GrownCapacity(stream, size) > MaxBufSize

\* Mutant of Add: a refused chunk leaves the grown capacity behind.
AddKeepingCapacity(stream, bytes) ==
  LET size == Len(bytes)
  IN  IF bytes = <<>> THEN stream
      ELSE IF Overflows(stream, size) THEN [stream EXCEPT !.capacity = GrownCapacity(stream, size)]
      ELSE [buf |-> stream.buf \o bytes, capacity |-> GrownCapacity(stream, size)]

\* A stream that would grow beyond MAX_BUF_SIZE is cleared, and the new bytes are dropped.
Add(stream, bytes) ==
  LET size == Len(bytes)
  IN  IF bytes = <<>> THEN stream
      ELSE IF Overflows(stream, size) THEN NewStream
      ELSE [buf |-> stream.buf \o bytes, capacity |-> GrownCapacity(stream, size)]

\* Chop; Reset drops everything.
Chop(stream, size) == [stream EXCEPT !.buf = From(@, size)]

Got(stream, frame) == [stream |-> stream, frame |-> frame]

\* Mutant of Available: waits for a byte of the next frame.
AvailableAndMore(stream, size) == Len(stream.buf) > size

Available(stream, size) == Len(stream.buf) >= size

(***************************************************************************)
(* GetNextFrame_Mode_1_0.  A header of zero or less is skipped, and no     *)
(* frame is returned even if one is there; one beyond MAX_FRAME_SIZE stays *)
(* until the stream overflows.                                             *)
(***************************************************************************)
GetNextFrame_1_0(stream) ==
  LET size  == Int32(stream.buf)
      total == HeaderSize + size
  IN  IF ~Available(stream, HeaderSize) THEN Got(stream, NoFrame)
      ELSE IF size <= 0 THEN Got(Chop(stream, HeaderSize), NoFrame)
      ELSE IF size <= MaxFrameSize /\ Available(stream, total)
      THEN Got(Chop(stream, total), SubSeq(stream.buf, HeaderSize + 1, total))
      ELSE Got(stream, NoFrame)

Restored(byte) ==
  CASE byte = ESC_END -> END
    [] byte = ESC_ESC -> ESC
    [] OTHER          -> byte

\* Mutant of Unescape: the byte behind an escape is not looked at.
UnescapeBlindly(got, byte) ==
  [bytes   |-> IF got.escaped THEN Append(got.bytes, END) ELSE IF byte = ESC THEN got.bytes ELSE Append(got.bytes, byte),
   escaped |-> ~got.escaped /\ byte = ESC,
   size    |-> IF byte = ESC THEN got.size ELSE got.size + 1]

Unescape(got, byte) ==
  [bytes   |-> IF got.escaped THEN Append(got.bytes, Restored(byte))
               ELSE IF byte = ESC THEN got.bytes
               ELSE Append(got.bytes, byte),
   escaped |-> ~got.escaped /\ byte = ESC,
   size    |-> IF byte = ESC THEN got.size ELSE got.size + 1]

\* What is between two delimiters, decoded.  It gets as many bytes as are no escapes.
Unescaped(bytes) ==
  LET got[i \in 0..Len(bytes)] ==
        IF i = 0 THEN [bytes |-> <<>>, escaped |-> FALSE, size |-> 0] ELSE Unescape(got[i - 1], bytes[i])
  IN  UpTo(got[Len(bytes)].bytes, got[Len(bytes)].size)

\* A frame begins at the first byte that is no delimiter.
FrameStarts(buf) == {i \in DOMAIN buf : buf[i] # END}

\* GetNextFrame_Mode_1_1: up to the next delimiter; a stream of delimiters is reset.
GetNextFrame_1_1(stream) ==
  LET starts == FrameStarts(stream.buf)
      start  == Min(starts)
      ends   == {i \in DOMAIN stream.buf : i > start /\ stream.buf[i] = END}
      end    == Min(ends)
  IN  IF starts = {} THEN Got([stream EXCEPT !.buf = <<>>], NoFrame)
      ELSE IF ends = {} THEN Got(stream, NoFrame)
      ELSE Got(Chop(stream, end), Unescaped(SubSeq(stream.buf, start, end - 1)))

GetNextFrame(mode, stream) ==
  IF mode = "FRAME_MODE_1_0" THEN GetNextFrame_1_0(stream) ELSE GetNextFrame_1_1(stream)
=============================================================================
