------------------------------ MODULE OscPipe ------------------------------
(***************************************************************************)
(* OSC messages from one program to another with the classes of the        *)
(* parser: a writer makes packets, OSCStream frames them, the bytes arrive *)
(* in chunks, OSCStream finds the frames again, and OSCParser calls the    *)
(* methods of a tree.  The reader may be slow: several chunks may arrive   *)
(* before it asks for the next frame, until the stream overflows.          *)
(***************************************************************************)
EXTENDS OscFrames, OscMethod

CONSTANTS
  Programs,             \* what the sender may be going to send, a sequence of inputs
  Methods,              \* the tree of the receiver
  ChunkSizes,           \* how many bytes may arrive at once
  Uninitialized         \* what bytes may be in memory that is not written

ASSUME PipeAssumption ==
  /\ ChunkSizes \subseteq Nat \ {0} /\ ChunkSizes # {} /\ IsFiniteSet(ChunkSizes)
  /\ Uninitialized \subseteq Byte

VARIABLES
  mode,                 \* m_FrameMode of both sides
  todo,                 \* the inputs still to be sent
  sent,                 \* history: what has been sent, each input with its packets
  wire,                 \* bytes sent and not yet arrived
  stream,               \* the receiver's OSCStream
  received,             \* history: the frames the receiver got
  handled,              \* history: what became of each of them
  overflows,            \* history: how often the stream was cleared
  late                  \* history: bytes arrived when a whole frame was waiting

history == <<received, handled, overflows, late>>
vars == <<mode, todo, sent, wire, stream, history>>

----------------------------------------------------------------------------

\* The writers of an input: of its messages, or of the packets a long message is split into.
Writers(input) ==
  IF input.kind = "list" THEN CreateList(Writer(input.messages[1]), input.limit)
  ELSE [i \in DOMAIN input.messages |-> Writer(input.messages[i])]

\* What is given to CreateFrame: a bundle, the packet of a line of text, or one packet per writer.
Packets(input, uninitialized) ==
  CASE input.kind = "bundle" -> <<CreateBundle(Writers(input), uninitialized)>>
    [] input.kind = "text"   -> <<CreateForString(input.text, uninitialized)>>
    [] OTHER                 -> [i \in DOMAIN Writers(input) |-> Create(Writers(input)[i], uninitialized)]

Frames(frameMode, packets) == [i \in DOMAIN packets |-> CreateFrame(frameMode, packets[i])]

Inputs == UNION {Range(program) : program \in Programs}

\* What the sender is given makes packets of bytes.
ASSUME InputsAssumption ==
  /\ Programs \subseteq Seq(Inputs)
  /\ \A input \in Inputs, u \in Uninitialized : Packets(input, u) \in Seq(Seq(Byte))

\* An input with a packet that is too long for a frame, or that is no packet, is not sent.
Send ==
  /\ todo # <<>>
  /\ todo' = Tail(todo)
  /\ \E u \in Uninitialized :
       LET packets == Packets(Head(todo), u)
       IN  IF \E i \in DOMAIN packets : Frames(mode, packets)[i] = NoFrame
           THEN UNCHANGED <<sent, wire>>
           ELSE /\ sent' = Append(sent, [input |-> Head(todo), packets |-> packets])
                /\ wire' = wire \o FlattenSeq(Frames(mode, packets))
  /\ UNCHANGED <<mode, stream, history>>

Waiting == GetNextFrame(mode, stream).frame # NoFrame

\* The next n bytes arrive and are added to the stream.
Arrive(n) ==
  /\ wire # <<>>
  /\ LET chunk == UpTo(wire, n)
     IN  /\ stream' = Add(stream, chunk)
         /\ overflows' = overflows + (IF Overflows(stream, Len(chunk)) THEN 1 ELSE 0)
  /\ wire' = From(wire, n)
  /\ late' = (late \/ Waiting)
  /\ UNCHANGED <<mode, todo, sent, received, handled>>

\* The receiver asks for the next frame, and processes it if there is one.
Read ==
  LET got == GetNextFrame(mode, stream)
  IN  /\ stream' = got.stream
      /\ IF got.frame = NoFrame THEN UNCHANGED <<received, handled>>
         ELSE /\ received' = Append(received, got.frame)
              /\ handled' = Append(handled, ProcessPacket(Methods, got.frame))
      /\ UNCHANGED <<mode, todo, sent, wire, overflows, late>>

Init ==
  /\ mode \in FrameMode
  /\ todo \in Programs
  /\ sent = <<>> /\ wire = <<>> /\ stream = NewStream
  /\ received = <<>> /\ handled = <<>> /\ overflows = 0 /\ late = FALSE

Next == Send \/ (\E n \in ChunkSizes : Arrive(n)) \/ Read

Spec == Init /\ [][Next]_vars

----------------------------------------------------------------------------
(* What the receiver should get. *)

SentPackets == FlattenSeq([i \in DOMAIN sent |-> sent[i].packets])

\* The names of a path.
Names(path) ==
  LET cuts == {i \in 1..(Len(path) + 1) : i = Len(path) + 1 \/ path[i] = SEPARATOR}
      begin(cut) == 1 + Max({0} \cup {i \in cuts : i < cut})
  IN  SelectSeq([n \in 1..Cardinality(cuts) |->
                   LET cut == SetToSortSeq(cuts, <)[n] IN SubSeq(path, begin(cut), cut - 1)],
                LAMBDA name : name # <<>>)

\* The method of a path: names the tree does not have in their place are passed over.
Destination(path) ==
  FoldLeft(LAMBDA method, name : IF Append(method, name) \in Methods THEN Append(method, name) ELSE method,
           Root, Names(path))

\* The arguments a message was given.  AddChar is AddInt32 of the character.
Added(message) ==
  [i \in DOMAIN message.args |->
     [message.args[i] EXCEPT !.type = IF @ = "CHAR" THEN "INT32" ELSE @]]

Decoded(buf) ==
  LET args == GetArgs(buf)
  IN  [i \in DOMAIN args |-> [type |-> args[i].type, value |-> ArgumentValue(args[i])]]

CallFor(message) == [method |-> Destination(message.path), args |-> Added(message)]

CallForPacket(packet) == [method |-> Destination(CString(packet)), args |-> Decoded(packet)]

\* For each packet of an input, the calls it should lead to.
ExpectedCalls(entry) ==
  IF entry.input.kind = "list"
  THEN [i \in DOMAIN entry.packets |-> <<CallForPacket(entry.packets[i])>>]
  ELSE <<[i \in DOMAIN entry.input.messages |-> CallFor(entry.input.messages[i])]>>

\* The calls that end a path, with the arguments the method finds.
SeenCalls(calls) ==
  LET ended == SelectSeq(calls, LAMBDA call : call.last)
  IN  [i \in DOMAIN ended |-> [method |-> ended[i].method, args |-> Decoded(ended[i].buf)]]

----------------------------------------------------------------------------
(***************************************************************************)
(* The stream never holds more than it has room for, and never more room   *)
(* than MAX_BUF_SIZE, whatever arrives however fast.                       *)
(***************************************************************************)
StreamBounded ==
  /\ Len(stream.buf) <= stream.capacity
  /\ stream.capacity <= MaxBufSize

(***************************************************************************)
(* While no byte has been dropped the frames are the packets that were     *)
(* sent, in that order, in both modes, wherever the bytes were cut and     *)
(* whatever bytes the packets have, delimiters and escapes included.       *)
(***************************************************************************)
FramesInOrder == overflows = 0 => IsPrefix(received, SentPackets)

(***************************************************************************)
(* A receiver that has all bytes and gets no more frames has every packet, *)
(* and its stream is empty: nothing waits for bytes that never come.       *)
(***************************************************************************)
NothingHeldBack ==
  wire = <<>> /\ overflows = 0 /\ ~Waiting
    => received = SentPackets /\ FrameStarts(stream.buf) = {}

\* What there may be of a packet when the first bytes of its frame were dropped: its end.
Remnants(packet) ==
  LET escapes == Escapes(packet) IN {Unescaped(From(escapes, n)) : n \in 1..(Len(escapes) - 1)}

(***************************************************************************)
(* SLIP finds its way back: every time the stream is cleared costs the     *)
(* packets that were in it and at most one damaged frame, the end of the   *)
(* packet that was cut.  The others are packets that were sent, in order.  *)
(* A place of 0 is that of a damaged frame.                                *)
(***************************************************************************)
Salvaged(frames, packets, cuts) ==
  \E place \in [DOMAIN frames -> 0..Len(packets)] :
    LET damaged == {i \in DOMAIN frames : place[i] = 0}
        whole   == DOMAIN frames \ damaged
    IN  /\ Cardinality(damaged) <= cuts
        /\ \A i, j \in whole : i < j => place[i] < place[j]
        /\ \A i \in whole : frames[i] = packets[place[i]]
        /\ \A i \in damaged : \E packet \in Range(packets) : frames[i] \in Remnants(packet)

Resynchronizes == mode = "FRAME_MODE_1_1" => Salvaged(received, SentPackets, overflows)

(***************************************************************************)
(* A receiver that takes every frame before it adds more loses nothing, if *)
(* three times a frame that lacks a byte and a chunk fit the stream.       *)
(***************************************************************************)
LongestFrame == Max({0} \cup {Len(CreateFrame(mode, packet)) : packet \in Range(SentPackets)})

OverflowOnlyWhenLate ==
  overflows > 0 /\ ~late => GrowMultiplier * (LongestFrame - 1 + Max(ChunkSizes)) > MaxBufSize

(***************************************************************************)
(* Every message is handled once, by the method of its path, and its       *)
(* arguments are what was added, types and values, or what the text says   *)
(* by the rules of CreatePacketWriterForString; the elements of a bundle   *)
(* are handled one after the other, all of them.                           *)
(***************************************************************************)
HandledAsSent ==
  overflows = 0 =>
    LET expected == FlattenSeq([i \in DOMAIN sent |-> ExpectedCalls(sent[i])])
    IN  \A i \in DOMAIN handled : handled[i].ok /\ SeenCalls(handled[i].calls) = expected[i]

(***************************************************************************)
(* The packets of a list have all arguments of the long packet, in order.  *)
(* The path of each tells how many went before it and how many there are   *)
(* in all, and a packet is too long only if it has a single argument.      *)
(***************************************************************************)
ListsReassemble ==
  \A i \in DOMAIN sent : sent[i].input.kind = "list" =>
    LET message == sent[i].input.messages[1]
        packets == sent[i].packets
        before(k) == FlattenSeq([j \in 1..(k - 1) |-> Decoded(packets[j])])
    IN  /\ before(Len(packets) + 1) = Added(message)
        /\ \A k \in DOMAIN packets :
             /\ CString(packets[k]) = MakeListPath(Len(before(k)), Len(message.args), message.path)
             /\ Len(packets[k]) <= sent[i].input.limit \/ Len(Decoded(packets[k])) = 1
=============================================================================
