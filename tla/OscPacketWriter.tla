-------------------------- MODULE OscPacketWriter --------------------------
(***************************************************************************)
(* Making OSC packets: OSCPacketWriter, which also splits a long packet    *)
(* into a list of short ones and reads a packet from a line of text, and   *)
(* OSCBundleWriter.  A writer is its path and its queue of arguments, m_Q. *)
(***************************************************************************)
EXTENDS OscArgument

SetString(str) ==
  LET size == Aligned(Len(str) + 1)
  IN  [type |-> "STRING", size |-> size, data |-> str \o Zeros(size - Len(str))]

\* AddInt32, AddInt64, AddRGBA, AddTrue...; AddChar adds an INT32.
ScalarInfo(type, words) ==
  [type |-> IF type = "CHAR" THEN "INT32" ELSE type, size |-> 4 * Len(words), data |-> words]

\* AddBlob: its size, and its bytes padded with zeros.
BlobInfo(data) ==
  LET payloadBytes == Aligned(Len(data))
  IN  [type |-> "BLOB", size |-> 4 + payloadBytes,
       data |-> BigEndian(Len(data)) \o data \o Zeros(payloadBytes - Len(data))]

ArgInfo(arg) ==
  CASE arg.type = "STRING" -> SetString(arg.value)
    [] arg.type = "BLOB"   -> BlobInfo(arg.value)
    [] OTHER               -> ScalarInfo(arg.type, arg.value)

Writer(message) == [path |-> message.path, q |-> [i \in DOMAIN message.args |-> ArgInfo(message.args[i])]]

----------------------------------------------------------------------------

Total(sizes) ==
  LET sum[n \in 0..Len(sizes)] == IF n = 0 THEN 0 ELSE sum[n - 1] + sizes[n]
  IN  sum[Len(sizes)]

SizeOfArgs(q) == Total([i \in DOMAIN q |-> q[i].size])

\* The path, the type tags with their comma and terminator, and the arguments.
ComputeSize(writer) ==
  SetString(writer.path).size + Aligned(Len(writer.q) + 2) + SizeOfArgs(writer.q)

\* WriteArg has no case for RGBA32: the four bytes keep what was in memory.
WriteArg(info, uninitialized) ==
  CASE info.type \in {"STRING", "BLOB"} -> info.data
    [] info.type = "RGBA32"             -> [i \in 1..4 |-> uninitialized]
    [] OTHER                            -> FlattenSeq([i \in DOMAIN info.data |-> BigEndian(info.data[i])])

TypeTags(q) == <<COMMA>> \o [i \in DOMAIN q |-> TypeChar[q[i].type]]

WriteArgs(q, uninitialized) == FlattenSeq([i \in DOMAIN q |-> WriteArg(q[i], uninitialized)])

\* Write gives up, and Create returns no packet.
Failed == <<>>

Write(writer, size, uninitialized) ==
  LET written == SetString(writer.path).data \o SetString(TypeTags(writer.q)).data
                   \o WriteArgs(writer.q, uninitialized)
  IN  IF Len(written) <= size THEN written ELSE Failed

Padded(buf, size, uninitialized) == buf \o [i \in 1..(size - Len(buf)) |-> uninitialized]

\* Create: a buffer of ComputeSize() bytes that Write fills.
Create(writer, uninitialized) ==
  LET size == ComputeSize(writer)
      buf  == Write(writer, size, uninitialized)
  IN  IF buf = Failed THEN Failed ELSE Padded(buf, size, uninitialized)

----------------------------------------------------------------------------
(* CreateList *)

\* snprintf("%u").
Decimal(n) ==
  LET digits[k \in Nat] == IF k < 10 THEN <<48 + k>> ELSE digits[k \div 10] \o <<48 + (k % 10)>>
  IN  digits[n]

ListTag == <<108, 105, 115, 116>>      \* "list"

MakeListPath(index, total, path) ==
  path \o <<SEPARATOR>> \o ListTag \o <<SEPARATOR>> \o Decimal(index) \o <<SEPARATOR>> \o Decimal(total)

\* The packet in progress is finished and gets the index of its first argument.
CloseListPacket(list) ==
  IF list.q = <<>> THEN list
  ELSE [list EXCEPT !.packets = Append(@, [path |-> MakeListPath(list.index, list.total, list.path), q |-> list.q]),
                    !.index = @ + Len(list.q),
                    !.q = <<>>]

\* Mutant of FitsListPacket: forgets what the path of the list adds.
FitsPlainPacket(list, q, maxPacketBytes) ==
  ComputeSize([path |-> list.path, q |-> q]) <= maxPacketBytes

\* Room for the longest path is kept.
FitsListPacket(list, q, maxPacketBytes) ==
  ComputeSize([path |-> MakeListPath(list.total - 1, list.total, list.path), q |-> q]) <= maxPacketBytes

\* An argument that does not fit begins the next packet; one too big for any packet has its own.
AddToList(list, info, maxPacketBytes) ==
  LET fits  == FitsListPacket(list, Append(list.q, info), maxPacketBytes)
      into  == IF fits THEN list ELSE CloseListPacket(list)
      added == [into EXCEPT !.q = Append(@, info)]
  IN  IF FitsListPacket(added, added.q, maxPacketBytes) THEN added ELSE CloseListPacket(added)

CreateList(writer, maxPacketBytes) ==
  LET empty == [packets |-> <<>>, index |-> 0, q |-> <<>>, total |-> Len(writer.q), path |-> writer.path]
      list[n \in 0..Len(writer.q)] ==
        IF n = 0 THEN empty ELSE AddToList(list[n - 1], writer.q[n], maxPacketBytes)
  IN  IF writer.q = <<>>
      THEN <<[path |-> MakeListPath(0, 0, writer.path), q |-> <<>>]>>
      ELSE CloseListPacket(list[Len(writer.q)]).packets

----------------------------------------------------------------------------
(* CreatePacketWriterForString, for texts without a decimal point. *)

QUOTE == 34
EQUALS == 61
SPACE == 32

Digit == 48..57

\* IsIntString: spaces, a sign, digits, and anything behind a space.
IntToken(str) ==
  LET start == {i \in DOMAIN str : str[i] # SPACE}
      word  == IF start = {} THEN <<>> ELSE From(str, Min(start) - 1)
      stop  == {i \in DOMAIN word : word[i] = SPACE}
  IN  IF stop = {} THEN word ELSE SubSeq(word, 1, Min(stop) - 1)

Unsigned(token) == IF token # <<>> /\ token[1] \in {43, 45} THEN Tail(token) ELSE token

IsIntString(str) ==
  LET digits == Unsigned(IntToken(str))
  IN  digits # <<>> /\ \A i \in DOMAIN digits : digits[i] \in Digit

\* atoi, of a number that fits.
Atoi(str) ==
  LET token == IntToken(str)
      n     == FoldLeft(LAMBDA m, c : 10 * m + (c - 48), 0, Unsigned(token))
  IN  IF token[1] = 45 THEN -n ELSE n

\* Inside a quoted part: a doubled quote ends it and begins the next at once.
Quoted(str, i) == Cardinality({j \in 1..(i - 1) : str[j] = QUOTE}) % 2 = 1

\* Single quotes go, a doubled one becomes one.
Unquoted(field) ==
  LET copy(got, c) ==
        IF c # QUOTE THEN [text |-> Append(got.text, c), half |-> FALSE]
        ELSE IF got.half THEN [text |-> Append(got.text, QUOTE), half |-> FALSE]
        ELSE [got EXCEPT !.half = TRUE]
  IN  FoldLeft(copy, [text |-> <<>>, half |-> FALSE], field).text

FieldInfo(field) ==
  IF QUOTE \notin Range(field) /\ IsIntString(field)
  THEN ScalarInfo("INT32", <<Atoi(field)>>)
  ELSE SetString(Unquoted(field))

\* The arguments behind '=': fields between commas that are not quoted, but empty ones.
FieldsOf(args) ==
  LET size  == Len(args)
      cuts  == {i \in 1..(size + 1) : (i = size + 1 \/ args[i] = COMMA) /\ ~Quoted(args, i)}
      start(cut) == 1 + Max({0} \cup {i \in cuts : i < cut})
      fields == [n \in 1..Cardinality(cuts) |->
                   LET cut == SetToSortSeq(cuts, <)[n] IN SubSeq(args, start(cut), cut - 1)]
  IN  SelectSeq(fields, LAMBDA field : field # <<>>)

IsOscString(str) == str # <<>> /\ str[1] = SEPARATOR

WriterForString(str) ==
  LET equals == {i \in DOMAIN str : str[i] = EQUALS}
      fields == FieldsOf(From(str, Min(equals)))
  IN  IF equals = {} THEN [path |-> str, q |-> <<>>]
      ELSE [path |-> SubSeq(str, 1, Min(equals) - 1), q |-> [i \in DOMAIN fields |-> FieldInfo(fields[i])]]

CreateForString(str, uninitialized) ==
  IF IsOscString(str) THEN Create(WriterForString(str), uninitialized) ELSE Failed

----------------------------------------------------------------------------
(* OSCBundleWriter, whose elements are packets. *)

BundlePrefix == <<35, 98, 117, 110, 100, 108, 101, 0>>      \* "#bundle"

ComputeBundleSize(writers) ==
  Len(BundlePrefix) + 8 + Total([i \in DOMAIN writers |-> 4 + ComputeSize(writers[i])])

\* The size of an element and the element, written into what is left of the buffer.
WriteElement(writer, uninitialized) ==
  LET packetSize == ComputeSize(writer)
  IN  BigEndian(packetSize) \o Padded(Write(writer, packetSize, uninitialized), packetSize, uninitialized)

CreateBundle(writers, uninitialized) ==
  LET written == BundlePrefix \o Zeros(8)
                   \o FlattenSeq([i \in DOMAIN writers |-> WriteElement(writers[i], uninitialized)])
  IN  IF Len(written) = ComputeBundleSize(writers) THEN written ELSE Failed
=============================================================================
