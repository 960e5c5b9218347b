---------------------------- MODULE OscArgument ----------------------------
(***************************************************************************)
(* The bytes of OSC packets and the arguments found in them (class         *)
(* OSCArgument).  Numbers are sequences of 32-bit words: one word for the  *)
(* types of four bytes, two for those of eight.  Floating-point numbers    *)
(* are their bit patterns, which is all that packets do with them.         *)
(***************************************************************************)
EXTENDS Integers, SequencesExt, FiniteSetsExt

Byte == 0..255

COMMA     == 44
SEPARATOR == 47

Zeros(n) == [i \in 1..n |-> 0]

\* Everything but the first n bytes.
From(buf, n) == SubSeq(buf, n + 1, Len(buf))

\* The first n bytes, or what there is of them.
UpTo(buf, n) == SubSeq(buf, 1, Min({n, Len(buf)}))

\* A NUL-terminated string.
CString(buf) ==
  LET ends == {i \in DOMAIN buf : buf[i] = 0}
  IN  IF ends = {} THEN buf ELSE SubSeq(buf, 1, Min(ends) - 1)

\* Get32BitAlignedSize, and Get32BitAligned for a distance.
Aligned(size) == size + ((-size) % 4)

\* A word in a packet: Swap32 of its memory on a little-endian machine.
BigEndian(word) == <<(word \div 2^24) % 256, (word \div 2^16) % 256, (word \div 2^8) % 256, word % 256>>

\* GetInt32FromBuf: the first byte has the sign.
Int32(buf) ==
  LET top == IF buf[1] >= 128 THEN buf[1] - 256 ELSE buf[1]
  IN  2^24 * top + 2^16 * buf[2] + 2^8 * buf[3] + buf[4]

----------------------------------------------------------------------------
(* Types of arguments. *)

TypeChar == [CHAR |-> 99, INT32 |-> 105, INT64 |-> 104, FLOAT32 |-> 102, FLOAT64 |-> 100,
             STRING |-> 115, BLOB |-> 98, TIME |-> 116, RGBA32 |-> 114, MIDI |-> 109,
             TRUE |-> 84, FALSE |-> 70, NULL |-> 78, INFINITY |-> 73]

ArgumentType == DOMAIN TypeChar

GetArgumentTypeFromChar(c) ==
  IF \E type \in ArgumentType : TypeChar[type] = c
  THEN CHOOSE type \in ArgumentType : TypeChar[type] = c
  ELSE "INVALID"

FourByteTypes  == {"CHAR", "INT32", "FLOAT32", "RGBA32", "MIDI"}
EightByteTypes == {"INT64", "TIME", "FLOAT64"}
EmptyTypes     == {"TRUE", "FALSE", "NULL", "INFINITY"}

(***************************************************************************)
(* A string and the zeros behind it.  The search for the terminator never  *)
(* looks at the last byte of the packet: a string that ends just there is  *)
(* found to be a byte shorter.                                             *)
(***************************************************************************)
StringSize(buf) ==
  LET ends == {i \in 1..(Len(buf) - 1) : buf[i] = 0}
  IN  IF ends = {} THEN Len(buf) - 1 ELSE Aligned(Min(ends))

Refused == -1

(***************************************************************************)
(* OSCArgument::Init: the bytes an argument takes of what is left.  What a *)
(* blob says of its size is believed.                                      *)
(***************************************************************************)
InitSize(type, buf) ==
  CASE type \in FourByteTypes /\ Len(buf) >= 4  -> 4
    [] type \in EightByteTypes /\ Len(buf) >= 8 -> 8
    [] type \in EmptyTypes                      -> 0
    [] type = "BLOB" /\ Len(buf) >= 4           -> 4 + Aligned(Int32(buf))
    [] type = "STRING" /\ Len(buf) >= 4 /\ StringSize(buf) <= Len(buf) -> StringSize(buf)
    [] OTHER -> Refused

\* One turn of the loop of GetArgs; the first argument that is refused ends it.
TakeArg(got, tag) ==
  LET type == GetArgumentTypeFromChar(tag)
      size == InitSize(type, got.rest)
  IN  IF got.refused \/ size = Refused
      THEN [got EXCEPT !.refused = TRUE]
      ELSE [args    |-> Append(got.args, [type |-> type, raw |-> UpTo(got.rest, size)]),
            rest    |-> From(got.rest, size),
            refused |-> FALSE]

(***************************************************************************)
(* GetArgs: the type tags run from the first comma to a zero, the data     *)
(* begin at the next multiple of four from that comma.                     *)
(***************************************************************************)
GetArgs(buf) ==
  LET size   == Len(buf)
      commas == {i \in 1..(size - 2) : buf[i] = COMMA}
      comma  == Min(commas)
      ends   == {i \in (comma + 1)..(size - 1) : buf[i] = 0}
      end    == IF ends = {} THEN size ELSE Min(ends)
      data   == IF ends = {} THEN size - 1 ELSE comma - 1 + Aligned(end - comma + 1)
      tags   == SubSeq(buf, comma + 1, end - 1)
  IN  IF commas = {} THEN <<>>
      ELSE FoldLeft(TakeArg, [args |-> <<>>, rest |-> From(buf, data), refused |-> FALSE], tags).args

\* What a handler reads of an argument: GetInt, GetInt64, GetString, or GetRaw for a blob.
ArgumentValue(arg) ==
  CASE arg.type \in FourByteTypes  -> <<Int32(arg.raw)>>
    [] arg.type \in EightByteTypes -> <<Int32(arg.raw), Int32(From(arg.raw, 4))>>
    [] arg.type = "STRING"         -> CString(arg.raw)
    [] arg.type = "BLOB"           -> From(UpTo(arg.raw, 4 + Int32(arg.raw)), 4)
    [] OTHER                       -> <<>>
=============================================================================
