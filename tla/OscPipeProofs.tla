--------------------------- MODULE OscPipeProofs ---------------------------
(***************************************************************************)
(* Proofs about the numbers in OSC packets and about OSCStream: for every  *)
(* number, every packet, and every way the bytes may have arrived.  And    *)
(* proofs about OscPipe, for all programs, trees of methods, chunk sizes   *)
(* and limits: what the receiver gets of what was sent, while nothing is   *)
(* dropped (FlowInv) and when bytes are (ResyncInv).                       *)
(***************************************************************************)
EXTENDS OscPipe, SequenceLemmas

(***************************************************************************)
(* A set of numbers has a minimum, and Min finds it.                       *)
(***************************************************************************)
LEMMA MinFacts ==
  ASSUME NEW S \in SUBSET Nat, S # {}
  PROVE  Min(S) \in S /\ \A n \in S : Min(S) <= n
<1> DEFINE R == {ss \in Nat \X Nat : ss[1] < ss[2]}
<1>1. IsWellFoundedOn(R, Nat)
  BY NatLessThanWellFounded DEF OpToRel
<1>2. \A m, n \in Nat : m < n => <<m, n>> \in R
  OBVIOUS
<1> HIDE DEF R
<1>3. PICK m \in S : \A n \in S : ~(<<n, m>> \in R)
  BY <1>1, WFMin
<1>4. ASSUME NEW n \in S PROVE m <= n
  <2>1. m \in Nat /\ n \in Nat /\ ~(n < m)
    BY <1>2, <1>3
  <2> QED
    BY <2>1
<1> QED
  BY <1>4 DEF Min

----------------------------------------------------------------------------
(* Numbers of 32 bits and the bytes that stand for them. *)

\* The powers of two that BigEndian shifts by.
LEMMA Powers == 2^24 = 16777216 /\ 2^16 = 65536 /\ 2^8 = 256
BY SMT

\* A number is made of its last byte and the number before it.
LEMMA DivMod256 ==
  ASSUME NEW n \in Int
  PROVE  n \div 256 \in Int /\ n = 256 * (n \div 256) + (n % 256) /\ n % 256 \in Int /\ n % 256 \in Byte
<1>1. n \div 256 \in Int /\ n % 256 \in Int
  BY SMT
<1>2. n = 256 * (n \div 256) + (n % 256)
  BY SMT
<1>3. 0 <= n % 256 /\ n % 256 <= 255
  BY SMT
<1> QED
  BY <1>1, <1>2, <1>3, SMT DEF Byte

\* Four bytes, whatever the number.
LEMMA BigEndianType ==
  ASSUME NEW word \in Int
  PROVE  BigEndian(word) \in Seq(Byte) /\ Len(BigEndian(word)) = 4
<1> DEFINE a == (word \div 2^24) % 256
           b == (word \div 2^16) % 256
           c == (word \div 2^8) % 256
           d == word % 256
<1>1. a \in Byte /\ b \in Byte /\ c \in Byte /\ d \in Byte
  BY Powers, SMT DEF Byte
<1>2. BigEndian(word) = <<a, b, c, d>>
  BY DEF BigEndian
<1> HIDE DEF a, b, c, d
<1> QED
  BY <1>1, <1>2

(***************************************************************************)
(* What Swap32 (OSCParser.cpp:1044) puts in a packet GetInt32FromBuf reads *)
(* back, for every number of 32 bits.                                      *)
(***************************************************************************)
THEOREM WordRoundTrip ==
  ASSUME NEW word \in Int, -(2^31) <= word, word < 2^31
  PROVE  Int32(BigEndian(word)) = word
<1> DEFINE a == word \div 2^24
           b == word \div 2^16
           c == word \div 2^8
<1>1. a \in Int /\ b \in Int /\ c \in Int /\ -128 <= a /\ a < 128
  BY Powers, SMT
<1>2. b \div 256 = a /\ c \div 256 = b /\ word \div 256 = c
  BY Powers, SMT
<1>3. a % 256 = IF a < 0 THEN a + 256 ELSE a
  BY <1>1, SMT
<1>4. BigEndian(word) = <<a % 256, b % 256, c % 256, word % 256>>
  BY DEF BigEndian
<1> HIDE DEF a, b, c
<1>5. /\ b = 256 * a + (b % 256) /\ c = 256 * b + (c % 256) /\ word = 256 * c + (word % 256)
      /\ b % 256 \in Int /\ c % 256 \in Int /\ word % 256 \in Int
  BY <1>1, <1>2, DivMod256
<1> DEFINE p == a % 256
           q == b % 256
           r == c % 256
           s == word % 256
           top == IF p >= 128 THEN p - 256 ELSE p
<1>6. Int32(BigEndian(word)) = 2^24 * top + 2^16 * q + 2^8 * r + s
  BY <1>4 DEF Int32
<1>7. top = a
  BY <1>1, <1>3
<1> HIDE DEF p, q, r, s, top
<1>8. 16777216 * a + 65536 * q + 256 * r + s = word
  <2>1. b = 256 * a + q /\ c = 256 * b + r /\ word = 256 * c + s /\ q \in Int /\ r \in Int /\ s \in Int
    BY <1>5 DEF q, r, s
  <2> QED
    BY <1>1, <2>1, SMT
<1> QED
  BY <1>6, <1>7, <1>8, Powers

----------------------------------------------------------------------------
(***************************************************************************)
(* The buffer of a stream: what it holds fits in what is allocated, and    *)
(* that is never more than MAX_BUF_SIZE, whatever arrives and however      *)
(* often frames are taken out.                                             *)
(***************************************************************************)
Stream == [buf : Seq(Byte), capacity : Nat]

Bounded(oscStream) == Len(oscStream.buf) <= oscStream.capacity /\ oscStream.capacity <= MaxBufSize

\* A stream as it is made, and as it is after an overflow.
LEMMA NewBounded == NewStream \in Stream /\ Bounded(NewStream)
<1>1. NewStream = [buf |-> <<>>, capacity |-> 0] /\ 0 \in Nat /\ <<>> \in Seq(Byte)
  BY DEF NewStream
<1>2. NewStream \in Stream /\ NewStream.buf = <<>> /\ NewStream.capacity = 0
  BY <1>1 DEF Stream
<1> QED
  BY <1>2, FrameSizesAssumption DEF Bounded

\* Add (OSCParser.cpp:98): the bytes fit in the grown buffer, or the stream is cleared.
THEOREM AddBounded ==
  ASSUME NEW oscStream \in Stream, Bounded(oscStream), NEW bytes \in Seq(Byte)
  PROVE  Add(oscStream, bytes) \in Stream /\ Bounded(Add(oscStream, bytes))
<1> DEFINE size == Len(bytes)
           grown == GrownCapacity(oscStream, size)
<1>1. /\ oscStream.buf \in Seq(Byte) /\ oscStream.capacity \in Nat
      /\ Len(oscStream.buf) \in Nat /\ size \in Nat
  BY DEF Stream
<1>2. Len(oscStream.buf) <= oscStream.capacity /\ oscStream.capacity <= MaxBufSize
  BY DEF Bounded
<1>3. grown \in Nat /\ Len(oscStream.buf) + size <= grown
  BY <1>1, <1>2 DEF GrownCapacity, GrowMultiplier
<1>4. CASE bytes = <<>>
  BY <1>4 DEF Add
<1>5. CASE bytes # <<>> /\ Overflows(oscStream, size)
  <2>1. Add(oscStream, bytes) = NewStream
    BY <1>5 DEF Add
  <2> QED
    BY <2>1, NewBounded
<1>6. CASE bytes # <<>> /\ ~Overflows(oscStream, size)
  <2>1. Add(oscStream, bytes) = [buf |-> oscStream.buf \o bytes, capacity |-> grown]
    BY <1>6 DEF Add
  <2>2. size > 0
    BY <1>1, <1>6, EmptySeq
  <2>3. grown <= MaxBufSize
    BY <1>3, <1>6, <2>2, FrameSizesAssumption DEF Overflows
  <2>4. oscStream.buf \o bytes \in Seq(Byte) /\ Len(oscStream.buf \o bytes) = Len(oscStream.buf) + size
    BY <1>1
  <2> HIDE DEF grown
  <2>5. Add(oscStream, bytes).buf = oscStream.buf \o bytes /\ Add(oscStream, bytes).capacity = grown
    BY <2>1
  <2>6. Add(oscStream, bytes) \in Stream
    BY <1>3, <2>1, <2>4 DEF Stream
  <2> QED
    BY <1>3, <2>3, <2>4, <2>5, <2>6 DEF Bounded
<1> QED
  BY <1>4, <1>5, <1>6

\* What is left of a sequence when its first bytes are taken.
LEMMA FromFacts ==
  ASSUME NEW buf \in Seq(Byte), NEW n \in Nat, n <= Len(buf)
  PROVE  From(buf, n) \in Seq(Byte) /\ Len(From(buf, n)) = Len(buf) - n
<1> QED
  BY DEF From

\* Chop keeps the allocated buffer.
LEMMA ChopBounded ==
  ASSUME NEW oscStream \in Stream, Bounded(oscStream), NEW n \in Nat, n <= Len(oscStream.buf)
  PROVE  Chop(oscStream, n) \in Stream /\ Bounded(Chop(oscStream, n))
<1>1. oscStream.buf \in Seq(Byte) /\ oscStream.capacity \in Nat /\ Len(oscStream.buf) \in Nat
  BY DEF Stream
<1> DEFINE rest == From(oscStream.buf, n)
<1>2. rest \in Seq(Byte) /\ Len(rest) = Len(oscStream.buf) - n
  BY <1>1, FromFacts
<1> HIDE DEF rest
<1>3. Chop(oscStream, n) \in Stream /\ Chop(oscStream, n).buf = rest /\ Chop(oscStream, n).capacity = oscStream.capacity
  BY <1>1, <1>2 DEF Chop, Stream, rest
<1> QED
  BY <1>1, <1>2, <1>3, FrameSizesAssumption DEF Bounded

\* Four bytes make a number.
LEMMA Int32Type ==
  ASSUME NEW buf \in Seq(Byte), Len(buf) >= 4
  PROVE  Int32(buf) \in Int
<1>1. \A i \in 1..Len(buf) : buf[i] \in Int
  <2>1. \A i \in 1..Len(buf) : buf[i] \in Byte
    OBVIOUS
  <2>2. Byte \subseteq Int
    BY DEF Byte
  <2> QED
    BY <2>1, <2>2
<1>2. Len(buf) \in Nat
  OBVIOUS
<1>3. 1 \in 1..Len(buf) /\ 2 \in 1..Len(buf) /\ 3 \in 1..Len(buf) /\ 4 \in 1..Len(buf)
  BY <1>2
<1>4. buf[1] \in Int /\ buf[2] \in Int /\ buf[3] \in Int /\ buf[4] \in Int
  BY <1>1, <1>3
<1> DEFINE top == IF buf[1] >= 128 THEN buf[1] - 256 ELSE buf[1]
<1>5. top \in Int
  BY <1>4
<1>6. Int32(buf) = 16777216 * top + 65536 * buf[2] + 256 * buf[3] + buf[4]
  BY Powers DEF Int32
<1> HIDE DEF top
<1> DEFINE b == buf[2]
           c == buf[3]
           d == buf[4]
<1>7. b \in Int /\ c \in Int /\ d \in Int
  BY <1>4
<1>8. Int32(buf) = 16777216 * top + 65536 * b + 256 * c + d
  BY <1>6
<1> HIDE DEF b, c, d
<1> QED
  BY <1>5, <1>7, <1>8, SMT

\* GetNextFrame_Mode_1_0 (OSCParser.cpp:159): it reads only bytes that are there.
LEMMA HeaderFrameBounded ==
  ASSUME NEW oscStream \in Stream, Bounded(oscStream)
  PROVE  /\ GetNextFrame_1_0(oscStream).stream \in Stream
         /\ Bounded(GetNextFrame_1_0(oscStream).stream)
         /\ GetNextFrame_1_0(oscStream).frame \in Seq(Byte)
<1> DEFINE size == Int32(oscStream.buf)
           total == HeaderSize + size
<1>1. oscStream.buf \in Seq(Byte) /\ Len(oscStream.buf) \in Nat
  BY DEF Stream
<1>2. NoFrame \in Seq(Byte)
  BY DEF NoFrame
<1>3. CASE ~Available(oscStream, HeaderSize)
  BY <1>2, <1>3 DEF GetNextFrame_1_0, Got
<1>4. CASE Available(oscStream, HeaderSize)
  <2>1. Len(oscStream.buf) >= 4 /\ HeaderSize = 4
    BY <1>4 DEF Available, HeaderSize
  <2>2. size \in Int
    BY <1>1, <2>1, Int32Type
  <2> HIDE DEF size
  <2>3. CASE size <= 0
    <3>1. GetNextFrame_1_0(oscStream) = Got(Chop(oscStream, HeaderSize), NoFrame)
      BY <1>4, <2>3 DEF GetNextFrame_1_0, size
    <3> QED
      BY <1>2, <2>1, <3>1, ChopBounded DEF Got
  <2>4. CASE size > 0 /\ size <= MaxFrameSize /\ Available(oscStream, total)
    <3>1. GetNextFrame_1_0(oscStream) = Got(Chop(oscStream, total), SubSeq(oscStream.buf, HeaderSize + 1, total))
      BY <1>4, <2>2, <2>4 DEF GetNextFrame_1_0, size
    <3>2. total \in Nat /\ total <= Len(oscStream.buf)
      BY <1>1, <2>1, <2>2, <2>4 DEF Available
    <3>3. SubSeq(oscStream.buf, HeaderSize + 1, total) \in Seq(Byte)
      BY <1>1, <2>1, <3>2
    <3> HIDE DEF total
    <3> QED
      BY <3>1, <3>2, <3>3, ChopBounded DEF Got
  <2>5. CASE size > 0 /\ ~(size <= MaxFrameSize /\ Available(oscStream, total))
    <3>1. GetNextFrame_1_0(oscStream) = Got(oscStream, NoFrame)
      BY <1>4, <2>2, <2>5 DEF GetNextFrame_1_0, size
    <3> QED
      BY <1>2, <3>1 DEF Got
  <2> QED
    BY <2>2, <2>3, <2>4, <2>5
<1> QED
  BY <1>3, <1>4

\* GetNextFrame_Mode_1_1 (OSCParser.cpp:189): a delimiter it cuts at is in the buffer.
LEMMA DelimitedFrameBounded ==
  ASSUME NEW oscStream \in Stream, Bounded(oscStream)
  PROVE  /\ GetNextFrame_1_1(oscStream).stream \in Stream
         /\ Bounded(GetNextFrame_1_1(oscStream).stream)
<1> DEFINE starts == FrameStarts(oscStream.buf)
           start == Min(starts)
           ends == {i \in DOMAIN oscStream.buf : i > start /\ oscStream.buf[i] = END}
           end == Min(ends)
<1>1. /\ oscStream.buf \in Seq(Byte) /\ oscStream.capacity \in Nat
      /\ Len(oscStream.buf) \in Nat /\ DOMAIN oscStream.buf = 1..Len(oscStream.buf)
  BY DEF Stream
<1>2. CASE starts = {}
  <2>1. GetNextFrame_1_1(oscStream) = Got([oscStream EXCEPT !.buf = <<>>], NoFrame)
    BY <1>2 DEF GetNextFrame_1_1
  <2> DEFINE emptied == [oscStream EXCEPT !.buf = <<>>]
  <2>2. <<>> \in Seq(Byte) /\ Len(<<>>) = 0
    OBVIOUS
  <2>3. emptied \in Stream /\ emptied.buf = <<>> /\ emptied.capacity = oscStream.capacity
    BY <1>1, <2>2 DEF Stream
  <2>4. Bounded(emptied)
    BY <1>1, <2>2, <2>3, FrameSizesAssumption DEF Bounded
  <2> HIDE DEF emptied
  <2>5. GetNextFrame_1_1(oscStream).stream = emptied
    BY <2>1 DEF Got, emptied
  <2> QED
    BY <2>3, <2>4, <2>5
<1>3. CASE starts # {} /\ ends = {}
  <2>1. GetNextFrame_1_1(oscStream) = Got(oscStream, NoFrame)
    BY <1>3 DEF GetNextFrame_1_1
  <2> QED
    BY <2>1 DEF Got
<1>4. CASE starts # {} /\ ends # {}
  <2>1. GetNextFrame_1_1(oscStream) = Got(Chop(oscStream, end), Unescaped(SubSeq(oscStream.buf, start, end - 1)))
    BY <1>4 DEF GetNextFrame_1_1
  <2>2. ends \in SUBSET Nat
    BY <1>1
  <2> HIDE DEF start
  <2>3. end \in ends
    BY <1>4, <2>2, MinFacts
  <2>4. end \in Nat /\ end <= Len(oscStream.buf)
    BY <1>1, <2>3
  <2> HIDE DEF end
  <2>5. GetNextFrame_1_1(oscStream).stream = Chop(oscStream, end)
    BY <2>1 DEF Got
  <2> QED
    BY <2>4, <2>5, ChopBounded
<1> QED
  BY <1>2, <1>3, <1>4

\* Taking a frame out, in either mode, leaves a buffer within its bounds (OSCParser.cpp:145).
THEOREM GetNextFrameBounded ==
  ASSUME NEW oscStream \in Stream, Bounded(oscStream), NEW frameMode \in FrameMode
  PROVE  GetNextFrame(frameMode, oscStream).stream \in Stream /\ Bounded(GetNextFrame(frameMode, oscStream).stream)
BY HeaderFrameBounded, DelimitedFrameBounded DEF GetNextFrame

----------------------------------------------------------------------------
(***************************************************************************)
(* Frames with a header: the receiver takes out what the sender put in,    *)
(* for every packet the sender accepts, whatever follows it, and nothing   *)
(* before the last byte of it is there.                                    *)
(***************************************************************************)

\* Two sequences of bytes put together, and what can be found again in them.
LEMMA Joined ==
  ASSUME NEW s \in Seq(Byte), NEW t \in Seq(Byte)
  PROVE  /\ s \o t \in Seq(Byte)
         /\ Len(s \o t) = Len(s) + Len(t)
         /\ \A i \in 1..Len(s) : (s \o t)[i] = s[i]
         /\ \A i \in 1..Len(t) : (s \o t)[Len(s) + i] = t[i]
<1>1. Len(s) \in Nat /\ Len(t) \in Nat
  OBVIOUS
<1>2. s \o t \in Seq(Byte) /\ Len(s \o t) = Len(s) + Len(t)
  BY ConcatProperties
<1>3. \A i \in 1..Len(s) + Len(t) : (s \o t)[i] = IF i <= Len(s) THEN s[i] ELSE t[i - Len(s)]
  BY ConcatProperties
<1>4. ASSUME NEW i \in 1..Len(s) PROVE (s \o t)[i] = s[i]
  BY <1>1, <1>3
<1>5. ASSUME NEW i \in 1..Len(t) PROVE (s \o t)[Len(s) + i] = t[i]
  <2>1. Len(s) + i \in 1..Len(s) + Len(t) /\ ~(Len(s) + i <= Len(s)) /\ Len(s) + i - Len(s) = i
    BY <1>1
  <2> QED
    BY <1>3, <2>1
<1> QED
  BY <1>2, <1>4, <1>5

\* The first bytes decide the number.
LEMMA Int32Prefix ==
  ASSUME NEW word \in Int, NEW more \in Seq(Byte)
  PROVE  Int32(BigEndian(word) \o more) = Int32(BigEndian(word))
<1> DEFINE bytes == BigEndian(word)
<1>1. bytes \in Seq(Byte) /\ Len(bytes) = 4
  BY BigEndianType
<1> HIDE DEF bytes
<1> DEFINE all == bytes \o more
<1>2. all[1] = bytes[1] /\ all[2] = bytes[2] /\ all[3] = bytes[3] /\ all[4] = bytes[4]
  <2>1. \A i \in 1..Len(bytes) : all[i] = bytes[i]
    BY <1>1, Joined
  <2> HIDE DEF all
  <2> QED
    BY <1>1, <2>1
<1> HIDE DEF all
<1>3. Int32(all) = Int32(bytes)
  BY <1>2 DEF Int32
<1> QED
  BY <1>3 DEF all, bytes

\* The packets CreateFrame accepts, if a frame may not be longer than a number of 32 bits says.
Packet == {packet \in Seq(Byte) : Len(packet) \in 1..MaxFrameSize}

\* A frame is its header and the packet.
LEMMA FrameFacts ==
  ASSUME NEW packet \in Packet
  PROVE  /\ CreateFrame("FRAME_MODE_1_0", packet) = BigEndian(Len(packet)) \o packet
         /\ CreateFrame("FRAME_MODE_1_0", packet) \in Seq(Byte)
         /\ Len(CreateFrame("FRAME_MODE_1_0", packet)) = 4 + Len(packet)
<1>1. packet \in Seq(Byte) /\ Len(packet) \in 1..MaxFrameSize /\ Len(packet) \in Int
  BY DEF Packet
<1> DEFINE head == BigEndian(Len(packet))
<1>2. head \in Seq(Byte) /\ Len(head) = 4
  BY <1>1, BigEndianType
<1>3. CreateFrame("FRAME_MODE_1_0", packet) = head \o packet
  BY <1>1 DEF CreateFrame
<1> HIDE DEF head
<1>4. head \o packet \in Seq(Byte) /\ Len(head \o packet) = 4 + Len(packet)
  <2>1. head \o packet \in Seq(Byte) /\ Len(head \o packet) = Len(head) + Len(packet)
    BY <1>1, <1>2, Joined
  <2> QED
    BY <1>2, <2>1
<1> QED
  BY <1>3, <1>4 DEF head

\* The header of a frame tells the length of its packet, whatever follows.
LEMMA HeaderFacts ==
  ASSUME MaxFrameSize < 2^31, NEW packet \in Packet, NEW more \in Seq(Byte)
  PROVE  Int32(BigEndian(Len(packet)) \o more) = Len(packet)
<1> DEFINE n == Len(packet)
<1>1. n \in Int /\ 1 <= n /\ n <= MaxFrameSize
  BY DEF Packet
<1> HIDE DEF n
<1>2. -(2^31) <= n /\ n < 2^31
  BY <1>1, FrameSizesAssumption, SMT
<1>3. Int32(BigEndian(n)) = n
  BY <1>1, <1>2, WordRoundTrip
<1>4. Int32(BigEndian(n) \o more) = n
  BY <1>1, <1>3, Int32Prefix
<1> QED
  BY <1>4 DEF n

(***************************************************************************)
(* GetNextFrame_Mode_1_0 undoes CreateFrame_Mode_1_0: of a stream that     *)
(* begins with a frame it returns the packet and leaves what is behind the *)
(* frame (OSCParser.cpp:159, 281).                                         *)
(***************************************************************************)
THEOREM FrameRoundTrip ==
  ASSUME MaxFrameSize < 2^31, NEW packet \in Packet, NEW rest \in Seq(Byte), NEW oscStream \in Stream,
         oscStream.buf = CreateFrame("FRAME_MODE_1_0", packet) \o rest
  PROVE  /\ GetNextFrame_1_0(oscStream).frame = packet
         /\ GetNextFrame_1_0(oscStream).stream = [oscStream EXCEPT !.buf = rest]
<1> DEFINE head == BigEndian(Len(packet))
           n == Len(packet)
           buf == oscStream.buf
<1>1. packet \in Seq(Byte) /\ n \in Nat /\ n \in Int /\ 1 <= n /\ n <= MaxFrameSize
  BY DEF Packet
<1>2. head \in Seq(Byte) /\ Len(head) = 4
  BY <1>1, BigEndianType
<1>3. buf = (head \o packet) \o rest
  BY FrameFacts
<1> HIDE DEF head
<1>4. buf = head \o (packet \o rest) /\ packet \o rest \in Seq(Byte)
  <2>1. packet \o rest \in Seq(Byte)
    BY <1>1, Joined
  <2>2. (head \o packet) \o rest = head \o (packet \o rest)
    <3>1. \A s, t, u \in Seq(Byte) : (s \o t) \o u = s \o (t \o u)
      BY ConcatAssociative
    <3> QED
      BY <1>1, <1>2, <3>1, Zenon
  <2> HIDE DEF buf
  <2> QED
    BY <1>3, <2>1, <2>2
<1>5. Int32(buf) = n
  BY <1>4, HeaderFacts DEF head
<1>6. Len(buf) = 4 + n + Len(rest) /\ Len(rest) \in Nat
  <2>1. Len(rest) \in Nat
    OBVIOUS
  <2>2. head \o packet \in Seq(Byte) /\ Len(head \o packet) = Len(head) + n
    BY <1>1, <1>2, Joined
  <2>3. Len((head \o packet) \o rest) = Len(head \o packet) + Len(rest)
    BY <2>2, Joined
  <2> HIDE DEF buf, n
  <2> QED
    BY <1>2, <1>3, <2>1, <2>2, <2>3
<1> DEFINE total == HeaderSize + n
<1>7. HeaderSize = 4 /\ total = 4 + n
  BY DEF HeaderSize
<1>8. Available(oscStream, HeaderSize) /\ Available(oscStream, total)
  BY <1>1, <1>6, <1>7 DEF Available
<1>9. GetNextFrame_1_0(oscStream) = Got(Chop(oscStream, total), SubSeq(buf, 5, 4 + n))
  BY <1>1, <1>5, <1>7, <1>8 DEF GetNextFrame_1_0
<1>10. SubSeq(buf, 5, 4 + n) = packet
  BY <1>1, <1>2, <1>3, <1>6
<1>11. SubSeq(buf, 4 + n + 1, Len(buf)) = rest
  BY <1>1, <1>2, <1>3, <1>6
<1>12. Chop(oscStream, total) = [oscStream EXCEPT !.buf = rest]
  BY <1>7, <1>11 DEF Chop, From
<1> HIDE DEF total, n, buf
<1> QED
  BY <1>9, <1>10, <1>12 DEF Got

(***************************************************************************)
(* While the last byte of a frame is missing, GetNextFrame_Mode_1_0        *)
(* returns nothing and leaves the stream alone, so that a frame that       *)
(* arrives in pieces is neither cut short nor lost (OSCParser.cpp:159).    *)
(***************************************************************************)
THEOREM PartOfFrameIsKept ==
  ASSUME MaxFrameSize < 2^31, NEW packet \in Packet, NEW missing \in Seq(Byte), missing # <<>>,
         NEW oscStream \in Stream,
         CreateFrame("FRAME_MODE_1_0", packet) = oscStream.buf \o missing
  PROVE  GetNextFrame_1_0(oscStream) = Got(oscStream, NoFrame)
<1> DEFINE head == BigEndian(Len(packet))
           n == Len(packet)
           buf == oscStream.buf
<1>1. packet \in Seq(Byte) /\ n \in Nat /\ n \in Int /\ 1 <= n /\ n <= MaxFrameSize
  BY DEF Packet
<1>2. head \in Seq(Byte) /\ Len(head) = 4
  BY <1>1, BigEndianType
<1>3. buf \in Seq(Byte) /\ Len(buf) \in Nat /\ Len(missing) \in Nat /\ Len(missing) > 0
  BY EmptySeq DEF Stream
<1>4. head \o packet = buf \o missing
  BY FrameFacts
<1>5. Len(buf) + Len(missing) = 4 + n
  <2>1. Len(head \o packet) = 4 + n
    BY FrameFacts
  <2> QED
    BY <1>3, <1>4, <2>1
<1>6. CASE Len(buf) < 4
  BY <1>3, <1>6 DEF GetNextFrame_1_0, Available, HeaderSize
<1>7. CASE Len(buf) >= 4
  <2> HIDE DEF head
  <2>1. \A i \in 1..4 : buf[i] = head[i]
    <3> TAKE i \in 1..4
    <3>1. (buf \o missing)[i] = buf[i]
      BY <1>3, <1>7, Joined
    <3>2. (head \o packet)[i] = head[i]
      <4>1. \A j \in 1..Len(head) : (head \o packet)[j] = head[j]
        BY <1>1, <1>2, Joined
      <4> QED
        BY <1>2, <4>1
    <3> QED
      BY <1>4, <3>1, <3>2
  <2>2. buf[1] = head[1] /\ buf[2] = head[2] /\ buf[3] = head[3] /\ buf[4] = head[4]
    BY <2>1
  <2>3. Int32(buf) = Int32(head)
    BY <2>2 DEF Int32
  <2>4. Int32(head) = n
    <3>1. <<>> \in Seq(Byte) /\ head \o <<>> = head
      BY <1>2
    <3> QED
      BY <3>1, HeaderFacts DEF head
  <2>5. ~Available(oscStream, HeaderSize + n)
    BY <1>1, <1>3, <1>5 DEF Available, HeaderSize
  <2>6. Available(oscStream, HeaderSize)
    BY <1>7 DEF Available, HeaderSize
  <2> QED
    BY <1>1, <2>3, <2>4, <2>5, <2>6 DEF GetNextFrame_1_0
<1> QED
  BY <1>3, <1>6, <1>7

----------------------------------------------------------------------------
(* SLIP: what CreateFrame escapes GetNextFrame restores. *)

\* Where decoding stands when a packet has been restored.
Restoring(packet) == [bytes |-> packet, escaped |-> FALSE, size |-> Len(packet)]

NothingUnescaped == [bytes |-> <<>>, escaped |-> FALSE, size |-> 0]

\* got[i] is what Unescaped has after i bytes.
UnescapesFirst(got, bytes) ==
  got = [i \in 0..Len(bytes) |-> IF i = 0 THEN NothingUnescaped ELSE Unescape(got[i - 1], bytes[i])]

UnescapesTo(bytes, result) == \E got : UnescapesFirst(got, bytes) /\ got[Len(bytes)] = result

\* Of no bytes nothing is restored.
LEMMA UnescapesNothing == UnescapesTo(<<>>, NothingUnescaped)
<1> DEFINE got == [i \in 0..0 |-> NothingUnescaped]
<1>1. got = [i \in 0..0 |-> IF i = 0 THEN NothingUnescaped ELSE Unescape(got[i - 1], <<>>[i])]
  OBVIOUS
<1>2. Len(<<>>) = 0 /\ got[0] = NothingUnescaped
  OBVIOUS
<1> HIDE DEF got
<1>3. UnescapesFirst(got, <<>>)
  BY <1>1, <1>2 DEF UnescapesFirst
<1> QED
  BY <1>2, <1>3 DEF UnescapesTo

\* One byte more is one step more.
LEMMA UnescapesOneMore ==
  ASSUME NEW bytes \in Seq(Byte), NEW result, UnescapesTo(bytes, result), NEW byte \in Byte
  PROVE  UnescapesTo(Append(bytes, byte), Unescape(result, byte))
<1> DEFINE n == Len(bytes)
           more == Append(bytes, byte)
<1>1. PICK got : UnescapesFirst(got, bytes) /\ got[n] = result
  BY DEF UnescapesTo
<1>2. n \in Nat /\ Len(more) = n + 1 /\ more[n + 1] = byte /\ \A i \in 1..n : more[i] = bytes[i]
  OBVIOUS
<1> HIDE DEF n, more
<1> DEFINE next == [i \in 0..(n + 1) |-> IF i = n + 1 THEN Unescape(result, byte) ELSE got[i]]
<1>3. \A i \in 0..n : got[i] = IF i = 0 THEN NothingUnescaped ELSE Unescape(got[i - 1], bytes[i])
  BY <1>1 DEF UnescapesFirst, n
<1>4. ASSUME NEW i \in 0..(n + 1)
      PROVE  next[i] = IF i = 0 THEN NothingUnescaped ELSE Unescape(next[i - 1], more[i])
  <2>1. CASE i = 0
    <3>1. i \in 0..n /\ i # n + 1
      BY <1>2, <2>1
    <3> QED
      BY <1>3, <2>1, <3>1
  <2>2. CASE i \in 1..n
    <3>1. i \in 0..n /\ i # n + 1 /\ i - 1 \in 0..(n + 1) /\ i - 1 # n + 1 /\ i # 0
      BY <1>2, <2>2
    <3>2. next[i] = got[i] /\ next[i - 1] = got[i - 1] /\ more[i] = bytes[i]
      BY <1>2, <2>2, <3>1
    <3> HIDE DEF next
    <3> QED
      BY <1>3, <3>1, <3>2
  <2>3. CASE i = n + 1
    <3>1. i # 0 /\ i - 1 = n /\ n \in 0..(n + 1) /\ n # n + 1
      BY <1>2, <2>3
    <3>2. next[i] = Unescape(result, byte) /\ next[n] = result /\ more[i] = byte
      BY <1>1, <1>2, <2>3, <3>1
    <3> HIDE DEF next
    <3> QED
      BY <3>1, <3>2
  <2> QED
    BY <1>2, <2>1, <2>2, <2>3
<1>5. next = [i \in 0..(n + 1) |-> next[i]]
  OBVIOUS
<1>6. next[n + 1] = Unescape(result, byte)
  BY <1>2
<1> HIDE DEF next
<1>7. UnescapesFirst(next, more)
  BY <1>2, <1>4, <1>5 DEF UnescapesFirst
<1>8. UnescapesTo(more, Unescape(result, byte))
  BY <1>2, <1>6, <1>7 DEF UnescapesTo
<1> QED
  BY <1>8 DEF more

\* There is one such run, and Unescaped takes what it ends with.
LEMMA UnescapedIsRun ==
  ASSUME NEW bytes \in Seq(Byte), NEW result, UnescapesTo(bytes, result)
  PROVE  Unescaped(bytes) = UpTo(result.bytes, result.size)
<1> DEFINE N == Len(bytes)
<1>1. PICK got : UnescapesFirst(got, bytes) /\ got[N] = result
  BY DEF UnescapesTo
<1>2. PICK last : /\ last = (CHOOSE f : UnescapesFirst(f, bytes))
                  /\ UnescapesFirst(last, bytes)
  BY <1>1
<1>3. Unescaped(bytes) = UpTo(last[N].bytes, last[N].size)
  BY <1>2, Zenon DEF Unescaped, UnescapesFirst, NothingUnescaped
<1>4. N \in Nat
  OBVIOUS
<1> DEFINE T == {n \in 0..N : last[n] = got[n]}
<1>5. \A i \in 0..N : /\ got[i] = IF i = 0 THEN NothingUnescaped ELSE Unescape(got[i - 1], bytes[i])
                      /\ last[i] = IF i = 0 THEN NothingUnescaped ELSE Unescape(last[i - 1], bytes[i])
  BY <1>1, <1>2 DEF UnescapesFirst
<1> HIDE DEF N
<1>6. 0 \in T
  BY <1>4, <1>5
<1>7. \A n \in 1..N : n - 1 \in T => n \in T
  <2> SUFFICES ASSUME NEW n \in 1..N, n - 1 \in T PROVE n \in T
    OBVIOUS
  <2>1. n \in 0..N /\ n # 0 /\ last[n - 1] = got[n - 1]
    BY <1>4
  <2>2. last[n] = got[n]
    BY <1>5, <2>1
  <2> QED
    BY <2>1, <2>2
<1>8. N \in T
  <2>1. N \in 0..N
    BY <1>4
  <2> HIDE DEF T
  <2>2. \A n \in 0..N : n \in T
    BY <1>4, <1>6, <1>7, Induction
  <2> QED
    BY <2>1, <2>2
<1>9. last[N] = got[N]
  BY <1>8
<1> QED
  BY <1>1, <1>3, <1>9

\* Nothing has been restored of no bytes, and of a packet of that length the whole packet is taken.
LEMMA RestoredWhole ==
  /\ Restoring(<<>>) = NothingUnescaped
  /\ \A packet \in Seq(Byte) : UpTo(packet, Len(packet)) = packet
<1>1. Len(<<>>) = 0
  OBVIOUS
<1>2. ASSUME NEW packet \in Seq(Byte) PROVE UpTo(packet, Len(packet)) = packet
  <2>1. PICK n : n = Len(packet) /\ n \in Nat
    OBVIOUS
  <2>2. Min({n, n}) = n
    <3>1. {n, n} \in SUBSET Nat /\ {n, n} # {}
      BY <2>1
    <3> QED
      BY <3>1, MinFacts
  <2>3. UpTo(packet, n) = SubSeq(packet, 1, n)
    BY <2>1, <2>2 DEF UpTo
  <2> QED
    BY <2>1, <2>3
<1> QED
  BY <1>1, <1>2 DEF Restoring, NothingUnescaped

\* The bytes that stand for a byte of a packet give it back, and no delimiter is among them.
LEMMA EscapedFacts ==
  ASSUME NEW byte \in Byte, NEW before \in Seq(Byte), NEW packet \in Seq(Byte),
         UnescapesTo(before, Restoring(packet))
  PROVE  /\ Escaped(byte) \in Seq(Byte) /\ Len(Escaped(byte)) >= 1
         /\ \A i \in 1..Len(Escaped(byte)) : Escaped(byte)[i] # END
         /\ UnescapesTo(before \o Escaped(byte), Restoring(Append(packet, byte)))
<1> DEFINE start == Restoring(packet)
           inEscape == [bytes |-> packet, escaped |-> TRUE, size |-> Len(packet)]
           more == Append(packet, byte)
           done == Restoring(more)
<1>1. ESC \in Byte /\ ESC_END \in Byte /\ ESC_ESC \in Byte /\ ESC # END /\ ESC_END # END /\ ESC_ESC # END
      /\ END # ESC /\ ESC_END # ESC_ESC
  BY DEF ESC, ESC_END, ESC_ESC, END, Byte
<1>2. more \in Seq(Byte) /\ Len(more) = Len(packet) + 1
  OBVIOUS
<1>3. ASSUME NEW code \in {ESC_END, ESC_ESC}, Escaped(byte) = <<ESC, code>>,
             byte = IF code = ESC_END THEN END ELSE ESC
      PROVE  /\ Escaped(byte) \in Seq(Byte) /\ Len(Escaped(byte)) >= 1
             /\ \A i \in 1..Len(Escaped(byte)) : Escaped(byte)[i] # END
             /\ UnescapesTo(before \o Escaped(byte), done)
  <2>1. code \in Byte /\ code # END
    BY <1>1
  <2>2. Unescape(start, ESC) = inEscape
    BY DEF Unescape, Restoring
  <2>3. Unescape(inEscape, code) = done
    <3>1. Restored(code) = byte /\ code # ESC
      BY <1>3 DEF Restored, ESC, ESC_END, ESC_ESC, END
    <3> QED
      BY <1>2, <3>1 DEF Unescape, Restoring
  <2> HIDE DEF start, inEscape, done
  <2>4. UnescapesTo(Append(before, ESC), inEscape)
    BY <1>1, <2>2, UnescapesOneMore DEF start
  <2>5. Append(before, ESC) \in Seq(Byte)
    BY <1>1
  <2>6. UnescapesTo(Append(Append(before, ESC), code), done)
    BY <2>1, <2>3, <2>4, <2>5, UnescapesOneMore
  <2>7. before \o <<ESC, code>> = Append(Append(before, ESC), code)
    BY <1>1, <2>1
  <2>8. PICK e : e = <<ESC, code>>
    OBVIOUS
  <2>9. e \in Seq(Byte) /\ Len(e) = 2 /\ \A i \in 1..2 : e[i] # END
    BY <1>1, <2>1, <2>8
  <2>10. Escaped(byte) = e /\ before \o e = Append(Append(before, ESC), code)
    BY <1>3, <2>7, <2>8
  <2> QED
    BY <2>6, <2>9, <2>10
<1>4. CASE byte = END
  <2>1. Escaped(byte) = <<ESC, ESC_END>>
    BY <1>1, <1>4 DEF Escaped
  <2> HIDE DEF start, inEscape, done
  <2> QED
    BY <1>3, <1>4, <2>1 DEF done
<1>5. CASE byte = ESC
  <2>1. Escaped(byte) = <<ESC, ESC_ESC>>
    BY <1>1, <1>5 DEF Escaped
  <2> HIDE DEF start, inEscape, done
  <2> QED
    BY <1>1, <1>3, <1>5, <2>1 DEF done
<1>6. CASE byte # END /\ byte # ESC
  <2>1. Escaped(byte) = <<byte>>
    BY <1>6 DEF Escaped
  <2>2. Unescape(start, byte) = done
    BY <1>6, <1>2 DEF Unescape, Restoring
  <2> HIDE DEF start, inEscape, done
  <2>3. UnescapesTo(Append(before, byte), done)
    BY <2>2, UnescapesOneMore DEF start
  <2>4. before \o <<byte>> = Append(before, byte)
    OBVIOUS
  <2>5. PICK e : e = <<byte>>
    OBVIOUS
  <2>6. e \in Seq(Byte) /\ Len(e) = 1 /\ \A i \in 1..1 : e[i] # END
    BY <1>6, <2>5
  <2>7. Escaped(byte) = e /\ before \o e = Append(before, byte)
    BY <2>1, <2>4, <2>5
  <2> QED
    BY <2>3, <2>6, <2>7 DEF done
<1> QED
  BY <1>4, <1>5, <1>6

EscapesOf(packet) == [i \in DOMAIN packet |-> Escaped(packet[i])]

\* What is between the delimiters is the escapes of each byte.
LEMMA EscapesAreFlat == ASSUME NEW packet PROVE Escapes(packet) = FlattenSeq(EscapesOf(packet))
BY DEF Escapes, EscapesOf

(***************************************************************************)
(* GetNextFrame_Mode_1_1 restores what CreateFrame_Mode_1_1 escapes, for   *)
(* every packet, and a delimiter is never part of what it escapes          *)
(* (OSCParser.cpp:189, 295).                                               *)
(***************************************************************************)
THEOREM EscapesCancel ==
  ASSUME NEW packet \in Seq(Byte)
  PROVE  /\ Escapes(packet) \in Seq(Byte)
         /\ Len(Escapes(packet)) >= Len(packet)
         /\ \A i \in 1..Len(Escapes(packet)) : Escapes(packet)[i] # END
         /\ Unescaped(Escapes(packet)) = packet
<1> DEFINE N == Len(packet)
           Good(bytes, i) == /\ bytes \in Seq(Byte) /\ Len(bytes) >= i
                             /\ \A k \in 1..Len(bytes) : bytes[k] # END
                             /\ UnescapesTo(bytes, Restoring(SubSeq(packet, 1, i)))
<1>1. N \in Nat /\ DOMAIN packet = 1..N /\ \A i \in 1..N : packet[i] \in Byte
  OBVIOUS
<1>2. Good(<<>>, 0)
  <2>1. PICK e : e = <<>>
    OBVIOUS
  <2>2. SubSeq(packet, 1, 0) = e /\ e \in Seq(Byte) /\ Len(e) = 0 /\ \A k \in 1..Len(e) : e[k] # END
    BY <2>1
  <2>3. UnescapesTo(e, Restoring(SubSeq(packet, 1, 0)))
    BY <2>1, <2>2, UnescapesNothing, RestoredWhole
  <2>4. Good(e, 0)
    BY <2>2, <2>3
  <2> QED
    BY <2>1, <2>4
<1>3. ASSUME NEW i \in 1..N, NEW bytes, Good(bytes, i - 1)
      PROVE  Good(bytes \o Escaped(packet[i]), i)
  <2>1. SubSeq(packet, 1, i - 1) \in Seq(Byte) /\ Append(SubSeq(packet, 1, i - 1), packet[i]) = SubSeq(packet, 1, i)
    BY <1>1
  <2> DEFINE b == packet[i]
             front == SubSeq(packet, 1, i - 1)
  <2>2. b \in Byte /\ front \in Seq(Byte) /\ bytes \in Seq(Byte) /\ UnescapesTo(bytes, Restoring(front))
    BY <1>1, <1>3, <2>1
  <2> HIDE DEF b, front
  <2>3. /\ Escaped(b) \in Seq(Byte) /\ Len(Escaped(b)) >= 1
        /\ \A k \in 1..Len(Escaped(b)) : Escaped(b)[k] # END
        /\ UnescapesTo(bytes \o Escaped(b), Restoring(Append(front, b)))
    BY <2>2, EscapedFacts
  <2> DEFINE e == Escaped(b)
  <2>4. /\ e \in Seq(Byte) /\ Len(e) >= 1 /\ Len(e) \in Nat
        /\ Len(bytes) \in Nat /\ Len(bytes) >= i - 1
        /\ \A k \in 1..Len(e) : e[k] # END
        /\ \A k \in 1..Len(bytes) : bytes[k] # END
    BY <1>3, <2>2, <2>3
  <2> HIDE DEF e
  <2>5. /\ bytes \o e \in Seq(Byte) /\ Len(bytes \o e) = Len(bytes) + Len(e)
        /\ \A k \in 1..(Len(bytes) + Len(e)) :
             (bytes \o e)[k] = IF k <= Len(bytes) THEN bytes[k] ELSE e[k - Len(bytes)]
    BY <2>2, <2>4, JoinFacts
  <2>6. ASSUME NEW k \in 1..Len(bytes \o e) PROVE (bytes \o e)[k] # END
    <3>1. CASE k <= Len(bytes)
      <4>1. k \in 1..Len(bytes) /\ k \in 1..(Len(bytes) + Len(e))
        BY <2>4, <2>5, <3>1
      <4> QED
        BY <2>4, <2>5, <3>1, <4>1
    <3>2. CASE ~(k <= Len(bytes))
      <4>1. k - Len(bytes) \in 1..Len(e) /\ k \in 1..(Len(bytes) + Len(e))
        BY <2>4, <2>5, <3>2
      <4> QED
        BY <2>4, <2>5, <3>2, <4>1
    <3> QED
      BY <3>1, <3>2
  <2>7. Len(bytes \o e) >= i
    BY <1>1, <2>4, <2>5
  <2> QED
    BY <2>1, <2>3, <2>5, <2>6, <2>7 DEF e, b, front
<1>4. CASE N = 0
  <2>1. EscapesOf(packet) = <<>> /\ packet = <<>> /\ <<>> \in Seq(Seq(Byte)) /\ Len(<<>>) = 0
    BY <1>1, <1>4 DEF EscapesOf
  <2>2. FlattenSeq(EscapesOf(packet)) = <<>>
    <3>1. \A i \in 1..Len(<<>>) : <<>>[i] = <<>>
      BY <2>1
    <3>2. FlattenSeq(<<>>) = <<>>
      BY <2>1, <3>1, FlattenEmpty
    <3> QED
      BY <2>1, <3>2
  <2>3. Unescaped(<<>>) = <<>>
    <3>1. PICK e : e = <<>>
      OBVIOUS
    <3>2. e \in Seq(Byte) /\ Len(e) = 0
      BY <3>1
    <3>3. Unescaped(e) = UpTo(NothingUnescaped.bytes, NothingUnescaped.size)
      BY <3>1, <3>2, UnescapesNothing, UnescapedIsRun
    <3>4. NothingUnescaped.bytes = e /\ NothingUnescaped.size = Len(e)
      BY <3>1, <3>2 DEF NothingUnescaped
    <3>5. UpTo(e, Len(e)) = e
      BY <3>2, RestoredWhole
    <3> QED
      BY <3>1, <3>3, <3>4, <3>5
  <2>4. PICK e : e = <<>>
    OBVIOUS
  <2>5. e \in Seq(Byte) /\ Len(e) = 0 /\ Unescaped(e) = e /\ packet = e /\ FlattenSeq(EscapesOf(packet)) = e
    BY <2>1, <2>2, <2>3, <2>4
  <2>6. \A k \in 1..Len(e) : e[k] # END
    BY <2>5
  <2>7. Escapes(packet) = e
    BY <2>5, EscapesAreFlat
  <2> QED
    BY <2>5, <2>6, <2>7
<1>5. CASE N # 0
  <2> DEFINE parts == EscapesOf(packet)
  <2>1. parts \in Seq(Seq(Byte)) /\ Len(parts) = N /\ parts # <<>> /\ \A i \in 1..N : parts[i] = Escaped(packet[i])
    <3>1. \A i \in 1..N : Escaped(packet[i]) \in Seq(Byte)
      <4> TAKE i \in 1..N
      <4>1. packet[i] \in Byte /\ <<>> \in Seq(Byte)
        BY <1>1
      <4> DEFINE b == packet[i]
      <4> HIDE DEF b
      <4>2. Escaped(b) \in Seq(Byte)
        BY <4>1, UnescapesNothing, RestoredWhole, EscapedFacts DEF b
      <4> QED
        BY <4>2 DEF b
    <3>2. parts = [i \in 1..N |-> Escaped(packet[i])]
      BY <1>1 DEF EscapesOf
    <3> HIDE DEF parts, N
    <3>3. parts \in Seq(Seq(Byte)) /\ Len(parts) = N
      BY <1>1, <3>1, <3>2
    <3> QED
      BY <1>5, <3>2, <3>3
  <2> HIDE DEF parts
  <2>2. PICK f : /\ FlattenSeq(parts) = f[Len(parts)] /\ f[1] = parts[1]
                 /\ \A i \in 2..Len(parts) : f[i] = f[i - 1] \o parts[i]
    BY <2>1, FlattenSteps
  <2> DEFINE T == {i \in 0..N : i = 0 \/ Good(f[i], i)}
  <2>3. 0 \in T
    BY <1>1
  <2>4. \A i \in 1..N : i - 1 \in T => i \in T
    <3> SUFFICES ASSUME NEW i \in 1..N, i - 1 \in T PROVE i \in T
      OBVIOUS
    <3>1. CASE i = 1
      <4>1. f[1] = Escaped(packet[1]) /\ i - 1 = 0
        BY <1>1, <2>1, <2>2, <3>1
      <4>2. Good(<<>> \o Escaped(packet[1]), 1)
        <5> HIDE DEF Good, N
        <5> QED
          BY <1>2, <1>3, <3>1, <4>1
      <4>3. <<>> \o Escaped(packet[1]) = Escaped(packet[1])
        <5>1. Escaped(packet[1]) \in Seq(Byte)
          BY <2>1, <3>1
        <5> QED
          BY <5>1
      <4> HIDE DEF Good
      <4> QED
        BY <1>1, <3>1, <4>1, <4>2, <4>3
    <3>2. CASE i # 1
      <4>1. i \in 2..N /\ i - 1 # 0 /\ i \in 0..N
        BY <1>1, <3>2
      <4>2. f[i] = f[i - 1] \o Escaped(packet[i])
        BY <2>1, <2>2, <4>1
      <4> HIDE DEF Good, N
      <4>3. Good(f[i - 1] \o Escaped(packet[i]), i)
        BY <1>3, <4>1
      <4> QED
        BY <4>1, <4>2, <4>3
    <3> QED
      BY <3>1, <3>2
  <2>5. N \in T
    <3>1. N \in 0..N
      BY <1>1
    <3> HIDE DEF T, N
    <3>2. \A i \in 0..N : i \in T
      BY <1>1, <2>3, <2>4, Induction
    <3> QED
      BY <3>1, <3>2
  <2>6. Good(f[N], N)
    BY <1>5, <2>5
  <2>7. SubSeq(packet, 1, N) = packet
    BY <1>1
  <2> DEFINE all == f[N]
  <2> HIDE DEF N
  <2>8. FlattenSeq(parts) = all
    BY <2>1, <2>2
  <2> HIDE DEF all
  <2>9. /\ all \in Seq(Byte) /\ Len(all) >= N
        /\ \A k \in 1..Len(all) : all[k] # END
        /\ UnescapesTo(all, Restoring(packet))
    BY <2>6, <2>7 DEF all
  <2> DEFINE result == Restoring(packet)
  <2>10. result.bytes = packet /\ UpTo(result.bytes, result.size) = packet
    BY RestoredWhole DEF Restoring
  <2> HIDE DEF result
  <2>11. Unescaped(all) = packet
    <3>1. UnescapesTo(all, result)
      BY <2>9 DEF result
    <3> QED
      BY <2>9, <2>10, <3>1, UnescapedIsRun
  <2> QED
    BY <2>8, <2>9, <2>11, EscapesAreFlat DEF parts, N
<1> QED
  BY <1>4, <1>5
----------------------------------------------------------------------------
(* The frames of several packets, one after the other. *)

\* s is u and something more, and v is what is more and then t.
Continues(s, t, u, v) ==
  /\ From(s, Len(u)) \in Seq(Byte)
  /\ Len(From(s, Len(u))) = Len(s) - Len(u)
  /\ s = u \o From(s, Len(u))
  /\ From(s, Len(u)) \o t = v

\* Two sequences joined in two ways: the longer of the first parts begins with the other.
LEMMA Overlap ==
  ASSUME NEW s \in Seq(Byte), NEW t \in Seq(Byte), NEW u \in Seq(Byte), NEW v \in Seq(Byte),
         s \o t = u \o v, Len(u) <= Len(s)
  PROVE  Continues(s, t, u, v)
<1> DEFINE r == From(s, Len(u))
<1>1. Len(s) \in Nat /\ Len(t) \in Nat /\ Len(u) \in Nat /\ Len(v) \in Nat
  OBVIOUS
<1>2. r \in Seq(Byte) /\ Len(r) = Len(s) - Len(u) /\ \A i \in 1..(Len(s) - Len(u)) : r[i] = s[Len(u) + i]
  BY <1>1 DEF From
<1> HIDE DEF r
<1>3. /\ Len(s \o t) = Len(s) + Len(t)
      /\ \A k \in 1..(Len(s) + Len(t)) : (s \o t)[k] = IF k <= Len(s) THEN s[k] ELSE t[k - Len(s)]
  BY JoinFacts
<1>4. /\ Len(u \o v) = Len(u) + Len(v)
      /\ \A k \in 1..(Len(u) + Len(v)) : (u \o v)[k] = IF k <= Len(u) THEN u[k] ELSE v[k - Len(u)]
  BY JoinFacts
<1> DEFINE L == Len(u) + Len(v)
           w == s \o t
<1>5. /\ L = Len(s) + Len(t)
      /\ \A k \in 1..L : w[k] = IF k <= Len(s) THEN s[k] ELSE t[k - Len(s)]
      /\ \A k \in 1..L : w[k] = IF k <= Len(u) THEN u[k] ELSE v[k - Len(u)]
  BY <1>3, <1>4
<1> HIDE DEF L, w
<1>6. /\ u \o r \in Seq(Byte) /\ Len(u \o r) = Len(u) + Len(r)
      /\ \A k \in 1..(Len(u) + Len(r)) : (u \o r)[k] = IF k <= Len(u) THEN u[k] ELSE r[k - Len(u)]
  BY <1>2, JoinFacts
<1>7. s = u \o r
  <2> DEFINE x == u \o r
  <2>1. x \in Seq(Byte) /\ Len(x) = Len(s)
    BY <1>1, <1>2, <1>6
  <2>2. ASSUME NEW k \in 1..Len(s) PROVE x[k] = s[k]
    <3>1. k \in 1..L /\ k <= Len(s) /\ w[k] = s[k]
      BY <1>1, <1>5 DEF L
    <3>2. CASE k <= Len(u)
      <4>1. w[k] = u[k] /\ x[k] = u[k]
        BY <1>1, <1>2, <1>5, <1>6, <3>1, <3>2
      <4> QED
        BY <3>1, <4>1
    <3>3. CASE ~(k <= Len(u))
      <4>1. k - Len(u) \in 1..(Len(s) - Len(u)) /\ Len(u) + (k - Len(u)) = k
        BY <1>1, <3>3
      <4>2. x[k] = r[k - Len(u)]
        BY <1>1, <1>2, <1>6, <3>3
      <4> QED
        BY <1>2, <4>1, <4>2
    <3> QED
      BY <3>2, <3>3
  <2> HIDE DEF x
  <2>3. x = s
    <3>1. x \in Seq(Byte) /\ s \in Seq(Byte) /\ Len(x) = Len(s) /\ \A k \in 1..Len(x) : x[k] = s[k]
      BY <2>1, <2>2
    <3> QED
      BY <3>1, SeqEqual
  <2> QED
    BY <2>3 DEF x
<1>8. /\ r \o t \in Seq(Byte) /\ Len(r \o t) = Len(r) + Len(t)
      /\ \A k \in 1..(Len(r) + Len(t)) : (r \o t)[k] = IF k <= Len(r) THEN r[k] ELSE t[k - Len(r)]
  BY <1>2, JoinFacts
<1>9. r \o t = v
  <2> DEFINE x == r \o t
  <2>1. x \in Seq(Byte) /\ Len(x) = Len(v)
    BY <1>1, <1>2, <1>5, <1>8 DEF L
  <2>2. ASSUME NEW k \in 1..Len(v) PROVE x[k] = v[k]
    <3>1. Len(u) + k \in 1..L /\ ~(Len(u) + k <= Len(u)) /\ Len(u) + k - Len(u) = k
      BY <1>1 DEF L
    <3>2. w[Len(u) + k] = v[k]
      BY <1>5, <3>1
    <3>3. CASE k <= Len(r)
      <4>1. Len(u) + k <= Len(s) /\ k \in 1..(Len(s) - Len(u))
        BY <1>1, <1>2, <3>3
      <4>2. x[k] = r[k]
        BY <1>1, <1>2, <1>5, <1>8, <3>3 DEF L
      <4> QED
        BY <1>2, <1>5, <3>1, <3>2, <4>1, <4>2
    <3>4. CASE ~(k <= Len(r))
      <4>1. ~(Len(u) + k <= Len(s)) /\ Len(u) + k - Len(s) = k - Len(r)
        BY <1>1, <1>2, <3>4
      <4>2. x[k] = t[k - Len(r)]
        BY <1>1, <1>2, <1>5, <1>8, <3>4 DEF L
      <4> QED
        BY <1>5, <3>1, <3>2, <4>1, <4>2
    <3> QED
      BY <3>3, <3>4
  <2> HIDE DEF x
  <2>3. x = v
    <3>1. x \in Seq(Byte) /\ v \in Seq(Byte) /\ Len(x) = Len(v) /\ \A k \in 1..Len(x) : x[k] = v[k]
      BY <2>1, <2>2
    <3> QED
      BY <3>1, SeqEqual
  <2> QED
    BY <2>3 DEF x
<1> QED
  BY <1>2, <1>7, <1>9 DEF r, Continues

Associate(s, t, u) == (s \o t) \o u = s \o (t \o u)

\* Three sequences may be joined from the left or from the right.
LEMMA SequencesAssociate ==
  ASSUME NEW S, NEW s \in Seq(S), NEW t \in Seq(S), NEW u \in Seq(S)
  PROVE  Associate(s, t, u)
BY ConcatAssociative DEF Associate

\* A frame between delimiters.
LEMMA DelimitedFrame ==
  ASSUME NEW packet \in Packet
  PROVE  LET escapes == Escapes(packet)
             frame   == CreateFrame("FRAME_MODE_1_1", packet)
         IN  /\ frame \in Seq(Byte) /\ Len(frame) = Len(escapes) + 2
             /\ frame = <<END>> \o (escapes \o <<END>>)
<1> DEFINE frame == CreateFrame("FRAME_MODE_1_1", packet)
<1>1. PICK e : e = Escapes(packet)
  OBVIOUS
<1>2. packet \in Seq(Byte) /\ Len(packet) \in 1..MaxFrameSize
  BY DEF Packet
<1>3. e \in Seq(Byte) /\ Len(e) \in Nat
  BY <1>1, <1>2, EscapesCancel
<1>4. frame = <<END>> \o e \o <<END>>
  BY <1>1, <1>2 DEF CreateFrame
<1>5. PICK d : d = <<END>>
  OBVIOUS
<1>6. d \in Seq(Byte) /\ Len(d) = 1 /\ d[1] = END
  BY <1>5 DEF END, Byte
<1>7. /\ d \o e \in Seq(Byte) /\ Len(d \o e) = Len(d) + Len(e)
  BY <1>3, <1>6, JoinFacts
<1>8. PICK x : x = d \o e
  OBVIOUS
<1>9. x \o d \in Seq(Byte) /\ Len(x \o d) = Len(x) + Len(d)
  BY <1>6, <1>7, <1>8, JoinFacts
<1>10. frame = x \o d
  BY <1>4, <1>5, <1>8
<1>11. (d \o e) \o d = d \o (e \o d)
  <2>1. Associate(d, e, d)
    BY <1>3, <1>6, SequencesAssociate
  <2> QED
    BY <2>1 DEF Associate
<1>12. frame \in Seq(Byte) /\ Len(frame) = Len(e) + 2 /\ frame = d \o (e \o d)
  <2>1. Len(frame) = Len(x) + Len(d) /\ Len(x) = Len(e) + 1
    BY <1>3, <1>6, <1>7, <1>8, <1>9, <1>10
  <2> HIDE DEF frame
  <2>2. Len(frame) = Len(e) + 2
    BY <1>3, <1>6, <2>1
  <2> QED
    BY <1>8, <1>9, <1>10, <1>11, <2>2
<1> HIDE DEF frame
<1> QED
  BY <1>1, <1>5, <1>12 DEF frame

\* A frame is bytes, and there is one for every packet that is not too long.
LEMMA FrameType ==
  ASSUME NEW frameMode \in FrameMode, NEW packet \in Packet
  PROVE  CreateFrame(frameMode, packet) \in Seq(Byte) /\ Len(CreateFrame(frameMode, packet)) >= 1
<1>1. Len(packet) \in Nat
  BY DEF Packet
<1>2. CASE frameMode = "FRAME_MODE_1_0"
  <2>1. 4 + Len(packet) >= 1
    BY <1>1
  <2> QED
    BY <1>2, <2>1, FrameFacts
<1>3. CASE frameMode = "FRAME_MODE_1_1"
  <2>1. Escapes(packet) \in Seq(Byte)
    BY EscapesCancel DEF Packet
  <2>2. Len(Escapes(packet)) + 2 >= 1
    BY <2>1
  <2> QED
    BY <1>3, <2>2, DelimitedFrame
<1> QED
  BY <1>2, <1>3 DEF FrameMode

FramesOf(frameMode, packets) == FlattenSeq(Frames(frameMode, packets))

\* The frames of packets are sequences of bytes, as many as there are packets.
LEMMA FramesType ==
  ASSUME NEW frameMode \in FrameMode, NEW packets \in Seq(Packet)
  PROVE  /\ Frames(frameMode, packets) \in Seq(Seq(Byte))
         /\ Len(Frames(frameMode, packets)) = Len(packets)
         /\ \A i \in 1..Len(packets) : Frames(frameMode, packets)[i] = CreateFrame(frameMode, packets[i])
         /\ FramesOf(frameMode, packets) \in Seq(Byte)
<1>1. \A i \in 1..Len(packets) : packets[i] \in Packet
  OBVIOUS
<1>2. \A i \in 1..Len(packets) : CreateFrame(frameMode, packets[i]) \in Seq(Byte)
  BY <1>1, FrameType
<1>3. Len(packets) \in Nat /\ DOMAIN packets = 1..Len(packets)
  OBVIOUS
<1>4. PICK f : f = Frames(frameMode, packets)
  OBVIOUS
<1>5. f = [i \in 1..Len(packets) |-> CreateFrame(frameMode, packets[i])]
  BY <1>3, <1>4 DEF Frames
<1>6. f \in Seq(Seq(Byte)) /\ Len(f) = Len(packets) /\ \A i \in 1..Len(packets) : f[i] = CreateFrame(frameMode, packets[i])
  BY <1>2, <1>3, <1>5
<1>7. FlattenSeq(f) \in Seq(Byte)
  BY <1>6, FlattenFacts
<1> QED
  BY <1>4, <1>6, <1>7 DEF FramesOf

\* The frames of some packets and then those of others.
LEMMA FramesJoin ==
  ASSUME NEW frameMode \in FrameMode, NEW p \in Seq(Packet), NEW q \in Seq(Packet)
  PROVE  FramesOf(frameMode, p \o q) = FramesOf(frameMode, p) \o FramesOf(frameMode, q)
<1>1. PICK r : r = p \o q
  OBVIOUS
<1>2. /\ p \o q \in Seq(Packet) /\ Len(p \o q) = Len(p) + Len(q) /\ Len(p) \in Nat /\ Len(q) \in Nat
      /\ \A k \in 1..(Len(p) + Len(q)) : (p \o q)[k] = IF k <= Len(p) THEN p[k] ELSE q[k - Len(p)]
  BY JoinFacts
<1>3. PICK a : a = Frames(frameMode, p)
  OBVIOUS
<1>4. PICK b : b = Frames(frameMode, q)
  OBVIOUS
<1>5. PICK c : c = Frames(frameMode, r)
  OBVIOUS
<1>6. /\ a \in Seq(Seq(Byte)) /\ Len(a) = Len(p)
      /\ \A i \in 1..Len(p) : a[i] = CreateFrame(frameMode, p[i])
  BY <1>3, FramesType
<1>7. /\ b \in Seq(Seq(Byte)) /\ Len(b) = Len(q)
      /\ \A i \in 1..Len(q) : b[i] = CreateFrame(frameMode, q[i])
  BY <1>4, FramesType
<1>8. /\ c \in Seq(Seq(Byte)) /\ Len(c) = Len(r)
      /\ \A i \in 1..Len(r) : c[i] = CreateFrame(frameMode, r[i])
  <2>1. r \in Seq(Packet)
    BY <1>1, <1>2
  <2> QED
    BY <1>5, <2>1, FramesType
<1>9. PICK S : S = Seq(Byte)
  OBVIOUS
<1>10. a \in Seq(S) /\ b \in Seq(S) /\ c \in Seq(S)
  BY <1>6, <1>7, <1>8, <1>9
<1>11. /\ a \o b \in Seq(S) /\ Len(a \o b) = Len(a) + Len(b)
       /\ \A k \in 1..(Len(a) + Len(b)) : (a \o b)[k] = IF k <= Len(a) THEN a[k] ELSE b[k - Len(a)]
  BY <1>10, JoinFacts
<1>12. PICK x : x = a \o b
  OBVIOUS
<1>13. c = x
  <2>1. Len(c) = Len(x) /\ x \in Seq(S)
    BY <1>1, <1>2, <1>6, <1>7, <1>8, <1>11, <1>12
  <2>2. ASSUME NEW k \in 1..Len(c) PROVE c[k] = x[k]
    <3>1. k \in 1..(Len(p) + Len(q)) /\ k \in 1..Len(r) /\ k \in 1..(Len(a) + Len(b))
      BY <1>1, <1>2, <1>6, <1>7, <1>8
    <3>2. CASE k <= Len(p)
      <4>1. k \in 1..Len(p) /\ r[k] = p[k] /\ x[k] = a[k]
        BY <1>1, <1>2, <1>6, <1>11, <1>12, <3>1, <3>2
      <4> QED
        BY <1>6, <1>8, <3>1, <4>1
    <3>3. CASE ~(k <= Len(p))
      <4>1. k - Len(p) \in 1..Len(q) /\ r[k] = q[k - Len(p)] /\ x[k] = b[k - Len(p)]
        BY <1>1, <1>2, <1>6, <1>11, <1>12, <3>1, <3>3
      <4> QED
        BY <1>7, <1>8, <3>1, <4>1
    <3> QED
      BY <3>2, <3>3
  <2> QED
    BY <1>10, <2>1, <2>2
<1>14. FlattenSeq(a \o b) = FlattenSeq(a) \o FlattenSeq(b)
  BY <1>6, <1>7, FlattenJoin
<1> QED
  BY <1>1, <1>3, <1>4, <1>5, <1>12, <1>13, <1>14 DEF FramesOf

\* The first frame, and the frames of the other packets.
LEMMA FramesSplit ==
  ASSUME NEW frameMode \in FrameMode, NEW packets \in Seq(Packet), packets # <<>>
  PROVE  /\ Head(packets) \in Packet /\ Tail(packets) \in Seq(Packet)
         /\ packets = <<Head(packets)>> \o Tail(packets)
         /\ FramesOf(frameMode, packets) = CreateFrame(frameMode, Head(packets)) \o FramesOf(frameMode, Tail(packets))
<1>1. PICK h : h = Head(packets)
  OBVIOUS
<1>2. PICK t : t = Tail(packets)
  OBVIOUS
<1>3. PICK one : one = <<h>>
  OBVIOUS
<1>4. h \in Packet /\ t \in Seq(Packet) /\ packets = <<h>> \o t
  BY <1>1, <1>2
<1>5. one \in Seq(Packet) /\ Len(one) = 1 /\ one[1] = h
  BY <1>3, <1>4
<1>6. FramesOf(frameMode, one \o t) = FramesOf(frameMode, one) \o FramesOf(frameMode, t)
  BY <1>4, <1>5, FramesJoin
<1>7. FramesOf(frameMode, one) = CreateFrame(frameMode, h)
  <2>1. PICK f : f = Frames(frameMode, one)
    OBVIOUS
  <2>2. /\ f \in Seq(Seq(Byte)) /\ Len(f) = Len(one)
        /\ \A i \in 1..Len(one) : f[i] = CreateFrame(frameMode, one[i])
    BY <1>5, <2>1, FramesType
  <2>3. f = <<CreateFrame(frameMode, h)>>
    <3>1. Len(f) = 1 /\ f[1] = CreateFrame(frameMode, h)
      BY <1>5, <2>2
    <3> QED
      BY <2>2, <3>1
  <2>4. FlattenSeq(<<CreateFrame(frameMode, h)>>) = CreateFrame(frameMode, h)
    BY FlattenOne
  <2> QED
    BY <2>1, <2>3, <2>4 DEF FramesOf
<1> QED
  BY <1>1, <1>2, <1>3, <1>4, <1>6, <1>7

\* No packets make no bytes.
LEMMA FramesOfNone == ASSUME NEW frameMode PROVE FramesOf(frameMode, <<>>) = <<>>
<1>1. Frames(frameMode, <<>>) = <<>>
  BY DEF Frames
<1>2. <<>> \in Seq(Seq(Byte)) /\ \A i \in 1..Len(<<>>) : <<>>[i] = <<>>
  OBVIOUS
<1>3. FlattenSeq(<<>>) = <<>>
  BY <1>2, FlattenEmpty
<1> QED
  BY <1>1, <1>3 DEF FramesOf

\* The frames of any packets are bytes, none for a packet that is too long.
LEMMA FramesAreBytes ==
  ASSUME NEW frameMode \in FrameMode, NEW packets \in Seq(Seq(Byte))
  PROVE  FlattenSeq(Frames(frameMode, packets)) \in Seq(Byte)
<1>1. ASSUME NEW i \in 1..Len(packets) PROVE CreateFrame(frameMode, packets[i]) \in Seq(Byte)
  <2>1. packets[i] \in Seq(Byte)
    OBVIOUS
  <2>2. CASE packets[i] \in Packet
    BY <2>2, FrameType
  <2>3. CASE packets[i] \notin Packet
    <3>1. CreateFrame(frameMode, packets[i]) = NoFrame
      BY <2>1, <2>3 DEF CreateFrame, Packet
    <3> QED
      BY <3>1 DEF NoFrame
  <2> QED
    BY <2>2, <2>3
<1>2. Len(packets) \in Nat /\ DOMAIN packets = 1..Len(packets)
  OBVIOUS
<1>3. PICK f : f = Frames(frameMode, packets)
  OBVIOUS
<1>4. f = [i \in 1..Len(packets) |-> CreateFrame(frameMode, packets[i])]
  BY <1>2, <1>3 DEF Frames
<1>5. f \in Seq(Seq(Byte))
  BY <1>1, <1>2, <1>4
<1>6. FlattenSeq(f) \in Seq(Byte)
  BY <1>5, FlattenFacts
<1> QED
  BY <1>3, <1>6
----------------------------------------------------------------------------
(***************************************************************************)
(* What is in the stream and on the wire, while nothing has been dropped:  *)
(* the frames of the packets that have not been received.  The delimiter   *)
(* before the first of them may be gone, since GetNextFrame_Mode_1_1       *)
(* resets a stream that holds nothing else.                                *)
(***************************************************************************)
Flow(frameMode, packets, bytes) ==
  \E skipped \in Seq({END}) :
    /\ frameMode = "FRAME_MODE_1_0" => skipped = <<>>
    /\ skipped \o bytes = FramesOf(frameMode, packets)

\* What GetNextFrame gets out of a flow, got: the first packet when its frame is whole, and nothing before.
GetsNext(frameMode, packets, buf, more, got) ==
  \/ /\ got.frame = NoFrame
     /\ Flow(frameMode, packets, got.stream.buf \o more)
     /\ packets = <<>> => buf = <<>>
     /\ packets # <<>> => more # <<>> /\ Len(buf) < Len(CreateFrame(frameMode, Head(packets)))
  \/ /\ packets # <<>>
     /\ got.frame = Head(packets)
     /\ Flow(frameMode, Tail(packets), got.stream.buf \o more)

\* Delimiters are bytes.
LEMMA DelimitersFacts ==
  ASSUME NEW delimiters \in Seq({END})
  PROVE  /\ delimiters \in Seq(Byte) /\ Len(delimiters) \in Nat
         /\ \A i \in 1..Len(delimiters) : delimiters[i] = END
<1>1. END \in Byte
  BY DEF END, Byte
<1>2. Len(delimiters) \in Nat
  OBVIOUS
<1>3. ASSUME NEW i \in 1..Len(delimiters) PROVE delimiters[i] = END
  OBVIOUS
<1>4. delimiters = [i \in 1..Len(delimiters) |-> delimiters[i]]
  OBVIOUS
<1>5. delimiters \in Seq(Byte)
  BY <1>1, <1>2, <1>3, <1>4
<1> QED
  BY <1>2, <1>3, <1>5

\* Bytes that are all delimiters.
LEMMA AreDelimiters ==
  ASSUME NEW bytes \in Seq(Byte), \A i \in 1..Len(bytes) : bytes[i] = END
  PROVE  bytes \in Seq({END})
<1>1. Len(bytes) \in Nat /\ bytes = [i \in 1..Len(bytes) |-> bytes[i]]
  OBVIOUS
<1> QED
  BY <1>1

\* The delimiter.
LEMMA OneDelimiter == <<END>> \in Seq({END}) /\ Len(<<END>>) = 1
OBVIOUS

\* No delimiter.
LEMMA NoDelimiter == <<>> \in Seq({END}) /\ <<>> \in Seq(Byte)
OBVIOUS

\* The stream of a flow without packets is empty.
LEMMA NoPackets ==
  ASSUME NEW frameMode \in FrameMode, NEW skipped \in Seq({END}), NEW buf \in Seq(Byte), NEW more \in Seq(Byte),
         skipped \o (buf \o more) = FramesOf(frameMode, <<>>)
  PROVE  skipped = <<>> /\ buf = <<>> /\ more = <<>>
<1>1. FramesOf(frameMode, <<>>) = <<>>
  BY FramesOfNone
<1>2. skipped \in Seq(Byte)
  BY DelimitersFacts
<1>3. buf \o more \in Seq(Byte)
  BY Joined
<1>4. skipped = <<>> /\ buf \o more = <<>>
  BY <1>1, <1>2, <1>3, ConcatEqualIffEmpty
<1> QED
  BY <1>4, ConcatEqualIffEmpty

\* In frames with a header.
LEMMA GetsNextHeaderFrame ==
  ASSUME MaxFrameSize < 2^31, NEW packets \in Seq(Packet), NEW oscStream \in Stream, NEW more \in Seq(Byte),
         Flow("FRAME_MODE_1_0", packets, oscStream.buf \o more)
  PROVE  GetsNext("FRAME_MODE_1_0", packets, oscStream.buf, more, GetNextFrame_1_0(oscStream))
<1> DEFINE m == "FRAME_MODE_1_0"
           got == GetNextFrame_1_0(oscStream)
<1>1. PICK buf : buf = oscStream.buf
  OBVIOUS
<1>2. buf \in Seq(Byte) /\ Len(buf) \in Nat /\ m \in FrameMode /\ buf \o more \in Seq(Byte)
  BY <1>1, Joined DEF Stream, FrameMode
<1>3. buf \o more = FramesOf(m, packets)
  <2>1. PICK skipped \in Seq({END}) : skipped = <<>> /\ skipped \o (buf \o more) = FramesOf(m, packets)
    BY <1>1 DEF Flow
  <2>2. <<>> \o (buf \o more) = buf \o more
    BY <1>2
  <2> QED
    BY <2>1, <2>2
<1>4. CASE packets = <<>>
  <2>1. buf = <<>> /\ more = <<>>
    <3>1. <<>> \o (buf \o more) = FramesOf(m, <<>>)
      BY <1>2, <1>3, <1>4
    <3>2. PICK skipped : skipped = <<>>
      OBVIOUS
    <3>3. /\ m \in FrameMode /\ skipped \in Seq({END}) /\ buf \in Seq(Byte) /\ more \in Seq(Byte)
          /\ skipped \o (buf \o more) = FramesOf(m, <<>>)
      BY <1>2, <3>1, <3>2, NoDelimiter
    <3> QED
      BY <3>3, NoPackets
  <2>2. ~Available(oscStream, HeaderSize)
    <3>1. Len(oscStream.buf) = 0
      BY <1>1, <2>1
    <3> QED
      BY <3>1 DEF Available, HeaderSize
  <2>3. got = Got(oscStream, NoFrame)
    BY <2>2 DEF GetNextFrame_1_0
  <2>4. got.frame = NoFrame /\ got.stream.buf = buf
    BY <1>1, <2>3 DEF Got
  <2> HIDE DEF got
  <2> QED
    BY <1>1, <1>4, <2>1, <2>4 DEF GetsNext, got
<1>5. CASE packets # <<>>
  <2>1. PICK first : first = Head(packets)
    OBVIOUS
  <2>2. PICK frame : frame = CreateFrame(m, first)
    OBVIOUS
  <2>3. PICK rest : rest = FramesOf(m, Tail(packets))
    OBVIOUS
  <2>4. first \in Packet /\ Tail(packets) \in Seq(Packet) /\ buf \o more = frame \o rest
    BY <1>2, <1>3, <1>5, <2>1, <2>2, <2>3, FramesSplit
  <2>5. frame \in Seq(Byte) /\ rest \in Seq(Byte) /\ Len(frame) \in Nat
    BY <1>2, <2>2, <2>3, <2>4, FrameType, FramesType
  <2>6. CASE Len(frame) <= Len(buf)
    <3>1. PICK kept : kept = From(buf, Len(frame))
      OBVIOUS
    <3>2. kept \in Seq(Byte) /\ buf = frame \o kept /\ kept \o more = rest
      <4>1. /\ buf \in Seq(Byte) /\ more \in Seq(Byte) /\ frame \in Seq(Byte) /\ rest \in Seq(Byte)
            /\ buf \o more = frame \o rest /\ Len(frame) <= Len(buf)
        BY <1>2, <2>4, <2>5, <2>6
      <4>2. Continues(buf, more, frame, rest)
        BY <4>1, Overlap
      <4> QED
        BY <3>1, <4>2 DEF Continues
    <3>3. oscStream.buf = CreateFrame("FRAME_MODE_1_0", first) \o kept
      BY <1>1, <2>2, <3>2
    <3>4. got.frame = first /\ got.stream = [oscStream EXCEPT !.buf = kept]
      BY <2>4, <3>2, <3>3, FrameRoundTrip
    <3>5. got.stream.buf = kept
      BY <3>4 DEF Stream
    <3> HIDE DEF got
    <3>6. <<>> \o (kept \o more) = kept \o more
      <4>1. kept \o more \in Seq(Byte)
        BY <2>5, <3>2
      <4> QED
        BY <4>1
    <3>7. Flow(m, Tail(packets), kept \o more)
      BY <2>3, <3>2, <3>6 DEF Flow
    <3> QED
      BY <1>5, <2>1, <3>4, <3>5, <3>7 DEF GetsNext, got
  <2>7. CASE Len(buf) < Len(frame)
    <3>1. PICK missing : missing = From(frame, Len(buf))
      OBVIOUS
    <3>2. /\ missing \in Seq(Byte) /\ Len(missing) = Len(frame) - Len(buf)
          /\ frame = buf \o missing /\ missing \o rest = more
      <4>1. /\ buf \in Seq(Byte) /\ more \in Seq(Byte) /\ frame \in Seq(Byte) /\ rest \in Seq(Byte)
            /\ frame \o rest = buf \o more /\ Len(buf) <= Len(frame)
        BY <1>2, <2>4, <2>5, <2>7
      <4>2. Continues(frame, rest, buf, more)
        BY <4>1, Overlap
      <4> QED
        BY <3>1, <4>2 DEF Continues
    <3>3. missing # <<>>
      BY <1>2, <2>5, <2>7, <3>2
    <3>4. CreateFrame("FRAME_MODE_1_0", first) = oscStream.buf \o missing
      BY <1>1, <2>2, <3>2
    <3>5. got = Got(oscStream, NoFrame)
      BY <2>4, <3>2, <3>3, <3>4, PartOfFrameIsKept
    <3>6. got.frame = NoFrame /\ got.stream.buf = buf
      BY <1>1, <3>5 DEF Got
    <3> HIDE DEF got
    <3>7. more # <<>>
      BY <2>5, <3>2, <3>3, ConcatEqualIffEmpty
    <3> QED
      BY <1>1, <1>5, <2>1, <2>2, <2>7, <3>6, <3>7 DEF GetsNext, got
  <2> QED
    BY <1>2, <2>5, <2>6, <2>7
<1> QED
  BY <1>4, <1>5

\* A frame of GetNextFrame_Mode_1_1: delimiters, what is between, and the delimiter that ends it.
Delimited(before, between) == before \o (between \o <<END>>)

\* Where its delimiters are.
LEMMA DelimitedFacts ==
  ASSUME NEW before \in Seq({END}), NEW between \in Seq(Byte), \A i \in 1..Len(between) : between[i] # END
  PROVE  LET frame == Delimited(before, between)
             p     == Len(before)
             n     == Len(between)
         IN  /\ frame \in Seq(Byte) /\ Len(frame) = p + n + 1
             /\ \A i \in 1..p : frame[i] = END
             /\ \A i \in 1..n : frame[p + i] = between[i]
             /\ frame[p + n + 1] = END
<1> DEFINE frame == Delimited(before, between)
           p == Len(before)
           n == Len(between)
<1>1. PICK d : d = <<END>>
  OBVIOUS
<1>2. d \in Seq(Byte) /\ Len(d) = 1 /\ d[1] = END
  BY <1>1 DEF END, Byte
<1>3. before \in Seq(Byte) /\ p \in Nat /\ n \in Nat /\ \A i \in 1..p : before[i] = END
  BY DelimitersFacts
<1>4. PICK x : x = between \o d
  OBVIOUS
<1>5. /\ x \in Seq(Byte) /\ Len(x) = Len(between) + Len(d)
      /\ \A i \in 1..Len(between) : x[i] = between[i]
      /\ \A i \in 1..Len(d) : x[Len(between) + i] = d[i]
  BY <1>2, <1>4, Joined
<1>6. PICK y : y = before \o x
  OBVIOUS
<1>7. /\ y \in Seq(Byte) /\ Len(y) = Len(before) + Len(x)
      /\ \A i \in 1..Len(before) : y[i] = before[i]
      /\ \A i \in 1..Len(x) : y[Len(before) + i] = x[i]
  BY <1>3, <1>5, <1>6, Joined
<1>8. frame = y
  BY <1>1, <1>4, <1>6 DEF Delimited
<1> HIDE DEF frame, p, n
<1>9. Len(y) = p + n + 1
  BY <1>2, <1>3, <1>5, <1>7 DEF p, n
<1>10. ASSUME NEW i \in 1..n PROVE y[p + i] = between[i]
  <2>1. i \in 1..Len(x)
    BY <1>2, <1>3, <1>5 DEF n
  <2> QED
    BY <1>5, <1>7, <2>1 DEF p, n
<1>11. y[p + n + 1] = END
  <2>1. n + 1 \in 1..Len(x) /\ 1 \in 1..Len(d) /\ p + n + 1 = p + (n + 1)
    BY <1>2, <1>3, <1>5 DEF n
  <2> QED
    BY <1>2, <1>5, <1>7, <2>1 DEF p, n
<1>12. \A i \in 1..p : y[i] = END
  BY <1>3, <1>7 DEF p
<1> QED
  BY <1>7, <1>8, <1>9, <1>10, <1>11, <1>12 DEF frame, p, n

\* Of delimiters alone no frame is made, and the stream is reset.
LEMMA ReadsDelimiters ==
  ASSUME NEW oscStream \in Stream, NEW more \in Seq(Byte), NEW skipped \in Seq({END}), NEW before \in Seq({END}),
         skipped \o (oscStream.buf \o more) = before
  PROVE  /\ GetNextFrame_1_1(oscStream).frame = NoFrame
         /\ GetNextFrame_1_1(oscStream).stream.buf = <<>>
         /\ skipped \o oscStream.buf \in Seq({END})
<1>1. PICK buf : buf = oscStream.buf
  OBVIOUS
<1>2. buf \in Seq(Byte) /\ Len(buf) \in Nat /\ DOMAIN buf = 1..Len(buf)
  BY <1>1 DEF Stream
<1>3. /\ skipped \in Seq(Byte) /\ Len(skipped) \in Nat /\ \A i \in 1..Len(skipped) : skipped[i] = END
      /\ before \in Seq(Byte) /\ Len(before) \in Nat /\ \A i \in 1..Len(before) : before[i] = END
  BY DelimitersFacts
<1>4. PICK all : all = skipped \o buf
  OBVIOUS
<1>5. /\ all \in Seq(Byte) /\ Len(all) = Len(skipped) + Len(buf) /\ Len(all) \in Nat
      /\ \A i \in 1..Len(skipped) : all[i] = skipped[i]
      /\ \A i \in 1..Len(buf) : all[Len(skipped) + i] = buf[i]
  BY <1>2, <1>3, <1>4, Joined
<1>6. (skipped \o buf) \o more = skipped \o (buf \o more)
  <2>1. skipped \in Seq(Byte) /\ buf \in Seq(Byte) /\ more \in Seq(Byte)
    BY <1>2, <1>3
  <2> QED
    BY <2>1, JoinAssociative
<1>7. before = all \o more
  BY <1>1, <1>4, <1>6
<1>8. /\ Len(all \o more) = Len(all) + Len(more) /\ Len(more) \in Nat
      /\ \A i \in 1..Len(all) : (all \o more)[i] = all[i]
  <2>1. all \in Seq(Byte) /\ more \in Seq(Byte)
    BY <1>5
  <2>2. Len(more) \in Nat
    OBVIOUS
  <2> QED
    BY <2>1, <2>2, Joined
<1>9. ASSUME NEW i \in 1..Len(all) PROVE all[i] = END
  <2>1. i \in 1..Len(before)
    BY <1>3, <1>5, <1>7, <1>8
  <2> QED
    BY <1>3, <1>7, <1>8, <2>1
<1>10. FrameStarts(buf) = {}
  <2>1. ASSUME NEW i \in 1..Len(buf) PROVE buf[i] = END
    <3>1. Len(skipped) + i \in 1..Len(all)
      BY <1>2, <1>3, <1>5
    <3> QED
      BY <1>5, <1>9, <3>1
  <2> QED
    BY <1>2, <2>1 DEF FrameStarts
<1>11. GetNextFrame_1_1(oscStream) = Got([oscStream EXCEPT !.buf = <<>>], NoFrame)
  BY <1>1, <1>10 DEF GetNextFrame_1_1
<1>12. all \in Seq({END})
  BY <1>5, <1>9, AreDelimiters
<1> QED
  BY <1>1, <1>4, <1>11, <1>12 DEF Got, Stream

\* What GetNextFrame_Mode_1_1 gets, got, of the bytes of a frame and the rest behind it.
GetsDelimited(before, between, rest, buf, more, got) ==
  \/ /\ got.frame = NoFrame
     /\ more # <<>> /\ Len(buf) < Len(Delimited(before, between))
     /\ \E s \in Seq({END}) : s \o (got.stream.buf \o more) = Delimited(before, between) \o rest
  \/ got.frame = Unescaped(between) /\ got.stream.buf \o more = rest

\* A part of a sequence of bytes.
LEMMA PartFacts ==
  ASSUME NEW buf \in Seq(Byte), NEW a \in 1..Len(buf), NEW b \in 1..Len(buf), a <= b
  PROVE  /\ SubSeq(buf, a, b) \in Seq(Byte) /\ Len(SubSeq(buf, a, b)) = b - a + 1
         /\ \A i \in 1..(b - a + 1) : SubSeq(buf, a, b)[i] = buf[a + i - 1]
BY SubSeqProperties

\* What is left when the first n bytes are gone, byte by byte.
LEMMA FromElements ==
  ASSUME NEW buf \in Seq(Byte), NEW n \in Nat, n <= Len(buf)
  PROVE  /\ From(buf, n) \in Seq(Byte) /\ Len(From(buf, n)) = Len(buf) - n
         /\ \A i \in 1..(Len(buf) - n) : From(buf, n)[i] = buf[n + i]
BY FromFacts DEF From

(***************************************************************************)
(* A frame whose end is missing stays in the stream, except delimiters     *)
(* before its first byte; a whole one is taken out and decoded.            *)
(***************************************************************************)
LEMMA ReadsDelimited ==
  ASSUME NEW oscStream \in Stream, NEW more \in Seq(Byte), NEW skipped \in Seq({END}), NEW before \in Seq({END}),
         NEW between \in Seq(Byte), between # <<>>, \A i \in 1..Len(between) : between[i] # END,
         NEW rest \in Seq(Byte),
         skipped \o (oscStream.buf \o more) = Delimited(before, between) \o rest
  PROVE  GetsDelimited(before, between, rest, oscStream.buf, more, GetNextFrame_1_1(oscStream))
<1> DEFINE got == GetNextFrame_1_1(oscStream)
           starts == FrameStarts(oscStream.buf)
           start == Min(starts)
           ends == {i \in DOMAIN oscStream.buf : i > start /\ oscStream.buf[i] = END}
           end == Min(ends)
           emptied == [oscStream EXCEPT !.buf = <<>>]
<1>1. PICK buf : buf = oscStream.buf
  OBVIOUS
<1>2. /\ buf \in Seq(Byte) /\ Len(buf) \in Nat /\ DOMAIN buf = 1..Len(buf)
      /\ buf \o more \in Seq(Byte) /\ <<>> \in Seq(Byte)
  BY <1>1, Joined DEF Stream
<1>3. PICK frame : frame = Delimited(before, between)
  OBVIOUS
<1>4. PICK o : o = Len(skipped)
  OBVIOUS
<1>5. PICK p : p = Len(before)
  OBVIOUS
<1>6. PICK n : n = Len(between)
  OBVIOUS
<1>7. skipped \in Seq(Byte) /\ o \in Nat /\ p \in Nat /\ n \in Nat /\ n >= 1 /\ \A i \in 1..o : skipped[i] = END
  <2>1. n \in Nat /\ n >= 1
    BY <1>6
  <2> QED
    BY <1>4, <1>5, <2>1, DelimitersFacts
<1>8. /\ frame \in Seq(Byte) /\ Len(frame) = p + n + 1
      /\ \A i \in 1..p : frame[i] = END
      /\ \A i \in 1..n : frame[p + i] = between[i]
      /\ frame[p + n + 1] = END
  BY <1>3, <1>5, <1>6, DelimitedFacts
<1>9. /\ starts = {} => got = Got(emptied, NoFrame)
      /\ starts # {} /\ ends = {} => got = Got(oscStream, NoFrame)
      /\ starts # {} /\ ends # {}
           => got = Got(Chop(oscStream, end), Unescaped(SubSeq(oscStream.buf, start, end - 1)))
  BY DEF GetNextFrame_1_1
<1>10. Got(emptied, NoFrame).stream.buf = <<>> /\ Got(emptied, NoFrame).frame = NoFrame
  BY DEF Stream, Got
<1>11. starts = {i \in 1..Len(buf) : buf[i] # END} /\ ends = {i \in 1..Len(buf) : i > start /\ buf[i] = END}
  BY <1>1, <1>2 DEF FrameStarts
<1> HIDE DEF got, starts, start, ends, end, emptied
<1>12. PICK all : all = skipped \o buf
  OBVIOUS
<1>13. /\ all \in Seq(Byte) /\ Len(all) = o + Len(buf) /\ Len(all) \in Nat
       /\ \A i \in 1..o : all[i] = END
       /\ \A i \in 1..Len(buf) : all[o + i] = buf[i]
  <2>1. PICK t : t = skipped
    OBVIOUS
  <2>2. t \in Seq(Byte) /\ buf \in Seq(Byte) /\ all = t \o buf /\ o = Len(t)
    BY <1>2, <1>4, <1>7, <1>12, <2>1
  <2>3. /\ all \in Seq(Byte) /\ Len(all) = Len(t) + Len(buf)
        /\ \A i \in 1..Len(t) : all[i] = t[i]
        /\ \A i \in 1..Len(buf) : all[Len(t) + i] = buf[i]
    BY <2>2, Joined
  <2>4. all \in Seq(Byte) /\ Len(all) = o + Len(buf) /\ \A i \in 1..Len(buf) : all[o + i] = buf[i]
    BY <2>2, <2>3
  <2>5. \A i \in 1..o : all[i] = END
    BY <1>7, <2>1, <2>2, <2>3
  <2>6. Len(all) \in Nat
    BY <1>2, <1>7, <2>4
  <2> QED
    BY <2>4, <2>5, <2>6
<1>14. all \o more = frame \o rest
  <2>1. (skipped \o buf) \o more = skipped \o (buf \o more)
    <3>1. PICK t : t = skipped
      OBVIOUS
    <3>2. t \in Seq(Byte) /\ buf \in Seq(Byte) /\ more \in Seq(Byte)
      BY <1>2, <1>7, <3>1
    <3>3. Associate(t, buf, more)
      BY <3>2, SequencesAssociate
    <3> QED
      BY <3>1, <3>3 DEF Associate
  <2> QED
    BY <1>1, <1>3, <1>12, <2>1
<1>15. \A i \in (p + 1)..(p + n) : frame[i] # END
  <2> TAKE i \in (p + 1)..(p + n)
  <2>1. i - p \in 1..n /\ p + (i - p) = i
    BY <1>7
  <2> QED
    BY <1>6, <1>8, <2>1
<1>16. CASE Len(all) < Len(frame)
  <2>1. PICK missing : missing = From(frame, Len(all))
    OBVIOUS
  <2>2. /\ missing \in Seq(Byte) /\ Len(missing) = Len(frame) - Len(all)
        /\ frame = all \o missing /\ missing \o rest = more
    <3>1. /\ all \in Seq(Byte) /\ more \in Seq(Byte) /\ frame \in Seq(Byte) /\ rest \in Seq(Byte)
          /\ frame \o rest = all \o more /\ Len(all) <= Len(frame)
      BY <1>7, <1>8, <1>13, <1>14, <1>16
    <3>2. Continues(frame, rest, all, more)
      BY <3>1, Overlap
    <3> QED
      BY <2>1, <3>2 DEF Continues
  <2>3. missing # <<>> /\ Len(buf) < Len(frame)
    <3>1. Len(frame) \in Nat
      BY <1>8
    <3>2. Len(missing) > 0
      BY <1>13, <1>16, <2>2, <3>1
    <3>3. Len(buf) < Len(frame)
      BY <1>2, <1>7, <1>13, <1>16, <3>1
    <3> QED
      BY <3>2, <3>3
  <2>4. more # <<>>
    BY <2>2, <2>3, ConcatEqualIffEmpty
  <2>5. \A i \in 1..Len(all) : all[i] = frame[i] /\ i \in 1..(p + n)
    <3> TAKE i \in 1..Len(all)
    <3>1. (all \o missing)[i] = all[i]
      BY <1>13, <2>2, Joined
    <3>2. i \in 1..(p + n)
      BY <1>7, <1>8, <1>13, <1>16
    <3> QED
      BY <2>2, <3>1, <3>2
  <2>6. \A i \in 1..Len(buf) : buf[i] = frame[o + i] /\ o + i \in 1..(p + n)
    <3> TAKE i \in 1..Len(buf)
    <3>1. o + i \in 1..Len(all)
      BY <1>2, <1>7, <1>13
    <3> QED
      BY <1>13, <2>5, <3>1
  <2>7. CASE starts = {}
    <3>1. ASSUME NEW i \in 1..Len(all) PROVE all[i] = END
      <4>1. CASE i <= o
        <5>1. i \in 1..o
          BY <1>7, <1>13, <4>1
        <5> QED
          BY <1>13, <5>1
      <4>2. CASE ~(i <= o)
        <5>1. i - o \in 1..Len(buf) /\ o + (i - o) = i
          BY <1>2, <1>7, <1>13, <4>2
        <5>2. buf[i - o] = END
          BY <1>11, <2>7, <5>1
        <5> QED
          BY <1>13, <5>1, <5>2
      <4> QED
        BY <4>1, <4>2
    <3>2. all \in Seq({END})
      BY <1>13, <3>1, AreDelimiters
    <3>3. got.frame = NoFrame /\ got.stream.buf = <<>>
      BY <1>9, <1>10, <2>7
    <3>4. <<>> \o more = more
      OBVIOUS
    <3>5. all \o (got.stream.buf \o more) = frame \o rest
      BY <1>14, <3>3, <3>4
    <3> QED
      BY <1>1, <1>3, <2>3, <2>4, <3>2, <3>3, <3>5 DEF got, GetsDelimited
  <2>8. CASE starts # {}
    <3>1. start \in starts
      <4>1. starts \in SUBSET Nat
        BY <1>2, <1>11
      <4> QED
        BY <2>8, <4>1, MinFacts DEF start
    <3>2. start \in Nat /\ o + start >= p + 1
      <4>1. start \in 1..Len(buf) /\ buf[start] # END
        BY <1>11, <3>1
      <4>2. o + start \notin 1..p
        BY <1>8, <2>6, <4>1
      <4> QED
        BY <1>7, <4>1, <4>2
    <3>3. ends = {}
      <4> SUFFICES ASSUME NEW i \in ends PROVE FALSE
        OBVIOUS
      <4>1. i \in 1..Len(buf) /\ i > start /\ buf[i] = END
        BY <1>11
      <4>2. o + i \in (p + 1)..(p + n)
        BY <1>7, <2>6, <3>2, <4>1
      <4> QED
        BY <1>15, <2>6, <4>1, <4>2
    <3>4. got.frame = NoFrame /\ got.stream.buf = buf
      BY <1>1, <1>9, <2>8, <3>3 DEF Got
    <3> QED
      BY <1>1, <1>3, <1>7, <2>3, <2>4, <3>4 DEF got, GetsDelimited
  <2> QED
    BY <2>7, <2>8
<1>17. CASE Len(frame) <= Len(all)
  <2>1. PICK kept : kept = From(all, Len(frame))
    OBVIOUS
  <2>2. /\ kept \in Seq(Byte) /\ Len(kept) = Len(all) - Len(frame)
        /\ all = frame \o kept /\ kept \o more = rest
    <3>1. /\ all \in Seq(Byte) /\ more \in Seq(Byte) /\ frame \in Seq(Byte) /\ rest \in Seq(Byte)
          /\ all \o more = frame \o rest /\ Len(frame) <= Len(all)
      BY <1>8, <1>13, <1>14, <1>17
    <3>2. Continues(all, more, frame, rest)
      BY <3>1, Overlap
    <3> QED
      BY <2>1, <3>2 DEF Continues
  <2>3. ASSUME NEW i \in 1..Len(frame) PROVE all[i] = frame[i]
    <3>1. (frame \o kept)[i] = frame[i]
      BY <1>8, <2>2, Joined
    <3> QED
      BY <2>2, <3>1
  <2>4. o <= p
    <3> SUFFICES ASSUME p < o PROVE FALSE
      BY <1>7
    <3>1. p + 1 \in 1..o /\ p + 1 \in 1..Len(frame) /\ p + 1 \in (p + 1)..(p + n)
      BY <1>7, <1>8
    <3> QED
      BY <1>13, <1>15, <2>3, <3>1
  <2>5. ASSUME NEW i \in 1..Len(buf), o + i <= p + n + 1 PROVE buf[i] = frame[o + i] /\ o + i \in 1..(p + n + 1)
    <3>1. o + i \in 1..Len(frame)
      BY <1>7, <1>8, <2>5
    <3> QED
      BY <1>8, <1>13, <2>3, <3>1
  <2>6. Len(buf) >= p + n + 1 - o
    BY <1>2, <1>7, <1>8, <1>13, <1>17
  <2>7. p + 1 - o \in starts
    <3>1. p + 1 - o \in 1..Len(buf) /\ o + (p + 1 - o) = p + 1 /\ p + 1 <= p + n + 1 /\ p + 1 \in (p + 1)..(p + n)
      BY <1>2, <1>7, <2>4, <2>6
    <3>2. buf[p + 1 - o] = frame[p + 1]
      BY <2>5, <3>1
    <3> QED
      BY <1>11, <1>15, <3>1, <3>2
  <2>8. start = p + 1 - o
    <3>1. starts \in SUBSET Nat
      BY <1>2, <1>11
    <3>2. start \in starts /\ start <= p + 1 - o
      BY <2>7, <3>1, MinFacts DEF start
    <3>3. start \in 1..Len(buf) /\ buf[start] # END
      BY <1>11, <3>2
    <3>4. o + start \notin 1..p
      <4>1. SUFFICES ASSUME o + start \in 1..p PROVE FALSE
        OBVIOUS
      <4>2. o + start <= p + n + 1
        BY <1>7, <4>1
      <4>3. buf[start] = frame[o + start]
        BY <2>5, <3>3, <4>2
      <4> QED
        BY <1>8, <3>3, <4>1, <4>3
    <3> QED
      BY <1>7, <2>4, <3>2, <3>3, <3>4
  <2>9. p + n + 1 - o \in ends
    <3>1. /\ p + n + 1 - o \in 1..Len(buf) /\ o + (p + n + 1 - o) = p + n + 1 /\ p + n + 1 <= p + n + 1
          /\ p + n + 1 - o > p + 1 - o
      BY <1>2, <1>7, <2>4, <2>6
    <3>2. buf[p + n + 1 - o] = frame[p + n + 1]
      BY <2>5, <3>1
    <3> QED
      BY <1>8, <1>11, <2>8, <3>1, <3>2
  <2>10. end = p + n + 1 - o
    <3>1. ends \in SUBSET Nat
      BY <1>2, <1>11
    <3>2. end \in ends /\ end <= p + n + 1 - o
      BY <2>9, <3>1, MinFacts DEF end
    <3>3. end \in 1..Len(buf) /\ end > p + 1 - o /\ buf[end] = END
      BY <1>11, <2>8, <3>2
    <3>4. SUFFICES ASSUME end # p + n + 1 - o PROVE FALSE
      OBVIOUS
    <3>5. o + end \in (p + 1)..(p + n) /\ o + end <= p + n + 1
      BY <1>7, <2>4, <3>2, <3>3, <3>4
    <3> QED
      BY <1>15, <2>5, <3>3, <3>5
  <2>11. SubSeq(buf, start, end - 1) = between
    <3>1. PICK a : a = p + 1 - o
      OBVIOUS
    <3>2. PICK b : b = p + n - o
      OBVIOUS
    <3>3. a \in Nat /\ b \in Nat /\ 1 <= a /\ a <= b /\ b <= Len(buf) /\ b - a + 1 = n
      BY <1>2, <1>7, <2>4, <2>6, <3>1, <3>2
    <3>4. PICK cut : cut = SubSeq(buf, a, b)
      OBVIOUS
    <3>5. /\ cut \in Seq(Byte) /\ Len(cut) = b - a + 1
          /\ \A i \in 1..(b - a + 1) : cut[i] = buf[a + i - 1]
      <4>1. buf \in Seq(Byte) /\ a \in 1..Len(buf) /\ b \in 1..Len(buf) /\ a <= b
        BY <1>2, <3>3
      <4> QED
        BY <3>4, <4>1, PartFacts
    <3>6. cut \in Seq(Byte) /\ Len(cut) = n /\ \A i \in 1..n : cut[i] = buf[a + i - 1]
      BY <3>3, <3>5
    <3>7. ASSUME NEW i \in 1..n PROVE cut[i] = between[i]
      <4>1. a + i - 1 \in 1..Len(buf) /\ o + (a + i - 1) = p + i /\ p + i <= p + n + 1
        BY <1>2, <1>7, <2>4, <2>6, <3>1
      <4>2. buf[a + i - 1] = frame[p + i]
        BY <2>5, <4>1
      <4> QED
        BY <1>8, <3>6, <4>2
    <3>8. cut = between
      BY <1>6, <3>6, <3>7, SeqEqual
    <3>9. end - 1 = b /\ start = a
      BY <1>7, <2>4, <2>8, <2>10, <3>1, <3>2
    <3> QED
      BY <3>4, <3>8, <3>9
  <2>12. From(buf, end) = kept
    <3>1. PICK c : c = p + n + 1 - o
      OBVIOUS
    <3>2. c \in Nat /\ c <= Len(buf) /\ o + c = p + n + 1
      BY <1>2, <1>7, <2>4, <2>6, <3>1
    <3>3. PICK tail : tail = From(buf, c)
      OBVIOUS
    <3>4. /\ tail \in Seq(Byte) /\ Len(tail) = Len(buf) - c
          /\ \A i \in 1..(Len(buf) - c) : tail[i] = buf[c + i]
      <4>1. buf \in Seq(Byte) /\ c \in Nat /\ c <= Len(buf)
        BY <1>2, <3>2
      <4> QED
        BY <3>3, <4>1, FromElements
    <3>5. Len(kept) = Len(tail) /\ Len(tail) = Len(buf) - c
      <4>1. Len(kept) = (o + Len(buf)) - (p + n + 1)
        BY <1>8, <1>13, <2>2
      <4>2. Len(tail) = Len(buf) - c
        BY <3>4
      <4>3. Len(buf) - c = (o + Len(buf)) - (p + n + 1)
        <5>1. PICK l : l = Len(buf)
          OBVIOUS
        <5>2. c \in Nat /\ o \in Nat /\ p \in Nat /\ n \in Nat /\ l \in Nat /\ o + c = p + n + 1
          BY <1>2, <1>7, <3>2, <5>1
        <5>3. l - c = (o + l) - (p + n + 1)
          BY <5>2
        <5> QED
          BY <5>1, <5>3
      <4> QED
        BY <4>1, <4>2, <4>3
    <3>6. ASSUME NEW i \in 1..Len(tail) PROVE tail[i] = kept[i]
      <4>1. c + i \in 1..Len(buf) /\ o + (c + i) = (p + n + 1) + i /\ i \in 1..(Len(buf) - c)
        BY <1>2, <1>7, <3>2, <3>5
      <4>2. all[(p + n + 1) + i] = buf[c + i]
        BY <1>13, <4>1
      <4>3. (frame \o kept)[Len(frame) + i] = kept[i]
        <5>1. PICK f : f = frame
          OBVIOUS
        <5>2. f \in Seq(Byte) /\ kept \in Seq(Byte) /\ i \in 1..Len(kept)
          BY <1>8, <2>2, <3>5, <5>1
        <5>3. \A j \in 1..Len(kept) : (f \o kept)[Len(f) + j] = kept[j]
          BY <5>2, Joined
        <5> QED
          BY <5>1, <5>2, <5>3
      <4> QED
        BY <1>8, <2>2, <3>4, <4>1, <4>2, <4>3
    <3>7. tail = kept
      BY <2>2, <3>4, <3>5, <3>6, SeqEqual
    <3> QED
      BY <2>10, <3>1, <3>3, <3>7
  <2>13. got = Got(Chop(oscStream, end), Unescaped(between))
    <3>1. starts # {} /\ ends # {} /\ SubSeq(oscStream.buf, start, end - 1) = between
      BY <1>1, <2>7, <2>9, <2>11
    <3> QED
      BY <1>9, <3>1
  <2>14. got.frame = Unescaped(between) /\ got.stream.buf = kept
    BY <1>1, <2>12, <2>13 DEF Got, Chop, Stream
  <2> QED
    BY <2>2, <2>14 DEF got, GetsDelimited
<1> QED
  <2>1. Len(frame) \in Nat /\ Len(all) \in Nat
    BY <1>7, <1>8, <1>13
  <2> QED
    BY <1>16, <1>17, <2>1

\* The frame of a packet, between one delimiter and another.
LEMMA FrameIsDelimited ==
  ASSUME NEW packet \in Packet
  PROVE  /\ CreateFrame("FRAME_MODE_1_1", packet) = Delimited(<<END>>, Escapes(packet))
         /\ Escapes(packet) \in Seq(Byte) /\ Escapes(packet) # <<>>
         /\ \A i \in 1..Len(Escapes(packet)) : Escapes(packet)[i] # END
         /\ Unescaped(Escapes(packet)) = packet
<1>1. packet \in Seq(Byte) /\ Len(packet) >= 1
  BY DEF Packet
<1>2. PICK e : e = Escapes(packet)
  OBVIOUS
<1>3. /\ e \in Seq(Byte) /\ Len(e) >= Len(packet) /\ Unescaped(e) = packet
      /\ \A i \in 1..Len(e) : e[i] # END
  BY <1>1, <1>2, EscapesCancel
<1>4. e # <<>>
  <2>1. Len(e) # 0
    BY <1>1, <1>3
  <2> QED
    BY <2>1
<1>5. CreateFrame("FRAME_MODE_1_1", packet) = Delimited(<<END>>, e)
  BY <1>2, DelimitedFrame DEF Delimited
<1> QED
  BY <1>2, <1>3, <1>4, <1>5

\* In frames between delimiters.
LEMMA GetsNextDelimitedFrame ==
  ASSUME NEW packets \in Seq(Packet), NEW oscStream \in Stream, NEW more \in Seq(Byte),
         Flow("FRAME_MODE_1_1", packets, oscStream.buf \o more)
  PROVE  GetsNext("FRAME_MODE_1_1", packets, oscStream.buf, more, GetNextFrame_1_1(oscStream))
<1> DEFINE m == "FRAME_MODE_1_1"
<1>1. m \in FrameMode /\ oscStream.buf \in Seq(Byte)
  BY DEF FrameMode, Stream
<1>2. PICK skipped \in Seq({END}) : skipped \o (oscStream.buf \o more) = FramesOf(m, packets)
  BY DEF Flow
<1>3. PICK got : got = GetNextFrame_1_1(oscStream)
  OBVIOUS
<1>4. CASE packets = <<>>
  <2>1. skipped = <<>> /\ oscStream.buf = <<>> /\ more = <<>>
    BY <1>1, <1>2, <1>4, NoPackets
  <2>2. <<>> \in Seq({END}) /\ skipped \o (oscStream.buf \o more) = <<>>
    BY <2>1, NoDelimiter
  <2>3. got.frame = NoFrame /\ got.stream.buf = <<>>
    BY <1>3, <2>2, ReadsDelimiters
  <2> QED
    BY <1>3, <1>4, <2>1, <2>3 DEF GetsNext
<1>5. CASE packets # <<>>
  <2>1. PICK first : first = Head(packets)
    OBVIOUS
  <2>2. PICK rest : rest = FramesOf(m, Tail(packets))
    OBVIOUS
  <2>3. PICK e : e = Escapes(first)
    OBVIOUS
  <2>4. PICK d : d = <<END>>
    OBVIOUS
  <2>5. /\ first \in Packet /\ Tail(packets) \in Seq(Packet)
        /\ FramesOf(m, packets) = CreateFrame(m, first) \o rest
    BY <1>1, <1>5, <2>1, <2>2, FramesSplit
  <2>6. rest \in Seq(Byte)
    BY <1>1, <2>2, <2>5, FramesType
  <2>7. /\ CreateFrame(m, first) = Delimited(d, e)
        /\ e \in Seq(Byte) /\ e # <<>> /\ (\A i \in 1..Len(e) : e[i] # END) /\ Unescaped(e) = first
    BY <2>3, <2>4, <2>5, FrameIsDelimited
  <2>8. d \in Seq({END})
    BY <2>4, OneDelimiter
  <2>9. skipped \o (oscStream.buf \o more) = Delimited(d, e) \o rest
    BY <1>2, <2>5, <2>7
  <2>10. GetsDelimited(d, e, rest, oscStream.buf, more, got)
    <3>1. /\ d \in Seq({END}) /\ e \in Seq(Byte) /\ e # <<>> /\ (\A i \in 1..Len(e) : e[i] # END)
          /\ rest \in Seq(Byte) /\ skipped \in Seq({END})
          /\ skipped \o (oscStream.buf \o more) = Delimited(d, e) \o rest
      BY <2>6, <2>7, <2>8, <2>9
    <3> QED
      BY <1>3, <3>1, ReadsDelimited
  <2>11. CASE /\ got.frame = NoFrame /\ more # <<>> /\ Len(oscStream.buf) < Len(Delimited(d, e))
              /\ \E s \in Seq({END}) : s \o (got.stream.buf \o more) = Delimited(d, e) \o rest
    <3>1. Flow(m, packets, got.stream.buf \o more)
      BY <2>5, <2>7, <2>11 DEF Flow
    <3> QED
      BY <1>3, <1>5, <2>1, <2>7, <2>11, <3>1 DEF GetsNext
  <2>12. CASE got.frame = Unescaped(e) /\ got.stream.buf \o more = rest
    <3>1. <<>> \in Seq({END}) /\ <<>> \o rest = rest
      BY <2>6, NoDelimiter
    <3>2. Flow(m, Tail(packets), got.stream.buf \o more)
      BY <2>2, <2>12, <3>1 DEF Flow
    <3> QED
      BY <1>3, <1>5, <2>1, <2>7, <2>12, <3>2 DEF GetsNext
  <2> QED
    BY <2>10, <2>11, <2>12 DEF GetsDelimited
<1> QED
  BY <1>4, <1>5

(***************************************************************************)
(* In either mode and however the bytes were cut, GetNextFrame returns the *)
(* first packet that has not been received as soon as its frame is there,  *)
(* nothing before, and leaves the frames behind it (OSCParser.cpp:145).    *)
(***************************************************************************)
THEOREM GetsNextFrame ==
  ASSUME MaxFrameSize < 2^31, NEW frameMode \in FrameMode, NEW packets \in Seq(Packet),
         NEW oscStream \in Stream, NEW more \in Seq(Byte),
         Flow(frameMode, packets, oscStream.buf \o more)
  PROVE  GetsNext(frameMode, packets, oscStream.buf, more, GetNextFrame(frameMode, oscStream))
<1>1. CASE frameMode = "FRAME_MODE_1_0"
  BY <1>1, GetsNextHeaderFrame DEF GetNextFrame
<1>2. CASE frameMode = "FRAME_MODE_1_1"
  BY <1>2, GetsNextDelimitedFrame DEF GetNextFrame
<1> QED
  BY <1>1, <1>2 DEF FrameMode
----------------------------------------------------------------------------
(* The longest frame, and the room a chunk needs. *)

\* A finite set of numbers has a maximum, and Max finds it.
LEMMA MaxFacts ==
  ASSUME NEW S \in SUBSET Nat, S # {}, IsFiniteSet(S)
  PROVE  Max(S) \in S /\ \A n \in S : n <= Max(S)
<1> DEFINE R == {pair \in Nat \X Nat : pair[1] < pair[2]}
           N == Cardinality(S)
<1>1. \A a, b \in Nat : <<a, b>> \in R <=> a < b
  OBVIOUS
<1> HIDE DEF R
<1>2. StrictOrder(R, S)
  BY <1>1 DEF StrictOrder
<1>3. PICK s : Enumerates(s, S, R)
  BY <1>2, EnumerationExists
<1>4. /\ N \in Nat /\ s \in Seq(S) /\ Len(s) = N
      /\ \A x \in S : \E i \in 1..N : s[i] = x
  BY <1>2, <1>3, EnumerationComplete
<1>5. \A i, j \in 1..N : i < j => <<s[i], s[j]>> \in R
  BY <1>3 DEF Enumerates
<1> HIDE DEF N
<1>6. N \in 1..N
  <2>1. PICK x \in S : TRUE
    OBVIOUS
  <2>2. PICK i \in 1..N : s[i] = x
    BY <1>4
  <2> QED
    BY <1>4, <2>2
<1>7. s[N] \in S
  BY <1>4, <1>6
<1>8. ASSUME NEW n \in S PROVE s[N] >= n
  <2>1. PICK i \in 1..N : s[i] = n
    BY <1>4
  <2>2. CASE i = N
    BY <1>7, <2>1, <2>2
  <2>3. CASE i # N
    <3>1. <<s[i], s[N]>> \in R
      BY <1>4, <1>5, <1>6, <2>3
    <3>2. s[i] \in Nat /\ s[N] \in Nat
      BY <1>7, <2>1
    <3>3. s[i] < s[N]
      BY <1>1, <3>1, <3>2
    <3> QED
      BY <2>1, <3>2, <3>3
  <2> QED
    BY <2>2, <2>3
<1>9. Max(S) \in S /\ \A n \in S : Max(S) >= n
  BY <1>7, <1>8 DEF Max
<1>10. ASSUME NEW n \in S PROVE n <= Max(S)
  <2>1. Max(S) >= n /\ n \in Nat /\ Max(S) \in Nat
    BY <1>9
  <2> QED
    BY <2>1
<1> QED
  BY <1>9, <1>10

FrameLengths(frameMode, packets) == {0} \cup {Len(CreateFrame(frameMode, packet)) : packet \in Range(packets)}

\* There is a longest frame, and with more packets it is not shorter.
LEMMA LongestFacts ==
  ASSUME NEW frameMode \in FrameMode, NEW p \in Seq(Packet), NEW q \in Seq(Packet)
  PROVE  /\ Max(FrameLengths(frameMode, p)) \in Nat
         /\ \A packet \in Range(p) : Len(CreateFrame(frameMode, packet)) <= Max(FrameLengths(frameMode, p))
         /\ Max(FrameLengths(frameMode, p)) <= Max(FrameLengths(frameMode, p \o q))
<1>1. ASSUME NEW r \in Seq(Packet)
      PROVE  /\ FrameLengths(frameMode, r) \in SUBSET Nat /\ FrameLengths(frameMode, r) # {}
             /\ IsFiniteSet(FrameLengths(frameMode, r))
  <2>1. Len(r) \in Nat /\ \A i \in 1..Len(r) : r[i] \in Packet
    OBVIOUS
  <2>2. Range(r) = {r[i] : i \in 1..Len(r)}
    BY DEF Range
  <2>3. IsFiniteSet(Range(r))
    <3>1. IsFiniteSet(1..Len(r))
      BY <2>1, FS_Interval
    <3> QED
      BY <2>2, <3>1, ImageFinite
  <2> DEFINE f == [packet \in Range(r) |-> Len(CreateFrame(frameMode, packet))]
             T == {f[packet] : packet \in Range(r)}
  <2>4. FrameLengths(frameMode, r) = {0} \cup T
    BY DEF FrameLengths
  <2>5. T \in SUBSET Nat
    <3>1. ASSUME NEW packet \in Range(r) PROVE Len(CreateFrame(frameMode, packet)) \in Nat
      <4>1. packet \in Packet
        BY <2>1, <2>2
      <4>2. CreateFrame(frameMode, packet) \in Seq(Byte)
        BY <4>1, FrameType
      <4> QED
        BY <4>2
    <3> QED
      BY <3>1
  <2> HIDE DEF f
  <2>6. IsFiniteSet(T)
    BY <2>3, ImageFinite
  <2> HIDE DEF T
  <2>7. IsFiniteSet({0} \cup T)
    BY <2>6, FS_Union, FS_Singleton
  <2> QED
    BY <2>4, <2>5, <2>7
<1>2. PICK r : r = p \o q
  OBVIOUS
<1>3. r \in Seq(Packet) /\ Range(p) \subseteq Range(r)
  BY <1>2, RangeOfJoin
<1> DEFINE P == FrameLengths(frameMode, p)
           R == FrameLengths(frameMode, r)
<1>4. P \subseteq R /\ \A packet \in Range(p) : Len(CreateFrame(frameMode, packet)) \in P
  BY <1>3 DEF FrameLengths
<1>5. P \in SUBSET Nat /\ P # {} /\ IsFiniteSet(P) /\ R \in SUBSET Nat /\ R # {} /\ IsFiniteSet(R)
  BY <1>1, <1>3
<1> HIDE DEF P, R
<1>6. Max(P) \in P /\ (\A n \in P : n <= Max(P)) /\ \A n \in R : n <= Max(R)
  BY <1>5, MaxFacts
<1>7. Max(P) \in Nat /\ Max(P) <= Max(R)
  BY <1>4, <1>5, <1>6
<1>8. \A packet \in Range(p) : Len(CreateFrame(frameMode, packet)) <= Max(P)
  BY <1>4, <1>6
<1> QED
  BY <1>2, <1>7, <1>8 DEF P, R

\* A stream is cleared only if three times its bytes and the new ones are too many.
LEMMA OverflowNeedsRoom ==
  ASSUME NEW oscStream \in Stream, Bounded(oscStream), NEW size \in Nat, Overflows(oscStream, size)
  PROVE  GrowMultiplier * (Len(oscStream.buf) + size) > MaxBufSize
<1>1. oscStream.buf \in Seq(Byte) /\ oscStream.capacity \in Nat /\ Len(oscStream.buf) \in Nat
  BY DEF Stream
<1>2. Len(oscStream.buf) <= oscStream.capacity /\ oscStream.capacity <= MaxBufSize
  BY DEF Bounded
<1>3. GrownCapacity(oscStream, size) > MaxBufSize
  BY DEF Overflows
<1> DEFINE l == Len(oscStream.buf)
           c == oscStream.capacity
<1>4. GrownCapacity(oscStream, size) = IF c = 0 THEN 3 * size
                                       ELSE IF c - l < size THEN 3 * (c + size - (c - l)) ELSE c
  BY DEF GrownCapacity, GrowMultiplier
<1>5. l \in Nat /\ c \in Nat /\ l <= c /\ c <= MaxBufSize /\ MaxBufSize \in Nat
  BY <1>1, <1>2, FrameSizesAssumption
<1> HIDE DEF l, c
<1>6. 3 * (l + size) > MaxBufSize
  BY <1>3, <1>4, <1>5
<1> QED
  BY <1>6 DEF l, GrowMultiplier

\* What arrives and what does not are what was on the wire.
LEMMA WireSplit ==
  ASSUME NEW bytes \in Seq(Byte), bytes # <<>>, NEW n \in Nat \ {0}
  PROVE  /\ UpTo(bytes, n) \in Seq(Byte) /\ UpTo(bytes, n) # <<>> /\ Len(UpTo(bytes, n)) <= n
         /\ From(bytes, n) \in Seq(Byte)
         /\ UpTo(bytes, n) \o From(bytes, n) = bytes
<1>1. Len(bytes) \in Nat /\ Len(bytes) >= 1
  OBVIOUS
<1> DEFINE k == Min({n, Len(bytes)})
<1>2. k \in {n, Len(bytes)} /\ k <= Len(bytes) /\ k <= n
  BY <1>1, MinFacts
<1> HIDE DEF k
<1>3. k \in Nat /\ k >= 1
  BY <1>1, <1>2
<1>4. UpTo(bytes, n) = SubSeq(bytes, 1, k)
  BY DEF UpTo, k
<1>5. PICK front : front = SubSeq(bytes, 1, k)
  OBVIOUS
<1>6. PICK rest : rest = SubSeq(bytes, n + 1, Len(bytes))
  OBVIOUS
<1>7. front \in Seq(Byte) /\ Len(front) = k /\ \A i \in 1..k : front[i] = bytes[i]
  BY <1>1, <1>2, <1>3, <1>5
<1>8. /\ rest \in Seq(Byte) /\ Len(rest) = Len(bytes) - k
      /\ \A i \in 1..(Len(bytes) - k) : rest[i] = bytes[k + i]
  <2>1. CASE k = n
    BY <1>1, <1>2, <1>6, <2>1
  <2>2. CASE k # n
    <3>1. k = Len(bytes) /\ n > Len(bytes)
      BY <1>1, <1>2, <2>2
    <3>2. rest = <<>>
      BY <1>1, <1>6, <3>1
    <3>3. rest \in Seq(Byte) /\ Len(rest) = 0 /\ Len(bytes) - k = 0
      BY <1>1, <3>1, <3>2
    <3> QED
      BY <3>3
  <2> QED
    BY <2>1, <2>2
<1>9. /\ front \o rest \in Seq(Byte) /\ Len(front \o rest) = Len(front) + Len(rest)
      /\ \A i \in 1..(Len(front) + Len(rest)) :
           (front \o rest)[i] = IF i <= Len(front) THEN front[i] ELSE rest[i - Len(front)]
  BY <1>7, <1>8, JoinFacts
<1>10. PICK all : all = front \o rest
  OBVIOUS
<1>11. all = bytes
  <2>1. all \in Seq(Byte) /\ Len(all) = Len(bytes)
    <3>1. all \in Seq(Byte) /\ Len(all) = Len(front) + Len(rest)
      BY <1>9, <1>10
    <3>2. Len(front) + Len(rest) = Len(bytes)
      BY <1>1, <1>3, <1>7, <1>8
    <3> QED
      BY <3>1, <3>2
  <2>2. ASSUME NEW i \in 1..Len(bytes) PROVE all[i] = bytes[i]
    <3>1. CASE i <= k
      <4>1. i \in 1..k /\ i \in 1..(Len(front) + Len(rest))
        BY <1>1, <1>3, <1>7, <1>8, <3>1
      <4> QED
        BY <1>7, <1>9, <1>10, <3>1, <4>1
    <3>2. CASE ~(i <= k)
      <4>1. i - k \in 1..(Len(bytes) - k) /\ i \in 1..(Len(front) + Len(rest)) /\ k + (i - k) = i
        BY <1>1, <1>3, <1>7, <1>8, <3>2
      <4>2. all[i] = rest[i - k]
        BY <1>7, <1>9, <1>10, <3>2, <4>1
      <4> QED
        BY <1>8, <4>1, <4>2
    <3> QED
      BY <3>1, <3>2
  <2>3. \A i \in 1..Len(all) : all[i] = bytes[i]
    BY <2>1, <2>2
  <2> QED
    BY <2>1, <2>3, SeqEqual
<1>12. front # <<>>
  BY <1>3, <1>7
<1>13. UpTo(bytes, n) = front /\ From(bytes, n) = rest
  BY <1>4, <1>5, <1>6 DEF From
<1> QED
  BY <1>2, <1>7, <1>8, <1>10, <1>11, <1>12, <1>13
----------------------------------------------------------------------------
(* The pipe. *)

(***************************************************************************)
(* StreamBounded alone is not inductive: the bytes that arrive must be     *)
(* bytes, and so must be the ones on the wire and those still to be made.  *)
(***************************************************************************)
PipeInv ==
  /\ mode \in FrameMode
  /\ todo \in Seq(Inputs)
  /\ wire \in Seq(Byte)
  /\ stream \in Stream
  /\ StreamBounded

\* StreamBounded is the bound of the one stream there is.
LEMMA StreamBoundedIsBounded == StreamBounded <=> Bounded(stream)
BY DEF StreamBounded, Bounded

\* Arrived bytes and those that have not arrived are the bytes on the wire.
LEMMA WireFacts ==
  ASSUME NEW bytes \in Seq(Byte), NEW n \in Nat
  PROVE  UpTo(bytes, n) \in Seq(Byte) /\ From(bytes, n) \in Seq(Byte)
<1>1. Len(bytes) \in Nat
  OBVIOUS
<1> DEFINE k == Min({n, Len(bytes)})
<1>2. k \in {n, Len(bytes)} /\ k <= Len(bytes)
  BY <1>1, MinFacts
<1> HIDE DEF k
<1>3. k \in Nat
  BY <1>1, <1>2
<1>4. UpTo(bytes, n) = SubSeq(bytes, 1, k)
  BY DEF UpTo, k
<1>5. SubSeq(bytes, 1, k) \in Seq(Byte)
  BY <1>1, <1>2, <1>3
<1>6. SubSeq(bytes, n + 1, Len(bytes)) \in Seq(Byte)
  BY <1>1
<1> QED
  BY <1>4, <1>5, <1>6 DEF From

\* PipeInv holds when nothing has been sent.
LEMMA InitPipe == Init => PipeInv
<1> SUFFICES ASSUME Init PROVE PipeInv
  OBVIOUS
<1>1. todo \in Seq(Inputs) /\ mode \in FrameMode /\ stream = NewStream
  BY InputsAssumption DEF Init
<1>2. wire \in Seq(Byte)
  BY DEF Init
<1> QED
  BY <1>1, <1>2, NewBounded, StreamBoundedIsBounded DEF PipeInv

\* Every step keeps it.
LEMMA NextPipe == PipeInv /\ [Next]_vars => PipeInv'
<1> SUFFICES ASSUME PipeInv, [Next]_vars PROVE PipeInv'
  OBVIOUS
<1> USE DEF PipeInv
<1>1. Bounded(stream) /\ (StreamBounded' <=> Bounded(stream'))
  BY StreamBoundedIsBounded DEF StreamBounded, Bounded
<1>2. CASE Send
  <2>1. PICK u \in Uninitialized :
          wire' = wire \/ wire' = wire \o FlattenSeq(Frames(mode, Packets(Head(todo), u)))
    BY <1>2 DEF Send
  <2>2. Head(todo) \in Inputs /\ Tail(todo) \in Seq(Inputs)
    BY <1>2 DEF Send
  <2>3. FlattenSeq(Frames(mode, Packets(Head(todo), u))) \in Seq(Byte)
    <3>1. Packets(Head(todo), u) \in Seq(Seq(Byte))
      BY <2>2, InputsAssumption
    <3> QED
      BY <3>1, FramesAreBytes
  <2>4. wire' \in Seq(Byte)
    BY <2>1, <2>3, Joined
  <2> QED
    BY <1>2, <2>2, <2>4 DEF Send, StreamBounded
<1>3. ASSUME NEW n \in ChunkSizes, Arrive(n) PROVE PipeInv'
  <2>1. n \in Nat
    BY PipeAssumption
  <2>2. stream' = Add(stream, UpTo(wire, n)) /\ wire' = From(wire, n) /\ UNCHANGED <<mode, todo>>
    BY <1>3 DEF Arrive
  <2>3. stream' \in Stream /\ Bounded(stream')
    BY <1>1, <2>1, <2>2, WireFacts, AddBounded
  <2> QED
    BY <1>1, <2>1, <2>2, <2>3, WireFacts
<1>4. CASE Read
  <2>1. stream' = GetNextFrame(mode, stream).stream /\ UNCHANGED <<mode, todo, wire>>
    BY <1>4 DEF Read
  <2>2. stream' \in Stream /\ Bounded(stream')
    BY <1>1, <2>1, GetNextFrameBounded
  <2> QED
    BY <1>1, <2>1, <2>2
<1>5. CASE UNCHANGED vars
  BY <1>5 DEF vars, StreamBounded
<1> QED
  BY <1>2, <1>3, <1>4, <1>5 DEF Next

(***************************************************************************)
(* The stream never holds more than it has room for, and never more room   *)
(* than MAX_BUF_SIZE, in either mode and however slowly the receiver asks  *)
(* for frames (OSCStream::Add, OSCParser.cpp:98).                         *)
(***************************************************************************)
THEOREM StreamCorrect == Spec => []StreamBounded
<1>1. PipeInv => StreamBounded
  BY DEF PipeInv
<1> QED
  BY InitPipe, NextPipe, <1>1, PTL DEF Spec
----------------------------------------------------------------------------
(* What was sent and what is received. *)

Entry == [input : Inputs, packets : Seq(Packet)]

PacketsOf(entries) == FlattenSeq([i \in DOMAIN entries |-> entries[i].packets])

\* SentPackets is made of the entries sent.
LEMMA SentPacketsFacts == SentPackets = PacketsOf(sent) /\ PacketsOf(<<>>) = <<>>
<1>1. SentPackets = PacketsOf(sent)
  BY DEF SentPackets, PacketsOf
<1>2. PICK e : e = [i \in DOMAIN <<>> |-> <<>>[i].packets]
  OBVIOUS
<1>3. e = <<>>
  BY <1>2
<1>4. <<>> \in Seq(Seq(Packet)) /\ \A i \in 1..Len(<<>>) : <<>>[i] = <<>>
  OBVIOUS
<1>5. FlattenSeq(<<>>) = <<>>
  BY <1>4, FlattenEmpty
<1> QED
  BY <1>1, <1>2, <1>3, <1>5 DEF PacketsOf

\* The packets of entries are packets, one entry behind the other.
LEMMA PacketsOfType ==
  ASSUME NEW entries \in Seq(Entry)
  PROVE  PacketsOf(entries) \in Seq(Packet)
<1>1. PICK a : a = [i \in DOMAIN entries |-> entries[i].packets]
  OBVIOUS
<1>2. \A i \in 1..Len(entries) : entries[i].packets \in Seq(Packet)
  <2>1. \A i \in 1..Len(entries) : entries[i] \in Entry
    OBVIOUS
  <2>2. \A e \in Entry : e.packets \in Seq(Packet)
    BY DEF Entry
  <2> QED
    BY <2>1, <2>2
<1>3. a \in Seq(Seq(Packet))
  BY <1>1, <1>2
<1> QED
  BY <1>1, <1>3, FlattenFacts DEF PacketsOf

\* An entry more adds its packets behind the others.
LEMMA PacketsOfMore ==
  ASSUME NEW entries \in Seq(Entry), NEW entry \in Entry
  PROVE  PacketsOf(Append(entries, entry)) = PacketsOf(entries) \o entry.packets
<1>1. Len(entries) \in Nat /\ DOMAIN entries = 1..Len(entries) /\ entry.packets \in Seq(Packet)
      /\ \A i \in 1..Len(entries) : entries[i].packets \in Seq(Packet)
  <2>1. \A i \in 1..Len(entries) : entries[i] \in Entry
    OBVIOUS
  <2>2. \A e \in Entry : e.packets \in Seq(Packet)
    BY DEF Entry
  <2> QED
    BY <2>1, <2>2
<1>2. PICK a : a = [i \in 1..Len(entries) |-> entries[i].packets]
  OBVIOUS
<1>3. a \in Seq(Seq(Packet)) /\ Len(a) = Len(entries) /\ \A i \in 1..Len(entries) : a[i] = entries[i].packets
  BY <1>1, <1>2
<1>4. PICK added : added = entry.packets
  OBVIOUS
<1>5. PICK b : b = <<added>>
  OBVIOUS
<1>6. b \in Seq(Seq(Packet)) /\ Len(b) = 1 /\ b[1] = added
  BY <1>1, <1>4, <1>5
<1>7. PICK more : more = Append(entries, entry)
  OBVIOUS
<1>8. /\ Len(more) = Len(entries) + 1 /\ DOMAIN more = 1..(Len(entries) + 1)
      /\ more[Len(entries) + 1] = entry
      /\ \A i \in 1..Len(entries) : more[i] = entries[i]
  BY <1>1, <1>7
<1>9. PICK c : c = [i \in 1..(Len(entries) + 1) |-> more[i].packets]
  OBVIOUS
<1>10. PICK x : x = a \o b
  OBVIOUS
<1>11. PICK S : S = Seq(Packet)
  OBVIOUS
<1>12. /\ a \o b \in Seq(S) /\ Len(a \o b) = Len(a) + Len(b)
       /\ \A k \in 1..(Len(a) + Len(b)) : (a \o b)[k] = IF k <= Len(a) THEN a[k] ELSE b[k - Len(a)]
  <2>1. a \in Seq(S) /\ b \in Seq(S)
    BY <1>3, <1>6, <1>11
  <2> QED
    BY <2>1, JoinFacts
<1>13. ASSUME NEW k \in 1..(Len(entries) + 1) PROVE c[k] \in S /\ c[k] = x[k]
  <2>1. c[k] = more[k].packets /\ k \in 1..(Len(a) + Len(b))
    BY <1>3, <1>6, <1>9
  <2>2. CASE k <= Len(entries)
    <3>1. k \in 1..Len(entries)
      BY <1>1, <2>2
    <3> QED
      BY <1>1, <1>3, <1>8, <1>10, <1>11, <1>12, <2>1, <2>2, <3>1
  <2>3. CASE ~(k <= Len(entries))
    <3>1. k = Len(entries) + 1 /\ k - Len(a) = 1
      BY <1>1, <1>3, <2>3
    <3>2. c[k] = added /\ x[k] = added
      BY <1>3, <1>4, <1>6, <1>8, <1>10, <1>12, <2>1, <2>3, <3>1
    <3> QED
      BY <1>1, <1>4, <1>11, <3>2
  <2> QED
    BY <2>2, <2>3
<1>14. c = x
  <2>1. c \in Seq(S) /\ Len(c) = Len(entries) + 1
    BY <1>1, <1>9, <1>13
  <2>2. x \in Seq(S) /\ Len(x) = Len(entries) + 1
    BY <1>3, <1>6, <1>10, <1>12
  <2>3. \A k \in 1..Len(c) : c[k] = x[k]
    BY <1>13, <2>1
  <2> QED
    BY <2>1, <2>2, <2>3, SeqEqual
<1>15. PacketsOf(entries) = FlattenSeq(a) /\ PacketsOf(more) = FlattenSeq(c)
  BY <1>1, <1>2, <1>8, <1>9 DEF PacketsOf
<1>16. FlattenSeq(a \o b) = FlattenSeq(a) \o FlattenSeq(b)
  BY <1>3, <1>6, FlattenJoin
<1>17. FlattenSeq(b) = added
  BY <1>5, FlattenOne
<1> QED
  BY <1>4, <1>7, <1>10, <1>14, <1>15, <1>16, <1>17

(***************************************************************************)
(* While no byte has been dropped, what was sent is what was received and  *)
(* what is pending, and the stream and the wire hold the pending packets'  *)
(* frames.  This is the invariant that FramesInOrder needs.                *)
(***************************************************************************)
Pending(packets) ==
  /\ received \in Seq(Packet)
  /\ SentPackets = received \o packets
  /\ Flow(mode, packets, stream.buf \o wire)

FlowInv ==
  /\ PipeInv
  /\ sent \in Seq(Entry)
  /\ overflows \in Nat
  /\ overflows = 0 => \E packets \in Seq(Packet) : Pending(packets)
  /\ OverflowOnlyWhenLate

\* There is a largest chunk.
LEMMA MaxChunkFacts == Max(ChunkSizes) \in Nat /\ \A n \in ChunkSizes : n <= Max(ChunkSizes)
<1>1. ChunkSizes \in SUBSET Nat /\ ChunkSizes # {} /\ IsFiniteSet(ChunkSizes)
  BY PipeAssumption
<1> QED
  BY <1>1, MaxFacts

\* FlowInv holds when nothing has been sent.
LEMMA InitFlow == Init => FlowInv
<1> SUFFICES ASSUME Init PROVE FlowInv
  OBVIOUS
<1>1. PipeInv
  BY InitPipe
<1>2. sent = <<>> /\ overflows = 0 /\ wire = <<>> /\ received = <<>> /\ stream.buf = <<>>
  BY DEF Init, NewStream
<1>3. SentPackets = <<>>
  BY <1>2, SentPacketsFacts
<1>4. Flow(mode, <<>>, stream.buf \o wire)
  <2>1. stream.buf \o wire = <<>> /\ <<>> \o <<>> = <<>>
    BY <1>2
  <2> QED
    BY <2>1, FramesOfNone, NoDelimiter DEF Flow
<1>5. <<>> \in Seq(Packet) /\ <<>> \o <<>> = <<>> /\ <<>> \in Seq(Entry)
  OBVIOUS
<1>6. Pending(<<>>)
  BY <1>2, <1>3, <1>4, <1>5 DEF Pending
<1>7. OverflowOnlyWhenLate
  BY <1>2 DEF OverflowOnlyWhenLate
<1> QED
  BY <1>1, <1>2, <1>5, <1>6, <1>7 DEF FlowInv

\* LongestFrame is the longest of the frames of what was sent.
LEMMA LongestFrameFacts == LongestFrame = Max(FrameLengths(mode, PacketsOf(sent)))
BY SentPacketsFacts DEF LongestFrame, FrameLengths

\* Sending puts the frames of some packets, or of none, behind the others.
LEMMA SendFacts ==
  PipeInv /\ sent \in Seq(Entry) /\ Send
    => /\ UNCHANGED <<mode, stream, received, overflows, late>>
       /\ sent' \in Seq(Entry) /\ SentPackets \in Seq(Packet)
       /\ \E p \in Seq(Packet) : SentPackets' = SentPackets \o p /\ wire' = wire \o FramesOf(mode, p)
<1> SUFFICES ASSUME PipeInv, sent \in Seq(Entry), Send
             PROVE  /\ UNCHANGED <<mode, stream, received, overflows, late>>
                    /\ sent' \in Seq(Entry) /\ SentPackets \in Seq(Packet)
                    /\ \E p \in Seq(Packet) : SentPackets' = SentPackets \o p /\ wire' = wire \o FramesOf(mode, p)
  OBVIOUS
<1>1. UNCHANGED <<mode, stream, received, overflows, late>> /\ Head(todo) \in Inputs
  BY DEF Send, history, PipeInv
<1>2. mode \in FrameMode /\ wire \in Seq(Byte)
  BY DEF PipeInv
<1>3. SentPackets = PacketsOf(sent) /\ SentPackets' = PacketsOf(sent')
  BY SentPacketsFacts DEF SentPackets, PacketsOf
<1>4. SentPackets \in Seq(Packet)
  BY <1>3, PacketsOfType
<1>5. PICK u \in Uninitialized :
        \/ UNCHANGED <<sent, wire>>
        \/ /\ ~\E i \in DOMAIN Packets(Head(todo), u) : Frames(mode, Packets(Head(todo), u))[i] = NoFrame
           /\ sent' = Append(sent, [input |-> Head(todo), packets |-> Packets(Head(todo), u)])
           /\ wire' = wire \o FlattenSeq(Frames(mode, Packets(Head(todo), u)))
  BY DEF Send
<1>6. CASE UNCHANGED <<sent, wire>>
  <2>1. PICK none : none = <<>>
    OBVIOUS
  <2>2. SentPackets' = SentPackets
    BY <1>6 DEF SentPackets
  <2>3. FramesOf(mode, none) = <<>>
    BY <2>1, FramesOfNone
  <2>4. none \in Seq(Packet) /\ SentPackets \o none = SentPackets /\ wire \o <<>> = wire
    BY <1>2, <1>4, <2>1
  <2> QED
    BY <1>1, <1>4, <1>6, <2>2, <2>3, <2>4
<1>7. CASE /\ ~\E i \in DOMAIN Packets(Head(todo), u) : Frames(mode, Packets(Head(todo), u))[i] = NoFrame
           /\ sent' = Append(sent, [input |-> Head(todo), packets |-> Packets(Head(todo), u)])
           /\ wire' = wire \o FlattenSeq(Frames(mode, Packets(Head(todo), u)))
  <2>1. PICK p : p = Packets(Head(todo), u)
    OBVIOUS
  <2>2. p \in Seq(Seq(Byte))
    BY <1>1, <2>1, InputsAssumption
  <2>3. p \in Seq(Packet)
    <3>1. ASSUME NEW i \in 1..Len(p) PROVE p[i] \in Packet
      <4>1. p[i] \in Seq(Byte) /\ i \in DOMAIN p
        BY <2>2
      <4>2. Frames(mode, p)[i] = CreateFrame(mode, p[i])
        BY <4>1 DEF Frames
      <4>3. CreateFrame(mode, p[i]) # NoFrame
        BY <1>7, <2>1, <4>1, <4>2
      <4>4. Len(p[i]) \in 1..MaxFrameSize
        BY <4>3 DEF CreateFrame
      <4> QED
        BY <4>1, <4>4 DEF Packet
    <3>2. Len(p) \in Nat /\ p = [i \in 1..Len(p) |-> p[i]]
      BY <2>2
    <3> QED
      BY <3>1, <3>2
  <2>4. PICK entry : entry = [input |-> Head(todo), packets |-> p]
    OBVIOUS
  <2>5. entry \in Entry /\ entry.packets = p
    BY <1>1, <2>3, <2>4 DEF Entry
  <2>6. sent' = Append(sent, entry) /\ wire' = wire \o FramesOf(mode, p)
    BY <1>7, <2>1, <2>4 DEF FramesOf
  <2>7. sent' \in Seq(Entry)
    BY <2>5, <2>6
  <2>8. PacketsOf(Append(sent, entry)) = PacketsOf(sent) \o entry.packets
    BY <2>5, PacketsOfMore
  <2>9. SentPackets' = SentPackets \o p
    BY <1>3, <2>5, <2>6, <2>8
  <2> QED
    BY <1>1, <1>4, <2>3, <2>6, <2>7, <2>9
<1> QED
  BY <1>5, <1>6, <1>7

\* Sending keeps the flow.
LEMMA SendFlow == FlowInv /\ Send => FlowInv'
<1> SUFFICES ASSUME FlowInv, Send PROVE FlowInv'
  OBVIOUS
<1>1. /\ PipeInv /\ sent \in Seq(Entry) /\ overflows \in Nat
      /\ overflows = 0 => \E packets \in Seq(Packet) : Pending(packets)
      /\ OverflowOnlyWhenLate
  BY DEF FlowInv
<1>2. PipeInv'
  BY <1>1, NextPipe DEF Next
<1>3. /\ UNCHANGED <<mode, stream, received, overflows, late>>
      /\ sent' \in Seq(Entry) /\ SentPackets \in Seq(Packet)
  BY <1>1, SendFacts
<1>4. PICK p \in Seq(Packet) : SentPackets' = SentPackets \o p /\ wire' = wire \o FramesOf(mode, p)
  BY <1>1, SendFacts
<1>5. mode \in FrameMode /\ stream.buf \in Seq(Byte) /\ wire \in Seq(Byte)
  BY <1>1 DEF PipeInv, Stream
<1>6. OverflowOnlyWhenLate'
  <2> SUFFICES ASSUME overflows' > 0, ~late'
               PROVE  GrowMultiplier * (LongestFrame' - 1 + Max(ChunkSizes)) > MaxBufSize
    BY DEF OverflowOnlyWhenLate
  <2>1. GrowMultiplier * (LongestFrame - 1 + Max(ChunkSizes)) > MaxBufSize
    BY <1>1, <1>3 DEF OverflowOnlyWhenLate
  <2>2. PICK packets : packets = SentPackets
    OBVIOUS
  <2>3. PICK all : all = packets \o p
    OBVIOUS
  <2>4. packets \in Seq(Packet) /\ all \in Seq(Packet)
    BY <1>3, <2>2, <2>3, JoinFacts
  <2> DEFINE before == Max(FrameLengths(mode, packets))
             after == Max(FrameLengths(mode, all))
             chunk == Max(ChunkSizes)
  <2>5. LongestFrame = before
    BY <2>2 DEF LongestFrame, FrameLengths
  <2>6. LongestFrame' = after
    BY <1>3, <1>4, <2>2, <2>3 DEF LongestFrame, FrameLengths
  <2>7. before \in Nat /\ before <= after
    BY <1>5, <2>3, <2>4, LongestFacts
  <2>8. after \in Nat /\ chunk \in Nat
    BY <1>5, <2>4, LongestFacts, MaxChunkFacts
  <2> HIDE DEF before, after, chunk
  <2>9. GrowMultiplier * (before - 1 + chunk) > MaxBufSize
    BY <2>1, <2>5 DEF chunk
  <2>10. GrowMultiplier * (after - 1 + chunk) > MaxBufSize
    BY <2>7, <2>8, <2>9, FrameSizesAssumption DEF GrowMultiplier
  <2> QED
    BY <2>6, <2>10 DEF chunk
<1>7. ASSUME overflows' = 0 PROVE \E packets \in Seq(Packet) : Pending(packets)'
  <2>1. PICK q \in Seq(Packet) : Pending(q)
    BY <1>1, <1>3, <1>7
  <2>2. received \in Seq(Packet) /\ SentPackets = received \o q
    BY <2>1 DEF Pending
  <2>3. PICK skipped \in Seq({END}) :
          /\ mode = "FRAME_MODE_1_0" => skipped = <<>>
          /\ skipped \o (stream.buf \o wire) = FramesOf(mode, q)
    BY <2>1 DEF Pending, Flow
  <2>4. q \o p \in Seq(Packet)
    BY JoinFacts
  <2>5. (received \o q) \o p = received \o (q \o p)
    <3>1. Associate(received, q, p)
      BY <2>2, SequencesAssociate
    <3> QED
      BY <3>1 DEF Associate
  <2>6. FramesOf(mode, q \o p) = FramesOf(mode, q) \o FramesOf(mode, p)
    BY <1>5, FramesJoin
  <2>7. PICK s : s = skipped
    OBVIOUS
  <2>8. PICK f : f = FramesOf(mode, p)
    OBVIOUS
  <2>9. PICK b : b = stream.buf
    OBVIOUS
  <2>10. PICK w : w = b \o wire
    OBVIOUS
  <2>11. s \in Seq(Byte) /\ f \in Seq(Byte) /\ b \in Seq(Byte) /\ wire \in Seq(Byte)
    BY <1>5, <2>7, <2>8, <2>9, FramesType, DelimitersFacts
  <2>12. w \in Seq(Byte)
    BY <2>10, <2>11, Joined
  <2>13. Associate(b, wire, f)
    BY <2>11, SequencesAssociate
  <2>14. Associate(s, w, f)
    BY <2>11, <2>12, SequencesAssociate
  <2>15. s \o (b \o (wire \o f)) = FramesOf(mode, q \o p)
    BY <2>3, <2>6, <2>7, <2>8, <2>9, <2>10, <2>13, <2>14 DEF Associate
  <2>16. b = stream'.buf /\ wire \o f = wire' /\ mode' = mode /\ received' = received
    BY <1>3, <1>4, <2>8, <2>9
  <2>17. Flow(mode', q \o p, stream'.buf \o wire')
    BY <2>3, <2>7, <2>15, <2>16 DEF Flow
  <2>18. Pending(q \o p)'
    BY <1>4, <2>2, <2>5, <2>16, <2>17 DEF Pending
  <2> QED
    BY <2>4, <2>18
<1>8. overflows' \in Nat
  BY <1>1, <1>3
<1> QED
  BY <1>2, <1>3, <1>6, <1>7, <1>8 DEF FlowInv

\* What arrives moves from the wire to the stream, or a stream that waits for a frame to end is too full.
LEMMA ArriveFlow ==
  ASSUME MaxFrameSize < 2^31
  PROVE  FlowInv /\ (\E n \in ChunkSizes : Arrive(n)) => FlowInv'
<1> SUFFICES ASSUME FlowInv, NEW n \in ChunkSizes, Arrive(n) PROVE FlowInv'
  OBVIOUS
<1>1. /\ PipeInv /\ sent \in Seq(Entry) /\ overflows \in Nat
      /\ overflows = 0 => \E packets \in Seq(Packet) : Pending(packets)
      /\ OverflowOnlyWhenLate
  BY DEF FlowInv
<1>2. PipeInv'
  BY <1>1, NextPipe DEF Next
<1>3. PICK chunk : chunk = UpTo(wire, n)
  OBVIOUS
<1>4. /\ UNCHANGED <<mode, sent, received>>
      /\ wire # <<>> /\ wire' = From(wire, n)
      /\ stream' = Add(stream, chunk)
      /\ overflows' = overflows + (IF Overflows(stream, Len(chunk)) THEN 1 ELSE 0)
      /\ late' = (late \/ Waiting)
  BY <1>3 DEF Arrive
<1>5. /\ mode \in FrameMode /\ stream \in Stream /\ stream.buf \in Seq(Byte) /\ wire \in Seq(Byte)
      /\ Bounded(stream) /\ n \in Nat \ {0}
  BY <1>1, PipeAssumption, StreamBoundedIsBounded DEF PipeInv, Stream
<1>6. /\ chunk \in Seq(Byte) /\ chunk # <<>> /\ Len(chunk) <= n /\ Len(chunk) \in Nat
      /\ wire' \in Seq(Byte) /\ chunk \o wire' = wire
  <2>1. UpTo(wire, n) \in Seq(Byte) /\ UpTo(wire, n) # <<>> /\ Len(UpTo(wire, n)) <= n
        /\ From(wire, n) \in Seq(Byte) /\ UpTo(wire, n) \o From(wire, n) = wire
    BY <1>4, <1>5, WireSplit
  <2> QED
    BY <1>3, <1>4, <2>1
<1>7. SentPackets' = SentPackets /\ LongestFrame' = LongestFrame
  BY <1>4 DEF SentPackets, LongestFrame
<1>8. overflows' \in Nat /\ sent' \in Seq(Entry)
  BY <1>1, <1>4
<1>9. CASE ~Overflows(stream, Len(chunk))
  <2>1. overflows' = overflows
    BY <1>1, <1>4, <1>9
  <2>2. ASSUME NEW packets \in Seq(Packet), Pending(packets) PROVE Pending(packets)'
    <3>1. PICK b : b = stream.buf
      OBVIOUS
    <3>2. stream'.buf = b \o chunk
      BY <1>4, <1>6, <1>9, <3>1 DEF Add
    <3>3. (b \o chunk) \o wire' = b \o (chunk \o wire')
      <4>1. PICK left : left = wire'
        OBVIOUS
      <4>2. b \in Seq(Byte) /\ chunk \in Seq(Byte) /\ left \in Seq(Byte)
        BY <1>5, <1>6, <3>1, <4>1
      <4>3. Associate(b, chunk, left)
        BY <4>2, SequencesAssociate
      <4> QED
        BY <4>1, <4>3 DEF Associate
    <3>4. stream'.buf \o wire' = stream.buf \o wire
      BY <1>6, <3>1, <3>2, <3>3
    <3> QED
      BY <1>4, <1>7, <2>2, <3>4 DEF Pending
  <2>3. overflows' = 0 => \E packets \in Seq(Packet) : Pending(packets)'
    BY <1>1, <2>1, <2>2
  <2>4. OverflowOnlyWhenLate'
    BY <1>1, <1>4, <1>7, <2>1 DEF OverflowOnlyWhenLate
  <2> QED
    BY <1>2, <1>8, <2>3, <2>4 DEF FlowInv
<1>10. CASE Overflows(stream, Len(chunk))
  <2>1. overflows' = overflows + 1 /\ overflows' # 0
    BY <1>1, <1>4, <1>10
  <2>2. OverflowOnlyWhenLate'
    <3> SUFFICES ASSUME ~late'
                 PROVE  GrowMultiplier * (LongestFrame - 1 + Max(ChunkSizes)) > MaxBufSize
      BY <1>7 DEF OverflowOnlyWhenLate
    <3>1. ~late /\ ~Waiting
      BY <1>4
    <3>2. CASE overflows # 0
      <4>1. overflows > 0
        BY <1>1, <3>2
      <4> QED
        BY <1>1, <3>1, <4>1 DEF OverflowOnlyWhenLate
    <3>3. CASE overflows = 0
      <4>1. PICK packets \in Seq(Packet) : Pending(packets)
        BY <1>1, <3>3
      <4>2. /\ received \in Seq(Packet) /\ SentPackets = received \o packets
            /\ Flow(mode, packets, stream.buf \o wire)
        BY <4>1 DEF Pending
      <4>3. PICK got : got = GetNextFrame(mode, stream)
        OBVIOUS
      <4>4. GetsNext(mode, packets, stream.buf, wire, got)
        BY <1>5, <4>2, <4>3, GetsNextFrame
      <4>5. got.frame = NoFrame
        BY <3>1, <4>3 DEF Waiting
      <4>6. packets # <<>>
        <5> SUFFICES ASSUME packets = <<>> PROVE FALSE
          OBVIOUS
        <5>1. PICK skipped \in Seq({END}) : skipped \o (stream.buf \o wire) = FramesOf(mode, <<>>)
          BY <4>2 DEF Flow
        <5>2. wire = <<>>
          BY <1>5, <5>1, NoPackets
        <5> QED
          BY <1>4, <5>2
      <4>7. Head(packets) \in Packet /\ Len(Head(packets)) >= 1
        <5>1. Head(packets) \in Packet
          BY <4>6
        <5> QED
          BY <5>1 DEF Packet
      <4>8. Head(packets) # NoFrame
        BY <4>7 DEF NoFrame
      <4>9. Len(stream.buf) < Len(CreateFrame(mode, Head(packets)))
        BY <4>4, <4>5, <4>6, <4>8 DEF GetsNext
      <4>10. Head(packets) \in Range(SentPackets) /\ SentPackets \in Seq(Packet)
        <5>1. Head(packets) \in Range(packets)
          BY <4>6, RangeOfQueue
        <5>2. received \o packets \in Seq(Packet) /\ Range(packets) \subseteq Range(received \o packets)
          BY <4>2, RangeOfJoin
        <5> QED
          BY <4>2, <5>1, <5>2
      <4>11. PICK sentPackets : sentPackets = SentPackets
        OBVIOUS
      <4>12. LongestFrame = Max(FrameLengths(mode, sentPackets))
        BY <4>11, LongestFrameFacts, SentPacketsFacts
      <4>13. /\ Max(FrameLengths(mode, sentPackets)) \in Nat
             /\ Len(CreateFrame(mode, Head(packets))) <= Max(FrameLengths(mode, sentPackets))
        BY <1>5, <4>10, <4>11, LongestFacts
      <4>14. GrowMultiplier * (Len(stream.buf) + Len(chunk)) > MaxBufSize
        BY <1>5, <1>6, <1>10, OverflowNeedsRoom
      <4>15. n <= Max(ChunkSizes) /\ Max(ChunkSizes) \in Nat
        BY MaxChunkFacts
      <4>16. Len(CreateFrame(mode, Head(packets))) \in Nat /\ Len(stream.buf) \in Nat
        <5>1. CreateFrame(mode, Head(packets)) \in Seq(Byte)
          BY <1>5, <4>7, FrameType
        <5> QED
          BY <1>5, <5>1
      <4> DEFINE l == Len(stream.buf)
                 f == Len(CreateFrame(mode, Head(packets)))
                 longest == Max(FrameLengths(mode, sentPackets))
                 largest == Max(ChunkSizes)
                 c == Len(chunk)
      <4>17. /\ l \in Nat /\ f \in Nat /\ longest \in Nat /\ largest \in Nat /\ c \in Nat /\ n \in Nat
             /\ l < f /\ f <= longest /\ c <= n /\ n <= largest /\ GrowMultiplier * (l + c) > MaxBufSize
        BY <1>5, <1>6, <4>9, <4>13, <4>14, <4>15, <4>16
      <4> HIDE DEF l, f, longest, largest, c
      <4>18. GrowMultiplier * (longest - 1 + largest) > MaxBufSize
        BY <4>17, FrameSizesAssumption DEF GrowMultiplier
      <4> QED
        BY <4>12, <4>18 DEF longest, largest
    <3> QED
      BY <3>2, <3>3
  <2> QED
    BY <1>2, <1>8, <2>1, <2>2 DEF FlowInv
<1> QED
  BY <1>9, <1>10

\* The frame that is read is the first of the pending packets.
LEMMA ReadFlow ==
  ASSUME MaxFrameSize < 2^31
  PROVE  FlowInv /\ Read => FlowInv'
<1> SUFFICES ASSUME FlowInv, Read PROVE FlowInv'
  OBVIOUS
<1>1. /\ PipeInv /\ sent \in Seq(Entry) /\ overflows \in Nat
      /\ overflows = 0 => \E packets \in Seq(Packet) : Pending(packets)
      /\ OverflowOnlyWhenLate
  BY DEF FlowInv
<1>2. PipeInv'
  BY <1>1, NextPipe DEF Next
<1>3. PICK got : got = GetNextFrame(mode, stream)
  OBVIOUS
<1>4. /\ UNCHANGED <<mode, sent, wire, overflows, late>>
      /\ stream' = got.stream
      /\ received' = IF got.frame = NoFrame THEN received ELSE Append(received, got.frame)
  BY <1>3 DEF Read
<1>5. mode \in FrameMode /\ stream \in Stream /\ wire \in Seq(Byte)
  BY <1>1 DEF PipeInv
<1>6. SentPackets' = SentPackets /\ LongestFrame' = LongestFrame
  BY <1>4 DEF SentPackets, LongestFrame
<1>7. ASSUME overflows' = 0 PROVE \E packets \in Seq(Packet) : Pending(packets)'
  <2>1. PICK packets \in Seq(Packet) : Pending(packets)
    BY <1>1, <1>4, <1>7
  <2>2. /\ received \in Seq(Packet) /\ SentPackets = received \o packets
        /\ Flow(mode, packets, stream.buf \o wire)
    BY <2>1 DEF Pending
  <2>3. GetsNext(mode, packets, stream.buf, wire, got)
    BY <1>3, <1>5, <2>2, GetsNextFrame
  <2>4. CASE got.frame = NoFrame /\ Flow(mode, packets, got.stream.buf \o wire)
    BY <1>4, <1>6, <2>2, <2>4 DEF Pending
  <2>5. CASE packets # <<>> /\ got.frame = Head(packets) /\ Flow(mode, Tail(packets), got.stream.buf \o wire)
    <3>1. PICK h : h = Head(packets)
      OBVIOUS
    <3>2. PICK t : t = Tail(packets)
      OBVIOUS
    <3>3. h \in Packet /\ t \in Seq(Packet) /\ packets = <<h>> \o t
      BY <2>5, <3>1, <3>2
    <3>4. h # NoFrame
      BY <3>3 DEF Packet, NoFrame
    <3>5. received' = Append(received, h)
      BY <1>4, <2>5, <3>1, <3>4
    <3>6. received \o packets = Append(received, h) \o t
      <4>1. PICK one : one = <<h>>
        OBVIOUS
      <4>2. one \in Seq(Packet) /\ t \in Seq(Packet) /\ received \in Seq(Packet)
        BY <2>2, <3>3, <4>1
      <4>3. (received \o one) \o t = received \o (one \o t)
        BY <4>2, JoinAssociative
      <4>4. received \o one = Append(received, h)
        BY <2>2, <3>3, <4>1
      <4> QED
        BY <3>3, <4>1, <4>3, <4>4
    <3>7. Append(received, h) \in Seq(Packet)
      BY <2>2, <3>3
    <3>8. Pending(t)'
      BY <1>4, <1>6, <2>2, <2>5, <3>2, <3>5, <3>6, <3>7 DEF Pending
    <3> QED
      BY <3>3, <3>8
  <2> QED
    BY <2>3, <2>4, <2>5 DEF GetsNext
<1>8. OverflowOnlyWhenLate'
  BY <1>1, <1>4, <1>6 DEF OverflowOnlyWhenLate
<1> QED
  BY <1>1, <1>2, <1>4, <1>7, <1>8 DEF FlowInv

\* Every step keeps the flow.
LEMMA NextFlow ==
  ASSUME MaxFrameSize < 2^31
  PROVE  FlowInv /\ [Next]_vars => FlowInv'
<1> SUFFICES ASSUME FlowInv, [Next]_vars PROVE FlowInv'
  OBVIOUS
<1>1. CASE Send
  BY <1>1, SendFlow
<1>2. CASE \E n \in ChunkSizes : Arrive(n)
  BY <1>2, ArriveFlow
<1>3. CASE Read
  BY <1>3, ReadFlow
<1>4. CASE UNCHANGED vars
  <2>1. UNCHANGED <<mode, sent, wire, stream, received, overflows, late>>
    BY <1>4 DEF vars, history
  <2>2. PipeInv'
    BY <1>4, NextPipe DEF FlowInv
  <2>3. \A packets : Pending(packets) <=> Pending(packets)'
    BY <2>1 DEF Pending, SentPackets
  <2>4. OverflowOnlyWhenLate <=> OverflowOnlyWhenLate'
    BY <2>1 DEF OverflowOnlyWhenLate, LongestFrame, SentPackets
  <2> QED
    BY <2>1, <2>2, <2>3, <2>4 DEF FlowInv
<1> QED
  BY <1>1, <1>2, <1>3, <1>4 DEF Next

\* FlowInv is an invariant.
LEMMA FlowCorrect ==
  ASSUME MaxFrameSize < 2^31
  PROVE  Spec => []FlowInv
<1>1. Init => FlowInv
  BY InitFlow
<1>2. FlowInv /\ [Next]_vars => FlowInv'
  BY NextFlow
<1> QED
  BY <1>1, <1>2, PTL DEF Spec

(***************************************************************************)
(* While no byte has been dropped the frames are the packets that were     *)
(* sent, in that order: in both modes, for every program, wherever the     *)
(* bytes are cut and whatever they are (OSCParser.cpp:145, 267).  A header *)
(* holds a number of 32 bits, so that MAX_FRAME_SIZE must be one.          *)
(***************************************************************************)
THEOREM FramesInOrderAlways ==
  ASSUME MaxFrameSize < 2^31
  PROVE  Spec => []FramesInOrder
<1>1. FlowInv => FramesInOrder
  <2> SUFFICES ASSUME FlowInv, overflows = 0 PROVE IsPrefix(received, SentPackets)
    BY DEF FramesInOrder
  <2>1. PICK packets \in Seq(Packet) : Pending(packets)
    BY DEF FlowInv
  <2>2. received \in Seq(Packet) /\ SentPackets = received \o packets
    BY <2>1 DEF Pending
  <2>3. /\ received \o packets \in Seq(Packet) /\ Len(received \o packets) = Len(received) + Len(packets)
        /\ Len(received) \in Nat /\ Len(packets) \in Nat
        /\ \A k \in 1..(Len(received) + Len(packets)) :
             (received \o packets)[k] = IF k <= Len(received) THEN received[k] ELSE packets[k - Len(received)]
    BY <2>2, JoinFacts
  <2>4. PICK all : all = received \o packets
    OBVIOUS
  <2>5. PICK front : front = SubSeq(all, 1, Len(received))
    OBVIOUS
  <2>6. /\ front \in Seq(Packet) /\ Len(front) = Len(received)
        /\ \A k \in 1..Len(received) : front[k] = all[k]
    BY <2>3, <2>4, <2>5
  <2>7. ASSUME NEW k \in 1..Len(received) PROVE front[k] = received[k]
    <3>1. k \in 1..(Len(received) + Len(packets)) /\ k <= Len(received)
      BY <2>3
    <3> QED
      BY <2>3, <2>4, <2>6, <3>1
  <2>8. front = received
    BY <2>2, <2>6, <2>7, SeqEqual
  <2>9. SubSeq(received, 1, Len(received)) = received
    BY <2>2
  <2>10. Len(received) <= Len(all)
    BY <2>3, <2>4
  <2> QED
    BY <2>2, <2>4, <2>5, <2>8, <2>9, <2>10 DEF IsPrefix
<1> QED
  BY <1>1, FlowCorrect, PTL

(***************************************************************************)
(* A receiver that has all bytes and gets no more frames has every packet, *)
(* and its stream is empty: nothing waits for bytes that never come        *)
(* (OSCParser.cpp:145).                                                    *)
(***************************************************************************)
THEOREM NothingHeldBackAlways ==
  ASSUME MaxFrameSize < 2^31
  PROVE  Spec => []NothingHeldBack
<1>1. FlowInv => NothingHeldBack
  <2> SUFFICES ASSUME FlowInv, wire = <<>>, overflows = 0, ~Waiting
               PROVE  received = SentPackets /\ FrameStarts(stream.buf) = {}
    BY DEF NothingHeldBack
  <2>1. PICK packets \in Seq(Packet) : Pending(packets)
    BY DEF FlowInv
  <2>2. /\ received \in Seq(Packet) /\ SentPackets = received \o packets
        /\ Flow(mode, packets, stream.buf \o wire)
    BY <2>1 DEF Pending
  <2>3. mode \in FrameMode /\ stream \in Stream /\ wire \in Seq(Byte)
    BY DEF FlowInv, PipeInv
  <2>4. PICK got : got = GetNextFrame(mode, stream)
    OBVIOUS
  <2>5. GetsNext(mode, packets, stream.buf, wire, got)
    BY <2>2, <2>3, <2>4, GetsNextFrame
  <2>6. got.frame = NoFrame
    BY <2>4 DEF Waiting
  <2>7. packets = <<>> /\ stream.buf = <<>>
    <3>1. packets # <<>> => Head(packets) # NoFrame
      <4> SUFFICES ASSUME packets # <<>> PROVE Head(packets) # NoFrame
        OBVIOUS
      <4>1. Head(packets) \in Packet
        OBVIOUS
      <4> QED
        BY <4>1 DEF Packet, NoFrame
    <3> QED
      BY <2>5, <2>6, <3>1 DEF GetsNext
  <2>8. received = SentPackets
    BY <2>2, <2>7
  <2>9. FrameStarts(stream.buf) = {}
    <3>1. DOMAIN stream.buf = {}
      BY <2>7
    <3> QED
      BY <3>1 DEF FrameStarts
  <2> QED
    BY <2>8, <2>9
<1> QED
  BY <1>1, FlowCorrect, PTL

(***************************************************************************)
(* A receiver that takes every frame before it adds more loses nothing, if *)
(* three times a frame that lacks a byte and a chunk fit the stream        *)
(* (OSCStream::Add, OSCParser.cpp:98).                                     *)
(***************************************************************************)
THEOREM OverflowOnlyWhenLateAlways ==
  ASSUME MaxFrameSize < 2^31
  PROVE  Spec => []OverflowOnlyWhenLate
<1>1. FlowInv => OverflowOnlyWhenLate
  BY DEF FlowInv
<1> QED
  BY <1>1, FlowCorrect, PTL

----------------------------------------------------------------------------
(* Frames that are salvaged. *)

\* A place for each frame: that of the packet it is, or 0 when it is damaged.
Placed(place, frames, packets, cuts) ==
  /\ place \in [1..Len(frames) -> 0..Len(packets)]
  /\ Cardinality({i \in 1..Len(frames) : place[i] = 0}) <= cuts
  /\ \A i, j \in 1..Len(frames) : place[i] # 0 /\ place[j] # 0 /\ i < j => place[i] < place[j]
  /\ \A i \in 1..Len(frames) : place[i] # 0 => frames[i] = packets[place[i]]
  /\ \A i \in 1..Len(frames) : place[i] = 0 => \E packet \in Range(packets) : frames[i] \in Remnants(packet)

\* Salvaged says that there are such places.
LEMMA SalvagedIsPlaced ==
  ASSUME NEW S, NEW frames \in Seq(S), NEW packets, NEW cuts
  PROVE  Salvaged(frames, packets, cuts) <=> \E place : Placed(place, frames, packets, cuts)
<1>1. DOMAIN frames = 1..Len(frames)
  OBVIOUS
<1> DEFINE Damaged(place) == {i \in 1..Len(frames) : place[i] = 0}
<1>2. Salvaged(frames, packets, cuts) <=>
        \E place \in [1..Len(frames) -> 0..Len(packets)] :
          /\ Cardinality(Damaged(place)) <= cuts
          /\ \A i, j \in 1..Len(frames) \ Damaged(place) : i < j => place[i] < place[j]
          /\ \A i \in 1..Len(frames) \ Damaged(place) : frames[i] = packets[place[i]]
          /\ \A i \in Damaged(place) : \E packet \in Range(packets) : frames[i] \in Remnants(packet)
  BY <1>1, Zenon DEF Salvaged
<1>3. ASSUME NEW place \in [1..Len(frames) -> 0..Len(packets)]
      PROVE  /\ Cardinality(Damaged(place)) <= cuts
             /\ \A i, j \in 1..Len(frames) \ Damaged(place) : i < j => place[i] < place[j]
             /\ \A i \in 1..Len(frames) \ Damaged(place) : frames[i] = packets[place[i]]
             /\ \A i \in Damaged(place) : \E packet \in Range(packets) : frames[i] \in Remnants(packet)
             <=> Placed(place, frames, packets, cuts)
  BY DEF Placed
<1>4. \A place : Placed(place, frames, packets, cuts) => place \in [1..Len(frames) -> 0..Len(packets)]
  BY DEF Placed
<1> QED
  BY <1>2, <1>3, <1>4

\* Nothing is salvaged at first.
LEMMA NothingSalvaged == Salvaged(<<>>, <<>>, 0)
<1>1. PICK none : none = <<>>
  OBVIOUS
<1>2. none \in Seq(Packet) /\ Len(none) = 0 /\ 1..0 = {}
  BY <1>1
<1>3. PICK place : place = [i \in 1..0 |-> 0]
  OBVIOUS
<1>4. {i \in 1..0 : place[i] = 0} = {} /\ Cardinality({}) = 0
  BY <1>2, FS_EmptySet
<1>5. Placed(place, none, none, 0)
  BY <1>2, <1>3, <1>4 DEF Placed
<1> QED
  BY <1>1, <1>2, <1>5, SalvagedIsPlaced

\* More packets and more cuts take nothing away.
LEMMA SalvagedOfMore ==
  ASSUME NEW S, NEW frames \in Seq(S), NEW T, NEW packets \in Seq(T), NEW more \in Seq(T),
         NEW cuts \in Nat, NEW n \in Nat, cuts <= n, Salvaged(frames, packets, cuts)
  PROVE  Salvaged(frames, packets \o more, n)
<1>1. PICK place : Placed(place, frames, packets, cuts)
  BY SalvagedIsPlaced
<1>2. PICK all : all = packets \o more
  OBVIOUS
<1>3. /\ all \in Seq(T) /\ Len(all) = Len(packets) + Len(more) /\ Len(packets) \in Nat /\ Len(more) \in Nat
      /\ \A i \in 1..(Len(packets) + Len(more)) :
           all[i] = IF i <= Len(packets) THEN packets[i] ELSE more[i - Len(packets)]
  BY <1>2, JoinFacts
<1>4. Range(packets) \subseteq Range(all) /\ Len(frames) \in Nat
  BY <1>2, RangeOfJoin
<1> DEFINE damaged == {i \in 1..Len(frames) : place[i] = 0}
<1>5. Cardinality(damaged) <= n
  <2>1. IsFiniteSet(1..Len(frames)) /\ damaged \subseteq 1..Len(frames)
    BY <1>4, FS_Interval
  <2>2. Cardinality(damaged) \in Nat
    BY <2>1, FS_Subset, FS_CardinalityType
  <2>3. Cardinality(damaged) <= cuts
    BY <1>1 DEF Placed
  <2> HIDE DEF damaged
  <2> QED
    BY <2>2, <2>3
<1>6. place \in [1..Len(frames) -> 0..Len(all)]
  <2>1. place \in [1..Len(frames) -> 0..Len(packets)] /\ 0..Len(packets) \subseteq 0..Len(all)
    BY <1>1, <1>3 DEF Placed
  <2> QED
    BY <2>1
<1>7. ASSUME NEW i \in 1..Len(frames), place[i] # 0 PROVE frames[i] = all[place[i]]
  <2>1. place[i] \in 0..Len(packets) /\ frames[i] = packets[place[i]]
    BY <1>1, <1>7 DEF Placed
  <2>2. place[i] \in 1..(Len(packets) + Len(more)) /\ place[i] <= Len(packets)
    BY <1>3, <1>7, <2>1
  <2> QED
    BY <1>3, <2>1, <2>2
<1>8. Placed(place, frames, all, n)
  BY <1>1, <1>4, <1>5, <1>6, <1>7 DEF Placed
<1> QED
  BY <1>2, <1>8, SalvagedIsPlaced

\* A frame of which the first bytes were dropped is a cut more.
LEMMA DamagedSalvaged ==
  ASSUME NEW S, NEW frames \in Seq(S), NEW frame \in S, NEW packets, NEW cuts \in Nat,
         Salvaged(frames, packets, cuts), NEW packet \in Range(packets), frame \in Remnants(packet),
         Len(packets) \in Nat
  PROVE  Salvaged(Append(frames, frame), packets, cuts + 1)
<1>1. PICK place : Placed(place, frames, packets, cuts)
  BY SalvagedIsPlaced
<1>2. PICK n : n = Len(frames)
  OBVIOUS
<1>3. PICK all : all = Append(frames, frame)
  OBVIOUS
<1>4. /\ all \in Seq(S) /\ Len(all) = n + 1 /\ n \in Nat /\ all[n + 1] = frame
      /\ \A i \in 1..n : all[i] = frames[i]
  BY <1>2, <1>3
<1>5. PICK placeOf : placeOf = [i \in 1..(n + 1) |-> IF i <= n THEN place[i] ELSE 0]
  OBVIOUS
<1>6. /\ placeOf \in [1..(n + 1) -> 0..Len(packets)]
      /\ \A i \in 1..n : placeOf[i] = place[i]
      /\ placeOf[n + 1] = 0
  <2>1. \A i \in 1..n : place[i] \in 0..Len(packets)
    BY <1>1, <1>2 DEF Placed
  <2>2. \A i \in 1..(n + 1) : i <= n => i \in 1..n
    BY <1>4
  <2>3. \A i \in 1..n : i \in 1..(n + 1) /\ i <= n
    BY <1>4
  <2>4. n + 1 \in 1..(n + 1) /\ ~(n + 1 <= n) /\ 0 \in 0..Len(packets)
    BY <1>4
  <2> QED
    BY <1>5, <2>1, <2>2, <2>3, <2>4
<1> DEFINE damaged == {i \in 1..n : place[i] = 0}
           damagedOf == {i \in 1..(n + 1) : placeOf[i] = 0}
<1>7. Cardinality(damagedOf) <= cuts + 1
  <2>1. IsFiniteSet(1..n) /\ damaged \subseteq 1..n
    BY <1>4, FS_Interval
  <2>2. IsFiniteSet(damaged) /\ Cardinality(damaged) \in Nat
    BY <2>1, FS_Subset, FS_CardinalityType
  <2>3. n + 1 \notin damaged
    BY <1>4
  <2>4. damagedOf = damaged \cup {n + 1}
    <3>1. \A i \in 1..(n + 1) : i \in 1..n \/ i = n + 1
      BY <1>4
    <3>2. \A i \in 1..n : i \in 1..(n + 1)
      BY <1>4
    <3> QED
      BY <1>4, <1>6, <3>1, <3>2
  <2>5. Cardinality(damaged) <= cuts
    BY <1>1, <1>2 DEF Placed
  <2> HIDE DEF damaged, damagedOf
  <2>6. Cardinality(damaged \cup {n + 1}) = Cardinality(damaged) + 1
    BY <2>2, <2>3, FS_AddElement
  <2> QED
    BY <2>2, <2>4, <2>5, <2>6
<1>8. \A i \in 1..(n + 1) : placeOf[i] # 0 => i \in 1..n /\ place[i] # 0 /\ placeOf[i] = place[i]
  <2>1. \A i \in 1..(n + 1) : i \in 1..n \/ i = n + 1
    BY <1>4
  <2> QED
    BY <1>6, <2>1
<1>9. \A i, j \in 1..(n + 1) : placeOf[i] # 0 /\ placeOf[j] # 0 /\ i < j => placeOf[i] < placeOf[j]
  BY <1>1, <1>2, <1>8 DEF Placed
<1>10. \A i \in 1..(n + 1) : placeOf[i] # 0 => all[i] = packets[placeOf[i]]
  BY <1>1, <1>2, <1>4, <1>8 DEF Placed
<1>11. ASSUME NEW i \in 1..(n + 1), placeOf[i] = 0 PROVE \E p \in Range(packets) : all[i] \in Remnants(p)
  <2>1. CASE i = n + 1
    BY <1>4, <2>1
  <2>2. CASE i # n + 1
    <3>1. i \in 1..n
      BY <1>4, <2>2
    <3> QED
      BY <1>1, <1>2, <1>4, <1>6, <1>11, <3>1 DEF Placed
  <2> QED
    BY <2>1, <2>2
<1>12. Placed(placeOf, all, packets, cuts + 1)
  BY <1>4, <1>6, <1>7, <1>9, <1>10, <1>11 DEF Placed
<1> QED
  BY <1>3, <1>4, <1>12, SalvagedIsPlaced

\* A whole frame is the packet behind the others.
LEMMA WholeSalvaged ==
  ASSUME NEW S, NEW frames \in Seq(S), NEW frame \in S, NEW T, NEW packets \in Seq(T), frame \in T,
         NEW cuts, Salvaged(frames, packets, cuts)
  PROVE  Salvaged(Append(frames, frame), Append(packets, frame), cuts)
<1>1. PICK place : Placed(place, frames, packets, cuts)
  BY SalvagedIsPlaced
<1>2. PICK n : n = Len(frames)
  OBVIOUS
<1>3. PICK m : m = Len(packets)
  OBVIOUS
<1>4. PICK all : all = Append(frames, frame)
  OBVIOUS
<1>5. PICK more : more = Append(packets, frame)
  OBVIOUS
<1>6. /\ all \in Seq(S) /\ Len(all) = n + 1 /\ n \in Nat /\ all[n + 1] = frame
      /\ \A i \in 1..n : all[i] = frames[i]
  BY <1>2, <1>4
<1>7. /\ more \in Seq(T) /\ Len(more) = m + 1 /\ m \in Nat /\ more[m + 1] = frame
      /\ \A i \in 1..m : more[i] = packets[i]
  BY <1>3, <1>5
<1>8. PICK placeOf : placeOf = [i \in 1..(n + 1) |-> IF i <= n THEN place[i] ELSE m + 1]
  OBVIOUS
<1>9. \A i \in 1..n : place[i] \in 0..m
  BY <1>1, <1>2, <1>3 DEF Placed
<1>10. /\ placeOf \in [1..(n + 1) -> 0..(m + 1)]
       /\ \A i \in 1..n : placeOf[i] = place[i]
       /\ placeOf[n + 1] = m + 1
  <2>1. \A i \in 1..n : place[i] \in 0..(m + 1)
    BY <1>7, <1>9
  <2>2. \A i \in 1..(n + 1) : i <= n => i \in 1..n
    BY <1>6
  <2>3. \A i \in 1..n : i \in 1..(n + 1) /\ i <= n
    BY <1>6
  <2>4. n + 1 \in 1..(n + 1) /\ ~(n + 1 <= n) /\ m + 1 \in 0..(m + 1)
    BY <1>6, <1>7
  <2> QED
    BY <1>8, <2>1, <2>2, <2>3, <2>4
<1>11. \A i \in 1..(n + 1) : i \in 1..n \/ i = n + 1
  BY <1>6
<1>12. {i \in 1..(n + 1) : placeOf[i] = 0} = {i \in 1..n : place[i] = 0}
  <2>1. \A i \in 1..n : i \in 1..(n + 1)
    BY <1>6
  <2>2. placeOf[n + 1] # 0
    BY <1>7, <1>10
  <2> QED
    BY <1>10, <1>11, <2>1, <2>2
<1>13. ASSUME NEW i \in 1..(n + 1), NEW j \in 1..(n + 1), placeOf[i] # 0, placeOf[j] # 0, i < j
       PROVE  placeOf[i] < placeOf[j]
  <2>1. i \in 1..n
    BY <1>6, <1>13
  <2>2. CASE j = n + 1
    BY <1>7, <1>9, <1>10, <2>1, <2>2
  <2>3. CASE j \in 1..n
    BY <1>1, <1>2, <1>10, <1>13, <2>1, <2>3 DEF Placed
  <2> QED
    BY <1>11, <2>2, <2>3
<1>14. ASSUME NEW i \in 1..(n + 1), placeOf[i] # 0 PROVE all[i] = more[placeOf[i]]
  <2>1. CASE i = n + 1
    BY <1>6, <1>7, <1>10, <2>1
  <2>2. CASE i \in 1..n
    <3>1. place[i] \in 1..m /\ placeOf[i] = place[i]
      BY <1>7, <1>9, <1>10, <1>14, <2>2
    <3>2. frames[i] = packets[place[i]]
      BY <1>1, <1>2, <1>10, <1>14, <2>2 DEF Placed
    <3> QED
      BY <1>6, <1>7, <2>2, <3>1, <3>2
  <2> QED
    BY <1>11, <2>1, <2>2
<1>15. ASSUME NEW i \in 1..(n + 1), placeOf[i] = 0 PROVE \E packet \in Range(more) : all[i] \in Remnants(packet)
  <2>1. i \in 1..n /\ place[i] = 0
    BY <1>7, <1>10, <1>11, <1>15
  <2>2. \E packet \in Range(packets) : frames[i] \in Remnants(packet)
    BY <1>1, <1>2, <2>1 DEF Placed
  <2>3. Range(packets) \subseteq Range(more)
    BY <1>5, RangeOfAppend
  <2> QED
    BY <1>6, <2>1, <2>2, <2>3
<1>16. Placed(placeOf, all, more, cuts)
  <2>1. Cardinality({i \in 1..(n + 1) : placeOf[i] = 0}) <= cuts
    BY <1>1, <1>2, <1>12 DEF Placed
  <2> QED
    BY <1>6, <1>7, <1>10, <1>13, <1>14, <1>15, <2>1 DEF Placed
<1> QED
  BY <1>4, <1>5, <1>6, <1>16, SalvagedIsPlaced

----------------------------------------------------------------------------
(***************************************************************************)
(* What is in the stream and on the wire in mode FRAME_MODE_1_1, whatever  *)
(* has been dropped: the frames of some packets, as if nothing had been,   *)
(* or before them the end of the frame of another, of which the first      *)
(* bytes are gone.  Delimiters are the bytes that may come in addition.    *)
(***************************************************************************)
Whole(packets, bytes) ==
  \E skipped, before \in Seq({END}) : skipped \o bytes = before \o FramesOf("FRAME_MODE_1_1", packets)

EndOf(packet, n) == Delimited(<<>>, From(Escapes(packet), n))

Cut(broken, packets, bytes) ==
  \E packet \in broken, skipped \in Seq({END}) : \E n \in 1..(Len(Escapes(packet)) - 1) :
    skipped \o bytes = EndOf(packet, n) \o FramesOf("FRAME_MODE_1_1", packets)

\* The first frame of some, and delimiters before it.
LEMMA FrameBehind ==
  ASSUME NEW packets \in Seq(Packet), packets # <<>>, NEW before \in Seq({END})
  PROVE  /\ before \o <<END>> \in Seq({END})
         /\ before \o FramesOf("FRAME_MODE_1_1", packets)
              = Delimited(before \o <<END>>, Escapes(Head(packets))) \o FramesOf("FRAME_MODE_1_1", Tail(packets))
<1> DEFINE m == "FRAME_MODE_1_1"
<1>1. m \in FrameMode
  BY DEF FrameMode
<1>2. PICK first : first = Head(packets)
  OBVIOUS
<1>3. PICK rest : rest = FramesOf(m, Tail(packets))
  OBVIOUS
<1>4. PICK piece : piece = Escapes(first)
  OBVIOUS
<1>5. first \in Packet /\ Tail(packets) \in Seq(Packet) /\ FramesOf(m, packets) = CreateFrame(m, first) \o rest
  BY <1>1, <1>2, <1>3, FramesSplit
<1>6. rest \in Seq(Byte)
  BY <1>1, <1>3, <1>5, FramesType
<1>7. CreateFrame(m, first) = Delimited(<<END>>, piece) /\ piece \in Seq(Byte)
  BY <1>4, <1>5, FrameIsDelimited
<1>8. PICK d : d = <<END>>
  OBVIOUS
<1>9. PICK b : b = before
  OBVIOUS
<1>10. d \in Seq(Byte) /\ b \in Seq(Byte)
  BY <1>8, <1>9, DelimitersFacts, OneDelimiter
<1>11. before \o <<END>> \in Seq({END})
  BY OneDelimiter
<1>12. PICK tail : tail = piece \o d
  OBVIOUS
<1>13. tail \in Seq(Byte)
  BY <1>7, <1>10, <1>12, Joined
<1>14. PICK frame : frame = d \o tail
  OBVIOUS
<1>15. frame \in Seq(Byte)
  BY <1>10, <1>13, <1>14, Joined
<1>16. before \o FramesOf(m, packets) = b \o (frame \o rest)
  BY <1>5, <1>7, <1>8, <1>9, <1>12, <1>14 DEF Delimited
<1>17. Associate(b, frame, rest)
  <2>1. b \in Seq(Byte) /\ frame \in Seq(Byte) /\ rest \in Seq(Byte)
    BY <1>6, <1>10, <1>15
  <2> QED
    BY <2>1, SequencesAssociate
<1>18. Associate(b, d, tail)
  <2>1. b \in Seq(Byte) /\ d \in Seq(Byte) /\ tail \in Seq(Byte)
    BY <1>10, <1>13
  <2> QED
    BY <2>1, SequencesAssociate
<1>19. (b \o frame) \o rest = Delimited(b \o d, piece) \o rest
  BY <1>12, <1>14, <1>8, <1>18 DEF Delimited, Associate
<1> QED
  BY <1>2, <1>3, <1>4, <1>8, <1>9, <1>11, <1>16, <1>17, <1>19 DEF Associate

\* Where the bytes up to there, x, end in a frame with something behind it: what follows, w.
CutsFrame(before, between, rest, x, w) ==
  \/ \E y \in Seq(Byte) : y \o w = rest
  \/ x \in Seq({END})
  \/ \E n \in 1..(Len(between) - 1) : w = Delimited(<<>>, From(between, n)) \o rest
  \/ w = <<END>> \o rest

\* A stream of frames can be cut behind a frame, before it, in it, or before its last byte.
LEMMA FrameCut ==
  ASSUME NEW before \in Seq({END}), NEW between \in Seq(Byte), \A i \in 1..Len(between) : between[i] # END,
         NEW rest \in Seq(Byte), NEW x \in Seq(Byte), NEW w \in Seq(Byte),
         x \o w = Delimited(before, between) \o rest
  PROVE  CutsFrame(before, between, rest, x, w)
<1>1. PICK d : d = <<END>>
  OBVIOUS
<1>2. d \in Seq(Byte) /\ Len(d) = 1
  BY <1>1 DEF END, Byte
<1>3. PICK b : b = before
  OBVIOUS
<1>4. b \in Seq(Byte) /\ Len(b) \in Nat /\ \A i \in 1..Len(b) : b[i] = END
  BY <1>3, DelimitersFacts
<1>5. PICK tail : tail = between \o d
  OBVIOUS
<1>6. tail \in Seq(Byte) /\ Len(tail) = Len(between) + 1
  <2>1. tail \in Seq(Byte) /\ Len(tail) = Len(between) + Len(d)
    BY <1>2, <1>5, Joined
  <2> QED
    BY <1>2, <2>1
<1>7. PICK frame : frame = b \o tail
  OBVIOUS
<1>8. frame \in Seq(Byte) /\ Len(frame) = Len(b) + Len(tail)
  BY <1>4, <1>6, <1>7, Joined
<1>9. x \o w = frame \o rest
  BY <1>1, <1>3, <1>5, <1>7 DEF Delimited
<1>10. Len(x) \in Nat /\ Len(between) \in Nat
  OBVIOUS
<1>11. CASE Len(frame) <= Len(x)
  <2>1. Continues(x, w, frame, rest)
    BY <1>8, <1>9, <1>11, Overlap
  <2> QED
    BY <2>1 DEF Continues, CutsFrame
<1>12. CASE Len(x) < Len(frame)
  <2>1. PICK z : z = From(frame, Len(x))
    OBVIOUS
  <2>2. z \in Seq(Byte) /\ frame = x \o z /\ z \o rest = w
    <3>1. Len(x) <= Len(frame)
      BY <1>4, <1>6, <1>8, <1>10, <1>12
    <3>2. Continues(frame, rest, x, w)
      BY <1>8, <1>9, <3>1, Overlap
    <3> QED
      BY <2>1, <3>2 DEF Continues
  <2>3. b \o tail = x \o z
    BY <1>7, <2>2
  <2>4. CASE Len(x) <= Len(b)
    <3>1. PICK v : v = From(b, Len(x))
      OBVIOUS
    <3>2. Continues(b, tail, x, z)
      BY <1>4, <1>6, <2>2, <2>3, <2>4, Overlap
    <3>3. v \in Seq(Byte) /\ b = x \o v
      BY <3>1, <3>2 DEF Continues
    <3>4. ASSUME NEW i \in 1..Len(x) PROVE x[i] = END
      <4>1. (x \o v)[i] = x[i]
        BY <3>3, Joined
      <4>2. i \in 1..Len(b)
        BY <1>4, <1>10, <2>4
      <4> QED
        BY <1>4, <3>3, <4>1, <4>2
    <3>5. x \in Seq({END})
      BY <3>4, AreDelimiters
    <3> QED
      BY <3>5 DEF CutsFrame
  <2>5. CASE Len(b) < Len(x)
    <3>1. PICK u : u = From(x, Len(b))
      OBVIOUS
    <3>2. u \in Seq(Byte) /\ Len(u) = Len(x) - Len(b) /\ u \o z = tail
      <4>1. Len(b) <= Len(x)
        BY <1>4, <1>10, <2>5
      <4>2. Continues(x, z, b, tail)
        BY <1>4, <1>6, <2>2, <2>3, <4>1, Overlap
      <4> QED
        BY <3>1, <4>2 DEF Continues
    <3>3. PICK n : n = Len(u)
      OBVIOUS
    <3>4. n \in 1..Len(between)
      BY <1>4, <1>6, <1>8, <1>10, <1>12, <2>5, <3>2, <3>3, SMTT(30)
    <3>5. PICK q : q = From(between, n)
      OBVIOUS
    <3>6. q \in Seq(Byte) /\ Len(q) = Len(between) - n /\ q \o d = z
      <4>1. between \o d = u \o z /\ Len(u) <= Len(between)
        BY <1>5, <3>2, <3>3, <3>4
      <4>2. Continues(between, d, u, z)
        BY <1>2, <2>2, <3>2, <4>1, Overlap
      <4> QED
        BY <3>3, <3>5, <4>2 DEF Continues
    <3>7. CASE n = Len(between)
      <4>1. Len(q) = 0
        BY <1>10, <3>6, <3>7
      <4>2. q = <<>>
        BY <3>6, <4>1
      <4>3. <<>> \o d = d
        BY <1>2
      <4>4. w = d \o rest
        BY <2>2, <3>6, <4>2, <4>3
      <4> QED
        BY <1>1, <4>4 DEF CutsFrame
    <3>8. CASE n # Len(between)
      <4>1. n \in 1..(Len(between) - 1)
        BY <1>10, <3>4, <3>8
      <4>2. <<>> \o z = z
        BY <2>2
      <4>3. w = Delimited(<<>>, From(between, n)) \o rest
        BY <1>1, <2>2, <3>5, <3>6, <4>2 DEF Delimited
      <4> QED
        BY <4>1, <4>3 DEF CutsFrame
    <3> QED
      BY <3>7, <3>8
  <2> QED
    BY <1>4, <1>10, <2>4, <2>5
<1> QED
  BY <1>4, <1>6, <1>8, <1>10, <1>11, <1>12

\* What the bytes w hold when those before them, in the frames of packets, are gone.
ResumesAt(packets, w) ==
  \E p, q \in Seq(Packet) : packets = p \o q /\ (Whole(q, w) \/ Cut(Range(p), q, w))

\* A sequence of packets and what is behind it, one packet at a time.
LEMMA BehindFirst ==
  ASSUME NEW packets \in Seq(Packet), packets # <<>>, NEW p \in Seq(Packet), NEW q \in Seq(Packet),
         Tail(packets) = p \o q
  PROVE  \E r \in Seq(Packet) : packets = r \o q /\ Range(r) = {Head(packets)} \cup Range(p)
<1>1. PICK h : h = Head(packets)
  OBVIOUS
<1>2. PICK one : one = <<h>>
  OBVIOUS
<1>3. h \in Packet /\ packets = one \o (p \o q)
  BY <1>1, <1>2, FramesSplit DEF FrameMode
<1>4. one \in Seq(Packet) /\ Range(one) = {h}
  <2>1. one \in Seq(Packet) /\ Len(one) = 1 /\ one[1] = h
    BY <1>2, <1>3
  <2> QED
    BY <2>1 DEF Range
<1>5. one \o p \in Seq(Packet) /\ Range(one \o p) = Range(one) \cup Range(p)
  BY <1>4, RangeOfJoin
<1>6. (one \o p) \o q = one \o (p \o q)
  <2>1. one \in Seq(Packet) /\ p \in Seq(Packet) /\ q \in Seq(Packet)
    BY <1>4
  <2>2. Associate(one, p, q)
    BY <2>1, SequencesAssociate
  <2> QED
    BY <2>2 DEF Associate
<1> QED
  BY <1>1, <1>3, <1>4, <1>5, <1>6

\* For any bytes that are gone: by induction on the number of packets.
LEMMA FramesResume ==
  ASSUME NEW packets \in Seq(Packet), NEW before \in Seq({END}), NEW x \in Seq(Byte), NEW w \in Seq(Byte),
         x \o w = before \o FramesOf("FRAME_MODE_1_1", packets)
  PROVE  ResumesAt(packets, w)
<1> DEFINE m == "FRAME_MODE_1_1"
           Resumes(p) == \A e \in Seq({END}), y, v \in Seq(Byte) :
                           y \o v = e \o FramesOf(m, p) => ResumesAt(p, v)
<1>1. m \in FrameMode
  BY DEF FrameMode
<1>2. PICK N : N = Len(packets)
  OBVIOUS
<1>3. N \in Nat
  BY <1>2
<1> DEFINE Lengths == {l \in 0..N : \A p \in Seq(Packet) : Len(p) = l => Resumes(p)}
<1>4. ASSUME NEW p \in Seq(Packet), Len(p) = 0 PROVE Resumes(p)
  <2> SUFFICES ASSUME NEW e \in Seq({END}), NEW y \in Seq(Byte), NEW v \in Seq(Byte), y \o v = e \o FramesOf(m, p)
               PROVE  ResumesAt(p, v)
    OBVIOUS
  <2>1. p = <<>>
    BY <1>4
  <2>2. FramesOf(m, p) = <<>>
    BY <2>1, FramesOfNone
  <2>3. PICK b : b = e
    OBVIOUS
  <2>4. b \in Seq(Byte) /\ \A i \in 1..Len(b) : b[i] = END
    BY <2>3, DelimitersFacts
  <2>5. b \o <<>> = b
    BY <2>4
  <2>6. y \o v = b
    BY <2>2, <2>3, <2>5
  <2>7. /\ Len(y \o v) = Len(y) + Len(v) /\ \A i \in 1..Len(v) : (y \o v)[Len(y) + i] = v[i]
    BY Joined
  <2>8. ASSUME NEW i \in 1..Len(v) PROVE v[i] = END
    <3>1. Len(y) + i \in 1..Len(b)
      BY <2>6, <2>7
    <3> QED
      BY <2>4, <2>6, <2>7, <3>1
  <2>9. v \in Seq({END})
    BY <2>8, AreDelimiters
  <2>10. PICK none : none = <<>>
    OBVIOUS
  <2>11. none \in Seq({END}) /\ none \o v = v /\ v \o none = v
    BY <2>10, NoDelimiter
  <2>12. Whole(p, v)
    BY <2>2, <2>9, <2>10, <2>11 DEF Whole
  <2>13. p \o p = p
    BY <2>1
  <2> QED
    BY <2>12, <2>13 DEF ResumesAt
<1>5. ASSUME NEW p \in Seq(Packet), p # <<>>, Resumes(Tail(p)) PROVE Resumes(p)
  <2> SUFFICES ASSUME NEW e \in Seq({END}), NEW y \in Seq(Byte), NEW v \in Seq(Byte), y \o v = e \o FramesOf(m, p)
               PROVE  ResumesAt(p, v)
    OBVIOUS
  <2>1. PICK first : first = Head(p)
    OBVIOUS
  <2>2. PICK t : t = Tail(p)
    OBVIOUS
  <2>3. PICK rest : rest = FramesOf(m, t)
    OBVIOUS
  <2>4. PICK piece : piece = Escapes(first)
    OBVIOUS
  <2>5. first \in Packet /\ t \in Seq(Packet) /\ FramesOf(m, p) = CreateFrame(m, first) \o rest
    BY <1>1, <1>5, <2>1, <2>2, <2>3, FramesSplit
  <2>6. rest \in Seq(Byte)
    BY <1>1, <2>3, <2>5, FramesType
  <2>7. piece \in Seq(Byte) /\ \A i \in 1..Len(piece) : piece[i] # END
    BY <2>4, <2>5, FrameIsDelimited
  <2>8. PICK pad : pad = e \o <<END>>
    OBVIOUS
  <2>9. /\ pad \in Seq({END}) /\ piece \in Seq(Byte) /\ (\A i \in 1..Len(piece) : piece[i] # END)
        /\ rest \in Seq(Byte) /\ y \in Seq(Byte) /\ v \in Seq(Byte) /\ y \o v = Delimited(pad, piece) \o rest
    BY <1>5, <2>1, <2>2, <2>3, <2>4, <2>6, <2>7, <2>8, FrameBehind
  <2>10. CutsFrame(pad, piece, rest, y, v)
    BY <2>9, FrameCut
  <2>11. CASE \E z \in Seq(Byte) : z \o v = rest
    <3>1. PICK z \in Seq(Byte) : z \o v = rest
      BY <2>11
    <3>2. PICK none : none = <<>>
      OBVIOUS
    <3>3. none \in Seq({END}) /\ none \o rest = rest
      BY <2>6, <3>2, NoDelimiter
    <3>4. ResumesAt(t, v)
      BY <1>5, <2>2, <2>3, <3>1, <3>3
    <3>5. PICK r, q \in Seq(Packet) : t = r \o q /\ (Whole(q, v) \/ Cut(Range(r), q, v))
      BY <3>4 DEF ResumesAt
    <3>6. PICK s \in Seq(Packet) : p = s \o q /\ Range(s) = {Head(p)} \cup Range(r)
      <4>1. p \in Seq(Packet) /\ p # <<>> /\ r \in Seq(Packet) /\ q \in Seq(Packet) /\ Tail(p) = r \o q
        BY <1>5, <2>2, <3>5
      <4> QED
        BY <4>1, BehindFirst
    <3>7. Cut(Range(r), q, v) => Cut(Range(s), q, v)
      BY <3>6 DEF Cut
    <3> QED
      BY <3>5, <3>6, <3>7 DEF ResumesAt
  <2>12. CASE y \in Seq({END})
    <3>1. Whole(p, v)
      BY <2>12 DEF Whole
    <3>2. PICK none : none = <<>>
      OBVIOUS
    <3>3. none \in Seq(Packet) /\ none \o p = p
      BY <3>2
    <3> QED
      BY <3>1, <3>3 DEF ResumesAt
  <2>13. PICK one \in Seq(Packet) : p = one \o t /\ Range(one) = {first}
    <3>1. PICK none : none = <<>>
      OBVIOUS
    <3>2. none \in Seq(Packet) /\ t = none \o t /\ Range(none) = {}
      BY <2>5, <3>1 DEF Range
    <3>3. PICK q : q = t
      OBVIOUS
    <3>4. p \in Seq(Packet) /\ p # <<>> /\ none \in Seq(Packet) /\ q \in Seq(Packet) /\ Tail(p) = none \o q
      BY <1>5, <2>2, <2>5, <3>2, <3>3
    <3>5. \E one \in Seq(Packet) : p = one \o q /\ Range(one) = {Head(p)} \cup Range(none)
      BY <3>4, BehindFirst
    <3> QED
      BY <2>1, <3>2, <3>3, <3>5
  <2>14. CASE \E n \in 1..(Len(piece) - 1) : v = Delimited(<<>>, From(piece, n)) \o rest
    <3>1. PICK n \in 1..(Len(piece) - 1) : v = Delimited(<<>>, From(piece, n)) \o rest
      BY <2>14
    <3>2. PICK none : none = <<>>
      OBVIOUS
    <3>3. none \in Seq({END}) /\ none \o v = v
      BY <3>2, NoDelimiter
    <3>4. n \in 1..(Len(Escapes(first)) - 1) /\ none \o v = EndOf(first, n) \o FramesOf(m, t)
      BY <2>3, <2>4, <3>1, <3>3 DEF EndOf
    <3>5. Cut(Range(one), t, v)
      BY <2>13, <3>3, <3>4 DEF Cut
    <3> QED
      BY <2>5, <2>13, <3>5 DEF ResumesAt
  <2>15. CASE v = <<END>> \o rest
    <3>1. PICK none : none = <<>>
      OBVIOUS
    <3>2. none \in Seq({END}) /\ none \o v = v
      BY <3>1, NoDelimiter
    <3>3. Whole(t, v)
      BY <2>3, <2>15, <3>2, OneDelimiter DEF Whole
    <3> QED
      BY <2>5, <2>13, <3>3 DEF ResumesAt
  <2> QED
    BY <2>10, <2>11, <2>12, <2>14, <2>15 DEF CutsFrame
<1> HIDE DEF Resumes
<1>6. 0 \in Lengths
  BY <1>3, <1>4
<1>7. ASSUME NEW i \in 1..N, i - 1 \in Lengths PROVE i \in Lengths
  <2>1. ASSUME NEW p \in Seq(Packet), Len(p) = i PROVE Resumes(p)
    <3>1. p # <<>>
      BY <2>1
    <3>2. Tail(p) \in Seq(Packet) /\ Len(Tail(p)) = i - 1
      BY <2>1, <3>1
    <3>3. Resumes(Tail(p))
      BY <1>7, <3>2
    <3> QED
      BY <1>5, <3>1, <3>3
  <2>2. i \in 0..N
    BY <1>3
  <2> QED
    BY <2>1, <2>2
<1> HIDE DEF Lengths
<1>8. N \in Lengths
  <2>1. \A i \in 0..N : i \in Lengths
    BY <1>3, <1>6, <1>7, Induction
  <2> QED
    BY <1>3, <2>1
<1>9. Resumes(packets)
  BY <1>2, <1>8 DEF Lengths
<1> QED
  BY <1>9 DEF Resumes

\* The end of the frame of a packet.
LEMMA EndFacts ==
  ASSUME NEW packet \in Packet, NEW n \in 1..(Len(Escapes(packet)) - 1)
  PROVE  LET piece == From(Escapes(packet), n)
         IN  /\ piece \in Seq(Byte) /\ piece # <<>>
             /\ Len(piece) = Len(Escapes(packet)) - n
             /\ \A i \in 1..Len(piece) : piece[i] # END
             /\ Unescaped(piece) \in Remnants(packet)
             /\ \A k \in 1..(Len(piece) - 1) :
                  /\ n + k \in 1..(Len(Escapes(packet)) - 1)
                  /\ From(piece, k) = From(Escapes(packet), n + k)
<1>1. PICK e : e = Escapes(packet)
  OBVIOUS
<1>2. e \in Seq(Byte) /\ \A i \in 1..Len(e) : e[i] # END
  BY <1>1, FrameIsDelimited
<1>3. PICK piece : piece = From(e, n)
  OBVIOUS
<1>4. n \in Nat /\ 1 <= n /\ n <= Len(e) - 1 /\ Len(e) \in Nat
  BY <1>1, <1>2
<1>5. /\ piece \in Seq(Byte) /\ Len(piece) = Len(e) - n
      /\ \A i \in 1..(Len(e) - n) : piece[i] = e[n + i]
  <2>1. e \in Seq(Byte) /\ n \in Nat /\ n <= Len(e)
    BY <1>2, <1>4
  <2> QED
    BY <1>3, <2>1, FromElements
<1>6. piece # <<>>
  <2>1. Len(piece) # 0
    BY <1>4, <1>5
  <2> QED
    BY <2>1
<1>7. ASSUME NEW i \in 1..Len(piece) PROVE piece[i] # END
  <2>1. i \in 1..(Len(e) - n) /\ n + i \in 1..Len(e)
    BY <1>4, <1>5
  <2> QED
    BY <1>2, <1>5, <2>1
<1>8. Unescaped(piece) \in Remnants(packet)
  BY <1>1, <1>3 DEF Remnants
<1>9. ASSUME NEW k \in 1..(Len(piece) - 1)
      PROVE  n + k \in 1..(Len(e) - 1) /\ From(piece, k) = From(e, n + k)
  <2>1. k \in Nat /\ k <= Len(piece) /\ n + k \in Nat /\ n + k <= Len(e) /\ n + k \in 1..(Len(e) - 1)
    BY <1>4, <1>5
  <2>2. PICK a : a = From(piece, k)
    OBVIOUS
  <2>3. PICK m : m = n + k
    OBVIOUS
  <2>4. PICK b : b = From(e, m)
    OBVIOUS
  <2>5. a \in Seq(Byte) /\ Len(a) = Len(piece) - k /\ \A i \in 1..(Len(piece) - k) : a[i] = piece[k + i]
    BY <1>5, <2>1, <2>2, FromElements
  <2>6. b \in Seq(Byte) /\ Len(b) = Len(e) - m /\ \A i \in 1..(Len(e) - m) : b[i] = e[m + i]
    BY <1>2, <2>1, <2>3, <2>4, FromElements
  <2>7. Len(a) = Len(b) /\ Len(a) = Len(e) - m
    <3>1. PICK l : l = Len(e)
      OBVIOUS
    <3>2. PICK p : p = Len(piece)
      OBVIOUS
    <3>3. l \in Nat /\ p = l - n /\ n \in Nat /\ k \in Nat /\ m = n + k
      BY <1>4, <1>5, <2>1, <2>3, <3>1, <3>2
    <3>4. p - k = l - m
      BY <3>3
    <3> QED
      BY <2>5, <2>6, <3>1, <3>2, <3>4
  <2>8. ASSUME NEW i \in 1..Len(a) PROVE a[i] = b[i]
    <3>1. /\ i \in 1..(Len(piece) - k) /\ i \in 1..(Len(e) - m)
          /\ k + i \in 1..(Len(e) - n) /\ n + (k + i) = m + i
      BY <1>4, <1>5, <2>1, <2>3, <2>5, <2>7
    <3> QED
      BY <1>5, <2>5, <2>6, <3>1
  <2>9. a = b
    BY <2>5, <2>6, <2>7, <2>8, SeqEqual
  <2> QED
    BY <2>1, <2>2, <2>3, <2>4, <2>9
<1> QED
  BY <1>1, <1>3, <1>5, <1>6, <1>7, <1>8, <1>9

\* What is left of the packets when bytes have been dropped, and what of it was cut.
LeftBehind(gone, packets, w) ==
  \E p, q \in Seq(Packet) : packets = p \o q /\ (Whole(q, w) \/ Cut(Range(gone \o p), q, w))

\* The bytes behind those that are dropped are those of a flow again.
LEMMA DroppedResumes ==
  ASSUME NEW gone \in Seq(Packet), NEW packets \in Seq(Packet), NEW y \in Seq(Byte), NEW w \in Seq(Byte),
         Whole(packets, y \o w) \/ Cut(Range(gone), packets, y \o w)
  PROVE  LeftBehind(gone, packets, w)
<1> DEFINE m == "FRAME_MODE_1_1"
<1>1. PICK none : none = <<>>
  OBVIOUS
<1>2. /\ none \in Seq({END}) /\ none \in Seq(Byte) /\ none \in Seq(Packet)
      /\ none \o packets = packets /\ none \o w = w
  BY <1>1, NoDelimiter
<1>3. PICK rest : rest = FramesOf(m, packets)
  OBVIOUS
<1>4. rest \in Seq(Byte) /\ none \o rest = rest
  <2>1. rest \in Seq(Byte)
    BY <1>3, FramesType DEF FrameMode
  <2> QED
    BY <1>1, <2>1
<1>5. ASSUME ResumesAt(packets, w) PROVE LeftBehind(gone, packets, w)
  <2>1. PICK p, q \in Seq(Packet) : packets = p \o q /\ (Whole(q, w) \/ Cut(Range(p), q, w))
    BY <1>5 DEF ResumesAt
  <2>2. Range(p) \subseteq Range(gone \o p)
    BY RangeOfJoin
  <2>3. Cut(Range(p), q, w) => Cut(Range(gone \o p), q, w)
    BY <2>2 DEF Cut
  <2> QED
    BY <2>1, <2>3 DEF LeftBehind
<1>6. ASSUME Whole(packets, w) \/ Cut(Range(gone), packets, w) PROVE LeftBehind(gone, packets, w)
  <2>1. Range(gone) \subseteq Range(gone \o none)
    BY <1>2, RangeOfJoin
  <2>2. Cut(Range(gone), packets, w) => Cut(Range(gone \o none), packets, w)
    BY <2>1 DEF Cut
  <2> QED
    BY <1>2, <1>6, <2>2 DEF LeftBehind
<1>7. CASE Whole(packets, y \o w)
  <2>1. PICK skipped, before \in Seq({END}) : skipped \o (y \o w) = before \o rest
    BY <1>3, <1>7 DEF Whole
  <2>2. PICK s : s = skipped
    OBVIOUS
  <2>3. s \in Seq(Byte)
    BY <2>2, DelimitersFacts
  <2>4. PICK x : x = s \o y
    OBVIOUS
  <2>5. x \in Seq(Byte)
    BY <2>3, <2>4, Joined
  <2>6. Associate(s, y, w)
    BY <2>3, SequencesAssociate
  <2>7. x \o w = before \o rest
    BY <2>1, <2>2, <2>4, <2>6 DEF Associate
  <2>8. ResumesAt(packets, w)
    BY <1>3, <2>5, <2>7, FramesResume
  <2> QED
    BY <1>5, <2>8
<1>8. CASE Cut(Range(gone), packets, y \o w)
  <2>1. PICK packet \in Range(gone), skipped \in Seq({END}) : \E n \in 1..(Len(Escapes(packet)) - 1) :
          skipped \o (y \o w) = EndOf(packet, n) \o rest
    BY <1>3, <1>8 DEF Cut
  <2>2. PICK n \in 1..(Len(Escapes(packet)) - 1) : skipped \o (y \o w) = EndOf(packet, n) \o rest
    BY <2>1
  <2>3. packet \in Packet
    BY DEF Range
  <2>4. PICK piece : piece = From(Escapes(packet), n)
    OBVIOUS
  <2>5. /\ piece \in Seq(Byte) /\ \A i \in 1..Len(piece) : piece[i] # END
        /\ \A k \in 1..(Len(piece) - 1) :
             n + k \in 1..(Len(Escapes(packet)) - 1) /\ From(piece, k) = From(Escapes(packet), n + k)
    BY <2>3, <2>4, EndFacts
  <2>6. PICK s : s = skipped
    OBVIOUS
  <2>7. s \in Seq(Byte)
    BY <2>6, DelimitersFacts
  <2>8. PICK x : x = s \o y
    OBVIOUS
  <2>9. x \in Seq(Byte)
    BY <2>7, <2>8, Joined
  <2>10. Associate(s, y, w)
    BY <2>7, SequencesAssociate
  <2>11. x \o w = Delimited(none, piece) \o rest
    BY <1>1, <2>2, <2>4, <2>6, <2>8, <2>10 DEF Associate, EndOf
  <2>12. CutsFrame(none, piece, rest, x, w)
    BY <1>2, <1>4, <2>5, <2>9, <2>11, FrameCut
  <2>13. CASE \E z \in Seq(Byte) : z \o w = rest
    <3>1. PICK z \in Seq(Byte) : z \o w = rest
      BY <2>13
    <3>2. ResumesAt(packets, w)
      BY <1>2, <1>3, <1>4, <3>1, FramesResume
    <3> QED
      BY <1>5, <3>2
  <2>14. CASE x \in Seq({END})
    <3>1. x \o w = EndOf(packet, n) \o rest
      BY <1>1, <2>4, <2>11 DEF EndOf
    <3>2. Cut(Range(gone), packets, w)
      BY <1>3, <2>14, <3>1 DEF Cut
    <3> QED
      BY <1>6, <3>2
  <2>15. CASE \E k \in 1..(Len(piece) - 1) : w = Delimited(<<>>, From(piece, k)) \o rest
    <3>1. PICK k \in 1..(Len(piece) - 1) : w = Delimited(<<>>, From(piece, k)) \o rest
      BY <2>15
    <3>2. n + k \in 1..(Len(Escapes(packet)) - 1) /\ none \o w = EndOf(packet, n + k) \o rest
      BY <1>2, <2>5, <3>1 DEF EndOf
    <3>3. Cut(Range(gone), packets, w)
      BY <1>2, <1>3, <3>2 DEF Cut
    <3> QED
      BY <1>6, <3>3
  <2>16. CASE w = <<END>> \o rest
    <3>1. Whole(packets, w)
      BY <1>2, <1>3, <2>16, OneDelimiter DEF Whole
    <3> QED
      BY <1>6, <3>1
  <2> QED
    BY <2>12, <2>13, <2>14, <2>15, <2>16 DEF CutsFrame
<1> QED
  BY <1>7, <1>8

\* More frames behind those on their way.
LEMMA FramesFollow ==
  ASSUME NEW packets \in Seq(Packet), NEW more \in Seq(Packet), NEW bytes \in Seq(Byte), NEW broken \in SUBSET Packet
  PROVE  LET next == bytes \o FramesOf("FRAME_MODE_1_1", more)
         IN  /\ Whole(packets, bytes) => Whole(packets \o more, next)
             /\ Cut(broken, packets, bytes) => Cut(broken, packets \o more, next)
<1> DEFINE m == "FRAME_MODE_1_1"
<1>1. PICK f : f = FramesOf(m, packets)
  OBVIOUS
<1>2. PICK g : g = FramesOf(m, more)
  OBVIOUS
<1>3. f \in Seq(Byte) /\ g \in Seq(Byte) /\ FramesOf(m, packets \o more) = f \o g
  BY <1>1, <1>2, FramesType, FramesJoin DEF FrameMode
<1>4. ASSUME NEW skipped \in Seq({END}), NEW before \in Seq(Byte), skipped \o bytes = before \o f
      PROVE  skipped \o (bytes \o g) = before \o (f \o g)
  <2>1. PICK s : s = skipped
    OBVIOUS
  <2>2. s \in Seq(Byte)
    BY <2>1, DelimitersFacts
  <2>3. Associate(s, bytes, g)
    BY <1>3, <2>2, SequencesAssociate
  <2>4. Associate(before, f, g)
    BY <1>3, SequencesAssociate
  <2> QED
    BY <1>4, <2>1, <2>3, <2>4 DEF Associate
<1>5. ASSUME Whole(packets, bytes) PROVE Whole(packets \o more, bytes \o g)
  <2>1. PICK skipped, before \in Seq({END}) : skipped \o bytes = before \o f
    BY <1>1, <1>5 DEF Whole
  <2>2. before \in Seq(Byte)
    BY DelimitersFacts
  <2>3. skipped \o (bytes \o g) = before \o (f \o g)
    BY <1>4, <2>1, <2>2
  <2> QED
    BY <1>3, <2>3 DEF Whole
<1>6. ASSUME Cut(broken, packets, bytes) PROVE Cut(broken, packets \o more, bytes \o g)
  <2>1. PICK packet \in broken, skipped \in Seq({END}) : \E n \in 1..(Len(Escapes(packet)) - 1) :
          skipped \o bytes = EndOf(packet, n) \o f
    BY <1>1, <1>6 DEF Cut
  <2>2. PICK n \in 1..(Len(Escapes(packet)) - 1) : skipped \o bytes = EndOf(packet, n) \o f
    BY <2>1
  <2>3. PICK piece : piece = From(Escapes(packet), n)
    OBVIOUS
  <2>4. piece \in Seq(Byte) /\ \A i \in 1..Len(piece) : piece[i] # END
    BY <2>3, EndFacts
  <2>5. EndOf(packet, n) \in Seq(Byte)
    <3>1. PICK none : none = <<>>
      OBVIOUS
    <3>2. none \in Seq({END})
      BY <3>1, NoDelimiter
    <3>3. Delimited(none, piece) \in Seq(Byte)
      BY <2>4, <3>2, DelimitedFacts
    <3> QED
      BY <2>3, <3>1, <3>3 DEF EndOf
  <2>6. skipped \o (bytes \o g) = EndOf(packet, n) \o (f \o g)
    BY <1>4, <2>2, <2>5
  <2> QED
    BY <1>3, <2>6 DEF Cut
<1> QED
  BY <1>2, <1>5, <1>6

\* What GetNextFrame_Mode_1_1 gets of the bytes of a flow.
LEMMA ReadsWhole ==
  ASSUME NEW packets \in Seq(Packet), NEW oscStream \in Stream, NEW more \in Seq(Byte),
         Whole(packets, oscStream.buf \o more)
  PROVE  LET got == GetNextFrame_1_1(oscStream)
         IN  \/ got.frame = NoFrame /\ Whole(packets, got.stream.buf \o more)
             \/ /\ packets # <<>> /\ got.frame = Head(packets)
                /\ Whole(Tail(packets), got.stream.buf \o more)
<1> DEFINE m == "FRAME_MODE_1_1"
<1>1. PICK got : got = GetNextFrame_1_1(oscStream)
  OBVIOUS
<1>2. PICK skipped, before \in Seq({END}) : skipped \o (oscStream.buf \o more) = before \o FramesOf(m, packets)
  BY DEF Whole
<1>3. PICK none : none = <<>>
  OBVIOUS
<1>4. none \in Seq({END}) /\ none \o more = more
  BY <1>3, NoDelimiter
<1>5. CASE packets = <<>>
  <2>1. before \o none = before /\ FramesOf(m, packets) = none
    BY <1>3, <1>5, FramesOfNone
  <2>2. skipped \o (oscStream.buf \o more) = before
    BY <1>2, <2>1
  <2>3. got.frame = NoFrame /\ got.stream.buf = none /\ skipped \o oscStream.buf \in Seq({END})
    BY <1>1, <1>3, <2>2, ReadsDelimiters
  <2>4. PICK s : s = skipped
    OBVIOUS
  <2>5. PICK buf : buf = oscStream.buf
    OBVIOUS
  <2>6. s \in Seq(Byte) /\ buf \in Seq(Byte)
    BY <2>4, <2>5, DelimitersFacts DEF Stream
  <2>7. Associate(s, buf, more)
    BY <2>6, SequencesAssociate
  <2>8. (s \o buf) \o (none \o more) = before \o FramesOf(m, packets)
    BY <1>4, <2>1, <2>2, <2>4, <2>5, <2>7 DEF Associate
  <2>9. Whole(packets, none \o more)
    BY <2>3, <2>4, <2>5, <2>8 DEF Whole
  <2> QED
    BY <1>1, <2>3, <2>9
<1>6. CASE packets # <<>>
  <2>1. PICK first : first = Head(packets)
    OBVIOUS
  <2>2. PICK rest : rest = FramesOf(m, Tail(packets))
    OBVIOUS
  <2>3. PICK piece : piece = Escapes(first)
    OBVIOUS
  <2>4. PICK pad : pad = before \o <<END>>
    OBVIOUS
  <2>5. pad \in Seq({END}) /\ before \o FramesOf(m, packets) = Delimited(pad, piece) \o rest
    BY <1>6, <2>1, <2>2, <2>3, <2>4, FrameBehind
  <2>6. first \in Packet /\ Tail(packets) \in Seq(Packet)
    BY <1>6, <2>1
  <2>7. rest \in Seq(Byte)
    BY <2>2, <2>6, FramesType DEF FrameMode
  <2>8. /\ piece \in Seq(Byte) /\ piece # <<>> /\ (\A i \in 1..Len(piece) : piece[i] # END)
        /\ Unescaped(piece) = first
    BY <2>3, <2>6, FrameIsDelimited
  <2>9. GetsDelimited(pad, piece, rest, oscStream.buf, more, got)
    <3>1. /\ pad \in Seq({END}) /\ piece \in Seq(Byte) /\ piece # <<>> /\ (\A i \in 1..Len(piece) : piece[i] # END)
          /\ rest \in Seq(Byte) /\ skipped \in Seq({END})
          /\ skipped \o (oscStream.buf \o more) = Delimited(pad, piece) \o rest
      BY <1>2, <2>5, <2>7, <2>8
    <3> QED
      BY <1>1, <3>1, ReadsDelimited
  <2>10. ASSUME NEW s \in Seq({END}), s \o (got.stream.buf \o more) = Delimited(pad, piece) \o rest
         PROVE  Whole(packets, got.stream.buf \o more)
    BY <2>5, <2>10 DEF Whole
  <2>11. ASSUME got.stream.buf \o more = rest PROVE Whole(Tail(packets), got.stream.buf \o more)
    <3>1. none \o rest = rest
      BY <1>3, <2>7
    <3>2. Whole(Tail(packets), rest)
      BY <1>4, <2>2, <3>1 DEF Whole
    <3> QED
      BY <2>11, <3>2
  <2> QED
    BY <1>1, <1>6, <2>1, <2>8, <2>9, <2>10, <2>11 DEF GetsDelimited
<1> QED
  BY <1>5, <1>6

\* When a frame was cut, its end is read as a frame, or dropped when it holds no byte.
LEMMA ReadsCut ==
  ASSUME NEW packets \in Seq(Packet), NEW broken \in SUBSET Packet, NEW oscStream \in Stream, NEW more \in Seq(Byte),
         Cut(broken, packets, oscStream.buf \o more)
  PROVE  LET got == GetNextFrame_1_1(oscStream)
         IN  \/ got.frame = NoFrame /\ Cut(broken, packets, got.stream.buf \o more)
             \/ /\ \E packet \in broken : got.frame \in Remnants(packet)
                /\ Whole(packets, got.stream.buf \o more)
<1> DEFINE m == "FRAME_MODE_1_1"
<1>1. PICK got : got = GetNextFrame_1_1(oscStream)
  OBVIOUS
<1>2. PICK rest : rest = FramesOf(m, packets)
  OBVIOUS
<1>3. rest \in Seq(Byte)
  BY <1>2, FramesType DEF FrameMode
<1>4. PICK packet \in broken, skipped \in Seq({END}) : \E n \in 1..(Len(Escapes(packet)) - 1) :
        skipped \o (oscStream.buf \o more) = EndOf(packet, n) \o rest
  BY <1>2 DEF Cut
<1>5. PICK n \in 1..(Len(Escapes(packet)) - 1) : skipped \o (oscStream.buf \o more) = EndOf(packet, n) \o rest
  BY <1>4
<1>6. PICK piece : piece = From(Escapes(packet), n)
  OBVIOUS
<1>7. /\ piece \in Seq(Byte) /\ piece # <<>> /\ (\A i \in 1..Len(piece) : piece[i] # END)
      /\ Unescaped(piece) \in Remnants(packet)
  BY <1>6, EndFacts
<1>8. PICK none : none = <<>>
  OBVIOUS
<1>9. none \in Seq({END}) /\ none \o rest = rest
  BY <1>3, <1>8, NoDelimiter
<1>10. EndOf(packet, n) = Delimited(none, piece)
  BY <1>6, <1>8 DEF EndOf
<1>11. GetsDelimited(none, piece, rest, oscStream.buf, more, got)
  <2>1. /\ none \in Seq({END}) /\ piece \in Seq(Byte) /\ piece # <<>> /\ (\A i \in 1..Len(piece) : piece[i] # END)
        /\ rest \in Seq(Byte) /\ skipped \in Seq({END})
        /\ skipped \o (oscStream.buf \o more) = Delimited(none, piece) \o rest
    BY <1>3, <1>5, <1>7, <1>9, <1>10
  <2> QED
    BY <1>1, <2>1, ReadsDelimited
<1>12. ASSUME NEW s \in Seq({END}), s \o (got.stream.buf \o more) = Delimited(none, piece) \o rest
       PROVE  Cut(broken, packets, got.stream.buf \o more)
  BY <1>2, <1>10, <1>12 DEF Cut
<1>13. ASSUME got.stream.buf \o more = rest PROVE Whole(packets, got.stream.buf \o more)
  <2>1. Whole(packets, rest)
    BY <1>2, <1>9 DEF Whole
  <2> QED
    BY <1>13, <2>1
<1> QED
  BY <1>1, <1>7, <1>11, <1>12, <1>13 DEF GetsDelimited

(***************************************************************************)
(* In mode FRAME_MODE_1_1, what was sent is what is gone, received or      *)
(* dropped, and what is still to be received.  The frames received are     *)
(* salvaged from what is gone, with a cut to spare when the end of a cut   *)
(* packet is still to be read.  This is what Resynchronizes needs.         *)
(***************************************************************************)
Readable == Packet \cup UNION {Remnants(packet) : packet \in Packet}

Salvages(gone, packets) ==
  /\ SentPackets = gone \o packets
  /\ \E cuts \in 0..overflows :
       /\ Salvaged(received, gone, cuts)
       /\ \/ Whole(packets, stream.buf \o wire)
          \/ cuts < overflows /\ Cut(Range(gone), packets, stream.buf \o wire)

ResyncInv ==
  /\ PipeInv
  /\ sent \in Seq(Entry)
  /\ overflows \in Nat
  /\ mode = "FRAME_MODE_1_1" =>
       received \in Seq(Readable) /\ \E gone, packets \in Seq(Packet) : Salvages(gone, packets)

\* ResyncInv holds when nothing has been sent.
LEMMA InitResync == Init => ResyncInv
<1> SUFFICES ASSUME Init PROVE ResyncInv
  OBVIOUS
<1>1. PipeInv
  BY InitPipe
<1>2. sent = <<>> /\ overflows = 0 /\ wire = <<>> /\ received = <<>> /\ stream.buf = <<>>
  BY DEF Init, NewStream
<1>3. SentPackets = <<>>
  BY <1>2, SentPacketsFacts
<1>4. PICK none : none = <<>>
  OBVIOUS
<1>5. /\ none \in Seq(Packet) /\ none \in Seq(Entry) /\ none \in Seq(Readable) /\ none \in Seq({END})
      /\ none \o none = none
  BY <1>4, NoDelimiter
<1>6. Whole(none, none)
  <2>1. FramesOf("FRAME_MODE_1_1", none) = none
    BY <1>4, FramesOfNone
  <2> QED
    BY <1>5, <2>1 DEF Whole
<1>7. Salvaged(received, none, 0)
  BY <1>2, <1>4, NothingSalvaged
<1>8. Salvages(none, none)
  <2>1. 0 \in 0..overflows /\ stream.buf \o wire = none
    BY <1>2, <1>4, <1>5
  <2> QED
    BY <1>3, <1>4, <1>5, <1>6, <1>7, <2>1 DEF Salvages
<1> QED
  BY <1>1, <1>2, <1>4, <1>5, <1>8 DEF ResyncInv

\* Sending keeps ResyncInv: it puts frames behind those on their way.
LEMMA SendResync == ResyncInv /\ Send => ResyncInv'
<1> SUFFICES ASSUME ResyncInv, Send PROVE ResyncInv'
  OBVIOUS
<1>1. PipeInv /\ sent \in Seq(Entry) /\ overflows \in Nat
  BY DEF ResyncInv
<1>2. PipeInv'
  BY <1>1, NextPipe DEF Next
<1>3. /\ UNCHANGED <<mode, stream, received, overflows>>
      /\ sent' \in Seq(Entry) /\ SentPackets \in Seq(Packet)
  BY <1>1, SendFacts
<1>4. ASSUME mode = "FRAME_MODE_1_1"
      PROVE  received' \in Seq(Readable) /\ \E gone, packets \in Seq(Packet) : Salvages(gone, packets)'
  <2>1. PICK p \in Seq(Packet) : SentPackets' = SentPackets \o p /\ wire' = wire \o FramesOf(mode, p)
    BY <1>1, SendFacts
  <2>2. received \in Seq(Readable)
    BY <1>4 DEF ResyncInv
  <2>3. PICK gone, packets \in Seq(Packet) : Salvages(gone, packets)
    BY <1>4 DEF ResyncInv
  <2>4. PICK bytes : bytes = stream.buf \o wire
    OBVIOUS
  <2>5. PICK next : next = stream'.buf \o wire'
    OBVIOUS
  <2>6. bytes \in Seq(Byte) /\ next = bytes \o FramesOf("FRAME_MODE_1_1", p)
    <3>1. PICK b : b = stream.buf
      OBVIOUS
    <3>2. PICK f : f = FramesOf("FRAME_MODE_1_1", p)
      OBVIOUS
    <3>3. b \in Seq(Byte) /\ wire \in Seq(Byte) /\ f \in Seq(Byte)
      BY <1>1, <3>1, <3>2, FramesType DEF PipeInv, Stream, FrameMode
    <3>4. Associate(b, wire, f)
      BY <3>3, SequencesAssociate
    <3>5. bytes \in Seq(Byte)
      BY <2>4, <3>1, <3>3, Joined
    <3> QED
      BY <1>3, <1>4, <2>1, <2>4, <2>5, <3>1, <3>2, <3>4, <3>5 DEF Associate
  <2>7. Range(gone) \in SUBSET Packet
    BY DEF Range
  <2>8. /\ Whole(packets, bytes) => Whole(packets \o p, next)
        /\ Cut(Range(gone), packets, bytes) => Cut(Range(gone), packets \o p, next)
    BY <2>6, <2>7, FramesFollow
  <2>9. SentPackets' = gone \o (packets \o p) /\ packets \o p \in Seq(Packet)
    <3>1. Associate(gone, packets, p)
      BY SequencesAssociate
    <3>2. packets \o p \in Seq(Packet)
      BY JoinFacts
    <3> QED
      BY <2>1, <2>3, <3>1, <3>2 DEF Salvages, Associate
  <2>10. PICK cuts \in 0..overflows :
           /\ Salvaged(received, gone, cuts)
           /\ Whole(packets, bytes) \/ (cuts < overflows /\ Cut(Range(gone), packets, bytes))
    BY <2>3, <2>4 DEF Salvages
  <2>11. Salvages(gone, packets \o p)'
    BY <1>3, <2>5, <2>8, <2>9, <2>10 DEF Salvages
  <2> QED
    BY <1>3, <2>2, <2>9, <2>11
<1>5. overflows' \in Nat
  BY <1>1, <1>3
<1> QED
  BY <1>2, <1>3, <1>4, <1>5 DEF ResyncInv

\* What arrives moves from the wire to the stream, or a stream that is too full drops what it has and what arrives.
LEMMA ArriveResync == ResyncInv /\ (\E n \in ChunkSizes : Arrive(n)) => ResyncInv'
<1> SUFFICES ASSUME ResyncInv, NEW n \in ChunkSizes, Arrive(n) PROVE ResyncInv'
  OBVIOUS
<1>1. PipeInv /\ sent \in Seq(Entry) /\ overflows \in Nat
  BY DEF ResyncInv
<1>2. PipeInv'
  BY <1>1, NextPipe DEF Next
<1>3. PICK chunk : chunk = UpTo(wire, n)
  OBVIOUS
<1>4. PICK left : left = wire'
  OBVIOUS
<1>5. PICK b : b = stream.buf
  OBVIOUS
<1>6. /\ UNCHANGED <<mode, sent, received>> /\ wire # <<>> /\ left = From(wire, n)
      /\ stream' = Add(stream, chunk)
      /\ overflows' = overflows + (IF Overflows(stream, Len(chunk)) THEN 1 ELSE 0)
  BY <1>3, <1>4 DEF Arrive
<1>7. b \in Seq(Byte) /\ wire \in Seq(Byte) /\ n \in Nat \ {0}
  BY <1>1, <1>5, PipeAssumption DEF PipeInv, Stream
<1>8. chunk \in Seq(Byte) /\ chunk # <<>> /\ left \in Seq(Byte) /\ chunk \o left = wire
  <2>1. /\ UpTo(wire, n) \in Seq(Byte) /\ UpTo(wire, n) # <<>> /\ From(wire, n) \in Seq(Byte)
        /\ UpTo(wire, n) \o From(wire, n) = wire
    BY <1>6, <1>7, WireSplit
  <2> QED
    BY <1>3, <1>6, <2>1
<1>9. SentPackets' = SentPackets
  BY <1>6 DEF SentPackets
<1>10. PICK y : y = b \o chunk
  OBVIOUS
<1>11. y \in Seq(Byte) /\ y \o left = b \o wire
  <2>1. y \in Seq(Byte)
    BY <1>7, <1>8, <1>10, Joined
  <2>2. Associate(b, chunk, left)
    BY <1>7, <1>8, SequencesAssociate
  <2> QED
    BY <1>8, <1>10, <2>1, <2>2 DEF Associate
<1>12. overflows' \in Nat
  BY <1>1, <1>6
<1>13. ASSUME mode = "FRAME_MODE_1_1"
       PROVE  received' \in Seq(Readable) /\ \E gone, packets \in Seq(Packet) : Salvages(gone, packets)'
  <2>1. received' \in Seq(Readable) /\ received \in Seq(Readable)
    BY <1>6, <1>13 DEF ResyncInv
  <2>2. PICK gone, packets \in Seq(Packet) : Salvages(gone, packets)
    BY <1>13 DEF ResyncInv
  <2>3. SentPackets = gone \o packets
    BY <2>2 DEF Salvages
  <2>4. PICK cuts \in 0..overflows :
          /\ Salvaged(received, gone, cuts)
          /\ Whole(packets, y \o left) \/ (cuts < overflows /\ Cut(Range(gone), packets, y \o left))
    BY <1>5, <1>11, <2>2 DEF Salvages
  <2>5. CASE ~Overflows(stream, Len(chunk))
    <3>1. overflows' = overflows /\ stream'.buf = y
      BY <1>1, <1>5, <1>6, <1>8, <1>10, <2>5 DEF Add
    <3>2. Salvages(gone, packets)'
      BY <1>4, <1>6, <1>9, <2>3, <2>4, <3>1 DEF Salvages
    <3> QED
      BY <2>1, <3>2
  <2>6. CASE Overflows(stream, Len(chunk))
    <3>1. overflows' = overflows + 1 /\ stream'.buf = <<>>
      BY <1>1, <1>6, <1>8, <2>6 DEF Add, NewStream
    <3>2. <<>> \o left = left
      BY <1>8
    <3>3. LeftBehind(gone, packets, left)
      <4>1. Whole(packets, y \o left) \/ Cut(Range(gone), packets, y \o left)
        BY <2>4
      <4> QED
        BY <1>8, <1>11, <4>1, DroppedResumes
    <3>4. PICK p, q \in Seq(Packet) : packets = p \o q /\ (Whole(q, left) \/ Cut(Range(gone \o p), q, left))
      BY <3>3 DEF LeftBehind
    <3>5. PICK more : more = gone \o p
      OBVIOUS
    <3>6. more \in Seq(Packet) /\ SentPackets = more \o q
      <4>1. Associate(gone, p, q)
        BY SequencesAssociate
      <4>2. more \in Seq(Packet)
        BY <3>5, JoinFacts
      <4> QED
        BY <2>3, <3>4, <3>5, <4>1, <4>2 DEF Associate
    <3>7. Salvaged(received, more, cuts)
      <4>1. cuts \in Nat /\ cuts <= cuts
        BY <1>1
      <4>2. Salvaged(received, gone \o p, cuts)
        BY <2>1, <2>4, <4>1, SalvagedOfMore
      <4> QED
        BY <3>5, <4>2
    <3>8. cuts \in 0..overflows' /\ cuts < overflows'
      BY <1>1, <3>1
    <3>9. stream'.buf \o wire' = left
      BY <1>4, <3>1, <3>2
    <3>10. Salvages(more, q)'
      BY <1>6, <1>9, <3>4, <3>5, <3>6, <3>7, <3>8, <3>9 DEF Salvages
    <3> QED
      BY <2>1, <3>6, <3>10
  <2> QED
    BY <2>5, <2>6
<1>14. mode' = mode /\ sent' \in Seq(Entry)
  BY <1>1, <1>6
<1> QED
  BY <1>2, <1>12, <1>13, <1>14 DEF ResyncInv

\* The frame that is read is the next packet, or the end of the one that was cut.
LEMMA ReadResync == ResyncInv /\ Read => ResyncInv'
<1> SUFFICES ASSUME ResyncInv, Read PROVE ResyncInv'
  OBVIOUS
<1>1. PipeInv /\ sent \in Seq(Entry) /\ overflows \in Nat
  BY DEF ResyncInv
<1>2. PipeInv'
  BY <1>1, NextPipe DEF Next
<1>3. PICK got : got = GetNextFrame(mode, stream)
  OBVIOUS
<1>4. /\ UNCHANGED <<mode, sent, wire, overflows>>
      /\ stream' = got.stream
      /\ received' = IF got.frame = NoFrame THEN received ELSE Append(received, got.frame)
  BY <1>3 DEF Read
<1>5. stream \in Stream /\ wire \in Seq(Byte)
  BY <1>1 DEF PipeInv
<1>6. SentPackets' = SentPackets
  BY <1>4 DEF SentPackets
<1>7. ASSUME mode = "FRAME_MODE_1_1"
      PROVE  received' \in Seq(Readable) /\ \E gone, packets \in Seq(Packet) : Salvages(gone, packets)'
  <2>1. got = GetNextFrame_1_1(stream)
    BY <1>3, <1>7 DEF GetNextFrame
  <2>2. received \in Seq(Readable)
    BY <1>7 DEF ResyncInv
  <2>3. PICK gone, packets \in Seq(Packet) : Salvages(gone, packets)
    BY <1>7 DEF ResyncInv
  <2>4. SentPackets = gone \o packets
    BY <2>3 DEF Salvages
  <2>5. PICK cuts \in 0..overflows :
          /\ Salvaged(received, gone, cuts)
          /\ \/ Whole(packets, stream.buf \o wire)
             \/ cuts < overflows /\ Cut(Range(gone), packets, stream.buf \o wire)
    BY <2>3 DEF Salvages
  <2>6. cuts \in Nat /\ Range(gone) \in SUBSET Packet /\ Len(gone) \in Nat
    BY <1>1 DEF Range
  <2>7. PICK f : f = got.frame
    OBVIOUS
  <2>8. CASE Whole(packets, stream.buf \o wire)
    <3>1. \/ f = NoFrame /\ Whole(packets, got.stream.buf \o wire)
          \/ packets # <<>> /\ f = Head(packets) /\ Whole(Tail(packets), got.stream.buf \o wire)
      BY <1>5, <2>1, <2>7, <2>8, ReadsWhole
    <3>2. CASE f = NoFrame /\ Whole(packets, got.stream.buf \o wire)
      <4>1. received' = received
        BY <1>4, <2>7, <3>2
      <4>2. Salvages(gone, packets)'
        BY <1>4, <1>6, <2>4, <2>5, <3>2, <4>1 DEF Salvages
      <4> QED
        BY <2>2, <4>1, <4>2
    <3>3. CASE packets # <<>> /\ f = Head(packets) /\ Whole(Tail(packets), got.stream.buf \o wire)
      <4>1. PICK t : t = Tail(packets)
        OBVIOUS
      <4>2. f \in Packet /\ t \in Seq(Packet) /\ packets = <<f>> \o t
        BY <3>3, <4>1
      <4>3. f # NoFrame /\ f \in Readable
        BY <4>2 DEF Packet, NoFrame, Readable
      <4>4. received' = Append(received, f)
        BY <1>4, <2>7, <4>3
      <4>5. received' \in Seq(Readable)
        BY <2>2, <4>3, <4>4
      <4>6. PICK more : more = Append(gone, f)
        OBVIOUS
      <4>7. more \in Seq(Packet) /\ gone \o packets = more \o t
        <5>1. PICK one : one = <<f>>
          OBVIOUS
        <5>2. one \in Seq(Packet)
          BY <4>2, <5>1
        <5>3. Associate(gone, one, t)
          BY <4>2, <5>2, SequencesAssociate
        <5>4. more = gone \o one /\ more \in Seq(Packet)
          BY <4>2, <4>6, <5>1
        <5> QED
          BY <4>2, <5>1, <5>3, <5>4 DEF Associate
      <4>8. Salvaged(Append(received, f), more, cuts)
        BY <2>2, <2>5, <4>2, <4>3, <4>6, WholeSalvaged
      <4>9. Salvages(more, t)'
        BY <1>4, <1>6, <2>4, <2>5, <3>3, <4>1, <4>4, <4>7, <4>8 DEF Salvages
      <4> QED
        BY <4>2, <4>5, <4>7, <4>9
    <3> QED
      BY <3>1, <3>2, <3>3
  <2>9. CASE cuts < overflows /\ Cut(Range(gone), packets, stream.buf \o wire)
    <3>1. \/ f = NoFrame /\ Cut(Range(gone), packets, got.stream.buf \o wire)
          \/ (\E packet \in Range(gone) : f \in Remnants(packet)) /\ Whole(packets, got.stream.buf \o wire)
      BY <1>5, <2>1, <2>6, <2>7, <2>9, ReadsCut
    <3>2. CASE f = NoFrame
      <4>1. received' = received
        BY <1>4, <2>7, <3>2
      <4>2. Salvages(gone, packets)'
        BY <1>4, <1>6, <2>4, <2>5, <2>9, <3>1, <4>1 DEF Salvages
      <4> QED
        BY <2>2, <4>1, <4>2
    <3>3. CASE f # NoFrame
      <4>1. PICK packet \in Range(gone) : f \in Remnants(packet)
        BY <3>1, <3>3
      <4>2. f \in Readable
        BY <2>6, <4>1 DEF Readable
      <4>3. received' = Append(received, f)
        BY <1>4, <2>7, <3>3
      <4>4. received' \in Seq(Readable)
        BY <2>2, <4>2, <4>3
      <4>5. Salvaged(Append(received, f), gone, cuts + 1)
        BY <2>2, <2>5, <2>6, <4>1, <4>2, DamagedSalvaged
      <4>6. cuts + 1 \in 0..overflows
        BY <1>1, <2>6, <2>9
      <4>7. Whole(packets, got.stream.buf \o wire)
        BY <3>1, <3>3
      <4>8. Salvages(gone, packets)'
        BY <1>4, <1>6, <2>4, <4>3, <4>5, <4>6, <4>7 DEF Salvages
      <4> QED
        BY <4>4, <4>8
    <3> QED
      BY <3>2, <3>3
  <2> QED
    BY <2>5, <2>8, <2>9
<1> QED
  BY <1>1, <1>2, <1>4, <1>7 DEF ResyncInv

\* Every step keeps ResyncInv.
LEMMA NextResync == ResyncInv /\ [Next]_vars => ResyncInv'
<1> SUFFICES ASSUME ResyncInv, [Next]_vars PROVE ResyncInv'
  OBVIOUS
<1>1. CASE Send
  BY <1>1, SendResync
<1>2. CASE \E n \in ChunkSizes : Arrive(n)
  BY <1>2, ArriveResync
<1>3. CASE Read
  BY <1>3, ReadResync
<1>4. CASE UNCHANGED vars
  <2>1. UNCHANGED <<mode, sent, wire, stream, received, overflows>>
    BY <1>4 DEF vars, history
  <2>2. PipeInv'
    BY <1>4, NextPipe DEF ResyncInv
  <2>3. \A gone, packets : Salvages(gone, packets) <=> Salvages(gone, packets)'
    BY <2>1 DEF Salvages, SentPackets
  <2> QED
    BY <2>1, <2>2, <2>3 DEF ResyncInv
<1> QED
  BY <1>1, <1>2, <1>3, <1>4 DEF Next

(***************************************************************************)
(* SLIP finds its way back, for every program, wherever the bytes are cut  *)
(* and however often the stream is cleared: each time costs at most one    *)
(* damaged frame, the end of the packet that was cut, and the other frames *)
(* are packets that were sent, in order (OSCParser.cpp:98, 267).           *)
(***************************************************************************)
THEOREM ResynchronizesAlways == Spec => []Resynchronizes
<1>1. Init => ResyncInv
  BY InitResync
<1>2. ResyncInv /\ [Next]_vars => ResyncInv'
  BY NextResync
<1>3. ResyncInv => Resynchronizes
  <2> SUFFICES ASSUME ResyncInv, mode = "FRAME_MODE_1_1"
               PROVE  Salvaged(received, SentPackets, overflows)
    BY DEF Resynchronizes
  <2>1. received \in Seq(Readable) /\ overflows \in Nat
    BY DEF ResyncInv
  <2>2. PICK gone, packets \in Seq(Packet) : Salvages(gone, packets)
    BY DEF ResyncInv
  <2>3. PICK cuts \in 0..overflows : Salvaged(received, gone, cuts)
    BY <2>2 DEF Salvages
  <2>4. cuts \in Nat /\ cuts <= overflows
    BY <2>1
  <2>5. Salvaged(received, gone \o packets, overflows)
    BY <2>1, <2>3, <2>4, SalvagedOfMore
  <2> QED
    BY <2>2, <2>5 DEF Salvages
<1> QED
  BY <1>1, <1>2, <1>3, PTL DEF Spec
=============================================================================
