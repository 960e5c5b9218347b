-------------------------- MODULE OscStreamProofs --------------------------
(***************************************************************************)
(* Proofs about OscStream: whatever packets are sent, and wherever the     *)
(* stream is cut, breaks off or carries a header that announces nothing,   *)
(* they come out whole, in order and at once.                              *)
(***************************************************************************)
EXTENDS OscStream, SequenceLemmas

----------------------------------------------------------------------------
(* Numbers in headers. *)

\* f is what a recursion over 0..N defines.
Recurses(f, N, first, step) ==
  f = [i \in 0..N |-> IF i = 0 THEN first ELSE step[i][f[i - 1]]]

(***************************************************************************)
(* A recursion over 0..N defines a function.                               *)
(***************************************************************************)
LEMMA Recursion ==
  ASSUME NEW N \in Nat, NEW first, NEW step
  PROVE  \E f : Recurses(f, N, first, step)
<1> DEFINE G(f, n) == f = [i \in 0..n |-> IF i = 0 THEN first ELSE step[i][f[i - 1]]]
           T == {n \in 0..N : \E f : G(f, n)}
<1>1. 0 \in T
  <2> DEFINE f == [i \in 0..0 |-> first]
  <2>1. f = [i \in 0..0 |-> IF i = 0 THEN first ELSE step[i][f[i - 1]]]
    OBVIOUS
  <2>2. G(f, 0) /\ 0 \in 0..N
    BY <2>1
  <2> HIDE DEF f, G
  <2> QED
    BY <2>2
<1>2. \A n \in 1..N : n - 1 \in T => n \in T
  <2> SUFFICES ASSUME NEW n \in 1..N, n - 1 \in T PROVE n \in T
    OBVIOUS
  <2>1. PICK f : G(f, n - 1)
    OBVIOUS
  <2> DEFINE g == [i \in 0..n |-> IF i = 0 THEN first ELSE step[i][f[i - 1]]]
  <2>2. ASSUME NEW i \in 0..n
        PROVE  g[i] = IF i = 0 THEN first ELSE step[i][g[i - 1]]
    <3>1. CASE i = 0
      BY <3>1
    <3>2. CASE i # 0
      <4>1. i - 1 \in 0..(n - 1) /\ i - 1 \in 0..n
        BY <3>2
      <4>2. f[i - 1] = IF i - 1 = 0 THEN first ELSE step[i - 1][f[(i - 1) - 1]]
        BY <2>1, <4>1
      <4>3. g[i - 1] = f[i - 1]
        BY <4>1, <4>2
      <4> QED
        BY <3>2, <4>3
    <3> QED
      BY <3>1, <3>2
  <2>3. g = [i \in 0..n |-> g[i]]
    OBVIOUS
  <2>4. G(g, n)
    <3> HIDE DEF g
    <3> QED
      BY <2>2, <2>3
  <2>5. n \in 0..N
    OBVIOUS
  <2> HIDE DEF G, g
  <2> QED
    BY <2>4, <2>5
<1>3. N \in T
  <2>1. N \in 0..N
    OBVIOUS
  <2> HIDE DEF T
  <2>2. \A i \in 0..N : i \in T
    BY <1>1, <1>2, Induction
  <2> QED
    BY <2>1, <2>2
<1> QED
  BY <1>3 DEF Recurses

\* f is the recursion of Shifted.
Shifts(f, n) == f = [i \in 0..HeaderSize |-> IF i = 0 THEN n ELSE f[i - 1] \div Base]

(***************************************************************************)
(* Shifted takes off one digit after the other.                            *)
(***************************************************************************)
LEMMA ShiftedFacts ==
  ASSUME NEW n \in Nat
  PROVE  /\ Shifted(n) \in [0..HeaderSize -> Nat] /\ Shifted(n)[0] = n
         /\ \A i \in 1..HeaderSize : Shifted(n)[i] = Shifted(n)[i - 1] \div Base
<1> DEFINE step == [i \in 1..HeaderSize |-> [x \in Nat |-> x \div Base]]
<1>1. HeaderSize \in Nat /\ Base \in Nat \ {0}
  BY SizesAssumption
<1>2. PICK f : f = [i \in 0..HeaderSize |-> IF i = 0 THEN n ELSE step[i][f[i - 1]]]
  <2> HIDE DEF step
  <2>1. \E f : Recurses(f, HeaderSize, n, step)
    BY <1>1, Recursion
  <2> QED
    BY <2>1 DEF Recurses
<1>3. \A i \in 0..HeaderSize : f[i] \in Nat
  <2> DEFINE T == {i \in 0..HeaderSize : f[i] \in Nat}
  <2>1. 0 \in T
    BY <1>1, <1>2
  <2>2. ASSUME NEW i \in 1..HeaderSize, i - 1 \in T PROVE i \in T
    <3>1. i \in 0..HeaderSize /\ i # 0
      BY <1>1
    <3>2. f[i] = step[i][f[i - 1]]
      BY <1>2, <3>1
    <3>3. f[i] = f[i - 1] \div Base /\ f[i - 1] \in Nat
      BY <2>2, <3>2
    <3>4. f[i - 1] \div Base \in Nat
      BY <1>1, <3>3
    <3> QED
      BY <3>1, <3>3, <3>4
  <2> HIDE DEF T
  <2>3. \A i \in 0..HeaderSize : i \in T
    BY <1>1, <2>1, <2>2, Induction
  <2> QED
    BY <2>3 DEF T
<1>4. ASSUME NEW i \in 0..HeaderSize PROVE f[i] = IF i = 0 THEN n ELSE f[i - 1] \div Base
  <2>1. CASE i = 0
    BY <1>2, <2>1
  <2>2. CASE i # 0
    <3>1. i \in 1..HeaderSize /\ i - 1 \in 0..HeaderSize
      BY <1>1, <2>2
    <3>2. f[i] = step[i][f[i - 1]]
      BY <1>2, <2>2
    <3> QED
      BY <1>3, <2>2, <3>1, <3>2
  <2> QED
    BY <2>1, <2>2
<1>5. Shifts(f, n)
  <2>1. f = [i \in 0..HeaderSize |-> f[i]]
    BY <1>2
  <2> QED
    BY <1>4, <2>1 DEF Shifts
<1>6. PICK last : last = (CHOOSE h : Shifts(h, n)) /\ Shifts(last, n)
  BY <1>5
<1>7. Shifted(n) = last
  BY <1>6, Zenon DEF Shifted, Shifts
<1>8. last[0] = n /\ \A i \in 1..HeaderSize : last[i] = last[i - 1] \div Base
  <2>1. 0 \in 0..HeaderSize /\ \A i \in 1..HeaderSize : i \in 0..HeaderSize /\ i # 0
    BY <1>1
  <2> QED
    BY <1>6, <2>1 DEF Shifts
<1>9. \A i \in 0..HeaderSize : last[i] \in Nat
  <2> DEFINE T == {i \in 0..HeaderSize : last[i] \in Nat}
  <2>1. 0 \in T
    BY <1>1, <1>8
  <2>2. ASSUME NEW i \in 1..HeaderSize, i - 1 \in T PROVE i \in T
    <3>1. i \in 0..HeaderSize /\ last[i - 1] \in Nat
      BY <1>1, <2>2
    <3>2. last[i - 1] \div Base \in Nat
      BY <1>1, <3>1
    <3> QED
      BY <1>8, <3>1, <3>2
  <2> HIDE DEF T
  <2>3. \A i \in 0..HeaderSize : i \in T
    BY <1>1, <2>1, <2>2, Induction
  <2> QED
    BY <2>3 DEF T
<1>10. last \in [0..HeaderSize -> Nat]
  <2>1. last = [i \in 0..HeaderSize |-> last[i]]
    BY <1>6 DEF Shifts
  <2> QED
    BY <1>9, <2>1
<1> QED
  BY <1>7, <1>8, <1>10

(***************************************************************************)
(* Division and remainder put together again.                              *)
(***************************************************************************)
LEMMA DivMod ==
  ASSUME NEW a \in Nat, NEW b \in Nat \ {0}
  PROVE  /\ a \div b \in Nat /\ a % b \in 0..(b - 1) /\ (a \div b) * b + (a % b) = a
         /\ a < b => a \div b = 0 /\ a % b = a
  OBVIOUS

\* f is the recursion of BigEndian.
Reads(f, bytes) ==
  f = [i \in 0..Len(bytes) |-> IF i = 0 THEN 0 ELSE f[i - 1] * Base + bytes[i]]

(***************************************************************************)
(* BigEndian takes one digit after the other.                              *)
(***************************************************************************)
LEMMA BigEndianFacts ==
  ASSUME NEW bytes \in Seq(Byte)
  PROVE  \E f : /\ f \in [0..Len(bytes) -> Nat] /\ f[0] = 0 /\ BigEndian(bytes) = f[Len(bytes)]
               /\ \A i \in 1..Len(bytes) : f[i] = f[i - 1] * Base + bytes[i]
<1>1. PICK N : N = Len(bytes)
  OBVIOUS
<1>2. N \in Nat /\ Base \in Nat /\ \A i \in 1..N : bytes[i] \in Nat
  <2>1. \A i \in 1..N : bytes[i] \in Byte
    BY <1>1
  <2> QED
    BY <1>1, <2>1, SizesAssumption DEF Byte
<1> DEFINE step == [i \in 1..N |-> [x \in Nat |-> x * Base + bytes[i]]]
<1>3. PICK f : f = [i \in 0..N |-> IF i = 0 THEN 0 ELSE step[i][f[i - 1]]]
  <2> HIDE DEF step
  <2>1. \E f : Recurses(f, N, 0, step)
    BY <1>2, Recursion
  <2> QED
    BY <2>1 DEF Recurses
<1>4. \A i \in 0..N : f[i] \in Nat
  <2> DEFINE T == {i \in 0..N : f[i] \in Nat}
  <2>1. 0 \in T
    BY <1>2, <1>3
  <2>2. ASSUME NEW i \in 1..N, i - 1 \in T PROVE i \in T
    <3>1. i \in 0..N /\ i # 0 /\ f[i - 1] \in Nat
      BY <1>2, <2>2
    <3>2. f[i] = step[i][f[i - 1]]
      BY <1>3, <3>1
    <3>3. f[i] = f[i - 1] * Base + bytes[i]
      BY <3>1, <3>2
    <3>4. f[i - 1] * Base + bytes[i] \in Nat
      BY <1>2, <3>1
    <3> QED
      BY <3>1, <3>3, <3>4
  <2> HIDE DEF T
  <2>3. \A i \in 0..N : i \in T
    BY <1>2, <2>1, <2>2, Induction
  <2> QED
    BY <2>3 DEF T
<1>5. ASSUME NEW i \in 0..N PROVE f[i] = IF i = 0 THEN 0 ELSE f[i - 1] * Base + bytes[i]
  <2>1. CASE i = 0
    BY <1>3, <2>1
  <2>2. CASE i # 0
    <3>1. i \in 1..N /\ i - 1 \in 0..N
      BY <1>2, <2>2
    <3>2. f[i] = step[i][f[i - 1]]
      BY <1>3, <2>2
    <3> QED
      BY <1>4, <2>2, <3>1, <3>2
  <2> QED
    BY <2>1, <2>2
<1>6. Reads(f, bytes)
  <2>1. f = [i \in 0..N |-> f[i]]
    BY <1>3
  <2> QED
    BY <1>1, <1>5, <2>1 DEF Reads
<1>7. PICK last : last = (CHOOSE h : Reads(h, bytes)) /\ Reads(last, bytes)
  BY <1>6
<1>8. BigEndian(bytes) = last[N]
  BY <1>1, <1>7, Zenon DEF BigEndian, Reads
<1>9. last[0] = 0 /\ \A i \in 1..N : last[i] = last[i - 1] * Base + bytes[i]
  <2>1. 0 \in 0..N /\ \A i \in 1..N : i \in 0..N /\ i # 0
    BY <1>2
  <2> QED
    BY <1>1, <1>7, <2>1 DEF Reads
<1>10. \A i \in 0..N : last[i] \in Nat
  <2> DEFINE T == {i \in 0..N : last[i] \in Nat}
  <2>1. 0 \in T
    BY <1>2, <1>9
  <2>2. ASSUME NEW i \in 1..N, i - 1 \in T PROVE i \in T
    <3>1. i \in 0..N /\ last[i - 1] \in Nat
      BY <1>2, <2>2
    <3>2. last[i - 1] * Base + bytes[i] \in Nat
      BY <1>2, <3>1, SMTT(30)
    <3> QED
      BY <1>9, <3>1, <3>2
  <2> HIDE DEF T
  <2>3. \A i \in 0..N : i \in T
    BY <1>2, <2>1, <2>2, Induction
  <2> QED
    BY <2>3 DEF T
<1>11. last \in [0..N -> Nat]
  <2>1. last = [i \in 0..N |-> last[i]]
    BY <1>1, <1>7 DEF Reads
  <2> QED
    BY <1>10, <2>1
<1> QED
  BY <1>1, <1>8, <1>9, <1>11

(***************************************************************************)
(* Reading the header of a packet gives its length, as long as that is a   *)
(* positive int32_t.                                                       *)
(***************************************************************************)
THEOREM HeaderRoundTrip ==
  ASSUME NEW size \in Nat, 2 * Shifted(size)[HeaderSize - 1] < Base
  PROVE  /\ Header(size) \in Seq(Byte) /\ Len(Header(size)) = HeaderSize
         /\ ~Negative(Header(size)) /\ BigEndian(Header(size)) = size
<1>1. HeaderSize \in Nat \ {0} /\ Base \in Nat \ {0}
  BY SizesAssumption
<1>2. PICK q : /\ q = Shifted(size) /\ q \in [0..HeaderSize -> Nat] /\ q[0] = size
               /\ \A i \in 1..HeaderSize : q[i] = q[i - 1] \div Base
  BY ShiftedFacts
<1>3. PICK h : h = Header(size)
  OBVIOUS
<1>4. \A i \in 1..HeaderSize : HeaderSize - i \in 0..HeaderSize /\ h[i] = q[HeaderSize - i] % Base
  BY <1>1, <1>2, <1>3 DEF Header
<1>5. ASSUME NEW i \in 1..HeaderSize PROVE h[i] \in Byte
  <2>1. PICK a \in Nat : a = q[HeaderSize - i]
    BY <1>2, <1>4
  <2>2. a % Base \in 0..(Base - 1)
    BY <1>1, DivMod
  <2> QED
    BY <1>4, <2>1, <2>2 DEF Byte
<1>6. h \in Seq(Byte) /\ Len(h) = HeaderSize
  <2>1. h = [i \in 1..HeaderSize |-> h[i]]
    BY <1>3 DEF Header
  <2>2. h \in [1..HeaderSize -> Byte]
    BY <1>5, <2>1
  <2> QED
    BY <1>1, <2>2
<1>7. HeaderSize - 1 \in 0..HeaderSize /\ q[HeaderSize - 1] \in Nat /\ 2 * q[HeaderSize - 1] < Base
  BY <1>1, <1>2
<1>8. q[HeaderSize - 1] < Base
  BY <1>1, <1>7
<1>9. q[HeaderSize] = 0 /\ h[1] = q[HeaderSize - 1]
  <2>1. /\ q[HeaderSize - 1] \div Base = 0 /\ q[HeaderSize - 1] % Base = q[HeaderSize - 1]
    BY <1>1, <1>7, <1>8, DivMod
  <2>2. 1 \in 1..HeaderSize /\ HeaderSize \in 1..HeaderSize
    BY <1>1
  <2> QED
    BY <1>2, <1>4, <2>1, <2>2
<1>10. ~Negative(h)
  BY <1>1, <1>7, <1>9 DEF Negative
<1>11. PICK f : /\ f \in [0..HeaderSize -> Nat] /\ f[0] = 0 /\ BigEndian(h) = f[HeaderSize]
                /\ \A i \in 1..HeaderSize : f[i] = f[i - 1] * Base + h[i]
  BY <1>6, BigEndianFacts
<1> DEFINE T == {i \in 0..HeaderSize : f[i] = q[HeaderSize - i]}
<1>12. 0 \in T
  BY <1>1, <1>9, <1>11
<1>13. ASSUME NEW i \in 1..HeaderSize, i - 1 \in T PROVE i \in T
  <2>1. i \in 0..HeaderSize /\ HeaderSize - (i - 1) = (HeaderSize - i) + 1
        /\ HeaderSize - i \in 0..HeaderSize /\ (HeaderSize - i) + 1 \in 1..HeaderSize
        /\ ((HeaderSize - i) + 1) - 1 = HeaderSize - i
    BY <1>1
  <2>2. f[i - 1] = q[(HeaderSize - i) + 1]
    BY <1>13, <2>1
  <2>3. q[(HeaderSize - i) + 1] = q[HeaderSize - i] \div Base /\ q[HeaderSize - i] \in Nat
    BY <1>2, <2>1
  <2>4. f[i] = (q[HeaderSize - i] \div Base) * Base + (q[HeaderSize - i] % Base)
    BY <1>4, <1>11, <2>2, <2>3
  <2>5. f[i] = q[HeaderSize - i]
    BY <1>1, <2>3, <2>4, DivMod
  <2> QED
    BY <2>1, <2>5
<1>14. HeaderSize \in T
  <2>1. HeaderSize \in 0..HeaderSize /\ HeaderSize \in Nat
    BY <1>1
  <2> HIDE DEF T
  <2>2. \A i \in 0..HeaderSize : i \in T
    BY <1>12, <1>13, <2>1, Induction
  <2> QED
    BY <2>1, <2>2
<1>15. f[HeaderSize] = size
  BY <1>1, <1>2, <1>14
<1> QED
  BY <1>3, <1>6, <1>10, <1>11, <1>15

----------------------------------------------------------------------------
(* Frames, and the headers the receiver reads. *)

FrameSize(p) == HeaderSize + Len(p)

(***************************************************************************)
(* A piece of a sequence.                                                  *)
(***************************************************************************)
LEMMA PieceFacts ==
  ASSUME NEW S, NEW s \in Seq(S), NEW m \in 0..Len(s), NEW n \in m..Len(s)
  PROVE  /\ SubSeq(s, m + 1, n) \in Seq(S) /\ Len(SubSeq(s, m + 1, n)) = n - m
         /\ \A i \in 1..(n - m) : SubSeq(s, m + 1, n)[i] = s[m + i]
<1>1. Len(s) \in Nat /\ \A i \in 1..Len(s) : s[i] \in S
  BY ElementOfSeq
<1>2. m + 1 \in Int /\ n \in Int /\ \A i \in (m + 1)..n : s[i] \in S
  BY <1>1
<1>3. PICK t : t = SubSeq(s, m + 1, n)
  OBVIOUS
<1>4. /\ t \in Seq(S) /\ Len(t) = (IF m + 1 <= n THEN n - (m + 1) + 1 ELSE 0)
      /\ \A i \in 1..(n - (m + 1) + 1) : t[i] = s[(m + 1) + i - 1]
  BY <1>1, <1>2, <1>3, SubSeqProperties
<1> QED
  BY <1>1, <1>3, <1>4

(***************************************************************************)
(* The beginning of a sequence.                                            *)
(***************************************************************************)
LEMMA FrontFacts ==
  ASSUME NEW S, NEW s \in Seq(S), NEW n \in 0..Len(s)
  PROVE  /\ SubSeq(s, 1, n) \in Seq(S) /\ Len(SubSeq(s, 1, n)) = n
         /\ \A i \in 1..n : SubSeq(s, 1, n)[i] = s[i]
<1>1. PICK z : z = 0
  OBVIOUS
<1>2. z \in 0..Len(s) /\ n \in z..Len(s) /\ z + 1 = 1
  BY <1>1
<1>3. /\ SubSeq(s, z + 1, n) \in Seq(S) /\ Len(SubSeq(s, z + 1, n)) = n - z
      /\ \A i \in 1..(n - z) : SubSeq(s, z + 1, n)[i] = s[z + i]
  BY <1>2, PieceFacts
<1>4. PICK t : t = SubSeq(s, 1, n)
  OBVIOUS
<1>5. /\ t \in Seq(S) /\ Len(t) = n - z
      /\ \A i \in 1..(n - z) : t[i] = s[z + i]
  BY <1>2, <1>3, <1>4
<1>6. n - z = n /\ \A i \in 1..n : z + i = i
  BY <1>1
<1> QED
  BY <1>4, <1>5, <1>6

(***************************************************************************)
(* Two sequences with the same elements are the same.                      *)
(***************************************************************************)
LEMMA SameElements ==
  ASSUME NEW S, NEW s \in Seq(S), NEW t \in Seq(S), Len(s) = Len(t),
         \A i \in 1..Len(s) : s[i] = t[i]
  PROVE  s = t
  OBVIOUS

(***************************************************************************)
(* The frame of a packet: its header, then its bytes.                      *)
(***************************************************************************)
LEMMA FrameFacts ==
  ASSUME NEW p \in Packets
  PROVE  /\ p \in Seq(Byte) /\ Len(p) \in Nat \ {0} /\ FrameSize(p) \in Nat
         /\ Frame(p) \in Seq(Byte) /\ Len(Frame(p)) = FrameSize(p)
         /\ \A i \in 1..HeaderSize : Frame(p)[i] = Header(Len(p))[i]
         /\ \A i \in 1..Len(p) : Frame(p)[HeaderSize + i] = p[i]
<1>1. p \in Seq(Byte) /\ Len(p) \in Nat \ {0} /\ 2 * Shifted(Len(p))[HeaderSize - 1] < Base
  BY PacketsAssumption
<1>2. PICK h : h = Header(Len(p)) /\ h \in Seq(Byte) /\ Len(h) = HeaderSize
  BY <1>1, HeaderRoundTrip
<1>3. HeaderSize \in Nat \ {0}
  BY SizesAssumption
<1>4. /\ h \o p \in Seq(Byte) /\ Len(h \o p) = HeaderSize + Len(p)
      /\ \A k \in 1..(HeaderSize + Len(p)) :
           (h \o p)[k] = IF k <= HeaderSize THEN h[k] ELSE p[k - HeaderSize]
  BY <1>1, <1>2, JoinFacts
<1>5. ASSUME NEW i \in 1..HeaderSize PROVE (h \o p)[i] = h[i]
  BY <1>1, <1>3, <1>4
<1>6. ASSUME NEW i \in 1..Len(p) PROVE (h \o p)[HeaderSize + i] = p[i]
  <2>1. /\ HeaderSize + i \in 1..(HeaderSize + Len(p)) /\ ~(HeaderSize + i <= HeaderSize)
        /\ (HeaderSize + i) - HeaderSize = i
    BY <1>1, <1>3
  <2> QED
    BY <1>4, <2>1
<1> QED
  BY <1>1, <1>2, <1>3, <1>4, <1>5, <1>6 DEF Frame, FrameSize

(***************************************************************************)
(* What the receiver takes for the length of a packet.                     *)
(***************************************************************************)
LEMMA HeaderRead ==
  ASSUME NEW buffer \in Seq(Byte), Len(buffer) >= HeaderSize,
         NEW h \in Seq(Byte), Len(h) = HeaderSize, \A i \in 1..HeaderSize : buffer[i] = h[i]
  PROVE  OscPacketLen(buffer) = IF Negative(h) THEN 0 ELSE BigEndian(h)
<1>1. HeaderSize \in Nat /\ Len(buffer) \in Nat
  BY SizesAssumption
<1>2. PICK t : t = SubSeq(buffer, 1, HeaderSize)
  OBVIOUS
<1>3. t \in Seq(Byte) /\ Len(t) = HeaderSize /\ \A i \in 1..HeaderSize : t[i] = buffer[i]
  <2>1. HeaderSize \in 0..Len(buffer)
    BY <1>1
  <2> QED
    BY <1>2, <2>1, FrontFacts
<1>4. t = h
  BY <1>3, SameElements
<1> QED
  BY <1>2, <1>4 DEF OscPacketLen

(***************************************************************************)
(* A buffer that begins with the header of a packet announces its length.  *)
(***************************************************************************)
LEMMA PacketAnnounced ==
  ASSUME NEW p \in Packets, NEW buffer \in Seq(Byte), Len(buffer) >= HeaderSize,
         \A i \in 1..HeaderSize : buffer[i] = Frame(p)[i]
  PROVE  OscPacketLen(buffer) = Len(p)
<1>1. Len(p) \in Nat /\ 2 * Shifted(Len(p))[HeaderSize - 1] < Base
  BY PacketsAssumption
<1>2. PICK h : /\ h = Header(Len(p)) /\ h \in Seq(Byte) /\ Len(h) = HeaderSize
               /\ ~Negative(h) /\ BigEndian(h) = Len(p)
  BY <1>1, HeaderRoundTrip
<1>3. \A i \in 1..HeaderSize : buffer[i] = h[i]
  BY <1>2, FrameFacts
<1> QED
  BY <1>2, <1>3, HeaderRead

(***************************************************************************)
(* One that begins with an empty header announces nothing.                 *)
(***************************************************************************)
LEMMA NothingAnnounced ==
  ASSUME NEW h \in EmptyHeaders, NEW buffer \in Seq(Byte), Len(buffer) >= HeaderSize,
         \A i \in 1..HeaderSize : buffer[i] = h[i]
  PROVE  OscPacketLen(buffer) = 0
<1>1. h \in Seq(Byte) /\ Len(h) = HeaderSize /\ OscPacketLen(h) = 0 /\ HeaderSize \in Nat
  BY EmptyHeadersAssumption, SizesAssumption
<1>2. OscPacketLen(buffer) = IF Negative(h) THEN 0 ELSE BigEndian(h)
  BY <1>1, HeaderRead
<1>3. OscPacketLen(h) = IF Negative(h) THEN 0 ELSE BigEndian(h)
  BY <1>1, HeaderRead
<1> QED
  BY <1>1, <1>2, <1>3

----------------------------------------------------------------------------
(***************************************************************************)
(* The bytes under way: those in the input buffer and those on the wire.   *)
(* They are the frames of the packets that were sent whole and are not     *)
(* delivered yet, up to the last one that still can be, and what is behind *)
(* them: nothing, a part of a frame after which nothing is sent, or a      *)
(* header behind which nothing is read.                                    *)
(***************************************************************************)
\* c says where the frames of packets end when the first begins at 0.
Ends(packets, c) ==
  /\ c \in [0..Len(packets) -> Nat]
  /\ \A i \in 1..Len(packets) : c[i] = c[i - 1] + FrameSize(packets[i])
  /\ \A i, j \in 0..Len(packets) : i <= j => c[i] <= c[j]

\* Behind k bytes, n bytes of s.
HasAt(bytes, k, s, n) == k + n <= Len(bytes) /\ \A j \in 1..n : bytes[k + j] = s[j]

Behind(bytes, k, whole, empty) ==
  IF empty THEN \E h \in EmptyHeaders : HasAt(bytes, k, h, HeaderSize)
  ELSE \/ Len(bytes) = k
       \/ /\ ~whole
          /\ \E p \in Packets : /\ Len(bytes) - k < FrameSize(p)
                                /\ HasAt(bytes, k, Frame(p), Len(bytes) - k)

Flow(bytes, packets, c, done, last, whole, empty) ==
  /\ last \in 0..Len(packets) /\ done \in 0..last /\ (~empty => last = Len(packets))
  /\ c[last] - c[done] <= Len(bytes)
  /\ \A i \in (done + 1)..last :
       HasAt(bytes, c[i - 1] - c[done], Frame(packets[i]), FrameSize(packets[i]))
  /\ Behind(bytes, c[last] - c[done], whole, empty)

(***************************************************************************)
(* What is behind n + k bytes is behind k bytes when n are gone.           *)
(***************************************************************************)
LEMMA HasAtShift ==
  ASSUME NEW bytes \in Seq(Byte), NEW n \in Nat, NEW later \in Seq(Byte),
         Len(bytes) = n + Len(later), \A j \in 1..Len(later) : later[j] = bytes[n + j],
         NEW k \in Nat, NEW s, NEW x \in Nat, HasAt(bytes, n + k, s, x)
  PROVE  HasAt(later, k, s, x)
<1>1. Len(bytes) \in Nat /\ Len(later) \in Nat
  OBVIOUS
<1>2. k + x <= Len(later)
  BY <1>1 DEF HasAt
<1>3. ASSUME NEW j \in 1..x PROVE later[k + j] = s[j]
  <2>1. k + j \in 1..Len(later) /\ n + (k + j) = (n + k) + j
    BY <1>1, <1>2
  <2> QED
    BY <2>1 DEF HasAt
<1> QED
  BY <1>2, <1>3 DEF HasAt

(***************************************************************************)
(* A packet the receiver finds at the head of its buffer is the next one   *)
(* that was sent, and the flow goes on behind it.                          *)
(***************************************************************************)
LEMMA TakesNext ==
  ASSUME NEW packets \in Seq(Packets), NEW c, Ends(packets, c),
         NEW rest \in Seq(Byte), NEW more \in Seq(Byte), NEW done, NEW last,
         NEW whole, NEW empty,
         Flow(rest \o more, packets, c, done, last, whole, empty), HasPacket(rest)
  PROVE  /\ done + 1 \in 1..last /\ packets[done + 1] \in Packets
         /\ TotalSize(rest) = FrameSize(packets[done + 1])
         /\ TotalSize(rest) \in 1..Len(rest)
         /\ SubSeq(rest, HeaderSize + 1, TotalSize(rest)) = packets[done + 1]
         /\ ShiftAway(rest, TotalSize(rest)) \in Seq(Byte)
         /\ Len(ShiftAway(rest, TotalSize(rest))) = Len(rest) - TotalSize(rest)
         /\ Flow(ShiftAway(rest, TotalSize(rest)) \o more, packets, c, done + 1, last, whole, empty)
<1>1. PICK b : b = rest \o more
  OBVIOUS
<1>2. /\ b \in Seq(Byte) /\ Len(b) = Len(rest) + Len(more)
      /\ Len(rest) \in Nat /\ Len(more) \in Nat
      /\ \A k \in 1..(Len(rest) + Len(more)) :
           b[k] = IF k <= Len(rest) THEN rest[k] ELSE more[k - Len(rest)]
  BY <1>1, JoinFacts
<1>3. \A k \in 1..Len(rest) : rest[k] = b[k]
  BY <1>2
<1>4. Flow(b, packets, c, done, last, whole, empty)
  BY <1>1
<1>5. HeaderSize \in Nat \ {0} /\ Len(packets) \in Nat
      /\ last \in 0..Len(packets) /\ done \in 0..last
  BY <1>4, SizesAssumption DEF Flow
<1>6. Len(rest) >= HeaderSize /\ OscPacketLen(rest) > 0 /\ Len(rest) >= TotalSize(rest)
  BY DEF HasPacket
<1>7. c[last] \in Nat /\ c[done] \in Nat
  <2>1. last \in 0..Len(packets) /\ done \in 0..Len(packets)
    BY <1>5
  <2> QED
    BY <2>1 DEF Ends
<1>8. ASSUME done = last PROVE FALSE
  <2>1. Behind(b, 0, whole, empty)
    <3>1. c[last] - c[done] = 0
      BY <1>7, <1>8
    <3> QED
      BY <1>4, <3>1 DEF Flow
  <2>2. CASE empty
    <3>1. PICK h \in EmptyHeaders : HasAt(b, 0, h, HeaderSize)
      BY <2>1, <2>2 DEF Behind
    <3>2. ASSUME NEW j \in 1..HeaderSize PROVE rest[j] = h[j]
      <4>1. j \in 1..Len(rest) /\ 0 + j = j
        BY <1>2, <1>5, <1>6
      <4> QED
        BY <1>3, <3>1, <4>1 DEF HasAt
    <3>3. OscPacketLen(rest) = 0
      BY <1>6, <3>2, NothingAnnounced
    <3> QED
      BY <1>6, <3>3
  <2>3. CASE ~empty
    <3>1. Len(b) # 0
      BY <1>2, <1>5, <1>6
    <3>2. PICK p \in Packets : Len(b) - 0 < FrameSize(p) /\ HasAt(b, 0, Frame(p), Len(b) - 0)
      BY <2>1, <2>3, <3>1 DEF Behind
    <3>3. ASSUME NEW j \in 1..HeaderSize PROVE rest[j] = Frame(p)[j]
      <4>1. j \in 1..Len(rest) /\ j \in 1..(Len(b) - 0) /\ 0 + j = j
        BY <1>2, <1>5, <1>6
      <4> QED
        BY <1>3, <3>2, <4>1 DEF HasAt
    <3>4. OscPacketLen(rest) = Len(p)
      BY <1>6, <3>3, PacketAnnounced
    <3>5. TotalSize(rest) = FrameSize(p) /\ FrameSize(p) \in Nat
      BY <3>4, FrameFacts DEF TotalSize, FrameSize
    <3> QED
      BY <1>2, <1>6, <3>2, <3>5
  <2> QED
    BY <2>2, <2>3
<1>9. done + 1 \in 1..last /\ done + 1 \in (done + 1)..last /\ (done + 1) - 1 = done
      /\ done + 1 \in 1..Len(packets)
  BY <1>5, <1>8
<1>10. PICK p \in Packets : p = packets[done + 1]
  BY <1>9
<1>11. PICK n \in Nat : /\ n = FrameSize(p) /\ c[done + 1] = c[done] + n
                        /\ n = HeaderSize + Len(p) /\ Len(p) \in Nat \ {0}
  <2>1. FrameSize(p) \in Nat /\ Len(p) \in Nat \ {0} /\ FrameSize(p) = HeaderSize + Len(p)
    BY FrameFacts DEF FrameSize
  <2>2. c[done + 1] = c[(done + 1) - 1] + FrameSize(packets[done + 1])
    BY <1>9 DEF Ends
  <2> QED
    BY <1>9, <1>10, <2>1, <2>2
<1>12. HasAt(b, 0, Frame(p), n)
  <2>1. c[(done + 1) - 1] - c[done] = 0
    BY <1>7, <1>9
  <2> QED
    BY <1>4, <1>9, <1>10, <1>11, <2>1 DEF Flow
<1>13. ASSUME NEW j \in 1..n, j <= Len(rest) PROVE rest[j] = Frame(p)[j]
  <2>1. j \in 1..Len(rest) /\ 0 + j = j
    BY <1>2, <1>13
  <2> QED
    BY <1>3, <1>12, <2>1 DEF HasAt
<1>14. OscPacketLen(rest) = Len(p)
  <2>1. \A j \in 1..HeaderSize : rest[j] = Frame(p)[j]
    BY <1>2, <1>5, <1>6, <1>11, <1>13
  <2> QED
    BY <1>6, <2>1, PacketAnnounced
<1>15. TotalSize(rest) = n /\ n \in 1..Len(rest)
  BY <1>2, <1>5, <1>6, <1>11, <1>14 DEF TotalSize
<1>16. SubSeq(rest, HeaderSize + 1, n) = p
  <2>1. HeaderSize \in 0..Len(rest) /\ n \in HeaderSize..Len(rest) /\ n - HeaderSize = Len(p)
    BY <1>2, <1>5, <1>11, <1>15
  <2>2. PICK t : t = SubSeq(rest, HeaderSize + 1, n)
    OBVIOUS
  <2>3. /\ t \in Seq(Byte) /\ Len(t) = Len(p)
        /\ \A i \in 1..Len(p) : t[i] = rest[HeaderSize + i]
    BY <2>1, <2>2, PieceFacts
  <2>4. ASSUME NEW i \in 1..Len(p) PROVE t[i] = p[i]
    <3>1. HeaderSize + i \in 1..n /\ HeaderSize + i <= Len(rest)
      BY <1>2, <1>5, <1>11, <1>15
    <3>2. rest[HeaderSize + i] = Frame(p)[HeaderSize + i]
      BY <1>13, <3>1
    <3> QED
      BY <2>3, <3>2, FrameFacts
  <2>5. p \in Seq(Byte)
    BY FrameFacts
  <2> QED
    BY <2>2, <2>3, <2>4, <2>5, SameElements
<1>17. PICK r : r = ShiftAway(rest, n)
  OBVIOUS
<1>18. /\ r \in Seq(Byte) /\ Len(r) = Len(rest) - n
       /\ \A i \in 1..(Len(rest) - n) : r[i] = rest[n + i]
  <2>1. n \in 0..Len(rest) /\ Len(rest) \in n..Len(rest)
    BY <1>2, <1>15
  <2> QED
    BY <1>17, <2>1, PieceFacts DEF ShiftAway
<1>19. PICK d : d = r \o more
  OBVIOUS
<1>20. /\ d \in Seq(Byte) /\ Len(d) = Len(r) + Len(more)
       /\ \A k \in 1..(Len(r) + Len(more)) :
            d[k] = IF k <= Len(r) THEN r[k] ELSE more[k - Len(r)]
  BY <1>18, <1>19, JoinFacts
<1>21. Len(b) = n + Len(d) /\ Len(d) \in Nat
  BY <1>2, <1>15, <1>18, <1>20
<1>22. ASSUME NEW j \in 1..Len(d) PROVE d[j] = b[n + j]
  <2>1. j \in 1..(Len(r) + Len(more)) /\ n + j \in 1..(Len(rest) + Len(more))
    BY <1>2, <1>15, <1>18, <1>20, <1>21
  <2>2. CASE j <= Len(r)
    <3>1. j \in 1..(Len(rest) - n) /\ n + j <= Len(rest)
      BY <1>2, <1>15, <1>18, <2>2
    <3> QED
      BY <1>2, <1>18, <1>20, <2>1, <2>2, <3>1
  <2>3. CASE ~(j <= Len(r))
    <3>1. ~(n + j <= Len(rest)) /\ (n + j) - Len(rest) = j - Len(r)
      BY <1>2, <1>15, <1>18, <2>3
    <3> QED
      BY <1>2, <1>20, <2>1, <2>3, <3>1
  <2> QED
    BY <2>2, <2>3
<1>23. ASSUME NEW k \in Nat, NEW s, NEW x \in Nat, HasAt(b, n + k, s, x) PROVE HasAt(d, k, s, x)
  BY <1>2, <1>20, <1>21, <1>22, <1>23, HasAtShift
<1>24. /\ c[done + 1] \in Nat /\ c[last] - c[done] = n + (c[last] - c[done + 1])
       /\ c[last] - c[done + 1] \in Nat
  <2>1. done + 1 \in 0..Len(packets) /\ last \in 0..Len(packets) /\ done + 1 <= last
    BY <1>5, <1>9
  <2>2. c[done + 1] <= c[last] /\ c[done + 1] \in Nat
    BY <2>1 DEF Ends
  <2>3. c[done + 1] = c[done] + n /\ n \in Nat
    BY <1>11
  <2> QED
    BY <1>7, <2>2, <2>3
<1>25. ASSUME NEW i \in ((done + 1) + 1)..last
       PROVE  HasAt(d, c[i - 1] - c[done + 1], Frame(packets[i]), FrameSize(packets[i]))
  <2>1. i \in (done + 1)..last /\ i \in 1..Len(packets) /\ done + 1 <= i - 1
        /\ i - 1 \in 0..Len(packets) /\ done + 1 \in 0..Len(packets)
    BY <1>5, <1>9
  <2>2. HasAt(b, c[i - 1] - c[done], Frame(packets[i]), FrameSize(packets[i]))
    BY <1>4, <2>1 DEF Flow
  <2>3. c[done + 1] <= c[i - 1] /\ c[i - 1] \in Nat
    BY <2>1 DEF Ends
  <2>4. PICK k \in Nat : k = c[i - 1] - c[done + 1] /\ c[i - 1] - c[done] = n + k
    <3>1. c[i - 1] - c[done + 1] \in Nat
      BY <1>24, <2>3
    <3>2. c[i - 1] - c[done] = n + (c[i - 1] - c[done + 1])
      BY <1>7, <1>11, <2>3
    <3> QED
      BY <3>1, <3>2
  <2>5. packets[i] \in Packets /\ FrameSize(packets[i]) \in Nat
    BY <2>1, FrameFacts, SMTT(30)
  <2> QED
    BY <1>23, <2>2, <2>4, <2>5
<1>26. Behind(d, c[last] - c[done + 1], whole, empty)
  <2>1. PICK k \in Nat : k = c[last] - c[done + 1] /\ c[last] - c[done] = n + k
    BY <1>24
  <2>2. Behind(b, n + k, whole, empty)
    BY <1>4, <2>1 DEF Flow
  <2>3. CASE empty
    BY <1>5, <1>23, <2>1, <2>2, <2>3 DEF Behind
  <2>4. CASE ~empty /\ Len(b) = n + k
    BY <1>21, <2>1, <2>4 DEF Behind
  <2>5. CASE ~empty /\ Len(b) # n + k
    <3>1. PICK q \in Packets : /\ ~whole /\ Len(b) - (n + k) < FrameSize(q)
                               /\ HasAt(b, n + k, Frame(q), Len(b) - (n + k))
      BY <2>2, <2>5 DEF Behind
    <3>2. Len(b) - (n + k) = Len(d) - k /\ Len(d) - k \in Nat
      <4>1. n + k <= Len(b)
        BY <1>4, <2>1 DEF Flow
      <4> QED
        BY <1>21, <4>1
    <3>3. HasAt(d, k, Frame(q), Len(d) - k)
      BY <1>23, <3>1, <3>2
    <3> QED
      BY <2>1, <2>5, <3>1, <3>2, <3>3 DEF Behind
  <2> QED
    BY <2>3, <2>4, <2>5
<1>27. Flow(d, packets, c, done + 1, last, whole, empty)
  <2>1. last \in 0..Len(packets) /\ done + 1 \in 0..last /\ (~empty => last = Len(packets))
    BY <1>4, <1>5, <1>9 DEF Flow
  <2>2. c[last] - c[done + 1] <= Len(d)
    <3>1. c[last] - c[done] <= Len(b)
      BY <1>4 DEF Flow
    <3> QED
      BY <1>21, <1>24, <3>1
  <2> QED
    BY <1>25, <1>26, <2>1, <2>2 DEF Flow
<1> QED
  BY <1>9, <1>10, <1>11, <1>15, <1>16, <1>17, <1>18, <1>19, <1>27

----------------------------------------------------------------------------
(* The loop of Recv. *)

\* run is the recursion of Extract.
Rounds(run, buffer) ==
  run = [i \in 0..Len(buffer) |->
           IF i = 0 THEN [packets |-> <<>>, rest |-> buffer] ELSE ExtractNext[run[i - 1]]]

(***************************************************************************)
(* Extract goes round after round.                                         *)
(***************************************************************************)
LEMMA ExtractIsLoop ==
  ASSUME NEW buffer \in Seq(Byte)
  PROVE  \E run : /\ Extract(buffer) = run[Len(buffer)]
                 /\ run[0] = [packets |-> <<>>, rest |-> buffer]
                 /\ \A i \in 1..Len(buffer) : run[i] = ExtractNext[run[i - 1]]
<1>1. PICK N \in Nat : N = Len(buffer)
  OBVIOUS
<1> DEFINE step == [i \in 1..N |-> ExtractNext]
           first == [packets |-> <<>>, rest |-> buffer]
<1>2. PICK f : f = [i \in 0..N |-> IF i = 0 THEN first ELSE step[i][f[i - 1]]]
  <2> HIDE DEF step, first
  <2>1. \E f : Recurses(f, N, first, step)
    BY Recursion
  <2> QED
    BY <2>1 DEF Recurses
<1>3. ASSUME NEW i \in 0..N PROVE f[i] = IF i = 0 THEN first ELSE ExtractNext[f[i - 1]]
  <2>1. CASE i = 0
    BY <1>2, <2>1
  <2>2. CASE i # 0
    <3>1. i \in 1..N
      BY <2>2
    <3>2. step[i] = ExtractNext
      BY <3>1
    <3>3. f[i] = step[i][f[i - 1]]
      <4> HIDE DEF step, first
      <4> QED
        BY <1>2, <2>2
    <3> QED
      BY <2>2, <3>2, <3>3
  <2> QED
    BY <2>1, <2>2
<1>4. Rounds(f, buffer)
  <2>1. f = [i \in 0..N |-> f[i]]
    BY <1>2
  <2> QED
    BY <1>1, <1>3, <2>1 DEF Rounds
<1>5. PICK last : last = (CHOOSE h : Rounds(h, buffer)) /\ Rounds(last, buffer)
  BY <1>4
<1>6. Extract(buffer) = last[N]
  BY <1>1, <1>5, Zenon DEF Extract, Rounds
<1>7. 0 \in 0..N /\ \A i \in 1..N : i \in 0..N /\ i # 0
  OBVIOUS
<1>8. last[0] = first /\ \A i \in 1..N : last[i] = ExtractNext[last[i - 1]]
  BY <1>1, <1>5, <1>7 DEF Rounds
<1> QED
  BY <1>1, <1>6, <1>8

(***************************************************************************)
(* What is taken out of the buffer are the next packets that were sent, in *)
(* their order, and no complete one is left in it.                         *)
(***************************************************************************)
LEMMA ExtractFacts ==
  ASSUME NEW packets \in Seq(Packets), NEW c, Ends(packets, c),
         NEW buffer \in Seq(Byte), NEW more \in Seq(Byte), NEW done, NEW last,
         NEW whole, NEW empty,
         Flow(buffer \o more, packets, c, done, last, whole, empty)
  PROVE  \E found, rest :
           /\ Extract(buffer) = [packets |-> found, rest |-> rest]
           /\ found \in Seq(Packets) /\ rest \in Seq(Byte) /\ ~HasPacket(rest)
           /\ Flow(rest \o more, packets, c, done + Len(found), last, whole, empty)
           /\ \A k \in 1..Len(found) : found[k] = packets[done + k]
<1>1. PICK run : /\ Extract(buffer) = run[Len(buffer)]
                 /\ run[0] = [packets |-> <<>>, rest |-> buffer]
                 /\ \A i \in 1..Len(buffer) : run[i] = ExtractNext[run[i - 1]]
  BY ExtractIsLoop
<1>2. PICK N \in Nat : N = Len(buffer)
  OBVIOUS
<1>3. last \in Nat /\ done \in Nat
  BY DEF Flow
<1> DEFINE Good(i, found, rest) ==
             /\ run[i] = [packets |-> found, rest |-> rest]
             /\ found \in Seq(Packets) /\ rest \in Seq(Byte)
             /\ HasPacket(rest) => Len(rest) + i <= N
             /\ Flow(rest \o more, packets, c, done + Len(found), last, whole, empty)
             /\ \A k \in 1..Len(found) : found[k] = packets[done + k]
           T == {i \in 0..N : \E found, rest : Good(i, found, rest)}
<1>4. 0 \in T
  <2>1. PICK found : found = <<>>
    OBVIOUS
  <2>2. found \in Seq(Packets) /\ Len(found) = 0 /\ done + Len(found) = done
    BY <1>3, <2>1
  <2>3. Good(0, found, buffer)
    BY <1>1, <1>2, <2>1, <2>2
  <2>4. 0 \in 0..N
    OBVIOUS
  <2> HIDE DEF Good
  <2> QED
    BY <2>3, <2>4
<1>5. ASSUME NEW i \in 1..N, i - 1 \in T PROVE i \in T
  <2>1. PICK found, rest : Good(i - 1, found, rest)
    BY <1>5
  <2>2. i \in 0..N /\ run[i] = ExtractNext[[packets |-> found, rest |-> rest]]
    BY <1>1, <1>2, <2>1
  <2>3. [packets |-> found, rest |-> rest] \in Run
    <3>1. Packets \subseteq Seq(Byte)
      BY PacketsAssumption
    <3>2. found \in Seq(Seq(Byte))
      BY <2>1, <3>1
    <3> QED
      BY <2>1, <3>2 DEF Run
  <2>4. CASE ~HasPacket(rest)
    <3>1. run[i] = [packets |-> found, rest |-> rest]
      BY <2>2, <2>3, <2>4 DEF ExtractNext
    <3>2. Good(i, found, rest)
      BY <2>1, <2>4, <3>1
    <3> HIDE DEF Good
    <3> QED
      BY <2>2, <3>2
  <2>5. CASE HasPacket(rest)
    <3>1. PICK m \in Nat : m = Len(found)
      BY <2>1
    <3>2. PICK n : n = TotalSize(rest)
      OBVIOUS
    <3>3. PICK p, later : /\ p = SubSeq(rest, HeaderSize + 1, n)
                          /\ later = ShiftAway(rest, n)
      OBVIOUS
    <3>4. PICK d : d = done + m
      OBVIOUS
    <3>5. /\ d + 1 \in 1..last /\ packets[d + 1] \in Packets /\ n \in 1..Len(rest)
          /\ p = packets[d + 1] /\ later \in Seq(Byte) /\ Len(later) = Len(rest) - n
          /\ Flow(later \o more, packets, c, d + 1, last, whole, empty)
      <4>1. rest \in Seq(Byte) /\ Flow(rest \o more, packets, c, d, last, whole, empty)
        BY <2>1, <3>1, <3>4
      <4>2. HasPacket(rest)
        BY <2>5
      <4> HIDE DEF Good, T
      <4>3. /\ d + 1 \in 1..last /\ packets[d + 1] \in Packets
            /\ TotalSize(rest) \in 1..Len(rest)
            /\ SubSeq(rest, HeaderSize + 1, TotalSize(rest)) = packets[d + 1]
            /\ ShiftAway(rest, TotalSize(rest)) \in Seq(Byte)
            /\ Len(ShiftAway(rest, TotalSize(rest))) = Len(rest) - TotalSize(rest)
            /\ Flow(ShiftAway(rest, TotalSize(rest)) \o more, packets, c, d + 1, last, whole, empty)
        BY <4>1, <4>2, TakesNext
      <4> QED
        BY <3>2, <3>3, <4>3
    <3>6. run[i] = [packets |-> Append(found, p), rest |-> later]
      BY <2>2, <2>3, <2>5, <3>2, <3>3 DEF ExtractNext
    <3>7. PICK g : g = Append(found, p)
      OBVIOUS
    <3>8. /\ g \in Seq(Packets) /\ Len(g) = m + 1 /\ g[m + 1] = p
          /\ \A k \in 1..m : g[k] = found[k]
      BY <2>1, <3>1, <3>5, <3>7
    <3>9. ASSUME NEW k \in 1..Len(g) PROVE g[k] = packets[done + k]
      <4>1. CASE k \in 1..m
        BY <2>1, <3>1, <3>8, <4>1
      <4>2. CASE k \notin 1..m
        <5>1. k = m + 1 /\ done + k = d + 1
          BY <1>3, <3>4, <3>8, <4>2
        <5> QED
          BY <3>5, <3>8, <5>1
      <4> QED
        BY <4>1, <4>2
    <3>10. Len(later) + i <= N
      <4>1. Len(rest) + (i - 1) <= N /\ Len(rest) \in Nat
        BY <2>1, <2>5
      <4> QED
        BY <3>5, <4>1
    <3>11. done + Len(g) = d + 1
      BY <1>3, <3>4, <3>8
    <3>12. Flow(later \o more, packets, c, done + Len(g), last, whole, empty)
      BY <3>5, <3>11
    <3>13. Good(i, g, later)
      BY <3>5, <3>6, <3>7, <3>8, <3>9, <3>10, <3>12
    <3> HIDE DEF Good
    <3> QED
      BY <2>2, <3>13
  <2> QED
    BY <2>4, <2>5
<1>6. N \in T
  <2>1. N \in 0..N
    OBVIOUS
  <2> HIDE DEF T
  <2>2. \A i \in 0..N : i \in T
    BY <1>4, <1>5, Induction
  <2> QED
    BY <2>1, <2>2
<1>7. PICK found, rest : Good(N, found, rest)
  BY <1>6
<1>8. ~HasPacket(rest)
  <2> SUFFICES ASSUME HasPacket(rest) PROVE FALSE
    OBVIOUS
  <2>1. Len(rest) + N <= N /\ Len(rest) \in Nat
    BY <1>7
  <2>2. Len(rest) >= HeaderSize /\ HeaderSize \in Nat \ {0}
    BY SizesAssumption DEF HasPacket
  <2> QED
    BY <2>1, <2>2
<1> QED
  BY <1>1, <1>2, <1>7, <1>8
----------------------------------------------------------------------------
(* What is sent. *)

(***************************************************************************)
(* One more packet that is sent whole ends where its frame ends.           *)
(***************************************************************************)
LEMMA EndsAppend ==
  ASSUME NEW packets \in Seq(Packets), NEW c, Ends(packets, c), NEW p \in Packets
  PROVE  \E c2 : /\ Ends(Append(packets, p), c2)
                 /\ \A i \in 0..Len(packets) : c2[i] = c[i]
                 /\ c2[Len(packets) + 1] = c[Len(packets)] + FrameSize(p)
<1>1. PICK N \in Nat : N = Len(packets)
  OBVIOUS
<1>2. PICK q : q = Append(packets, p)
  OBVIOUS
<1>3. /\ Len(q) = N + 1 /\ q[N + 1] = p
      /\ \A i \in 1..N : q[i] = packets[i]
  BY <1>1, <1>2
<1>4. /\ c \in [0..N -> Nat]
      /\ \A i \in 1..N : c[i] = c[i - 1] + FrameSize(packets[i])
      /\ \A i, j \in 0..N : i <= j => c[i] <= c[j]
  BY <1>1 DEF Ends
<1>5. PICK size \in Nat : size = FrameSize(p)
  BY FrameFacts
<1>6. PICK c2 : c2 = [i \in 0..(N + 1) |-> IF i <= N THEN c[i] ELSE c[N] + size]
  OBVIOUS
<1>7. N \in 0..N /\ N + 1 \in 0..(N + 1) /\ ~(N + 1 <= N) /\ c[N] \in Nat
  BY <1>4
<1>8. /\ c2 \in [0..(N + 1) -> Nat] /\ c2[N + 1] = c[N] + size
      /\ \A i \in 0..N : c2[i] = c[i]
  BY <1>4, <1>6, <1>7
<1>9. ASSUME NEW i \in 1..(N + 1) PROVE c2[i] = c2[i - 1] + FrameSize(q[i])
  <2>1. CASE i \in 1..N
    <3>1. i \in 0..N /\ i - 1 \in 0..N
      BY <2>1
    <3> QED
      BY <1>3, <1>4, <1>8, <2>1, <3>1
  <2>2. CASE i \notin 1..N
    <3>1. i = N + 1 /\ i - 1 = N
      BY <2>2
    <3> QED
      BY <1>3, <1>5, <1>7, <1>8, <3>1
  <2> QED
    BY <2>1, <2>2
<1>10. ASSUME NEW i \in 0..(N + 1), NEW j \in 0..(N + 1), i <= j PROVE c2[i] <= c2[j]
  <2>1. CASE j \in 0..N
    <3>1. i \in 0..N
      BY <1>10, <2>1
    <3> QED
      BY <1>4, <1>8, <1>10, <2>1, <3>1
  <2>2. CASE j \notin 0..N /\ i \in 0..N
    <3>1. j = N + 1
      BY <2>2
    <3>2. c[i] <= c[N] /\ c[i] \in Nat /\ c2[i] = c[i]
      BY <1>4, <1>7, <1>8, <2>2
    <3> QED
      BY <1>7, <1>8, <3>1, <3>2
  <2>3. CASE j \notin 0..N /\ i \notin 0..N
    <3>1. i = j /\ c2[j] \in Nat
      BY <1>8, <2>3
    <3> QED
      BY <3>1
  <2> QED
    BY <2>1, <2>2, <2>3
<1>11. Ends(q, c2)
  BY <1>3, <1>8, <1>9, <1>10 DEF Ends
<1> QED
  BY <1>1, <1>2, <1>5, <1>8, <1>11

\* q and c2 are packets and c, or go on behind them.
Continues(packets, c, q, c2) ==
  /\ q \in Seq(Packets) /\ Len(packets) <= Len(q)
  /\ \A i \in 1..Len(packets) : q[i] = packets[i]
  /\ \A i \in 0..Len(packets) : c2[i] = c[i]

\* The flow of q in bytes and what follows them, when only its end may have changed.
Kept(bytes, added, q, c2, done, last, whole, empty) ==
  /\ last \in 0..Len(q) /\ done \in 0..last
  /\ c2[last] - c2[done] \in Nat /\ c2[last] - c2[done] <= Len(bytes)
  /\ \A i \in (done + 1)..last :
       HasAt(bytes \o added, c2[i - 1] - c2[done], Frame(q[i]), FrameSize(q[i]))
  /\ empty => \E h \in EmptyHeaders : HasAt(bytes \o added, c2[last] - c2[done], h, HeaderSize)
  /\ ~empty /\ whole => Len(bytes) = c2[last] - c2[done]

(***************************************************************************)
(* Bytes and packets that are added leave the flow before them as it is.   *)
(***************************************************************************)
LEMMA FlowGrows ==
  ASSUME NEW packets \in Seq(Packets), NEW c, Ends(packets, c),
         NEW bytes \in Seq(Byte), NEW done, NEW last, NEW whole, NEW empty,
         Flow(bytes, packets, c, done, last, whole, empty),
         NEW q, NEW c2, Continues(packets, c, q, c2), NEW added \in Seq(Byte)
  PROVE  Kept(bytes, added, q, c2, done, last, whole, empty)
<1>0. /\ q \in Seq(Packets) /\ Len(packets) <= Len(q)
      /\ \A i \in 1..Len(packets) : q[i] = packets[i]
      /\ \A i \in 0..Len(packets) : c2[i] = c[i]
  BY DEF Continues
<1>1. PICK b : b = bytes \o added
  OBVIOUS
<1>2. /\ b \in Seq(Byte) /\ Len(b) = Len(bytes) + Len(added)
      /\ Len(bytes) \in Nat /\ Len(added) \in Nat
      /\ \A k \in 1..(Len(bytes) + Len(added)) :
           b[k] = IF k <= Len(bytes) THEN bytes[k] ELSE added[k - Len(bytes)]
  BY <1>1, JoinFacts
<1>3. ASSUME NEW k \in Nat, NEW s, NEW n \in Nat, HasAt(bytes, k, s, n) PROVE HasAt(b, k, s, n)
  <2>1. k + n <= Len(bytes)
    BY <1>3 DEF HasAt
  <2>2. ASSUME NEW j \in 1..n PROVE b[k + j] = s[j]
    <3>1. k + j \in 1..(Len(bytes) + Len(added)) /\ k + j <= Len(bytes)
      BY <1>2, <2>1
    <3>2. bytes[k + j] = s[j]
      BY <1>3 DEF HasAt
    <3> QED
      BY <1>2, <3>1, <3>2
  <2>3. k + n <= Len(b)
    BY <1>2, <2>1
  <2> QED
    BY <2>2, <2>3 DEF HasAt
<1>4. /\ Len(packets) \in Nat /\ Len(q) \in Nat
      /\ last \in 0..Len(packets) /\ done \in 0..last /\ done \in 0..Len(packets)
  BY <1>0 DEF Flow
<1>5. /\ c2[last] = c[last] /\ c2[done] = c[done]
      /\ c[last] \in Nat /\ c[done] \in Nat /\ c[done] <= c[last]
  <2>1. done <= last
    BY <1>4
  <2> QED
    BY <1>0, <1>4, <2>1 DEF Ends
<1>6. ASSUME NEW i \in (done + 1)..last
      PROVE  HasAt(b, c2[i - 1] - c2[done], Frame(q[i]), FrameSize(q[i]))
  <2>1. i \in 1..Len(packets) /\ i - 1 \in 0..Len(packets) /\ done <= i - 1
    BY <1>4
  <2>2. PICK k \in Nat : k = c[i - 1] - c[done]
    <3>1. c[i - 1] \in Nat /\ c[done] <= c[i - 1]
      BY <1>4, <2>1 DEF Ends
    <3> QED
      BY <1>5, <3>1
  <2>3. HasAt(bytes, k, Frame(packets[i]), FrameSize(packets[i]))
    BY <2>2 DEF Flow
  <2>4. packets[i] \in Packets /\ FrameSize(packets[i]) \in Nat
    <3>1. packets[i] \in Packets
      BY <2>1
    <3> QED
      BY <3>1, FrameFacts
  <2>5. HasAt(b, k, Frame(packets[i]), FrameSize(packets[i]))
    BY <1>3, <2>3, <2>4
  <2>6. q[i] = packets[i] /\ c2[i - 1] - c2[done] = k
    BY <1>0, <1>5, <2>1, <2>2
  <2> QED
    BY <2>5, <2>6
<1>7. PICK k \in Nat : k = c[last] - c[done] /\ k = c2[last] - c2[done]
  BY <1>5
<1>8. k <= Len(bytes) /\ Behind(bytes, k, whole, empty)
  BY <1>7 DEF Flow
<1>9. ASSUME empty PROVE \E h \in EmptyHeaders : HasAt(b, k, h, HeaderSize)
  <2>1. PICK h \in EmptyHeaders : HasAt(bytes, k, h, HeaderSize)
    BY <1>8, <1>9 DEF Behind
  <2>2. HeaderSize \in Nat
    BY SizesAssumption
  <2> QED
    BY <1>3, <2>1, <2>2
<1>10. ASSUME ~empty, whole PROVE Len(bytes) = k
  BY <1>8, <1>10 DEF Behind
<1>11. last \in 0..Len(q)
  BY <1>0, <1>4
<1> QED
  BY <1>1, <1>4, <1>6, <1>7, <1>8, <1>9, <1>10, <1>11 DEF Kept
(***************************************************************************)
(* A packet that is sent while everything before it was sent whole: its    *)
(* frame is the next in the flow, or as much of it as was sent the last.   *)
(***************************************************************************)
LEMMA SentFlow ==
  ASSUME NEW packets \in Seq(Packets), NEW c, Ends(packets, c),
         NEW bytes \in Seq(Byte), NEW done, NEW last, NEW whole, NEW empty, whole,
         Flow(bytes, packets, c, done, last, whole, empty),
         NEW p \in Packets, NEW n \in 0..FrameSize(p),
         NEW added \in Seq(Byte), Len(added) = n, \A j \in 1..n : added[j] = Frame(p)[j],
         NEW q, NEW sent,
         sent => n = FrameSize(p) /\ q = Append(packets, p),
         ~sent => n < FrameSize(p) /\ q = packets
  PROVE  \E c2, last2 : /\ Ends(q, c2)
                        /\ Flow(bytes \o added, q, c2, done, last2, sent, empty)
<1>1. PICK b : b = bytes \o added
  OBVIOUS
<1>2. /\ b \in Seq(Byte) /\ Len(b) = Len(bytes) + n /\ Len(bytes) \in Nat
      /\ \A k \in 1..(Len(bytes) + n) :
           b[k] = IF k <= Len(bytes) THEN bytes[k] ELSE added[k - Len(bytes)]
  <2>1. /\ b \in Seq(Byte) /\ Len(b) = Len(bytes) + Len(added) /\ Len(bytes) \in Nat
        /\ \A k \in 1..(Len(bytes) + Len(added)) :
             b[k] = IF k <= Len(bytes) THEN bytes[k] ELSE added[k - Len(bytes)]
    BY <1>1, JoinFacts
  <2> QED
    BY <2>1
<1>3. PICK size \in Nat : size = FrameSize(p)
  BY FrameFacts
<1>4. n \in Nat /\ n <= size /\ Len(packets) \in Nat
  BY <1>3
<1>5. HasAt(b, Len(bytes), Frame(p), n)
  <2>1. ASSUME NEW j \in 1..n PROVE b[Len(bytes) + j] = Frame(p)[j]
    <3>1. /\ Len(bytes) + j \in 1..(Len(bytes) + n) /\ ~(Len(bytes) + j <= Len(bytes))
          /\ (Len(bytes) + j) - Len(bytes) = j
      BY <1>2
    <3> QED
      BY <1>2, <3>1
  <2>2. Len(bytes) + n <= Len(b)
    BY <1>2, <1>4
  <2> QED
    BY <2>1, <2>2 DEF HasAt
<1>6. CASE sent
  <2>1. n = size /\ q = Append(packets, p)
    BY <1>3, <1>6
  <2>2. PICK c2 : /\ Ends(Append(packets, p), c2)
                  /\ \A i \in 0..Len(packets) : c2[i] = c[i]
                  /\ c2[Len(packets) + 1] = c[Len(packets)] + FrameSize(p)
    BY EndsAppend
  <2>3. /\ q \in Seq(Packets) /\ Len(q) = Len(packets) + 1 /\ q[Len(packets) + 1] = p
        /\ \A i \in 1..Len(packets) : q[i] = packets[i]
    BY <2>1
  <2>4. /\ last \in 0..Len(q) /\ done \in 0..last
        /\ c2[last] - c2[done] \in Nat /\ c2[last] - c2[done] <= Len(bytes)
        /\ \A i \in (done + 1)..last :
             HasAt(b, c2[i - 1] - c2[done], Frame(q[i]), FrameSize(q[i]))
        /\ empty => \E h \in EmptyHeaders : HasAt(b, c2[last] - c2[done], h, HeaderSize)
        /\ ~empty /\ whole => Len(bytes) = c2[last] - c2[done]
    <3>1. Continues(packets, c, q, c2)
      BY <1>4, <2>2, <2>3 DEF Continues
    <3>2. Kept(bytes, added, q, c2, done, last, whole, empty)
      BY <3>1, FlowGrows
    <3> QED
      BY <1>1, <3>2 DEF Kept
  <2>5. CASE empty
    <3>1. Behind(b, c2[last] - c2[done], sent, empty)
      BY <2>4, <2>5 DEF Behind
    <3>2. c2[last] - c2[done] <= Len(b)
      BY <1>2, <1>4, <2>4
    <3>3. Flow(b, q, c2, done, last, sent, empty)
      BY <2>4, <2>5, <3>1, <3>2 DEF Flow
    <3> QED
      BY <1>1, <2>1, <2>2, <3>3
  <2>6. CASE ~empty
    <3>1. last = Len(packets) /\ done \in Nat /\ last \in Nat
      BY <1>4, <2>4, <2>6 DEF Flow
    <3>2. PICK k \in Nat : k = c2[last] - c2[done] /\ k = Len(bytes)
      BY <1>2, <2>4, <2>6
    <3>3. c2[last + 1] - c2[done] = k + size /\ c2[last] \in Nat /\ c2[done] \in Nat
      <4>1. last \in 0..Len(q) /\ done \in 0..Len(q)
        BY <2>3, <2>4, <3>1, <1>4
      <4>2. c2[last] \in Nat /\ c2[done] \in Nat
        BY <2>1, <2>2, <4>1 DEF Ends
      <4>3. last \in 0..Len(packets)
        BY <1>4, <3>1
      <4>4. c2[last + 1] = c2[last] + size
        BY <1>3, <2>2, <3>1, <4>3
      <4> QED
        BY <3>2, <4>2, <4>4
    <3>4. ASSUME NEW i \in (done + 1)..(last + 1)
          PROVE  HasAt(b, c2[i - 1] - c2[done], Frame(q[i]), FrameSize(q[i]))
      <4>1. CASE i \in (done + 1)..last
        BY <2>4, <4>1
      <4>2. CASE i \notin (done + 1)..last
        <5>1. i = last + 1 /\ i - 1 = last
          BY <3>1, <4>2
        <5>2. q[i] = p /\ c2[i - 1] - c2[done] = Len(bytes)
          BY <2>3, <3>1, <3>2, <5>1
        <5> QED
          BY <1>3, <1>5, <2>1, <5>2
      <4> QED
        BY <4>1, <4>2
    <3>5. Len(b) = k + size
      BY <1>2, <2>1, <3>2
    <3>6. Behind(b, c2[last + 1] - c2[done], sent, empty)
      BY <2>6, <3>3, <3>5 DEF Behind
    <3>7. /\ last + 1 \in 0..Len(q) /\ done \in 0..(last + 1) /\ last + 1 = Len(q)
          /\ c2[last + 1] - c2[done] <= Len(b)
      BY <1>4, <2>3, <2>4, <3>1, <3>2, <3>3, <3>5
    <3>8. Flow(b, q, c2, done, last + 1, sent, empty)
      BY <3>4, <3>6, <3>7 DEF Flow
    <3> QED
      BY <1>1, <2>1, <2>2, <3>8
  <2> QED
    BY <2>5, <2>6
<1>7. CASE ~sent
  <2>1. n < size /\ q = packets
    BY <1>3, <1>7
  <2>2. /\ last \in 0..Len(q) /\ done \in 0..last
        /\ c[last] - c[done] \in Nat /\ c[last] - c[done] <= Len(bytes)
        /\ \A i \in (done + 1)..last :
             HasAt(b, c[i - 1] - c[done], Frame(q[i]), FrameSize(q[i]))
        /\ empty => \E h \in EmptyHeaders : HasAt(b, c[last] - c[done], h, HeaderSize)
        /\ ~empty /\ whole => Len(bytes) = c[last] - c[done]
    <3>1. Continues(packets, c, q, c)
      BY <1>4, <2>1 DEF Continues
    <3>2. Kept(bytes, added, q, c, done, last, whole, empty)
      BY <3>1, FlowGrows
    <3> QED
      BY <1>1, <3>2 DEF Kept
  <2>3. Behind(b, c[last] - c[done], sent, empty)
    <3>1. CASE empty
      BY <2>2, <3>1 DEF Behind
    <3>2. CASE ~empty
      <4>1. c[last] - c[done] = Len(bytes)
        BY <2>2, <3>2
      <4>2. Len(b) - Len(bytes) = n /\ Len(b) - Len(bytes) < FrameSize(p)
        BY <1>2, <1>3, <1>4, <2>1
      <4> QED
        BY <1>5, <1>7, <3>2, <4>1, <4>2 DEF Behind
    <3> QED
      BY <3>1, <3>2
  <2>4. c[last] - c[done] <= Len(b) /\ (~empty => last = Len(q))
    <3>1. ~empty => last = Len(packets)
      BY DEF Flow
    <3> QED
      BY <1>2, <1>4, <2>1, <2>2, <3>1
  <2>5. Flow(b, q, c, done, last, sent, empty)
    BY <2>2, <2>3, <2>4 DEF Flow
  <2> QED
    BY <1>1, <2>1, <2>5
<1> QED
  BY <1>6, <1>7

(***************************************************************************)
(* A header that announces no packet, sent while everything before it was  *)
(* sent whole, is behind the last packet that still can be delivered.      *)
(***************************************************************************)
LEMMA MalformedFlow ==
  ASSUME NEW packets \in Seq(Packets), NEW c, Ends(packets, c),
         NEW bytes \in Seq(Byte), NEW done, NEW last,
         Flow(bytes, packets, c, done, last, TRUE, FALSE), NEW h \in EmptyHeaders
  PROVE  Flow(bytes \o h, packets, c, done, last, TRUE, TRUE)
<1>1. PICK b : b = bytes \o h
  OBVIOUS
<1>2. h \in Seq(Byte) /\ Len(h) = HeaderSize /\ HeaderSize \in Nat
  BY EmptyHeadersAssumption, SizesAssumption
<1>3. /\ b \in Seq(Byte) /\ Len(b) = Len(bytes) + HeaderSize /\ Len(bytes) \in Nat
      /\ \A k \in 1..(Len(bytes) + HeaderSize) :
           b[k] = IF k <= Len(bytes) THEN bytes[k] ELSE h[k - Len(bytes)]
  BY <1>1, <1>2, JoinFacts
<1>4. /\ last \in 0..Len(packets) /\ done \in 0..last
      /\ c[last] - c[done] \in Nat /\ c[last] - c[done] <= Len(bytes)
      /\ \A i \in (done + 1)..last :
           HasAt(b, c[i - 1] - c[done], Frame(packets[i]), FrameSize(packets[i]))
      /\ Len(bytes) = c[last] - c[done]
  <2>1. Continues(packets, c, packets, c)
    BY DEF Continues
  <2>2. Kept(bytes, h, packets, c, done, last, TRUE, FALSE)
    BY <1>2, <2>1, FlowGrows
  <2> QED
    BY <1>1, <2>2 DEF Kept
<1>5. HasAt(b, Len(bytes), h, HeaderSize)
  <2>1. ASSUME NEW j \in 1..HeaderSize PROVE b[Len(bytes) + j] = h[j]
    <3>1. /\ Len(bytes) + j \in 1..(Len(bytes) + HeaderSize) /\ ~(Len(bytes) + j <= Len(bytes))
          /\ (Len(bytes) + j) - Len(bytes) = j
      BY <1>2, <1>3
    <3> QED
      BY <1>3, <3>1
  <2>2. Len(bytes) + HeaderSize <= Len(b)
    BY <1>2, <1>3
  <2> QED
    BY <2>1, <2>2 DEF HasAt
<1>6. Behind(b, c[last] - c[done], TRUE, TRUE)
  BY <1>4, <1>5 DEF Behind
<1>7. c[last] - c[done] <= Len(b)
  BY <1>2, <1>3, <1>4
<1> QED
  BY <1>1, <1>4, <1>6, <1>7 DEF Flow
----------------------------------------------------------------------------
(* The longest frame. *)

(***************************************************************************)
(* Finitely many packets have a longest one.                               *)
(***************************************************************************)
LEMMA LongestFacts ==
  /\ LongestFrame \in Nat \ {0}
  /\ \A p \in Packets : FrameSize(p) <= LongestFrame
<1>1. PICK seq \in Seq(Packets) : \A p \in Packets : \E i \in 1..Len(seq) : seq[i] = p
  BY PacketsAssumption DEF IsFiniteSet
<1>2. PICK N \in Nat : N = Len(seq)
  OBVIOUS
<1>3. \A i \in 1..N : seq[i] \in Packets /\ Len(seq[i]) \in Nat
  <2>1. \A i \in 1..N : seq[i] \in Packets
    BY <1>2
  <2> QED
    BY <2>1, FrameFacts
<1> DEFINE Tops(n, k) == k \in 1..n /\ \A i \in 1..n : Len(seq[i]) <= Len(seq[k])
           T == {n \in 0..N : n = 0 \/ \E k \in 1..N : Tops(n, k)}
<1>4. 0 \in T
  OBVIOUS
<1>5. ASSUME NEW n \in 1..N, n - 1 \in T PROVE n \in T
  <2>1. n \in 0..N /\ n \in 1..n
    OBVIOUS
  <2>2. CASE n = 1
    <3>1. Tops(n, n)
      BY <1>3, <2>1, <2>2
    <3> QED
      BY <2>1, <3>1
  <2>3. CASE n # 1
    <3>1. PICK k \in 1..N : Tops(n - 1, k)
      BY <1>5, <2>3
    <3>2. CASE Len(seq[n]) <= Len(seq[k])
      <4>1. Tops(n, k)
        BY <3>1, <3>2
      <4> QED
        BY <2>1, <4>1
    <3>3. CASE ~(Len(seq[n]) <= Len(seq[k]))
      <4>1. ASSUME NEW i \in 1..n PROVE Len(seq[i]) <= Len(seq[n])
        <5>1. Len(seq[n]) \in Nat /\ Len(seq[k]) \in Nat /\ Len(seq[i]) \in Nat
          BY <1>3
        <5>2. CASE i \in 1..(n - 1)
          <6>1. Len(seq[i]) <= Len(seq[k])
            BY <3>1, <5>2
          <6> QED
            BY <3>3, <5>1, <6>1
        <5>3. CASE i \notin 1..(n - 1)
          <6>1. i = n
            BY <5>3
          <6> QED
            BY <5>1, <6>1
        <5> QED
          BY <5>2, <5>3
      <4>2. Tops(n, n)
        BY <2>1, <4>1
      <4> QED
        BY <2>1, <4>2
    <3> QED
      BY <3>2, <3>3
  <2> QED
    BY <2>2, <2>3
<1>6. N \in T /\ N # 0
  <2>1. N # 0 /\ N \in 0..N
    BY <1>1, <1>2, PacketsAssumption
  <2> HIDE DEF T
  <2>2. \A n \in 0..N : n \in T
    BY <1>4, <1>5, Induction
  <2> QED
    BY <2>1, <2>2
<1>7. PICK k \in 1..N : Tops(N, k)
  BY <1>6
<1> DEFINE lengths == {Len(p) : p \in Packets}
<1>8. \E x \in lengths : \A y \in lengths : x >= y
  <2>1. Len(seq[k]) \in lengths /\ Len(seq[k]) \in Nat
    BY <1>3
  <2>2. ASSUME NEW y \in lengths PROVE Len(seq[k]) >= y
    <3>1. PICK p \in Packets : y = Len(p)
      OBVIOUS
    <3>2. PICK i \in 1..N : seq[i] = p
      BY <1>1, <1>2
    <3>3. Len(seq[i]) <= Len(seq[k]) /\ Len(seq[i]) \in Nat
      BY <1>3, <1>7
    <3> QED
      BY <2>1, <3>1, <3>2, <3>3
  <2> QED
    BY <2>1, <2>2
<1>9. Max(lengths) \in lengths /\ \A y \in lengths : Max(lengths) >= y
  BY <1>8 DEF Max
<1>10. PICK m : m = Max(lengths)
  OBVIOUS
<1>11. m \in Nat /\ \A p \in Packets : Len(p) \in Nat /\ Len(p) <= m
  <2>1. \A p \in Packets : Len(p) \in Nat
    BY FrameFacts
  <2>2. m \in Nat
    BY <1>9, <1>10, <2>1
  <2> QED
    BY <1>9, <1>10, <2>1, <2>2
<1>12. HeaderSize \in Nat \ {0}
  BY SizesAssumption
<1>13. LongestFrame = HeaderSize + m
  BY <1>10 DEF LongestFrame
<1> QED
  BY <1>11, <1>12, <1>13 DEF FrameSize

----------------------------------------------------------------------------
(* What waits in the input buffer. *)

(***************************************************************************)
(* When the frame of the next packet is in the buffer, it is found there.  *)
(***************************************************************************)
LEMMA FoundWhenWhole ==
  ASSUME NEW packets \in Seq(Packets), NEW c, Ends(packets, c),
         NEW data \in Seq(Byte), NEW more \in Seq(Byte), NEW done, NEW last,
         NEW whole, NEW empty, Flow(data \o more, packets, c, done, last, whole, empty),
         done # last
  PROVE  /\ done + 1 \in 1..Len(packets) /\ packets[done + 1] \in Packets
         /\ FrameSize(packets[done + 1]) <= Len(data \o more)
         /\ FrameSize(packets[done + 1]) <= Len(data) => HasPacket(data)
<1>1. PICK b : b = data \o more
  OBVIOUS
<1>2. /\ b \in Seq(Byte) /\ Len(b) = Len(data) + Len(more)
      /\ Len(data) \in Nat /\ Len(more) \in Nat
      /\ \A k \in 1..(Len(data) + Len(more)) :
           b[k] = IF k <= Len(data) THEN data[k] ELSE more[k - Len(data)]
  BY <1>1, JoinFacts
<1>3. Flow(b, packets, c, done, last, whole, empty)
  BY <1>1
<1>4. /\ done \in Nat /\ done + 1 \in (done + 1)..last /\ (done + 1) - 1 = done
      /\ done + 1 \in 1..Len(packets) /\ done \in 0..Len(packets)
  BY <1>3 DEF Flow
<1>5. PICK p \in Packets : p = packets[done + 1]
  BY <1>4
<1>6. PICK size \in Nat : /\ size = FrameSize(p) /\ size = HeaderSize + Len(p)
                          /\ Len(p) \in Nat \ {0} /\ HeaderSize \in Nat \ {0}
  BY <1>5, FrameFacts, SizesAssumption DEF FrameSize
<1>7. HasAt(b, 0, Frame(p), size)
  <2>1. c[(done + 1) - 1] - c[done] = 0
    <3>1. c[done] \in Nat
      BY <1>4 DEF Ends
    <3> QED
      BY <1>4, <3>1
  <2> QED
    BY <1>3, <1>4, <1>5, <1>6, <2>1 DEF Flow
<1>8. size <= Len(b)
  BY <1>6, <1>7 DEF HasAt
<1>9. ASSUME size <= Len(data) PROVE HasPacket(data)
  <2>1. Len(data) >= HeaderSize
    BY <1>2, <1>6, <1>9
  <2>2. ASSUME NEW j \in 1..HeaderSize PROVE data[j] = Frame(p)[j]
    <3>1. j \in 1..size /\ 0 + j = j /\ j \in 1..(Len(data) + Len(more)) /\ j <= Len(data)
      BY <1>2, <1>6, <1>9
    <3>2. b[j] = Frame(p)[j]
      BY <1>7, <3>1 DEF HasAt
    <3> QED
      BY <1>2, <3>1, <3>2
  <2>3. OscPacketLen(data) = Len(p)
    BY <2>1, <2>2, PacketAnnounced
  <2> QED
    BY <1>2, <1>6, <1>9, <2>1, <2>3 DEF HasPacket, TotalSize
<1> QED
  BY <1>1, <1>4, <1>5, <1>6, <1>8, <1>9

(***************************************************************************)
(* As long as every header announces a packet, what waits in the buffer    *)
(* lacks a byte of a frame.                                                *)
(***************************************************************************)
LEMMA WaitingIsShort ==
  ASSUME NEW packets \in Seq(Packets), NEW c, Ends(packets, c),
         NEW data \in Seq(Byte), NEW more \in Seq(Byte), NEW done, NEW last,
         NEW whole, NEW empty, Flow(data \o more, packets, c, done, last, whole, empty),
         ~empty, ~HasPacket(data)
  PROVE  Len(data) < LongestFrame
<1>1. LongestFrame \in Nat \ {0} /\ \A p \in Packets : FrameSize(p) <= LongestFrame
  BY LongestFacts
<1>2. Len(data) \in Nat /\ Len(data \o more) \in Nat /\ Len(data) <= Len(data \o more)
  OBVIOUS
<1>3. CASE done # last
  <2>1. PICK p \in Packets : ~(FrameSize(p) <= Len(data))
    BY <1>3, FoundWhenWhole
  <2>2. FrameSize(p) \in Nat /\ FrameSize(p) <= LongestFrame
    BY <1>1, FrameFacts
  <2> QED
    BY <1>1, <1>2, <2>1, <2>2
<1>4. CASE done = last
  <2>1. c[last] - c[done] = 0
    <3>1. last \in 0..Len(packets)
      BY DEF Flow
    <3>2. c[last] \in Nat
      BY <3>1 DEF Ends
    <3> QED
      BY <1>4, <3>2
  <2>2. Behind(data \o more, 0, whole, empty)
    BY <2>1 DEF Flow
  <2>3. CASE Len(data \o more) = 0
    BY <1>1, <1>2, <2>3
  <2>4. CASE Len(data \o more) # 0
    <3>1. PICK p \in Packets : Len(data \o more) - 0 < FrameSize(p)
      BY <2>2, <2>4 DEF Behind
    <3>2. FrameSize(p) \in Nat /\ FrameSize(p) <= LongestFrame
      BY <1>1, FrameFacts
    <3> QED
      BY <1>1, <1>2, <3>1, <3>2
  <2> QED
    BY <2>3, <2>4
<1> QED
  BY <1>3, <1>4
----------------------------------------------------------------------------
(* The invariant. *)

TypeInvariant ==
  /\ queue \in Seq(Packets) /\ written \in Seq(Packets) /\ delivered \in Seq(Packets)
  /\ sendPacket \in Seq(Byte) /\ wire \in Seq(Byte)
  /\ inputBuffer.data \in Seq(Byte) /\ inputBuffer.capacity \in Nat
  /\ up \in BOOLEAN /\ malformed \in BOOLEAN

\* From the packet that is delivered next on.
FlowInvariant ==
  \E c, last : /\ Ends(written, c)
               /\ Flow(inputBuffer.data \o wire, written, c, Len(delivered), last, up, malformed)

DeliveredAsWritten == \A k \in 1..Len(delivered) : delivered[k] = written[k]

IInv ==
  /\ TypeInvariant
  /\ FlowInvariant
  /\ DeliveredAsWritten
  /\ ~HasPacket(inputBuffer.data)
  /\ BufferBounded

(***************************************************************************)
(* Whatever frame was in m_SendPacket before, the bytes that are sent are  *)
(* those of the frame that is there now.                                   *)
(***************************************************************************)
LEMMA OverwrittenFacts ==
  ASSUME NEW buffer \in Seq(Byte), NEW p \in Packets, NEW n \in 0..FrameSize(p)
  PROVE  /\ Overwritten(buffer, Frame(p)) \in Seq(Byte)
         /\ SubSeq(Overwritten(buffer, Frame(p)), 1, n) \in Seq(Byte)
         /\ Len(SubSeq(Overwritten(buffer, Frame(p)), 1, n)) = n
         /\ \A j \in 1..n : SubSeq(Overwritten(buffer, Frame(p)), 1, n)[j] = Frame(p)[j]
<1>1. PICK frame, size : frame = Frame(p) /\ size = FrameSize(p)
  OBVIOUS
<1>2. frame \in Seq(Byte) /\ Len(frame) = size /\ size \in Nat
  BY <1>1, FrameFacts
<1>3. PICK sending : sending = Overwritten(buffer, frame)
  OBVIOUS
<1>4. /\ sending \in Seq(Byte) /\ size <= Len(sending)
      /\ \A j \in 1..size : sending[j] = frame[j]
  <2>1. CASE Len(buffer) < size
    BY <1>2, <1>3, <2>1 DEF Overwritten
  <2>2. CASE ~(Len(buffer) < size)
    <3>1. size \in 0..Len(buffer) /\ Len(buffer) \in size..Len(buffer)
      BY <1>2, <2>2
    <3>2. PICK rest \in Seq(Byte) : rest = SubSeq(buffer, size + 1, Len(buffer))
      BY <3>1, PieceFacts
    <3>3. sending = frame \o rest
      BY <1>2, <1>3, <2>2, <3>2 DEF Overwritten
    <3>4. /\ sending \in Seq(Byte) /\ Len(sending) = size + Len(rest) /\ Len(rest) \in Nat
          /\ \A k \in 1..(size + Len(rest)) :
               sending[k] = IF k <= size THEN frame[k] ELSE rest[k - size]
      <4>1. /\ frame \o rest \in Seq(Byte) /\ Len(frame \o rest) = Len(frame) + Len(rest)
            /\ Len(rest) \in Nat
            /\ \A k \in 1..(Len(frame) + Len(rest)) :
                 (frame \o rest)[k] = IF k <= Len(frame) THEN frame[k] ELSE rest[k - Len(frame)]
        BY <1>2, <3>2, JoinFacts
      <4> QED
        BY <1>2, <3>3, <4>1
    <3> QED
      BY <1>2, <3>4
  <2> QED
    BY <2>1, <2>2
<1>5. n \in 0..Len(sending) /\ n <= size
  BY <1>1, <1>2, <1>4
<1>6. /\ SubSeq(sending, 1, n) \in Seq(Byte) /\ Len(SubSeq(sending, 1, n)) = n
      /\ \A j \in 1..n : SubSeq(sending, 1, n)[j] = sending[j]
  BY <1>4, <1>5, FrontFacts
<1>7. \A j \in 1..n : SubSeq(sending, 1, n)[j] = frame[j]
  BY <1>2, <1>4, <1>5, <1>6
<1> QED
  BY <1>1, <1>3, <1>4, <1>6, <1>7

(***************************************************************************)
(* SendPacket, whether the whole frame gets into the stream or not.        *)
(***************************************************************************)
LEMMA SendPacketStep ==
  ASSUME IInv, up, NEW p \in Packets, NEW n \in SentBytes(p), SendPacket(p, n),
         queue' \in Seq(Packets), UNCHANGED <<inputBuffer, delivered, malformed>>
  PROVE  IInv'
<1>1. /\ queue \in Seq(Packets) /\ written \in Seq(Packets) /\ delivered \in Seq(Packets)
      /\ sendPacket \in Seq(Byte) /\ wire \in Seq(Byte)
      /\ inputBuffer.data \in Seq(Byte) /\ inputBuffer.capacity \in Nat
  BY DEF IInv, TypeInvariant
<1>2. n \in 0..FrameSize(p)
  BY DEF SentBytes, FrameSize
<1>3. PICK added : added = SubSeq(Overwritten(sendPacket, Frame(p)), 1, n)
  OBVIOUS
<1>4. /\ Overwritten(sendPacket, Frame(p)) \in Seq(Byte)
      /\ added \in Seq(Byte) /\ Len(added) = n /\ \A j \in 1..n : added[j] = Frame(p)[j]
  BY <1>1, <1>2, <1>3, OverwrittenFacts
<1>5. /\ sendPacket' = Overwritten(sendPacket, Frame(p)) /\ wire' = wire \o added
      /\ up' = (n = FrameSize(p))
      /\ written' = IF n = FrameSize(p) THEN Append(written, p) ELSE written
  BY <1>3 DEF SendPacket, FrameSize
<1>6. TypeInvariant'
  <2>1. wire' \in Seq(Byte)
    BY <1>1, <1>4, <1>5
  <2>2. written' \in Seq(Packets)
    BY <1>1, <1>5
  <2>3. up' \in BOOLEAN
    BY <1>5, Zenon
  <2> QED
    BY <1>1, <1>4, <1>5, <2>1, <2>2, <2>3 DEF IInv, TypeInvariant
<1>7. PICK c, last :
        /\ Ends(written, c)
        /\ Flow(inputBuffer.data \o wire, written, c, Len(delivered), last, up, malformed)
  BY DEF IInv, FlowInvariant
<1>8. FlowInvariant'
  <2>1. PICK bytes : bytes = inputBuffer.data \o wire
    OBVIOUS
  <2>2. bytes \in Seq(Byte) /\ inputBuffer.data \o wire' = bytes \o added
    <3>1. PICK data \in Seq(Byte) : data = inputBuffer.data
      BY <1>1
    <3>2. PICK w \in Seq(Byte) : w = wire
      BY <1>1
    <3>3. added \in Seq(Byte)
      BY <1>4
    <3>4. (data \o w) \o added = data \o (w \o added)
      BY <3>3, JoinAssociative, SMTT(30)
    <3>5. data \o w \in Seq(Byte)
      OBVIOUS
    <3> QED
      BY <1>5, <2>1, <3>1, <3>2, <3>4, <3>5
  <2>3. PICK q : q = written'
    OBVIOUS
  <2>4. /\ up' => n = FrameSize(p) /\ q = Append(written, p)
        /\ ~up' => n < FrameSize(p) /\ q = written
    <3>1. FrameSize(p) \in Nat
      BY FrameFacts
    <3>2. (up' => n = FrameSize(p)) /\ (~up' => n # FrameSize(p))
      BY <1>5, Zenon
    <3>3. n # FrameSize(p) => n < FrameSize(p)
      BY <1>2, <3>1
    <3> QED
      BY <1>5, <2>3, <3>2, <3>3
  <2>5. Flow(bytes, written, c, Len(delivered), last, up, malformed)
    BY <1>7, <2>1
  <2>6. PICK c2, last2 :
          /\ Ends(q, c2)
          /\ Flow(bytes \o added, q, c2, Len(delivered), last2, up', malformed)
    BY <1>1, <1>2, <1>4, <1>7, <2>2, <2>4, <2>5, SentFlow
  <2> QED
    BY <2>2, <2>3, <2>6 DEF FlowInvariant
<1>9. DeliveredAsWritten'
  <2>1. Len(delivered) \in Nat /\ Len(written) \in Nat /\ Len(delivered) <= Len(written)
    BY <1>1, <1>7 DEF Flow
  <2>2. \A k \in 1..Len(written) : written'[k] = written[k]
    BY <1>1, <1>5
  <2> QED
    BY <2>1, <2>2 DEF IInv, DeliveredAsWritten
<1> QED
  BY <1>6, <1>8, <1>9 DEF IInv, BufferBounded
(***************************************************************************)
(* Send only puts the packet in the queue.                                 *)
(***************************************************************************)
LEMMA SendStep ==
  ASSUME IInv, NEW p \in Packets, Send(p)
  PROVE  IInv'
<1>1. /\ queue' = Append(queue, p)
      /\ UNCHANGED <<sendPacket, up, wire, inputBuffer, written, delivered, malformed>>
  BY DEF Send
<1>2. TypeInvariant'
  BY <1>1 DEF IInv, TypeInvariant
<1> QED
  BY <1>1, <1>2 DEF IInv, FlowInvariant, DeliveredAsWritten, BufferBounded

(***************************************************************************)
(* A header that announces no packet.                                      *)
(***************************************************************************)
LEMMA PeerSendsEmptyStep ==
  ASSUME IInv, NEW h \in EmptyHeaders, PeerSendsEmpty(h)
  PROVE  IInv'
<1>1. /\ up /\ ~malformed /\ wire' = wire \o h /\ malformed' = TRUE
      /\ UNCHANGED <<queue, sendPacket, up, inputBuffer, written, delivered>>
  BY DEF PeerSendsEmpty, senderVars
<1>2. /\ queue \in Seq(Packets) /\ written \in Seq(Packets) /\ delivered \in Seq(Packets)
      /\ sendPacket \in Seq(Byte) /\ wire \in Seq(Byte)
      /\ inputBuffer.data \in Seq(Byte) /\ inputBuffer.capacity \in Nat
  BY DEF IInv, TypeInvariant
<1>3. h \in Seq(Byte)
  BY EmptyHeadersAssumption
<1>4. TypeInvariant'
  <2>1. wire' \in Seq(Byte)
    BY <1>1, <1>2, <1>3
  <2> QED
    BY <1>1, <1>2, <2>1 DEF IInv, TypeInvariant
<1>5. FlowInvariant'
  <2>1. PICK c, last :
          /\ Ends(written, c)
          /\ Flow(inputBuffer.data \o wire, written, c, Len(delivered), last, up, malformed)
    BY DEF IInv, FlowInvariant
  <2>2. PICK data \in Seq(Byte) : data = inputBuffer.data
    BY <1>2
  <2>3. PICK w \in Seq(Byte) : w = wire
    BY <1>2
  <2>4. PICK bytes \in Seq(Byte) : bytes = data \o w
    <3>1. data \o w \in Seq(Byte)
      OBVIOUS
    <3> QED
      BY <3>1
  <2>5. inputBuffer.data \o wire' = bytes \o h
    <3>1. (data \o w) \o h = data \o (w \o h)
      BY <1>3, JoinAssociative, SMTT(30)
    <3> QED
      BY <1>1, <2>2, <2>3, <2>4, <3>1
  <2>6. Flow(bytes, written, c, Len(delivered), last, up, malformed)
    BY <2>1, <2>2, <2>3, <2>4
  <2>7. Flow(bytes \o h, written, c, Len(delivered), last, up, malformed')
    <3>1. up = TRUE /\ malformed = FALSE
      BY <1>1 DEF IInv, TypeInvariant
    <3>2. Flow(bytes, written, c, Len(delivered), last, TRUE, FALSE)
      BY <2>6, <3>1
    <3>3. Flow(bytes \o h, written, c, Len(delivered), last, TRUE, TRUE)
      BY <1>2, <2>1, <3>2, MalformedFlow
    <3> QED
      BY <1>1, <3>1, <3>3
  <2> QED
    BY <1>1, <2>1, <2>5, <2>7 DEF FlowInvariant
<1> QED
  BY <1>1, <1>4, <1>5 DEF IInv, DeliveredAsWritten, BufferBounded

(***************************************************************************)
(* No more bytes arrive than one recv returns, or than are on the wire.    *)
(***************************************************************************)
LEMMA ReceivedBytes ==
  ASSUME NEW a \in Nat, NEW b \in Nat, NEW n \in 1..Min({a, b})
  PROVE  n \in Nat /\ n <= a /\ n <= b
<1>1. {a, b} \in SUBSET Nat /\ {a, b} # {}
  OBVIOUS
<1>2. \E m \in {a, b} : \A x \in {a, b} : m <= x
  BY <1>1, LeastNumber
<1>3. Min({a, b}) \in {a, b} /\ \A x \in {a, b} : Min({a, b}) <= x
  BY <1>2 DEF Min
<1>4. PICK m \in Nat : m = Min({a, b}) /\ m <= a /\ m <= b
  BY <1>3
<1> QED
  BY <1>4

(***************************************************************************)
(* Recv takes every complete packet out of what has arrived.               *)
(***************************************************************************)
LEMMA RecvStep ==
  ASSUME IInv, NEW n \in 1..Min({RecvBufSize, Len(wire)}), Recv(n)
  PROVE  IInv'
<1>1. /\ queue \in Seq(Packets) /\ written \in Seq(Packets) /\ delivered \in Seq(Packets)
      /\ sendPacket \in Seq(Byte) /\ wire \in Seq(Byte)
      /\ inputBuffer.data \in Seq(Byte) /\ inputBuffer.capacity \in Nat
  BY DEF IInv, TypeInvariant
<1>2. PICK data \in Seq(Byte) : data = inputBuffer.data
  BY <1>1
<1>3. PICK w \in Seq(Byte) : w = wire
  BY <1>1
<1>4. Len(data) \in Nat /\ Len(w) \in Nat /\ RecvBufSize \in Nat
  BY SizesAssumption
<1>5. n \in Nat /\ n <= RecvBufSize /\ n <= Len(w) /\ n \in 0..Len(w) /\ Len(w) \in n..Len(w)
  <2>1. n \in Nat /\ n <= RecvBufSize /\ n <= Len(w)
    BY <1>3, <1>4, ReceivedBytes
  <2> QED
    BY <1>4, <2>1
<1>6. PICK now \in Seq(Byte) : /\ now = SubSeq(w, 1, n) /\ Len(now) = n
                               /\ \A i \in 1..n : now[i] = w[i]
  BY <1>5, FrontFacts, ZenonT(40)
<1>7. PICK more \in Seq(Byte) : /\ more = SubSeq(w, n + 1, Len(w)) /\ Len(more) = Len(w) - n
                                /\ \A i \in 1..(Len(w) - n) : more[i] = w[n + i]
  <2>1. /\ SubSeq(w, n + 1, Len(w)) \in Seq(Byte) /\ Len(SubSeq(w, n + 1, Len(w))) = Len(w) - n
        /\ \A i \in 1..(Len(w) - n) : SubSeq(w, n + 1, Len(w))[i] = w[n + i]
    BY <1>5, PieceFacts
  <2> QED
    BY <2>1
<1>8. now \o more = w
  <2>1. PICK x : x = now \o more
    OBVIOUS
  <2>2. /\ x \in Seq(Byte) /\ Len(x) = Len(now) + Len(more)
        /\ \A k \in 1..(Len(now) + Len(more)) :
             x[k] = IF k <= Len(now) THEN now[k] ELSE more[k - Len(now)]
    BY <2>1, JoinFacts
  <2>3. Len(x) = Len(w)
    BY <1>4, <1>5, <1>6, <1>7, <2>2
  <2>4. ASSUME NEW k \in 1..Len(w) PROVE x[k] = w[k]
    <3>1. k \in 1..(Len(now) + Len(more))
      BY <1>4, <1>5, <1>6, <1>7
    <3>2. CASE k <= n
      <4>1. k \in 1..n
        BY <3>2
      <4> QED
        BY <1>6, <2>2, <3>1, <3>2, <4>1
    <3>3. CASE ~(k <= n)
      <4>1. k - n \in 1..(Len(w) - n) /\ n + (k - n) = k
        BY <1>4, <1>5, <3>3
      <4> QED
        BY <1>6, <1>7, <2>2, <3>1, <3>3, <4>1
    <3> QED
      BY <3>2, <3>3
  <2> QED
    BY <2>1, <2>2, <2>3, <2>4, SameElements
<1>9. PICK arrived \in Seq(Byte) : arrived = data \o now /\ Len(arrived) = Len(data) + n
  <2>1. data \o now \in Seq(Byte) /\ Len(data \o now) = Len(data) + Len(now)
    BY JoinFacts
  <2> QED
    BY <1>6, <2>1
<1>10. arrived \o more = data \o w
  <2>1. data \in Seq(Byte) /\ now \in Seq(Byte) /\ more \in Seq(Byte)
    BY <1>6, <1>7
  <2>2. (data \o now) \o more = data \o (now \o more)
    BY <2>1, JoinAssociative, SMTT(30)
  <2> QED
    BY <1>8, <1>9, <2>2
<1>11. PICK c, last :
         /\ Ends(written, c)
         /\ Flow(data \o w, written, c, Len(delivered), last, up, malformed)
  BY <1>2, <1>3 DEF IInv, FlowInvariant
<1>12. Flow(arrived \o more, written, c, Len(delivered), last, up, malformed)
  BY <1>10, <1>11
<1>13. PICK found, rest :
         /\ Extract(arrived) = [packets |-> found, rest |-> rest]
         /\ found \in Seq(Packets) /\ rest \in Seq(Byte) /\ ~HasPacket(rest)
         /\ Flow(rest \o more, written, c, Len(delivered) + Len(found), last, up, malformed)
         /\ \A k \in 1..Len(found) : found[k] = written[Len(delivered) + k]
  BY <1>1, <1>11, <1>12, ExtractFacts, SMTT(30)
<1>14. /\ wire' = more /\ inputBuffer'.data = rest
       /\ inputBuffer'.capacity = CapacityFor(inputBuffer.capacity, Len(arrived))
       /\ delivered' = delivered \o found
       /\ UNCHANGED <<queue, sendPacket, up, written, malformed>>
  <2>1. /\ wire' = SubSeq(w, n + 1, Len(w))
        /\ inputBuffer' = [data     |-> Extract(arrived).rest,
                           capacity |-> CapacityFor(inputBuffer.capacity, Len(arrived))]
        /\ delivered' = delivered \o Extract(arrived).packets
        /\ UNCHANGED <<queue, sendPacket, up, written, malformed>>
    BY <1>2, <1>3, <1>6, <1>9 DEF Recv, senderVars
  <2> QED
    BY <1>7, <1>13, <2>1
<1>15. TypeInvariant'
  <2>1. inputBuffer'.capacity \in Nat
    <3>1. Len(arrived) \in Nat
      OBVIOUS
    <3> QED
      BY <1>1, <1>14, <3>1 DEF CapacityFor
  <2>2. delivered' \in Seq(Packets)
    BY <1>1, <1>13, <1>14
  <2> QED
    BY <1>1, <1>13, <1>14, <2>1, <2>2 DEF IInv, TypeInvariant
<1>16. /\ Len(delivered') = Len(delivered) + Len(found) /\ Len(delivered) \in Nat /\ Len(found) \in Nat
       /\ \A k \in 1..(Len(delivered) + Len(found)) :
            delivered'[k] = IF k <= Len(delivered) THEN delivered[k] ELSE found[k - Len(delivered)]
  BY <1>1, <1>13, <1>14, JoinFacts
<1>17. FlowInvariant'
  BY <1>11, <1>13, <1>14, <1>16 DEF FlowInvariant
<1>18. DeliveredAsWritten'
  <2>1. ASSUME NEW k \in 1..Len(delivered') PROVE delivered'[k] = written[k]
    <3>1. k \in 1..(Len(delivered) + Len(found))
      BY <1>16
    <3>2. CASE k <= Len(delivered)
      <4>1. k \in 1..Len(delivered)
        BY <3>1, <3>2
      <4>2. delivered[k] = written[k]
        BY <4>1 DEF IInv, DeliveredAsWritten
      <4> QED
        BY <1>16, <3>1, <3>2, <4>2
    <3>3. CASE ~(k <= Len(delivered))
      <4>1. k - Len(delivered) \in 1..Len(found) /\ Len(delivered) + (k - Len(delivered)) = k
        BY <1>16, <3>1, <3>3
      <4> QED
        BY <1>13, <1>16, <3>1, <3>3, <4>1
    <3> QED
      BY <3>2, <3>3
  <2> QED
    BY <1>14, <2>1 DEF DeliveredAsWritten
<1>19. BufferBounded'
  <2> SUFFICES ASSUME ~malformed' PROVE inputBuffer'.capacity < LongestFrame + RecvBufSize
    BY DEF BufferBounded, LongestFrame
  <2>1. ~malformed
    BY <1>14
  <2>2. LongestFrame \in Nat
    BY LongestFacts
  <2>3. Len(data) < LongestFrame
    <3>1. ~HasPacket(data)
      BY <1>2 DEF IInv
    <3> QED
      BY <1>1, <1>11, <2>1, <3>1, WaitingIsShort
  <2>4. inputBuffer.capacity < LongestFrame + RecvBufSize
    BY <2>1 DEF IInv, BufferBounded
  <2>5. Len(arrived) < LongestFrame + RecvBufSize
    BY <1>4, <1>5, <1>9, <2>2, <2>3
  <2> QED
    BY <1>14, <2>4, <2>5 DEF CapacityFor
<1> QED
  BY <1>13, <1>14, <1>15, <1>17, <1>18, <1>19 DEF IInv
(***************************************************************************)
(* At the beginning nothing is under way.                                  *)
(***************************************************************************)
LEMMA InitInvariant ==
  ASSUME Init PROVE IInv
<1>1. /\ queue = <<>> /\ sendPacket = <<>> /\ up = TRUE /\ wire = <<>>
      /\ inputBuffer.data = <<>> /\ inputBuffer.capacity = 0
      /\ written = <<>> /\ delivered = <<>> /\ malformed = FALSE
  BY DEF Init
<1>2. TypeInvariant
  <2>1. <<>> \in Seq(Packets) /\ <<>> \in Seq(Byte)
    OBVIOUS
  <2>2. up \in BOOLEAN /\ malformed \in BOOLEAN
    BY <1>1
  <2>3. 0 \in Nat
    OBVIOUS
  <2> QED
    BY <1>1, <2>1, <2>2, <2>3, Zenon DEF TypeInvariant
<1>3. FlowInvariant
  <2>1. PICK packets \in Seq(Packets) : packets = written /\ Len(packets) = 0
    <3>1. <<>> \in Seq(Packets) /\ Len(<<>>) = 0
      OBVIOUS
    <3> QED
      BY <1>1, <3>1, Zenon
  <2>2. PICK bytes \in Seq(Byte) : bytes = inputBuffer.data \o wire /\ Len(bytes) = 0
    <3>1. inputBuffer.data \o wire \in Seq(Byte) /\ Len(inputBuffer.data \o wire) = 0
      BY <1>1
    <3> QED
      BY <3>1
  <2>3. PICK c : c = [i \in 0..0 |-> 0]
    OBVIOUS
  <2>4. 0 \in 0..0 /\ c[0] = 0 /\ c[0] - c[0] = 0
    BY <2>3
  <2>5. Ends(packets, c)
    BY <2>1, <2>3 DEF Ends
  <2>6. Behind(bytes, 0, up, malformed)
    BY <1>1, <2>2 DEF Behind
  <2>7. Flow(bytes, packets, c, 0, 0, up, malformed)
    <3>1. 0 \in 0..Len(packets) /\ 0 \in 0..0 /\ 0 = Len(packets) /\ (0 + 1)..0 = {}
      BY <2>1
    <3>2. c[0] - c[0] <= Len(bytes)
      BY <2>2, <2>4
    <3>3. Behind(bytes, c[0] - c[0], up, malformed)
      BY <2>4, <2>6
    <3> QED
      BY <3>1, <3>2, <3>3 DEF Flow
  <2>8. Len(delivered) = 0
    BY <1>1
  <2> QED
    BY <2>1, <2>2, <2>5, <2>7, <2>8 DEF FlowInvariant
<1>4. DeliveredAsWritten
  BY <1>1 DEF DeliveredAsWritten
<1>5. ~HasPacket(inputBuffer.data)
  BY <1>1, SizesAssumption DEF HasPacket
<1>6. BufferBounded
  <2>1. LongestFrame \in Nat \ {0} /\ RecvBufSize \in Nat
    BY LongestFacts, SizesAssumption
  <2> QED
    BY <1>1, <2>1 DEF BufferBounded
<1> QED
  BY <1>2, <1>3, <1>4, <1>5, <1>6 DEF IInv

(***************************************************************************)
(* Every step keeps the invariant.                                         *)
(***************************************************************************)
LEMMA NextInvariant ==
  ASSUME IInv, [Next]_vars PROVE IInv'
<1>1. ASSUME NEW p \in Packets, Send(p) PROVE IInv'
  BY <1>1, SendStep
<1>2. ASSUME NEW p \in Packets, NEW n \in SentBytes(p), SendImmediate(p, n) PROVE IInv'
  <2>1. queue' \in Seq(Packets)
    BY <1>2 DEF SendImmediate, IInv, TypeInvariant
  <2>2. up /\ SendPacket(p, n) /\ UNCHANGED <<inputBuffer, delivered, malformed>>
    BY <1>2 DEF SendImmediate
  <2> QED
    BY <2>1, <2>2, SendPacketStep
<1>3. ASSUME queue # <<>>, NEW n \in SentBytes(Head(queue)), Tick(n) PROVE IInv'
  <2>1. PICK p \in Packets : p = Head(queue)
    BY <1>3 DEF IInv, TypeInvariant
  <2>2. queue' \in Seq(Packets)
    BY <1>3 DEF Tick, IInv, TypeInvariant
  <2>3. /\ up /\ n \in SentBytes(p) /\ SendPacket(p, n)
        /\ UNCHANGED <<inputBuffer, delivered, malformed>>
    BY <1>3, <2>1 DEF Tick
  <2> QED
    BY <2>2, <2>3, SendPacketStep
<1>4. ASSUME NEW h \in EmptyHeaders, PeerSendsEmpty(h) PROVE IInv'
  BY <1>4, PeerSendsEmptyStep
<1>5. ASSUME NEW n \in 1..Min({RecvBufSize, Len(wire)}), Recv(n) PROVE IInv'
  BY <1>5, RecvStep
<1>6. CASE UNCHANGED vars
  BY <1>6 DEF vars, senderVars, IInv, TypeInvariant, FlowInvariant, DeliveredAsWritten, BufferBounded
<1> QED
  BY <1>1, <1>2, <1>3, <1>4, <1>5, <1>6 DEF Next, TickSome, RecvSome

(***************************************************************************)
(* In every state, the bytes under way are the frames of the packets that  *)
(* come next, and no complete packet waits in the buffer (EosOsc::Recv).   *)
(***************************************************************************)
THEOREM StreamInvariance == Spec => []IInv
<1>1. Init => IInv
  BY InitInvariant
<1>2. IInv /\ [Next]_vars => IInv'
  BY NextInvariant
<1> QED
  BY <1>1, <1>2, PTL DEF Spec

(***************************************************************************)
(* EosOsc delivers the packets that were sent, in their order, none        *)
(* invented, merged, cut or repeated, for headers and bytes of any size,   *)
(* any packets that fit, and any cuts of the stream.                       *)
(***************************************************************************)
THEOREM DeliveredInOrderAlways == Spec => []DeliveredInOrder
<1>1. ASSUME IInv PROVE DeliveredInOrder
  <2>1. PICK d, w \in Seq(Packets) : d = delivered /\ w = written
    BY <1>1 DEF IInv, TypeInvariant
  <2>2. Len(d) \in Nat /\ Len(w) \in Nat /\ Len(d) <= Len(w)
    BY <1>1, <2>1 DEF IInv, FlowInvariant, Flow
  <2>3. Len(d) \in 0..Len(d) /\ Len(d) \in 0..Len(w)
    BY <2>2
  <2>4. PICK x : x = SubSeq(d, 1, Len(d))
    OBVIOUS
  <2>5. PICK y : y = SubSeq(w, 1, Len(d))
    OBVIOUS
  <2>6. x \in Seq(Packets) /\ Len(x) = Len(d) /\ \A k \in 1..Len(d) : x[k] = d[k]
    BY <2>3, <2>4, FrontFacts
  <2>7. y \in Seq(Packets) /\ Len(y) = Len(d) /\ \A k \in 1..Len(d) : y[k] = w[k]
    BY <2>3, <2>5, FrontFacts
  <2>8. \A k \in 1..Len(d) : d[k] = w[k]
    BY <1>1, <2>1 DEF IInv, DeliveredAsWritten
  <2>9. x = y
    BY <2>6, <2>7, <2>8, SameElements
  <2> QED
    BY <2>1, <2>2, <2>4, <2>5, <2>9 DEF DeliveredInOrder, IsPrefix
<1> QED
  BY <1>1, StreamInvariance, PTL

(***************************************************************************)
(* When every byte has been received, every packet that was sent whole is  *)
(* delivered: Recv leaves none in its buffer.                              *)
(***************************************************************************)
THEOREM NothingHeldBackAlways == Spec => []NothingHeldBack
<1>1. ASSUME IInv, wire = <<>>, ~malformed PROVE delivered = written
  <2>1. /\ written \in Seq(Packets) /\ delivered \in Seq(Packets)
        /\ inputBuffer.data \in Seq(Byte) /\ wire \in Seq(Byte) /\ ~HasPacket(inputBuffer.data)
    BY <1>1 DEF IInv, TypeInvariant
  <2>2. PICK c, last :
          /\ Ends(written, c)
          /\ Flow(inputBuffer.data \o wire, written, c, Len(delivered), last, up, malformed)
    BY <1>1 DEF IInv, FlowInvariant
  <2>3. last = Len(written)
    BY <1>1, <2>2 DEF Flow
  <2>4. PICK data \in Seq(Byte) : data = inputBuffer.data
    BY <2>1
  <2>5. data \o wire = data
    BY <1>1
  <2>6. Len(delivered) = last
    <3> SUFFICES ASSUME Len(delivered) # last PROVE FALSE
      OBVIOUS
    <3>1. Flow(data \o wire, written, c, Len(delivered), last, up, malformed)
      BY <2>2, <2>4
    <3>2. /\ FrameSize(written[Len(delivered) + 1]) <= Len(data \o wire)
          /\ FrameSize(written[Len(delivered) + 1]) <= Len(data) => HasPacket(data)
      BY <2>1, <2>2, <3>1, FoundWhenWhole
    <3> QED
      BY <2>1, <2>4, <2>5, <3>2
  <2>7. \A k \in 1..Len(delivered) : delivered[k] = written[k]
    BY <1>1 DEF IInv, DeliveredAsWritten
  <2> QED
    BY <2>1, <2>3, <2>6, <2>7, SameElements
<1>2. IInv => NothingHeldBack
  BY <1>1 DEF NothingHeldBack
<1> QED
  BY <1>2, StreamInvariance, PTL

(***************************************************************************)
(* The input buffer never grows beyond a frame that lacks a byte and what  *)
(* one recv returns.                                                       *)
(***************************************************************************)
THEOREM BufferBoundedAlways == Spec => []BufferBounded
<1>1. IInv => BufferBounded
  BY DEF IInv
<1> QED
  BY <1>1, StreamInvariance, PTL
=============================================================================
