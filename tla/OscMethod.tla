----------------------------- MODULE OscMethod -----------------------------
(***************************************************************************)
(* What becomes of a packet: OSCParser takes bundles apart, and the tree   *)
(* of OSCMethods finds the method its path names.  A method is the         *)
(* sequence of the names it is registered under, the root is <<>>; a tree  *)
(* is a set of methods closed under prefixes.  The result is the sequence  *)
(* of calls of ExecuteMethod, which here returns TRUE as the base class    *)
(* does, and what ProcessPacket returns.                                   *)
(***************************************************************************)
EXTENDS OscPacketWriter

Root == <<>>

Call(method, last, buf) == [method |-> method, last |-> last, buf |-> buf]

\* Where the next method goes on: behind the separator that ends the name, or at the terminator.
NextBuf(buf, end) == From(buf, IF buf[end] = SEPARATOR /\ end < Len(buf) THEN end ELSE end - 1)

WithoutSeparator(buf) == IF buf # <<>> /\ Head(buf) = SEPARATOR THEN Tail(buf) ELSE buf

(***************************************************************************)
(* OSCMethod::ProcessPacket.  A method that has no method of the next name *)
(* is executed, told that the path goes on (last = FALSE), and then looks  *)
(* among its own methods for the name after that.                          *)
(***************************************************************************)
ProcessMessage(methods, packet) ==
  LET visit[at \in methods \X Seq(Byte)] ==
        LET method == at[1]
            buf    == WithoutSeparator(at[2])
            ends   == {i \in DOMAIN buf : buf[i] \in {0, SEPARATOR}}
            end    == Min(ends)
            name   == SubSeq(buf, 1, end - 1)
            last   == buf[end] = 0
            next   == NextBuf([buf EXCEPT ![end] = IF end = Len(buf) THEN 0 ELSE @], end)
        IN  IF ends = {} \/ name = <<>>
            THEN <<Call(method, TRUE, buf)>>
            ELSE IF Append(method, name) \in methods
            THEN visit[<<Append(method, name), next>>]
            ELSE IF last
            THEN <<Call(method, TRUE, buf)>>
            ELSE <<Call(method, FALSE, [buf EXCEPT ![end] = 0])>> \o visit[<<method, next>>]
  IN  visit[<<Root, packet>>]

----------------------------------------------------------------------------

IsBundle(buf) == Len(buf) >= Len(BundlePrefix) /\ UpTo(buf, Len(BundlePrefix)) = BundlePrefix

Handled(calls, ok) == [calls |-> calls, ok |-> ok]

\* Mutant of Both: returns when the first element has been processed.
OnlyFirst(one, other) == one

Both(one, other) == Handled(one.calls \o other.calls, one.ok /\ other.ok)

\* The condition of the loop of ProcessBundle.
MoreElements(buf) == Len(buf) >= 4

(***************************************************************************)
(* ProcessPacketPrivate and ProcessBundle: the elements of a bundle one    *)
(* after the other, bundles among them; one of a size that cannot be ends  *)
(* it.  A size is unsigned, so a negative one is too large.                *)
(***************************************************************************)
ProcessPacket(methods, packet) ==
  LET process[buf \in Seq(Byte)] ==
        LET elements[rest \in Seq(Byte)] ==
              LET bundleSize == Int32(rest)
                  element    == From(rest, 4)
                  later      == From(element, bundleSize)
              IN  IF bundleSize \notin 0..Len(element) THEN Handled(<<>>, FALSE)
                  ELSE Both(IF bundleSize = 0 THEN Handled(<<>>, TRUE) ELSE process[UpTo(element, bundleSize)],
                            IF MoreElements(later) THEN elements[later] ELSE Handled(<<>>, TRUE))
            body == From(buf, Len(BundlePrefix))
        IN  IF ~IsBundle(buf) THEN Handled(ProcessMessage(methods, buf), TRUE)
            ELSE IF Len(body) < 12 THEN Handled(<<>>, FALSE)
            ELSE elements[From(body, 8)]
  IN  process[packet]
=============================================================================
