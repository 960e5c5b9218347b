--------------------------- MODULE ShowMirrorProofs ---------------------------
(***************************************************************************)
(* The library implements ShowMirror: proofs about EosSync, for a console  *)
(* that does not split what it says of one target over several packets,    *)
(* whose targets have one part each, and a connection that Initialize      *)
(* leaves in progress.  With a connection made at once, or with targets of *)
(* several parts, the promise does not hold; with replies that are split   *)
(* the library is never synchronised.                                      *)
(*                                                                         *)
(* The invariant says that the packets on their way to the library are a   *)
(* chronicle: there is a sequence of views of the show, the first of them  *)
(* what the mirror has been told, the last the show itself, such that each *)
(* packet explains how one view becomes the next.  A reply is true of a    *)
(* view it does not change; a notification names whatever it changes.      *)
(***************************************************************************)
EXTENDS EosSyncProofs

CueLists == <<"CUELIST", 0>>

KeyOf(m) == <<m.type, m.listId>>

\* The target a reply is about, as the library reads its path.
TargetOf(m) == <<m.pathData.num, EffectivePart(m.type, m.pathData.part)>>

\* Like a show; but between the two announcements of a change to a cue list
\* there may be cues of a cue list that is not there.
View ==
  {s \in [ShowLists -> UNION {TargetsOfList(key) : key \in ShowLists}] :
     \A key \in ShowLists : s[key] \in TargetsOfList(key)}

(***************************************************************************)
(* A target shows c as far as it has been told anything; a list mirrors    *)
(* the list s[key] of a view if all it has is there and shows what is      *)
(* there, and the number of targets it waits for is right.                 *)
(***************************************************************************)
TargetShows(o, c) ==
  \A g \in DOMAIN o.groups : o.groups[g].initialized => Values(o.groups[g].props) = ContentArgs(c)

TargetMirrors(s, key, l, k) ==
  /\ k \in TargetKeys(s, key)
  /\ TargetShows(l.target[k], s[key][k])
  /\ l.uidLookup[s[key][k].uid] = k

ListMirrors(s, key, l) ==
  /\ \A k \in l.live : TargetMirrors(s, key, l, k)
  /\ l.internal = "COMPLETE" /\ ~l.complete => l.count = Cardinality(TargetKeys(s, key))

\* Once complete it has an entry for all there is.
Covers(s, key, l) == l.complete => \A k \in TargetKeys(s, key) : l.entry[k[1]] # "absent"

----------------------------------------------------------------------------
(* One target and its packets. *)

(***************************************************************************)
(* The targets of a view.                                                  *)
(***************************************************************************)
LEMMA ViewFacts ==
  ASSUME NEW s \in View, NEW key
  PROVE  /\ TargetKeys(s, key) \in SUBSET Key /\ IsFiniteSet(TargetKeys(s, key))
         /\ \A k \in TargetKeys(s, key) :
              /\ key \in ShowLists /\ k \in ShowTargets[key]
              /\ k = <<k[1], k[2]>> /\ k[1] \in Num \ {0} /\ k[2] \in Part /\ k[1] >= 1
              /\ ValidPart(key[1], k[2])
              /\ s[key][k] \in Contents /\ s[key][k] # NoContent /\ s[key][k].uid \in Uid
         /\ \A j, k \in TargetKeys(s, key) : s[key][j].uid = s[key][k].uid => j = k
<1>1. CASE key \notin ShowLists
  <2>1. TargetKeys(s, key) = {}
    BY <1>1 DEF TargetKeys
  <2> QED
    BY <2>1, FS_EmptySet
<1>2. CASE key \in ShowLists
  <2>1. TargetKeys(s, key) = {k \in ShowTargets[key] : s[key][k] # NoContent}
    BY <1>2 DEF TargetKeys
  <2>2. \A k \in ShowTargets[key] : k \in Key /\ k[1] >= 1 /\ ValidPart(key[1], k[2])
    BY <1>2, ShowTargetsAssumption
  <2>3. s[key] \in TargetsOfList(key)
    BY <1>2 DEF View
  <2>4. /\ s[key] \in [ShowTargets[key] -> Contents \cup {NoContent}]
        /\ \A j, k \in ShowTargets[key] :
             s[key][j] # NoContent /\ s[key][k] # NoContent /\ s[key][j].uid = s[key][k].uid => j = k
    BY <2>3 DEF TargetsOfList
  <2>5. TargetKeys(s, key) \in SUBSET Key
    BY <2>1, <2>2
  <2>6. IsFiniteSet(Key)
    BY NumAssumption, PartAssumption, FS_Product DEF Key
  <2>7. IsFiniteSet(TargetKeys(s, key))
    BY <2>5, <2>6, FS_Subset
  <2>8. ASSUME NEW k \in TargetKeys(s, key)
        PROVE  /\ k \in ShowTargets[key]
               /\ k = <<k[1], k[2]>> /\ k[1] \in Num \ {0} /\ k[2] \in Part /\ k[1] >= 1
               /\ ValidPart(key[1], k[2])
               /\ s[key][k] \in Contents /\ s[key][k] # NoContent /\ s[key][k].uid \in Uid
    <3>1. k \in ShowTargets[key] /\ s[key][k] # NoContent
      BY <2>1
    <3>2. k \in Key /\ k[1] >= 1 /\ ValidPart(key[1], k[2])
      BY <2>2, <3>1
    <3>3. s[key][k] \in Contents /\ s[key][k].uid \in Uid
      BY <2>4, <3>1, ContentsAssumption
    <3>4. k = <<k[1], k[2]>> /\ k[1] \in Num /\ k[2] \in Part
      BY <3>2, KeyFacts
    <3> QED
      BY <3>1, <3>2, <3>3, <3>4, NumAssumption
  <2> QED
    BY <1>2, <2>1, <2>4, <2>5, <2>7, <2>8
<1> QED
  BY <1>1, <1>2

(***************************************************************************)
(* What the console says of a target: never the empty UID, and no two      *)
(* contents the same.                                                      *)
(***************************************************************************)
LEMMA ContentFacts ==
  /\ \A c \in Contents : /\ ContentArgs(c) \in Seq(Val) /\ Len(ContentArgs(c)) = 3
                         /\ ContentArgs(c) # <<>>
                         /\ ContentArgs(c)[2] = c.uid /\ c.uid \in Uid /\ c.uid # Empty
  /\ \A b, c \in Contents : ContentArgs(b) = ContentArgs(c) => b = c
<1>1. \A c \in Contents : c = [uid |-> c.uid, label |-> c.label] /\ c.uid \in Val /\ c.label \in Val
                          /\ c.uid \in Uid /\ c.uid # Empty
  BY ContentsAssumption DEF Uid
<1>2. ASSUME NEW c \in Contents
      PROVE  /\ ContentArgs(c) \in Seq(Val) /\ Len(ContentArgs(c)) = 3 /\ ContentArgs(c) # <<>>
             /\ ContentArgs(c)[2] = c.uid
  BY <1>1, EmptyAssumption DEF ContentArgs
<1>3. ASSUME NEW b \in Contents, NEW c \in Contents, ContentArgs(b) = ContentArgs(c) PROVE b = c
  <2>1. b.uid = c.uid /\ b.label = c.label
    BY <1>3 DEF ContentArgs
  <2> QED
    BY <1>1, <2>1
<1> QED
  BY <1>1, <1>2, <1>3

(***************************************************************************)
(* The properties of a group after one packet with all of them are those   *)
(* of the packet, whatever they were.                                      *)
(***************************************************************************)
LEMMA StoreArgsAll ==
  ASSUME NEW props \in Seq(Property), NEW args \in Seq(Val), Len(args) = 3,
         NEW pathData, pathData.isList = FALSE
  PROVE  Values(StoreArgs(props, args, pathData)) = args
<1> DEFINE sized == Resized(props, 3)
           stored == StoreArgs(props, args, pathData)
<1>1. Len(sized) = 3
  BY DEF Resized
<1>3. stored = [j \in 1..Len(sized) |->
                  IF j <= Len(args) THEN [initialized |-> TRUE, value |-> args[j]] ELSE sized[j]]
  BY DEF StoreArgs
<1> HIDE DEF sized, stored
<1>4. stored = [j \in 1..3 |-> [initialized |-> TRUE, value |-> args[j]]]
  BY <1>1, <1>3
<1>5. Values(stored) = [j \in 1..3 |-> args[j]]
  BY <1>4 DEF Values
<1>6. args = [j \in 1..3 |-> args[j]]
  OBVIOUS
<1> QED
  BY <1>5, <1>6 DEF stored

(***************************************************************************)
(* A target goes on showing c when it is told about c.                     *)
(***************************************************************************)
LEMMA TargetRecvShows ==
  ASSUME NEW type, NEW o \in Target(type), NEW c \in Contents, TargetShows(o, c),
         NEW pathData, pathData.isList = FALSE
  PROVE  TargetShows(TargetRecv(o, ContentArgs(c), pathData), c)
<1> DEFINE args == ContentArgs(c)
           r == TargetRecv(o, args, pathData)
           g == pathData.group
           stored == [initialized |-> TRUE, props |-> StoreArgs(o.groups[g].props, args, pathData)]
<1>1. args \in Seq(Val) /\ Len(args) = 3
  BY ContentFacts
<1>2. CASE o.status.value = "COMPLETE" \/ g \notin DOMAIN o.groups
  <2>1. r.groups = o.groups
    BY <1>2 DEF TargetRecv, Target
  <2> QED
    BY <2>1 DEF TargetShows
<1>3. CASE o.status.value # "COMPLETE" /\ g \in DOMAIN o.groups
  <2>1. r.groups = [o.groups EXCEPT ![g] = stored]
    BY <1>3 DEF TargetRecv
  <2>2. o.groups \in [PropGroups(type) -> PropertyGroup]
    BY DEF Target
  <2>3. o.groups[g].props \in Seq(Property)
    BY <1>3, <2>2 DEF PropertyGroup
  <2>4. Values(stored.props) = args
    <3> HIDE DEF args
    <3> QED
      BY <1>1, <2>3, StoreArgsAll
  <2>5. DOMAIN r.groups = DOMAIN o.groups
        /\ \A h \in DOMAIN r.groups : r.groups[h] = IF h = g THEN stored ELSE o.groups[h]
    <3> HIDE DEF stored
    <3> QED
      BY <1>3, <2>1, <2>2
  <2> HIDE DEF stored, r
  <2>6. TargetShows(r, c)
    BY <2>4, <2>5 DEF TargetShows
  <2> QED
    BY <2>6 DEF r
<1> QED
  BY <1>2, <1>3

(***************************************************************************)
(* A target that has been told nothing shows anything.                     *)
(***************************************************************************)
LEMMA NewTargetShows == ASSUME NEW type, NEW c PROVE TargetShows(NewTarget(type), c)
  BY DEF TargetShows, NewTarget

----------------------------------------------------------------------------
(* One list and its packets. *)

\* From l to m no target and no number changes, but for its own state.
SameEntries(l, m) ==
  /\ m.live = l.live /\ m.target = l.target /\ m.uidLookup = l.uidLookup
  /\ \A n \in Num : m.entry[n] = "absent" <=> l.entry[n] = "absent"

(***************************************************************************)
(* A list goes on mirroring the view when no target of it and no number    *)
(* changes, as when only its status or its flags do.                       *)
(***************************************************************************)
LEMMA SameEntriesMirror ==
  ASSUME NEW s \in View, NEW key, NEW l, NEW m, SameEntries(l, m)
  PROVE  /\ (\A k \in l.live : TargetMirrors(s, key, l, k)) => \A k \in m.live : TargetMirrors(s, key, m, k)
         /\ Covers(s, key, l) /\ (m.complete => l.complete) => Covers(s, key, m)
<1>1. \A k \in TargetKeys(s, key) : k[1] \in Num
  BY ViewFacts
<1> QED
  BY <1>1 DEF SameEntries, TargetMirrors, Covers

(***************************************************************************)
(* Tick: a list becomes complete when it has every target there is.        *)
(***************************************************************************)
LEMMA TickListMirrors ==
  ASSUME NEW s \in View, NEW key, NEW l, GoodList(l), ListMirrors(s, key, l)
  PROVE  LET m == TickList(l)
         IN  /\ ListMirrors(s, key, m) /\ SameEntries(l, m)
             /\ Covers(s, key, l) => Covers(s, key, m)
             /\ m.internal = "COMPLETE" <=> l.internal = "COMPLETE"
             /\ l.complete => m.complete
             /\ m.complete /\ ~l.complete =>
                  l.internal = "COMPLETE" /\ m.live = TargetKeys(s, key) /\ Covers(s, key, m)
<1> DEFINE m == TickList(l)
           here == TargetKeys(s, key)
<1>1. /\ l \in ListOf(l.type, l.listId) /\ l.entry \in [Num -> EntryState] /\ l.live \in SUBSET Key
      /\ l.internal \in InternalState /\ l.count \in Nat /\ l.complete \in BOOLEAN
  BY ListFields DEF GoodList, TypeGood
<1>2. /\ \A k \in l.live : TargetMirrors(s, key, l, k)
      /\ l.internal = "COMPLETE" /\ ~l.complete => l.count = Cardinality(here)
  BY DEF ListMirrors
<1>3. SameEntries(l, l)
  BY DEF SameEntries
<1>4. CASE m = l
  <2> HIDE DEF m
  <2> QED
    BY <1>3, <1>4 DEF m
<1>5. CASE l.internal = "UNINITIALIZED"
  <2>1. m = [l EXCEPT !.internal = "RUNNING"]
    BY <1>5 DEF TickList, CanRequest
  <2>2. /\ SameEntries(l, m) /\ m.internal = "RUNNING" /\ m.complete = l.complete
    BY <1>1, <2>1 DEF ListOf, SameEntries
  <2> HIDE DEF m
  <2>3. ListMirrors(s, key, m)
    BY <1>2, <2>2, SameEntriesMirror DEF ListMirrors
  <2> QED
    BY <1>5, <2>2, <2>3, SameEntriesMirror DEF m
<1>6. CASE l.internal = "COMPLETE" /\ m = RequestPlaceholders(l)
  <2>1. /\ SameEntries(l, m) /\ m.internal = l.internal /\ m.complete = l.complete /\ m.count = l.count
    BY <1>1, <1>6 DEF ListOf, SameEntries, RequestPlaceholders
  <2> HIDE DEF m
  <2>2. ListMirrors(s, key, m)
    BY <1>2, <2>1, SameEntriesMirror DEF ListMirrors
  <2> QED
    BY <2>1, <2>2, SameEntriesMirror DEF m
<1>7. CASE /\ l.internal = "COMPLETE" /\ (l.complete \/ l.numTargets >= l.count)
           /\ m = [l EXCEPT !.complete = TRUE, !.status = SetValue(@, "COMPLETE")]
  <2>1. /\ SameEntries(l, m) /\ m.internal = l.internal /\ m.complete = TRUE
        /\ m.entry = l.entry
    BY <1>1, <1>7 DEF ListOf, SameEntries
  <2> HIDE DEF m
  <2>2. ListMirrors(s, key, m)
    BY <1>2, <2>1, SameEntriesMirror DEF ListMirrors
  <2>3. ASSUME ~l.complete PROVE m.live = here
    <3>1. /\ l.live \subseteq here /\ IsFiniteSet(here) /\ Cardinality(here) \in Nat
      BY <1>2, ViewFacts, FS_CardinalityType DEF TargetMirrors
    <3>2. l.numTargets = Cardinality(l.live) /\ l.numTargets >= l.count /\ l.count = Cardinality(here)
      BY <1>2, <1>7, <2>3 DEF GoodList, CountGood
    <3>3. Cardinality(l.live) <= Cardinality(here)
          /\ (Cardinality(l.live) = Cardinality(here) => l.live = here)
      BY <3>1, FS_Subset
    <3>4. Cardinality(l.live) \in Nat
      BY <3>1, FS_Subset, FS_CardinalityType
    <3> QED
      BY <2>1, <3>1, <3>2, <3>3, <3>4 DEF SameEntries
  <2>4. ASSUME ~l.complete PROVE Covers(s, key, m)
    <3>1. \A k \in l.live : l.entry[k[1]] = "initialized"
      BY DEF GoodList, TargetsGood
    <3> QED
      BY <2>1, <2>3, <2>4, <3>1 DEF Covers, SameEntries
  <2> QED
    BY <1>7, <2>1, <2>2, <2>3, <2>4, SameEntriesMirror DEF m
<1>8. \/ m = l \/ l.internal = "UNINITIALIZED"
      \/ l.internal = "COMPLETE" /\ m = RequestPlaceholders(l)
      \/ /\ l.internal = "COMPLETE" /\ (l.complete \/ l.numTargets >= l.count)
         /\ m = [l EXCEPT !.complete = TRUE, !.status = SetValue(@, "COMPLETE")]
  BY DEF TickList, CanRequest
<1> QED
  BY <1>4, <1>5, <1>6, <1>7, <1>8

(***************************************************************************)
(* Lists that have just been made, and lists that start over.              *)
(***************************************************************************)
LEMMA FreshLists ==
  /\ \A type, listId, s, key :
       LET new == NewList(type, listId)
       IN  /\ ListMirrors(s, key, new) /\ ~new.complete /\ new.internal = "UNINITIALIZED"
           /\ Covers(s, key, new)
  /\ \A l, s, key :
       LET new == ClearList(l)
       IN  /\ ListMirrors(s, key, new) /\ ~new.complete /\ new.internal = "UNINITIALIZED"
           /\ Covers(s, key, new) /\ new.status.value = "UNINITIALIZED"
  /\ \A type, listId, s, key :
       LET dummy == InitializeAsDummy(NewList(type, listId))
       IN  /\ ListMirrors(s, key, dummy) /\ dummy.complete /\ dummy.internal = "COMPLETE"
           /\ TargetKeys(s, key) = {} => Covers(s, key, dummy)
<1>1. \A type, listId, s, key :
        LET new == NewList(type, listId)
        IN  /\ ListMirrors(s, key, new) /\ ~new.complete /\ new.internal = "UNINITIALIZED"
            /\ Covers(s, key, new)
  BY DEF ListMirrors, Covers, NewList
<1>2. \A l : /\ ClearList(l).live = {} /\ ~ClearList(l).complete
             /\ ClearList(l).internal = "UNINITIALIZED" /\ ClearList(l).status.value = "UNINITIALIZED"
  BY DEF ClearList, NewList, SetValue
<1>3. \A type, listId :
        LET dummy == InitializeAsDummy(NewList(type, listId))
        IN  dummy.live = {} /\ dummy.complete /\ dummy.internal = "COMPLETE"
  BY DEF InitializeAsDummy, ClearList, NewList
<1> QED
  BY <1>1, <1>2, <1>3 DEF ListMirrors, Covers

(***************************************************************************)
(* The number of targets arrives, while it is true.                        *)
(***************************************************************************)
LEMMA RecvCountMirrors ==
  ASSUME NEW s \in View, NEW key, NEW l, GoodList(l), ListMirrors(s, key, l), NEW args,
         args = <<Cardinality(TargetKeys(s, key))>>
  PROVE  LET m == RecvCount(l, args)
         IN  /\ ListMirrors(s, key, m) /\ SameEntries(l, m) /\ m.complete = l.complete
             /\ l.internal = "COMPLETE" => m = l
<1> DEFINE m == RecvCount(l, args)
<1>1. /\ l \in ListOf(l.type, l.listId) /\ Cardinality(TargetKeys(s, key)) \in Nat
      /\ \A k \in l.live : TargetMirrors(s, key, l, k)
  BY ViewFacts, FS_CardinalityType DEF GoodList, TypeGood, ListMirrors
<1>2. CASE l.internal # "RUNNING"
  <2>1. m = l
    BY <1>2 DEF RecvCount, AwaitsCount
  <2> HIDE DEF m
  <2> QED
    BY <2>1 DEF SameEntries, m
<1>3. CASE l.internal = "RUNNING"
  <2>1. m = [l EXCEPT !.count = Cardinality(TargetKeys(s, key)), !.internal = "COMPLETE",
                      !.status = SetValue(@, "RUNNING")]
    BY <1>1, <1>3 DEF RecvCount, AwaitsCount, ReceivedCount
  <2>2. /\ SameEntries(l, m) /\ m.complete = l.complete
        /\ m.count = Cardinality(TargetKeys(s, key))
    BY <1>1, <2>1 DEF ListOf, SameEntries
  <2> HIDE DEF m
  <2>3. ListMirrors(s, key, m)
    BY <1>1, <2>2, SameEntriesMirror DEF ListMirrors
  <2> QED
    BY <1>3, <2>2, <2>3 DEF m
<1> QED
  BY <1>2, <1>3

\* From l to m the list goes on mirroring the same view.
GoesOn(s, key, l, m) ==
  /\ ListMirrors(s, key, m)
  /\ Covers(s, key, l) => Covers(s, key, m)
  /\ m.internal = l.internal /\ m.complete = l.complete

(***************************************************************************)
(* What is there arrives: the target is added, if it is not there yet, or  *)
(* goes on.  Only the packet of the base group can add it, which has its   *)
(* UID.                                                                    *)
(***************************************************************************)
LEMMA AddOrUpdateMirrors ==
  ASSUME NEW s \in View, NEW key, NEW l, GoodList(l), l.type = key[1], ListMirrors(s, key, l),
         l.internal = "COMPLETE", NEW k \in TargetKeys(s, key), NEW pathData,
         pathData.isList = FALSE, k \in l.live \/ pathData.group = General,
         NEW m, m = AddOrUpdateTarget(l, k, ContentArgs(s[key][k]), pathData)
  PROVE  GoesOn(s, key, l, m) /\ k \in m.live
<1> DEFINE c        == s[key][k]
           args     == ContentArgs(c)
           uid      == ReceivedUid(args, pathData)
           added    == k \notin l.live
           received == TargetRecv(l.target[k], args, pathData)
           status   == UpdateFromChild(IF added THEN SetDirty(l.status) ELSE l.status, received.status)
           lookup   == IF added /\ uid # Empty THEN [l.uidLookup EXCEPT ![uid] = k]
                       ELSE l.uidLookup
           number   == IF added THEN l.numTargets + 1 ELSE l.numTargets
<1>1. /\ l \in ListOf(l.type, l.listId) /\ l.live \in SUBSET Key
      /\ l.target \in [Key -> Target(l.type)] /\ l.entry \in [Num -> EntryState]
      /\ l.uidLookup \in [Uid -> Key \cup {NoTarget}]
  BY ListFields DEF GoodList, TypeGood
<1>2. /\ k \in Key /\ k[1] \in Num /\ c \in Contents /\ c.uid \in Uid
      /\ \A j \in TargetKeys(s, key) : j \in Key /\ j[1] \in Num /\ s[key][j].uid \in Uid
                                       /\ (s[key][j].uid = c.uid => j = k)
  BY ViewFacts
<1>3. Len(args) = 3 /\ args[2] = c.uid /\ c.uid # Empty
  BY <1>2, ContentFacts
<1>4. pathData.group = General => uid = c.uid /\ uid \in Uid /\ uid # Empty
  BY <1>2, <1>3 DEF ReceivedUid
<1>5. TargetShows(l.target[k], c)
  <2>1. CASE k \in l.live
    BY <2>1 DEF ListMirrors, TargetMirrors
  <2>2. CASE k \notin l.live
    <3>1. l.target[k] = NewTarget(l.type)
      BY <1>2, <2>2 DEF GoodList, TargetsGood
    <3> QED
      BY <3>1, NewTargetShows
  <2> QED
    BY <2>1, <2>2
<1>6. TargetShows(received, c)
  <2>1. l.target[k] \in Target(l.type)
    BY <1>1, <1>2
  <2> QED
    BY <1>2, <1>5, <2>1, TargetRecvShows
<1>7. m = [l EXCEPT !.entry[k[1]] = "initialized", !.live = l.live \cup {k},
                    !.target[k] = received, !.numTargets = number,
                    !.uidLookup = lookup, !.status = status]
  BY DEF AddOrUpdateTarget
<1>8. \A w \in Uid : lookup[w] = IF added /\ w = uid /\ uid # Empty THEN k ELSE l.uidLookup[w]
  BY <1>1, <1>4
<1>9. added => pathData.group = General
  OBVIOUS
<1> HIDE DEF uid, received, status, lookup, number
<1>10. /\ m.live = l.live \cup {k} /\ m.internal = l.internal /\ m.complete = l.complete
       /\ m.uidLookup = lookup /\ m.count = l.count
       /\ \A n \in Num : m.entry[n] = IF n = k[1] THEN "initialized" ELSE l.entry[n]
       /\ \A j \in Key : m.target[j] = IF j = k THEN received ELSE l.target[j]
  BY <1>1, <1>2, <1>7 DEF ListOf
<1>11. ASSUME NEW j \in m.live PROVE TargetMirrors(s, key, m, j)
  <2>1. CASE j = k
    <3>1. lookup[c.uid] = k
      <4>1. CASE added
        BY <1>2, <1>4, <1>8, <1>9, <4>1
      <4>2. CASE ~added
        BY <1>2, <1>8, <4>2 DEF ListMirrors, TargetMirrors
      <4> QED
        BY <4>1, <4>2
    <3> QED
      BY <1>2, <1>6, <1>10, <2>1, <3>1 DEF TargetMirrors
  <2>2. CASE j # k
    <3>1. j \in l.live /\ TargetMirrors(s, key, l, j)
      BY <1>10, <2>2 DEF ListMirrors
    <3>2. /\ j \in Key /\ s[key][j].uid \in Uid /\ s[key][j].uid # c.uid
          /\ l.uidLookup[s[key][j].uid] = j
      BY <1>2, <2>2, <3>1 DEF TargetMirrors
    <3>3. lookup[s[key][j].uid] = j
      BY <1>4, <1>8, <1>9, <3>2
    <3> QED
      BY <1>10, <2>2, <3>1, <3>2, <3>3 DEF TargetMirrors
  <2> QED
    BY <2>1, <2>2
<1>12. ListMirrors(s, key, m)
  BY <1>10, <1>11 DEF ListMirrors
<1>13. Covers(s, key, l) => Covers(s, key, m)
  BY <1>2, <1>10 DEF Covers
<1> QED
  BY <1>10, <1>12, <1>13 DEF GoesOn

\* A reply about a target is true of the view s.
TargetIsOf(cmd, s) ==
  \/ /\ TargetOf(cmd) \in TargetKeys(s, KeyOf(cmd)) /\ cmd.pathData.group \in PropGroups(cmd.type)
     /\ cmd.args = ContentArgs(s[KeyOf(cmd)][TargetOf(cmd)])
  \/ /\ \A k \in TargetKeys(s, KeyOf(cmd)) : k[1] # cmd.pathData.num
     /\ cmd.args = <<>> /\ cmd.pathData.group = General

(***************************************************************************)
(* What is true of the view is received: the list goes on mirroring it,    *)
(* whether the packet adds a target, goes on with one, or says that there  *)
(* is none of this number.                                                 *)
(***************************************************************************)
LEMMA RecvTargetMirrors ==
  ASSUME NEW s \in View, NEW key, NEW l, GoodList(l), l.type = key[1], ListMirrors(s, key, l),
         NEW cmd, cmd.type = key[1], KeyOf(cmd) = key, TargetIsOf(cmd, s),
         cmd.pathData.isList = FALSE, cmd.pathData.num \in Num \ {0}, cmd.pathData.part \in Part,
         cmd.pathData.group # General /\ l.internal = "COMPLETE" => TargetOf(cmd) \in l.live
  PROVE  LET m == RecvTarget(l, cmd.args, cmd.pathData)
         IN  /\ GoesOn(s, key, l, m)
             /\ l.internal = "COMPLETE" /\ cmd.args # <<>> => TargetOf(cmd) \in m.live
<1> DEFINE m == RecvTarget(l, cmd.args, cmd.pathData)
           k == TargetOf(cmd)
<1>1. CASE l.internal # "COMPLETE"
  <2>1. m = l
    BY <1>1 DEF RecvTarget
  <2> HIDE DEF m
  <2> QED
    BY <1>1, <2>1 DEF GoesOn, m
<1>2. CASE l.internal = "COMPLETE" /\ cmd.args # <<>>
  <2>1. /\ k \in TargetKeys(s, key) /\ cmd.args = ContentArgs(s[key][k])
    BY <1>2 DEF TargetIsOf
  <2>2. ValidPart(l.type, cmd.pathData.part) /\ cmd.pathData.num >= 1
    <3>1. ValidPart(key[1], k[2]) /\ k[1] >= 1
      BY <2>1, ViewFacts
    <3>2. k[1] = cmd.pathData.num /\ k[2] = EffectivePart(l.type, cmd.pathData.part)
      BY DEF TargetOf
    <3> HIDE DEF k
    <3> QED
      BY <3>1, <3>2 DEF ValidPart, EffectivePart
  <2>3. cmd.pathData.group = General => ReceivedUid(cmd.args, cmd.pathData) # Empty
    <3>1. s[key][k] \in Contents
      BY <2>1, ViewFacts
    <3> HIDE DEF k
    <3>2. Len(cmd.args) = 3 /\ cmd.args[2] # Empty
      BY <2>1, <3>1, ContentFacts
    <3> QED
      BY <3>2 DEF ReceivedUid
  <2>4. m = AddOrUpdateTarget(l, k, cmd.args, cmd.pathData)
    BY <1>2, <2>2, <2>3 DEF RecvTarget, ProcessReceivedTarget, TargetOf
  <2> HIDE DEF m, k
  <2>5. PICK pathData : pathData = cmd.pathData
    OBVIOUS
  <2>6. pathData.isList = FALSE /\ (k \in l.live \/ pathData.group = General)
    BY <1>2, <2>5 DEF k
  <2>7. m = AddOrUpdateTarget(l, k, ContentArgs(s[key][k]), pathData)
    BY <2>1, <2>4, <2>5
  <2>8. GoesOn(s, key, l, m) /\ k \in m.live
    BY <1>2, <2>1, <2>6, <2>7, AddOrUpdateMirrors
  <2> QED
    BY <1>2, <2>8 DEF m, k
<1>3. CASE l.internal = "COMPLETE" /\ cmd.args = <<>>
  <2>1. /\ \A j \in TargetKeys(s, key) : j[1] # cmd.pathData.num
        /\ cmd.pathData.group = General
    <3>1. \A c \in Contents : ContentArgs(c) # <<>>
      BY ContentFacts
    <3>2. \A j \in TargetKeys(s, key) : s[key][j] \in Contents
      BY ViewFacts
    <3> QED
      BY <1>3, <3>1, <3>2 DEF TargetIsOf
  <2>2. ReceivedUid(cmd.args, cmd.pathData) = Empty
    <3>1. ~(Len(<<>>) > 1)
      OBVIOUS
    <3> QED
      BY <1>3, <3>1 DEF ReceivedUid
  <2>3. m = l \/ m = RemoveTarget(l, k)
    BY <2>1, <2>2 DEF RecvTarget, ProcessReceivedTarget, TargetOf
  <2>4. k[1] = cmd.pathData.num /\ \A j \in l.live : j[1] # cmd.pathData.num
    BY <2>1 DEF ListMirrors, TargetMirrors, TargetOf
  <2>5. k \notin l.live
    BY <2>4
  <2>6. CASE m = RemoveTarget(l, k)
    <3>1. m = l \/ m = [l EXCEPT !.entry[k[1]] = "absent"]
      BY <2>5, <2>6 DEF RemoveTarget
    <3>2. l \in ListOf(l.type, l.listId) /\ l.entry \in [Num -> EntryState] /\ k[1] \in Num
      BY <2>4, ListFields DEF GoodList, TypeGood
    <3> HIDE DEF k, m
    <3>3. /\ m.live = l.live /\ m.internal = l.internal /\ m.complete = l.complete
          /\ m.uidLookup = l.uidLookup /\ m.count = l.count /\ m.target = l.target
          /\ \A n \in Num : m.entry[n] = l.entry[n] \/ n = cmd.pathData.num
      BY <2>4, <3>1, <3>2 DEF ListOf
    <3>4. ListMirrors(s, key, m)
      BY <3>3 DEF ListMirrors, TargetMirrors
    <3>5. Covers(s, key, l) => Covers(s, key, m)
      <4>1. \A j \in TargetKeys(s, key) : j[1] \in Num
        BY ViewFacts
      <4> QED
        BY <2>1, <3>3, <4>1 DEF Covers
    <3> QED
      BY <1>3, <3>3, <3>4, <3>5 DEF GoesOn, m
  <2>7. CASE m = l
    <3> HIDE DEF m
    <3> QED
      BY <1>3, <2>7 DEF GoesOn, m
  <2> QED
    BY <2>3, <2>6, <2>7
<1> QED
  BY <1>1, <1>2, <1>3

\* From s to t only the targets of these numbers of the list change.
ChangesOnly(s, t, key, nums) ==
  /\ \A j \in ShowLists \ {key} : t[j] = s[j]
  /\ \A k \in ShowTargets[key] : k[1] \notin nums => t[key][k] = s[key][k]

AfterNotice(l, cmd) == NotifyList(l, cmd.nums, cmd.hasArgs, FALSE)

\* What becomes of a list that mirrored s.
Notified(s, t, key, l, cmd, m) ==
  /\ ListMirrors(t, key, m)
  /\ Covers(s, key, l) => Covers(t, key, m)
  /\ m.status.value # "COMPLETE"
  /\ m.complete => l.complete /\ cmd.hasArgs
  /\ m.internal = "COMPLETE" => m.complete
  /\ m.complete => \A n \in Num : IF n \in cmd.nums THEN m.entry[n] # "absent" /\ LivePartsOf(m, n) = {}
                                  ELSE m.entry[n] = l.entry[n]

(***************************************************************************)
(* A notification that names whatever changes: the list forgets just that, *)
(* and mirrors the view after the change.                                  *)
(***************************************************************************)
LEMMA NotifyListMirrors ==
  ASSUME NEW s \in View, NEW t \in View, NEW key \in ShowLists, NEW l, GoodList(l),
         ListMirrors(s, key, l), NEW cmd, cmd.nums \in SUBSET Num,
         cmd.hasArgs => cmd.nums # {},
         ChangesOnly(s, t, key, IF cmd.hasArgs THEN cmd.nums ELSE Num),
         NEW m, m = AfterNotice(l, cmd)
  PROVE  Notified(s, t, key, l, cmd, m)
<1>1. CASE ~l.complete \/ ~cmd.hasArgs
  <2>1. m = ClearList(l)
    BY <1>1 DEF AfterNotice, NotifyList
  <2> QED
    BY <2>1, FreshLists DEF Notified
<1>2. CASE l.complete /\ cmd.hasArgs
  <2> DEFINE dead == {k \in l.live : k[1] \in cmd.nums}
             d    == DeleteTargets(l, dead)
  <2>1. m = [d EXCEPT !.entry = [n \in Num |-> IF n \in cmd.nums THEN "uninitialized" ELSE d.entry[n]],
                      !.status = SetValue(d.status, "RUNNING")]
    BY <1>2 DEF AfterNotice, NotifyList, InvalidateTargets
  <2>2. /\ l \in ListOf(l.type, l.listId) /\ l.entry \in [Num -> EntryState] /\ l.live \in SUBSET Key
        /\ l.uidLookup \in [Uid -> Key \cup {NoTarget}] /\ l.target \in [Key -> Target(l.type)]
    BY ListFields DEF GoodList, TypeGood
  <2>3. /\ d \in ListOf(d.type, d.listId) /\ d.type = l.type /\ d.entry = l.entry
        /\ d.live = l.live \ dead /\ d.complete = l.complete /\ d.internal = l.internal
        /\ \A k \in Key : k \notin dead => d.target[k] = l.target[k]
        /\ \A w \in Uid : l.uidLookup[w] \notin dead => d.uidLookup[w] = l.uidLookup[w]
    <3>1. dead \subseteq l.live
      OBVIOUS
    <3> HIDE DEF dead
    <3>2. /\ TypeGood(d) /\ d.type = l.type /\ d.entry = l.entry
          /\ d.live = l.live \ dead /\ d.complete = l.complete /\ d.internal = l.internal
          /\ \A k \in Key : k \notin dead => d.target[k] = l.target[k]
      BY <3>1, DeleteTargetsFacts
    <3>3. d.uidLookup = [w \in Uid |-> IF l.uidLookup[w] \in dead THEN NoTarget ELSE l.uidLookup[w]]
      BY <2>2 DEF DeleteTargets, ListOf
    <3> HIDE DEF d
    <3> QED
      BY <3>2, <3>3 DEF TypeGood
  <2> HIDE DEF d
  <2>4. /\ m.live = l.live \ dead /\ m.complete = l.complete
        /\ m.uidLookup = d.uidLookup /\ m.target = d.target
        /\ \A n \in Num : m.entry[n] = IF n \in cmd.nums THEN "uninitialized" ELSE l.entry[n]
        /\ m.status = SetValue(d.status, "RUNNING")
    BY <2>1, <2>3 DEF ListOf
  <2>5. m.status.value = "RUNNING"
    BY <2>4 DEF SetValue
  <2>6. \A k \in ShowTargets[key] : k[1] \notin cmd.nums => t[key][k] = s[key][k]
    BY <1>2 DEF ChangesOnly
  <2>7. \A k \in Key : k[1] \notin cmd.nums =>
          /\ k \in TargetKeys(s, key) <=> k \in TargetKeys(t, key)
          /\ k \in TargetKeys(s, key) => t[key][k] = s[key][k]
    BY <2>6 DEF TargetKeys
  <2>8. ASSUME NEW k \in m.live PROVE TargetMirrors(t, key, m, k)
    <3>1. k \in l.live /\ k \notin dead /\ k \in Key /\ k[1] \notin cmd.nums
      BY <2>2, <2>4
    <3>2. TargetMirrors(s, key, l, k)
      BY <3>1 DEF ListMirrors
    <3>3. s[key][k].uid \in Uid
      BY <3>2, ViewFacts DEF TargetMirrors
    <3> QED
      BY <2>3, <2>4, <2>7, <3>1, <3>2, <3>3 DEF TargetMirrors
  <2>9. ListMirrors(t, key, m)
    BY <1>2, <2>4, <2>8 DEF ListMirrors
  <2>10. Covers(s, key, l) => Covers(t, key, m)
    <3>1. \A k \in TargetKeys(t, key) : k \in Key /\ k[1] \in Num
      BY ViewFacts
    <3> QED
      BY <1>2, <2>4, <2>7, <3>1 DEF Covers
  <2>11. \A n \in cmd.nums : LivePartsOf(m, n) = {}
    BY <2>2, <2>4 DEF LivePartsOf
  <2> QED
    BY <1>2, <2>4, <2>5, <2>9, <2>10, <2>11 DEF Notified
<1> QED
  BY <1>1, <1>2

----------------------------------------------------------------------------
(***************************************************************************)
(* The mirror.  Each of its lists mirrors the view; a complete one covers  *)
(* it, but for lists of cues while the cue lists are not known.  Once they *)
(* are, every cue has its list; and a list of cues is not left behind when *)
(* its cue list is gone.                                                   *)
(***************************************************************************)
CueListsKnown(d) == CueLists \in DOMAIN d.lists /\ d.lists[CueLists].complete

CueListsCounted(d) == CueLists \in DOMAIN d.lists /\ d.lists[CueLists].internal = "COMPLETE"

ListsMirror(s, d) == \A key \in DOMAIN d.lists : ListMirrors(s, key, d.lists[key])

ListsCover(s, d) ==
  \A key \in DOMAIN d.lists : key[1] # "CUE" \/ CueListsKnown(d) => Covers(s, key, d.lists[key])

CuesKnown(s, d) ==
  CueListsKnown(d) =>
    d.cueMap /\ \A key \in ShowLists \ DOMAIN d.lists : key[1] = "CUE" => TargetKeys(s, key) = {}

HasCueList(s, d, n) ==
  n \in Num /\ (d.lists[CueLists].entry[n] # "absent" \/ <<n, 0>> \in TargetKeys(s, CueLists))

CuesListed(s, d) ==
  CueListsCounted(d) =>
    \A key \in DOMAIN d.lists : key[1] = "CUE" /\ key[2] # 0 => HasCueList(s, d, key[2])

ListsThere(d) ==
  /\ d.status.value # "UNINITIALIZED" =>
       \A type \in SubscribedTypes \ {"CUE"} : <<type, 0>> \in DOMAIN d.lists
  /\ d.cueMap \/ (\E key \in DOMAIN d.lists : key[1] = "CUE") => CueLists \in DOMAIN d.lists

DataMirrors(s, d) ==
  ListsMirror(s, d) /\ ListsCover(s, d) /\ CuesKnown(s, d) /\ CuesListed(s, d) /\ ListsThere(d)

(***************************************************************************)
(* Which lists of a show there can be.                                     *)
(***************************************************************************)
LEMMA ShowListFacts ==
  /\ DummyKey \notin ShowLists
  /\ CueLists # DummyKey /\ CueLists[1] # "CUE"
  /\ \A key \in ShowLists :
       /\ key \in MirrorKey /\ key = <<key[1], key[2]>>
       /\ key[1] # "CUE" => key = <<key[1], 0>> /\ key[1] \in SubscribedTypes
       /\ key[1] = "CUE" => CueLists \in ShowLists /\ key[2] \in Num
                            /\ <<key[2], 0>> \in ShowTargets[CueLists]
<1>1. ASSUME NEW key \in ShowLists, key[1] = "CUE"
      PROVE  /\ CueLists \in ShowLists /\ <<key[2], 0>> \in ShowTargets[CueLists]
             /\ key[2] \in Num /\ key[2] >= 1
  <2>1. CueLists \in ShowLists /\ <<key[2], 0>> \in ShowTargets[CueLists]
    BY <1>1, ShowCuesAssumption DEF CueLists
  <2>2. <<key[2], 0>> \in Key /\ <<key[2], 0>>[1] >= 1
    BY <2>1, ShowTargetsAssumption
  <2> QED
    BY <2>1, <2>2 DEF Key
<1>2. DummyKey \notin ShowLists
  <2>1. DummyKey[1] = "CUE" /\ ~(DummyKey[2] >= 1)
    BY DEF DummyKey
  <2> QED
    BY <1>1, <2>1
<1>3. \A key \in ShowLists : key \in MirrorKey
  BY ShowKeyFacts
<1>4. \A key \in ShowLists : key[1] # "CUE" => key = <<key[1], 0>> /\ key[1] \in SubscribedTypes
  BY <1>3, MirrorKeyFacts
<1> QED
  BY <1>1, <1>2, <1>3, <1>4, MirrorKeyFacts DEF CueLists, DummyKey

(***************************************************************************)
(* There is one list of cue lists.                                         *)
(***************************************************************************)
LEMMA CueListsIsKey ==
  ASSUME NEW key \in MirrorKey PROVE key[1] = "CUELIST" <=> key = CueLists
  BY MirrorKeyFacts DEF CueLists

(***************************************************************************)
(* The mirror after one of its lists has changed, and nothing but this     *)
(* list of the view.                                                       *)
(***************************************************************************)
LEMMA PutMirrors ==
  ASSUME NEW s \in View, NEW t \in View, NEW d, GoodData(d), DataMirrors(s, d),
         NEW key, NEW l, ListFor(key, l),
         \A j \in ShowLists \ {key} : t[j] = s[j],
         ListMirrors(t, key, l),
         key[1] # "CUE" \/ CueListsKnown(d) => Covers(t, key, l),
         key[1] = "CUE" => CueLists \in DOMAIN d.lists,
         NEW e, e = Put(d, key, l)
  PROVE  /\ ListsMirror(t, e) /\ ListsThere(e)
         /\ \A k \in DOMAIN e.lists : k[1] # "CUE" => Covers(t, k, e.lists[k])
         /\ ~(key = CueLists /\ l.complete /\ ~CueListsKnown(d)) =>
              ListsCover(t, e) /\ CuesKnown(t, e) /\ (CueListsKnown(e) => CueListsKnown(d))
<1>1. /\ DOMAIN e.lists = DOMAIN d.lists \cup {key} /\ e.cueMap = d.cueMap
      /\ \A k \in DOMAIN e.lists : e.lists[k] = IF k = key THEN l ELSE d.lists[k]
      /\ e.status = UpdateFromChild(d.status, l.status)
  BY DEF Put
<1>2. \A j : j # key => TargetKeys(t, j) = TargetKeys(s, j) /\ (j \in ShowLists => t[j] = s[j])
  BY DEF TargetKeys
<1>3. ~(key = CueLists /\ l.complete /\ ~CueListsKnown(d)) => (CueListsKnown(e) => CueListsKnown(d))
  BY <1>1 DEF CueListsKnown
<1>4. ListsMirror(t, e)
  <2> SUFFICES ASSUME NEW k \in DOMAIN e.lists PROVE ListMirrors(t, k, e.lists[k])
    BY DEF ListsMirror
  <2>1. CASE k = key
    BY <1>1, <2>1
  <2>2. CASE k # key
    <3>1. e.lists[k] = d.lists[k] /\ ListMirrors(s, k, d.lists[k])
      BY <1>1, <2>2 DEF DataMirrors, ListsMirror
    <3>2. \A i \in TargetKeys(s, k) : k \in ShowLists
      BY DEF TargetKeys
    <3> QED
      BY <1>2, <2>2, <3>1, <3>2 DEF ListMirrors, TargetMirrors
  <2> QED
    BY <2>1, <2>2
<1>5. ASSUME NEW k \in DOMAIN e.lists, k[1] # "CUE" \/ CueListsKnown(d)
      PROVE  Covers(t, k, e.lists[k])
  <2>1. CASE k = key
    BY <1>1, <1>5, <2>1
  <2>2. CASE k # key
    <3>1. e.lists[k] = d.lists[k] /\ Covers(s, k, d.lists[k])
      BY <1>1, <1>5, <2>2 DEF DataMirrors, ListsCover
    <3> QED
      BY <1>2, <2>2, <3>1 DEF Covers
  <2> QED
    BY <2>1, <2>2
<1>6. (CueListsKnown(e) => CueListsKnown(d)) => ListsCover(t, e) /\ CuesKnown(t, e)
  <2>1. (CueListsKnown(e) => CueListsKnown(d)) => ListsCover(t, e)
    BY <1>5 DEF ListsCover
  <2>2. (CueListsKnown(e) => CueListsKnown(d)) => CuesKnown(t, e)
    BY <1>1, <1>2 DEF DataMirrors, CuesKnown
  <2> QED
    BY <2>1, <2>2
<1>7. ListsThere(e)
  <2>1. d.status \in SyncStatus /\ l.status \in SyncStatus
    BY DataFields, ListFields DEF ListFor, GoodList, TypeGood
  <2>2. e.status.value # "UNINITIALIZED" => d.status.value # "UNINITIALIZED"
    BY <1>1, <2>1, UpdateFromChildFacts
  <2>3. ListsThere(d)
    BY DEF DataMirrors
  <2> QED
    BY <1>1, <2>2, <2>3 DEF ListsThere
<1> QED
  BY <1>3, <1>4, <1>5, <1>6, <1>7

(***************************************************************************)
(* The cue lists the lists of cues have.                                   *)
(***************************************************************************)
LEMMA PutListed ==
  ASSUME NEW s, NEW t, NEW d, CuesListed(s, d), NEW key, NEW l,
         \A j \in ShowLists \ {key} : t[j] = s[j],
         key = CueLists /\ l.internal = "COMPLETE" =>
           CueListsCounted(d) /\ \A n \in Num : HasCueList(s, d, n) =>
             l.entry[n] # "absent" \/ <<n, 0>> \in TargetKeys(t, CueLists),
         key[1] = "CUE" /\ key[2] # 0 /\ key \notin DOMAIN d.lists /\ CueListsCounted(d) =>
           HasCueList(s, d, key[2])
  PROVE  CuesListed(t, Put(d, key, l))
<1> DEFINE e == Put(d, key, l)
<1>1. /\ DOMAIN e.lists = DOMAIN d.lists \cup {key}
      /\ \A k \in DOMAIN e.lists : e.lists[k] = IF k = key THEN l ELSE d.lists[k]
  BY DEF Put
<1>2. CueLists # key => TargetKeys(t, CueLists) = TargetKeys(s, CueLists)
  BY DEF TargetKeys
<1> HIDE DEF e
<1> SUFFICES ASSUME CueListsCounted(e), NEW k \in DOMAIN e.lists, k[1] = "CUE", k[2] # 0
             PROVE  HasCueList(t, e, k[2])
  BY DEF CuesListed, e
<1>3. CueListsCounted(d) /\ CueLists \in DOMAIN e.lists
  BY <1>1 DEF CueListsCounted
<1>4. HasCueList(s, d, k[2])
  BY <1>1, <1>3 DEF CuesListed
<1>5. CASE key = CueLists
  <2>1. e.lists[CueLists] = l
    BY <1>1, <1>5
  <2>2. l.internal = "COMPLETE"
    BY <2>1 DEF CueListsCounted
  <2> QED
    BY <1>4, <1>5, <2>1, <2>2 DEF HasCueList
<1>6. CASE key # CueLists
  BY <1>1, <1>2, <1>3, <1>4, <1>6 DEF HasCueList
<1> QED
  BY <1>5, <1>6

----------------------------------------------------------------------------
(* Tick. *)

\* The lists that have their number of targets in e had it in d, and what they
\* had; only the dummy that stands for no cue lists can be new.
Grows(d, e) ==
  /\ \A key \in DOMAIN e.lists : key # DummyKey /\ e.lists[key].internal = "COMPLETE" =>
       /\ key \in DOMAIN d.lists /\ d.lists[key].internal = "COMPLETE"
       /\ e.lists[key].live = d.lists[key].live
       /\ d.lists[key].complete => e.lists[key].complete
       /\ \A n \in Num : e.lists[key].entry[n] = "absent" <=> d.lists[key].entry[n] = "absent"
  /\ DummyKey \in DOMAIN e.lists => DummyKey \in DOMAIN d.lists \/ CueListsCounted(d)

\* The cue lists cannot become complete now.
Settled(d) == CueListsCounted(d) => CueListsKnown(d)

(***************************************************************************)
(* To grow is reflexive and transitive, and what is settled stays so.      *)
(***************************************************************************)
LEMMA GrowsFacts ==
  /\ \A d : Grows(d, d)
  /\ \A d, e, f : Grows(d, e) /\ Grows(e, f) => Grows(d, f)
  /\ \A d, e : Grows(d, e) /\ Settled(d) => Settled(e)
<1>1. \A d : Grows(d, d)
  BY DEF Grows
<1>2. \A d, e : Grows(d, e) /\ CueListsCounted(e) => CueListsCounted(d)
  BY ShowListFacts DEF Grows, CueListsCounted
<1>3. ASSUME NEW d, NEW e, NEW f, Grows(d, e), Grows(e, f) PROVE Grows(d, f)
  BY <1>2, <1>3 DEF Grows
<1>4. ASSUME NEW d, NEW e, Grows(d, e), Settled(d) PROVE Settled(e)
  BY <1>2, <1>4, ShowListFacts DEF Grows, Settled, CueListsKnown, CueListsCounted
<1> QED
  BY <1>1, <1>3, <1>4

(***************************************************************************)
(* When the list of cue lists has become complete, there is a list for the *)
(* cues of every cue list, and none is taken for complete that was made    *)
(* before.                                                                 *)
(***************************************************************************)
LEMMA SyncCompleteMirrors ==
  ASSUME NEW s \in Shows, s \in View, NEW d, NEW l, GoodList(l), l = d.lists[CueLists],
         CueLists \in DOMAIN d.lists, l.complete, l.live = TargetKeys(s, CueLists),
         ListsMirror(s, d), CuesListed(s, d), ListsThere(d), CueListsCounted(d),
         \A key \in DOMAIN d.lists : key[1] # "CUE" => Covers(s, key, d.lists[key]),
         \A key \in DOMAIN d.lists : key = <<key[1], key[2]>>,
         NEW e, e = OnTargetListInitialSyncComplete(d, CueLists)
  PROVE  DataMirrors(s, e) /\ Grows(d, e)
<1> DEFINE numbers == {n \in Num : l.entry[n] # "absent"}
           dummy   == InitializeAsDummy(NewList("CUE", 0))
           fresh   == {<<"CUE", n>> : n \in numbers}
<1>1. \A n \in Num : HasCueList(s, d, n) => n \in numbers
  <2>1. \A k \in l.live : l.entry[k[1]] = "initialized"
    BY DEF GoodList, TargetsGood
  <2>2. ASSUME NEW n \in Num, <<n, 0>> \in TargetKeys(s, CueLists) PROVE n \in numbers
    BY <2>1, <2>2
  <2> QED
    BY <2>2 DEF HasCueList
<1>2. /\ e.status = d.status /\ e.cueMap = TRUE
      /\ DOMAIN d.lists \subseteq DOMAIN e.lists /\ fresh \subseteq DOMAIN e.lists
      /\ \A key \in DOMAIN e.lists :
           \/ key \in fresh /\ e.lists[key] = NewList("CUE", key[2])
           \/ key = DummyKey /\ e.lists[key] = dummy
           \/ key \notin fresh /\ key \in DOMAIN d.lists /\ e.lists[key] = d.lists[key]
  <2> DEFINE new  == [k \in fresh |-> NewList("CUE", k[2])]
             none == [k \in {DummyKey} |-> dummy]
  <2>1. \/ e = WithCueLists(d, new)
        \/ fresh = {} /\ d.cueMap /\ e = d
        \/ fresh = {} /\ e = WithCueLists(d, none)
    <3>1. CueLists[1] = "CUELIST"
      BY DEF CueLists
    <3>2. fresh = {} <=> numbers = {}
      OBVIOUS
    <3> QED
      BY <3>1, <3>2 DEF OnTargetListInitialSyncComplete, DummyKey
  <2>2. /\ DOMAIN new = fresh /\ \A key \in fresh : new[key] = NewList("CUE", key[2])
        /\ DOMAIN none = {DummyKey} /\ none[DummyKey] = dummy
    OBVIOUS
  <2> HIDE DEF new, none, dummy, fresh
  <2>3. d.cueMap => d.cueMap = TRUE
    OBVIOUS
  <2>4. CASE e = WithCueLists(d, new)
    BY <2>2, <2>4 DEF WithCueLists
  <2>5. CASE fresh = {} /\ e = WithCueLists(d, none)
    BY <2>2, <2>5 DEF WithCueLists
  <2>6. CASE fresh = {} /\ d.cueMap /\ e = d
    BY <2>6
  <2> QED
    BY <2>1, <2>4, <2>5, <2>6
<1>3. CueLists \notin fresh /\ CueLists # DummyKey /\ \A key \in fresh : key[1] = "CUE" /\ key[2] \in numbers
  BY ShowListFacts DEF CueLists
<1>4. e.lists[CueLists] = l /\ CueLists \in DOMAIN e.lists
  BY <1>2, <1>3
<1>5. TargetKeys(s, DummyKey) = {} /\ DummyKey[1] = "CUE" /\ DummyKey[2] = 0
  BY ShowListFacts DEF TargetKeys, DummyKey
<1> HIDE DEF fresh, dummy
<1>6. ListsMirror(s, e)
  BY <1>2, FreshLists DEF ListsMirror, dummy
<1>7. ListsCover(s, e)
  <2> SUFFICES ASSUME NEW key \in DOMAIN e.lists PROVE Covers(s, key, e.lists[key])
    BY DEF ListsCover
  <2>1. CASE key \in fresh /\ e.lists[key] = NewList("CUE", key[2])
    BY <2>1, FreshLists
  <2>2. CASE key = DummyKey
    BY <1>5, <2>2 DEF Covers
  <2>3. CASE key \notin fresh /\ key \in DOMAIN d.lists /\ e.lists[key] = d.lists[key] /\ key # DummyKey
    <3>1. CASE key[1] # "CUE"
      BY <2>3, <3>1
    <3>2. CASE key[1] = "CUE"
      <4>1. key[2] # 0 /\ key = <<"CUE", key[2]>>
        BY <2>3, <3>2 DEF DummyKey
      <4>2. HasCueList(s, d, key[2]) /\ key[2] \in Num
        BY <2>3, <3>2, <4>1 DEF CuesListed, HasCueList
      <4>3. key \in fresh
        BY <1>1, <4>1, <4>2 DEF fresh
      <4> QED
        BY <2>3, <4>3
    <3> QED
      BY <3>1, <3>2
  <2> QED
    BY <1>2, <2>1, <2>2, <2>3
<1>8. CuesKnown(s, e)
  <2> SUFFICES ASSUME NEW key \in ShowLists \ DOMAIN e.lists, key[1] = "CUE" PROVE TargetKeys(s, key) = {}
    BY <1>2 DEF CuesKnown
  <2>1. key[2] \in Num /\ key = <<"CUE", key[2]>> /\ CueLists \in ShowLists
        /\ <<key[2], 0>> \in ShowTargets[CueLists]
    BY ShowListFacts
  <2>2. key[2] \notin numbers
    BY <1>2, <2>1 DEF fresh
  <2>3. <<key[2], 0>> \notin TargetKeys(s, CueLists)
    BY <1>1, <2>1, <2>2 DEF HasCueList
  <2>4. s[CueLists][<<key[2], 0>>] = NoContent
    BY <2>1, <2>3 DEF TargetKeys
  <2>5. CuesHaveLists(s)
    BY DEF Shows
  <2>6. s[key] = NoTargets(key)
    BY <2>4, <2>5 DEF CuesHaveLists, CueLists
  <2> QED
    BY <2>6 DEF TargetKeys, NoTargets
<1>9. CuesListed(s, e)
  <2> SUFFICES ASSUME NEW key \in DOMAIN e.lists, key[1] = "CUE", key[2] # 0
               PROVE  HasCueList(s, e, key[2])
    BY DEF CuesListed
  <2>1. HasCueList(s, d, key[2]) \/ key[2] \in numbers
    BY <1>2, <1>3, <1>5 DEF CuesListed
  <2> QED
    BY <1>4, <2>1 DEF HasCueList
<1>10. ListsThere(e)
  BY <1>2, <1>4 DEF ListsThere
<1>11. Grows(d, e)
  BY <1>2, FreshLists DEF Grows
<1> QED
  BY <1>6, <1>7, <1>8, <1>9, <1>10, <1>11 DEF DataMirrors

(***************************************************************************)
(* Tick, one list after the other.                                         *)
(***************************************************************************)
LEMMA TickOneListMirrors ==
  ASSUME NEW s \in View, NEW run, GoodData(run.data), run.data.status.value = "RUNNING",
         DataMirrors(s, run.data), s \in Shows \/ Settled(run.data), NEW key \in MirrorKey,
         NEW r, r = TickOneList(run, key)
  PROVE  DataMirrors(s, r.data) /\ Grows(run.data, r.data)
<1> DEFINE d == run.data
           l == d.lists[key]
           m == TickList(l)
           u == Put(d, key, m)
<1>1. CASE key \notin DOMAIN d.lists \/ l.status.value = "COMPLETE"
  <2>1. r = run
    BY <1>1 DEF TickOneList
  <2> QED
    BY <2>1, GrowsFacts
<1>2. CASE key \in DOMAIN d.lists /\ l.status.value # "COMPLETE"
  <2>1. ListFor(key, l) /\ GoodList(l) /\ ListMirrors(s, key, l) /\ key # DummyKey
    BY <1>2 DEF GoodData, ListsGood, DummyComplete, ListFor, DataMirrors, ListsMirror
  <2>2. /\ ListMirrors(s, key, m) /\ SameEntries(l, m)
        /\ Covers(s, key, l) => Covers(s, key, m)
        /\ m.internal = "COMPLETE" <=> l.internal = "COMPLETE"
        /\ l.complete => m.complete
        /\ m.complete /\ ~l.complete =>
             l.internal = "COMPLETE" /\ m.live = TargetKeys(s, key) /\ Covers(s, key, m)
    <3> HIDE DEF l
    <3> QED
      BY <2>1, TickListMirrors
  <2>3. ListFor(key, m)
    BY <2>1, TickListFor
  <2>4. r.data = IF ~l.complete /\ m.complete THEN OnTargetListInitialSyncComplete(u, key) ELSE u
    <3>1. WithList(d, key, m) = u
      BY <1>2, WithListPuts DEF GoodData
    <3> HIDE DEF u
    <3> QED
      BY <1>2, <3>1 DEF TickOneList
  <2> HIDE DEF m, l
  <2>5. /\ DOMAIN u.lists = DOMAIN d.lists /\ u.lists[key] = m
        /\ \A k \in DOMAIN u.lists : k # key => u.lists[k] = d.lists[k]
    BY <1>2 DEF Put
  <2>6. Grows(d, u)
    <3>1. \A k \in DOMAIN u.lists : u.lists[k].internal = "COMPLETE" =>
            /\ k \in DOMAIN d.lists /\ d.lists[k].internal = "COMPLETE"
            /\ u.lists[k].live = d.lists[k].live
            /\ d.lists[k].complete => u.lists[k].complete
            /\ \A n \in Num : u.lists[k].entry[n] = "absent" <=> d.lists[k].entry[n] = "absent"
      <4> SUFFICES ASSUME NEW k \in DOMAIN u.lists, u.lists[k].internal = "COMPLETE"
                   PROVE /\ k \in DOMAIN d.lists /\ d.lists[k].internal = "COMPLETE"
                         /\ u.lists[k].live = d.lists[k].live
                         /\ d.lists[k].complete => u.lists[k].complete
                         /\ \A n \in Num : u.lists[k].entry[n] = "absent" <=> d.lists[k].entry[n] = "absent"
        OBVIOUS
      <4>1. CASE k = key
        BY <2>2, <2>5, <4>1 DEF SameEntries, l
      <4>2. CASE k # key
        BY <2>5, <4>2
      <4> QED
        BY <4>1, <4>2
    <3> QED
      BY <2>5, <3>1 DEF Grows
  <2>7. key[1] # "CUE" \/ CueListsKnown(d) => Covers(s, key, m)
    BY <1>2, <2>2 DEF DataMirrors, ListsCover, l
  <2>8. /\ ListsMirror(s, u) /\ ListsThere(u)
        /\ \A k \in DOMAIN u.lists : k[1] # "CUE" => Covers(s, k, u.lists[k])
        /\ ~(key = CueLists /\ m.complete /\ ~CueListsKnown(d)) =>
             ListsCover(s, u) /\ CuesKnown(s, u) /\ (CueListsKnown(u) => CueListsKnown(d))
    <3>1. key[1] = "CUE" => CueLists \in DOMAIN d.lists
      BY <1>2 DEF DataMirrors, ListsThere
    <3>2. \A j \in ShowLists \ {key} : s[j] = s[j]
      OBVIOUS
    <3> HIDE DEF d
    <3>3. PICK e : e = Put(d, key, m)
      OBVIOUS
    <3> HIDE DEF u
    <3>4. /\ ListsMirror(s, e) /\ ListsThere(e)
          /\ \A k \in DOMAIN e.lists : k[1] # "CUE" => Covers(s, k, e.lists[k])
          /\ ~(key = CueLists /\ m.complete /\ ~CueListsKnown(d)) =>
               ListsCover(s, e) /\ CuesKnown(s, e) /\ (CueListsKnown(e) => CueListsKnown(d))
      BY <2>2, <2>3, <2>7, <3>1, <3>2, <3>3, PutMirrors DEF d
    <3> QED
      BY <3>3, <3>4 DEF u
  <2>9. CuesListed(s, u)
    <3>1. CuesListed(s, d)
      BY DEF DataMirrors
    <3>2. key = CueLists /\ m.internal = "COMPLETE" =>
            CueListsCounted(d) /\ \A n \in Num : HasCueList(s, d, n) =>
              m.entry[n] # "absent" \/ <<n, 0>> \in TargetKeys(s, CueLists)
      BY <1>2, <2>2 DEF CueListsCounted, HasCueList, SameEntries, l
    <3> HIDE DEF d
    <3> QED
      BY <1>2, <3>1, <3>2, PutListed
  <2>10. CASE ~l.complete /\ m.complete /\ key[1] = "CUELIST"
    <3>1. key = CueLists
      BY <2>10, CueListsIsKey
    <3>2. /\ l.internal = "COMPLETE" /\ m.live = TargetKeys(s, CueLists)
          /\ m.internal = "COMPLETE"
      BY <2>2, <2>10, <3>1
    <3>3. s \in Shows
      BY <1>2, <2>10, <3>1, <3>2 DEF Settled, CueListsKnown, CueListsCounted, l
    <3>4. CueListsCounted(u) /\ GoodList(m) /\ m = u.lists[CueLists] /\ CueLists \in DOMAIN u.lists
      BY <1>2, <2>3, <2>5, <3>1, <3>2 DEF CueListsCounted, ListFor
    <3>5. \A k \in DOMAIN u.lists : k = <<k[1], k[2]>>
      BY <2>5, DataFields, MirrorKeyFacts
    <3> HIDE DEF u
    <3>6. r.data = OnTargetListInitialSyncComplete(u, CueLists)
      BY <2>4, <2>10, <3>1
    <3>7. DataMirrors(s, r.data) /\ Grows(u, r.data)
      BY <2>8, <2>9, <2>10, <3>2, <3>3, <3>4, <3>5, <3>6, SyncCompleteMirrors
    <3> QED
      BY <2>6, <3>7, GrowsFacts
  <2>11. CASE ~(~l.complete /\ m.complete /\ key[1] = "CUELIST")
    <3>1. r.data = u
      <4> HIDE DEF u
      <4> QED
        BY <2>4, <2>11 DEF OnTargetListInitialSyncComplete
    <3>2. ~(key = CueLists /\ m.complete /\ ~CueListsKnown(d))
      BY <1>2, <2>11 DEF CueListsKnown, CueLists, l
    <3> QED
      BY <2>6, <2>8, <2>9, <3>1, <3>2 DEF DataMirrors
  <2> QED
    BY <2>10, <2>11
<1> QED
  BY <1>1, <1>2

(***************************************************************************)
(* What a mirror shows is in its lists.                                    *)
(***************************************************************************)
LEMMA SameListsMirror ==
  ASSUME NEW s, NEW d, NEW e, e.lists = d.lists, e.cueMap = d.cueMap,
         d.status.value = "UNINITIALIZED" => e.status.value = "UNINITIALIZED"
  PROVE  (DataMirrors(s, d) => DataMirrors(s, e)) /\ Grows(d, e)
<1>1. Grows(d, e)
  BY DEF Grows
<1>2. DataMirrors(s, d) => DataMirrors(s, e)
  BY DEF DataMirrors, ListsMirror, ListsCover, CuesKnown, CuesListed, ListsThere, CueListsKnown,
         CueListsCounted, HasCueList
<1> QED
  BY <1>1, <1>2

(***************************************************************************)
(* While the library synchronises, a Tick of all lists, one after the      *)
(* other, keeps them mirrors of the view.                                  *)
(***************************************************************************)
LEMMA TickRunningMirrors ==
  ASSUME NEW s \in View, NEW d, GoodData(d), d.status.value = "RUNNING",
         DataMirrors(s, d), s \in Shows \/ Settled(d)
  PROVE  LET e == TickRunning(d).data
         IN  DataMirrors(s, e) /\ Grows(d, e) /\ e.status.value # "UNINITIALIZED"
<1> DEFINE N == Len(KeySequence)
           key(i) == KeySequence[i]
<1>1. PICK run : TicksFirst(run, d, N) /\ TickRunning(d) = AfterTheLists(run[N])
  BY TickRunningIsFold
<1>2. N \in Nat /\ \A i \in 1..N : key(i) \in MirrorKey
  BY KeySequenceFacts
<1>3. run[0] = [data |-> d, sent |-> <<>>, allComplete |-> TRUE]
      /\ \A i \in 1..N : run[i] = TickOneList(run[i - 1], key(i))
  <2>1. 0 \in 0..N /\ \A i \in 1..N : i \in 0..N /\ i # 0
    BY <1>2
  <2> HIDE DEF N
  <2> QED
    BY <1>1, <2>1 DEF TicksFirst
<1> DEFINE Good(r) ==
             /\ GoodData(r.data) /\ r.data.status.value = "RUNNING" /\ r.sent \in Seq(Request)
             /\ DataMirrors(s, r.data) /\ Grows(d, r.data)
           T == {i \in 0..N : Good(run[i])}
<1>4. 0 \in T
  <2>1. run[0].data = d /\ run[0].sent = <<>> /\ <<>> \in Seq(Request)
    BY <1>3
  <2>2. Good(run[0])
    BY <2>1, GrowsFacts
  <2>3. 0 \in 0..N
    BY <1>2
  <2> HIDE DEF Good, N
  <2> QED
    BY <2>2, <2>3
<1>5. \A i \in 1..N : i - 1 \in T => i \in T
  <2> SUFFICES ASSUME NEW i \in 1..N, i - 1 \in T PROVE i \in T
    OBVIOUS
  <2>1. PICK a : a = run[i - 1]
    OBVIOUS
  <2>2. PICK k \in MirrorKey : k = key(i)
    BY <1>2
  <2>3. PICK b : b = TickOneList(a, k)
    OBVIOUS
  <2>4. run[i] = b /\ Good(a) /\ i \in 0..N
    BY <1>2, <1>3, <2>1, <2>2, <2>3
  <2>5. GoodData(b.data) /\ b.data.status.value = "RUNNING" /\ b.sent \in Seq(Request)
    <3>1. Awaits(a.data, Request, {}) /\ Request \subseteq Request \cup Range(a.sent) /\ {} \subseteq {}
      BY <2>4, AllIsRequested
    <3>2. Awaits(a.data, Request \cup Range(a.sent), {})
      BY <3>1, AwaitsMore
    <3> DEFINE c == TickOneList(a, k)
    <3>3. GoodData(c.data) /\ c.data.status.value = "RUNNING" /\ c.sent \in Seq(Request)
      BY <2>4, <3>2, TickOneListGood
    <3> HIDE DEF c
    <3> QED
      BY <2>3, <3>3 DEF c
  <2>6. DataMirrors(s, b.data) /\ Grows(a.data, b.data)
    <3>1. s \in Shows \/ Settled(a.data)
      BY <2>4, GrowsFacts
    <3> QED
      BY <2>3, <2>4, <3>1, TickOneListMirrors
  <2>7. Grows(d, b.data)
    BY <2>4, <2>6, GrowsFacts
  <2>8. Good(b)
    BY <2>5, <2>6, <2>7
  <2> HIDE DEF Good, N
  <2> QED
    BY <2>4, <2>8
<1>6. Good(run[N])
  <2>1. N \in 0..N
    BY <1>2
  <2> HIDE DEF T, N
  <2>2. \A i \in 0..N : i \in T
    BY <1>2, <1>4, <1>5, Induction
  <2>3. N \in T
    BY <2>1, <2>2
  <2> QED
    BY <2>3 DEF T
<1>7. PICK last : last = run[N]
  OBVIOUS
<1> DEFINE e == TickRunning(d).data
<1>8. \/ e = last.data
      \/ e = [last.data EXCEPT !.status = SetValue(@, "COMPLETE")]
  BY <1>1, <1>7 DEF AfterTheLists
<1>9. Good(last)
  BY <1>6, <1>7
<1>10. last.data = [status |-> last.data.status, lists |-> last.data.lists, cueMap |-> last.data.cueMap]
  BY <1>9 DEF GoodData, DataType
<1> HIDE DEF e
<1>11. /\ e.lists = last.data.lists /\ e.cueMap = last.data.cueMap
       /\ e.status.value # "UNINITIALIZED"
  BY <1>8, <1>9, <1>10 DEF SetValue
<1>12. DataMirrors(s, e) /\ Grows(last.data, e)
  BY <1>9, <1>11, SameListsMirror
<1> QED
  BY <1>9, <1>11, <1>12, GrowsFacts DEF e

\* What a Tick does before it receives.
OwnSteps(d) ==
  CASE d.status.value = "UNINITIALIZED" -> [data |-> Initialize(d), sent |-> <<>>]
    [] d.status.value = "RUNNING"       -> TickRunning(d)
    [] OTHER                            -> [data |-> d, sent |-> <<>>]

(***************************************************************************)
(* Whatever state a Tick finds the library in, what it does before it      *)
(* receives keeps the mirror true of the view.                             *)
(***************************************************************************)
LEMMA OwnStepsMirror ==
  ASSUME NEW s \in View, NEW d, GoodData(d), DataMirrors(s, d), s \in Shows \/ Settled(d)
  PROVE  LET run == OwnSteps(d)
         IN  /\ DataMirrors(s, run.data) /\ Grows(d, run.data) /\ GoodData(run.data)
             /\ run.sent \in Seq(Request) /\ run.data.status.value # "UNINITIALIZED"
             /\ d.status.value = "COMPLETE" => run.data = d
<1> DEFINE run == OwnSteps(d)
<1>1. CASE d.status.value = "UNINITIALIZED"
  <2> DEFINE e == Initialize(d)
             keys == {<<type, 0>> : type \in SubscribedTypes \ {"CUE"}}
  <2>1. run = [data |-> e, sent |-> <<>>]
    BY <1>1 DEF OwnSteps
  <2>2. Awaits(d, Request, {})
    BY AllIsRequested
  <2>3. GoodData(e)
    BY InitializeGood
  <2>4. /\ e.cueMap = FALSE /\ DOMAIN e.lists = keys /\ e.status.value = "RUNNING"
        /\ \A k \in keys : e.lists[k] = NewList(k[1], 0)
    BY DEF Initialize, SetValue
  <2>5. <<>> \in Seq(Request)
    OBVIOUS
  <2>6. CueLists \in keys => ~e.lists[CueLists].complete /\ e.lists[CueLists].internal = "UNINITIALIZED"
    BY <2>4, FreshLists
  <2>7. \A k \in keys : k[1] # "CUE"
    OBVIOUS
  <2>8. DataMirrors(s, e)
    <3> HIDE DEF e
    <3>1. ListsMirror(s, e) /\ ListsCover(s, e)
      BY <2>4, FreshLists DEF ListsMirror, ListsCover
    <3>2. CuesKnown(s, e) /\ CuesListed(s, e)
      BY <2>4, <2>6 DEF CuesKnown, CuesListed, CueListsKnown, CueListsCounted
    <3>3. ListsThere(e)
      BY <2>4, <2>7 DEF ListsThere
    <3> QED
      BY <3>1, <3>2, <3>3 DEF DataMirrors
  <2>9. Grows(d, e)
    <3>1. \A k \in keys : e.lists[k].internal = "UNINITIALIZED"
      BY <2>4, FreshLists
    <3> HIDE DEF e, keys
    <3> QED
      BY <2>4, <2>7, <3>1 DEF Grows, DummyKey
  <2> HIDE DEF e, run
  <2> QED
    BY <1>1, <2>1, <2>3, <2>4, <2>5, <2>8, <2>9 DEF run
<1>2. CASE d.status.value = "RUNNING"
  <2>1. run = TickRunning(d)
    BY <1>2 DEF OwnSteps
  <2>2. Awaits(d, Request, {})
    BY AllIsRequested
  <2> DEFINE r == TickRunning(d)
  <2>3. GoodData(r.data) /\ r.sent \in Seq(Request)
    BY <1>2, <2>2, TickRunningGood
  <2>4. DataMirrors(s, r.data) /\ Grows(d, r.data) /\ r.data.status.value # "UNINITIALIZED"
    BY <1>2, TickRunningMirrors
  <2> HIDE DEF r, run
  <2> QED
    BY <1>2, <2>1, <2>3, <2>4 DEF r, run
<1>3. CASE d.status.value = "COMPLETE"
  <2>1. run = [data |-> d, sent |-> <<>>] /\ <<>> \in Seq(Request)
    BY <1>3 DEF OwnSteps
  <2> HIDE DEF run
  <2> QED
    BY <1>3, <2>1, GrowsFacts DEF run
<1> QED
  BY <1>1, <1>2, <1>3, DataFields DEF SyncStatusValue

----------------------------------------------------------------------------
(***************************************************************************)
(* What a packet says of the views before and after it.  A reply is true   *)
(* of the one view; a notification names what differs, and a show event    *)
(* may change everything.  The first message about a change carries the    *)
(* view before it.                                                         *)
(***************************************************************************)
CountIsOf(m, s) == m.args = <<Cardinality(TargetKeys(s, KeyOf(m)))>>

NoticeIsOf(m, s, t) ==
  /\ KeyOf(m) \in ShowLists
  /\ m.hasArgs => m.nums # {}
  /\ ChangesOnly(s, t, KeyOf(m), IF m.hasArgs THEN m.nums ELSE Num)
  /\ m.before \in {s, Garbled}
  /\ m.type = "CUE" /\ m.before # Garbled => <<m.listId, 0>> \in TargetKeys(s, CueLists)

Explains(m, s, t) ==
  /\ m.kind = "count" => t = s /\ CountIsOf(m, s)
  /\ m.kind = "target" => t = s /\ TargetIsOf(m, s)
  /\ m.kind = "notify" => NoticeIsOf(m, s, t)
  /\ m.kind = "show" => m.before = s

\* The second message about a change, and a packet that follows the base packet of a target.
Second(m) == m.kind = "notify" /\ m.before = Garbled

IsGroup(m) == m.kind = "target" /\ m.pathData.group # General

\* What comes immediately before such packets.
Precedes(m, n) ==
  /\ Second(n) => /\ m.kind = "notify" /\ KeyOf(m) = CueLists /\ m.before # Garbled
                  /\ m.hasArgs /\ m.nums = {n.listId} /\ n.type = "CUE"
  /\ IsGroup(n) => /\ m.kind = "target" /\ KeyOf(m) = KeyOf(n) /\ TargetOf(m) = TargetOf(n)
                   /\ m.args # <<>>

\* The mirror has read what comes before m.
Accepts(d, key) ==
  d.status.value = "RUNNING" /\ key \in DOMAIN d.lists /\ d.lists[key].internal = "COMPLETE"

Invalidated(l, n) == l.complete /\ l.entry[n] # "absent" /\ LivePartsOf(l, n) = {}

Ready(d, m) ==
  /\ Second(m) => m.type = "CUE" /\ (CueListsCounted(d) => Invalidated(d.lists[CueLists], m.listId))
  /\ IsGroup(m) /\ Accepts(d, KeyOf(m)) => TargetOf(m) \in d.lists[KeyOf(m)].live

(***************************************************************************)
(* In a show there are no cues without their cue list.                     *)
(***************************************************************************)
LEMMA NoCueListNoCues ==
  ASSUME NEW s \in Shows, NEW key \in ShowLists, key[1] = "CUE",
         <<key[2], 0>> \notin TargetKeys(s, CueLists)
  PROVE  TargetKeys(s, key) = {}
<1>1. CueLists \in ShowLists /\ <<key[2], 0>> \in ShowTargets[CueLists]
  BY ShowListFacts
<1>2. s[CueLists][<<key[2], 0>>] = NoContent
  BY <1>1 DEF TargetKeys
<1>3. CuesHaveLists(s)
  BY DEF Shows
<1>4. s[key] = NoTargets(key)
  BY <1>2, <1>3 DEF CuesHaveLists, CueLists
<1> QED
  BY <1>4 DEF TargetKeys, NoTargets

(***************************************************************************)
(* A show is a view.                                                       *)
(***************************************************************************)
LEMMA ShowIsView == Shows \subseteq View
  BY DEF Shows, View

(***************************************************************************)
(* A mirror without lists mirrors anything.                                *)
(***************************************************************************)
LEMMA NoListsMirror ==
  ASSUME NEW s, NEW d, DOMAIN d.lists = {}, d.status.value = "UNINITIALIZED", ~d.cueMap
  PROVE  DataMirrors(s, d)
  BY DEF DataMirrors, ListsMirror, ListsCover, CuesKnown, CuesListed, ListsThere, CueListsKnown,
         CueListsCounted

(***************************************************************************)
(* Lists of cues disappear with their cue list, and the mirror knows that  *)
(* such cues are not in the show.                                          *)
(***************************************************************************)
LEMMA RemoveOrphanedCuesMirrors ==
  ASSUME NEW s \in Shows, NEW d, GoodData(d), CueLists \in DOMAIN d.lists,
         ListsMirror(s, d), ListsThere(d), ListsCover(s, d), CuesKnown(s, d),
         NEW e, e = RemoveOrphanedCues(d)
  PROVE  DataMirrors(s, e) /\ e.lists[CueLists] = d.lists[CueLists]
<1> DEFINE entry == d.lists[CueLists].entry
           orphan(k) == k[1] = "CUE" /\ k[2] # 0 /\ (k[2] \notin Num \/ entry[k[2]] = "absent")
           S == {j \in DOMAIN d.lists : ~orphan(j)}
<1>1. e = [status |-> d.status, lists |-> [k \in S |-> d.lists[k]], cueMap |-> d.cueMap]
  <2>1. e = [d EXCEPT !.lists = [k \in S |-> d.lists[k]]]
    BY DEF RemoveOrphanedCues, CueLists
  <2> HIDE DEF S
  <2> QED
    BY <2>1, DataUpdate DEF GoodData, DataType
<1>2. CueLists \in S /\ \A k \in DOMAIN d.lists : k[1] # "CUE" => k \in S
  BY ShowListFacts
<1>3. \A k \in S : k \in DOMAIN d.lists /\ ~orphan(k)
  OBVIOUS
<1>4. \A k \in DOMAIN d.lists : k \notin S => orphan(k)
  OBVIOUS
<1> HIDE DEF S
<1>5. /\ e.status = d.status /\ e.cueMap = d.cueMap /\ DOMAIN e.lists = S
      /\ \A k \in S : e.lists[k] = d.lists[k]
      /\ CueListsKnown(e) <=> CueListsKnown(d)
  BY <1>1, <1>2, <1>3 DEF CueListsKnown
<1>6. ListsMirror(s, e) /\ ListsCover(s, e)
  BY <1>3, <1>5 DEF ListsMirror, ListsCover
<1>7. CuesKnown(s, e)
  <2> SUFFICES ASSUME CueListsKnown(d), NEW key \in ShowLists \ S, key[1] = "CUE"
               PROVE  TargetKeys(s, key) = {}
    BY <1>5 DEF CuesKnown
  <2>1. CASE key \notin DOMAIN d.lists
    BY <2>1 DEF CuesKnown
  <2>2. CASE key \in DOMAIN d.lists
    <3>1. orphan(key) /\ key[2] \in Num
      BY <1>4, <2>2, ShowListFacts
    <3>2. Covers(s, CueLists, d.lists[CueLists]) /\ d.lists[CueLists].complete
      BY DEF ListsCover, CueListsKnown
    <3>3. <<key[2], 0>> \notin TargetKeys(s, CueLists)
      BY <3>1, <3>2 DEF Covers
    <3> QED
      BY <3>3, NoCueListNoCues
  <2> QED
    BY <2>1, <2>2
<1>8. CuesListed(s, e)
  BY <1>2, <1>3, <1>5 DEF CuesListed, HasCueList
<1>9. ListsThere(e)
  <2>1. \A type \in SubscribedTypes \ {"CUE"} : <<type, 0>>[1] # "CUE"
    OBVIOUS
  <2> QED
    BY <1>2, <1>3, <1>5, <2>1 DEF ListsThere
<1> QED
  BY <1>2, <1>5, <1>6, <1>7, <1>8, <1>9 DEF DataMirrors

(***************************************************************************)
(* A true reply: the mirror goes on mirroring the same view.  A target     *)
(* that exists is there afterwards, for the packets about it that follow.  *)
(***************************************************************************)
LEMMA RecvReplyMirrors ==
  ASSUME NEW s \in Shows, NEW d, GoodData(d), DataMirrors(s, d),
         NEW cmd \in Command, cmd.kind \in {"count", "target"}, Explains(cmd, s, s), Ready(d, cmd),
         NEW e, e = RecvReply(d, cmd).data
  PROVE  /\ DataMirrors(s, e)
         /\ d.status.value # "RUNNING" => e = d
         /\ e.status.value = "COMPLETE" => d.status.value = "COMPLETE"
         /\ cmd.kind = "target" /\ cmd.args # <<>> /\ Accepts(e, KeyOf(cmd)) =>
              TargetOf(cmd) \in e.lists[KeyOf(cmd)].live
<1> DEFINE key   == KeyOf(cmd)
           l     == d.lists[key]
           after == IF cmd.kind = "count" THEN RecvCount(l, cmd.args)
                    ELSE RecvTarget(l, cmd.args, cmd.pathData)
           u     == Put(d, key, after)
<1>1. /\ s \in View /\ key = Route(cmd) /\ key \in MirrorKey /\ key[1] = cmd.type
      /\ key = <<key[1], key[2]>>
  BY ShowIsView, CommandCases, MirrorKeyFacts DEF KeyOf
<1>2. cmd.kind = "target" /\ cmd.args # <<>> => key # DummyKey
  BY ShowListFacts DEF Explains, TargetIsOf, TargetKeys
<1>3. CASE d.status.value # "RUNNING" \/ key \notin DOMAIN d.lists \/ key = DummyKey
  <2>1. e = d
    BY <1>1, <1>3 DEF RecvReply, DummyKey
  <2> QED
    BY <1>2, <1>3, <2>1 DEF Accepts
<1>4. CASE d.status.value = "RUNNING" /\ key \in DOMAIN d.lists /\ key # DummyKey
  <2>1. /\ ListFor(key, l) /\ GoodList(l) /\ l.type = key[1] /\ ListMirrors(s, key, l)
        /\ ListAwaits(key, l, Request, {} \cup {cmd})
    <3>1. Awaits(d, Request, {} \cup {cmd})
      BY AllIsRequested
    <3> QED
      BY <1>4, <3>1 DEF GoodData, ListsGood, ListFor, DataMirrors, ListsMirror, Awaits
  <2>2. /\ ListFor(key, after) /\ ListMirrors(s, key, after) /\ after.complete = l.complete
        /\ Covers(s, key, l) => Covers(s, key, after)
        /\ after.internal = "COMPLETE" /\ cmd.kind = "target" => l.internal = "COMPLETE"
        /\ l.internal = "COMPLETE" /\ cmd.kind = "target" /\ cmd.args # <<>> => TargetOf(cmd) \in after.live
        /\ l.internal = "COMPLETE" => after.internal = "COMPLETE"
    <3>1. CASE cmd.kind = "count"
      <4>1. PICK c \in Nat : cmd.args = <<c>>
        BY <3>1, CommandCases
      <4>2. after = RecvCount(l, <<c>>) /\ <<c>> = <<Cardinality(TargetKeys(s, key))>>
        BY <3>1, <4>1 DEF Explains, CountIsOf
      <4> HIDE DEF after, l, key
      <4>3. ListFor(key, after)
        BY <1>1, <2>1, <3>1, <4>2, RecvCountFor
      <4>4. /\ ListMirrors(s, key, after) /\ SameEntries(l, after) /\ after.complete = l.complete
            /\ l.internal = "COMPLETE" => after = l
        BY <1>1, <2>1, <4>2, RecvCountMirrors
      <4> QED
        BY <1>1, <3>1, <4>3, <4>4, SameEntriesMirror
    <3>2. CASE cmd.kind = "target"
      <4>1. cmd.pathData \in Path(key[1]) /\ cmd.args \in Seq(Val)
        BY <1>1, <3>2, CommandCases
      <4>2. after = RecvTarget(l, cmd.args, cmd.pathData) /\ TargetIsOf(cmd, s)
        BY <3>2 DEF Explains
      <4>3. /\ cmd.pathData.isList = FALSE /\ cmd.pathData.num \in Num \ {0}
            /\ cmd.pathData.part \in Part
        BY <4>1 DEF Path
      <4>4. cmd.pathData.group # General /\ l.internal = "COMPLETE" => TargetOf(cmd) \in l.live
        BY <1>4, <3>2 DEF Ready, IsGroup, Accepts
      <4> HIDE DEF after, l
      <4>5. ListFor(key, after)
        <5> HIDE DEF key
        <5> QED
          BY <1>1, <2>1, <3>2, <4>1, <4>2, RecvTargetFor
      <4>6. PICK j : j = key
        OBVIOUS
      <4>7. cmd.type = j[1] /\ KeyOf(cmd) = j
        BY <1>1, <4>6
      <4> HIDE DEF key
      <4>8. /\ GoesOn(s, j, l, after)
            /\ l.internal = "COMPLETE" /\ cmd.args # <<>> => TargetOf(cmd) \in after.live
        BY <1>1, <2>1, <4>2, <4>3, <4>4, <4>6, <4>7, RecvTargetMirrors
      <4> QED
        BY <4>5, <4>6, <4>8 DEF GoesOn
    <3> QED
      BY <3>1, <3>2
  <2>3. e = IF cmd.type = "CUELIST" THEN RemoveOrphanedCues(u) ELSE u
    <3>1. WithList(d, key, after) = u
      <4> HIDE DEF after, key
      <4> QED
        BY <1>4, WithListPuts DEF GoodData
    <3> HIDE DEF u
    <3> QED
      BY <1>1, <1>4, <3>1 DEF RecvReply, DummyKey
  <2>4. /\ u.status = UpdateFromChild(d.status, after.status) /\ key \in DOMAIN u.lists
        /\ u.lists[key] = after
    BY DEF Put
  <2>5. GoodData(u)
    <3> HIDE DEF after, l, key
    <3> QED
      BY <1>1, <1>4, <2>1, <2>2, PutGood
  <2> HIDE DEF after, u, l
  <2>6. ListsMirror(s, u) /\ ListsThere(u) /\ ListsCover(s, u) /\ CuesKnown(s, u)
    <3>1. key[1] # "CUE" \/ CueListsKnown(d) => Covers(s, key, after)
      BY <1>4, <2>2 DEF DataMirrors, ListsCover, l
    <3>2. key[1] = "CUE" => CueLists \in DOMAIN d.lists
      BY <1>4 DEF DataMirrors, ListsThere
    <3>3. ~(key = CueLists /\ after.complete /\ ~CueListsKnown(d))
      BY <1>4, <2>2 DEF CueListsKnown, l
    <3>4. \A j \in ShowLists \ {key} : s[j] = s[j]
      OBVIOUS
    <3> HIDE DEF key
    <3> QED
      BY <1>1, <2>2, <3>1, <3>2, <3>3, <3>4, PutMirrors DEF u
  <2>7. u.status.value = "COMPLETE" => d.status.value = "COMPLETE"
    <3>1. d.status \in SyncStatus /\ after.status \in SyncStatus
      BY <2>2, DataFields, ListFields DEF ListFor, GoodList, TypeGood
    <3> QED
      BY <2>4, <3>1, UpdateFromChildFacts
  <2>8. CASE cmd.type = "CUELIST"
    <3>1. key = CueLists /\ e = RemoveOrphanedCues(u)
      BY <1>1, <2>3, <2>8, CueListsIsKey
    <3>2. DataMirrors(s, e) /\ e.lists[CueLists] = u.lists[CueLists]
      BY <2>4, <2>5, <2>6, <3>1, RemoveOrphanedCuesMirrors
    <3>3. e.status = u.status
      BY <2>5, <3>1, AllIsRequested, RemoveOrphanedCuesGood
    <3> QED
      BY <1>4, <2>2, <2>4, <2>7, <3>1, <3>2, <3>3 DEF Accepts
  <2>9. CASE cmd.type # "CUELIST"
    <3>1. key # CueLists /\ e = u
      BY <1>1, <2>3, <2>9 DEF CueLists
    <3>2. CuesListed(s, u)
      <4>1. CuesListed(s, d) /\ \A j \in ShowLists \ {key} : s[j] = s[j]
        BY DEF DataMirrors
      <4> HIDE DEF key
      <4> QED
        BY <1>4, <3>1, <4>1, PutListed DEF u
    <3>3. DataMirrors(s, e)
      BY <2>6, <3>1, <3>2 DEF DataMirrors
    <3> QED
      BY <1>4, <2>2, <2>4, <2>7, <3>1, <3>3 DEF Accepts
  <2> QED
    BY <2>8, <2>9
<1> QED
  BY <1>3, <1>4, DataFields DEF SyncStatusValue

(***************************************************************************)
(* A notification: the mirror forgets what may have changed and goes from  *)
(* one view to the next; it is not synchronised then.  The cue list of an  *)
(* entry it names is known and has to be asked for.                        *)
(***************************************************************************)
LEMMA RecvNotifyMirrors ==
  ASSUME NEW s \in View, NEW t \in View, NEW d, GoodData(d), DataMirrors(s, d),
         NEW cmd \in Command, cmd.kind = "notify", NoticeIsOf(cmd, s, t), Ready(d, cmd),
         NEW e, e = RecvNotify(d, cmd)
  PROVE  /\ DataMirrors(t, e) /\ e.status.value # "COMPLETE"
         /\ \A n \in cmd.nums : KeyOf(cmd) = CueLists /\ CueListsCounted(e) =>
              Invalidated(e.lists[CueLists], n)
<1> DEFINE key     == KeyOf(cmd)
           creates == key[1] = "CUE" /\ key \notin DOMAIN d.lists /\ d.cueMap
           dummy   == InitializeAsDummy(NewList("CUE", key[2]))
           base    == IF creates THEN WithCueLists(d, [k \in {key} |-> dummy]) ELSE d
           after   == NotifyList(base.lists[key], cmd.nums, cmd.hasArgs, FALSE)
<1>1. /\ key = Route(cmd) /\ key \in MirrorKey /\ key \in ShowLists /\ key = <<key[1], key[2]>>
      /\ key # DummyKey /\ cmd.nums \in SUBSET Num /\ 0 \notin cmd.nums /\ cmd.hasArgs \in BOOLEAN
      /\ key[1] = cmd.type /\ key[2] = cmd.listId
  BY CommandCases, MirrorKeyFacts, ShowListFacts DEF KeyOf, NoticeIsOf
<1>2. /\ cmd.hasArgs => cmd.nums # {}
      /\ ChangesOnly(s, t, key, IF cmd.hasArgs THEN cmd.nums ELSE Num)
      /\ \A j \in ShowLists \ {key} : t[j] = s[j]
  BY DEF NoticeIsOf, ChangesOnly
<1>3. \A j : j # key => TargetKeys(t, j) = TargetKeys(s, j) /\ (j \in ShowLists => t[j] = s[j])
  BY <1>2 DEF TargetKeys
<1>4. CASE d.status.value = "UNINITIALIZED"
  <2>1. e = d /\ DOMAIN d.lists = {} /\ ~d.cueMap
    BY <1>4 DEF RecvNotify, GoodData, StatusGood, DataMirrors, ListsThere
  <2> QED
    BY <1>4, <2>1, NoListsMirror DEF CueListsCounted
<1>5. CASE d.status.value # "UNINITIALIZED" /\ ~creates /\ key \notin DOMAIN d.lists
  <2>1. e = d
    BY <1>1, <1>5 DEF RecvNotify
  <2>2. key[1] = "CUE" /\ ~d.cueMap
    BY <1>1, <1>5, ShowListFacts, ZenonT(40) DEF DataMirrors, ListsThere
  <2>3. ~CueListsKnown(d)
    BY <2>2 DEF DataMirrors, CuesKnown
  <2>4. CueLists # key
    BY <2>2, ShowListFacts
  <2>5. ListsMirror(t, d)
    <3> SUFFICES ASSUME NEW k \in DOMAIN d.lists PROVE ListMirrors(t, k, d.lists[k])
      BY DEF ListsMirror
    <3>1. k # key /\ ListMirrors(s, k, d.lists[k])
      BY <1>5 DEF DataMirrors, ListsMirror
    <3>2. \A i \in TargetKeys(s, k) : k \in ShowLists
      BY DEF TargetKeys
    <3> HIDE DEF key
    <3> QED
      BY <1>3, <3>1, <3>2 DEF ListMirrors, TargetMirrors
  <2>6. ListsCover(t, d)
    <3> SUFFICES ASSUME NEW k \in DOMAIN d.lists, k[1] # "CUE" PROVE Covers(t, k, d.lists[k])
      BY <2>3 DEF ListsCover
    <3>1. k # key /\ Covers(s, k, d.lists[k])
      BY <1>5 DEF DataMirrors, ListsCover
    <3> HIDE DEF key
    <3> QED
      BY <1>3, <3>1 DEF Covers
  <2>7. CuesKnown(t, d) /\ CuesListed(t, d) /\ ListsThere(d)
    <3> HIDE DEF key
    <3> QED
      BY <1>3, <2>3, <2>4 DEF DataMirrors, CuesKnown, CuesListed, HasCueList
  <2>8. d.status.value # "COMPLETE"
    <3>1. CueLists \in DOMAIN d.lists /\ GoodList(d.lists[CueLists])
      <4>1. CueLists \in ShowLists
        BY <1>1, <2>2, ShowListFacts
      <4>2. CueLists \in DOMAIN d.lists
        BY <1>5, <4>1, ShowListFacts DEF DataMirrors, ListsThere, CueLists
      <4> QED
        BY <4>2, DataFields
    <3> QED
      BY <2>3, <3>1 DEF CueListsKnown, GoodData, StatusGood, GoodList, CompleteGood
  <2> QED
    BY <1>5, <2>1, <2>4, <2>5, <2>6, <2>7, <2>8 DEF DataMirrors
<1>6. CASE d.status.value # "UNINITIALIZED" /\ (creates \/ key \in DOMAIN d.lists)
  <2>1. PICK l : /\ ListFor(key, l) /\ base.lists[key] = l /\ key \in DOMAIN base.lists
                 /\ WithList(base, key, after) = Put(d, key, after)
                 /\ ListMirrors(s, key, l)
                 /\ key[1] # "CUE" \/ CueListsKnown(d) => Covers(s, key, l)
                 /\ key[1] = "CUE" => CueLists \in DOMAIN d.lists
                 /\ key[1] # "CUE" => key \in DOMAIN d.lists /\ l = d.lists[key]
    <3>1. CASE creates
      <4>1. /\ TypeGood(NewList("CUE", key[2])) /\ NewList("CUE", key[2]).type = "CUE"
            /\ NewList("CUE", key[2]).listId = key[2]
        BY NewListGood DEF GoodList
      <4>2. GoodList(dummy) /\ dummy.type = "CUE" /\ dummy.listId = key[2]
        BY <4>1, DummyGood
      <4>3. ListFor(key, dummy)
        BY <3>1, <4>2, IdleLists DEF ListFor
      <4>4. base.lists[key] = dummy /\ key \in DOMAIN base.lists
        BY <3>1 DEF WithCueLists
      <4>5. WithList(base, key, after) = Put(d, key, after)
        <5> HIDE DEF after, dummy
        <5> QED
          BY <3>1, WithListPuts DEF GoodData
      <4>6. ListMirrors(s, key, dummy) /\ (TargetKeys(s, key) = {} => Covers(s, key, dummy))
        BY FreshLists
      <4>7. CueListsKnown(d) => TargetKeys(s, key) = {}
        BY <1>1, <3>1 DEF DataMirrors, CuesKnown
      <4>8. CueLists \in DOMAIN d.lists
        BY <3>1 DEF DataMirrors, ListsThere
      <4> QED
        BY <3>1, <4>3, <4>4, <4>5, <4>6, <4>7, <4>8
    <3>2. CASE ~creates
      <4>1. key \in DOMAIN d.lists /\ base = d
        BY <1>6, <3>2
      <4>2. /\ ListFor(key, d.lists[key]) /\ ListMirrors(s, key, d.lists[key])
            /\ key[1] # "CUE" \/ CueListsKnown(d) => Covers(s, key, d.lists[key])
            /\ key[1] = "CUE" => CueLists \in DOMAIN d.lists
        BY <4>1 DEF GoodData, ListsGood, DataMirrors, ListsMirror, ListsCover, ListsThere
      <4>3. WithList(base, key, after) = Put(d, key, after)
        <5> HIDE DEF after
        <5> QED
          BY <4>1, WithListPuts DEF GoodData
      <4> QED
        BY <4>1, <4>2, <4>3
    <3> QED
      BY <3>1, <3>2
  <2>2. e = WithList(base, key, after)
    BY <1>1, <1>6, <2>1 DEF RecvNotify, DummyKey
  <2>3. after = AfterNotice(l, cmd)
    BY <2>1 DEF AfterNotice
  <2>4. \/ key \notin DOMAIN d.lists /\ key[1] = "CUE"
        \/ key \in DOMAIN d.lists
    BY <1>6
  <2> HIDE DEF after, base, dummy, creates
  <2>5. PICK nums \in SUBSET Num : nums = cmd.nums
    BY <1>1
  <2>6. PICK m : m = AfterNotice(l, cmd)
    OBVIOUS
  <2>7. GoodList(l) /\ l.type = key[1] /\ l.listId = key[2] /\ \A n \in Num : n = 0 => l.entry[n] = "absent"
    BY <2>1 DEF ListFor
  <2>8. Notified(s, t, key, l, cmd, m)
    <3> HIDE DEF key
    <3> QED
      BY <1>1, <1>2, <2>1, <2>5, <2>6, <2>7, NotifyListMirrors
  <2>9. ListFor(key, m)
    <3> DEFINE r == NotifyList(l, nums, cmd.hasArgs, FALSE)
    <3>1. GoodList(r) /\ r.type = l.type /\ r.listId = l.listId
      BY <1>1, <2>7, NotifyListGood
    <3>2. NoNewEntry(l, r, nums)
      BY <2>7, NotifyListWaits
    <3>3. m = r
      BY <2>5, <2>6 DEF AfterNotice
    <3> HIDE DEF r
    <3> QED
      BY <1>1, <2>5, <2>7, <3>1, <3>2, <3>3 DEF ListFor, NoNewEntry
  <2>10. e = Put(d, key, m)
    BY <2>1, <2>2, <2>3, <2>5, <2>6
  <2>11. /\ e.status = UpdateFromChild(d.status, m.status) /\ e.lists[key] = m
    BY <2>10 DEF Put
  <2>12. e.status.value # "COMPLETE"
    <3>1. d.status \in SyncStatus /\ m.status \in SyncStatus
      BY <2>9, DataFields, ListFields DEF ListFor, GoodList, TypeGood
    <3> QED
      BY <2>8, <2>11, <3>1, UpdateFromChildFacts DEF Notified
  <2>13. ListsMirror(t, e) /\ ListsThere(e) /\ ListsCover(t, e) /\ CuesKnown(t, e)
    <3>1. ~(key = CueLists /\ m.complete /\ ~CueListsKnown(d))
      BY <2>1, <2>8, ShowListFacts DEF CueListsKnown, Notified
    <3>2. key[1] # "CUE" \/ CueListsKnown(d) => Covers(t, key, m)
      BY <2>1, <2>8 DEF Notified
    <3> HIDE DEF key
    <3> QED
      BY <1>2, <2>1, <2>8, <2>9, <2>10, <3>1, <3>2, PutMirrors DEF Notified
  <2>14. CuesListed(t, e)
    <3>1. CuesListed(s, d)
      BY DEF DataMirrors
    <3>2. ASSUME key = CueLists, m.internal = "COMPLETE"
          PROVE  CueListsCounted(d) /\ \A n \in Num : HasCueList(s, d, n) =>
                   m.entry[n] # "absent" \/ <<n, 0>> \in TargetKeys(t, CueLists)
      <4>1. CueLists \in DOMAIN d.lists /\ l = d.lists[CueLists]
        BY <2>1, <3>2, ShowListFacts
      <4>2. l.complete /\ cmd.hasArgs /\ l.internal = "COMPLETE"
        <5>1. l.complete /\ cmd.hasArgs
          BY <2>8, <3>2 DEF Notified
        <5> QED
          BY <2>7, <5>1, ListFields DEF GoodList, PhaseGood
      <4>3. CueListsCounted(d)
        BY <4>1, <4>2 DEF CueListsCounted
      <4>4. ASSUME NEW n \in Num, HasCueList(s, d, n), n \notin nums
            PROVE  l.entry[n] # "absent" \/ <<n, 0>> \in TargetKeys(t, CueLists)
        <5>1. ASSUME <<n, 0>> \in TargetKeys(s, CueLists) PROVE <<n, 0>> \in TargetKeys(t, CueLists)
          <6>1. \A k \in ShowTargets[CueLists] : k[1] \notin nums => t[CueLists][k] = s[CueLists][k]
            BY <1>2, <2>5, <3>2, <4>2 DEF ChangesOnly
          <6> QED
            BY <4>4, <5>1, <6>1 DEF TargetKeys
        <5> QED
          BY <4>1, <4>4, <5>1 DEF HasCueList
      <4> QED
        BY <2>5, <2>8, <3>2, <4>3, <4>4 DEF Notified
    <3>3. ASSUME key[1] = "CUE", key[2] # 0, key \notin DOMAIN d.lists, CueListsCounted(d)
          PROVE  HasCueList(s, d, key[2])
      <4>1. key[2] \in Num
        BY <1>1, <3>3, ShowListFacts
      <4>2. CASE cmd.before # Garbled
        BY <1>1, <3>3, <4>1, <4>2 DEF NoticeIsOf, HasCueList
      <4>3. CASE cmd.before = Garbled
        BY <1>1, <3>3, <4>1, <4>3 DEF Ready, Second, Invalidated, HasCueList
      <4> QED
        BY <4>2, <4>3
    <3> HIDE DEF key
    <3> QED
      BY <1>2, <2>10, <3>1, <3>2, <3>3, PutListed
  <2>15. ASSUME NEW n \in cmd.nums, key = CueLists, CueListsCounted(e)
         PROVE  Invalidated(e.lists[CueLists], n)
    <3>1. m.internal = "COMPLETE" /\ e.lists[CueLists] = m
      BY <2>11, <2>15 DEF CueListsCounted
    <3> QED
      BY <1>1, <2>8, <3>1 DEF Invalidated, Notified
  <2> QED
    BY <2>12, <2>13, <2>14, <2>15 DEF DataMirrors
<1> QED
  BY <1>4, <1>5, <1>6

IsReply(m) == m.kind \in {"count", "target"}

\* The mirror has been told nothing.
Unheard(d) == \A key \in DOMAIN d.lists : d.lists[key].internal # "COMPLETE"

\* What a packet makes of a mirror d that showed the view before it.
Reaction(d, cmd, t, e) ==
  /\ DataMirrors(t, e) /\ GoodData(e)
  /\ e.status.value = "COMPLETE" => e = d /\ IsReply(cmd)
  /\ d.status.value = "COMPLETE" /\ IsReply(cmd) => e = d
  /\ Unheard(d) /\ cmd.kind = "show" => Unheard(e)
  /\ \A n : Precedes(cmd, n) => Ready(e, n)

(***************************************************************************)
(* A packet takes the mirror from one view to the next.  It is not         *)
(* synchronised afterwards unless it was before and the packet is a reply, *)
(* which it ignores.                                                       *)
(***************************************************************************)
LEMMA RecvCmdMirrors ==
  ASSUME NEW s \in View, NEW t \in View, NEW d, GoodData(d), DataMirrors(s, d),
         NEW cmd \in Command, s \in Shows \/ Second(cmd), Explains(cmd, s, t), Ready(d, cmd),
         NEW e, e = RecvCmd(d, cmd).data
  PROVE  Reaction(d, cmd, t, e)
<1>1. GoodData(e)
  <2>1. Awaits(d, Request, {} \cup {cmd})
    BY AllIsRequested
  <2> QED
    BY <2>1, RecvCmdGood
<1>2. CASE cmd.kind \in {"count", "target"}
  <2>1. e = RecvReply(d, cmd).data /\ s \in Shows /\ t = s
    BY <1>2 DEF RecvCmd, Second, Explains
  <2>2. /\ DataMirrors(s, e)
        /\ d.status.value # "RUNNING" => e = d
        /\ e.status.value = "COMPLETE" => d.status.value = "COMPLETE"
        /\ cmd.kind = "target" /\ cmd.args # <<>> /\ Accepts(e, KeyOf(cmd)) =>
             TargetOf(cmd) \in e.lists[KeyOf(cmd)].live
    BY <1>2, <2>1, RecvReplyMirrors
  <2>3. \A n : Precedes(cmd, n) => Ready(e, n)
    BY <1>2, <2>2 DEF Precedes, Ready
  <2> QED
    BY <1>1, <1>2, <2>1, <2>2, <2>3 DEF Reaction, IsReply
<1>3. CASE cmd.kind = "notify"
  <2>1. e = RecvNotify(d, cmd) /\ NoticeIsOf(cmd, s, t)
    BY <1>3 DEF RecvCmd, Explains
  <2>2. /\ DataMirrors(t, e) /\ e.status.value # "COMPLETE"
        /\ \A n \in cmd.nums : KeyOf(cmd) = CueLists /\ CueListsCounted(e) =>
              Invalidated(e.lists[CueLists], n)
    BY <1>3, <2>1, RecvNotifyMirrors
  <2>3. \A n : Precedes(cmd, n) => Ready(e, n)
    BY <1>3, <2>2 DEF Precedes, Ready
  <2> QED
    BY <1>1, <1>3, <2>2, <2>3 DEF Reaction, IsReply
<1>4. CASE cmd.kind = "show"
  <2>1. e = RecvShowEvent(d)
    BY <1>4 DEF RecvCmd
  <2>2. DOMAIN e.lists = {} /\ e.status.value = "UNINITIALIZED" /\ ~e.cueMap
    <3>1. CASE d.status.value = "UNINITIALIZED"
      BY <2>1, <3>1 DEF RecvShowEvent, GoodData, StatusGood, DataMirrors, ListsThere
    <3>2. CASE d.status.value # "UNINITIALIZED"
      BY <2>1, <3>2 DEF RecvShowEvent, ClearData, NoLists, SetValue
    <3> QED
      BY <3>1, <3>2
  <2>3. \A n : ~Precedes(cmd, n) \/ Ready(e, n)
    BY <1>4 DEF Precedes, Ready
  <2> QED
    BY <1>1, <1>4, <2>2, <2>3, NoListsMirror DEF Reaction, IsReply, Unheard
<1> QED
  BY <1>2, <1>3, <1>4, CommandCases

----------------------------------------------------------------------------
(***************************************************************************)
(* A chronicle: H[i] is the view before the packet Q[i], and the last view *)
(* is the show s.  Between the two messages about a change it need not be  *)
(* a show.                                                                 *)
(***************************************************************************)
Chronicle(H, Q, s) ==
  /\ H \in [1..(Len(Q) + 1) -> View] /\ H[Len(Q) + 1] = s /\ s \in Shows
  /\ \A i \in 1..Len(Q) : Explains(Q[i], H[i], H[i + 1]) /\ (H[i] \in Shows \/ Second(Q[i]))

Ordered(Q) == \A i \in 2..Len(Q) : Precedes(Q[i - 1], Q[i])

\* The mirror d has read everything before Q.
UpToDate(H, Q, d) ==
  GoodData(d) /\ DataMirrors(H[1], d) /\ (Len(Q) > 0 => Ready(d, Q[1]))

\* A mirror d becomes e when the first n packets of Q are read.
HasRead(H, Q, n, d, e) ==
  /\ GoodData(e) /\ DataMirrors(H[n + 1], e)
  /\ n < Len(Q) => Ready(e, Q[n + 1])
  /\ e.status.value = "COMPLETE" =>
       (d.status.value = "COMPLETE" => e = d) /\ \A i \in 1..n : IsReply(Q[i])
  /\ d.status.value = "COMPLETE" /\ (\A i \in 1..n : IsReply(Q[i])) => e = d
  /\ Unheard(d) /\ (\A i \in 1..n : Q[i].kind = "show") => Unheard(e)

(***************************************************************************)
(* What the next packet presupposes does not go away by itself.            *)
(***************************************************************************)
LEMMA ReadyGrows ==
  ASSUME NEW m, NEW s, NEW t, Explains(m, s, t), NEW d, NEW e, GoodData(d), Grows(d, e),
         d.status.value = "COMPLETE" => e.status.value = "COMPLETE", Ready(d, m)
  PROVE  Ready(e, m)
<1>1. ASSUME Second(m), CueListsCounted(e)
      PROVE  m.type = "CUE" /\ Invalidated(e.lists[CueLists], m.listId)
  <2>1. m.type = "CUE" /\ CueListsCounted(d) /\ m.listId \in Num
    <3>1. m.type = "CUE" /\ KeyOf(m) \in ShowLists /\ KeyOf(m)[1] = "CUE" /\ KeyOf(m)[2] = m.listId
      BY <1>1 DEF Ready, Explains, Second, NoticeIsOf, KeyOf
    <3>2. CueListsCounted(d)
      BY <1>1, ShowListFacts DEF Grows, CueListsCounted
    <3> QED
      BY <3>1, <3>2, ShowListFacts
  <2>2. Invalidated(d.lists[CueLists], m.listId)
    BY <1>1, <2>1 DEF Ready
  <2> QED
    BY <1>1, <2>1, <2>2, ShowListFacts DEF Grows, CueListsCounted, Invalidated, LivePartsOf
<1>2. ASSUME IsGroup(m), Accepts(e, KeyOf(m))
      PROVE  TargetOf(m) \in e.lists[KeyOf(m)].live
  <2>1. KeyOf(m) # DummyKey
    BY <1>2, ShowListFacts DEF IsGroup, Explains, TargetIsOf, TargetKeys
  <2>2. Accepts(d, KeyOf(m)) /\ e.lists[KeyOf(m)].live = d.lists[KeyOf(m)].live
    <3>1. /\ KeyOf(m) \in DOMAIN d.lists /\ d.lists[KeyOf(m)].internal = "COMPLETE"
          /\ e.lists[KeyOf(m)].live = d.lists[KeyOf(m)].live
      BY <1>2, <2>1 DEF Grows, Accepts
    <3>2. d.status.value = "RUNNING"
      BY <1>2, <3>1, DataFields DEF Accepts, GoodData, StatusGood, SyncStatusValue
    <3> QED
      BY <3>1, <3>2 DEF Accepts
  <2> QED
    BY <1>2, <2>2 DEF Ready
<1> QED
  BY <1>1, <1>2 DEF Ready

(***************************************************************************)
(* A mirror that has been told nothing has nothing to be wrong about, and  *)
(* does not learn anything by itself.                                      *)
(***************************************************************************)
LEMMA UnheardFacts ==
  ASSUME NEW d, GoodData(d), Unheard(d)
  PROVE  /\ \A s, t : DataMirrors(s, d) => DataMirrors(t, d)
         /\ \A e : Grows(d, e) => Unheard(e)
<1>1. \A key \in DOMAIN d.lists : /\ d.lists[key].live = {} /\ ~d.lists[key].complete
                                 /\ d.lists[key].status.value = "UNINITIALIZED"
  BY DataFields DEF Unheard, GoodList, PhaseGood
<1>2. ASSUME NEW s, NEW t, DataMirrors(s, d) PROVE DataMirrors(t, d)
  <2>1. ListsMirror(t, d) /\ ListsCover(t, d)
    BY <1>1 DEF ListsMirror, ListsCover, ListMirrors, Covers, Unheard
  <2>2. CuesKnown(t, d) /\ CuesListed(t, d)
    BY <1>1 DEF CuesKnown, CuesListed, CueListsKnown, CueListsCounted, Unheard
  <2> QED
    BY <1>2, <2>1, <2>2 DEF DataMirrors
<1>3. ASSUME NEW e, Grows(d, e) PROVE Unheard(e)
  <2>1. DummyKey \notin DOMAIN d.lists
    BY <1>1 DEF GoodData, DummyComplete
  <2>2. ~CueListsCounted(d)
    BY DEF Unheard, CueListsCounted
  <2> QED
    BY <1>3, <2>1, <2>2 DEF Grows, Unheard
<1> QED
  BY <1>2, <1>3

(***************************************************************************)
(* The packets of one read, one after the other.                           *)
(***************************************************************************)
LEMMA RecvMirrors ==
  ASSUME NEW run, NEW Q \in Seq(Command), NEW H, NEW s, Chronicle(H, Q, s), Ordered(Q),
         UpToDate(H, Q, run.data), NEW n \in 0..Len(Q),
         NEW e, e = Recv(run, SubSeq(Q, 1, n)).data
  PROVE  HasRead(H, Q, n, run.data, e)
<1> DEFINE cmds == SubSeq(Q, 1, n)
<1>1. n \in Nat /\ Len(Q) \in Nat /\ cmds \in Seq(Command) /\ Len(cmds) = n
      /\ \A i \in 1..n : cmds[i] = Q[i] /\ Q[i] \in Command /\ i \in 1..Len(Q) /\ i \in Nat
  OBVIOUS
<1>2. PICK after : RecvsFirst(after, run, cmds, Len(cmds)) /\ Recv(run, cmds) = after[Len(cmds)]
  <2> HIDE DEF cmds
  <2> QED
    BY <1>1, RecvIsFold
<1> HIDE DEF cmds
<1>3. after[0] = run /\ \A i \in 1..n : after[i] = RecvOne(after[i - 1], Q[i])
  <2>1. 0 \in 0..n /\ \A i \in 1..n : i \in 0..n /\ i # 0
    BY <1>1
  <2> QED
    BY <1>1, <1>2, <2>1 DEF RecvsFirst
<1> DEFINE Good(d, i) ==
             /\ GoodData(d) /\ DataMirrors(H[i + 1], d)
             /\ i < Len(Q) => Ready(d, Q[i + 1])
             /\ d.status.value = "COMPLETE" => d = run.data /\ \A j \in 1..i : IsReply(Q[j])
             /\ run.data.status.value = "COMPLETE" /\ (\A j \in 1..i : IsReply(Q[j])) => d = run.data
             /\ Unheard(run.data) /\ (\A j \in 1..i : Q[j].kind = "show") => Unheard(d)
           T == {i \in 0..n : Good(after[i].data, i)}
<1>4. 0 \in T
  <2>1. Good(run.data, 0)
    BY <1>1 DEF UpToDate
  <2>2. 0 \in 0..n
    BY <1>1
  <2> HIDE DEF Good
  <2> QED
    BY <1>3, <2>1, <2>2
<1>5. \A i \in 1..n : i - 1 \in T => i \in T
  <2> SUFFICES ASSUME NEW i \in 1..n, i - 1 \in T PROVE i \in T
    OBVIOUS
  <2>1. PICK a, b, cmd : a = after[i - 1].data /\ b = after[i].data /\ cmd = Q[i]
    OBVIOUS
  <2>2. /\ b = RecvCmd(a, cmd).data /\ i \in 0..n /\ i \in Nat /\ i \in 1..Len(Q) /\ cmd \in Command
        /\ (i - 1) + 1 = i /\ i - 1 < Len(Q) /\ i - 1 \in Nat
    <3>1. after[i] = RecvOne(after[i - 1], Q[i])
      BY <1>3
    <3>2. b = RecvCmd(a, cmd).data
      BY <2>1, <3>1 DEF RecvOne
    <3>3. i \in 1..Len(Q) /\ cmd \in Command /\ i \in Nat
      BY <1>1, <2>1
    <3>4. i \in 0..n /\ (i - 1) + 1 = i /\ i - 1 < Len(Q) /\ i - 1 \in Nat
      BY <1>1, <3>3
    <3> QED
      BY <3>2, <3>3, <3>4
  <2>3. Good(a, i - 1)
    BY <2>1
  <2>4. GoodData(a) /\ DataMirrors(H[i], a) /\ Ready(a, cmd)
    BY <2>1, <2>2, <2>3
  <2>5. /\ H[i] \in View /\ H[i + 1] \in View /\ Explains(cmd, H[i], H[i + 1])
        /\ H[i] \in Shows \/ Second(cmd)
    <3>1. i \in 1..(Len(Q) + 1) /\ i + 1 \in 1..(Len(Q) + 1)
      BY <1>1, <2>2
    <3> QED
      BY <2>1, <2>2, <3>1 DEF Chronicle
  <2>6. Reaction(a, cmd, H[i + 1], b)
    BY <2>2, <2>4, <2>5, RecvCmdMirrors
  <2>7. i < Len(Q) => Ready(b, Q[i + 1])
    <3> SUFFICES ASSUME i < Len(Q) PROVE Precedes(cmd, Q[i + 1])
      BY <2>6 DEF Reaction
    <3>1. i + 1 \in 2..Len(Q) /\ (i + 1) - 1 = i
      BY <1>1, <2>2
    <3> QED
      BY <2>1, <3>1 DEF Ordered
  <2>8. \A j \in 1..i : j = i \/ j \in 1..(i - 1)
    BY <2>2
  <2>9. i \in 1..i /\ \A j \in 1..(i - 1) : j \in 1..i
    BY <2>2
  <2>10. Good(b, i)
    BY <2>1, <2>3, <2>6, <2>7, <2>8, <2>9 DEF Reaction
  <2> HIDE DEF Good
  <2> QED
    BY <2>1, <2>2, <2>10
<1>6. Good(after[n].data, n)
  <2>1. n \in 0..n
    BY <1>1
  <2> HIDE DEF T
  <2>2. \A i \in 0..n : i \in T
    BY <1>1, <1>4, <1>5, Induction
  <2>3. n \in T
    BY <2>1, <2>2
  <2> QED
    BY <2>3 DEF T
<1>7. e = after[n].data
  BY <1>1, <1>2 DEF cmds
<1> QED
  BY <1>6, <1>7 DEF HasRead

(***************************************************************************)
(* A tick of the mirror on the first n packets: it shows the view after    *)
(* them.  It can only be synchronised afterwards if they are all replies,  *)
(* and is not affected by them if it was before.                           *)
(***************************************************************************)
LEMMA DataTickMirrors ==
  ASSUME NEW d, NEW Q \in Seq(Command), NEW H, NEW s, Chronicle(H, Q, s), Ordered(Q),
         UpToDate(H, Q, d), NEW n \in 0..Len(Q),
         NEW e, e = DataTick(d, SubSeq(Q, 1, n)).data
  PROVE  HasRead(H, Q, n, d, e)
<1> DEFINE run == OwnSteps(d)
           cmds == SubSeq(Q, 1, n)
<1>1. e = Recv(run, cmds).data
  <2>1. DataTick(d, cmds) = Recv(run, cmds)
    BY DEF DataTick, OwnSteps
  <2> HIDE DEF run, cmds
  <2> QED
    BY <2>1 DEF cmds
<1>2. Len(Q) \in Nat /\ 1 \in 1..(Len(Q) + 1) /\ (Len(Q) > 0 => 1 \in 1..Len(Q)) /\ Len(Q) + 1 >= 1
  OBVIOUS
<1>3. H[1] \in View /\ (H[1] \in Shows \/ Settled(d))
  <2>1. H[1] \in View
    BY <1>2 DEF Chronicle
  <2>2. CASE Len(Q) > 0
    <3>1. H[1] \in Shows \/ Second(Q[1])
      BY <1>2, <2>2 DEF Chronicle
    <3>2. Second(Q[1]) => Settled(d)
      BY <2>2 DEF UpToDate, Ready, Settled, Invalidated, CueListsKnown, CueListsCounted
    <3> QED
      BY <2>1, <3>1, <3>2
  <2>3. CASE Len(Q) = 0
    <3>1. Len(Q) + 1 = 1
      BY <2>3
    <3> QED
      BY <2>1, <3>1 DEF Chronicle
  <2> QED
    BY <1>2, <2>2, <2>3
<1>4. /\ DataMirrors(H[1], run.data) /\ Grows(d, run.data) /\ GoodData(run.data)
      /\ d.status.value = "COMPLETE" => run.data = d
  <2>1. GoodData(d) /\ DataMirrors(H[1], d)
    BY DEF UpToDate
  <2> QED
    BY <1>3, <2>1, OwnStepsMirror
<1> HIDE DEF run
<1>5. Len(Q) > 0 => Ready(run.data, Q[1])
  <2> SUFFICES ASSUME Len(Q) > 0 PROVE Ready(run.data, Q[1])
    OBVIOUS
  <2>1. Explains(Q[1], H[1], H[1 + 1]) /\ GoodData(d) /\ Ready(d, Q[1])
    BY <1>2 DEF Chronicle, UpToDate
  <2> QED
    BY <1>4, <2>1, ReadyGrows
<1>6. UpToDate(H, Q, run.data)
  BY <1>4, <1>5 DEF UpToDate
<1>7. HasRead(H, Q, n, run.data, e)
  <2>1. PICK r : r = run
    OBVIOUS
  <2>2. UpToDate(H, Q, r.data) /\ e = Recv(r, SubSeq(Q, 1, n)).data
    BY <1>1, <1>6, <2>1
  <2>3. HasRead(H, Q, n, r.data, e)
    BY <2>2, RecvMirrors
  <2> QED
    BY <2>1, <2>3
<1>8. Unheard(d) => Unheard(run.data)
  BY <1>4, UnheardFacts DEF UpToDate
<1> QED
  BY <1>4, <1>7, <1>8 DEF HasRead

(***************************************************************************)
(* Reading the changes changes nothing about what is shown.                *)
(***************************************************************************)
LEMMA ClearDirtyMirrors ==
  ASSUME NEW s, NEW d, GoodData(d), d.status.dirty, DataMirrors(s, d), NEW e, e = ClearDirtyData(d)
  PROVE  DataMirrors(s, e) /\ Grows(d, e) /\ e.status.value = d.status.value
         /\ (Unheard(d) => Unheard(e))
<1>1. e = [status |-> ClearDirty(d.status),
           lists  |-> [k \in DOMAIN d.lists |-> ClearDirtyList(d.lists[k])],
           cueMap |-> d.cueMap]
  BY DEF ClearDirtyData
<1>2. /\ DOMAIN e.lists = DOMAIN d.lists /\ e.cueMap = d.cueMap
      /\ \A k \in DOMAIN d.lists : e.lists[k] = ClearDirtyList(d.lists[k])
  BY <1>1
<1>3. e.status.value = d.status.value
  BY <1>1, DataFields DEF ClearDirty, SyncStatus
<1>4. ASSUME NEW l, GoodList(l), NEW m, m = ClearDirtyList(l)
      PROVE  /\ m.live = l.live /\ m.entry = l.entry /\ m.uidLookup = l.uidLookup /\ m.live \in SUBSET Key
             /\ m.internal = l.internal /\ m.count = l.count /\ m.complete = l.complete
             /\ \A k \in Key : m.target[k].groups = l.target[k].groups
  <2>1. l \in ListOf(l.type, l.listId) /\ l.live \in SUBSET Key
    BY <1>4, ListFields DEF GoodList, TypeGood
  <2>2. /\ m.live = l.live /\ m.entry = l.entry /\ m.uidLookup = l.uidLookup
        /\ m.internal = l.internal /\ m.count = l.count /\ m.complete = l.complete
    BY <1>4, <2>1 DEF ClearDirtyList, ListOf
  <2> QED
    BY <1>4, <2>1, <2>2, ClearDirtyListGood
<1>5. ASSUME NEW k \in DOMAIN d.lists
      PROVE  /\ e.lists[k].live = d.lists[k].live /\ e.lists[k].entry = d.lists[k].entry
             /\ e.lists[k].internal = d.lists[k].internal /\ e.lists[k].complete = d.lists[k].complete
             /\ ListMirrors(s, k, e.lists[k])
  <2>1. PICK l, m : l = d.lists[k] /\ m = e.lists[k]
    OBVIOUS
  <2>2. GoodList(l) /\ m = ClearDirtyList(l) /\ ListMirrors(s, k, l)
    BY <1>2, <2>1, DataFields DEF DataMirrors, ListsMirror
  <2>3. /\ m.live = l.live /\ m.entry = l.entry /\ m.uidLookup = l.uidLookup /\ m.live \in SUBSET Key
        /\ m.internal = l.internal /\ m.count = l.count /\ m.complete = l.complete
        /\ \A j \in Key : m.target[j].groups = l.target[j].groups
    BY <1>4, <2>2
  <2>4. ListMirrors(s, k, m)
    BY <2>2, <2>3 DEF ListMirrors, TargetMirrors, TargetShows
  <2> QED
    BY <2>1, <2>3, <2>4
<1>6. DataMirrors(s, e)
  <2>1. ListsMirror(s, e)
    BY <1>2, <1>5 DEF ListsMirror
  <2>2. ListsCover(s, e)
    BY <1>2, <1>5 DEF DataMirrors, ListsCover, Covers, CueListsKnown
  <2>3. CuesKnown(s, e)
    BY <1>2, <1>5 DEF DataMirrors, CuesKnown, CueListsKnown
  <2>4. CuesListed(s, e)
    BY <1>2, <1>5 DEF DataMirrors, CuesListed, CueListsCounted, HasCueList
  <2>5. ListsThere(e)
    BY <1>2, <1>3 DEF DataMirrors, ListsThere
  <2> QED
    BY <2>1, <2>2, <2>3, <2>4, <2>5 DEF DataMirrors
<1>7. Grows(d, e)
  BY <1>2, <1>5 DEF Grows
<1> QED
  BY <1>3, <1>6, <1>7, UnheardFacts

----------------------------------------------------------------------------
(* A synchronised mirror. *)

\* Each number is one target.  The console sends the parts of a cue in packets of
\* their own, and the mirror is content with the first.
OnePart ==
  \A key \in ShowLists : \A j, k \in ShowTargets[key] :
    /\ j[1] = k[1] => j = k
    /\ key[1] \notin {"CUE", "PATCH"} => k[2] = 0

(***************************************************************************)
(* A complete target that shows c is read as c.                            *)
(***************************************************************************)
LEMMA ContentIsRead ==
  ASSUME NEW type, NEW o \in Target(type), GotAllProps(o.groups), NEW c \in Contents, TargetShows(o, c)
  PROVE  TargetContent(o) = c
<1> DEFINE says(b) == \A g \in DOMAIN o.groups : Values(o.groups[g].props) = ContentArgs(b)
<1>1. says(c)
  BY DEF TargetShows, GotAllProps
<1>2. ASSUME NEW b \in Contents, says(b) PROVE b = c
  <2>1. General \in DOMAIN o.groups
    BY DEF Target, PropGroups
  <2>2. ContentArgs(b) = ContentArgs(c)
    BY <1>1, <1>2, <2>1
  <2> QED
    BY <2>2, ContentFacts
<1>3. TargetContent(o) = IF \E b \in Contents : says(b) THEN CHOOSE b \in Contents : says(b) ELSE Garbled
  BY DEF TargetContent
<1> HIDE DEF says
<1> QED
  BY <1>1, <1>2, <1>3

\* Each list has what the view has, and its targets are read as what they are.
Shown(s) ==
  /\ \A key \in DOMAIN data.lists :
       LET l == data.lists[key]
       IN  /\ l.live = TargetKeys(s, key)
           /\ \A k \in l.live : TargetContent(l.target[k]) = s[key][k]
  /\ \A key \in ShowLists \ DOMAIN data.lists : TargetKeys(s, key) = {}

(***************************************************************************)
(* A synchronised mirror shows all of the view, and nothing else.          *)
(***************************************************************************)
LEMMA SynchronizedShown ==
  ASSUME OnePart, NEW s \in View, GoodData(data), DataMirrors(s, data), IsSynchronized
  PROVE  Shown(s)
<1>1. data.status.value = "COMPLETE"
  BY DEF IsSynchronized
<1>2. ASSUME NEW key \in DOMAIN data.lists
      PROVE  /\ GoodList(data.lists[key]) /\ data.lists[key].status.value = "COMPLETE"
             /\ data.lists[key].complete /\ ListMirrors(s, key, data.lists[key])
  <2>1. GoodList(data.lists[key]) /\ data.lists[key].status.value = "COMPLETE"
    BY <1>1, DataFields DEF GoodData, StatusGood
  <2> QED
    BY <2>1 DEF GoodList, CompleteGood, DataMirrors, ListsMirror
<1>3. CueLists \in DOMAIN data.lists => CueListsKnown(data)
  BY <1>2 DEF CueListsKnown
<1>4. ASSUME NEW key \in DOMAIN data.lists PROVE Covers(s, key, data.lists[key])
  <2>1. key[1] = "CUE" => CueListsKnown(data)
    BY <1>3 DEF DataMirrors, ListsThere
  <2> QED
    BY <2>1 DEF DataMirrors, ListsCover
<1>5. ASSUME NEW key \in DOMAIN data.lists
      PROVE  /\ data.lists[key].live = TargetKeys(s, key)
             /\ \A k \in data.lists[key].live : TargetContent(data.lists[key].target[k]) = s[key][k]
  <2> DEFINE l == data.lists[key]
  <2>1. /\ GoodList(l) /\ l.status.value = "COMPLETE" /\ l.complete /\ ListMirrors(s, key, l)
        /\ Covers(s, key, l)
    BY <1>2, <1>4, <1>5
  <2> HIDE DEF l
  <2>2. /\ l.live \subseteq TargetKeys(s, key) /\ l.live \subseteq Key
        /\ l.target \in [Key -> Target(l.type)]
    BY <2>1, ListFields DEF ListMirrors, TargetMirrors, GoodList, TypeGood
  <2>3. ASSUME NEW k \in TargetKeys(s, key) PROVE k \in l.live
    <3>1. key \in ShowLists /\ k \in ShowTargets[key] /\ k[1] \in Num
      BY <2>3, ViewFacts
    <3>2. l.entry[k[1]] # "absent"
      BY <2>1, <2>3 DEF Covers
    <3>3. PICK part \in Part : <<k[1], part>> \in l.live
      BY <2>1, <3>1, <3>2 DEF GoodList, CompleteGood
    <3>4. <<k[1], part>> \in ShowTargets[key]
      BY <2>2, <3>3, ViewFacts
    <3>5. <<k[1], part>>[1] = k[1]
      OBVIOUS
    <3>6. <<k[1], part>> = k
      BY <3>1, <3>4, <3>5 DEF OnePart
    <3> QED
      BY <3>3, <3>6
  <2>4. ASSUME NEW k \in l.live PROVE TargetContent(l.target[k]) = s[key][k]
    <3>1. PICK o \in Target(l.type) : o = l.target[k]
      BY <2>2, <2>4
    <3>2. GotAllProps(o.groups)
      BY <2>1, <2>4, <3>1 DEF GoodList, CompleteGood, TargetsGood, TargetSound
    <3>3. PICK c \in Contents : c = s[key][k]
      BY <2>2, <2>4, ViewFacts
    <3>4. TargetShows(o, c)
      BY <2>1, <2>4, <3>1, <3>3 DEF ListMirrors, TargetMirrors
    <3> QED
      BY <3>1, <3>2, <3>3, <3>4, ContentIsRead
  <2> QED
    BY <2>2, <2>3, <2>4 DEF l
<1>6. ASSUME NEW key \in ShowLists \ DOMAIN data.lists PROVE TargetKeys(s, key) = {}
  <2>1. key[1] = "CUE"
    BY <1>1, ShowListFacts DEF DataMirrors, ListsThere
  <2>2. CueLists \in DOMAIN data.lists
    <3>1. CueLists \in ShowLists
      BY <2>1, ShowListFacts
    <3> QED
      BY <1>1, <3>1, ShowListFacts DEF DataMirrors, ListsThere, CueLists
  <2> QED
    BY <1>3, <2>1, <2>2 DEF DataMirrors, CuesKnown
<1> QED
  BY <1>5, <1>6 DEF Shown

(***************************************************************************)
(* What an application reads from it.                                      *)
(***************************************************************************)
LEMMA ShownIsMirrored ==
  ASSUME NEW s \in View, GoodData(data), Shown(s)
  PROVE  MirroredShow = s
<1>1. ASSUME NEW key \in ShowLists PROVE ListContent(key) = s[key]
  <2> DEFINE live == IF key \in DOMAIN data.lists THEN data.lists[key].live ELSE {}
             read == [k \in ShowTargets[key] \cup live |->
                        IF k \in live THEN TargetContent(data.lists[key].target[k]) ELSE NoContent]
  <2>1. live = TargetKeys(s, key)
    BY DEF Shown
  <2>2. \A k \in live : TargetContent(data.lists[key].target[k]) = s[key][k]
    BY DEF Shown
  <2>3. ListContent(key) = read
    BY DEF ListContent
  <2>4. TargetKeys(s, key) = {k \in ShowTargets[key] : s[key][k] # NoContent}
    BY DEF TargetKeys
  <2> HIDE DEF live
  <2>5. ShowTargets[key] \cup live = ShowTargets[key]
    BY <2>1, <2>4
  <2>6. \A k \in ShowTargets[key] :
          (IF k \in live THEN TargetContent(data.lists[key].target[k]) ELSE NoContent) = s[key][k]
    BY <2>1, <2>2, <2>4
  <2>7. s[key] = [k \in ShowTargets[key] |-> s[key][k]]
    BY DEF View, TargetsOfList
  <2>8. read = [k \in ShowTargets[key] |-> s[key][k]]
    BY <2>5, <2>6
  <2> QED
    BY <2>3, <2>7, <2>8
<1>2. s = [key \in ShowLists |-> s[key]]
  BY DEF View
<1>3. MirroredShow = [key \in ShowLists |-> s[key]]
  BY <1>1 DEF MirroredShow
<1> QED
  BY <1>2, <1>3

(***************************************************************************)
(* The UID maps of a synchronised mirror agree with its targets.           *)
(***************************************************************************)
LEMMA ShownUids ==
  ASSUME NEW s \in View, GoodData(data), DataMirrors(s, data), Shown(s)
  PROVE  SynchronizedUids
<1> SUFFICES ASSUME NEW key \in DOMAIN data.lists, NEW w \in Uid, NEW k \in Key
             PROVE  data.lists[key].uidLookup[w] = k <=>
                      k \in data.lists[key].live /\ TargetContent(data.lists[key].target[k]).uid = w
  BY DEF SynchronizedUids
<1> DEFINE l == data.lists[key]
<1>1. /\ GoodList(l) /\ ListMirrors(s, key, l)
      /\ \A j \in l.live : TargetContent(l.target[j]) = s[key][j]
  BY DataFields DEF DataMirrors, ListsMirror, Shown
<1> HIDE DEF l
<1>2. \A j \in l.live : s[key][j].uid \in Uid /\ l.uidLookup[s[key][j].uid] = j
  BY <1>1, ViewFacts DEF ListMirrors, TargetMirrors
<1>3. l.uidLookup[w] = k => k \in l.live /\ s[key][k].uid = w
  BY <1>1, <1>2, KeyFacts DEF GoodList, UidGood
<1> QED
  BY <1>1, <1>2, <1>3 DEF l

(***************************************************************************)
(* A synchronised mirror has no cues of a cue list that is not there.      *)
(***************************************************************************)
LEMMA ShownCues ==
  ASSUME OnePart, NEW s \in View, GoodData(data), DataMirrors(s, data), Shown(s), IsSynchronized
  PROVE  NoOrphanedCues
<1> SUFFICES ASSUME NEW key \in DOMAIN data.lists, key[1] = "CUE", key[2] # 0
             PROVE  <<key[2], 0>> \in data.lists[CueLists].live
  BY DEF NoOrphanedCues, CueLists
<1> DEFINE l == data.lists[CueLists]
<1>1. CueLists \in DOMAIN data.lists
  BY DEF DataMirrors, ListsThere
<1>2. GoodList(l) /\ l.status.value = "COMPLETE" /\ l.live = TargetKeys(s, CueLists)
  BY <1>1, DataFields DEF GoodData, StatusGood, IsSynchronized, Shown
<1>3. l.internal = "COMPLETE"
  <2>1. l.complete /\ l.internal \in InternalState
    BY <1>2, ListFields DEF GoodList, CompleteGood, TypeGood
  <2> QED
    BY <1>2, <2>1 DEF GoodList, PhaseGood
<1>4. HasCueList(s, data, key[2])
  BY <1>1, <1>3 DEF DataMirrors, CuesListed, CueListsCounted
<1> HIDE DEF l
<1>5. ASSUME key[2] \in Num, l.entry[key[2]] # "absent" PROVE <<key[2], 0>> \in l.live
  <2>1. PICK part \in Part : <<key[2], part>> \in l.live
    BY <1>2, <1>5 DEF GoodList, CompleteGood
  <2>2. CueLists \in ShowLists /\ <<key[2], part>> \in ShowTargets[CueLists]
    BY <1>2, <2>1, ViewFacts
  <2>3. <<key[2], part>>[2] = 0
    BY <2>2 DEF OnePart, CueLists
  <2> QED
    BY <2>1, <2>3
<1> QED
  BY <1>2, <1>4, <1>5 DEF HasCueList, l

----------------------------------------------------------------------------
(* What the console says. *)

\* A packet that presupposes nothing.
Starts(m) == ~Second(m) /\ ~IsGroup(m)

\* W explains how s becomes t, whatever was said before.
Says(W, s, t) ==
  /\ Ordered(W) /\ (Len(W) > 0 => Starts(W[1]))
  /\ \E G : Chronicle(G, W, t) /\ G[1] = s

\* The chronicle H of Q with more packets is the chronicle K of R.
Continues(H, Q, K, R, t) ==
  /\ Chronicle(K, R, t) /\ K[1] = H[1]
  /\ Len(R) > 0 => IF Len(Q) > 0 THEN R[1] = Q[1] ELSE Starts(R[1])

(***************************************************************************)
(* A chronicle goes on with whatever is said next.                         *)
(***************************************************************************)
LEMMA StoryGoesOn ==
  ASSUME NEW Q \in Seq(Command), NEW W \in Seq(Command), NEW H, NEW s, NEW t,
         Chronicle(H, Q, s), Ordered(Q), Says(W, s, t), NEW R, R = Q \o W
  PROVE  R \in Seq(Command) /\ Ordered(R) /\ \E K : Continues(H, Q, K, R, t)
<1>1. PICK G : Chronicle(G, W, t) /\ G[1] = s
  BY DEF Says
<1>2. PICK q, w : q = Len(Q) /\ w = Len(W) /\ q \in Nat /\ w \in Nat
  <2>1. Len(Q) \in Nat /\ Len(W) \in Nat
    OBVIOUS
  <2> QED
    BY <2>1
<1>3. /\ R \in Seq(Command) /\ Len(R) = q + w
      /\ \A i \in 1..q : R[i] = Q[i] /\ i \in 1..(q + w)
      /\ \A i \in 1..w : R[q + i] = W[i]
      /\ \A i \in 1..(q + w) : i \in 1..q \/ (i > q /\ i - q \in 1..w /\ R[i] = W[i - q])
  <2>1. R \in Seq(Command) /\ Len(R) = q + w
        /\ \A k \in 1..(q + w) : R[k] = IF k <= q THEN Q[k] ELSE W[k - q]
    BY <1>2, JoinFacts
  <2>2. \A i \in 1..q : i \in 1..(q + w) /\ i <= q
    BY <1>2
  <2>3. \A i \in 1..w : q + i \in 1..(q + w) /\ ~(q + i <= q) /\ (q + i) - q = i
    BY <1>2
  <2>4. \A i \in 1..(q + w) : i \in 1..q \/ (i > q /\ i - q \in 1..w /\ ~(i <= q))
    BY <1>2
  <2> QED
    BY <2>1, <2>2, <2>3, <2>4
<1>4. w > 0 => Starts(W[1]) /\ s \in Shows
  <2> SUFFICES ASSUME w > 0 PROVE Starts(W[1]) /\ s \in Shows
    OBVIOUS
  <2>1. Starts(W[1]) /\ 1 \in 1..w
    BY <1>2 DEF Says
  <2> QED
    BY <1>1, <1>2, <2>1 DEF Chronicle, Starts
<1>5. Ordered(R)
  <2> SUFFICES ASSUME NEW i \in 2..(q + w) PROVE Precedes(R[i - 1], R[i])
    BY <1>3 DEF Ordered
  <2>1. CASE i <= q
    <3>1. i \in 1..q /\ i - 1 \in 1..q /\ i \in 2..q
      BY <1>2, <2>1
    <3> QED
      BY <1>2, <1>3, <3>1 DEF Ordered
  <2>2. CASE i = q + 1
    <3>1. w > 0 /\ 1 \in 1..w /\ R[i] = W[1]
      BY <1>2, <1>3, <2>2
    <3> QED
      BY <1>4, <3>1 DEF Starts, Precedes
  <2>3. CASE i > q + 1
    <3>1. i - q \in 2..w /\ i - q \in 1..w /\ (i - q) - 1 \in 1..w
          /\ q + (i - q) = i /\ q + ((i - q) - 1) = i - 1
      BY <1>2, <2>3
    <3>2. R[i] = W[i - q] /\ R[i - 1] = W[(i - q) - 1]
      BY <1>3, <3>1
    <3> QED
      BY <1>2, <3>1, <3>2 DEF Says, Ordered
  <2>4. i <= q \/ i = q + 1 \/ i > q + 1
    BY <1>2
  <2> QED
    BY <2>1, <2>2, <2>3, <2>4
<1> DEFINE K == [i \in 1..(q + w + 1) |-> IF i <= q THEN H[i] ELSE G[i - q]]
<1>6. H \in [1..(q + 1) -> View] /\ H[q + 1] = s /\ G \in [1..(w + 1) -> View] /\ G[w + 1] = t
      /\ t \in Shows /\ s \in Shows
  BY <1>1, <1>2 DEF Chronicle
<1>7. \A i \in 1..(q + 1) : i \in 1..(q + w + 1) /\ K[i] = H[i]
  <2> TAKE i \in 1..(q + 1)
  <2>1. i \in 1..(q + w + 1)
    BY <1>2
  <2>2. CASE i <= q
    BY <2>1, <2>2
  <2>3. CASE i = q + 1
    <3>1. i - q = 1 /\ ~(i <= q)
      BY <1>2, <2>3
    <3> QED
      BY <1>1, <1>6, <2>1, <2>3, <3>1
  <2> QED
    BY <1>2, <2>1, <2>2, <2>3
<1>8. \A i \in (q + 1)..(q + w + 1) : i \in 1..(q + w + 1) /\ i - q \in 1..(w + 1) /\ K[i] = G[i - q]
  BY <1>2
<1>9. K \in [1..(q + w + 1) -> View]
  <2> SUFFICES ASSUME NEW i \in 1..(q + w + 1) PROVE K[i] \in View
    OBVIOUS
  <2>1. i \in 1..(q + 1) \/ i \in (q + 1)..(q + w + 1)
    BY <1>2
  <2> HIDE DEF K
  <2>2. \A j \in 1..(q + 1) : H[j] \in View
    BY <1>6
  <2>3. \A j \in 1..(w + 1) : G[j] \in View
    BY <1>6
  <2> QED
    BY <1>7, <1>8, <2>1, <2>2, <2>3
<1> HIDE DEF K
<1>10. K[q + w + 1] = t /\ K[1] = H[1]
  <2>1. q + w + 1 \in (q + 1)..(q + w + 1) /\ (q + w + 1) - q = w + 1 /\ 1 \in 1..(q + 1)
    BY <1>2
  <2> QED
    BY <1>6, <1>7, <1>8, <2>1
<1>11. \A i \in 1..(q + w) : Explains(R[i], K[i], K[i + 1]) /\ (K[i] \in Shows \/ Second(R[i]))
  <2> SUFFICES ASSUME NEW i \in 1..(q + w)
               PROVE  Explains(R[i], K[i], K[i + 1]) /\ (K[i] \in Shows \/ Second(R[i]))
    OBVIOUS
  <2>1. CASE i \in 1..q
    <3>1. i \in 1..(q + 1) /\ i + 1 \in 1..(q + 1)
      BY <1>2, <2>1
    <3>2. R[i] = Q[i] /\ K[i] = H[i] /\ K[i + 1] = H[i + 1]
      BY <1>3, <1>7, <2>1, <3>1
    <3> QED
      BY <1>2, <2>1, <3>2 DEF Chronicle
  <2>2. CASE i > q /\ i - q \in 1..w /\ R[i] = W[i - q]
    <3>1. i \in (q + 1)..(q + w + 1) /\ i + 1 \in (q + 1)..(q + w + 1) /\ (i + 1) - q = (i - q) + 1
      BY <1>2, <2>2
    <3>2. K[i] = G[i - q] /\ K[i + 1] = G[(i - q) + 1]
      BY <1>8, <3>1
    <3> QED
      BY <1>1, <1>2, <2>2, <3>2 DEF Chronicle
  <2> QED
    BY <1>3, <2>1, <2>2
<1>12. Len(R) > 0 => IF q > 0 THEN R[1] = Q[1] ELSE Starts(R[1])
  <2>1. CASE q > 0
    <3>1. 1 \in 1..q
      BY <1>2, <2>1
    <3> QED
      BY <1>3, <2>1, <3>1
  <2>2. CASE q = 0
    <3> SUFFICES ASSUME Len(R) > 0 PROVE Starts(R[1])
      BY <2>2
    <3>1. w > 0 /\ 1 \in 1..w /\ q + 1 = 1
      BY <1>2, <1>3, <2>2
    <3> QED
      BY <1>3, <1>4, <3>1
  <2> QED
    BY <1>2, <2>1, <2>2
<1>13. Chronicle(K, R, t)
  BY <1>2, <1>3, <1>6, <1>9, <1>10, <1>11 DEF Chronicle
<1>14. Continues(H, Q, K, R, t)
  BY <1>2, <1>10, <1>12, <1>13 DEF Continues
<1> QED
  BY <1>3, <1>5, <1>14

(***************************************************************************)
(* When nothing is said the show stays what it is.                         *)
(***************************************************************************)
LEMMA SaysNothing == ASSUME NEW s \in Shows PROVE <<>> \in Seq(Command) /\ Says(<<>>, s, s)
<1> DEFINE G == [i \in 1..1 |-> s]
<1>1. <<>> \in Seq(Command) /\ Len(<<>>) = 0
  OBVIOUS
<1>2. G \in [1..(0 + 1) -> View] /\ G[0 + 1] = s /\ G[1] = s
  BY ShowIsView
<1> HIDE DEF G
<1>3. Chronicle(G, <<>>, s)
  BY <1>1, <1>2 DEF Chronicle
<1>4. Ordered(<<>>)
  BY <1>1 DEF Ordered
<1> QED
  BY <1>1, <1>2, <1>3, <1>4 DEF Says

(***************************************************************************)
(* One packet, which presupposes nothing, says what it explains.           *)
(***************************************************************************)
LEMMA SaysOne ==
  ASSUME NEW s \in Shows, NEW t \in Shows, NEW m \in Command, Starts(m), Explains(m, s, t)
  PROVE  <<m>> \in Seq(Command) /\ Says(<<m>>, s, t)
<1> DEFINE G == [i \in 1..2 |-> IF i = 1 THEN s ELSE t]
<1>1. PICK W : W = <<m>>
  OBVIOUS
<1>2. W \in Seq(Command) /\ Len(W) = 1 /\ W[1] = m
  BY <1>1
<1>3. G \in [1..(1 + 1) -> View] /\ G[1 + 1] = t /\ G[1] = s
  <2>1. s \in View /\ t \in View
    BY ShowIsView
  <2> QED
    BY <2>1
<1> HIDE DEF G
<1>4. Chronicle(G, W, t)
  BY <1>2, <1>3 DEF Chronicle
<1>5. Ordered(W)
  BY <1>2 DEF Ordered
<1> QED
  BY <1>1, <1>2, <1>3, <1>4, <1>5 DEF Says

(***************************************************************************)
(* Two packets about one change: the first presupposes nothing, the second *)
(* presupposes the first.                                                  *)
(***************************************************************************)
LEMMA SaysTwo ==
  ASSUME NEW s \in Shows, NEW v \in View, NEW t \in Shows, NEW m \in Command, NEW n \in Command,
         Starts(m), Explains(m, s, v), Second(n), Explains(n, v, t), Precedes(m, n)
  PROVE  <<m, n>> \in Seq(Command) /\ Says(<<m, n>>, s, t)
<1> DEFINE G == [i \in 1..3 |-> IF i = 1 THEN s ELSE IF i = 2 THEN v ELSE t]
<1>1. PICK W : W = <<m, n>>
  OBVIOUS
<1>2. W \in Seq(Command) /\ Len(W) = 2 /\ W[1] = m /\ W[2] = n
  BY <1>1
<1>3. G \in [1..(2 + 1) -> View] /\ G[2 + 1] = t /\ G[1] = s /\ G[1 + 1] = v /\ G[2] = v
  <2>1. s \in View /\ t \in View
    BY ShowIsView
  <2> QED
    BY <2>1
<1> HIDE DEF G
<1>4. Chronicle(G, W, t)
  <2>1. \A i \in 1..2 : i = 1 \/ i = 2
    OBVIOUS
  <2> QED
    BY <1>2, <1>3, <2>1 DEF Chronicle
<1>5. Ordered(W)
  <2>1. \A i \in 2..2 : i = 2 /\ i - 1 = 1
    OBVIOUS
  <2> QED
    BY <1>2, <2>1 DEF Ordered
<1> QED
  BY <1>1, <1>2, <1>3, <1>4, <1>5 DEF Says

----------------------------------------------------------------------------
(* Answers are true of the show, and complete. *)

(***************************************************************************)
(* Packets that come one by one.                                           *)
(***************************************************************************)
LEMMA FlattenOnes ==
  ASSUME NEW S, NEW r \in Seq(S), Len(r) >= 1, NEW ones, ones = [i \in 1..Len(r) |-> <<r[i]>>]
  PROVE  FlattenSeq(ones) = r
<1> DEFINE N == Len(r)
<1>1. N \in Nat /\ N >= 1 /\ r \in [1..N -> S] /\ \A i \in 1..N : r[i] \in S
  OBVIOUS
<1>2. /\ ones \in Seq(Seq(S)) /\ Len(ones) = N /\ ones # <<>>
      /\ \A i \in 1..N : ones[i] \in Seq(S) /\ Len(ones[i]) = 1 /\ ones[i][1] = r[i]
  <2>1. \A i \in 1..N : <<r[i]>> \in Seq(S) /\ Len(<<r[i]>>) = 1 /\ <<r[i]>>[1] = r[i]
    BY <1>1
  <2>2. ones \in [1..N -> Seq(S)]
    BY <2>1
  <2>3. \A i \in 1..N : ones[i] = <<r[i]>>
    OBVIOUS
  <2> QED
    BY <1>1, <2>1, <2>2, <2>3
<1>3. PICK f : JoinsFirst(f, ones) /\ FlattenSeq(ones) = f[N]
  <2>1. PICK U : ones \in Seq(U) /\ ones # <<>> /\ Len(ones) = N
    BY <1>2
  <2> HIDE DEF N
  <2>2. \E f : JoinsFirst(f, ones) /\ FlattenSeq(ones) = f[Len(ones)]
    BY <2>1, FlattenIsJoin
  <2> QED
    BY <2>1, <2>2
<1>4. f[1] = ones[1] /\ \A i \in 2..N : f[i] = f[i - 1] \o ones[i]
  <2>1. 1 \in 1..N /\ \A i \in 2..N : i \in 1..N /\ i # 1
    BY <1>1
  <2>2. f = [i \in 1..N |-> IF i = 1 THEN ones[i] ELSE f[i - 1] \o ones[i]]
    BY <1>2, <1>3 DEF JoinsFirst
  <2> HIDE DEF N
  <2> QED
    BY <2>1, <2>2
<1> DEFINE Good(m) == f[m] \in Seq(S) /\ Len(f[m]) = m /\ \A i \in 1..m : f[m][i] = r[i]
           T == {m \in 0..N : m = 0 \/ Good(m)}
<1>5. 0 \in T
  BY <1>1
<1>6. ASSUME NEW m \in 1..N, m - 1 \in T PROVE m \in T
  <2>1. CASE m = 1
    <3>1. f[1] = ones[1] /\ 1 \in 1..N /\ \A i \in 1..1 : i = 1
      BY <1>1, <1>4
    <3> HIDE DEF N
    <3>2. Good(1)
      BY <1>2, <3>1
    <3> HIDE DEF Good
    <3> QED
      BY <2>1, <3>2
  <2>2. CASE m # 1
    <3>1. m \in 2..N /\ m - 1 # 0 /\ m - 1 \in 1..N /\ m \in Nat
      BY <1>1, <2>2
    <3>2. Good(m - 1)
      BY <1>6, <3>1
    <3>3. PICK s, t : s = f[m - 1] /\ t = ones[m]
      OBVIOUS
    <3> HIDE DEF N, T
    <3>4. s \in Seq(S) /\ Len(s) = m - 1 /\ t \in Seq(S) /\ Len(t) = 1 /\ t[1] = r[m] /\ f[m] = s \o t
      BY <1>2, <1>4, <3>1, <3>2, <3>3
    <3>5. /\ s \o t \in Seq(S) /\ Len(s \o t) = m
          /\ \A k \in 1..m : (s \o t)[k] = IF k <= m - 1 THEN s[k] ELSE t[k - (m - 1)]
      <4>1. /\ s \o t \in Seq(S) /\ Len(s \o t) = Len(s) + Len(t)
            /\ \A k \in 1..(Len(s) + Len(t)) : (s \o t)[k] = IF k <= Len(s) THEN s[k] ELSE t[k - Len(s)]
        BY <3>4, JoinFacts
      <4>2. Len(s) + Len(t) = m
        BY <3>1, <3>4
      <4> QED
        BY <3>4, <4>1, <4>2
    <3>6. \A i \in 1..m : (i <= m - 1 /\ i \in 1..(m - 1)) \/ (i = m /\ ~(i <= m - 1) /\ i - (m - 1) = 1)
      BY <3>1
    <3>7. Good(m)
      BY <3>2, <3>3, <3>4, <3>5, <3>6
    <3> HIDE DEF Good
    <3> QED
      BY <3>1, <3>7 DEF T
  <2> QED
    BY <2>1, <2>2
<1>7. Good(N)
  <2>1. N \in 0..N /\ N # 0
    BY <1>1
  <2>2. \A m \in 1..N : m - 1 \in T => m \in T
    BY <1>6
  <2> HIDE DEF T, N
  <2>3. N \in T
    BY <1>1, <1>5, <2>1, <2>2, Induction
  <2> HIDE DEF Good
  <2> QED
    BY <2>1, <2>3 DEF T
<1> HIDE DEF N
<1>8. PICK g : g = f[N] /\ g \in Seq(S) /\ Len(g) = N /\ \A i \in 1..N : g[i] = r[i]
  BY <1>7
<1>9. Len(g) = Len(r) /\ \A i \in 1..Len(g) : g[i] = r[i]
  BY <1>8 DEF N
<1>10. g = r
  BY <1>8, <1>9
<1> QED
  BY <1>3, <1>8, <1>10

(***************************************************************************)
(* A property group that fits into one packet.                             *)
(***************************************************************************)
LEMMA GroupReplyIsOne ==
  ASSUME ArgsPerPacket >= 3, NEW key, NEW k, NEW group, NEW args \in Seq(Val), Len(args) = 3
  PROVE  GroupReplies(key, k, group, args) = <<TargetReply(key, k, group, 0, args, 3)>>
<1>1. ArgsPerPacket \in Nat /\ ArgsPerPacket >= 3
  BY BoundsAssumption
<1>2. \A a \in Nat : a >= 3 => ((3 + a - 1) \div a) = 1
  <2> TAKE a \in Nat
  <2> HAVE a >= 3
  <2>1. PICK q \in Int : q = (3 + a - 1) \div a
    OBVIOUS
  <2>2. PICK x \in Int : x = (3 + a - 1) % a
    OBVIOUS
  <2>3. 3 + a - 1 = a * q + x /\ 0 <= x /\ x < a
    BY <2>1, <2>2
  <2>4. q >= 1
    <3> SUFFICES ASSUME q <= 0 PROVE FALSE
      OBVIOUS
    <3>1. a * q <= 0
      OBVIOUS
    <3> QED
      BY <2>3, <3>1
  <2>5. q < 2
    <3> SUFFICES ASSUME q >= 2 PROVE FALSE
      OBVIOUS
    <3>1. a * q >= a * 2
      OBVIOUS
    <3> QED
      BY <2>3, <3>1
  <2> QED
    BY <2>1, <2>4, <2>5
<1>3. (Len(args) + ArgsPerPacket - 1) \div ArgsPerPacket = 1
  BY <1>1, <1>2
<1> DEFINE reply(i) == LET first == (i - 1) * ArgsPerPacket
                           last  == IF first + ArgsPerPacket < Len(args) THEN first + ArgsPerPacket ELSE Len(args)
                       IN  TargetReply(key, k, group, first, SubSeq(args, first + 1, last), Len(args))
<1>4. reply(1) = TargetReply(key, k, group, 0, args, 3)
  <2>1. (1 - 1) * ArgsPerPacket = 0
    BY <1>1
  <2>2. ~(0 + ArgsPerPacket < Len(args)) /\ 0 + 1 = 1
    BY <1>1
  <2>3. SubSeq(args, 1, Len(args)) = args
    OBVIOUS
  <2> QED
    BY <2>1, <2>2, <2>3
<1>5. GroupReplies(key, k, group, args) = [i \in 1..1 |-> reply(i)]
  BY <1>3 DEF GroupReplies
<1> HIDE DEF reply
<1>6. [i \in 1..1 |-> reply(i)] = <<reply(1)>>
  <2>1. PICK f : f = [i \in 1..1 |-> reply(i)]
    OBVIOUS
  <2>2. f \in Seq({reply(1)}) /\ Len(f) = 1 /\ f[1] = reply(1)
    BY <2>1
  <2> QED
    BY <2>1, <2>2
<1> QED
  BY <1>4, <1>5, <1>6

(***************************************************************************)
(* What the console sends about one target of the show, and nothing else   *)
(* than its property groups.                                               *)
(***************************************************************************)
LEMMA PropGroupsFacts ==
  ASSUME NEW type \in TargetType
  PROVE  LET groups == GroupSequence(type)
         IN  /\ groups \in Seq(PropGroups(type)) /\ groups[1] = General /\ Len(groups) >= 1
             /\ PropGroups(type) \subseteq GroupName
<1> DEFINE rest == PropGroups(type) \ {General}
<1>1. General \in PropGroups(type) /\ PropGroups(type) \subseteq GroupName
  BY DEF PropGroups, General, GroupName
<1>2. IsFiniteSet(rest)
  <2>1. IsFiniteSet({"notes"} \cup {"links"} \cup {"fx"} \cup {"actions"} \cup {"channels"}
                     \cup {"text"} \cup {"byType"})
    <3>1. IsFiniteSet({"notes"})
      BY FS_Singleton
    <3> QED
      BY <3>1, FS_AddElement
  <2>2. rest \in SUBSET ({"notes"} \cup {"links"} \cup {"fx"} \cup {"actions"} \cup {"channels"}
                         \cup {"text"} \cup {"byType"})
    BY DEF PropGroups, General
  <2> HIDE DEF rest
  <2> QED
    BY <2>1, <2>2, FS_Subset
<1>3. PICK q : q = SetToSeq(rest) /\ q \in Seq(rest)
  <2> HIDE DEF rest
  <2> QED
    BY <1>2, SetToSeqFacts
<1>4. q \in Seq(PropGroups(type)) /\ <<General>> \in Seq(PropGroups(type))
  BY <1>1, <1>3
<1>5. GroupSequence(type) = <<General>> \o q
  BY <1>3 DEF GroupSequence
<1> HIDE DEF rest
<1>6. PICK g : g = <<General>> \o q
  OBVIOUS
<1>7. g \in Seq(PropGroups(type)) /\ g[1] = General /\ Len(g) >= 1
  BY <1>4, <1>6
<1> QED
  BY <1>1, <1>5, <1>6, <1>7

\* Packets that are all answers.
Answers(W) == W \in Seq(Command) /\ \A i \in 1..Len(W) : IsReply(W[i])

(***************************************************************************)
(* The packets about one target, its base group first: each is true of the *)
(* show, and each of the others follows one about the same target.         *)
(***************************************************************************)
LEMMA TargetRepliesSay ==
  ASSUME ArgsPerPacket >= 3, OnePart, NEW s \in Shows, NEW key \in MirrorKey,
         NEW k \in TargetKeys(s, key), NEW r, r = TargetReplies(s, key, k)
  PROVE  Answers(r) /\ Says(r, s, s)
<1> DEFINE groups == GroupSequence(key[1])
           args   == ContentArgs(s[key][k])
           reply(i) == TargetReply(key, k, groups[i], 0, args, 3)
           told   == [i \in 1..Len(groups) |-> reply(i)]
<1>1. /\ key = <<key[1], key[2]>> /\ key[1] \in TargetType /\ key[2] \in Nat
      /\ groups \in Seq(PropGroups(key[1])) /\ groups[1] = General /\ Len(groups) >= 1
      /\ PropGroups(key[1]) \subseteq GroupName
  BY MirrorKeyFacts, PropGroupsFacts
<1>2. /\ s \in View /\ key \in ShowLists /\ k \in ShowTargets[key] /\ k = <<k[1], k[2]>>
      /\ TargetIn(key, k) /\ s[key][k] \in Contents
  <2>1. s \in View
    BY ShowIsView
  <2>2. TargetIn(key, k)
    BY TargetRepliesFacts
  <2> QED
    BY <2>1, <2>2, ViewFacts
<1>3. args \in Seq(Val) /\ Len(args) = 3 /\ args # <<>>
  BY <1>2, ContentFacts
<1>4. EffectivePart(key[1], k[2]) = k[2]
  BY <1>2 DEF OnePart, EffectivePart
<1> HIDE DEF groups, args
<1>5. ASSUME NEW i \in 1..Len(groups)
      PROVE  /\ reply(i) \in Command /\ reply(i).kind = "target" /\ KeyOf(reply(i)) = key
             /\ TargetOf(reply(i)) = k /\ reply(i).args = args
             /\ reply(i).pathData.group = groups[i] /\ groups[i] \in PropGroups(key[1])
             /\ reply(i).type = key[1]
  <2>1. groups[i] \in PropGroups(key[1]) /\ groups[i] \in GroupName
    BY <1>1
  <2>2. 0 \in Nat /\ 3 \in Nat
    OBVIOUS
  <2>3. reply(i) \in ReplyAbout(key, k[1])
    <3>1. PICK zero, three \in Nat : zero = 0 /\ three = 3
      BY <2>2
    <3>2. zero \in Nat
      BY <3>1
    <3>3. TargetReply(key, k, groups[i], zero, args, three) \in ReplyAbout(key, k[1])
      BY <1>2, <1>3, <2>1, <3>1, <3>2, TargetReplyFacts
    <3> QED
      BY <3>1, <3>3
  <2>4. reply(i) \in Command
    BY <2>3 DEF ReplyAbout, Command
  <2>5. reply(i) = [kind |-> "target", type |-> key[1], listId |-> key[2],
                    pathData |-> PathData(k[1], k[2], groups[i], 0, 3), args |-> args]
    BY DEF TargetReply
  <2> HIDE DEF reply
  <2>6. PICK m : m = reply(i)
    OBVIOUS
  <2>7. /\ m.kind = "target" /\ m.type = key[1] /\ m.listId = key[2] /\ m.args = args
        /\ m.pathData = PathData(k[1], k[2], groups[i], 0, 3)
    BY <2>5, <2>6
  <2>8. m.pathData.num = k[1] /\ m.pathData.part = k[2] /\ m.pathData.group = groups[i]
    BY <2>7 DEF PathData
  <2>9. KeyOf(m) = key /\ TargetOf(m) = k
    BY <1>1, <1>2, <1>4, <2>7, <2>8 DEF KeyOf, TargetOf
  <2> QED
    BY <2>1, <2>4, <2>6, <2>7, <2>8, <2>9
<1>6. r = told
  <2>1. \A i \in 1..Len(groups) : GroupReplies(key, k, groups[i], args) = <<reply(i)>>
    BY <1>3, GroupReplyIsOne
  <2>2. r = FlattenSeq([i \in DOMAIN groups |-> GroupReplies(key, k, groups[i], args)])
    BY DEF TargetReplies, groups, args
  <2>3. DOMAIN groups = 1..Len(groups) /\ Len(groups) \in Nat
    BY <1>1
  <2> HIDE DEF reply
  <2>4. told \in Seq(Command) /\ Len(told) = Len(groups) /\ \A i \in 1..Len(groups) : told[i] = reply(i)
    BY <1>5, <2>3
  <2> HIDE DEF told
  <2>5. [i \in DOMAIN groups |-> GroupReplies(key, k, groups[i], args)]
          = [i \in 1..Len(told) |-> <<told[i]>>]
    BY <2>1, <2>3, <2>4
  <2>6. Len(told) >= 1
    BY <1>1, <2>4
  <2> QED
    BY <2>2, <2>4, <2>5, <2>6, FlattenOnes
<1>7. /\ r \in Seq(Command) /\ Len(r) = Len(groups) /\ Len(r) \in Nat /\ Len(r) >= 1
      /\ \A i \in 1..Len(r) : r[i] = reply(i) /\ i \in 1..Len(groups)
  <2>1. Len(groups) \in Nat /\ \A i \in 1..Len(groups) : reply(i) \in Command
    BY <1>1, <1>5
  <2> HIDE DEF reply
  <2>2. told \in Seq(Command) /\ Len(told) = Len(groups) /\ \A i \in 1..Len(groups) : told[i] = reply(i)
    BY <2>1
  <2> QED
    BY <1>1, <1>6, <2>1, <2>2
<1>8. ASSUME NEW i \in 1..Len(r)
      PROVE  Explains(r[i], s, s) /\ IsReply(r[i]) /\ r[i].kind = "target" /\ KeyOf(r[i]) = key
             /\ TargetOf(r[i]) = k /\ r[i].args # <<>>
  <2> HIDE DEF reply
  <2>1. /\ r[i].kind = "target" /\ KeyOf(r[i]) = key
        /\ TargetOf(r[i]) = k /\ r[i].args = args
        /\ r[i].pathData.group \in PropGroups(key[1]) /\ r[i].type = key[1]
    BY <1>5, <1>7
  <2>2. TargetIsOf(r[i], s)
    BY <2>1 DEF TargetIsOf, args
  <2> QED
    BY <1>3, <2>1, <2>2 DEF Explains, IsReply
<1> HIDE DEF told
<1>9. Answers(r)
  BY <1>7, <1>8 DEF Answers
<1>10. Starts(r[1])
  <2>1. 1 \in 1..Len(r) /\ r[1] = reply(1) /\ groups[1] = General
    BY <1>1, <1>7
  <2> HIDE DEF reply
  <2>2. r[1].kind = "target" /\ r[1].pathData.group = General
    BY <1>5, <1>7, <2>1
  <2> QED
    BY <2>2 DEF Starts, Second, IsGroup
<1>11. Ordered(r)
  <2> SUFFICES ASSUME NEW i \in 2..Len(r) PROVE Precedes(r[i - 1], r[i])
    BY DEF Ordered
  <2>1. i \in 1..Len(r) /\ i - 1 \in 1..Len(r)
    BY <1>7
  <2> HIDE DEF reply
  <2> QED
    BY <1>8, <2>1 DEF Precedes, Second
<1> DEFINE G == [i \in 1..(Len(r) + 1) |-> s]
<1>12. Chronicle(G, r, s) /\ G[1] = s
  <2>1. G \in [1..(Len(r) + 1) -> View] /\ \A i \in 1..(Len(r) + 1) : G[i] = s
    BY <1>2
  <2>2. /\ Len(r) + 1 \in 1..(Len(r) + 1) /\ 1 \in 1..(Len(r) + 1)
        /\ \A i \in 1..Len(r) : i \in 1..(Len(r) + 1) /\ i + 1 \in 1..(Len(r) + 1)
    BY <1>7
  <2> HIDE DEF G, reply
  <2> QED
    BY <1>8, <2>1, <2>2 DEF Chronicle
<1> QED
  BY <1>9, <1>10, <1>11, <1>12 DEF Says

(***************************************************************************)
(* An answer is true of the show as it is, explains nothing else, and is   *)
(* made of replies.                                                        *)
(***************************************************************************)
LEMMA AnswerSays ==
  ASSUME ArgsPerPacket >= 3, OnePart, NEW s \in Shows, NEW req \in Request \ {Subscribe},
         NEW a, a = AnswerTo(s, req)
  PROVE  Answers(a) /\ Says(a, s, s)
<1>1. PICK key : key = <<req.type, req.listId>> /\ key \in MirrorKey
  BY RequestCases
<1>2. key[1] = req.type /\ key[2] = req.listId
  BY <1>1
<1>3. TargetKeys(s, key) \in SUBSET Key /\ a \in Seq(Command)
  BY ShowIsView, ViewFacts, AnswerFacts
<1>4. PICK existing : /\ existing = Existing(s, key) /\ existing \in Seq(TargetKeys(s, key))
                      /\ Len(existing) = Cardinality(TargetKeys(s, key))
  BY <1>3, InIndexOrder DEF Existing
<1>5. ASSUME NEW m, a = <<m>>, Starts(m), Explains(m, s, s), IsReply(m)
      PROVE  Answers(a) /\ Says(a, s, s)
  <2>1. Len(a) = 1 /\ a[1] = m
    BY <1>5
  <2>2. m \in Command
    <3>1. 1 \in 1..Len(a)
      BY <2>1
    <3>2. \A i \in 1..Len(a) : a[i] \in Command
      BY <1>3
    <3> QED
      BY <2>1, <3>1, <3>2
  <2>3. Says(a, s, s)
    BY <1>5, <2>2, SaysOne
  <2>4. \A i \in 1..1 : i = 1
    OBVIOUS
  <2> QED
    BY <1>3, <1>5, <2>1, <2>3, <2>4 DEF Answers
<1>6. CASE req.kind = "count"
  <2> DEFINE m == [kind |-> "count", type |-> req.type, listId |-> req.listId,
                   args |-> <<Len(existing)>>]
  <2>1. a = <<m>>
    BY <1>1, <1>4, <1>6 DEF AnswerTo
  <2>2. m.kind = "count" /\ KeyOf(m) = key /\ m.args = <<Cardinality(TargetKeys(s, key))>>
    BY <1>1, <1>4 DEF KeyOf
  <2> HIDE DEF m
  <2>3. Starts(m) /\ Explains(m, s, s) /\ IsReply(m)
    BY <2>2 DEF Starts, Second, IsGroup, Explains, CountIsOf, IsReply
  <2> QED
    BY <1>5, <2>1, <2>3
<1>7. ASSUME NEW k \in TargetKeys(s, key), a = TargetReplies(s, key, k)
      PROVE  Answers(a) /\ Says(a, s, s)
  BY <1>1, <1>7, TargetRepliesSay
<1>8. CASE req.kind = "index"
  <2>1. CASE req.index < Len(existing)
    <3>1. PICK i : i = req.index + 1 /\ i \in 1..Len(existing)
      <4>1. req.index \in Nat
        BY <1>8, RequestCases
      <4>2. Len(existing) \in Nat
        BY <1>4
      <4> QED
        BY <2>1, <4>1, <4>2
    <3>2. PICK k \in TargetKeys(s, key) : k = existing[i]
      BY <1>4, <3>1
    <3>3. a = TargetReplies(s, key, k)
      BY <1>1, <1>4, <1>8, <2>1, <3>1, <3>2 DEF AnswerTo
    <3> QED
      BY <1>7, <3>3
  <2>2. CASE ~(req.index < Len(existing))
    <3>1. a = <<>>
      BY <1>1, <1>4, <1>8, <2>2 DEF AnswerTo
    <3>2. Says(a, s, s) /\ a \in Seq(Command) /\ Len(a) = 0
      BY <3>1, SaysNothing
    <3> QED
      BY <3>2 DEF Answers
  <2> QED
    BY <2>1, <2>2
<1>9. CASE req.kind = "target"
  <2> DEFINE keys == {k \in TargetKeys(s, key) : k[1] = req.num}
  <2>1. keys \in SUBSET Key
    BY <1>3
  <2>2. PICK found : /\ found = OfNumber(s, key, req.num)
                     /\ found \in Seq(keys)
                     /\ (keys # {} => Len(found) >= 1)
                     /\ \A i, j \in 1..Len(found) : i < j => found[i] # found[j]
    <3> HIDE DEF keys
    <3>1. PICK found : found = InOrder(keys, KeyBefore)
      OBVIOUS
    <3>2. /\ found \in Seq(keys)
          /\ (keys # {} => Len(found) >= 1)
          /\ \A i, j \in 1..Len(found) : i < j => found[i] # found[j]
      BY <2>1, <3>1, InIndexOrder
    <3>3. found = OfNumber(s, key, req.num)
      BY <3>1 DEF OfNumber, keys
    <3> QED
      BY <3>2, <3>3
  <2>3. CASE found = <<>>
    <3> DEFINE part == IF key[1] = "PATCH" THEN 1 ELSE 0
               k    == <<req.num, part>>
               m    == TargetReply(key, k, General, 0, <<>>, 0)
    <3>1. a = <<m>>
      BY <1>1, <1>9, <2>2, <2>3 DEF AnswerTo, AbsentReply
    <3>2. keys = {}
      <4>1. Len(found) = 0
        BY <2>3
      <4> HIDE DEF keys
      <4> QED
        BY <2>2, <4>1
    <3>3. /\ m.kind = "target" /\ KeyOf(m) = key /\ m.args = <<>> /\ m.pathData.group = General
          /\ m.pathData.num = req.num
      BY <1>1, <1>2 DEF TargetReply, PathData, KeyOf
    <3>4. \A j \in TargetKeys(s, key) : j[1] # req.num
      BY <3>2
    <3> HIDE DEF m
    <3>5. Starts(m) /\ Explains(m, s, s) /\ IsReply(m)
      BY <3>3, <3>4 DEF Starts, Second, IsGroup, Explains, TargetIsOf, IsReply
    <3> QED
      BY <1>5, <3>1, <3>5
  <2>4. CASE found # <<>>
    <3>1. Len(found) \in Nat /\ Len(found) >= 1 /\ \A i \in 1..Len(found) : found[i] \in keys
      BY <2>2, <2>4
    <3>2. \A j, k \in keys : j = k
      <4>1. \A j, k \in keys : key \in ShowLists /\ j \in ShowTargets[key] /\ k \in ShowTargets[key]
                                /\ j[1] = k[1]
        BY DEF TargetKeys
      <4> QED
        BY <4>1 DEF OnePart
    <3>3. PICK k \in TargetKeys(s, key) : k = found[1]
      <4>1. 1 \in 1..Len(found)
        BY <3>1
      <4> QED
        BY <3>1, <4>1
    <3>4. Len(found) = 1
      <4> HIDE DEF keys
      <4>1. PICK n \in Nat : n = Len(found) /\ n >= 1
        BY <3>1
      <4>2. ~(n >= 2)
        <5> SUFFICES ASSUME n >= 2 PROVE FALSE
          OBVIOUS
        <5>1. 1 \in 1..n /\ 2 \in 1..n /\ 1 < 2
          BY <4>1
        <5> QED
          BY <2>2, <3>1, <3>2, <4>1, <5>1
      <4> QED
        BY <4>1, <4>2
    <3>5. [i \in DOMAIN found |-> TargetReplies(s, key, found[i])] = <<TargetReplies(s, key, k)>>
      <4>1. DOMAIN found = 1..1
        BY <2>2, <3>4
      <4>2. PICK r : r = TargetReplies(s, key, k)
        OBVIOUS
      <4>3. [i \in DOMAIN found |-> TargetReplies(s, key, found[i])] = [i \in 1..1 |-> r]
        BY <3>3, <4>1, <4>2
      <4>4. [i \in 1..1 |-> r] = <<r>>
        OBVIOUS
      <4> QED
        BY <4>2, <4>3, <4>4
    <3>6. a = FlattenSeq([i \in DOMAIN found |-> TargetReplies(s, key, found[i])])
      BY <1>1, <1>9, <2>2, <2>4 DEF AnswerTo
    <3>7. a = TargetReplies(s, key, k)
      BY <3>5, <3>6, FlattenOne
    <3> QED
      BY <1>7, <3>7
  <2> QED
    BY <2>3, <2>4
<1> QED
  BY <1>6, <1>8, <1>9, RequestCases

----------------------------------------------------------------------------
(* Announcements name what changes. *)

\* W announces that the show becomes t.
Announces(W, t) ==
  /\ W \in Seq(Command) /\ Says(W, show, t) /\ Len(W) \in {1, 2}
  /\ W[1].kind \in {"notify", "show"} /\ W[1].before = show
  /\ Len(W) = 2 => Second(W[2])

(***************************************************************************)
(* One notification about one list.  Cues change only while their cue list *)
(* is there.                                                               *)
(***************************************************************************)
LEMMA NoticeAnnounces ==
  ASSUME show \in Shows, NEW s \in Shows \ {show}, NEW key \in ShowLists,
         NEW nums \in SUBSET (Num \ {0}), NEW hasArgs \in BOOLEAN, hasArgs => nums # {},
         ChangesOnly(show, s, key, IF hasArgs THEN nums ELSE Num),
         NEW m, m = Announcing(NotifyMessage(key, nums, hasArgs))
  PROVE  Announces(<<m>>, s)
<1>1. key \in MirrorKey /\ key = <<key[1], key[2]>> /\ show \in View /\ s \in View /\ s \in Shows /\ s # show
  BY ShowKeyFacts, MirrorKeyFacts, ShowIsView
<1>2. m = [kind |-> "notify", type |-> key[1], listId |-> key[2], nums |-> nums,
           hasArgs |-> hasArgs, before |-> show]
  BY DEF NotifyMessage, Announcing
<1>3. /\ m.kind = "notify" /\ m.type = key[1] /\ m.listId = key[2] /\ m.nums = nums
      /\ m.hasArgs = hasArgs /\ m.before = show /\ KeyOf(m) = key
  BY <1>1, <1>2 DEF KeyOf
<1>4. m \in Command
  BY <1>1, AnnouncedIsCommand
<1>5. show # Garbled
  BY GarbledAssumption
<1>6. ASSUME key[1] = "CUE", <<key[2], 0>> \notin TargetKeys(show, CueLists) PROVE FALSE
  <2>1. key # CueLists /\ CueLists \in ShowLists
    BY <1>6, ShowListFacts
  <2>2. s[CueLists] = show[CueLists]
    BY <2>1 DEF ChangesOnly
  <2>3. TargetKeys(s, CueLists) = TargetKeys(show, CueLists)
    BY <2>2 DEF TargetKeys
  <2>4. TargetKeys(s, key) = {} /\ TargetKeys(show, key) = {}
    BY <1>1, <1>6, <2>3, NoCueListNoCues
  <2>5. s[key] \in TargetsOfList(key) /\ show[key] \in TargetsOfList(key)
    BY <1>1 DEF View
  <2>6. \A k \in ShowTargets[key] : s[key][k] = NoContent /\ show[key][k] = NoContent
    BY <2>4 DEF TargetKeys
  <2>7. s[key] = show[key]
    <3>1. PICK f, g : f = s[key] /\ g = show[key]
      OBVIOUS
    <3>2. f = [k \in ShowTargets[key] |-> f[k]] /\ g = [k \in ShowTargets[key] |-> g[k]]
      BY <2>5, <3>1 DEF TargetsOfList
    <3>3. \A k \in ShowTargets[key] : f[k] = g[k]
      BY <2>6, <3>1
    <3> QED
      BY <3>1, <3>2, <3>3
  <2>8. \A j \in ShowLists : s[j] = show[j]
    BY <2>7 DEF ChangesOnly
  <2>9. s = [j \in ShowLists |-> s[j]] /\ show = [j \in ShowLists |-> show[j]]
    BY <1>1 DEF View
  <2>10. s = show
    BY <2>8, <2>9
  <2> QED
    BY <1>1, <2>10
<1>7. NoticeIsOf(m, show, s)
  BY <1>3, <1>6 DEF NoticeIsOf
<1>8. Starts(m) /\ Explains(m, show, s)
  BY <1>3, <1>5, <1>7 DEF Starts, Second, IsGroup, Explains
<1>9. <<m>> \in Seq(Command) /\ Says(<<m>>, show, s)
  BY <1>1, <1>4, <1>8, SaysOne
<1>10. Len(<<m>>) = 1 /\ <<m>>[1] = m
  OBVIOUS
<1> QED
  BY <1>3, <1>9, <1>10 DEF Announces

\* A notification that names the numbers.
OfNumbers(key, nums) == NotifyMessage(key, nums, TRUE)

(***************************************************************************)
(* When cues change with their cue list, there are two notifications: the  *)
(* one for the list of cue lists says what the show was before.            *)
(***************************************************************************)
LEMMA CueListAnnounces ==
  ASSUME show \in Shows, NEW s \in Shows, NEW key \in ShowLists, key[1] = "CUE",
         NEW nums \in SUBSET (Num \ {0}), nums # {},
         \A j \in ShowLists \ {CueLists, key} : s[j] = show[j],
         \A k \in ShowTargets[CueLists] \ {<<key[2], 0>>} : s[CueLists][k] = show[CueLists][k],
         \A k \in ShowTargets[key] : k[1] \notin nums => s[key][k] = show[key][k],
         NEW m, m = Announcing(OfNumbers(CueLists, {key[2]})), NEW n, n = OfNumbers(key, nums)
  PROVE  Announces(<<m, n>>, s)
<1>1. /\ key \in MirrorKey /\ key = <<key[1], key[2]>> /\ show \in View /\ s \in View
      /\ CueLists \in ShowLists /\ <<key[2], 0>> \in ShowTargets[CueLists] /\ CueLists \in MirrorKey
      /\ key # CueLists /\ key[2] \in Num \ {0} /\ show # Garbled
  <2>1. CueLists \in ShowLists /\ <<key[2], 0>> \in ShowTargets[CueLists] /\ key # CueLists
    BY ShowListFacts
  <2>2. <<key[2], 0>>[1] \in Num \ {0}
    BY <2>1, ShowKeyFacts
  <2> QED
    BY <2>1, <2>2, ShowKeyFacts, MirrorKeyFacts, ShowIsView, GarbledAssumption
<1>2. /\ m = [kind |-> "notify", type |-> "CUELIST", listId |-> 0, nums |-> {key[2]},
              hasArgs |-> TRUE, before |-> show]
      /\ n = [kind |-> "notify", type |-> key[1], listId |-> key[2], nums |-> nums,
              hasArgs |-> TRUE, before |-> Garbled]
  BY DEF OfNumbers, NotifyMessage, Announcing, CueLists
<1>3. /\ m.kind = "notify" /\ m.type = "CUELIST" /\ m.listId = 0 /\ m.nums = {key[2]}
      /\ m.hasArgs /\ m.before = show /\ KeyOf(m) = CueLists
      /\ n.kind = "notify" /\ n.type = "CUE" /\ n.listId = key[2] /\ n.nums = nums
      /\ n.hasArgs /\ n.before = Garbled /\ KeyOf(n) = key
  <2>1. /\ m.kind = "notify" /\ m.type = "CUELIST" /\ m.listId = 0 /\ m.nums = {key[2]}
        /\ m.hasArgs /\ m.before = show
    BY <1>2
  <2>2. /\ n.kind = "notify" /\ n.type = key[1] /\ n.listId = key[2] /\ n.nums = nums
        /\ n.hasArgs /\ n.before = Garbled
    BY <1>2
  <2>3. KeyOf(m) = CueLists
    BY <2>1 DEF KeyOf, CueLists
  <2>4. KeyOf(n) = key /\ n.type = "CUE"
    BY <1>1, <2>2 DEF KeyOf
  <2> QED
    BY <2>1, <2>2, <2>3, <2>4
<1>4. m \in Command /\ n \in Command
  <2>1. {key[2]} \in SUBSET (Num \ {0})
    BY <1>1
  <2> QED
    BY <1>1, <2>1, AnnouncedIsCommand DEF OfNumbers
<1> DEFINE v == [j \in ShowLists |-> IF j = CueLists THEN s[j] ELSE show[j]]
<1>5. v \in View
  BY <1>1 DEF View
<1>6. /\ v[CueLists] = s[CueLists] /\ v[key] = show[key]
      /\ \A j \in ShowLists \ {CueLists} : v[j] = show[j]
      /\ \A j \in ShowLists \ {key} : v[j] = s[j]
  BY <1>1
<1> HIDE DEF v
<1>7. ChangesOnly(show, v, CueLists, m.nums)
  <2>1. ASSUME NEW k \in ShowTargets[CueLists], k[1] \notin {key[2]}
        PROVE  v[CueLists][k] = show[CueLists][k]
    <3>1. k # <<key[2], 0>>
      BY <2>1
    <3> QED
      BY <1>6, <3>1
  <2> QED
    BY <1>3, <1>6, <2>1 DEF ChangesOnly
<1>8. ChangesOnly(v, s, key, n.nums)
  <2>1. ASSUME NEW k \in ShowTargets[key], k[1] \notin n.nums PROVE s[key][k] = v[key][k]
    BY <1>3, <1>6, <2>1
  <2> QED
    BY <1>6, <2>1 DEF ChangesOnly
<1>9. NoticeIsOf(m, show, v) /\ NoticeIsOf(n, v, s)
  BY <1>1, <1>3, <1>7, <1>8 DEF NoticeIsOf
<1>10. /\ Starts(m) /\ Explains(m, show, v) /\ Second(n) /\ Explains(n, v, s)
       /\ Precedes(m, n)
  BY <1>1, <1>3, <1>9 DEF Starts, Second, IsGroup, Explains, Precedes
<1>11. <<m, n>> \in Seq(Command) /\ Says(<<m, n>>, show, s)
  BY <1>4, <1>5, <1>10, SaysTwo
<1>12. Len(<<m, n>>) = 2 /\ <<m, n>>[1] = m /\ <<m, n>>[2] = n
  OBVIOUS
<1> QED
  BY <1>3, <1>10, <1>11, <1>12 DEF Announces

\* The show becomes another one, and the console says W.
Changed(W) ==
  /\ toClient' = toClient \o W /\ show' \in Shows \ {show}
  /\ UNCHANGED <<connect, data, sendQ, toConsole, subscribed, unseen>>
  /\ \/ Announces(W, show') /\ (subscribed \/ (Len(W) = 1 /\ W[1].kind = "show"))
     \/ W = <<>> /\ ~subscribed

(***************************************************************************)
(* A change of the show is announced, or the library has not subscribed.   *)
(***************************************************************************)
LEMMA ChangeIsAnnounced ==
  ASSUME PacketsOK, Change
  PROVE  \E W : Changed(W)
<1>1. show \in Shows /\ show \in View
  BY ShowIsView DEF PacketsOK
<1>2. ASSUME NEW kind, NEW s, NEW messages, ChangeShow(kind, s, Notification(messages)),
             NEW W, W = <<Announcing(Head(messages))>> \o Tail(messages),
             s \in Shows \ {show} => Announces(W, s)
      PROVE  \E V : Changed(V)
  <2>1. /\ show' = s /\ s \in Shows \ {show} /\ toClient' = toClient \o Notification(messages)
        /\ UNCHANGED <<connect, data, sendQ, toConsole, subscribed, unseen>>
    BY <1>2 DEF ChangeShow, clientVars
  <2>2. CASE subscribed
    <3>1. Notification(messages) = W
      BY <1>2, <2>2 DEF Notification
    <3> QED
      BY <1>2, <2>1, <2>2, <3>1 DEF Changed
  <2>3. CASE ~subscribed
    <3>1. Notification(messages) = <<>>
      BY <2>3 DEF Notification
    <3>2. Changed(<<>>)
      BY <2>1, <2>3, <3>1 DEF Changed
    <3> QED
      BY <3>2
  <2> QED
    BY <2>2, <2>3
<1>3. ASSUME NEW m PROVE <<Announcing(Head(<<m>>))>> \o Tail(<<m>>) = <<Announcing(m)>>
  <2>1. PICK a : a = Announcing(m)
    OBVIOUS
  <2>2. Head(<<m>>) = m /\ Tail(<<m>>) = <<>>
    OBVIOUS
  <2>3. <<a>> \o <<>> = <<a>>
    OBVIOUS
  <2> QED
    BY <2>1, <2>2, <2>3
<1>4. CASE EditTarget
  <2>1. PICK key \in ShowLists : \E k \in ShowTargets[key], c \in Contents \cup {NoContent} :
          ChangeShow("target", [show EXCEPT ![key][k] = c],
                     Notification(<<NotifyMessage(key, {k[1]}, TRUE)>>))
    BY <1>4 DEF EditTarget
  <2>2. PICK k \in ShowTargets[key], c \in Contents \cup {NoContent} :
          ChangeShow("target", [show EXCEPT ![key][k] = c],
                     Notification(<<NotifyMessage(key, {k[1]}, TRUE)>>))
    BY <2>1
  <2>3. PICK s : s = [show EXCEPT ![key][k] = c]
    OBVIOUS
  <2>4. ChangesOnly(show, s, key, {k[1]})
    <3>1. DOMAIN show = ShowLists
      BY <1>1 DEF View
    <3>2. \A j \in ShowLists \ {key} : s[j] = show[j]
      BY <2>3, <3>1
    <3>3. s[key] = [show[key] EXCEPT ![k] = c]
      BY <2>3, <3>1
    <3>4. DOMAIN show[key] = ShowTargets[key]
      BY <1>1 DEF View, TargetsOfList
    <3>5. \A j \in ShowTargets[key] : j # k => s[key][j] = show[key][j]
      BY <3>3, <3>4
    <3> QED
      BY <3>2, <3>5 DEF ChangesOnly
  <2>5. {k[1]} \in SUBSET (Num \ {0}) /\ {k[1]} # {} /\ TRUE \in BOOLEAN
    BY ShowKeyFacts
  <2>6. s \in Shows \ {show} => Announces(<<Announcing(NotifyMessage(key, {k[1]}, TRUE))>>, s)
    BY <1>1, <2>4, <2>5, NoticeAnnounces
  <2> QED
    BY <1>2, <1>3, <2>2, <2>3, <2>6
<1>5. CASE SwapTargets
  <2>1. PICK key \in ShowLists : \E j, k \in ShowTargets[key] :
          ChangeShow("swap", [show EXCEPT ![key] = [@ EXCEPT ![j] = show[key][k], ![k] = show[key][j]]],
                     Notification(<<NotifyMessage(key, {j[1], k[1]}, TRUE)>>))
    BY <1>5 DEF SwapTargets
  <2>2. PICK j \in ShowTargets[key], k \in ShowTargets[key] :
          ChangeShow("swap", [show EXCEPT ![key] = [@ EXCEPT ![j] = show[key][k], ![k] = show[key][j]]],
                     Notification(<<NotifyMessage(key, {j[1], k[1]}, TRUE)>>))
    BY <2>1
  <2>3. PICK s : s = [show EXCEPT ![key] = [@ EXCEPT ![j] = show[key][k], ![k] = show[key][j]]]
    OBVIOUS
  <2>4. ChangesOnly(show, s, key, {j[1], k[1]})
    <3>1. DOMAIN show = ShowLists
      BY <1>1 DEF View
    <3>2. \A i \in ShowLists \ {key} : s[i] = show[i]
      BY <2>3, <3>1
    <3>3. s[key] = [show[key] EXCEPT ![j] = show[key][k], ![k] = show[key][j]]
      BY <2>3, <3>1
    <3>4. DOMAIN show[key] = ShowTargets[key]
      BY <1>1 DEF View, TargetsOfList
    <3>5. \A i \in ShowTargets[key] : i # k /\ i # j => s[key][i] = show[key][i]
      BY <3>3, <3>4
    <3> QED
      BY <3>2, <3>5 DEF ChangesOnly
  <2>5. {j[1], k[1]} \in SUBSET (Num \ {0}) /\ {j[1], k[1]} # {} /\ TRUE \in BOOLEAN
    BY ShowKeyFacts
  <2>6. s \in Shows \ {show} => Announces(<<Announcing(NotifyMessage(key, {j[1], k[1]}, TRUE))>>, s)
    BY <1>1, <2>4, <2>5, NoticeAnnounces
  <2> QED
    BY <1>2, <1>3, <2>2, <2>3, <2>6
<1>6. CASE EditList
  <2>1. PICK key \in ShowLists : \E f \in TargetsOfList(key) :
          ChangeShow("list", [show EXCEPT ![key] = f],
                     Notification(<<NotifyMessage(key, {}, FALSE)>>))
    BY <1>6 DEF EditList
  <2>6. PICK f \in TargetsOfList(key) :
          ChangeShow("list", [show EXCEPT ![key] = f],
                     Notification(<<NotifyMessage(key, {}, FALSE)>>))
    BY <2>1
  <2>2. PICK s : s = [show EXCEPT ![key] = f]
    OBVIOUS
  <2>3. ChangesOnly(show, s, key, Num)
    <3>1. DOMAIN show = ShowLists
      BY <1>1 DEF View
    <3>2. \A i \in ShowLists \ {key} : s[i] = show[i]
      BY <2>2, <3>1
    <3> QED
      BY <3>2, ShowKeyFacts DEF ChangesOnly
  <2>4. {} \in SUBSET (Num \ {0}) /\ FALSE \in BOOLEAN
    OBVIOUS
  <2>5. s \in Shows \ {show} => Announces(<<Announcing(NotifyMessage(key, {}, FALSE))>>, s)
    BY <1>1, <2>3, <2>4, NoticeAnnounces
  <2> QED
    BY <1>2, <1>3, <2>6, <2>2, <2>5
<1>7. CASE EditCueList
  <2> DEFINE entry(key)      == <<key[2], 0>>
             changed(key, f) == {k \in ShowTargets[key] : f[k] # show[key][k]}
             nums(key, f)    == {k[1] : k \in changed(key, f)}
             after(key, c, f) == [show EXCEPT ![CueLists][entry(key)] = c, ![key] = f]
  <2>1. PICK key \in ShowLists : /\ key[1] = "CUE"
           /\ \E c \in Contents \cup {NoContent}, f \in TargetsOfList(key) :
                /\ changed(key, f) # {}
                /\ ChangeShow("cuelist", after(key, c, f),
                     Notification(<<NotifyMessage(CueLists, {entry(key)[1]}, TRUE),
                                    NotifyMessage(key, nums(key, f), TRUE)>>))
    BY <1>7, Zenon DEF EditCueList, CueLists
  <2>2. PICK c \in Contents \cup {NoContent}, f \in TargetsOfList(key) :
          /\ changed(key, f) # {}
          /\ ChangeShow("cuelist", after(key, c, f),
               Notification(<<NotifyMessage(CueLists, {entry(key)[1]}, TRUE),
                              NotifyMessage(key, nums(key, f), TRUE)>>))
    BY <2>1
  <2>3. PICK s : s = after(key, c, f)
    OBVIOUS
  <2>4. PICK N : N = nums(key, f) /\ N \in SUBSET (Num \ {0}) /\ N # {}
    <3>1. \A k \in changed(key, f) : k \in ShowTargets[key] /\ k[1] \in Num \ {0}
      BY ShowKeyFacts
    <3>2. PICK C : C = changed(key, f)
      OBVIOUS
    <3>3. C # {} /\ \A k \in C : k[1] \in Num \ {0}
      BY <2>2, <3>1, <3>2
    <3>4. nums(key, f) = {k[1] : k \in C}
      BY <3>2
    <3> HIDE DEF nums, changed
    <3> QED
      BY <3>3, <3>4, SMTT(30)
  <2>5. /\ CueLists \in ShowLists /\ <<key[2], 0>> \in ShowTargets[CueLists] /\ key # CueLists
        /\ DOMAIN show = ShowLists /\ DOMAIN show[CueLists] = ShowTargets[CueLists]
        /\ entry(key)[1] = key[2]
    BY <1>1, <2>1, ShowListFacts DEF View, TargetsOfList
  <2>6. /\ \A j \in ShowLists \ {CueLists, key} : s[j] = show[j]
        /\ s[CueLists] = [show[CueLists] EXCEPT ![entry(key)] = c]
        /\ s[key] = f
    BY <2>3, <2>5
  <2>7. \A k \in ShowTargets[CueLists] \ {<<key[2], 0>>} : s[CueLists][k] = show[CueLists][k]
    BY <2>5, <2>6
  <2>8. \A k \in ShowTargets[key] : k[1] \notin N => s[key][k] = show[key][k]
    BY <2>4, <2>6
  <2>9. PICK m, n : m = OfNumbers(CueLists, {key[2]}) /\ n = OfNumbers(key, N)
    OBVIOUS
  <2>10. PICK a : a = Announcing(m)
    OBVIOUS
  <2> HIDE DEF changed, nums, after, entry
  <2>11. s \in Shows \ {show} => Announces(<<a, n>>, s)
    BY <1>1, <2>1, <2>4, <2>6, <2>7, <2>8, <2>9, <2>10, CueListAnnounces
  <2>12. <<Announcing(Head(<<m, n>>))>> \o Tail(<<m, n>>) = <<a, n>>
    <3>1. Head(<<m, n>>) = m /\ Tail(<<m, n>>) = <<n>>
      OBVIOUS
    <3>2. <<a>> \o <<n>> = <<a, n>>
      <4>1. PICK p, q, r : p = <<a>> /\ q = <<n>> /\ r = <<a, n>>
        OBVIOUS
      <4>2. /\ p \in Seq({a, n}) /\ Len(p) = 1 /\ p[1] = a /\ q \in Seq({a, n}) /\ Len(q) = 1 /\ q[1] = n
            /\ r \in Seq({a, n}) /\ Len(r) = 2 /\ r[1] = a /\ r[2] = n
        BY <4>1
      <4>3. p \o q \in Seq({a, n}) /\ Len(p \o q) = 2
            /\ \A i \in 1..2 : (p \o q)[i] = IF i <= 1 THEN p[i] ELSE q[i - 1]
        <5>1. PICK S : S = {a, n}
          OBVIOUS
        <5>2. p \in Seq(S) /\ q \in Seq(S)
          BY <4>2, <5>1
        <5>3. p \o q \in Seq(S) /\ Len(p \o q) = Len(p) + Len(q)
              /\ \A i \in 1..(Len(p) + Len(q)) : (p \o q)[i] = IF i <= Len(p) THEN p[i] ELSE q[i - Len(p)]
          BY <5>2, JoinFacts
        <5>4. Len(p) + Len(q) = 2
          BY <4>2
        <5> QED
          BY <4>2, <5>1, <5>3, <5>4
      <4>4. PICK w : w = p \o q
        OBVIOUS
      <4>5. w \in Seq({a, n}) /\ Len(w) = 2 /\ w[1] = a /\ w[2] = n
        BY <4>2, <4>3, <4>4
      <4>6. w = r
        BY <4>2, <4>5
      <4> QED
        BY <4>1, <4>4, <4>6
    <3> QED
      BY <2>10, <3>1, <3>2
  <2>13. ChangeShow("cuelist", s, Notification(<<m, n>>))
    BY <2>2, <2>3, <2>4, <2>5, <2>9 DEF OfNumbers
  <2> QED
    BY <1>2, <2>11, <2>12, <2>13
<1>8. CASE LoadShow
  <2>1. PICK s \in Shows : ChangeShow("load", s, <<Announcing(ShowEvent)>>)
    BY <1>8 DEF LoadShow
  <2>2. /\ show' = s /\ s \in Shows \ {show} /\ toClient' = toClient \o <<Announcing(ShowEvent)>>
        /\ UNCHANGED <<connect, data, sendQ, toConsole, subscribed, unseen>>
    BY <2>1 DEF ChangeShow, clientVars
  <2>3. PICK m : m = Announcing(ShowEvent)
    OBVIOUS
  <2>4. m.kind = "show" /\ m.before = show /\ m \in Command
    <3>1. [ShowEvent EXCEPT !.before = show] = [kind |-> "show", before |-> show]
      BY DEF ShowEvent
    <3> QED
      BY <1>1, <2>3, <3>1, AnnouncedIsCommand DEF Announcing
  <2>5. Starts(m) /\ Explains(m, show, s)
    BY <2>4 DEF Starts, Second, IsGroup, Explains
  <2>6. <<m>> \in Seq(Command) /\ Says(<<m>>, show, s)
    BY <1>1, <2>2, <2>4, <2>5, SaysOne
  <2>7. Len(<<m>>) = 1 /\ <<m>>[1] = m
    OBVIOUS
  <2>8. Announces(<<m>>, s)
    BY <2>4, <2>6, <2>7 DEF Announces
  <2>9. Changed(<<m>>)
    BY <2>2, <2>3, <2>4, <2>7, <2>8 DEF Changed
  <2> QED
    BY <2>9
<1> QED
  BY <1>4, <1>5, <1>6, <1>7, <1>8 DEF Change

----------------------------------------------------------------------------
(***************************************************************************)
(* The invariant.  What is on its way is a chronicle of the show; and the  *)
(* library subscribes before it asks anything, so that until the console   *)
(* has heard of it the mirror has been told nothing.                       *)
(***************************************************************************)
ShowEventsOnly(Q) == \A i \in 1..Len(Q) : Q[i].kind = "show"

SubscriptionFirst ==
  /\ connect = "IN_PROGRESS" => sendQ = <<>> /\ toConsole = <<>> /\ ~subscribed
  /\ connect = "CONNECTED" /\ ~subscribed =>
       IF toConsole # <<>> THEN Head(toConsole) = Subscribe ELSE sendQ # <<>> /\ Head(sendQ) = Subscribe
  /\ ~subscribed => Unheard(data) /\ ShowEventsOnly(toClient)

Told(H) == Ordered(toClient) /\ Chronicle(H, toClient, show) /\ UpToDate(H, toClient, data)

ChronicleInv == IInv /\ SubscriptionFirst /\ \E H : Told(H)

\* R is what is left of Q after its first n packets.
Remains(H, Q, n, R, s) ==
  /\ R \in Seq(Command) /\ Ordered(R) /\ Len(R) = Len(Q) - n
  /\ \A i \in 1..Len(R) : n + i \in 1..Len(Q) /\ R[i] = Q[n + i]
  /\ \E K : Chronicle(K, R, s) /\ K[1] = H[n + 1]

(***************************************************************************)
(* What is left of a chronicle when the first packets have been read.      *)
(***************************************************************************)
LEMMA RestOfStory ==
  ASSUME NEW Q \in Seq(Command), NEW H, NEW s, Chronicle(H, Q, s), Ordered(Q), NEW n \in 0..Len(Q),
         NEW R, R = SubSeq(Q, n + 1, Len(Q))
  PROVE  Remains(H, Q, n, R, s)
<1>1. PICK q : q = Len(Q) /\ q \in Nat /\ n \in 0..q /\ n \in Nat /\ n <= q
  <2>1. Len(Q) \in Nat
    OBVIOUS
  <2> QED
    BY <2>1
<1>2. R \in Seq(Command) /\ Len(R) = q - n /\ q - n \in Nat
      /\ \A i \in 1..(q - n) : n + i \in 1..q /\ R[i] = Q[n + i]
  <2>1. \A i \in 1..(q - n) : n + i \in 1..q
    BY <1>1
  <2>2. R \in Seq(Command) /\ Len(R) = q - n
    BY <1>1
  <2>3. \A i \in 1..(q - n) : R[i] = Q[n + i]
    BY <1>1
  <2>4. q - n \in Nat
    BY <1>1
  <2> QED
    BY <2>1, <2>2, <2>3, <2>4
<1>3. Ordered(R)
  <2> SUFFICES ASSUME NEW i \in 2..(q - n) PROVE Precedes(R[i - 1], R[i])
    BY <1>2 DEF Ordered
  <2>1. i \in 1..(q - n) /\ i - 1 \in 1..(q - n) /\ n + i \in 2..q /\ n + (i - 1) = (n + i) - 1
    BY <1>1, <1>2
  <2>2. R[i] = Q[n + i] /\ R[i - 1] = Q[(n + i) - 1]
    BY <1>2, <2>1
  <2> QED
    BY <1>1, <2>1, <2>2 DEF Ordered
<1> DEFINE K == [i \in 1..(q - n + 1) |-> H[n + i]]
<1>4. \A i \in 1..(q - n + 1) : n + i \in 1..(q + 1) /\ K[i] = H[n + i]
  BY <1>1
<1>5. H \in [1..(q + 1) -> View] /\ H[q + 1] = s /\ s \in Shows
      /\ \A i \in 1..q : Explains(Q[i], H[i], H[i + 1]) /\ (H[i] \in Shows \/ Second(Q[i]))
  BY <1>1 DEF Chronicle
<1>6. K \in [1..(q - n + 1) -> View]
  BY <1>4, <1>5
<1>7. /\ q - n + 1 \in 1..(q - n + 1) /\ n + (q - n + 1) = q + 1 /\ 1 \in 1..(q - n + 1)
      /\ \A i \in 1..(q - n) : i \in 1..(q - n + 1) /\ i + 1 \in 1..(q - n + 1) /\ n + (i + 1) = (n + i) + 1
  BY <1>1
<1> HIDE DEF K
<1>8. \A i \in 1..(q - n) : Explains(R[i], K[i], K[i + 1]) /\ (K[i] \in Shows \/ Second(R[i]))
  BY <1>2, <1>4, <1>5, <1>7, SMTT(30)
<1>9. K[q - n + 1] = s /\ K[1] = H[n + 1]
  BY <1>4, <1>5, <1>7
<1>10. Chronicle(K, R, s)
  BY <1>2, <1>5, <1>6, <1>8, <1>9 DEF Chronicle
<1> QED
  BY <1>1, <1>2, <1>3, <1>9, <1>10 DEF Remains

(***************************************************************************)
(* Between ticks more is said.                                             *)
(***************************************************************************)
LEMMA MoreIsTold ==
  ASSUME NEW H, Told(H), toClient \in Seq(Command), NEW W \in Seq(Command), Says(W, show, show'),
         toClient' = toClient \o W, data' = data
  PROVE  \E K : Told(K)' /\ K[1] = H[1]
<1>1. PICK R : R = toClient \o W
  OBVIOUS
<1>2. PICK K : R \in Seq(Command) /\ Ordered(R) /\ Continues(H, toClient, K, R, show')
  BY <1>1, StoryGoesOn DEF Told
<1>3. UpToDate(K, R, data)
  <2>1. GoodData(data) /\ DataMirrors(K[1], data)
    BY <1>2 DEF Told, UpToDate, Continues
  <2>2. ASSUME Len(R) > 0 PROVE Ready(data, R[1])
    BY <1>2, <2>2 DEF Continues, Told, UpToDate, Starts, Ready
  <2> QED
    BY <2>1, <2>2 DEF UpToDate
<1>4. toClient' = R /\ data' = data
  BY <1>1
<1>5. Ordered(toClient') /\ Chronicle(K, toClient', show') /\ UpToDate(K, toClient', data')
  BY <1>2, <1>3, <1>4 DEF Continues
<1> QED
  BY <1>2, <1>5 DEF Told, Continues

(***************************************************************************)
(* A tick, as far as the packets to the library are concerned.             *)
(***************************************************************************)
LEMMA TickTells ==
  ASSUME IInv, NEW H, Told(H), NEW n \in 0..Len(toClient), TickConnected(n)
  PROVE  /\ HasRead(H, toClient, n, data, data')
         /\ \E K : Told(K)' /\ K[1] = H[n + 1]
<1>1. PICK Q, e : Q = toClient /\ Q \in Seq(Command) /\ n \in 0..Len(Q)
                  /\ e = DataTick(data, SubSeq(Q, 1, n)).data
  BY DEF IInv, PacketsOK
<1>2. data' = e /\ toClient' = SubSeq(Q, n + 1, Len(Q)) /\ show' = show
  BY <1>1 DEF TickConnected, Becomes, consoleVars
<1>3. Ordered(Q) /\ Chronicle(H, Q, show) /\ UpToDate(H, Q, data)
  BY <1>1 DEF Told
<1>4. HasRead(H, Q, n, data, e)
  BY <1>1, <1>3, DataTickMirrors
<1>5. PICK R : R = SubSeq(Q, n + 1, Len(Q))
  OBVIOUS
<1>6. /\ R \in Seq(Command) /\ Ordered(R) /\ Len(R) = Len(Q) - n
      /\ \A i \in 1..Len(R) : n + i \in 1..Len(Q) /\ R[i] = Q[n + i]
      /\ \E K : Chronicle(K, R, show) /\ K[1] = H[n + 1]
  <2>1. Remains(H, Q, n, R, show)
    BY <1>1, <1>3, <1>5, RestOfStory
  <2> QED
    BY <2>1 DEF Remains
<1>7. PICK K : Chronicle(K, R, show) /\ K[1] = H[n + 1]
  BY <1>6
<1>8. UpToDate(K, R, e)
  <2>1. GoodData(e) /\ DataMirrors(K[1], e)
    BY <1>4, <1>7 DEF HasRead
  <2>2. ASSUME Len(R) > 0 PROVE Ready(e, R[1])
    <3>1. n < Len(Q) /\ 1 \in 1..Len(R)
      <4>1. Len(Q) \in Nat /\ n \in Nat
        BY <1>1
      <4> QED
        BY <1>6, <2>2, <4>1
    <3>2. R[1] = Q[n + 1]
      BY <1>6, <3>1
    <3> QED
      BY <1>4, <3>1, <3>2 DEF HasRead
  <2> QED
    BY <2>1, <2>2 DEF UpToDate
<1>9. Ordered(toClient') /\ Chronicle(K, toClient', show') /\ UpToDate(K, toClient', data')
  BY <1>2, <1>5, <1>6, <1>7, <1>8
<1> QED
  BY <1>1, <1>2, <1>4, <1>7, <1>9 DEF Told

(***************************************************************************)
(* A library that has just been initialized has been told nothing.         *)
(***************************************************************************)
LEMMA InitChronicleInv == ASSUME InitialConnect \subseteq {"IN_PROGRESS"}, Init PROVE ChronicleInv
<1>1. /\ connect = "IN_PROGRESS" /\ data = NewData /\ sendQ = <<>> /\ toConsole = <<>>
      /\ toClient = <<>> /\ show \in Shows /\ subscribed = FALSE
  BY InitialShowsAssumption DEF Init, InitApart
<1>2. DOMAIN data.lists = {} /\ data.status.value = "UNINITIALIZED" /\ ~data.cueMap
  BY <1>1 DEF NewData, NoLists, NewStatus
<1>3. IInv /\ GoodData(data) /\ Len(toClient) = 0
  BY <1>1, InitIInv DEF IInv
<1>4. SubscriptionFirst
  BY <1>1, <1>2, <1>3 DEF SubscriptionFirst, Unheard, ShowEventsOnly
<1>5. PICK G : Chronicle(G, toClient, show) /\ Ordered(toClient)
  <2>1. Says(<<>>, show, show)
    BY <1>1, SaysNothing
  <2> QED
    BY <1>1, <2>1 DEF Says
<1>6. DataMirrors(G[1], data)
  BY <1>2, NoListsMirror
<1> QED
  BY <1>3, <1>4, <1>5, <1>6 DEF ChronicleInv, Told, UpToDate

(***************************************************************************)
(* A tick.                                                                 *)
(***************************************************************************)
LEMMA TickKeepsChronicleInv ==
  ASSUME ChronicleInv, NEW n \in 0..Len(toClient), TickConnected(n)
  PROVE  ChronicleInv'
<1>1. IInv'
  BY TickKeeps DEF ChronicleInv
<1>2. PICK H : Told(H)
  BY DEF ChronicleInv
<1>3. /\ HasRead(H, toClient, n, data, data')
      /\ \E K : Told(K)'
  BY <1>2, TickTells DEF ChronicleInv
<1>4. PICK more, r, q :
        /\ more = (IF connect # "CONNECTED" THEN <<Subscribe>> ELSE <<>>)
        /\ r = DataTick(data, SubSeq(toClient, 1, n)) /\ q = sendQ \o more \o r.sent
        /\ connect' = "CONNECTED" /\ Becomes(r.data)
        /\ toClient' = SubSeq(toClient, n + 1, Len(toClient))
        /\ sendQ' = (IF q = <<>> THEN q ELSE Tail(q))
        /\ toConsole' = (IF q = <<>> THEN toConsole ELSE Append(toConsole, Head(q)))
        /\ UNCHANGED <<show, subscribed, edits>>
  BY DEF TickConnected, consoleVars
<1>5. /\ sendQ \in Seq(Request) /\ more \in Seq(Request) /\ r.sent \in Seq(Request)
      /\ toConsole \in Seq(Request) /\ toClient \in Seq(Command) /\ connect \in {"IN_PROGRESS", "CONNECTED"}
  <2>1. PICK cmds : cmds = SubSeq(toClient, 1, n)
    OBVIOUS
  <2>2. more \in Seq(Request)
    <3>1. Subscribe \in Request
      BY DEF Request
    <3>2. <<Subscribe>> \in Seq(Request) /\ <<>> \in Seq(Request)
      BY <3>1
    <3> QED
      BY <1>4, <3>2
  <2>3. PacketsOK /\ GoodData(data) /\ connect \in {"IN_PROGRESS", "CONNECTED"}
    BY DEF ChronicleInv, IInv
  <2>4. r.sent \in Seq(Request)
    BY <1>4, <2>1, <2>2, <2>3, MirrorTicks
  <2> QED
    BY <2>2, <2>3, <2>4 DEF PacketsOK
<1>6. ASSUME ~subscribed PROVE toConsole' # <<>> /\ Head(toConsole') = Subscribe
  <2>1. PICK c, t : c = toConsole /\ t = sendQ
    OBVIOUS
  <2>2. SubscriptionFirst
    BY DEF ChronicleInv
  <2>3. CASE c # <<>>
    <3>1. Head(c) = Subscribe
      BY <1>5, <1>6, <2>1, <2>2, <2>3 DEF SubscriptionFirst
    <3>2. CASE q = <<>>
      BY <1>4, <2>1, <2>3, <3>1, <3>2
    <3>3. CASE q # <<>>
      <4>1. PICK x : x = Head(q) /\ toConsole' = Append(c, x)
        BY <1>4, <2>1, <3>3
      <4>2. PICK v : v = Append(c, x) /\ v # <<>> /\ Head(v) = Head(c)
        <5>1. c \in Seq(Request)
          BY <1>5, <2>1
        <5>2. PICK S : S = Request \cup {x}
          OBVIOUS
        <5>3. c \in Seq(S) /\ x \in S /\ Len(c) \in Nat /\ Len(c) >= 1
          BY <2>3, <5>1, <5>2
        <5>4. PICK v : v = Append(c, x)
          OBVIOUS
        <5>5. v \in Seq(S) /\ Len(v) = Len(c) + 1 /\ v[1] = c[1]
          BY <5>3, <5>4
        <5>6. v # <<>> /\ Head(v) = Head(c)
          BY <5>3, <5>5
        <5> QED
          BY <5>4, <5>6
      <4> QED
        BY <3>1, <4>1, <4>2
    <3> QED
      BY <3>2, <3>3
  <2>4. CASE c = <<>>
    <3>1. PICK u : u = t \o more /\ u \in Seq(Request) /\ u # <<>> /\ Head(u) = Subscribe
      <4>1. CASE connect = "CONNECTED"
        <5>1. t \in Seq(Request) /\ t # <<>> /\ Head(t) = Subscribe /\ more = <<>>
          BY <1>4, <1>5, <1>6, <2>1, <2>2, <2>4, <4>1 DEF SubscriptionFirst
        <5>2. t \o <<>> = t
          BY <5>1
        <5> QED
          BY <5>1, <5>2
      <4>2. CASE connect # "CONNECTED"
        <5>1. t = <<>> /\ more = <<Subscribe>> /\ more \in Seq(Request)
          BY <1>4, <1>5, <2>1, <2>2, <4>2 DEF SubscriptionFirst
        <5>2. <<>> \o more = more
          BY <5>1
        <5>3. Len(<<Subscribe>>) = 1 /\ <<Subscribe>>[1] = Subscribe
          OBVIOUS
        <5>4. more # <<>> /\ Head(more) = Subscribe
          BY <5>1, <5>3
        <5> QED
          BY <5>1, <5>2, <5>4
      <4> QED
        BY <4>1, <4>2
    <3>2. PICK sent : sent = r.sent /\ sent \in Seq(Request)
      BY <1>5
    <3>3. q = u \o sent
      BY <1>4, <2>1, <3>1, <3>2
    <3>4. Len(u) \in Nat /\ Len(u) >= 1
      BY <3>1
    <3>5. q \in Seq(Request) /\ Len(q) >= 1 /\ q[1] = u[1]
      <4>1. u \o sent \in Seq(Request) /\ Len(u \o sent) = Len(u) + Len(sent) /\ Len(sent) \in Nat
            /\ \A k \in 1..(Len(u) + Len(sent)) : (u \o sent)[k] = IF k <= Len(u) THEN u[k] ELSE sent[k - Len(u)]
        <5>1. PICK S : S = Request
          OBVIOUS
        <5>2. u \in Seq(S) /\ sent \in Seq(S)
          BY <3>1, <3>2, <5>1
        <5>3. /\ u \o sent \in Seq(S) /\ Len(u \o sent) = Len(u) + Len(sent) /\ Len(sent) \in Nat
              /\ \A k \in 1..(Len(u) + Len(sent)) : (u \o sent)[k] = IF k <= Len(u) THEN u[k] ELSE sent[k - Len(u)]
          BY <5>2, JoinFacts
        <5> QED
          BY <5>1, <5>3
      <4>2. 1 \in 1..(Len(u) + Len(sent)) /\ 1 <= Len(u)
        BY <3>4, <4>1
      <4> QED
        BY <3>3, <3>4, <4>1, <4>2
    <3>6. q # <<>> /\ Head(q) = Subscribe
      BY <3>1, <3>5
    <3>7. toConsole' = Append(<<>>, Subscribe)
      BY <1>4, <2>1, <2>4, <3>6
    <3>8. Append(<<>>, Subscribe) = <<Subscribe>>
      OBVIOUS
    <3>9. PICK v : v = <<Subscribe>> /\ v # <<>> /\ Head(v) = Subscribe
      <4>1. PICK x, v : x = Subscribe /\ v = <<x>>
        OBVIOUS
      <4>2. v \in Seq({x}) /\ Len(v) = 1 /\ v[1] = x
        BY <4>1
      <4>3. v # <<>> /\ Head(v) = x
        BY <4>2
      <4> QED
        BY <4>1, <4>3
    <3> QED
      BY <3>7, <3>8, <3>9
  <2> QED
    BY <2>3, <2>4
<1>7. ASSUME ~subscribed PROVE Unheard(data') /\ ShowEventsOnly(toClient')
  <2>1. Unheard(data) /\ ShowEventsOnly(toClient)
    BY <1>7 DEF ChronicleInv, SubscriptionFirst
  <2>2. PICK Q, R : Q = toClient /\ R = SubSeq(Q, n + 1, Len(Q)) /\ Q \in Seq(Command) /\ n \in 0..Len(Q)
    BY <1>5
  <2>3. Len(Q) \in Nat /\ n \in Nat /\ n <= Len(Q)
    BY <2>2
  <2>4. \A i \in 1..n : i \in 1..Len(Q)
    BY <2>3
  <2>5. Unheard(data')
    BY <1>3, <2>1, <2>2, <2>4 DEF HasRead, ShowEventsOnly
  <2>6. \A i \in 1..Len(R) : n + i \in 1..Len(Q) /\ R[i] = Q[n + i]
    <3>1. Ordered(Q) /\ Chronicle(H, Q, show)
      BY <1>2, <2>2 DEF Told
    <3>2. Remains(H, Q, n, R, show)
      BY <2>2, <3>1, RestOfStory
    <3> QED
      BY <3>2 DEF Remains
  <2>7. toClient' = R
    BY <1>4, <2>2
  <2> QED
    BY <2>1, <2>2, <2>5, <2>6, <2>7 DEF ShowEventsOnly
<1>8. SubscriptionFirst'
  BY <1>4, <1>6, <1>7 DEF SubscriptionFirst
<1> QED
  BY <1>1, <1>3, <1>8 DEF ChronicleInv

(***************************************************************************)
(* Reading the changes.                                                    *)
(***************************************************************************)
LEMMA ClearingKeepsChronicleInv ==
  ASSUME ChronicleInv, ClearDirtyFlag
  PROVE  ChronicleInv' /\ data'.status.value = data.status.value
<1>1. /\ data' = ClearDirtyData(data) /\ data.status.dirty
      /\ UNCHANGED <<connect, sendQ, toConsole, toClient, show, subscribed>>
  BY DEF ClearDirtyFlag, consoleVars
<1>2. IInv'
  BY NextIInv DEF ChronicleInv, Next
<1>3. PICK H : Told(H)
  BY DEF ChronicleInv
<1>4. PICK d, e, Q : d = data /\ e = data' /\ e = ClearDirtyData(d) /\ Q = toClient
  BY <1>1
<1>5. GoodData(d) /\ d.status.dirty /\ DataMirrors(H[1], d) /\ Q \in Seq(Command)
  BY <1>1, <1>3, <1>4 DEF Told, UpToDate, ChronicleInv, IInv, PacketsOK
<1>6. DataMirrors(H[1], e) /\ Grows(d, e) /\ e.status.value = d.status.value
      /\ (Unheard(d) => Unheard(e))
  BY <1>4, <1>5, ClearDirtyMirrors
<1>7. GoodData(e)
  BY <1>2, <1>4 DEF IInv
<1>8. ASSUME Len(Q) > 0 PROVE Ready(e, Q[1])
  <2>1. Ready(d, Q[1])
    BY <1>3, <1>4, <1>8 DEF Told, UpToDate
  <2>2. 1 \in 1..Len(Q)
    BY <1>5, <1>8
  <2>3. Explains(Q[1], H[1], H[1 + 1])
    BY <1>3, <1>4, <2>2 DEF Told, Chronicle
  <2> QED
    BY <1>5, <1>6, <2>1, <2>3, ReadyGrows
<1>9. UpToDate(H, Q, e)
  BY <1>6, <1>7, <1>8 DEF UpToDate
<1>10. Told(H)'
  BY <1>1, <1>3, <1>4, <1>9 DEF Told
<1>11. SubscriptionFirst'
  BY <1>1, <1>4, <1>6 DEF ChronicleInv, SubscriptionFirst
<1> QED
  BY <1>2, <1>4, <1>6, <1>10, <1>11 DEF ChronicleInv

(***************************************************************************)
(* An answer.                                                              *)
(***************************************************************************)
LEMMA AnswerKeepsChronicleInv ==
  ASSUME ArgsPerPacket >= 3, OnePart, ChronicleInv, Answer
  PROVE  /\ ChronicleInv' /\ UNCHANGED <<show, data>>
         /\ \E W : Answers(W) /\ toClient' = toClient \o W
<1>1. PICK q, Q, s : q = toConsole /\ q \in Seq(Request) /\ q # <<>> /\ Q = toClient /\ Q \in Seq(Command)
                     /\ s = show /\ s \in Shows
  BY DEF Answer, ChronicleInv, IInv, PacketsOK
<1>2. PICK req : req = Head(q) /\ req \in Request
  BY <1>1
<1>3. UNCHANGED <<show, data, connect, sendQ>>
  BY DEF Answer, clientVars
<1>4. IInv'
  BY NextIInv DEF ChronicleInv, Next
<1>5. PICK W : /\ Answers(W) /\ toClient' = Q \o W /\ Says(W, s, s)
               /\ subscribed' /\ (req = Subscribe \/ subscribed)
  <2>1. CASE req = Subscribe
    <3>1. toClient' = Q /\ subscribed' = TRUE
      BY <1>1, <1>2, <2>1 DEF Answer
    <3>2. Q \o <<>> = Q
      BY <1>1
    <3>3. <<>> \in Seq(Command) /\ Says(<<>>, s, s) /\ Len(<<>>) = 0
      BY <1>1, SaysNothing
    <3>4. Answers(<<>>)
      BY <3>3 DEF Answers
    <3> QED
      BY <2>1, <3>1, <3>2, <3>3, <3>4
  <2>2. CASE req # Subscribe
    <3>1. PICK a : a = AnswerTo(s, req)
      OBVIOUS
    <3>2. toClient' = Q \o a /\ subscribed' = subscribed
      BY <1>1, <1>2, <2>2, <3>1 DEF Answer
    <3>3. Answers(a) /\ Says(a, s, s)
      BY <1>1, <1>2, <2>2, <3>1, AnswerSays
    <3>4. subscribed
      <4>1. connect \in {"IN_PROGRESS", "CONNECTED"} /\ SubscriptionFirst
        BY DEF ChronicleInv, IInv
      <4> QED
        BY <1>1, <1>2, <2>2, <4>1 DEF SubscriptionFirst
    <3> QED
      BY <3>2, <3>3, <3>4
  <2> QED
    BY <2>1, <2>2
<1>6. PICK H : Told(H)
  BY DEF ChronicleInv
<1>7. \E K : Told(K)' /\ K[1] = H[1]
  <2>1. W \in Seq(Command) /\ Says(W, show, show') /\ toClient' = toClient \o W /\ data' = data
        /\ toClient \in Seq(Command)
    BY <1>1, <1>3, <1>5 DEF Answers
  <2> QED
    BY <1>6, <2>1, MoreIsTold
<1>8. SubscriptionFirst'
  <2>1. connect # "IN_PROGRESS"
    BY <1>1 DEF ChronicleInv, SubscriptionFirst
  <2> QED
    BY <1>3, <1>5, <2>1 DEF SubscriptionFirst
<1> QED
  BY <1>1, <1>3, <1>4, <1>5, <1>7, <1>8 DEF ChronicleInv

(***************************************************************************)
(* A change of the show.                                                   *)
(***************************************************************************)
LEMMA ChangeKeepsChronicleInv ==
  ASSUME ChronicleInv, Change
  PROVE  ChronicleInv'
<1>1. PICK W : Changed(W)
  BY ChangeIsAnnounced DEF ChronicleInv, IInv
<1>2. IInv'
  BY NextIInv DEF ChronicleInv, Next
<1>3. PICK Q, s, t : /\ Q = toClient /\ Q \in Seq(Command) /\ s = show /\ t = show' /\ s \in Shows /\ t \in Shows
                     /\ toClient' = Q \o W
  BY <1>1 DEF ChronicleInv, IInv, PacketsOK, Changed
<1>4. UNCHANGED <<connect, data, sendQ, toConsole, subscribed>>
  BY <1>1 DEF Changed
<1>5. PICK H : Told(H)
  BY DEF ChronicleInv
<1>6. CASE Announces(W, show')
  <2>1. W \in Seq(Command) /\ Says(W, show, show') /\ toClient \in Seq(Command)
    BY <1>3, <1>6 DEF Announces
  <2>2. \E K : Told(K)' /\ K[1] = H[1]
    BY <1>1, <1>5, <2>1, MoreIsTold DEF Changed
  <2>3. ASSUME ~subscribed PROVE ShowEventsOnly(toClient')
    <3>1. ShowEventsOnly(Q) /\ SubscriptionFirst
      BY <1>3, <2>3 DEF ChronicleInv, SubscriptionFirst
    <3>2. W \in Seq(Command) /\ Len(W) = 1 /\ W[1].kind = "show"
      <4>1. Len(<<>>) = 0
        OBVIOUS
      <4>2. W # <<>>
        BY <1>6, <4>1 DEF Announces
      <4> QED
        BY <1>1, <2>1, <2>3, <4>2 DEF Changed
    <3>3. PICK S : S = Command
      OBVIOUS
    <3>4. Len(Q \o W) = Len(Q) + 1 /\ Len(Q) \in Nat
          /\ \A k \in 1..(Len(Q) + 1) : (Q \o W)[k] = IF k <= Len(Q) THEN Q[k] ELSE W[k - Len(Q)]
      <4>1. Q \in Seq(S) /\ W \in Seq(S)
        BY <1>3, <3>2, <3>3
      <4>2. /\ Q \o W \in Seq(S) /\ Len(Q \o W) = Len(Q) + Len(W) /\ Len(Q) \in Nat
            /\ \A k \in 1..(Len(Q) + Len(W)) : (Q \o W)[k] = IF k <= Len(Q) THEN Q[k] ELSE W[k - Len(Q)]
        BY <4>1, JoinFacts
      <4> QED
        BY <3>2, <4>2
    <3>5. \A k \in 1..(Len(Q) + 1) : (k <= Len(Q) /\ k \in 1..Len(Q)) \/ (~(k <= Len(Q)) /\ k - Len(Q) = 1)
      BY <3>4
    <3> QED
      BY <1>3, <3>1, <3>2, <3>4, <3>5 DEF ShowEventsOnly
  <2>4. SubscriptionFirst'
    BY <1>4, <2>3 DEF ChronicleInv, SubscriptionFirst
  <2> QED
    BY <1>2, <2>2, <2>4 DEF ChronicleInv
<1>7. CASE W = <<>> /\ ~subscribed
  <2>1. toClient' = Q
    <3>1. Q \o <<>> = Q
      BY <1>3
    <3> QED
      BY <1>3, <1>7, <3>1
  <2>2. PICK q : q = Len(Q) /\ q \in Nat
    <3>1. Len(Q) \in Nat
      BY <1>3
    <3> QED
      BY <3>1
  <2>3. Chronicle(H, Q, s) /\ Ordered(Q) /\ UpToDate(H, Q, data) /\ Unheard(data) /\ ShowEventsOnly(Q)
    BY <1>3, <1>5, <1>7 DEF Told, ChronicleInv, SubscriptionFirst
  <2> DEFINE K == [i \in 1..(q + 1) |-> IF i = q + 1 THEN t ELSE H[i]]
  <2>4. /\ K \in [1..(q + 1) -> View] /\ K[q + 1] = t
        /\ \A i \in 1..q : K[i] = H[i] /\ i \in 1..(q + 1) /\ i + 1 \in 1..(q + 1)
    <3>1. t \in View /\ H \in [1..(q + 1) -> View]
      BY <1>3, <2>2, <2>3, ShowIsView DEF Chronicle
    <3>2. q + 1 \in 1..(q + 1) /\ \A i \in 1..q : i # q + 1 /\ i \in 1..(q + 1) /\ i + 1 \in 1..(q + 1)
      BY <2>2
    <3> QED
      BY <3>1, <3>2
  <2> HIDE DEF K
  <2>5. \A i \in 1..q : Explains(Q[i], K[i], K[i + 1]) /\ (K[i] \in Shows \/ Second(Q[i]))
    <3> TAKE i \in 1..q
    <3>1. Q[i].kind = "show" /\ Explains(Q[i], H[i], H[i + 1]) /\ (H[i] \in Shows \/ Second(Q[i]))
      BY <2>2, <2>3 DEF ShowEventsOnly, Chronicle
    <3> QED
      BY <2>4, <3>1 DEF Explains
  <2>6. Chronicle(K, Q, t)
    BY <1>3, <2>2, <2>4, <2>5 DEF Chronicle
  <2>7. DataMirrors(K[1], data)
    BY <2>3, UnheardFacts DEF UpToDate
  <2>8. UpToDate(K, Q, data)
    BY <2>3, <2>7 DEF UpToDate
  <2>9. Told(K)'
    BY <1>3, <1>4, <2>1, <2>3, <2>6, <2>8 DEF Told
  <2>10. SubscriptionFirst'
    BY <1>3, <1>4, <2>1 DEF ChronicleInv, SubscriptionFirst
  <2> QED
    BY <1>2, <2>9, <2>10 DEF ChronicleInv
<1> QED
  BY <1>1, <1>6, <1>7 DEF Changed

(***************************************************************************)
(* Every step.                                                             *)
(***************************************************************************)
LEMMA NextChronicleInv ==
  ASSUME ArgsPerPacket >= 3, OnePart, ChronicleInv, [Next]_vars
  PROVE  ChronicleInv'
<1>1. ASSUME UNCHANGED vars PROVE ChronicleInv'
  <2>1. UNCHANGED <<connect, data, sendQ, toConsole, toClient, show, subscribed>>
    BY <1>1 DEF vars, clientVars, consoleVars
  <2>2. IInv'
    BY <1>1, NextIInv DEF ChronicleInv
  <2>3. SubscriptionFirst'
    BY <2>1 DEF ChronicleInv, SubscriptionFirst
  <2>4. PICK H : Told(H)
    BY DEF ChronicleInv
  <2>5. Told(H)'
    BY <2>1, <2>4 DEF Told
  <2> QED
    BY <2>2, <2>3, <2>5 DEF ChronicleInv
<1>2. ASSUME NEW n \in 0..Len(toClient), Tick(n) PROVE ChronicleInv'
  BY <1>1, <1>2, TickKeepsChronicleInv DEF Tick
<1> QED
  BY <1>1, <1>2, ClearingKeepsChronicleInv, AnswerKeepsChronicleInv, ChangeKeepsChronicleInv DEF Next

(***************************************************************************)
(* What is on its way to the library is a chronicle of the show, however   *)
(* requests, replies, changes and ticks interleave.                        *)
(***************************************************************************)
THEOREM ChronicleInvariant ==
  ASSUME ArgsPerPacket >= 3, InitialConnect \subseteq {"IN_PROGRESS"}, OnePart
  PROVE  Spec => []ChronicleInv
<1>1. Init => ChronicleInv
  BY InitChronicleInv
<1>2. ChronicleInv /\ [Next]_vars => ChronicleInv'
  BY NextChronicleInv
<1> QED
  BY <1>1, <1>2, PTL DEF Spec

(***************************************************************************)
(* A synchronised mirror shows the first view of the chronicle.            *)
(***************************************************************************)
LEMMA FirstIsShown ==
  ASSUME OnePart, NEW H, Told(H), IsSynchronized
  PROVE  /\ H[1] \in View /\ GoodData(data) /\ DataMirrors(H[1], data) /\ Shown(H[1])
         /\ MirroredShow = H[1]
<1>1. GoodData(data) /\ DataMirrors(H[1], data)
  BY DEF Told, UpToDate
<1>2. H[1] \in View
  <2>1. Len(toClient) \in Nat
    BY DEF Told, Ordered
  <2> QED
    BY DEF Told, Chronicle
<1>3. Shown(H[1])
  BY <1>1, <1>2, SynchronizedShown
<1> QED
  BY <1>1, <1>2, <1>3, ShownIsMirrored

(***************************************************************************)
(* The UID maps of a synchronised mirror agree with its targets, however   *)
(* requests, replies, changes and ticks interleave.                        *)
(***************************************************************************)
THEOREM SynchronizedUidsAlways ==
  ASSUME ArgsPerPacket >= 3, InitialConnect \subseteq {"IN_PROGRESS"}, OnePart
  PROVE  Spec => []SynchronizedUids
<1>1. ChronicleInv => SynchronizedUids
  <2> SUFFICES ASSUME ChronicleInv, IsSynchronized PROVE SynchronizedUids
    BY DEF SynchronizedUids
  <2>1. PICK H : Told(H)
    BY DEF ChronicleInv
  <2> QED
    BY <2>1, FirstIsShown, ShownUids
<1> QED
  BY <1>1, ChronicleInvariant, PTL

(***************************************************************************)
(* A synchronised mirror has no cues of a cue list that is not there,      *)
(* whatever order the cue lists were counted, notified and removed in.     *)
(***************************************************************************)
THEOREM NoOrphanedCuesAlways ==
  ASSUME ArgsPerPacket >= 3, InitialConnect \subseteq {"IN_PROGRESS"}, OnePart
  PROVE  Spec => []NoOrphanedCues
<1>1. ChronicleInv => NoOrphanedCues
  <2> SUFFICES ASSUME ChronicleInv, IsSynchronized PROVE NoOrphanedCues
    BY DEF NoOrphanedCues
  <2>1. PICK H : Told(H)
    BY DEF ChronicleInv
  <2> QED
    BY <2>1, FirstIsShown, ShownCues
<1> QED
  BY <1>1, ChronicleInvariant, PTL

----------------------------------------------------------------------------
(* What was announced. *)

\* The shows before the changes that the packets of Q announce.
PastShows(Q) == [i \in DOMAIN Q |-> ShowBefore(Q[i])]

Past(Q) == FlattenSeq(PastShows(Q))

(***************************************************************************)
(* A packet says of at most one show that it is past.                      *)
(***************************************************************************)
LEMMA ShowBeforeFacts ==
  /\ \A m \in Command : ShowBefore(m) \in Seq(Shows)
  /\ \A m \in Command : IsReply(m) => ShowBefore(m) = <<>>
<1>1. ASSUME NEW m \in Command PROVE ShowBefore(m) \in Seq(Shows)
  <2>1. m.kind \in {"notify", "show"} /\ m.before # Garbled => m.before \in Shows
    <3>1. CASE m \in CountReply \cup TargetData
      BY <3>1 DEF CountReply, TargetData, Keyed
    <3>2. CASE m \in Notice
      BY <3>2 DEF Notice, Keyed
    <3>3. CASE m \in Event
      BY <3>3 DEF Event
    <3> QED
      BY <3>1, <3>2, <3>3 DEF Command
  <2>2. \A x \in Shows : <<x>> \in Seq(Shows)
    OBVIOUS
  <2>3. <<>> \in Seq(Shows)
    OBVIOUS
  <2> QED
    BY <2>1, <2>2, <2>3 DEF ShowBefore
<1>2. ASSUME NEW m \in Command, IsReply(m) PROVE ShowBefore(m) = <<>>
  BY <1>2 DEF IsReply, ShowBefore
<1> QED
  BY <1>1, <1>2

(***************************************************************************)
(* What the packets of a sequence announce is a sequence of shows, one at  *)
(* most for each.                                                          *)
(***************************************************************************)
LEMMA ChangesFacts ==
  ASSUME NEW Q \in Seq(Command)
  PROVE  /\ PastShows(Q) \in Seq(Seq(Shows)) /\ Len(PastShows(Q)) = Len(Q)
         /\ \A i \in 1..Len(Q) : PastShows(Q)[i] = ShowBefore(Q[i])
         /\ Past(Q) \in Seq(Shows)
<1>1. PICK q : q = Len(Q) /\ q \in Nat /\ DOMAIN Q = 1..q /\ \A i \in 1..q : Q[i] \in Command
  <2>1. Len(Q) \in Nat /\ DOMAIN Q = 1..Len(Q) /\ \A i \in 1..Len(Q) : Q[i] \in Command
    OBVIOUS
  <2> QED
    BY <2>1
<1>2. PICK c : c = PastShows(Q) /\ c = [i \in 1..q |-> ShowBefore(Q[i])]
  BY <1>1 DEF PastShows
<1>3. PICK S : S = Seq(Shows)
  OBVIOUS
<1>4. \A i \in 1..q : ShowBefore(Q[i]) \in S
  BY <1>1, <1>3, ShowBeforeFacts
<1>5. c \in Seq(S) /\ Len(c) = q /\ \A i \in 1..q : c[i] = ShowBefore(Q[i])
  BY <1>1, <1>2, <1>4
<1>6. c \in Seq(Seq(Shows))
  BY <1>3, <1>5
<1>7. Past(Q) \in Seq(Shows)
  BY <1>2, <1>6, FlattenFacts DEF Past
<1> QED
  BY <1>1, <1>2, <1>5, <1>6, <1>7

(***************************************************************************)
(* What two sequences of packets announce, one after the other.            *)
(***************************************************************************)
LEMMA PastJoin ==
  ASSUME NEW P \in Seq(Command), NEW R \in Seq(Command), NEW Q, Q = P \o R
  PROVE  Q \in Seq(Command) /\ Past(Q) = Past(P) \o Past(R)
<1>1. PICK p, r : p = Len(P) /\ r = Len(R) /\ p \in Nat /\ r \in Nat
  <2>1. Len(P) \in Nat /\ Len(R) \in Nat
    OBVIOUS
  <2> QED
    BY <2>1
<1>2. /\ Q \in Seq(Command) /\ Len(Q) = p + r
      /\ \A k \in 1..(p + r) : Q[k] = IF k <= p THEN P[k] ELSE R[k - p]
  <2>1. PICK S : S = Command
    OBVIOUS
  <2>2. P \in Seq(S) /\ R \in Seq(S)
    BY <2>1
  <2>3. /\ P \o R \in Seq(S) /\ Len(P \o R) = Len(P) + Len(R)
        /\ \A k \in 1..(Len(P) + Len(R)) : (P \o R)[k] = IF k <= Len(P) THEN P[k] ELSE R[k - Len(P)]
    BY <2>2, JoinFacts
  <2> QED
    BY <1>1, <2>1, <2>3
<1>3. PICK a, b, c : a = PastShows(P) /\ b = PastShows(R) /\ c = PastShows(Q)
  OBVIOUS
<1>4. /\ a \in Seq(Seq(Shows)) /\ Len(a) = p /\ \A i \in 1..p : a[i] = ShowBefore(P[i])
      /\ b \in Seq(Seq(Shows)) /\ Len(b) = r /\ \A i \in 1..r : b[i] = ShowBefore(R[i])
      /\ c \in Seq(Seq(Shows)) /\ Len(c) = p + r /\ \A i \in 1..(p + r) : c[i] = ShowBefore(Q[i])
  BY <1>1, <1>2, <1>3, ChangesFacts
<1>5. c = a \o b
  <2>1. PICK S : S = Seq(Shows)
    OBVIOUS
  <2>2. PICK d : d = a \o b
    OBVIOUS
  <2>3. a \in Seq(S) /\ b \in Seq(S) /\ c \in Seq(S)
    BY <1>4, <2>1
  <2>4. d \in Seq(S) /\ Len(d) = p + r /\ \A k \in 1..(p + r) : d[k] = IF k <= p THEN a[k] ELSE b[k - p]
    BY <1>4, <2>2, <2>3, JoinFacts, ZenonT(40)
  <2>5. \A k \in 1..(p + r) : (k <= p /\ k \in 1..p) \/ (~(k <= p) /\ k - p \in 1..r)
    BY <1>1
  <2>6. ASSUME NEW k \in 1..(p + r) PROVE c[k] = d[k]
    <3>1. c[k] = ShowBefore(Q[k]) /\ Q[k] = (IF k <= p THEN P[k] ELSE R[k - p])
          /\ d[k] = (IF k <= p THEN a[k] ELSE b[k - p])
      BY <1>2, <1>4, <2>4
    <3>2. CASE k <= p /\ k \in 1..p
      BY <1>4, <3>1, <3>2
    <3>3. CASE ~(k <= p) /\ k - p \in 1..r
      BY <1>4, <3>1, <3>3
    <3> QED
      BY <2>5, <3>2, <3>3
  <2>7. c = d
    BY <1>1, <1>4, <2>3, <2>4, <2>6
  <2> QED
    BY <2>2, <2>7
<1>6. FlattenSeq(c) = FlattenSeq(a) \o FlattenSeq(b)
  BY <1>4, <1>5, FlattenJoin
<1> QED
  BY <1>2, <1>3, <1>6 DEF Past

(***************************************************************************)
(* Replies announce nothing.                                               *)
(***************************************************************************)
LEMMA PastOfReplies ==
  ASSUME NEW Q \in Seq(Command), \A i \in 1..Len(Q) : IsReply(Q[i])
  PROVE  Past(Q) = <<>>
<1>1. PICK c : c = PastShows(Q) /\ c \in Seq(Seq(Shows)) /\ Len(c) = Len(Q)
               /\ \A i \in 1..Len(Q) : c[i] = ShowBefore(Q[i])
  BY ChangesFacts
<1>2. \A i \in 1..Len(Q) : Q[i] \in Command
  OBVIOUS
<1>3. \A i \in 1..Len(c) : c[i] = <<>>
  BY <1>1, <1>2, ShowBeforeFacts
<1>4. FlattenSeq(c) = <<>>
  BY <1>1, <1>3, FlattenEmpty
<1> QED
  BY <1>1, <1>4 DEF Past

(***************************************************************************)
(* One packet announces what it says itself.                               *)
(***************************************************************************)
LEMMA PastOfOne ==
  ASSUME NEW m \in Command, NEW Q, Q = <<m>>
  PROVE  Q \in Seq(Command) /\ Past(Q) = ShowBefore(m)
<1>1. Q \in Seq(Command) /\ Len(Q) = 1 /\ Q[1] = m
  OBVIOUS
<1>2. PICK c : c = PastShows(Q) /\ c \in Seq(Seq(Shows)) /\ Len(c) = 1 /\ c[1] = ShowBefore(m)
  <2>1. 1 \in 1..Len(Q)
    BY <1>1
  <2> QED
    BY <1>1, <2>1, ChangesFacts
<1>3. PICK r : r = ShowBefore(m) /\ r \in Seq(Shows)
  BY ShowBeforeFacts
<1>4. c = <<r>>
  <2>1. PICK S : S = Seq(Shows)
    OBVIOUS
  <2>2. PICK d : d = <<r>> /\ d \in Seq(S) /\ Len(d) = 1 /\ d[1] = r
    <3>1. r \in S
      BY <1>3, <2>1
    <3>2. <<r>> \in Seq(S) /\ Len(<<r>>) = 1 /\ <<r>>[1] = r
      BY <3>1
    <3> QED
      BY <3>2
  <2>3. c \in Seq(S) /\ \A i \in 1..1 : c[i] = d[i]
    BY <1>2, <1>3, <2>1, <2>2
  <2>4. c = d
    BY <1>2, <2>2, <2>3
  <2> QED
    BY <2>2, <2>4
<1>5. FlattenSeq(c) = r
  BY <1>4, FlattenOne
<1> QED
  BY <1>1, <1>2, <1>3, <1>5 DEF Past

(***************************************************************************)
(* The announcement of a change says what the show was before it, once.    *)
(***************************************************************************)
LEMMA PastOfAnnouncement ==
  ASSUME show \in Shows, NEW t, NEW W, Announces(W, t)
  PROVE  W \in Seq(Command) /\ Past(W) = <<show>>
<1>1. W \in Seq(Command) /\ Len(W) \in {1, 2} /\ W[1].kind \in {"notify", "show"} /\ W[1].before = show
      /\ (Len(W) = 2 => Second(W[2]))
  BY DEF Announces
<1>2. PICK a : a = W[1] /\ a \in Command
  BY <1>1
<1>3. ShowBefore(a) = <<show>>
  BY <1>1, <1>2, GarbledAssumption DEF ShowBefore
<1>4. PICK A : A = <<a>> /\ A \in Seq(Command) /\ Len(A) = 1 /\ A[1] = a /\ Past(A) = <<show>>
  <2>1. PICK A : A = <<a>>
    OBVIOUS
  <2>2. A \in Seq(Command) /\ Len(A) = 1 /\ A[1] = a
    BY <1>2, <2>1
  <2>3. Past(A) = <<show>>
    BY <1>2, <1>3, <2>1, PastOfOne
  <2> QED
    BY <2>1, <2>2, <2>3
<1>5. CASE Len(W) = 1
  <2>1. W = A
    BY <1>1, <1>2, <1>4, <1>5
  <2> QED
    BY <1>1, <1>4, <2>1
<1>6. CASE Len(W) = 2
  <2>1. PICK b : b = W[2] /\ b \in Command /\ Second(b)
    BY <1>1, <1>6
  <2>2. PICK B : B = <<b>> /\ B \in Seq(Command) /\ Len(B) = 1 /\ B[1] = b
    <3>1. PICK B : B = <<b>>
      OBVIOUS
    <3>2. b \in Command
      BY <2>1
    <3>3. B \in Seq(Command) /\ Len(B) = 1 /\ B[1] = b
      BY <3>1, <3>2
    <3> QED
      BY <3>1, <3>3
  <2>3. Past(B) = <<>>
    <3>1. ShowBefore(b) = <<>>
      BY <2>1 DEF Second, ShowBefore
    <3> QED
      BY <2>1, <2>2, <3>1, PastOfOne
  <2>4. PICK V : V = A \o B
    OBVIOUS
  <2>5. V \in Seq(Command) /\ Len(V) = 2 /\ V[1] = a /\ V[2] = b
    <3>1. PICK S : S = Command
      OBVIOUS
    <3>2. A \in Seq(S) /\ B \in Seq(S)
      BY <1>4, <2>2, <3>1
    <3>3. /\ V \in Seq(S) /\ Len(V) = 1 + 1
          /\ \A k \in 1..(1 + 1) : V[k] = IF k <= 1 THEN A[k] ELSE B[k - 1]
      BY <1>4, <2>2, <2>4, <3>2, JoinFacts
    <3> QED
      BY <1>4, <2>2, <3>1, <3>3
  <2>6. W = V
    BY <1>1, <1>2, <1>6, <2>1, <2>5
  <2>7. Past(V) = Past(A) \o Past(B)
    BY <1>4, <2>2, <2>4, PastJoin
  <2>8. <<show>> \o <<>> = <<show>>
    <3>1. <<show>> \in Seq(Shows)
      OBVIOUS
    <3> QED
      BY <3>1, ConcatEmptySeq
  <2> QED
    BY <1>1, <1>4, <2>3, <2>6, <2>7, <2>8
<1> QED
  BY <1>1, <1>5, <1>6

(***************************************************************************)
(* A synchronised mirror is not between the two messages about a change.   *)
(***************************************************************************)
LEMMA SynchronizedIsSettled ==
  ASSUME NEW H, NEW Q, NEW s, NEW d, Chronicle(H, Q, s), UpToDate(H, Q, d), d.status.value = "COMPLETE",
         NEW q, q = Len(Q), 1 \in 1..q
  PROVE  ~Second(Q[1])
<1> SUFFICES ASSUME Second(Q[1]) PROVE FALSE
  OBVIOUS
<1>1. PICK m : m = Q[1]
  OBVIOUS
<1>2. Explains(m, H[1], H[1 + 1]) /\ GoodData(d) /\ DataMirrors(H[1], d) /\ Ready(d, m) /\ Second(m)
  BY <1>1 DEF Chronicle, UpToDate
<1>3. m.type = "CUE" /\ KeyOf(m) \in ShowLists
  BY <1>2 DEF Ready, Explains, NoticeIsOf, Second
<1>4. CueLists \in ShowLists
  <2>1. KeyOf(m)[1] = "CUE"
    BY <1>3 DEF KeyOf
  <2> QED
    BY <1>3, <2>1, ShowListFacts
<1>5. CueLists \in DOMAIN d.lists
  BY <1>2, <1>4, ShowListFacts DEF DataMirrors, ListsThere, CueLists
<1>6. PICK l : l = d.lists[CueLists] /\ GoodList(l) /\ l.status.value = "COMPLETE"
  BY <1>2, <1>5, DataFields DEF GoodData, StatusGood
<1>7. l.internal = "COMPLETE" /\ ~Invalidated(l, m.listId)
  <2>1. CompleteGood(l) /\ PhaseGood(l)
    BY <1>6 DEF GoodList
  <2>2. l.internal = "COMPLETE"
    BY <1>6, <2>1 DEF PhaseGood
  <2>3. PICK n : n = m.listId /\ n \in Num
    <3>1. KeyOf(m)[1] = "CUE" /\ KeyOf(m)[2] = m.listId
      BY <1>3 DEF KeyOf
    <3> QED
      BY <1>3, <3>1, ShowListFacts
  <2>4. ~Invalidated(l, n)
    <3>1. SUFFICES ASSUME l.entry[n] # "absent" PROVE LivePartsOf(l, n) # {}
      BY DEF Invalidated
    <3>2. PICK part \in Part : <<n, part>> \in l.live
      BY <1>6, <2>1, <2>3, <3>1 DEF CompleteGood
    <3>3. PICK k : k = <<n, part>> /\ k \in l.live /\ k[1] = n
      BY <3>2
    <3> QED
      BY <3>3 DEF LivePartsOf
  <2> QED
    BY <2>2, <2>3, <2>4
<1> QED
  BY <1>2, <1>5, <1>6, <1>7 DEF Ready, CueListsCounted

\* The first n packets are replies; or the first change they announce was from H[1].
RepliesOnly(H, Q, n) == (\A i \in 1..n : IsReply(Q[i])) /\ H[n + 1] = H[1]

FirstPast(H, Q, n) == LET p == Past(SubSeq(Q, 1, n)) IN Len(p) >= 1 /\ p[1] = H[1]

(***************************************************************************)
(* While only replies are read, the view stays the same.                   *)
(***************************************************************************)
LEMMA RepliesChangeNothing ==
  ASSUME NEW H, NEW Q \in Seq(Command), NEW s, Chronicle(H, Q, s), NEW n \in 0..Len(Q),
         \A i \in 1..n : IsReply(Q[i])
  PROVE  H[n + 1] = H[1]
<1>1. n \in Nat /\ Len(Q) \in Nat /\ \A i \in 1..n : i \in 1..Len(Q)
  <2>1. Len(Q) \in Nat
    OBVIOUS
  <2> QED
    BY <2>1
<1>2. ASSUME NEW i \in 1..n PROVE H[i + 1] = H[i]
  BY <1>1, <1>2 DEF Chronicle, Explains, IsReply
<1> DEFINE T == {i \in 0..n : H[i + 1] = H[1]}
<1>3. 0 \in T
  BY <1>1
<1>4. ASSUME NEW i \in 1..n, i - 1 \in T PROVE i \in T
  <2>1. i \in 0..n /\ (i - 1) + 1 = i
    BY <1>1
  <2>2. H[(i - 1) + 1] = H[1]
    BY <1>4
  <2>3. H[i] = H[1]
    BY <2>1, <2>2
  <2> QED
    BY <1>2, <2>1, <2>3
<1> HIDE DEF T
<1>5. n \in T
  <2>1. \A i \in 0..n : i \in T
    BY <1>1, <1>3, <1>4, Induction
  <2> QED
    BY <1>1, <2>1
<1> QED
  BY <1>5 DEF T

(***************************************************************************)
(* What a synchronised mirror shows is what the show was before the first  *)
(* change that the next packets announce, or, when they are replies only,  *)
(* still is after them.                                                    *)
(***************************************************************************)
LEMMA FirstChange ==
  ASSUME NEW H, NEW Q \in Seq(Command), NEW s, Chronicle(H, Q, s), Ordered(Q),
         NEW d, UpToDate(H, Q, d), d.status.value = "COMPLETE", NEW n \in 0..Len(Q)
  PROVE  RepliesOnly(H, Q, n) \/ FirstPast(H, Q, n)
<1>1. PICK q : q = Len(Q) /\ q \in Nat /\ n \in 0..q /\ n \in Nat /\ n <= q
  <2>1. Len(Q) \in Nat
    OBVIOUS
  <2> QED
    BY <2>1
<1> DEFINE N == {i \in 1..n : ~IsReply(Q[i])}
<1>2. CASE N = {}
  <2>1. \A i \in 1..n : IsReply(Q[i])
    BY <1>2
  <2> QED
    BY <1>1, <2>1, RepliesChangeNothing DEF RepliesOnly
<1>3. CASE N # {}
  <2>1. PICK i \in N : \A j \in N : i <= j
    <3>1. N \in SUBSET Nat
      BY <1>1
    <3> HIDE DEF N
    <3> QED
      BY <1>3, <3>1, LeastNumber
  <2>2. /\ i \in 1..n /\ i \in 1..q /\ i \in Nat /\ i >= 1 /\ ~IsReply(Q[i]) /\ Q[i] \in Command
        /\ i - 1 \in 0..q /\ i - 1 \in Nat /\ (i - 1) + 1 = i
    BY <1>1, <2>1
  <2>3. ASSUME NEW j \in 1..(i - 1) PROVE IsReply(Q[j])
    <3>1. j \in 1..n /\ ~(i <= j)
      BY <1>1, <2>2
    <3> QED
      BY <2>1, <3>1
  <2> HIDE DEF N
  <2>4. H[i] = H[1]
    <3>1. H[(i - 1) + 1] = H[1]
      BY <1>1, <2>2, <2>3, RepliesChangeNothing
    <3> QED
      BY <2>2, <3>1
  <2>5. PICK m : m = Q[i] /\ m \in Command /\ ~IsReply(m) /\ m.kind \in {"notify", "show"}
    <3>1. Q[i].kind \in {"count", "target", "notify", "show"}
      BY <2>2, CommandCases
    <3> QED
      BY <2>2, <3>1 DEF IsReply
  <2>6. Explains(m, H[i], H[i + 1]) /\ (H[i] \in Shows \/ Second(m))
    BY <1>1, <2>2, <2>5 DEF Chronicle
  <2>7. ~Second(m)
    <3>1. CASE i = 1
      <4>1. 1 \in 1..q
        BY <2>2, <3>1
      <4> QED
        BY <1>1, <2>5, <3>1, <4>1, SynchronizedIsSettled
    <3>2. CASE i # 1
      <4>1. i \in 2..q /\ i - 1 \in 1..(i - 1)
        BY <2>2, <3>2
      <4>2. IsReply(Q[i - 1]) /\ Precedes(Q[i - 1], m)
        BY <1>1, <2>3, <2>5, <4>1 DEF Ordered
      <4> QED
        BY <4>2 DEF Precedes, IsReply
    <3> QED
      BY <3>1, <3>2
  <2>8. m.before = H[i] /\ m.before \in Shows /\ m.before # Garbled
    BY <2>5, <2>6, <2>7, GarbledAssumption DEF Explains, NoticeIsOf, Second
  <2>9. PICK x : x = H[1] /\ x \in Shows /\ ShowBefore(m) = <<x>>
    BY <2>4, <2>5, <2>8 DEF ShowBefore
  <2>10. PICK P, A, B, C : P = SubSeq(Q, 1, n) /\ A = SubSeq(Q, 1, i - 1) /\ B = <<m>> /\ C = SubSeq(Q, i + 1, n)
    OBVIOUS
  <2>11. /\ P \in Seq(Command) /\ Len(P) = n /\ \A j \in 1..n : P[j] = Q[j]
         /\ A \in Seq(Command) /\ Len(A) = i - 1 /\ \A j \in 1..(i - 1) : A[j] = Q[j]
         /\ C \in Seq(Command) /\ Len(C) = n - i /\ \A j \in 1..(n - i) : C[j] = Q[i + j]
    <3>1. P \in Seq(Command) /\ Len(P) = n /\ \A j \in 1..n : P[j] = Q[j]
      BY <1>1, <2>10
    <3>2. A \in Seq(Command) /\ Len(A) = i - 1 /\ \A j \in 1..(i - 1) : A[j] = Q[j]
      BY <1>1, <2>2, <2>10
    <3>3. C \in Seq(Command) /\ Len(C) = n - i /\ \A j \in 1..(n - i) : C[j] = Q[i + j]
      BY <1>1, <2>2, <2>10
    <3> QED
      BY <3>1, <3>2, <3>3
  <2>12. B \in Seq(Command) /\ Len(B) = 1 /\ B[1] = m /\ Past(B) = <<x>>
    <3>1. B \in Seq(Command) /\ Len(B) = 1 /\ B[1] = m
      BY <2>5, <2>10
    <3> QED
      BY <2>5, <2>9, <2>10, <3>1, PastOfOne
  <2>13. PICK D, E : D = A \o B /\ E = D \o C
    OBVIOUS
  <2>14. P = E
    <3>1. PICK S : S = Command
      OBVIOUS
    <3>2. A \in Seq(S) /\ B \in Seq(S) /\ C \in Seq(S) /\ P \in Seq(S)
      BY <2>11, <2>12, <3>1
    <3>3. D \in Seq(S) /\ Len(D) = i /\ \A k \in 1..i : D[k] = IF k <= i - 1 THEN A[k] ELSE B[k - (i - 1)]
      <4>1. PICK a, b : a = Len(A) /\ b = Len(B) /\ a = i - 1 /\ b = 1
        BY <2>11, <2>12
      <4>2. D \in Seq(S) /\ Len(D) = a + b /\ \A k \in 1..(a + b) : D[k] = IF k <= a THEN A[k] ELSE B[k - a]
        <5>1. /\ A \o B \in Seq(S) /\ Len(A \o B) = Len(A) + Len(B)
              /\ \A k \in 1..(Len(A) + Len(B)) : (A \o B)[k] = IF k <= Len(A) THEN A[k] ELSE B[k - Len(A)]
          BY <3>2, JoinFacts
        <5> QED
          BY <2>13, <4>1, <5>1
      <4>3. a + b = i
        BY <2>2, <4>1
      <4> QED
        BY <4>1, <4>2, <4>3
    <3>4. E \in Seq(S) /\ Len(E) = n /\ \A k \in 1..n : E[k] = IF k <= i THEN D[k] ELSE C[k - i]
      <4>1. PICK b : b = Len(C) /\ b = n - i
        BY <2>11
      <4>2. E \in Seq(S) /\ Len(E) = i + b /\ \A k \in 1..(i + b) : E[k] = IF k <= i THEN D[k] ELSE C[k - i]
        <5>1. /\ D \o C \in Seq(S) /\ Len(D \o C) = Len(D) + Len(C)
              /\ \A k \in 1..(Len(D) + Len(C)) : (D \o C)[k] = IF k <= Len(D) THEN D[k] ELSE C[k - Len(D)]
          BY <3>2, <3>3, JoinFacts
        <5> QED
          BY <2>13, <3>3, <4>1, <5>1
      <4>3. i + b = n
        BY <1>1, <2>2, <4>1
      <4> QED
        BY <4>2, <4>3
    <3>5. ASSUME NEW k \in 1..n PROVE P[k] = E[k]
      <4>1. P[k] = Q[k] /\ E[k] = IF k <= i THEN D[k] ELSE C[k - i]
        BY <2>11, <3>4
      <4>2. CASE k <= i - 1
        <5>1. k \in 1..(i - 1) /\ k \in 1..i /\ k <= i
          BY <1>1, <2>2, <4>2
        <5>2. D[k] = A[k] /\ A[k] = Q[k]
          BY <2>11, <3>3, <4>2, <5>1
        <5> QED
          BY <4>1, <5>1, <5>2
      <4>3. CASE k = i
        <5>1. k \in 1..i /\ ~(k <= i - 1) /\ k - (i - 1) = 1 /\ k <= i
          BY <1>1, <2>2, <4>3
        <5>2. D[k] = B[1] /\ B[1] = Q[k]
          BY <2>5, <2>12, <3>3, <4>3, <5>1
        <5> QED
          BY <4>1, <5>1, <5>2
      <4>4. CASE k > i
        <5>1. ~(k <= i) /\ k - i \in 1..(n - i) /\ i + (k - i) = k
          BY <1>1, <2>2, <4>4
        <5>2. C[k - i] = Q[i + (k - i)]
          BY <2>11, <5>1
        <5> QED
          BY <4>1, <5>1, <5>2
      <4>5. k \in Nat
        BY <1>1
      <4> QED
        BY <2>2, <4>2, <4>3, <4>4, <4>5
    <3> QED
      BY <1>1, <2>11, <3>2, <3>4, <3>5
  <2>15. PICK u : u = Past(C) /\ u \in Seq(Shows)
    BY <2>11, ChangesFacts
  <2>16. PICK v : v = <<x>> /\ v \in Seq(Shows) /\ Len(v) = 1 /\ v[1] = x
    <3>1. PICK v : v = <<x>>
      OBVIOUS
    <3>2. v \in Seq(Shows) /\ Len(v) = 1 /\ v[1] = x
      BY <2>9, <3>1
    <3> QED
      BY <3>1, <3>2
  <2>17. Past(D) = v /\ D \in Seq(Command)
    <3>1. Past(A) = <<>>
      BY <2>3, <2>11, PastOfReplies
    <3>2. D \in Seq(Command) /\ Past(D) = Past(A) \o Past(B)
      BY <2>11, <2>12, <2>13, PastJoin
    <3>3. <<>> \o v = v
      BY <2>16
    <3> QED
      BY <2>12, <2>16, <3>1, <3>2, <3>3
  <2>18. Past(E) = v \o u
    BY <2>11, <2>13, <2>15, <2>17, PastJoin
  <2>19. PICK p : p = Past(P) /\ p = v \o u
    BY <2>14, <2>18
  <2>20. Len(p) >= 1 /\ p[1] = x
    <3>1. PICK S : S = Shows
      OBVIOUS
    <3>2. v \in Seq(S) /\ u \in Seq(S)
      BY <2>15, <2>16, <3>1
    <3>3. /\ Len(p) = 1 + Len(u) /\ Len(u) \in Nat
          /\ \A k \in 1..(1 + Len(u)) : p[k] = IF k <= 1 THEN v[k] ELSE u[k - 1]
      BY <2>16, <2>19, <3>2, JoinFacts
    <3>4. 1 \in 1..(1 + Len(u))
      BY <3>3
    <3> QED
      BY <2>16, <3>3, <3>4
  <2> QED
    BY <2>9, <2>10, <2>19, <2>20 DEF FirstPast
<1> QED
  BY <1>2, <1>3

----------------------------------------------------------------------------
(* The refinement. *)

Mirror == IF IsSynchronized THEN MirroredShow ELSE Garbled

(***************************************************************************)
(* The log: what was announced, then the show.                             *)
(***************************************************************************)
LEMMA LogFacts ==
  ASSUME NEW Q \in Seq(Command), NEW s \in Shows, NEW p, p = Past(Q), NEW L, L = p \o <<s>>
  PROVE  /\ p \in Seq(Shows) /\ L \in Seq(Shows) /\ Len(p) \in Nat /\ Len(L) = Len(p) + 1
         /\ L[Len(L)] = s /\ \A k \in 1..Len(p) : L[k] = p[k]
<1>1. p \in Seq(Shows)
  BY ChangesFacts
<1>2. PICK v : v = <<s>> /\ v \in Seq(Shows) /\ Len(v) = 1 /\ v[1] = s
  <2>1. PICK v : v = <<s>>
    OBVIOUS
  <2>2. v \in Seq(Shows) /\ Len(v) = 1 /\ v[1] = s
    BY <2>1
  <2> QED
    BY <2>1, <2>2
<1>3. PICK S : S = Shows
  OBVIOUS
<1>4. p \in Seq(S) /\ v \in Seq(S) /\ L = p \o v
  BY <1>1, <1>2, <1>3
<1>5. /\ L \in Seq(S) /\ Len(L) = Len(p) + 1 /\ Len(p) \in Nat
      /\ \A k \in 1..(Len(p) + 1) : L[k] = IF k <= Len(p) THEN p[k] ELSE v[k - Len(p)]
  BY <1>2, <1>4, JoinFacts
<1>6. \A k \in 1..Len(p) : k \in 1..(Len(p) + 1) /\ k <= Len(p)
  BY <1>5
<1>7. Len(p) + 1 \in 1..(Len(p) + 1) /\ ~(Len(p) + 1 <= Len(p)) /\ (Len(p) + 1) - Len(p) = 1
  BY <1>5
<1>8. L[Len(p) + 1] = s
  BY <1>2, <1>5, <1>7
<1> QED
  BY <1>1, <1>3, <1>5, <1>6, <1>8

(***************************************************************************)
(* The log of packets that follow others.                                  *)
(***************************************************************************)
LEMMA LogJoin ==
  ASSUME NEW P \in Seq(Command), NEW R \in Seq(Command), NEW Q, Q = P \o R, NEW s \in Shows
  PROVE  Past(Q) \o <<s>> = Past(P) \o (Past(R) \o <<s>>)
<1>1. PICK p, r : p = Past(P) /\ r = Past(R) /\ p \in Seq(Shows) /\ r \in Seq(Shows)
  BY ChangesFacts
<1>2. <<s>> \in Seq(Shows)
  OBVIOUS
<1>3. Past(Q) = p \o r
  BY <1>1, PastJoin
<1>4. (p \o r) \o <<s>> = p \o (r \o <<s>>)
  BY <1>1, <1>2, JoinAssociative, SMTT(30)
<1> QED
  BY <1>1, <1>3, <1>4

\* A synchronised mirror is the first show of the log.
MirrorIsHead == IsSynchronized => MirroredShow = Head(AnnouncedShows)

(***************************************************************************)
(* A synchronised mirror shows what the show was before the first change   *)
(* it has not been told of.                                                *)
(***************************************************************************)
LEMMA HeadOfLog ==
  ASSUME OnePart
  PROVE  ChronicleInv => MirrorIsHead
<1> SUFFICES ASSUME ChronicleInv, IsSynchronized PROVE MirroredShow = Head(AnnouncedShows)
  BY DEF MirrorIsHead
<1>1. PICK H : Told(H)
  BY DEF ChronicleInv
<1>2. PICK Q, s, p, L : Q = toClient /\ s = show /\ Q \in Seq(Command) /\ s \in Shows
                        /\ p = Past(Q) /\ L = p \o <<s>>
  BY DEF ChronicleInv, IInv, PacketsOK
<1>3. L = AnnouncedShows
  BY <1>2 DEF AnnouncedShows, Past, PastShows
<1>4. /\ p \in Seq(Shows) /\ L \in Seq(Shows) /\ Len(p) \in Nat /\ Len(L) = Len(p) + 1
      /\ L[Len(L)] = s /\ \A k \in 1..Len(p) : L[k] = p[k]
  BY <1>2, LogFacts, SMTT(30)
<1>5. Head(L) = L[1]
  <2>1. L # <<>>
    <3>1. Len(<<>>) = 0 /\ Len(L) # 0
      BY <1>4
    <3> QED
      BY <3>1
  <2> QED
    BY <1>4, <2>1
<1>6. PICK n : n = Len(Q) /\ n \in 0..Len(Q)
  <2>1. Len(Q) \in Nat
    BY <1>2
  <2> QED
    BY <2>1
<1>7. SubSeq(Q, 1, n) = Q
  BY <1>2, <1>6, SubSeqFull
<1>8. Chronicle(H, Q, s) /\ Ordered(Q) /\ UpToDate(H, Q, data) /\ data.status.value = "COMPLETE"
  BY <1>1, <1>2 DEF Told, IsSynchronized
<1>9. RepliesOnly(H, Q, n) \/ FirstPast(H, Q, n)
  BY <1>2, <1>6, <1>8, FirstChange
<1>10. L[1] = H[1]
  <2>1. CASE RepliesOnly(H, Q, n)
    <3>1. p = <<>>
      BY <1>2, <1>6, <2>1, PastOfReplies DEF RepliesOnly
    <3>2. Len(<<>>) = 0
      OBVIOUS
    <3>3. L[1] = s
      BY <1>4, <3>1, <3>2
    <3>4. H[n + 1] = s
      BY <1>6, <1>8 DEF Chronicle
    <3> QED
      BY <2>1, <3>3, <3>4 DEF RepliesOnly
  <2>2. CASE FirstPast(H, Q, n)
    <3>1. Len(p) >= 1 /\ p[1] = H[1]
      BY <1>2, <1>7, <2>2 DEF FirstPast
    <3>2. 1 \in 1..Len(p)
      BY <1>4, <3>1
    <3> QED
      BY <1>4, <3>1, <3>2
  <2> QED
    BY <1>9, <2>1, <2>2
<1>11. MirroredShow = H[1]
  BY <1>1, FirstIsShown
<1> QED
  BY <1>3, <1>5, <1>10, <1>11

(***************************************************************************)
(* The steps of ShowMirror.                                                *)
(***************************************************************************)
LEMMA AbstractSteps ==
  ASSUME NEW K, K = AnnouncedShows, NEW L, L = AnnouncedShows',
         NEW m, m = Mirror, NEW w, w = Mirror'
  PROVE  /\ L = K /\ w = m => UNCHANGED Abstract!vars
         /\ w = m /\ (\E s \in Shows : L = Append(K, s) /\ Len(L) = Len(K) + 1 /\ L[Len(K) + 1] = s) =>
              Abstract!Edit
         /\ w = m /\ m = Garbled /\ Len(L) = Len(K)
            /\ (\E s \in Shows : L = [K EXCEPT ![Len(K)] = s] /\ L[Len(K)] = s) => Abstract!EditUnannounced
         /\ w = Garbled /\ (\E n \in 2..Len(K) : L = SubSeq(K, n, Len(K))) => Abstract!Invalidate
         /\ m = Garbled /\ w = Head(K) /\ L = K => Abstract!Sync
<1>1. L = K /\ w = m => UNCHANGED Abstract!vars
  BY DEF Abstract!vars, Mirror
<1>2. w = m /\ (\E s \in Shows : L = Append(K, s) /\ Len(L) = Len(K) + 1 /\ L[Len(K) + 1] = s) =>
        Abstract!Edit
  BY DEF Abstract!Edit, Mirror
<1>3. w = m /\ m = Garbled /\ Len(L) = Len(K)
      /\ (\E s \in Shows : L = [K EXCEPT ![Len(K)] = s] /\ L[Len(K)] = s) => Abstract!EditUnannounced
  BY DEF Abstract!EditUnannounced, Mirror
<1>4. w = Garbled /\ (\E n \in 2..Len(K) : L = SubSeq(K, n, Len(K))) => Abstract!Invalidate
  BY DEF Abstract!Invalidate, Mirror
<1>5. m = Garbled /\ w = Head(K) /\ L = K => Abstract!Sync
  BY DEF Abstract!Sync, Mirror
<1> QED
  BY <1>1, <1>2, <1>3, <1>4, <1>5

(***************************************************************************)
(* A tick is a stutter, brings the mirror up to date, or invalidates it.   *)
(***************************************************************************)
LEMMA TickImplements ==
  ASSUME ChronicleInv, MirrorIsHead', NEW n \in 0..Len(toClient), TickConnected(n)
  PROVE  Abstract!Next \/ UNCHANGED Abstract!vars
<1>1. PICK H : Told(H)
  BY DEF ChronicleInv
<1>2. PICK Q, s, d, e, R : /\ Q = toClient /\ s = show /\ Q \in Seq(Command) /\ s \in Shows
                           /\ n \in 0..Len(Q) /\ d = data /\ e = data' /\ R = SubSeq(Q, n + 1, Len(Q))
                           /\ R = toClient' /\ s = show'
  BY DEF ChronicleInv, IInv, PacketsOK, TickConnected, consoleVars
<1>3. HasRead(H, Q, n, d, e)
  BY <1>1, <1>2, TickTells DEF ChronicleInv
<1>4. PICK P, p, K, L, m, w : /\ P = SubSeq(Q, 1, n) /\ p = Past(P)
                              /\ K = AnnouncedShows /\ L = AnnouncedShows' /\ m = Mirror /\ w = Mirror'
  OBVIOUS
<1>5. n \in Nat /\ Len(Q) \in Nat /\ n <= Len(Q)
  <2>1. Len(Q) \in Nat
    BY <1>2
  <2> QED
    BY <1>2, <2>1
<1>6. P \in Seq(Command) /\ Len(P) = n /\ (\A i \in 1..n : P[i] = Q[i]) /\ R \in Seq(Command) /\ Q = P \o R
  <2>1. P \in Seq(Command) /\ Len(P) = n /\ (\A i \in 1..n : P[i] = Q[i])
    BY <1>2, <1>4, <1>5
  <2>2. R \in Seq(Command)
    BY <1>2, <1>5
  <2>3. SubSeq(Q, 1, n) \o SubSeq(Q, n + 1, Len(Q)) = SubSeq(Q, 1, Len(Q))
    <3>1. PICK q : q = Len(Q) /\ 1 \in 1..(q + 1) /\ n \in (1 - 1)..q /\ q \in n..q
      BY <1>5
    <3> QED
      BY <1>2, <3>1, ConcatAdjacentSubSeq
  <2>4. SubSeq(Q, 1, Len(Q)) = Q
    BY <1>2, SubSeqFull
  <2> QED
    BY <1>2, <1>4, <2>1, <2>2, <2>3, <2>4
<1>7. K = Past(Q) \o <<s>> /\ L = Past(R) \o <<s>> /\ K = p \o L
  <2>1. K = Past(Q) \o <<s>> /\ L = Past(R) \o <<s>>
    BY <1>2, <1>4 DEF AnnouncedShows, Past, PastShows
  <2>2. Past(Q) \o <<s>> = Past(P) \o (Past(R) \o <<s>>)
    BY <1>2, <1>6, LogJoin, ZenonT(40)
  <2> QED
    BY <1>4, <2>1, <2>2
<1>8. p \in Seq(Shows) /\ L \in Seq(Shows) /\ Len(p) \in Nat
  BY <1>2, <1>4, <1>6, <1>7, LogFacts, ChangesFacts, ZenonT(40)
<1>9. ASSUME \A i \in 1..n : IsReply(Q[i]) PROVE L = K
  <2>1. \A i \in 1..Len(P) : IsReply(P[i])
    BY <1>6, <1>9
  <2>2. p = <<>>
    BY <1>4, <1>6, <2>1, PastOfReplies
  <2>3. <<>> \o L = L
    BY <1>8
  <2> QED
    BY <1>7, <2>2, <2>3
<1>10. ASSUME e.status.value = "COMPLETE", d.status.value = "COMPLETE" PROVE UNCHANGED Abstract!vars
  <2>1. L = K /\ e = d
    BY <1>3, <1>9, <1>10 DEF HasRead
  <2>2. w = m
    BY <1>2, <1>4, <2>1 DEF Mirror, IsSynchronized, MirroredShow, ListContent
  <2> QED
    BY <1>4, <2>1, <2>2, AbstractSteps
<1>11. ASSUME e.status.value = "COMPLETE", d.status.value # "COMPLETE" PROVE Abstract!Sync
  <2>1. L = K
    BY <1>3, <1>9, <1>11 DEF HasRead
  <2>2. m = Garbled
    BY <1>2, <1>4, <1>11 DEF Mirror, IsSynchronized
  <2>3. IsSynchronized'
    BY <1>2, <1>11 DEF IsSynchronized
  <2>4. w = Head(K)
    BY <1>4, <2>1, <2>3 DEF Mirror, MirrorIsHead
  <2> QED
    BY <1>4, <2>1, <2>2, <2>4, AbstractSteps
<1>12. ASSUME e.status.value # "COMPLETE" PROVE Abstract!Next \/ UNCHANGED Abstract!vars
  <2>1. w = Garbled
    BY <1>2, <1>4, <1>12 DEF Mirror, IsSynchronized
  <2>2. CASE p = <<>>
    <3>1. L = K
      <4>1. <<>> \o L = L
        BY <1>8
      <4> QED
        BY <1>7, <2>2, <4>1
    <3>2. d.status.value # "COMPLETE"
      <4> SUFFICES ASSUME d.status.value = "COMPLETE" PROVE FALSE
        OBVIOUS
      <4>1. Chronicle(H, Q, s) /\ Ordered(Q) /\ UpToDate(H, Q, d)
        BY <1>1, <1>2 DEF Told
      <4>2. RepliesOnly(H, Q, n) \/ FirstPast(H, Q, n)
        BY <1>2, <4>1, FirstChange
      <4>3. ~FirstPast(H, Q, n)
        <5>1. Len(p) = 0
          BY <2>2
        <5>2. ~(Len(p) >= 1)
          BY <5>1
        <5> QED
          BY <1>4, <5>2 DEF FirstPast
      <4>4. e = d
        BY <1>3, <4>2, <4>3 DEF RepliesOnly, HasRead
      <4> QED
        BY <1>12, <4>4
    <3>3. m = Garbled
      BY <1>2, <1>4, <3>2 DEF Mirror, IsSynchronized
    <3> QED
      BY <1>4, <2>1, <3>1, <3>3, AbstractSteps
  <2>3. CASE p # <<>>
    <3>1. PICK c, S : c = Len(p) /\ S = Shows /\ c \in Nat /\ c >= 1
      <4>1. Len(p) >= 1
        BY <1>8, <2>3
      <4> QED
        BY <1>8, <4>1
    <3>2. /\ p \in Seq(S) /\ L \in Seq(S) /\ K \in Seq(S) /\ Len(K) = c + Len(L) /\ Len(L) \in Nat
          /\ \A k \in 1..(c + Len(L)) : K[k] = IF k <= c THEN p[k] ELSE L[k - c]
      <4>1. p \in Seq(S) /\ L \in Seq(S)
        BY <1>8, <3>1
      <4>2. /\ p \o L \in Seq(S) /\ Len(p \o L) = Len(p) + Len(L) /\ Len(L) \in Nat
            /\ \A k \in 1..(Len(p) + Len(L)) : (p \o L)[k] = IF k <= Len(p) THEN p[k] ELSE L[k - Len(p)]
        BY <4>1, JoinFacts
      <4> QED
        BY <1>7, <3>1, <4>1, <4>2
    <3>3. Len(L) >= 1
      <4>1. PICK r : r = Past(R) /\ L = r \o <<s>>
        BY <1>7
      <4>2. Len(L) = Len(r) + 1 /\ Len(r) \in Nat
        BY <1>2, <1>6, <4>1, LogFacts
      <4> QED
        BY <4>2
    <3>4. L = SubSeq(K, c + 1, Len(K)) /\ c + 1 \in 2..Len(K)
      <4>1. c + 1 \in 2..Len(K) /\ Len(K) \in Nat
        BY <3>1, <3>2, <3>3
      <4>2. PICK V : V = SubSeq(K, c + 1, Len(K))
        OBVIOUS
      <4>3. V \in Seq(S) /\ Len(V) = Len(L) /\ \A k \in 1..Len(L) : V[k] = K[c + k]
        <5>1. /\ V \in Seq(S) /\ Len(V) = Len(K) - (c + 1) + 1
              /\ \A k \in 1..(Len(K) - (c + 1) + 1) : V[k] = K[(c + 1) + k - 1]
          BY <3>2, <4>1, <4>2, SMTT(30)
        <5>2. Len(K) - (c + 1) + 1 = Len(L) /\ \A k \in 1..Len(L) : (c + 1) + k - 1 = c + k
          BY <3>1, <3>2
        <5> QED
          BY <5>1, <5>2
      <4>4. ASSUME NEW k \in 1..Len(L) PROVE K[c + k] = L[k]
        <5>1. c + k \in 1..(c + Len(L)) /\ ~(c + k <= c) /\ (c + k) - c = k
          BY <3>1, <3>2
        <5> QED
          BY <3>2, <5>1
      <4>5. V = L
        BY <3>2, <4>3, <4>4
      <4> QED
        BY <4>1, <4>2, <4>5
    <3>5. Abstract!Invalidate
      BY <1>4, <2>1, <3>4, AbstractSteps
    <3> QED
      BY <3>5 DEF Abstract!Next
  <2> QED
    BY <2>2, <2>3
<1> QED
  BY <1>10, <1>11, <1>12 DEF Abstract!Next

(***************************************************************************)
(* Reading the changes is a stutter.                                       *)
(***************************************************************************)
LEMMA ClearingImplements ==
  ASSUME ChronicleInv, MirrorIsHead, MirrorIsHead', ClearDirtyFlag
  PROVE  UNCHANGED Abstract!vars
<1>1. data'.status.value = data.status.value
  BY ClearingKeepsChronicleInv
<1>2. UNCHANGED <<toClient, show>>
  BY DEF ClearDirtyFlag, consoleVars
<1>3. AnnouncedShows' = AnnouncedShows
  BY <1>2 DEF AnnouncedShows
<1>4. Mirror' = Mirror
  BY <1>1, <1>3 DEF Mirror, MirrorIsHead, IsSynchronized
<1> QED
  BY <1>3, <1>4, AbstractSteps

(***************************************************************************)
(* An answer is a stutter.                                                 *)
(***************************************************************************)
LEMMA AnswerImplements ==
  ASSUME ArgsPerPacket >= 3, OnePart, ChronicleInv, Answer
  PROVE  UNCHANGED Abstract!vars
<1>1. UNCHANGED <<show, data>> /\ \E W : Answers(W) /\ toClient' = toClient \o W
  BY AnswerKeepsChronicleInv
<1>2. PICK W : Answers(W) /\ toClient' = toClient \o W
  BY <1>1
<1>3. PICK Q, R, s : Q = toClient /\ s = show /\ Q \in Seq(Command) /\ s \in Shows /\ R = Q \o W /\ R = toClient'
                     /\ s = show'
  BY <1>1, <1>2 DEF ChronicleInv, IInv, PacketsOK
<1>4. W \in Seq(Command) /\ Past(W) = <<>>
  BY <1>2, PastOfReplies DEF Answers
<1>5. PICK p : p = Past(Q) /\ p \in Seq(Shows)
  BY <1>3, ChangesFacts
<1>6. Past(R) = p
  <2>1. Past(R) = p \o <<>>
    BY <1>3, <1>4, <1>5, PastJoin, ZenonT(40)
  <2>2. p \o <<>> = p
    BY <1>5
  <2> QED
    BY <2>1, <2>2
<1>7. AnnouncedShows' = AnnouncedShows
  <2>1. AnnouncedShows = p \o <<s>>
    BY <1>3, <1>5 DEF AnnouncedShows, Past, PastShows
  <2>2. AnnouncedShows' = Past(R) \o <<s>>
    BY <1>3 DEF AnnouncedShows, Past, PastShows
  <2> QED
    BY <1>6, <2>1, <2>2
<1>8. Mirror' = Mirror
  BY <1>1 DEF Mirror, IsSynchronized, MirroredShow, ListContent
<1> QED
  BY <1>7, <1>8, AbstractSteps

(***************************************************************************)
(* A mirror that has been told nothing is not synchronised, unless there   *)
(* is nothing to be told.                                                  *)
(***************************************************************************)
LEMMA UnheardIsUnsynchronized ==
  ASSUME NEW s \in Shows, NEW t \in Shows, s # t, GoodData(data), DataMirrors(s, data), Unheard(data)
  PROVE  ~IsSynchronized
<1> SUFFICES ASSUME IsSynchronized PROVE FALSE
  OBVIOUS
<1>1. ASSUME NEW key \in DOMAIN data.lists PROVE FALSE
  <2>1. GoodList(data.lists[key]) /\ data.lists[key].status.value = "COMPLETE"
    BY DataFields DEF GoodData, StatusGood, IsSynchronized
  <2> QED
    BY <2>1 DEF GoodList, PhaseGood, Unheard
<1>2. ShowLists # {}
  <2>1. s \in View /\ t \in View
    BY ShowIsView
  <2>2. s = [key \in ShowLists |-> s[key]] /\ t = [key \in ShowLists |-> t[key]]
    BY <2>1 DEF View
  <2> QED
    BY <2>2
<1>3. PICK key \in ShowLists : TRUE
  BY <1>2
<1>4. PICK k \in ShowLists : k[1] # "CUE"
  BY <1>3, ShowListFacts
<1>5. k \in DOMAIN data.lists
  BY <1>4, ShowListFacts DEF DataMirrors, ListsThere, IsSynchronized
<1> QED
  BY <1>1, <1>5

(***************************************************************************)
(* A change of the show.                                                   *)
(***************************************************************************)
LEMMA ChangeImplements ==
  ASSUME ChronicleInv, Change
  PROVE  Abstract!Edit \/ Abstract!EditUnannounced
<1>1. PICK W : Changed(W)
  BY ChangeIsAnnounced DEF ChronicleInv, IInv
<1>2. PICK Q, R, s, t : /\ Q = toClient /\ s = show /\ t = show' /\ Q \in Seq(Command) /\ s \in Shows
                        /\ t \in Shows /\ s # t /\ R = Q \o W /\ R = toClient'
  BY <1>1 DEF ChronicleInv, IInv, PacketsOK, Changed
<1>3. data' = data
  BY <1>1 DEF Changed
<1>4. PICK K, L, m, w : K = AnnouncedShows /\ L = AnnouncedShows' /\ m = Mirror /\ w = Mirror'
  OBVIOUS
<1>5. w = m
  BY <1>3, <1>4 DEF Mirror, IsSynchronized, MirroredShow, ListContent
<1>6. PICK p : p = Past(Q) /\ K = p \o <<s>> /\ L = Past(R) \o <<t>>
  BY <1>2, <1>4 DEF AnnouncedShows, Past, PastShows
<1>7. /\ p \in Seq(Shows) /\ K \in Seq(Shows) /\ Len(p) \in Nat /\ Len(K) = Len(p) + 1
      /\ \A k \in 1..Len(p) : K[k] = p[k]
  <2>1. Q \in Seq(Command) /\ s \in Shows /\ p = Past(Q) /\ K = p \o <<s>>
    BY <1>2, <1>6
  <2> QED
    BY <2>1, LogFacts
<1>8. CASE Announces(W, show')
  <2>1. W \in Seq(Command) /\ Past(W) = <<s>>
    BY <1>2, <1>8, PastOfAnnouncement
  <2>2. Past(R) = p \o <<s>>
    BY <1>2, <1>6, <2>1, PastJoin, ZenonT(40)
  <2>3. L = K \o <<t>>
    BY <1>6, <2>2
  <2>4. L = Append(K, t)
    <3>1. K \o <<t>> = Append(K, t)
      BY <1>2, <1>7
    <3> QED
      BY <2>3, <3>1
  <2>5. Len(L) = Len(K) + 1 /\ L[Len(K) + 1] = t
    BY <1>2, <1>7, <2>4
  <2>6. \E u \in Shows : L = Append(K, u) /\ Len(L) = Len(K) + 1 /\ L[Len(K) + 1] = u
    BY <1>2, <2>4, <2>5
  <2> QED
    BY <1>4, <1>5, <2>6, AbstractSteps
<1>9. CASE W = <<>> /\ ~subscribed
  <2>1. R = Q
    <3>1. Q \o <<>> = Q
      BY <1>2
    <3> QED
      BY <1>2, <1>9, <3>1
  <2>2. L = p \o <<t>>
    BY <1>6, <2>1
  <2>3. /\ L \in Seq(Shows) /\ Len(L) = Len(p) + 1 /\ L[Len(L)] = t /\ \A k \in 1..Len(p) : L[k] = p[k]
    <3>1. Q \in Seq(Command) /\ t \in Shows /\ p = Past(Q) /\ L = p \o <<t>>
      BY <1>2, <1>6, <2>2
    <3> QED
      BY <3>1, LogFacts
  <2>4. Len(L) = Len(K) /\ L[Len(K)] = t
    BY <1>7, <2>3
  <2>5. L = [K EXCEPT ![Len(K)] = t]
    <3>1. PICK k : k = Len(K) /\ k \in Nat /\ k = Len(p) + 1
      BY <1>7
    <3>2. PICK V : V = [K EXCEPT ![k] = t]
      OBVIOUS
    <3>3. V \in Seq(Shows) /\ Len(V) = k /\ V[k] = t /\ \A i \in 1..Len(p) : V[i] = K[i]
      <4>1. k \in 1..k /\ \A i \in 1..Len(p) : i \in 1..k /\ i # k
        BY <1>7, <3>1
      <4>2. PICK S : S = Shows
        OBVIOUS
      <4>3. K \in [1..k -> S]
        BY <1>7, <3>1, <4>2
      <4>4. V \in [1..k -> S] /\ V[k] = t /\ \A i \in 1..k : i # k => V[i] = K[i]
        BY <1>2, <3>2, <4>1, <4>2, <4>3
      <4>5. V \in Seq(S) /\ Len(V) = k
        BY <3>1, <4>4
      <4> QED
        BY <4>1, <4>2, <4>4, <4>5
    <3>4. \A i \in 1..k : i \in 1..Len(p) \/ i = k
      BY <1>7, <3>1
    <3>5. \A i \in 1..k : V[i] = L[i]
      BY <1>7, <2>3, <2>4, <3>1, <3>3, <3>4
    <3>6. V = L
      BY <2>3, <2>4, <3>1, <3>3, <3>5
    <3> QED
      BY <3>1, <3>2, <3>6
  <2>6. m = Garbled
    <3>1. PICK H : Told(H)
      BY DEF ChronicleInv
    <3>2. Unheard(data) /\ GoodData(data) /\ DataMirrors(H[1], data)
      BY <1>9, <3>1 DEF ChronicleInv, SubscriptionFirst, Told, UpToDate
    <3>3. DataMirrors(s, data)
      BY <3>2, UnheardFacts
    <3>4. ~IsSynchronized
      BY <1>2, <3>2, <3>3, UnheardIsUnsynchronized
    <3> QED
      BY <1>4, <3>4 DEF Mirror
  <2>7. Len(L) = Len(K) /\ \E u \in Shows : L = [K EXCEPT ![Len(K)] = u] /\ L[Len(K)] = u
    BY <1>2, <2>4, <2>5
  <2>8. w = m /\ m = Garbled
    BY <1>5, <2>6
  <2>9. w = m /\ m = Garbled /\ Len(L) = Len(K)
        /\ (\E u \in Shows : L = [K EXCEPT ![Len(K)] = u] /\ L[Len(K)] = u) => Abstract!EditUnannounced
    BY <1>4, AbstractSteps
  <2> QED
    BY <2>7, <2>8, <2>9
<1> QED
  BY <1>1, <1>8, <1>9 DEF Changed

(***************************************************************************)
(* Every step is a step of ShowMirror or a stutter.                        *)
(***************************************************************************)
LEMMA NextImplements ==
  ASSUME ArgsPerPacket >= 3, OnePart, ChronicleInv, MirrorIsHead, MirrorIsHead', [Next]_vars
  PROVE  [Abstract!Next]_(Abstract!vars)
<1>1. ASSUME UNCHANGED vars PROVE UNCHANGED Abstract!vars
  <2>1. UNCHANGED <<data, toClient, show>>
    BY <1>1 DEF vars, clientVars, consoleVars
  <2>2. AnnouncedShows' = AnnouncedShows
    BY <2>1 DEF AnnouncedShows
  <2>3. Mirror' = Mirror
    BY <2>1 DEF Mirror, IsSynchronized, MirroredShow, ListContent
  <2> QED
    BY <2>2, <2>3, AbstractSteps
<1>2. ASSUME NEW n \in 0..Len(toClient), Tick(n) PROVE Abstract!Next \/ UNCHANGED Abstract!vars
  BY <1>1, <1>2, TickImplements DEF Tick
<1>3. ASSUME Change PROVE Abstract!Next
  BY <1>3, ChangeImplements DEF Abstract!Next
<1> QED
  BY <1>1, <1>2, <1>3, ClearingImplements, AnswerImplements DEF Next

(***************************************************************************)
(* At first nothing is announced and nothing is mirrored.                  *)
(***************************************************************************)
LEMMA InitImplements == Init => Abstract!Init
<1> SUFFICES ASSUME Init PROVE Abstract!Init
  OBVIOUS
<1>1. data = NewData /\ toClient = <<>> /\ show \in Shows
  BY InitialShowsAssumption DEF Init, InitApart
<1>2. ~IsSynchronized
  BY <1>1 DEF IsSynchronized, NewData, NewStatus
<1>3. AnnouncedShows = <<show>>
  <2>1. toClient \in Seq(Command) /\ \A i \in 1..Len(toClient) : IsReply(toClient[i])
    <3>1. Len(<<>>) = 0 /\ <<>> \in Seq(Command)
      OBVIOUS
    <3> QED
      BY <1>1, <3>1
  <2>2. Past(toClient) = <<>>
    BY <2>1, PastOfReplies
  <2>3. AnnouncedShows = <<>> \o <<show>>
    BY <2>2 DEF AnnouncedShows, Past, PastShows
  <2>4. <<show>> \in Seq(Shows)
    BY <1>1
  <2>5. <<>> \o <<show>> = <<show>>
    BY <2>4, ConcatEmptySeq
  <2> QED
    BY <2>3, <2>5
<1> QED
  BY <1>1, <1>2, <1>3 DEF Abstract!Init

(***************************************************************************)
(* The library implements ShowMirror: whenever IsSynchronized, its targets *)
(* are exactly those of one state of the show, the one it was last told    *)
(* of, whatever edits, moves, loads and late replies are still under way.  *)
(***************************************************************************)
THEOREM Refinement ==
  ASSUME ArgsPerPacket >= 3, InitialConnect \subseteq {"IN_PROGRESS"}, OnePart
  PROVE  Spec => ImplementsShowMirror
<1>1. Init => Abstract!Init
  BY InitImplements
<1>2. ChronicleInv => MirrorIsHead
  BY HeadOfLog
<1>3. ChronicleInv /\ MirrorIsHead /\ MirrorIsHead' /\ [Next]_vars => [Abstract!Next]_(Abstract!vars)
  BY NextImplements
<1>4. Spec => []ChronicleInv
  BY ChronicleInvariant
<1> QED
  BY <1>1, <1>2, <1>3, <1>4, PTL DEF Spec, ImplementsShowMirror, Abstract!Spec

=============================================================================
