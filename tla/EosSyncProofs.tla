--------------------------- MODULE EosSyncProofs ---------------------------
(***************************************************************************)
(* Proofs about EosSync: what the mirror of a whole show guarantees        *)
(* against the console, for every set of subscribed types, every show and  *)
(* every way to change it.                                                 *)
(***************************************************************************)
EXTENDS EosSync, TargetListLemmas, SequenceLemmas

----------------------------------------------------------------------------
(***************************************************************************)
(* What the mirror looks like between two calls: its lists are good, each  *)
(* has the type and the number of its key, and the status of the whole     *)
(* agrees with theirs.  No list is complete too early only because of the  *)
(* part about <<"CUE", 0>>, the list that stands for no cues at all, and   *)
(* because no packet makes an entry for the number 0.                      *)
(***************************************************************************)
DummyKey == <<"CUE", 0>>

\* A list that may be kept under a key.
ListFor(key, l) ==
  /\ GoodList(l) /\ l.type = key[1] /\ l.listId = key[2]
  /\ \A n \in Num : n = 0 => l.entry[n] = "absent"

DataType(d) ==
  /\ d = [status |-> d.status, lists |-> d.lists, cueMap |-> d.cueMap]
  /\ d.status \in SyncStatus /\ d.cueMap \in BOOLEAN
  /\ d.lists = [key \in DOMAIN d.lists |-> d.lists[key]]
  /\ DOMAIN d.lists \subseteq MirrorKey

ListsGood(d) == \A key \in DOMAIN d.lists : ListFor(key, d.lists[key])

DummyComplete(d) == DummyKey \in DOMAIN d.lists => d.lists[DummyKey].status.value = "COMPLETE"

StatusGood(d) ==
  /\ d.status.value = "UNINITIALIZED" => DOMAIN d.lists = {}
  /\ d.status.value = "COMPLETE" =>
       \A key \in DOMAIN d.lists : d.lists[key].status.value = "COMPLETE"
  /\ \A key \in DOMAIN d.lists : d.lists[key].status.dirty => d.status.dirty

GoodData(d) == DataType(d) /\ ListsGood(d) /\ DummyComplete(d) /\ StatusGood(d)

\* From d to e nothing became synchronised again without a trace.
DataStep(d, e) ==
  e.status.value = "COMPLETE" /\ ~e.status.dirty => d.status.value = "COMPLETE" /\ ~d.status.dirty

(***************************************************************************)
(* The packets on their way.                                               *)
(***************************************************************************)
Keyed(messages) == {m \in messages : <<m.type, m.listId>> \in MirrorKey}

Request ==
  {Subscribe} \cup
  Keyed([kind : {"count"}, type : TargetType, listId : Nat] \cup
        [kind : {"index"}, type : TargetType, listId : Nat, index : Nat] \cup
        [kind : {"target"}, type : TargetType, listId : Nat, num : Num \ {0}])

CountReply ==
  Keyed([kind : {"count"}, type : TargetType, listId : Nat, args : {<<c>> : c \in Nat}])

\* The targets a path may name.
Path(type) ==
  {p \in [num : Num \ {0}, part : Part, group : GroupName, isList : {FALSE},
          listIndex : Nat, listSize : Nat] : ValidPart(type, p.part)}

TargetData ==
  {m \in Keyed([kind : {"target"}, type : TargetType, listId : Nat,
                pathData : UNION {Path(type) : type \in TargetType}, args : Seq(Val)]) :
     m.pathData \in Path(m.type)}

Notice ==
  Keyed([kind : {"notify"}, type : TargetType, listId : Nat, nums : SUBSET (Num \ {0}),
         hasArgs : BOOLEAN, before : Shows \cup {Garbled}])

Event == [kind : {"show"}, before : Shows \cup {Garbled}]

Command == CountReply \cup TargetData \cup Notice \cup Event

(***************************************************************************)
(* Whatever the lists wait for is under way, as a request or a reply.      *)
(***************************************************************************)
CountAwaited(key, requests, replies) == \E m \in requests \cup replies : About(m, "count", key)

TargetAwaited(key, n, requests, replies) ==
  \/ \E m \in requests : About(m, "target", key) /\ m.num = n
  \/ \E m \in replies : About(m, "target", key) /\ m.pathData.num = n

ListAwaits(key, l, requests, replies) ==
  /\ l.internal = "RUNNING" => CountAwaited(key, requests, replies)
  /\ \A n \in Num : l.entry[n] = "initialized" /\ LivePartsOf(l, n) = {} =>
       TargetAwaited(key, n, requests, replies)

Awaits(d, requests, replies) ==
  \A key \in DOMAIN d.lists : ListAwaits(key, d.lists[key], requests, replies)

(***************************************************************************)
(* The inductive invariant.                                                *)
(***************************************************************************)
PacketsOK ==
  /\ sendQ \in Seq(Request) /\ toConsole \in Seq(Request) /\ toClient \in Seq(Command)
  /\ show \in Shows /\ subscribed \in BOOLEAN /\ edits \in Nat /\ unseen \in BOOLEAN

AllAwaited == Awaits(data, Requests, Range(toClient))

IInv ==
  /\ connect \in {"IN_PROGRESS", "CONNECTED"}
  /\ PacketsOK /\ GoodData(data) /\ ResyncIsDirty /\ AllAwaited

----------------------------------------------------------------------------
(* The keys of the lists and their order. *)

(***************************************************************************)
(* A type is found at its rank.                                            *)
(***************************************************************************)
LEMMA RankFacts ==
  /\ DOMAIN EnumEosTargetType = 1..16
  /\ \A type \in TargetType : Rank(type) \in 1..16 /\ EnumEosTargetType[Rank(type)] = type
  /\ Rank("CUELIST") < Rank("CUE")
<1>1. DOMAIN EnumEosTargetType = 1..16
  BY DEF EnumEosTargetType
<1>2. \A type \in TargetType : \E i \in 1..16 : EnumEosTargetType[i] = type
  BY SMTT(60) DEF EnumEosTargetType, TargetType
<1>3. \A type \in TargetType : Rank(type) \in 1..16 /\ EnumEosTargetType[Rank(type)] = type
  BY <1>1, <1>2 DEF Rank
<1>4. \A i \in 1..16 : /\ EnumEosTargetType[i] = "CUELIST" => i = 2
                       /\ EnumEosTargetType[i] = "CUE" => i = 3
  BY SMTT(60) DEF EnumEosTargetType
<1>5. Rank("CUELIST") = 2 /\ Rank("CUE") = 3
  BY <1>3, <1>4 DEF TargetType
<1> QED
  BY <1>1, <1>3, <1>5

(***************************************************************************)
(* A key is a type and a number; only cues have a number other than 0.     *)
(***************************************************************************)
LEMMA MirrorKeyFacts ==
  ASSUME NEW key \in MirrorKey
  PROVE  /\ key = <<key[1], key[2]>> /\ key[1] \in TargetType /\ key[2] \in Nat
         /\ key[1] # "CUE" => key[2] = 0 /\ key[1] \in SubscribedTypes
         /\ key[2] # 0 => key[1] = "CUE" /\ key[2] \in CueListIds
<1>1. \A id \in CueListIds : id \in Nat /\ id # 0
  BY CueListAssumption
<1>2. key \in ListKey /\ key[1] \in SubscribedTypes \cup {"CUE"}
  BY DEF MirrorKey
<1>3. CASE \E type \in TargetType : key = <<type, 0>>
  BY <1>2, <1>3
<1>4. CASE \E id \in CueListIds : key = <<"CUE", id>>
  BY <1>1, <1>4 DEF TargetType
<1> QED
  BY <1>2, <1>3, <1>4 DEF ListKey

(***************************************************************************)
(* There are finitely many keys.                                           *)
(***************************************************************************)
LEMMA MirrorKeyFinite == IsFiniteSet(MirrorKey)
<1> DEFINE ofType == [i \in 1..16 |-> <<EnumEosTargetType[i], 0>>]
           types  == {ofType[i] : i \in 1..16}
           ofId   == [id \in CueListIds |-> <<"CUE", id>>]
           cues   == {ofId[id] : id \in CueListIds}
<1>1. IsFiniteSet(types)
  <2>1. \A n \in Nat : IsFiniteSet(1..n)
    BY FS_Interval
  <2>2. IsFiniteSet(1..16)
    BY <2>1
  <2> HIDE DEF ofType
  <2> QED
    BY <2>2, ImageFinite
<1>2. IsFiniteSet(cues)
  <2>1. IsFiniteSet(CueListIds)
    BY CueListAssumption
  <2> HIDE DEF ofId
  <2> QED
    BY <2>1, ImageFinite
<1>3. ListKey \subseteq types \cup cues
  <2>1. \A type \in TargetType : \E i \in 1..16 : EnumEosTargetType[i] = type
    BY RankFacts
  <2> QED
    BY <2>1 DEF ListKey
<1>4. MirrorKey \subseteq types \cup cues
  BY <1>3 DEF MirrorKey
<1> HIDE DEF types, cues
<1>5. IsFiniteSet(types \cup cues)
  BY <1>1, <1>2, FS_Union
<1> QED
  BY <1>4, <1>5, FS_Subset

\* The order as a set of pairs.
KeyOrder == {pair \in MirrorKey \X MirrorKey : KeyPrecedes(pair[1], pair[2])}

(***************************************************************************)
(* The order of the map is a strict total order.                           *)
(***************************************************************************)
LEMMA KeyOrderStrict == StrictOrder(KeyOrder, MirrorKey)
<1>1. \A j, k \in MirrorKey : <<j, k>> \in KeyOrder <=> KeyPrecedes(j, k)
  BY DEF KeyOrder
<1>2. \A k \in MirrorKey : /\ Rank(k[1]) \in Int /\ k[2] \in Int /\ k = <<k[1], k[2]>>
                           /\ EnumEosTargetType[Rank(k[1])] = k[1]
  BY MirrorKeyFacts, RankFacts
<1>3. ASSUME NEW j \in MirrorKey, NEW k \in MirrorKey, j # k
      PROVE  KeyPrecedes(j, k) \/ KeyPrecedes(k, j)
  <2>1. CASE Rank(j[1]) = Rank(k[1])
    <3>1. j[1] = k[1] /\ j[2] # k[2]
      BY <1>2, <1>3, <2>1
    <3> QED
      BY <1>2, <3>1 DEF KeyPrecedes
  <2>2. CASE Rank(j[1]) # Rank(k[1])
    BY <1>2, <2>2 DEF KeyPrecedes
  <2> QED
    BY <2>1, <2>2
<1>4. \A k \in MirrorKey : ~KeyPrecedes(k, k)
  BY <1>2 DEF KeyPrecedes
<1>5. ASSUME NEW i \in MirrorKey, NEW j \in MirrorKey, NEW k \in MirrorKey,
             KeyPrecedes(i, j), KeyPrecedes(j, k)
      PROVE  KeyPrecedes(i, k)
  <2>1. Rank(i[1]) \in Int /\ Rank(j[1]) \in Int /\ Rank(k[1]) \in Int
        /\ i[2] \in Int /\ j[2] \in Int /\ k[2] \in Int
    BY <1>2
  <2> QED
    BY <1>5, <2>1 DEF KeyPrecedes
<1> QED
  BY <1>1, <1>3, <1>4, <1>5 DEF StrictOrder

(***************************************************************************)
(* The sequence of the keys has all of them, in their order.               *)
(***************************************************************************)
LEMMA KeySequenceFacts ==
  /\ KeySequence \in Seq(MirrorKey)
  /\ \A key \in MirrorKey : \E i \in 1..Len(KeySequence) : KeySequence[i] = key
  /\ \A i, j \in 1..Len(KeySequence) : i < j => KeyPrecedes(KeySequence[i], KeySequence[j])
<1> DEFINE N == Cardinality(MirrorKey)
           Ordered(s) == s \in [1..N -> MirrorKey]
                         /\ \A i, j \in 1..N : i < j => KeyPrecedes(s[i], s[j])
<1>1. PICK s : Enumerates(s, MirrorKey, KeyOrder)
  BY MirrorKeyFinite, KeyOrderStrict, EnumerationExists
<1>2. Ordered(s)
  BY <1>1 DEF Enumerates, KeyOrder
<1>3. Ordered(KeySequence)
  BY <1>2 DEF KeySequence, InOrder
<1>4. Enumerates(KeySequence, MirrorKey, KeyOrder)
  <2>1. KeySequence \in [1..N -> MirrorKey]
    BY <1>3
  <2>2. \A i, j \in 1..N : i < j => <<KeySequence[i], KeySequence[j]>> \in KeyOrder
    BY <1>3 DEF KeyOrder
  <2> QED
    BY <2>1, <2>2 DEF Enumerates
<1>5. KeySequence \in Seq(MirrorKey) /\ Len(KeySequence) = N
      /\ \A key \in MirrorKey : \E i \in 1..N : KeySequence[i] = key
  BY <1>4, MirrorKeyFinite, KeyOrderStrict, EnumerationComplete
<1> HIDE DEF N
<1> QED
  BY <1>3, <1>5

----------------------------------------------------------------------------
(* What one list waits for, and what its methods do to that. *)

\* Numbers a target was requested for and has not arrived.
Waiting(l) == {n \in Num : l.entry[n] = "initialized" /\ LivePartsOf(l, n) = {}}

\* No number gets an entry in m that has none in l, but for those of nums.
NoNewEntry(l, m, nums) ==
  \A n \in Num : n \notin nums /\ l.entry[n] = "absent" => m.entry[n] = "absent"

(***************************************************************************)
(* Placeholders are requested one by one, each of them.                    *)
(***************************************************************************)
LEMMA PlaceholdersFacts ==
  ASSUME NEW l
  PROVE  /\ Cardinality(Placeholders(l)) \in Nat
         /\ PlaceholdersInOrder(l) \in [1..Cardinality(Placeholders(l)) -> Placeholders(l)]
         /\ \A n \in Placeholders(l) :
              \E i \in 1..Cardinality(Placeholders(l)) : PlaceholdersInOrder(l)[i] = n
<1> DEFINE P == Placeholders(l)
           N == Cardinality(P)
           R == {pair \in P \X P : pair[1] < pair[2]}
           Ordered(s) == s \in [1..N -> P] /\ \A i, j \in 1..N : i < j => s[i] < s[j]
<1>1. P \subseteq Num /\ P \subseteq Int /\ IsFiniteSet(P)
  <2>1. P \subseteq Num
    BY DEF Placeholders
  <2> HIDE DEF P
  <2>2. IsFiniteSet(P)
    BY <2>1, NumAssumption, FS_Subset
  <2> QED
    BY <2>1, <2>2, NumAssumption
<1>2. StrictOrder(R, P)
  <2> HIDE DEF P
  <2> QED
    BY <1>1 DEF StrictOrder
<1>3. PICK s : Enumerates(s, P, R)
  BY <1>1, <1>2, EnumerationExists
<1>4. Ordered(s)
  BY <1>3 DEF Enumerates
<1>5. PICK t : t = PlaceholdersInOrder(l)
  OBVIOUS
<1>6. Ordered(t)
  BY <1>4, <1>5 DEF PlaceholdersInOrder, InOrder
<1>7. Enumerates(t, P, R)
  BY <1>6 DEF Enumerates
<1> HIDE DEF P, R
<1>8. N \in Nat /\ \A n \in P : \E i \in 1..N : t[i] = n
  BY <1>1, <1>2, <1>7, EnumerationComplete
<1> QED
  BY <1>5, <1>6, <1>8 DEF P

(***************************************************************************)
(* Tick requests whatever the list waits for from then on.                 *)
(***************************************************************************)
LEMMA TickListWaits ==
  ASSUME NEW l, GoodList(l)
  PROVE  /\ TickRequests(l) \in Seq({CountRequest(l)} \cup {TargetRequest(l, n) : n \in Placeholders(l)})
         /\ TickList(l).internal = "RUNNING" /\ l.internal # "RUNNING" =>
              \E i \in 1..Len(TickRequests(l)) : TickRequests(l)[i] = CountRequest(l)
         /\ \A n \in Waiting(TickList(l)) \ Waiting(l) :
              \E i \in 1..Len(TickRequests(l)) : TickRequests(l)[i] = TargetRequest(l, n)
         /\ NoNewEntry(l, TickList(l), {})
<1> DEFINE P == Placeholders(l)
           N == Cardinality(P)
           t == PlaceholdersInOrder(l)
           m == TickList(l)
           Packets == {CountRequest(l)} \cup {TargetRequest(l, n) : n \in P}
<1>1. l.entry \in [Num -> EntryState] /\ TypeGood(l)
  BY ListFields DEF GoodList, TypeGood
<1>2. CASE l.internal = "UNINITIALIZED"
  <2>1. m.internal = "RUNNING" /\ m.entry = l.entry /\ m.live = l.live
    BY <1>1, <1>2 DEF TickList, CanRequest, TypeGood, ListOf
  <2>2. TickRequests(l) = <<CountRequest(l)>>
    BY <1>2 DEF TickRequests, CanRequest
  <2>3. Waiting(m) = Waiting(l)
    BY <2>1 DEF Waiting, LivePartsOf
  <2>4. TickRequests(l) \in Seq(Packets) /\ 1 \in 1..Len(TickRequests(l))
        /\ TickRequests(l)[1] = CountRequest(l)
    BY <2>2
  <2> QED
    BY <2>1, <2>3, <2>4 DEF NoNewEntry
<1>3. CASE CanRequest(l)
  <2>1. N \in Nat /\ t \in [1..N -> P] /\ \A n \in P : \E i \in 1..N : t[i] = n
    BY PlaceholdersFacts
  <2>2. l.internal = "COMPLETE"
    BY <1>3 DEF CanRequest
  <2>3. TickRequests(l) = [i \in 1..N |-> TargetRequest(l, t[i])]
    BY <1>3, <2>2 DEF TickRequests
  <2> HIDE DEF P, N, t
  <2>4. TickRequests(l) \in [1..N -> Packets]
    BY <2>1, <2>3
  <2>5. TickRequests(l) \in Seq(Packets) /\ Len(TickRequests(l)) = N
    <3> HIDE DEF Packets
    <3> QED
      BY <2>1, <2>4
  <2>6. \A n \in P : \E i \in 1..Len(TickRequests(l)) : TickRequests(l)[i] = TargetRequest(l, n)
    <3>1. \A n \in P : \E i \in 1..N : t[i] = n /\ TickRequests(l)[i] = TargetRequest(l, t[i])
      BY <2>1, <2>3
    <3> QED
      BY <2>5, <3>1
  <2>7. m.internal = "COMPLETE" /\ m.live = l.live
        /\ \A n \in Num : m.entry[n] = l.entry[n]
                          \/ (l.entry[n] = "uninitialized" /\ m.entry[n] = "initialized")
    BY <1>1, <1>3, <2>2 DEF TickList, RequestPlaceholders, TypeGood, ListOf, CanRequest
  <2>8. \A n \in Waiting(m) \ Waiting(l) : n \in P
    BY <2>7 DEF Waiting, LivePartsOf, P, Placeholders
  <2> HIDE DEF m
  <2>9. NoNewEntry(l, m, {})
    BY <2>7 DEF NoNewEntry
  <2> QED
    BY <2>5, <2>6, <2>7, <2>8, <2>9 DEF m, P
<1>4. CASE l.internal # "UNINITIALIZED" /\ ~CanRequest(l)
  <2>1. m = l
    BY <1>4 DEF TickList
  <2>2. TickRequests(l) = <<>>
    BY <1>4 DEF TickRequests
  <2> QED
    BY <2>1, <2>2 DEF NoNewEntry
<1> QED
  BY <1>2, <1>3, <1>4

(***************************************************************************)
(* A count reply ends the wait for it, and changes no other.               *)
(***************************************************************************)
LEMMA RecvCountWaits ==
  ASSUME NEW l, GoodList(l), NEW c \in Nat
  PROVE  LET m == RecvCount(l, <<c>>)
         IN  /\ m.internal # "RUNNING" /\ Waiting(m) = Waiting(l) /\ NoNewEntry(l, m, {})
             /\ m.status.dirty \/ ~l.status.dirty
<1> DEFINE m == RecvCount(l, <<c>>)
<1>1. TypeGood(l)
  BY DEF GoodList
<1>2. m.internal # "RUNNING" /\ m.entry = l.entry /\ m.live = l.live
      /\ (m.status.dirty \/ ~l.status.dirty)
  BY <1>1 DEF RecvCount, AwaitsCount, TypeGood, ListOf, SetValue
<1> HIDE DEF m
<1>3. Waiting(m) = Waiting(l) /\ NoNewEntry(l, m, {})
  BY <1>2 DEF Waiting, LivePartsOf, NoNewEntry
<1> QED
  BY <1>2, <1>3 DEF m

(***************************************************************************)
(* A reply about a target ends the wait for it and changes no other.       *)
(***************************************************************************)
LEMMA RecvTargetWaits ==
  ASSUME NEW l, GoodList(l), NEW args, NEW pathData,
         <<pathData.num, pathData.part>> \in Key, pathData.num >= 1,
         ValidPart(l.type, pathData.part)
  PROVE  LET m == RecvTarget(l, args, pathData)
         IN  /\ m.internal = l.internal
             /\ Waiting(m) \subseteq Waiting(l) \ {pathData.num}
             /\ NoNewEntry(l, m, {pathData.num})
<1> DEFINE m == RecvTarget(l, args, pathData)
           num == pathData.num
           part == EffectivePart(l.type, pathData.part)
           k == <<num, part>>
<1>1. TypeGood(l) /\ PhaseGood(l)
  BY DEF GoodList
<1>2. num \in Num /\ part \in Part /\ k \in Key
  BY PartAssumption DEF Key, EffectivePart
<1>3. l.entry \in [Num -> EntryState] /\ l.live \in SUBSET Key /\ l.target \in [Key -> Target(l.type)]
  BY <1>1, ListFields DEF TypeGood
<1>4. CASE l.internal # "COMPLETE"
  <2>1. m = l
    BY <1>4 DEF RecvTarget
  <2>2. Waiting(l) = {}
    BY <1>1, <1>4 DEF PhaseGood, Waiting
  <2> QED
    BY <2>1, <2>2 DEF NoNewEntry
<1>5. ASSUME NEW x, x.internal = l.internal, x.entry[num] = "absent" \/ LivePartsOf(x, num) # {},
             \A n \in Num : n # num => x.entry[n] = l.entry[n] /\ LivePartsOf(x, n) = LivePartsOf(l, n)
      PROVE  /\ x.internal = l.internal /\ Waiting(x) \subseteq Waiting(l) \ {num}
             /\ NoNewEntry(l, x, {num})
  BY <1>5 DEF Waiting, NoNewEntry
<1>6. CASE l.internal = "COMPLETE"
           /\ pathData.group = General /\ ReceivedUid(args, pathData) = Empty
  <2> DEFINE removed == IF k \in l.live
                        THEN [DeleteTargets(l, {k}) EXCEPT !.status = SetDirty(@)] ELSE l
  <2>1. m = RemoveTarget(l, k)
    BY <1>6 DEF RecvTarget, ProcessReceivedTarget
  <2>2. /\ removed.internal = l.internal /\ removed.entry = l.entry /\ removed.live = l.live \ {k}
        /\ removed = [removed EXCEPT !.entry = l.entry]
    BY <1>1 DEF DeleteTargets, TypeGood, ListOf
  <2>3. m = IF LivePartsOf(removed, num) = {}
            THEN [removed EXCEPT !.entry[num] = "absent"] ELSE removed
    BY <2>1 DEF RemoveTarget
  <2> HIDE DEF removed, m
  <2>4. m.internal = l.internal /\ m.live = l.live \ {k}
        /\ m.entry = IF LivePartsOf(removed, num) = {} THEN [l.entry EXCEPT ![num] = "absent"] ELSE l.entry
    BY <2>2, <2>3
  <2>5. m.entry[num] = "absent" \/ LivePartsOf(m, num) # {}
    BY <1>2, <1>3, <2>2, <2>4 DEF LivePartsOf
  <2>6. \A n \in Num : n # num => m.entry[n] = l.entry[n] /\ LivePartsOf(m, n) = LivePartsOf(l, n)
    BY <1>2, <1>3, <2>4 DEF LivePartsOf
  <2> QED
    BY <1>5, <2>4, <2>5, <2>6 DEF m
<1>7. CASE l.internal = "COMPLETE"
           /\ ~(pathData.group = General /\ ReceivedUid(args, pathData) = Empty)
  <2>1. m = AddOrUpdateTarget(l, k, args, pathData)
    BY <1>7 DEF RecvTarget, ProcessReceivedTarget
  <2>2. m.internal = l.internal /\ m.live = l.live \cup {k}
        /\ m.entry = [l.entry EXCEPT ![num] = "initialized"]
    BY <1>1, <2>1 DEF AddOrUpdateTarget, TypeGood, ListOf
  <2> HIDE DEF m
  <2>3. LivePartsOf(m, num) # {}
    <3>1. k \in m.live /\ k[1] = num
      BY <2>2
    <3> QED
      BY <3>1 DEF LivePartsOf
  <2>4. \A n \in Num : n # num => m.entry[n] = l.entry[n] /\ LivePartsOf(m, n) = LivePartsOf(l, n)
    BY <1>2, <1>3, <2>2 DEF LivePartsOf
  <2> QED
    BY <1>5, <2>2, <2>3, <2>4 DEF m
<1> QED
  BY <1>4, <1>6, <1>7

(***************************************************************************)
(* A notification begins no wait.                                          *)
(***************************************************************************)
LEMMA NotifyListWaits ==
  ASSUME NEW l, GoodList(l), NEW nums \in SUBSET Num, NEW hasArgs, NEW badArgs
  PROVE  LET m == NotifyList(l, nums, hasArgs, badArgs)
         IN  /\ m.internal = "RUNNING" => l.internal = "RUNNING"
             /\ Waiting(m) \subseteq Waiting(l)
             /\ NoNewEntry(l, m, nums)
             /\ l.status.dirty => m.status.dirty
<1> DEFINE m == NotifyList(l, nums, hasArgs, badArgs)
<1>1. TypeGood(l)
  BY DEF GoodList
<1>2. l.entry \in [Num -> EntryState] /\ l.live \in SUBSET Key /\ l.status \in SyncStatus
  BY <1>1, ListFields DEF TypeGood
<1>3. CASE m = ClearList(l)
  <2> HIDE DEF m
  <2>1. m.internal = "UNINITIALIZED" /\ \A n \in Num : m.entry[n] = "absent"
    BY <1>3 DEF ClearList, NewList
  <2>2. l.status.dirty => m.status.dirty
    BY <1>2, <1>3 DEF ClearList, NewList, SetValue
  <2> QED
    BY <2>1, <2>2 DEF Waiting, NoNewEntry, m
<1>4. CASE m = l
  <2> HIDE DEF m
  <2> QED
    BY <1>4 DEF NoNewEntry, m
<1>5. CASE m = InvalidateTargets(l, nums) /\ nums # {}
  <2> DEFINE dead == {k \in l.live : k[1] \in nums}
  <2>1. /\ m.internal = l.internal /\ m.live = l.live \ dead
        /\ m.entry = [n \in Num |-> IF n \in nums THEN "uninitialized" ELSE l.entry[n]]
        /\ m.status = SetValue(l.status, "RUNNING")
    BY <1>1, <1>5 DEF InvalidateTargets, DeleteTargets, TypeGood, ListOf
  <2> HIDE DEF m
  <2>2. Waiting(m) \subseteq Waiting(l)
    BY <1>2, <2>1 DEF Waiting, LivePartsOf
  <2>3. NoNewEntry(l, m, nums)
    BY <2>1 DEF NoNewEntry
  <2>4. l.status.dirty => m.status.dirty
    <3>1. "RUNNING" \in SyncStatusValue
      BY DEF SyncStatusValue
    <3>2. SetValue(l.status, "RUNNING").dirty <=> l.status.dirty \/ l.status.value # "RUNNING"
      BY <1>2, <3>1, SetValueFacts
    <3> QED
      BY <2>1, <3>2
  <2> QED
    BY <1>1, <1>5, <2>1, <2>2, <2>3, <2>4 DEF m
<1> QED
  BY <1>3, <1>4, <1>5 DEF NotifyList, InvalidateTargets

----------------------------------------------------------------------------
(* Changes of the whole mirror. *)

(***************************************************************************)
(* The fields of good data.                                                *)
(***************************************************************************)
LEMMA DataFields ==
  ASSUME NEW d, GoodData(d)
  PROVE  /\ d.status \in SyncStatus /\ d.status.value \in SyncStatusValue
         /\ d.status.dirty \in BOOLEAN /\ d.cueMap \in BOOLEAN
         /\ \A key \in DOMAIN d.lists :
              /\ key \in MirrorKey /\ GoodList(d.lists[key])
              /\ d.lists[key].type = key[1] /\ d.lists[key].listId = key[2]
              /\ d.lists[key].status \in SyncStatus
              /\ d.lists[key].status.value \in SyncStatusValue
<1>1. ASSUME NEW key \in DOMAIN d.lists
      PROVE  d.lists[key].status \in SyncStatus
             /\ d.lists[key].status.value \in SyncStatusValue
  <2>1. d.lists[key] \in ListOf(d.lists[key].type, d.lists[key].listId)
    BY DEF GoodData, ListsGood, ListFor, GoodList, TypeGood
  <2> QED
    BY <2>1, ListFields
<1>2. d.status \in SyncStatus /\ d.cueMap \in BOOLEAN
  BY DEF GoodData, DataType
<1> QED
  BY <1>1, <1>2 DEF GoodData, DataType, ListsGood, ListFor, SyncStatus

\* The mirror with the list l at a key it has, or has not yet.
Put(d, key, l) ==
  [status |-> UpdateFromChild(d.status, l.status),
   lists  |-> [k \in DOMAIN d.lists \cup {key} |-> IF k = key THEN l ELSE d.lists[k]],
   cueMap |-> d.cueMap]

(***************************************************************************)
(* What EXCEPT makes of the record.                                        *)
(***************************************************************************)
LEMMA DataUpdate ==
  ASSUME NEW d, d = [status |-> d.status, lists |-> d.lists, cueMap |-> d.cueMap]
  PROVE  /\ \A lists : [d EXCEPT !.lists = lists]
                       = [status |-> d.status, lists |-> lists, cueMap |-> d.cueMap]
         /\ \A s : [d EXCEPT !.status = s]
                   = [status |-> s, lists |-> d.lists, cueMap |-> d.cueMap]
<1>1. d \in [status : {d.status}, lists : {d.lists}, cueMap : {d.cueMap}]
  OBVIOUS
<1>2. \A lists : [d EXCEPT !.lists = lists]
                = [status |-> d.status, lists |-> lists, cueMap |-> d.cueMap]
  BY <1>1
<1>3. \A s : [d EXCEPT !.status = s] = [status |-> s, lists |-> d.lists, cueMap |-> d.cueMap]
  BY <1>1
<1> QED
  BY <1>2, <1>3

(***************************************************************************)
(* WithList puts a list, whether it was there or was just created.         *)
(***************************************************************************)
LEMMA WithListPuts ==
  ASSUME NEW d, DataType(d), NEW key, NEW l
  PROVE  /\ key \in DOMAIN d.lists => WithList(d, key, l) = Put(d, key, l)
         /\ d.cueMap => \A dummy :
              WithList(WithCueLists(d, [k \in {key} |-> dummy]), key, l) = Put(d, key, l)
<1>1. /\ d = [status |-> d.status, lists |-> d.lists, cueMap |-> d.cueMap]
      /\ d.lists = [k \in DOMAIN d.lists |-> d.lists[k]]
      /\ d.cueMap \in BOOLEAN
  BY DEF DataType
<1>2. ASSUME key \in DOMAIN d.lists PROVE WithList(d, key, l) = Put(d, key, l)
  <2>1. [d.lists EXCEPT ![key] = l]
        = [k \in DOMAIN d.lists \cup {key} |-> IF k = key THEN l ELSE d.lists[k]]
    BY <1>1, <1>2
  <2>2. WithList(d, key, l) = [status |-> UpdateFromChild(d.status, l.status),
                               lists |-> [d.lists EXCEPT ![key] = l], cueMap |-> d.cueMap]
    BY DEF WithList
  <2> QED
    BY <2>1, <2>2 DEF Put
<1>3. ASSUME d.cueMap, NEW dummy
      PROVE  WithList(WithCueLists(d, [k \in {key} |-> dummy]), key, l) = Put(d, key, l)
  <2> DEFINE lists == [k \in {key} \cup DOMAIN d.lists |-> IF k \in {key} THEN dummy ELSE d.lists[k]]
             b == WithCueLists(d, [k \in {key} |-> dummy])
  <2>1. b = [status |-> d.status, lists |-> lists, cueMap |-> TRUE]
    <3>1. lists = [k \in DOMAIN [j \in {key} |-> dummy] \cup DOMAIN d.lists |->
                     IF k \in DOMAIN [j \in {key} |-> dummy] THEN [j \in {key} |-> dummy][k]
                     ELSE d.lists[k]]
      OBVIOUS
    <3> QED
      BY <3>1 DEF WithCueLists
  <2>2. [lists EXCEPT ![key] = l]
        = [k \in DOMAIN d.lists \cup {key} |-> IF k = key THEN l ELSE d.lists[k]]
    OBVIOUS
  <2> HIDE DEF lists, b
  <2>3. WithList(b, key, l) = [status |-> UpdateFromChild(d.status, l.status),
                               lists |-> [lists EXCEPT ![key] = l], cueMap |-> TRUE]
    BY <2>1 DEF WithList
  <2>4. d.cueMap = TRUE
    BY <1>1, <1>3
  <2> QED
    BY <2>2, <2>3, <2>4 DEF Put, b
<1> QED
  BY <1>2, <1>3

(***************************************************************************)
(* A good list put into a mirror that runs leaves a good mirror, and the   *)
(* mirror cannot become synchronised and clean by it.                      *)
(***************************************************************************)
LEMMA PutGood ==
  ASSUME NEW d, GoodData(d), d.status.value # "UNINITIALIZED",
         NEW key \in MirrorKey, key # DummyKey, NEW l, ListFor(key, l)
  PROVE  LET e == Put(d, key, l)
         IN  /\ GoodData(e) /\ DataStep(d, e)
             /\ e.status.value # "UNINITIALIZED"
             /\ e.status.value = "COMPLETE" => d.status.value = "COMPLETE"
             /\ l.status.dirty => e.status.dirty
<1> DEFINE e == Put(d, key, l)
<1>1. l.status \in SyncStatus
  BY ListFields DEF ListFor, GoodList, TypeGood
<1>2. d.status \in SyncStatus /\ d.cueMap \in BOOLEAN
  BY DataFields
<1>3. /\ e = [status |-> e.status, lists |-> e.lists, cueMap |-> e.cueMap]
      /\ e.status = UpdateFromChild(d.status, l.status) /\ e.cueMap = d.cueMap
      /\ e.lists = [k \in DOMAIN e.lists |-> e.lists[k]]
      /\ DOMAIN e.lists = DOMAIN d.lists \cup {key}
      /\ e.lists[key] = l
      /\ \A k \in DOMAIN d.lists : k # key => e.lists[k] = d.lists[k]
  BY DEF Put
<1> HIDE DEF e
<1>4. /\ e.status.value = "COMPLETE" => d.status.value = "COMPLETE" /\ l.status.value = "COMPLETE"
      /\ e.status.value = "UNINITIALIZED" <=> d.status.value = "UNINITIALIZED"
      /\ e.status.dirty <=> d.status.dirty \/ l.status.dirty \/ e.status.value # d.status.value
  BY <1>1, <1>2, <1>3, UpdateFromChildFacts
<1>5. DataType(e)
  <2>1. e.status \in SyncStatus
    BY <1>1, <1>2, <1>3, StatusType
  <2>2. DOMAIN e.lists \subseteq MirrorKey
    BY <1>3 DEF GoodData, DataType
  <2> QED
    BY <1>2, <1>3, <2>1, <2>2 DEF DataType
<1>6. ListsGood(e)
  BY <1>3 DEF ListsGood, GoodData
<1>7. DummyComplete(e)
  BY <1>3 DEF DummyComplete, GoodData
<1>8. StatusGood(e)
  BY <1>3, <1>4 DEF StatusGood, GoodData
<1>9. DataStep(d, e)
  BY <1>4 DEF DataStep
<1> QED
  BY <1>4, <1>5, <1>6, <1>7, <1>8, <1>9 DEF GoodData, e

(***************************************************************************)
(* What is waited for after a list was put.                                *)
(***************************************************************************)
LEMMA PutAwaits ==
  ASSUME NEW d, NEW key, NEW l, NEW requests, NEW replies,
         \A k \in DOMAIN d.lists \ {key} : ListAwaits(k, d.lists[k], requests, replies),
         ListAwaits(key, l, requests, replies)
  PROVE  Awaits(Put(d, key, l), requests, replies)
BY DEF Awaits, Put

(***************************************************************************)
(* More packets answer no less.                                            *)
(***************************************************************************)
LEMMA AwaitsMore ==
  ASSUME NEW requests, NEW replies, NEW more, NEW others, requests \subseteq more, replies \subseteq others
  PROVE  /\ \A key, l : ListAwaits(key, l, requests, replies) => ListAwaits(key, l, more, others)
         /\ \A d : Awaits(d, requests, replies) => Awaits(d, more, others)
<1>1. ASSUME NEW key, NEW l, ListAwaits(key, l, requests, replies)
      PROVE  ListAwaits(key, l, more, others)
  BY <1>1 DEF ListAwaits, CountAwaited, TargetAwaited
<1> QED
  BY <1>1 DEF Awaits

(***************************************************************************)
(* The same waits, stated with Waiting.                                    *)
(***************************************************************************)
LEMMA ListAwaitsFacts ==
  ASSUME NEW key, NEW l, NEW requests, NEW replies
  PROVE  ListAwaits(key, l, requests, replies) <=>
           /\ l.internal = "RUNNING" => CountAwaited(key, requests, replies)
           /\ \A n \in Waiting(l) : TargetAwaited(key, n, requests, replies)
BY DEF ListAwaits, Waiting

\* A list that waits for nothing.
Idle(l) == l.internal # "RUNNING" /\ Waiting(l) = {}

(***************************************************************************)
(* A list that has just been made, and one that is COMPLETE, wait for      *)
(* nothing; a dummy is COMPLETE and dirty.                                 *)
(***************************************************************************)
LEMMA IdleLists ==
  /\ \A type, listId : /\ Idle(NewList(type, listId))
                       /\ NewList(type, listId).status = NewStatus
                       /\ \A n \in Num : NewList(type, listId).entry[n] = "absent"
  /\ \A type, listId :
       LET dummy == InitializeAsDummy(NewList(type, listId))
       IN  /\ Idle(dummy) /\ \A n \in Num : dummy.entry[n] = "absent"
           /\ dummy.status.value = "COMPLETE" /\ dummy.status.dirty
  /\ \A l : GoodList(l) /\ l.status.value = "COMPLETE" => Idle(l)
<1>1. ASSUME NEW type, NEW listId
      PROVE  /\ Idle(NewList(type, listId))
             /\ NewList(type, listId).status = NewStatus
             /\ \A n \in Num : NewList(type, listId).entry[n] = "absent"
  BY DEF Idle, Waiting, NewList
<1>2. ASSUME NEW type, NEW listId, NEW dummy, dummy = InitializeAsDummy(NewList(type, listId))
      PROVE  /\ Idle(dummy) /\ \A n \in Num : dummy.entry[n] = "absent"
             /\ dummy.status.value = "COMPLETE" /\ dummy.status.dirty
  <2>1. /\ \A n \in Num : dummy.entry[n] = "absent"
        /\ dummy.internal = "COMPLETE"
        /\ dummy.status = SetValue(SetValue(NewStatus, "UNINITIALIZED"), "COMPLETE")
    BY <1>2 DEF InitializeAsDummy, ClearList, NewList
  <2>2. dummy.status.value = "COMPLETE" /\ dummy.status.dirty
    <3>1. PICK s \in SyncStatus : s = SetValue(NewStatus, "UNINITIALIZED")
      BY StatusType DEF SyncStatusValue
    <3>2. s.value = "UNINITIALIZED"
      BY <3>1, StatusType, SetValueFacts DEF SyncStatusValue
    <3> QED
      BY <2>1, <3>1, <3>2, SetValueFacts DEF SyncStatusValue
  <2> QED
    BY <2>1, <2>2 DEF Idle, Waiting
<1>3. ASSUME NEW l, GoodList(l), l.status.value = "COMPLETE" PROVE Idle(l)
  <2>1. CompleteGood(l) /\ PhaseGood(l)
    BY <1>3 DEF GoodList
  <2>2. l.internal = "COMPLETE"
    BY <1>3, <2>1 DEF PhaseGood
  <2>3. \A n \in Num : l.entry[n] = "initialized" => LivePartsOf(l, n) # {}
    <3> SUFFICES ASSUME NEW n \in Num, l.entry[n] = "initialized" PROVE LivePartsOf(l, n) # {}
      OBVIOUS
    <3>1. PICK part \in Part : <<n, part>> \in l.live
      BY <1>3, <2>1 DEF CompleteGood
    <3> QED
      BY <3>1 DEF LivePartsOf
  <2> QED
    BY <2>2, <2>3 DEF Idle, Waiting
<1> QED
  BY <1>1, <1>2, <1>3

----------------------------------------------------------------------------
(* Tick. *)

(***************************************************************************)
(* When a list completes for the first time, only lists of cues are made,  *)
(* only for the list of cue lists, and they wait for nothing yet.          *)
(***************************************************************************)
LEMMA SyncCompleteGood ==
  ASSUME NEW d, GoodData(d), d.status.value = "RUNNING", d.status.dirty, NEW key \in DOMAIN d.lists
  PROVE  LET e == OnTargetListInitialSyncComplete(d, key)
         IN  /\ GoodData(e) /\ e.status = d.status
             /\ \A k \in DOMAIN e.lists :
                  \/ k \in DOMAIN d.lists /\ e.lists[k] = d.lists[k]
                  \/ key[1] = "CUELIST" /\ k[1] = "CUE" /\ Idle(e.lists[k])
<1> DEFINE e == OnTargetListInitialSyncComplete(d, key)
           numbers == {n \in Num : d.lists[key].entry[n] # "absent"}
           dummy == InitializeAsDummy(NewList("CUE", 0))
<1>1. CASE e = d
  BY <1>1
<1>2. ASSUME NEW added, key[1] = "CUELIST",
             \A k \in DOMAIN added : k \in MirrorKey /\ k[1] = "CUE" /\ ListFor(k, added[k])
                                     /\ Idle(added[k]),
             DummyKey \in DOMAIN added => added[DummyKey].status.value = "COMPLETE",
             NEW x, x = WithCueLists(d, added)
      PROVE  /\ GoodData(x) /\ x.status = d.status
             /\ \A k \in DOMAIN x.lists :
                  \/ k \in DOMAIN d.lists /\ x.lists[k] = d.lists[k]
                  \/ key[1] = "CUELIST" /\ k[1] = "CUE" /\ Idle(x.lists[k])
  <2>1. /\ x = [status |-> x.status, lists |-> x.lists, cueMap |-> x.cueMap]
        /\ x.status = d.status /\ x.cueMap = TRUE
        /\ x.lists = [k \in DOMAIN x.lists |-> x.lists[k]]
        /\ DOMAIN x.lists = DOMAIN added \cup DOMAIN d.lists
        /\ \A k \in DOMAIN x.lists : x.lists[k] = IF k \in DOMAIN added THEN added[k] ELSE d.lists[k]
    BY <1>2 DEF WithCueLists
  <2>2. DataType(x)
    BY <1>2, <2>1 DEF GoodData, DataType
  <2>3. ListsGood(x)
    BY <1>2, <2>1 DEF GoodData, ListsGood
  <2>4. DummyComplete(x)
    BY <1>2, <2>1 DEF GoodData, DummyComplete
  <2>5. StatusGood(x)
    BY <2>1 DEF StatusGood
  <2> QED
    BY <1>2, <2>1, <2>2, <2>3, <2>4, <2>5 DEF GoodData
<1>3. CASE key[1] = "CUELIST" /\ numbers # {}
  <2> DEFINE added == [k \in {<<"CUE", n>> : n \in numbers} |-> NewList("CUE", k[2])]
  <2>1. e = WithCueLists(d, added)
    BY <1>3 DEF OnTargetListInitialSyncComplete
  <2>2. key \in MirrorKey /\ "CUELIST" \in SubscribedTypes
    BY <1>3, DataFields, MirrorKeyFacts
  <2>3. \A n \in numbers : n \in Num /\ n # 0
    BY DEF GoodData, ListsGood, ListFor
  <2>4. \A n \in numbers : n \in CueListIds
    BY <2>2, <2>3, CueListAssumption
  <2>5. \A n \in numbers : <<"CUE", n>> \in MirrorKey
    BY <2>4 DEF MirrorKey, ListKey
  <2>6. DOMAIN added = {<<"CUE", n>> : n \in numbers}
        /\ \A n \in numbers : added[<<"CUE", n>>] = NewList("CUE", n)
    OBVIOUS
  <2>7. \A n \in numbers : ListFor(<<"CUE", n>>, NewList("CUE", n)) /\ Idle(NewList("CUE", n))
    BY NewListGood, IdleLists DEF ListFor
  <2> HIDE DEF added, e, numbers
  <2>8. \A k \in DOMAIN added : k \in MirrorKey /\ k[1] = "CUE" /\ ListFor(k, added[k])
                                /\ Idle(added[k])
    BY <2>5, <2>6, <2>7
  <2>9. DummyKey \notin DOMAIN added
    BY <2>3, <2>6 DEF DummyKey
  <2> QED
    BY <1>2, <1>3, <2>1, <2>8, <2>9 DEF e
<1>4. CASE key[1] = "CUELIST" /\ numbers = {} /\ ~d.cueMap
  <2> DEFINE added == [k \in {<<"CUE", 0>>} |-> dummy]
  <2>1. e = WithCueLists(d, added)
    BY <1>4 DEF OnTargetListInitialSyncComplete
  <2>2. DummyKey \in MirrorKey
    BY DEF MirrorKey, ListKey, TargetType, DummyKey
  <2>3. /\ GoodList(dummy) /\ dummy.type = "CUE" /\ dummy.listId = 0 /\ Idle(dummy)
        /\ dummy.status.value = "COMPLETE" /\ \A n \in Num : dummy.entry[n] = "absent"
    <3>1. /\ TypeGood(NewList("CUE", 0)) /\ NewList("CUE", 0).type = "CUE"
          /\ NewList("CUE", 0).listId = 0
      BY NewListGood DEF GoodList
    <3>2. GoodList(dummy) /\ dummy.type = "CUE" /\ dummy.listId = 0
      BY <3>1, DummyGood
    <3> QED
      BY <3>2, IdleLists
  <2>4. DOMAIN added = {DummyKey} /\ added[DummyKey] = dummy
    BY DEF DummyKey
  <2> HIDE DEF added, e, dummy
  <2>5. \A k \in DOMAIN added : k \in MirrorKey /\ k[1] = "CUE" /\ ListFor(k, added[k])
                                /\ Idle(added[k])
    BY <2>2, <2>3, <2>4 DEF ListFor, DummyKey
  <2> QED
    BY <1>2, <1>4, <2>1, <2>3, <2>4, <2>5 DEF e
<1> QED
  BY <1>1, <1>3, <1>4 DEF OnTargetListInitialSyncComplete

(***************************************************************************)
(* A list that completes its first synchronisation is COMPLETE and dirty.  *)
(***************************************************************************)
LEMMA TickListCompletes ==
  ASSUME NEW l, GoodList(l), ~l.complete, TickList(l).complete
  PROVE  TickList(l).status.dirty
<1>1. /\ l.complete = FALSE /\ l.status \in SyncStatus
      /\ l.status.value = "COMPLETE" => l.complete /\ TypeGood(l)
  BY ListFields DEF GoodList, CompleteGood, TypeGood
<1>2. TypeGood(l)
  BY DEF GoodList
<1>3. TickList(l).status = SetValue(l.status, "COMPLETE")
  <2>1. TickList(l) # l /\ TickList(l) # RequestPlaceholders(l)
        /\ TickList(l) # [l EXCEPT !.internal = "RUNNING"]
    BY <1>1, <1>2 DEF TickList, RequestPlaceholders, TypeGood, ListOf
  <2> QED
    BY <1>2, <2>1 DEF TickList, TypeGood, ListOf, CanRequest
<1> QED
  BY <1>1, <1>3, SetValueFacts DEF SyncStatusValue

(***************************************************************************)
(* A request of a list is one the library sends, and about its key.        *)
(***************************************************************************)
LEMMA ListRequests ==
  ASSUME NEW key \in MirrorKey, NEW l, ListFor(key, l)
  PROVE  /\ CountRequest(l) \in Request /\ About(CountRequest(l), "count", key)
         /\ \A n \in Placeholders(l) :
              /\ TargetRequest(l, n) \in Request /\ About(TargetRequest(l, n), "target", key)
              /\ TargetRequest(l, n).num = n
         /\ \A i \in Nat : IndexRequest(l, i) \in Request
<1>1. /\ key = <<key[1], key[2]>> /\ key[1] \in TargetType /\ key[2] \in Nat
      /\ l.type = key[1] /\ l.listId = key[2]
  BY MirrorKeyFacts DEF ListFor
<1>2. \A n \in Placeholders(l) : n \in Num /\ n # 0
  BY DEF ListFor, Placeholders
<1>3. CountRequest(l) \in Request /\ About(CountRequest(l), "count", key)
  BY <1>1 DEF CountRequest, Request, Keyed, About
<1>4. \A n \in Placeholders(l) :
        /\ TargetRequest(l, n) \in Request /\ About(TargetRequest(l, n), "target", key)
        /\ TargetRequest(l, n).num = n
  BY <1>1, <1>2 DEF TargetRequest, Request, Keyed, About
<1>5. \A i \in Nat : IndexRequest(l, i) \in Request
  BY <1>1 DEF IndexRequest, Request, Keyed
<1> QED
  BY <1>3, <1>4, <1>5

(***************************************************************************)
(* A list may be kept under its key after Tick, and what it waits for then *)
(* was waited for before or is requested.                                  *)
(***************************************************************************)
LEMMA TickListFor ==
  ASSUME NEW key \in MirrorKey, NEW l, ListFor(key, l)
  PROVE  /\ ListFor(key, TickList(l)) /\ TickRequests(l) \in Seq(Request)
         /\ \A requests, replies :
              ListAwaits(key, l, requests, replies) =>
                ListAwaits(key, TickList(l), requests \cup Range(TickRequests(l)), replies)
<1> DEFINE m == TickList(l)
           q == TickRequests(l)
           Packets == {CountRequest(l)} \cup {TargetRequest(l, n) : n \in Placeholders(l)}
<1>1. GoodList(l) /\ \A n \in Num : n = 0 => l.entry[n] = "absent"
  BY DEF ListFor
<1>2. GoodList(m) /\ m.type = l.type /\ m.listId = l.listId
  BY <1>1, TickListGood
<1>3. /\ q \in Seq(Packets)
      /\ m.internal = "RUNNING" /\ l.internal # "RUNNING" =>
           \E i \in 1..Len(q) : q[i] = CountRequest(l)
      /\ \A n \in Waiting(m) \ Waiting(l) : \E i \in 1..Len(q) : q[i] = TargetRequest(l, n)
      /\ NoNewEntry(l, m, {})
  BY <1>1, TickListWaits
<1> HIDE DEF m, q
<1>4. ListFor(key, m)
  BY <1>1, <1>2, <1>3 DEF ListFor, NoNewEntry
<1>5. q \in Seq(Request)
  <2>1. Packets \subseteq Request
    BY ListRequests
  <2> HIDE DEF Packets
  <2> QED
    BY <1>3, <2>1
<1>6. \A i \in 1..Len(q) : q[i] \in Range(q)
  BY <1>5 DEF Range
<1>7. ASSUME NEW requests, NEW replies, ListAwaits(key, l, requests, replies)
      PROVE  ListAwaits(key, m, requests \cup Range(q), replies)
  <2> DEFINE more == requests \cup Range(q)
  <2>1. ASSUME m.internal = "RUNNING" PROVE CountAwaited(key, more, replies)
    <3>1. CASE l.internal = "RUNNING"
      BY <1>7, <3>1 DEF ListAwaits, CountAwaited
    <3>2. CASE l.internal # "RUNNING"
      BY <1>3, <1>6, <2>1, <3>2, ListRequests DEF CountAwaited
    <3> QED
      BY <3>1, <3>2
  <2>2. ASSUME NEW n \in Waiting(m) PROVE TargetAwaited(key, n, more, replies)
    <3>1. CASE n \in Waiting(l)
      <4>1. TargetAwaited(key, n, requests, replies)
        BY <1>7, <3>1, ListAwaitsFacts
      <4> QED
        BY <4>1 DEF TargetAwaited
    <3>2. CASE n \notin Waiting(l)
      <4>1. PICK i \in 1..Len(q) : q[i] = TargetRequest(l, n)
        BY <1>3, <2>2, <3>2
      <4>2. q[i] \in Packets /\ q[i] \in Range(q)
        BY <1>3, <1>6
      <4>3. About(TargetRequest(l, n), "target", key) /\ TargetRequest(l, n).num = n
        BY DEF About, TargetRequest, ListFor
      <4> QED
        BY <4>1, <4>2, <4>3 DEF TargetAwaited
    <3> QED
      BY <3>1, <3>2
  <2> HIDE DEF more
  <2>3. ListAwaits(key, m, more, replies)
    BY <2>1, <2>2, ListAwaitsFacts
  <2> QED
    BY <2>3 DEF more
<1> QED
  BY <1>4, <1>5, <1>7 DEF m, q

(***************************************************************************)
(* One iteration of TickRunning keeps the mirror good and running; the     *)
(* list it is about is COMPLETE if the run goes on being so, and only the  *)
(* list of cue lists has an effect on others, the lists of cues.           *)
(***************************************************************************)
LEMMA TickOneListGood ==
  ASSUME NEW run, GoodData(run.data), run.data.status.value = "RUNNING",
         run.sent \in Seq(Request), NEW key \in MirrorKey, NEW requests, NEW replies,
         Awaits(run.data, requests \cup Range(run.sent), replies)
  PROVE  LET r == TickOneList(run, key)
         IN  /\ GoodData(r.data) /\ r.data.status.value = "RUNNING"
             /\ r.sent \in Seq(Request)
             /\ Awaits(r.data, requests \cup Range(r.sent), replies)
             /\ r.allComplete => run.allComplete
             /\ r.allComplete /\ key \in DOMAIN r.data.lists =>
                  r.data.lists[key].status.value = "COMPLETE"
             /\ \A k \in DOMAIN r.data.lists :
                  \/ k = key
                  \/ k \in DOMAIN run.data.lists /\ r.data.lists[k] = run.data.lists[k]
                  \/ key[1] = "CUELIST" /\ k[1] = "CUE"
<1> DEFINE r == TickOneList(run, key)
           d == run.data
           before == d.lists[key]
           after == TickList(before)
           updated == Put(d, key, after)
           more == requests \cup Range(run.sent \o TickRequests(before))
<1>1. CASE key \notin DOMAIN d.lists \/ before.status.value = "COMPLETE"
  <2>1. r = run
    BY <1>1 DEF TickOneList
  <2> QED
    BY <1>1, <2>1
<1>2. CASE key \in DOMAIN d.lists /\ before.status.value # "COMPLETE"
  <2>1. ListFor(key, before) /\ key # DummyKey
    BY <1>2 DEF GoodData, ListsGood, DummyComplete
  <2>2. ListFor(key, after) /\ TickRequests(before) \in Seq(Request)
    BY <2>1, TickListFor
  <2>3. /\ GoodData(updated) /\ updated.status.value # "UNINITIALIZED"
        /\ updated.status.value = "COMPLETE" => d.status.value = "COMPLETE"
        /\ after.status.dirty => updated.status.dirty
    BY <2>1, <2>2, PutGood
  <2>4. updated.status.value = "RUNNING"
    BY <2>3, DataFields DEF SyncStatusValue
  <2>5. /\ key \in DOMAIN updated.lists /\ updated.lists[key] = after
        /\ \A k \in DOMAIN updated.lists : k # key =>
             k \in DOMAIN d.lists /\ updated.lists[k] = d.lists[k]
    BY DEF Put
  <2>6. /\ r.data = IF ~before.complete /\ after.complete
                    THEN OnTargetListInitialSyncComplete(updated, key) ELSE updated
        /\ r.sent = run.sent \o TickRequests(before)
        /\ r.allComplete <=> run.allComplete /\ after.status.value = "COMPLETE"
    <3>1. WithList(d, key, after) = updated
      BY <1>2, WithListPuts DEF GoodData
    <3> HIDE DEF updated
    <3> QED
      BY <1>2, <3>1 DEF TickOneList
  <2>7. r.sent \in Seq(Request) /\ requests \cup Range(run.sent) \subseteq more
        /\ requests \cup Range(TickRequests(before)) \subseteq more
    <3>1. \A s, t \in Seq(Request) : /\ s \o t \in Seq(Request)
                                    /\ Range(s) \subseteq Range(s \o t)
                                    /\ Range(t) \subseteq Range(s \o t)
      BY RangeOfJoin
    <3> QED
      BY <2>2, <2>6, <3>1
  <2>8. Awaits(updated, more, replies)
    <3>1. Awaits(d, more, replies)
      <4> HIDE DEF more
      <4> QED
        BY <2>7, AwaitsMore
    <3>2. ListAwaits(key, before, requests \cup Range(run.sent), replies)
      BY <1>2 DEF Awaits
    <3>3. ListAwaits(key, after, (requests \cup Range(run.sent)) \cup Range(TickRequests(before)), replies)
      BY <2>1, <3>2, TickListFor
    <3>4. (requests \cup Range(run.sent)) \cup Range(TickRequests(before)) \subseteq more
      BY <2>7
    <3> HIDE DEF after, more
    <3>5. ListAwaits(key, after, more, replies)
      BY <3>3, <3>4, AwaitsMore
    <3>6. \A k \in DOMAIN d.lists \ {key} : ListAwaits(k, d.lists[k], more, replies)
      BY <3>1 DEF Awaits
    <3> QED
      BY <3>5, <3>6, PutAwaits
  <2>9. /\ GoodData(r.data) /\ r.data.status = updated.status
        /\ \A k \in DOMAIN r.data.lists :
             \/ k \in DOMAIN updated.lists /\ r.data.lists[k] = updated.lists[k]
             \/ key[1] = "CUELIST" /\ k[1] = "CUE" /\ Idle(r.data.lists[k])
    <3>1. CASE ~before.complete /\ after.complete
      <4>1. updated.status.dirty
        BY <2>1, <2>3, <3>1, TickListCompletes DEF ListFor
      <4>2. r.data = OnTargetListInitialSyncComplete(updated, key)
        BY <2>6, <3>1
      <4> HIDE DEF updated, r
      <4> QED
        BY <2>3, <2>4, <2>5, <4>1, <4>2, SyncCompleteGood
    <3>2. CASE ~(~before.complete /\ after.complete)
      <4>1. r.data = updated
        BY <2>6, <3>2
      <4> HIDE DEF updated, r
      <4> QED
        BY <2>3, <4>1
    <3> QED
      BY <3>1, <3>2
  <2> HIDE DEF r, updated, more, after
  <2>10. Awaits(r.data, more, replies)
    <3> SUFFICES ASSUME NEW k \in DOMAIN r.data.lists
                 PROVE  ListAwaits(k, r.data.lists[k], more, replies)
      BY DEF Awaits
    <3>1. CASE k \in DOMAIN updated.lists /\ r.data.lists[k] = updated.lists[k]
      BY <2>8, <3>1 DEF Awaits
    <3>2. CASE Idle(r.data.lists[k])
      BY <3>2, ListAwaitsFacts DEF Idle
    <3> QED
      BY <2>9, <3>1, <3>2
  <2>11. r.allComplete /\ key \in DOMAIN r.data.lists => r.data.lists[key].status.value = "COMPLETE"
    BY <2>5, <2>6, <2>9
  <2> QED
    BY <2>4, <2>5, <2>6, <2>7, <2>9, <2>10, <2>11 DEF r, more
<1> QED
  BY <1>1, <1>2

\* run[i] is what TickRunning has made of d after i keys.
TicksFirst(run, d, n) ==
  run = [i \in 0..n |->
           IF i = 0 THEN [data |-> d, sent |-> <<>>, allComplete |-> TRUE]
           ELSE TickOneList(run[i - 1], KeySequence[i])]

(***************************************************************************)
(* The recursion of TickRunning defines a function.                        *)
(***************************************************************************)
LEMMA TickRunningIsFold ==
  ASSUME NEW d
  PROVE  \E run : /\ TicksFirst(run, d, Len(KeySequence))
                  /\ TickRunning(d) = AfterTheLists(run[Len(KeySequence)])
<1> DEFINE N == Len(KeySequence)
           start == [data |-> d, sent |-> <<>>, allComplete |-> TRUE]
           T == {n \in 0..N : \E run : TicksFirst(run, d, n)}
<1>1. N \in Nat
  BY KeySequenceFacts
<1>2. 0 \in T
  <2> DEFINE run == [i \in 0..0 |-> start]
  <2>1. run = [i \in 0..0 |-> IF i = 0 THEN start ELSE TickOneList(run[i - 1], KeySequence[i])]
    OBVIOUS
  <2>2. TicksFirst(run, d, 0)
    BY <2>1 DEF TicksFirst
  <2>3. 0 \in 0..N
    BY <1>1
  <2> HIDE DEF run, N
  <2> QED
    BY <2>2, <2>3
<1>3. \A n \in 1..N : n - 1 \in T => n \in T
  <2> SUFFICES ASSUME NEW n \in 1..N, n - 1 \in T PROVE n \in T
    OBVIOUS
  <2>1. PICK run : TicksFirst(run, d, n - 1)
    OBVIOUS
  <2> DEFINE next == [i \in 0..n |-> IF i = 0 THEN start ELSE TickOneList(run[i - 1], KeySequence[i])]
  <2>2. n \in 0..N /\ n \in Nat
    BY <1>1
  <2>3. ASSUME NEW i \in 0..n
        PROVE  next[i] = IF i = 0 THEN start ELSE TickOneList(next[i - 1], KeySequence[i])
    <3>1. CASE i = 0
      BY <3>1
    <3>2. CASE i # 0
      <4>1. i - 1 \in 0..(n - 1) /\ i - 1 \in 0..n
        BY <2>2, <3>2
      <4>2. run[i - 1] = IF i - 1 = 0 THEN start ELSE TickOneList(run[(i - 1) - 1], KeySequence[i - 1])
        BY <2>1, <4>1 DEF TicksFirst
      <4>3. next[i - 1] = run[i - 1]
        BY <4>1, <4>2
      <4> QED
        BY <3>2, <4>3
    <3> QED
      BY <3>1, <3>2
  <2>4. next = [i \in 0..n |-> next[i]]
    OBVIOUS
  <2>5. TicksFirst(next, d, n)
    <3> HIDE DEF next
    <3> QED
      BY <2>3, <2>4 DEF TicksFirst
  <2> HIDE DEF next, N
  <2> QED
    BY <2>2, <2>5
<1>4. N \in T
  <2>1. N \in 0..N
    BY <1>1
  <2> HIDE DEF T, N
  <2>2. \A i \in 0..N : i \in T
    BY <1>1, <1>2, <1>3, Induction
  <2> QED
    BY <2>1, <2>2
<1>5. PICK run : TicksFirst(run, d, N)
  BY <1>4
<1>6. PICK last : /\ last = (CHOOSE f : TicksFirst(f, d, N))
                  /\ TicksFirst(last, d, N)
  BY <1>5
<1>7. TickRunning(d) = AfterTheLists(last[N])
  BY <1>6, Zenon DEF TickRunning, TicksFirst
<1> QED
  BY <1>6, <1>7

(***************************************************************************)
(* TickRunning keeps the mirror good, requests whatever the lists wait for *)
(* from then on, and makes the mirror dirty if it completes it.  It        *)
(* completes it only if every list is: the lists of cues that the list of  *)
(* cue lists makes come after it in the order of the map.                  *)
(***************************************************************************)
LEMMA TickRunningGood ==
  ASSUME NEW d, GoodData(d), d.status.value = "RUNNING", NEW requests, NEW replies,
         Awaits(d, requests, replies)
  PROVE  LET r == TickRunning(d)
         IN  /\ GoodData(r.data) /\ DataStep(d, r.data) /\ r.data.status.value # "UNINITIALIZED"
             /\ r.sent \in Seq(Request)
             /\ Awaits(r.data, requests \cup Range(r.sent), replies)
<1> DEFINE N == Len(KeySequence)
           key(i) == KeySequence[i]
<1>1. PICK run : TicksFirst(run, d, N) /\ TickRunning(d) = AfterTheLists(run[N])
  BY TickRunningIsFold
<1>2. N \in Nat /\ \A i \in 1..N : key(i) \in MirrorKey
  BY KeySequenceFacts
<1>3. run[0] = [data |-> d, sent |-> <<>>, allComplete |-> TRUE]
      /\ \A i \in 1..N : run[i] = TickOneList(run[i - 1], key(i))
  <2>1. 0 \in 0..N /\ \A i \in 1..N : i \in 0..N /\ i # 0
    BY <1>2
  <2> HIDE DEF N
  <2> QED
    BY <1>1, <2>1 DEF TicksFirst
<1> DEFINE Good(i) ==
             /\ GoodData(run[i].data) /\ run[i].data.status.value = "RUNNING"
             /\ run[i].sent \in Seq(Request)
             /\ Awaits(run[i].data, requests \cup Range(run[i].sent), replies)
             /\ run[i].allComplete => \A j \in 1..i :
                  key(j) \in DOMAIN run[i].data.lists =>
                    run[i].data.lists[key(j)].status.value = "COMPLETE"
           T == {i \in 0..N : Good(i)}
<1>4. 0 \in T
  <2>1. run[0].data = d /\ run[0].sent = <<>> /\ <<>> \in Seq(Request)
    BY <1>3
  <2>2. Awaits(d, requests \cup Range(<<>>), replies)
    BY AwaitsMore
  <2>3. 0 \in 0..N /\ \A j \in 1..0 : FALSE
    BY <1>2
  <2>4. Good(0)
    BY <2>1, <2>2, <2>3
  <2> HIDE DEF Good, N
  <2> QED
    BY <2>3, <2>4
<1>5. \A i \in 1..N : i - 1 \in T => i \in T
  <2> SUFFICES ASSUME NEW i \in 1..N, i - 1 \in T PROVE i \in T
    OBVIOUS
  <2>1. PICK a : a = run[i - 1]
    OBVIOUS
  <2>2. PICK b : b = run[i]
    OBVIOUS
  <2>3. b = TickOneList(a, key(i)) /\ Good(i - 1) /\ i \in 0..N /\ i \in Nat
    BY <1>2, <1>3, <2>1, <2>2, SMTT(30)
  <2>4. /\ GoodData(b.data) /\ b.data.status.value = "RUNNING"
        /\ b.sent \in Seq(Request)
        /\ Awaits(b.data, requests \cup Range(b.sent), replies)
        /\ b.allComplete => a.allComplete
        /\ b.allComplete /\ key(i) \in DOMAIN b.data.lists =>
             b.data.lists[key(i)].status.value = "COMPLETE"
        /\ \A k \in DOMAIN b.data.lists :
             \/ k = key(i)
             \/ k \in DOMAIN a.data.lists /\ b.data.lists[k] = a.data.lists[k]
             \/ key(i)[1] = "CUELIST" /\ k[1] = "CUE"
    <3>1. /\ GoodData(a.data) /\ a.data.status.value = "RUNNING"
          /\ a.sent \in Seq(Request)
          /\ Awaits(a.data, requests \cup Range(a.sent), replies)
      BY <2>1, <2>3
    <3>2. key(i) \in MirrorKey
      BY <1>2
    <3>3. PICK k \in MirrorKey : k = key(i)
      BY <3>2
    <3> DEFINE c == TickOneList(a, k)
    <3>4. /\ GoodData(c.data) /\ c.data.status.value = "RUNNING"
          /\ c.sent \in Seq(Request)
          /\ Awaits(c.data, requests \cup Range(c.sent), replies)
          /\ c.allComplete => a.allComplete
          /\ c.allComplete /\ k \in DOMAIN c.data.lists =>
               c.data.lists[k].status.value = "COMPLETE"
          /\ \A x \in DOMAIN c.data.lists :
               \/ x = k
               \/ x \in DOMAIN a.data.lists /\ c.data.lists[x] = a.data.lists[x]
               \/ k[1] = "CUELIST" /\ x[1] = "CUE"
      BY <3>1, TickOneListGood
    <3> HIDE DEF Good, T
    <3>5. b = c
      BY <2>3, <3>3
    <3> HIDE DEF c
    <3> QED
      BY <3>3, <3>4, <3>5
  <2>5. ASSUME b.allComplete, NEW j \in 1..i, key(j) \in DOMAIN b.data.lists
        PROVE  b.data.lists[key(j)].status.value = "COMPLETE"
    <3>1. CASE key(j) = key(i)
      BY <2>4, <2>5, <3>1
    <3>2. CASE key(j) # key(i)
      <4>1. j \in 1..(i - 1) /\ j \in 1..N /\ j < i
        BY <1>2, <3>2
      <4>2. KeyPrecedes(key(j), key(i))
        BY <4>1, KeySequenceFacts
      <4>3. ~(key(i)[1] = "CUELIST" /\ key(j)[1] = "CUE")
        <5>1. \A type \in TargetType : Rank(type) \in Int
          BY RankFacts
        <5>2. "CUE" \in TargetType /\ "CUELIST" \in TargetType
          BY DEF TargetType
        <5> QED
          BY <4>2, <5>1, <5>2, RankFacts DEF KeyPrecedes
      <4>4. key(j) \in DOMAIN a.data.lists /\ b.data.lists[key(j)] = a.data.lists[key(j)]
        BY <2>4, <2>5, <3>2, <4>3
      <4>5. a.allComplete
        BY <2>4, <2>5
      <4> QED
        BY <2>1, <2>3, <4>1, <4>4, <4>5
    <3> QED
      BY <3>1, <3>2
  <2>6. Good(i)
    BY <2>2, <2>4, <2>5
  <2> HIDE DEF Good
  <2> QED
    BY <2>3, <2>6
<1>6. Good(N)
  <2>1. N \in 0..N
    BY <1>2
  <2> HIDE DEF T, N
  <2>2. \A i \in 0..N : i \in T
    BY <1>2, <1>4, <1>5, Induction
  <2>3. N \in T
    BY <2>1, <2>2
  <2> QED
    BY <2>3 DEF T
<1>7. PICK last : last = run[N]
  OBVIOUS
<1> DEFINE e == last.data
           r == TickRunning(d)
<1>8. /\ GoodData(e) /\ e.status.value = "RUNNING"
      /\ last.sent \in Seq(Request) /\ Awaits(e, requests \cup Range(last.sent), replies)
  BY <1>6, <1>7
<1>9. r.sent = last.sent /\ r.data = IF last.allComplete
                                     THEN [e EXCEPT !.status = SetValue(@, "COMPLETE")] ELSE e
  BY <1>1, <1>7 DEF AfterTheLists
<1>10. CASE ~last.allComplete
  <2>1. r.data = e
    BY <1>9, <1>10
  <2> HIDE DEF r, e
  <2> QED
    BY <1>8, <1>9, <2>1 DEF DataStep, r
<1>11. CASE last.allComplete
  <2>1. \A k \in DOMAIN e.lists : e.lists[k].status.value = "COMPLETE"
    <3> SUFFICES ASSUME NEW k \in DOMAIN e.lists PROVE e.lists[k].status.value = "COMPLETE"
      OBVIOUS
    <3>1. PICK i \in 1..N : key(i) = k
      BY <1>8, KeySequenceFacts DEF GoodData, DataType
    <3> QED
      BY <1>6, <1>7, <1>11, <3>1
  <2> DEFINE s == SetValue(e.status, "COMPLETE")
  <2>2. r.data = [status |-> s, lists |-> e.lists, cueMap |-> e.cueMap]
    BY <1>8, <1>9, <1>11, DataUpdate DEF GoodData, DataType
  <2>3. s \in SyncStatus /\ s.value = "COMPLETE" /\ s.dirty
    <3>1. e.status \in SyncStatus /\ "COMPLETE" \in SyncStatusValue
      BY <1>8, DataFields DEF SyncStatusValue
    <3> QED
      BY <1>8, <3>1, StatusType, SetValueFacts
  <2> HIDE DEF s, e, r
  <2>4. r.data.status = s /\ r.data.lists = e.lists /\ r.data.cueMap = e.cueMap
        /\ r.data = [status |-> r.data.status, lists |-> r.data.lists, cueMap |-> r.data.cueMap]
    BY <2>2
  <2>5. DataType(r.data)
    BY <1>8, <2>3, <2>4 DEF GoodData, DataType
  <2>6. ListsGood(r.data) /\ DummyComplete(r.data)
    BY <1>8, <2>4 DEF GoodData, ListsGood, DummyComplete
  <2>7. StatusGood(r.data)
    BY <2>1, <2>3, <2>4 DEF StatusGood
  <2>8. Awaits(r.data, requests \cup Range(r.sent), replies)
    BY <1>8, <1>9, <2>4 DEF Awaits
  <2>9. DataStep(d, r.data)
    BY <2>3, <2>4 DEF DataStep
  <2> QED
    BY <1>8, <1>9, <2>3, <2>4, <2>5, <2>6, <2>7, <2>8, <2>9 DEF GoodData, r
<1> QED
  BY <1>10, <1>11

----------------------------------------------------------------------------
(* Recv. *)

(***************************************************************************)
(* A packet from the console is of one of four kinds.                      *)
(***************************************************************************)
LEMMA CommandCases ==
  ASSUME NEW cmd \in Command
  PROVE  /\ cmd.kind \in {"count", "target", "notify", "show"}
         /\ cmd.kind \in {"count", "target", "notify"} =>
              /\ Route(cmd) = <<cmd.type, cmd.listId>> /\ Route(cmd) \in MirrorKey
              /\ Route(cmd)[1] = cmd.type /\ Route(cmd)[2] = cmd.listId
         /\ cmd.kind = "count" => \E c \in Nat : cmd.args = <<c>>
         /\ cmd.kind = "target" => cmd.pathData \in Path(cmd.type) /\ cmd.args \in Seq(Val)
         /\ cmd.kind = "notify" => cmd.nums \in SUBSET (Num \ {0}) /\ cmd.hasArgs \in BOOLEAN
<1>1. ASSUME cmd.kind \in {"count", "target", "notify"}, <<cmd.type, cmd.listId>> \in MirrorKey
      PROVE  /\ Route(cmd) = <<cmd.type, cmd.listId>> /\ Route(cmd) \in MirrorKey
             /\ Route(cmd)[1] = cmd.type /\ Route(cmd)[2] = cmd.listId
  <2>1. PICK key \in MirrorKey : key = <<cmd.type, cmd.listId>>
    BY <1>1
  <2>2. key[1] = cmd.type /\ key[2] = cmd.listId
    BY <2>1
  <2>3. cmd.type # "CUE" => cmd.listId = 0
    BY <2>2, MirrorKeyFacts
  <2> QED
    BY <2>1, <2>2, <2>3 DEF Route
<1>2. CASE cmd \in CountReply
  <2>1. cmd.kind = "count" /\ <<cmd.type, cmd.listId>> \in MirrorKey /\ \E c \in Nat : cmd.args = <<c>>
    BY <1>2 DEF CountReply, Keyed
  <2> QED
    BY <1>1, <2>1
<1>3. CASE cmd \in TargetData
  <2>1. cmd.kind = "target" /\ <<cmd.type, cmd.listId>> \in MirrorKey
        /\ cmd.pathData \in Path(cmd.type) /\ cmd.args \in Seq(Val)
    BY <1>3 DEF TargetData, Keyed
  <2> QED
    BY <1>1, <2>1
<1>4. CASE cmd \in Notice
  <2>1. cmd.kind = "notify" /\ <<cmd.type, cmd.listId>> \in MirrorKey
        /\ cmd.nums \in SUBSET (Num \ {0}) /\ cmd.hasArgs \in BOOLEAN
    BY <1>4 DEF Notice, Keyed
  <2> QED
    BY <1>1, <2>1
<1>5. CASE cmd \in Event
  BY <1>5 DEF Event
<1> QED
  BY <1>2, <1>3, <1>4, <1>5 DEF Command

(***************************************************************************)
(* A packet about another list is no answer to what this one waits for,    *)
(* and a notification answers nothing.                                     *)
(***************************************************************************)
LEMMA AwaitsOther ==
  ASSUME NEW cmd, NEW key, NEW l, NEW requests, NEW replies,
         ListAwaits(key, l, requests, replies \cup {cmd}),
         cmd.kind \in {"count", "target"} => ~(cmd.type = key[1] /\ cmd.listId = key[2])
  PROVE  ListAwaits(key, l, requests, replies)
BY DEF ListAwaits, CountAwaited, TargetAwaited, About

(***************************************************************************)
(* A mirror without lists is good, and this is what Clear makes of it.     *)
(***************************************************************************)
LEMMA ClearDataGood ==
  ASSUME NEW d, d.status \in SyncStatus
  PROVE  LET e == ClearData(d)
         IN  /\ GoodData(e) /\ DataStep(d, e) /\ DOMAIN e.lists = {}
             /\ \A requests, replies : Awaits(e, requests, replies)
<1> DEFINE e == ClearData(d)
<1>1. /\ e = [status |-> e.status, lists |-> e.lists, cueMap |-> e.cueMap]
      /\ e.status = SetValue(d.status, "UNINITIALIZED")
      /\ e.lists = [key \in DOMAIN e.lists |-> e.lists[key]] /\ DOMAIN e.lists = {}
      /\ e.cueMap = FALSE
  BY DEF ClearData, NoLists
<1> HIDE DEF e
<1>2. e.status \in SyncStatus /\ e.status.value = "UNINITIALIZED"
  <2>1. "UNINITIALIZED" \in SyncStatusValue
    BY DEF SyncStatusValue
  <2> QED
    BY <1>1, <2>1, StatusType, SetValueFacts
<1>3. GoodData(e)
  BY <1>1, <1>2 DEF GoodData, DataType, ListsGood, DummyComplete, StatusGood
<1>4. DataStep(d, e) /\ \A requests, replies : Awaits(e, requests, replies)
  BY <1>1, <1>2 DEF DataStep, Awaits
<1> QED
  BY <1>1, <1>3, <1>4 DEF e

(***************************************************************************)
(* Lists of cues that lose their cue list take nothing along.              *)
(***************************************************************************)
LEMMA RemoveOrphanedCuesGood ==
  ASSUME NEW d, GoodData(d), NEW requests, NEW replies, Awaits(d, requests, replies)
  PROVE  LET e == RemoveOrphanedCues(d)
         IN  GoodData(e) /\ e.status = d.status /\ Awaits(e, requests, replies)
<1> DEFINE e == RemoveOrphanedCues(d)
<1>1. PICK S : S \subseteq DOMAIN d.lists
               /\ e = [d EXCEPT !.lists = [k \in S |-> d.lists[k]]]
  BY DEF RemoveOrphanedCues
<1>2. e = [status |-> d.status, lists |-> [k \in S |-> d.lists[k]], cueMap |-> d.cueMap]
  BY <1>1, DataUpdate DEF GoodData, DataType
<1> HIDE DEF e
<1>3. /\ e = [status |-> e.status, lists |-> e.lists, cueMap |-> e.cueMap]
      /\ e.status = d.status /\ e.cueMap = d.cueMap
      /\ e.lists = [k \in DOMAIN e.lists |-> e.lists[k]] /\ DOMAIN e.lists = S
      /\ \A k \in S : k \in DOMAIN d.lists /\ e.lists[k] = d.lists[k]
  BY <1>1, <1>2
<1>4. DataType(e)
  BY <1>3 DEF GoodData, DataType
<1>5. ListsGood(e) /\ DummyComplete(e)
  BY <1>3 DEF GoodData, ListsGood, DummyComplete
<1>6. StatusGood(e)
  BY <1>3 DEF GoodData, StatusGood
<1>7. Awaits(e, requests, replies)
  BY <1>3 DEF Awaits
<1> QED
  BY <1>3, <1>4, <1>5, <1>6, <1>7 DEF GoodData, e

(***************************************************************************)
(* A reply that is ignored was awaited by no list.                         *)
(***************************************************************************)
LEMMA IgnoredReply ==
  ASSUME NEW d, GoodData(d), NEW cmd \in Command, cmd.kind \in {"count", "target"},
         NEW requests, NEW replies, Awaits(d, requests, replies \cup {cmd}),
         \/ d.status.value # "RUNNING" \/ Route(cmd) \notin DOMAIN d.lists \/ Route(cmd) = DummyKey
  PROVE  Awaits(d, requests, replies)
<1> SUFFICES ASSUME NEW key \in DOMAIN d.lists PROVE ListAwaits(key, d.lists[key], requests, replies)
  BY DEF Awaits
<1>1. key = <<key[1], key[2]>> /\ GoodList(d.lists[key])
  BY DataFields, MirrorKeyFacts
<1>2. ListAwaits(key, d.lists[key], requests, replies \cup {cmd})
  BY DEF Awaits
<1>3. CASE key # Route(cmd)
  <2>1. ~(cmd.type = key[1] /\ cmd.listId = key[2])
    BY <1>1, <1>3, CommandCases
  <2> QED
    BY <1>2, <2>1, AwaitsOther
<1>4. CASE key = Route(cmd)
  <2>1. d.lists[key].status.value = "COMPLETE"
    BY <1>4, DataFields DEF GoodData, StatusGood, DummyComplete, SyncStatusValue
  <2>2. Idle(d.lists[key])
    BY <1>1, <2>1, IdleLists
  <2> QED
    BY <2>2, ListAwaitsFacts DEF Idle
<1> QED
  BY <1>3, <1>4

(***************************************************************************)
(* A count reply leaves a list that may be kept under its key.             *)
(***************************************************************************)
LEMMA RecvCountFor ==
  ASSUME NEW key \in MirrorKey, NEW l, ListFor(key, l), NEW c \in Nat, NEW cmd,
         cmd.kind = "count", NEW requests, NEW replies,
         ListAwaits(key, l, requests, replies \cup {cmd})
  PROVE  /\ ListFor(key, RecvCount(l, <<c>>))
         /\ ListAwaits(key, RecvCount(l, <<c>>), requests, replies)
         /\ IndexRequests(l, <<c>>) \in Seq(Request)
<1> DEFINE m == RecvCount(l, <<c>>)
<1>1. GoodList(l) /\ l.type = key[1] /\ l.listId = key[2] /\ \A n \in Num : n = 0 => l.entry[n] = "absent"
  BY DEF ListFor
<1>2. GoodList(m) /\ m.type = l.type /\ m.listId = l.listId
  BY <1>1, RecvCountGood
<1>3. m.internal # "RUNNING" /\ Waiting(m) = Waiting(l) /\ NoNewEntry(l, m, {})
  BY <1>1, RecvCountWaits
<1> HIDE DEF m
<1>4. ListFor(key, m)
  BY <1>1, <1>2, <1>3 DEF ListFor, NoNewEntry
<1>5. ASSUME NEW n \in Waiting(m) PROVE TargetAwaited(key, n, requests, replies)
  <2>1. TargetAwaited(key, n, requests, replies \cup {cmd})
    BY <1>3, ListAwaitsFacts
  <2> QED
    BY <2>1 DEF TargetAwaited, About
<1>6. ListAwaits(key, m, requests, replies)
  BY <1>3, <1>5, ListAwaitsFacts
<1>7. IndexRequests(l, <<c>>) \in Seq(Request)
  <2>1. CASE AwaitsCount(l, <<c>>)
    <3>1. ReceivedCount(<<c>>) = c
      BY DEF ReceivedCount
    <3>2. IndexRequests(l, <<c>>) = [i \in 1..c |-> IndexRequest(l, i - 1)]
      BY <2>1, <3>1 DEF IndexRequests
    <3>3. \A i \in 1..c : IndexRequest(l, i - 1) \in Request
      BY ListRequests
    <3> QED
      BY <3>2, <3>3
  <2>2. CASE ~AwaitsCount(l, <<c>>)
    <3>1. IndexRequests(l, <<c>>) = <<>>
      BY <2>2 DEF IndexRequests
    <3> QED
      BY <3>1
  <2> QED
    BY <2>1, <2>2
<1> QED
  BY <1>4, <1>6, <1>7 DEF m

(***************************************************************************)
(* So does target data.                                                    *)
(***************************************************************************)
LEMMA RecvTargetFor ==
  ASSUME NEW key \in MirrorKey, NEW l, ListFor(key, l), NEW cmd, cmd.kind = "target",
         cmd.args \in Seq(Val), cmd.pathData \in Path(key[1]), NEW requests, NEW replies,
         ListAwaits(key, l, requests, replies \cup {cmd})
  PROVE  /\ ListFor(key, RecvTarget(l, cmd.args, cmd.pathData))
         /\ ListAwaits(key, RecvTarget(l, cmd.args, cmd.pathData), requests, replies)
<1> DEFINE p == cmd.pathData
           m == RecvTarget(l, cmd.args, p)
<1>1. GoodList(l) /\ l.type = key[1] /\ l.listId = key[2] /\ \A n \in Num : n = 0 => l.entry[n] = "absent"
  BY DEF ListFor
<1>2. /\ p.isList = FALSE /\ p.num \in Num /\ p.num # 0 /\ p.num >= 1 /\ p.part \in Part
      /\ <<p.num, p.part>> \in Key /\ ValidPart(l.type, p.part)
  <2> HIDE DEF p
  <2>1. p \in Path(key[1])
    BY DEF p
  <2>2. p.isList = FALSE /\ p.num \in Num /\ p.num # 0 /\ p.part \in Part /\ ValidPart(key[1], p.part)
    BY <2>1 DEF Path
  <2>3. p.num >= 1
    <3>1. \A n \in Num : n \in Nat
      BY NumAssumption
    <3>2. \A n \in Nat : n # 0 => n >= 1
      OBVIOUS
    <3> QED
      BY <2>2, <3>1, <3>2, Zenon
  <2> QED
    BY <1>1, <2>2, <2>3 DEF Key
<1>3. GoodList(m) /\ m.type = l.type /\ m.listId = l.listId
  <2> HIDE DEF p
  <2> QED
    BY <1>1, <1>2, RecvTargetGood DEF p
<1>4. m.internal = l.internal /\ Waiting(m) \subseteq Waiting(l) \ {p.num} /\ NoNewEntry(l, m, {p.num})
  BY <1>1, <1>2, RecvTargetWaits
<1> HIDE DEF m
<1>5. ListFor(key, m)
  BY <1>1, <1>2, <1>3, <1>4 DEF ListFor, NoNewEntry
<1>6. ASSUME NEW n \in Waiting(m) PROVE TargetAwaited(key, n, requests, replies)
  <2>1. TargetAwaited(key, n, requests, replies \cup {cmd}) /\ p.num # n
    BY <1>4, ListAwaitsFacts
  <2> QED
    BY <2>1 DEF TargetAwaited, About
<1>7. ASSUME m.internal = "RUNNING" PROVE CountAwaited(key, requests, replies)
  <2>1. CountAwaited(key, requests, replies \cup {cmd})
    BY <1>4, <1>7, ListAwaitsFacts
  <2> QED
    BY <2>1 DEF CountAwaited, About
<1>8. ListAwaits(key, m, requests, replies)
  BY <1>6, <1>7, ListAwaitsFacts
<1> QED
  BY <1>5, <1>8 DEF m

(***************************************************************************)
(* A reply keeps the mirror good, and what is waited for afterwards is     *)
(* still to come.                                                          *)
(***************************************************************************)
LEMMA RecvReplyGood ==
  ASSUME NEW d, GoodData(d), NEW cmd \in Command, cmd.kind \in {"count", "target"},
         NEW requests, NEW replies, Awaits(d, requests, replies \cup {cmd})
  PROVE  LET r == RecvReply(d, cmd)
         IN  /\ GoodData(r.data) /\ DataStep(d, r.data) /\ r.sent \in Seq(Request)
             /\ Awaits(r.data, requests \cup Range(r.sent), replies)
<1> DEFINE r == RecvReply(d, cmd)
           key == Route(cmd)
           l == d.lists[key]
           after == IF cmd.kind = "count" THEN RecvCount(l, cmd.args)
                    ELSE RecvTarget(l, cmd.args, cmd.pathData)
           updated == Put(d, key, after)
<1>1. CASE d.status.value # "RUNNING" \/ key \notin DOMAIN d.lists \/ key = DummyKey
  <2>1. r = [data |-> d, sent |-> <<>>]
    BY <1>1 DEF RecvReply, DummyKey
  <2>2. Awaits(d, requests, replies)
    BY <1>1, IgnoredReply
  <2>3. Awaits(d, requests \cup Range(<<>>), replies)
    BY <2>2, AwaitsMore
  <2>4. <<>> \in Seq(Request) /\ r.data = d /\ r.sent = <<>> /\ DataStep(d, d)
    BY <2>1 DEF DataStep
  <2> HIDE DEF r
  <2> QED
    BY <2>3, <2>4 DEF r
<1>2. CASE d.status.value = "RUNNING" /\ key \in DOMAIN d.lists /\ key # DummyKey
  <2>1. key \in MirrorKey /\ ListFor(key, l) /\ ListAwaits(key, l, requests, replies \cup {cmd})
        /\ key[1] = cmd.type /\ key[2] = cmd.listId
    BY <1>2, CommandCases DEF GoodData, ListsGood, Awaits
  <2>2. /\ ListFor(key, after) /\ ListAwaits(key, after, requests, replies)
        /\ r.sent \in Seq(Request)
    <3>1. r.sent = IF cmd.kind = "count" THEN IndexRequests(l, cmd.args) ELSE <<>>
      BY <1>2 DEF RecvReply, DummyKey
    <3>2. CASE cmd.kind = "count"
      <4>1. PICK c \in Nat : cmd.args = <<c>>
        BY <3>2, CommandCases
      <4>2. after = RecvCount(l, <<c>>) /\ r.sent = IndexRequests(l, <<c>>)
        BY <3>1, <3>2, <4>1
      <4> HIDE DEF after, l, key, r
      <4> QED
        BY <2>1, <3>2, <4>2, RecvCountFor
    <3>3. CASE cmd.kind = "target"
      <4>1. cmd.pathData \in Path(key[1]) /\ cmd.args \in Seq(Val)
        BY <2>1, <3>3, CommandCases
      <4>2. after = RecvTarget(l, cmd.args, cmd.pathData) /\ r.sent = <<>>
        BY <3>1, <3>3
      <4>3. <<>> \in Seq(Request)
        OBVIOUS
      <4> HIDE DEF after, l, key, r
      <4> QED
        BY <2>1, <3>3, <4>1, <4>2, <4>3, RecvTargetFor
    <3> QED
      BY <3>2, <3>3
  <2>3. GoodData(updated) /\ DataStep(d, updated)
    <3> HIDE DEF after, l
    <3> QED
      BY <1>2, <2>1, <2>2, PutGood
  <2> DEFINE more == requests \cup Range(r.sent)
  <2>4. requests \subseteq more /\ replies \subseteq replies
    OBVIOUS
  <2>5. Awaits(updated, more, replies)
    <3> HIDE DEF after, more, key
    <3>1. \A k \in DOMAIN d.lists \ {key} : ListAwaits(k, d.lists[k], more, replies)
      <4> SUFFICES ASSUME NEW k \in DOMAIN d.lists \ {key} PROVE ListAwaits(k, d.lists[k], more, replies)
        OBVIOUS
      <4>1. k = <<k[1], k[2]>> /\ key = <<cmd.type, cmd.listId>>
        BY DataFields, MirrorKeyFacts, CommandCases DEF key
      <4>2. ~(cmd.type = k[1] /\ cmd.listId = k[2])
        BY <4>1
      <4>3. ListAwaits(k, d.lists[k], requests, replies \cup {cmd})
        BY DEF Awaits
      <4>4. ListAwaits(k, d.lists[k], requests, replies)
        BY <4>2, <4>3, AwaitsOther
      <4> QED
        BY <2>4, <4>4, AwaitsMore
    <3>2. ListAwaits(key, after, more, replies)
      BY <2>2, <2>4, AwaitsMore
    <3> QED
      BY <3>1, <3>2, PutAwaits
  <2>6. r.data = IF cmd.type = "CUELIST" THEN RemoveOrphanedCues(updated) ELSE updated
    <3>1. WithList(d, key, after) = updated
      BY <1>2, WithListPuts DEF GoodData
    <3> HIDE DEF updated
    <3> QED
      BY <1>2, <3>1 DEF RecvReply, DummyKey
  <2> HIDE DEF r, updated
  <2>7. GoodData(r.data) /\ r.data.status = updated.status /\ Awaits(r.data, more, replies)
    <3>1. CASE cmd.type = "CUELIST"
      <4>1. r.data = RemoveOrphanedCues(updated)
        BY <2>6, <3>1
      <4> HIDE DEF more
      <4> QED
        BY <2>3, <2>5, <4>1, RemoveOrphanedCuesGood
    <3>2. CASE cmd.type # "CUELIST"
      <4>1. r.data = updated
        BY <2>6, <3>2
      <4> QED
        BY <2>3, <2>5, <4>1
    <3> QED
      BY <3>1, <3>2
  <2>8. DataStep(d, r.data)
    BY <2>3, <2>7 DEF DataStep
  <2> QED
    BY <2>2, <2>7, <2>8 DEF r
<1> QED
  BY <1>1, <1>2

(***************************************************************************)
(* A notification keeps the mirror good and begins no wait, also for a cue *)
(* list that has to be made for it.                                        *)
(***************************************************************************)
LEMMA RecvNotifyGood ==
  ASSUME NEW d, GoodData(d), NEW cmd \in Command, cmd.kind = "notify",
         NEW requests, NEW replies, Awaits(d, requests, replies \cup {cmd})
  PROVE  LET e == RecvNotify(d, cmd)
         IN  GoodData(e) /\ DataStep(d, e) /\ Awaits(e, requests, replies)
<1> DEFINE e == RecvNotify(d, cmd)
           key == Route(cmd)
           creates == key[1] = "CUE" /\ key \notin DOMAIN d.lists /\ d.cueMap
           dummy == InitializeAsDummy(NewList("CUE", key[2]))
           base == IF creates THEN WithCueLists(d, [k \in {key} |-> dummy]) ELSE d
           after == NotifyList(base.lists[key], cmd.nums, cmd.hasArgs, FALSE)
<1>1. \A k \in DOMAIN d.lists : ListAwaits(k, d.lists[k], requests, replies)
  <2> SUFFICES ASSUME NEW k \in DOMAIN d.lists PROVE ListAwaits(k, d.lists[k], requests, replies)
    OBVIOUS
  <2>1. ListAwaits(k, d.lists[k], requests, replies \cup {cmd})
    BY DEF Awaits
  <2> QED
    BY <2>1, AwaitsOther
<1>2. key \in MirrorKey /\ key = <<key[1], key[2]>>
      /\ cmd.nums \in SUBSET Num /\ 0 \notin cmd.nums /\ cmd.hasArgs \in BOOLEAN
  BY CommandCases, MirrorKeyFacts
<1>3. CASE e = d
  <2>1. DataStep(d, d) /\ Awaits(d, requests, replies)
    BY <1>1 DEF DataStep, Awaits
  <2> HIDE DEF e
  <2> QED
    BY <1>3, <2>1 DEF e
<1>4. CASE d.status.value # "UNINITIALIZED" /\ key # DummyKey /\ (creates \/ key \in DOMAIN d.lists)
  <2>1. PICK l : /\ ListFor(key, l) /\ ListAwaits(key, l, requests, replies)
                 /\ base.lists[key] = l /\ key \in DOMAIN base.lists
                 /\ WithList(base, key, after) = Put(d, key, after)
    <3>1. CASE creates
      <4>1. /\ TypeGood(NewList("CUE", key[2])) /\ NewList("CUE", key[2]).type = "CUE"
            /\ NewList("CUE", key[2]).listId = key[2]
        BY NewListGood DEF GoodList
      <4>2. GoodList(dummy) /\ dummy.type = "CUE" /\ dummy.listId = key[2]
        BY <4>1, DummyGood
      <4>3. Idle(dummy) /\ \A n \in Num : dummy.entry[n] = "absent"
        BY IdleLists
      <4>4. ListFor(key, dummy) /\ ListAwaits(key, dummy, requests, replies)
        BY <3>1, <4>2, <4>3, ListAwaitsFacts DEF ListFor, Idle
      <4>5. base.lists[key] = dummy /\ key \in DOMAIN base.lists
        BY <3>1 DEF WithCueLists
      <4>6. WithList(base, key, after) = Put(d, key, after)
        <5> HIDE DEF after, dummy
        <5> QED
          BY <3>1, WithListPuts DEF GoodData
      <4> QED
        BY <4>4, <4>5, <4>6
    <3>2. CASE ~creates
      <4>1. key \in DOMAIN d.lists /\ base = d
        BY <1>4, <3>2
      <4>2. ListFor(key, d.lists[key]) /\ ListAwaits(key, d.lists[key], requests, replies)
        BY <1>1, <4>1 DEF GoodData, ListsGood
      <4>3. WithList(base, key, after) = Put(d, key, after)
        <5> HIDE DEF after
        <5> QED
          BY <4>1, WithListPuts DEF GoodData
      <4> QED
        BY <4>1, <4>2, <4>3
    <3> QED
      BY <3>1, <3>2
  <2>2. e = WithList(base, key, after)
    BY <1>4, <2>1 DEF RecvNotify, DummyKey
  <2>3. after = NotifyList(l, cmd.nums, cmd.hasArgs, FALSE)
    BY <2>1
  <2> HIDE DEF after, base, e
  <2>4. GoodList(l) /\ l.type = key[1] /\ l.listId = key[2] /\ \A n \in Num : n = 0 => l.entry[n] = "absent"
    BY <2>1 DEF ListFor
  <2>5. GoodList(after) /\ after.type = l.type /\ after.listId = l.listId
    BY <1>2, <2>3, <2>4, NotifyListGood
  <2>6. /\ after.internal = "RUNNING" => l.internal = "RUNNING"
        /\ Waiting(after) \subseteq Waiting(l)
        /\ NoNewEntry(l, after, cmd.nums)
    <3>1. PICK nums \in SUBSET Num : nums = cmd.nums
      BY <1>2
    <3> DEFINE m == NotifyList(l, nums, cmd.hasArgs, FALSE)
    <3>2. /\ m.internal = "RUNNING" => l.internal = "RUNNING"
          /\ Waiting(m) \subseteq Waiting(l)
          /\ NoNewEntry(l, m, nums)
      BY <2>4, NotifyListWaits
    <3>3. after = m
      BY <2>3, <3>1
    <3> HIDE DEF m
    <3> QED
      BY <3>1, <3>2, <3>3
  <2>7. ListFor(key, after)
    BY <1>2, <2>4, <2>5, <2>6 DEF ListFor, NoNewEntry
  <2>8. ListAwaits(key, after, requests, replies)
    BY <2>1, <2>6, ListAwaitsFacts
  <2>9. GoodData(e) /\ DataStep(d, e)
    BY <1>2, <1>4, <2>1, <2>2, <2>7, PutGood
  <2>10. Awaits(e, requests, replies)
    BY <1>1, <2>1, <2>2, <2>8, PutAwaits
  <2> QED
    BY <2>9, <2>10 DEF e
<1>5. CASE d.status.value = "UNINITIALIZED" \/ key = DummyKey \/ ~(creates \/ key \in DOMAIN d.lists)
  <2>1. ~(creates \/ key \in DOMAIN d.lists) => key \notin DOMAIN base.lists
    OBVIOUS
  <2>2. e = d
    BY <1>5, <2>1 DEF RecvNotify, DummyKey
  <2> QED
    BY <1>3, <2>2
<1> QED
  BY <1>4, <1>5

(***************************************************************************)
(* Each packet keeps the mirror good; what is waited for afterwards is     *)
(* requested or still to come.                                             *)
(***************************************************************************)
LEMMA RecvCmdGood ==
  ASSUME NEW d, GoodData(d), NEW cmd \in Command,
         NEW requests, NEW replies, Awaits(d, requests, replies \cup {cmd})
  PROVE  LET r == RecvCmd(d, cmd)
         IN  /\ GoodData(r.data) /\ DataStep(d, r.data) /\ r.sent \in Seq(Request)
             /\ Awaits(r.data, requests \cup Range(r.sent), replies)
<1> DEFINE r == RecvCmd(d, cmd)
<1>1. CASE cmd.kind \in {"count", "target"}
  <2>1. r = RecvReply(d, cmd)
    BY <1>1 DEF RecvCmd
  <2> HIDE DEF r
  <2> QED
    BY <1>1, <2>1, RecvReplyGood DEF r
<1>2. ASSUME NEW e, GoodData(e), DataStep(d, e), Awaits(e, requests, replies),
             NEW s, s = [data |-> e, sent |-> <<>>]
      PROVE  /\ GoodData(s.data) /\ DataStep(d, s.data) /\ s.sent \in Seq(Request)
             /\ Awaits(s.data, requests \cup Range(s.sent), replies)
  <2>1. Awaits(e, requests \cup Range(<<>>), replies)
    BY <1>2, AwaitsMore
  <2>2. s.data = e /\ s.sent = <<>> /\ <<>> \in Seq(Request)
    BY <1>2
  <2> QED
    BY <1>2, <2>1, <2>2
<1>3. CASE cmd.kind = "notify"
  <2>1. PICK e : e = RecvNotify(d, cmd)
    OBVIOUS
  <2>2. RecvCmd(d, cmd) = [data |-> e, sent |-> <<>>]
    BY <1>3, <2>1 DEF RecvCmd
  <2>3. GoodData(e) /\ DataStep(d, e) /\ Awaits(e, requests, replies)
    BY <1>3, <2>1, RecvNotifyGood
  <2> QED
    BY <1>2, <2>2, <2>3
<1>4. CASE cmd.kind = "show"
  <2>1. PICK e : e = RecvShowEvent(d)
    OBVIOUS
  <2>2. RecvCmd(d, cmd) = [data |-> e, sent |-> <<>>]
    BY <1>4, <2>1 DEF RecvCmd
  <2>3. CASE d.status.value = "UNINITIALIZED"
    <3>1. e = d /\ DataStep(d, d)
      BY <2>1, <2>3 DEF RecvShowEvent, DataStep
    <3>2. Awaits(d, requests, replies)
      BY <2>3 DEF Awaits, GoodData, StatusGood
    <3> QED
      BY <1>2, <2>2, <3>1, <3>2
  <2>4. CASE d.status.value # "UNINITIALIZED"
    <3>1. e = ClearData(d) /\ d.status \in SyncStatus
      BY <2>1, <2>4, DataFields DEF RecvShowEvent
    <3>2. GoodData(e) /\ DataStep(d, e) /\ Awaits(e, requests, replies)
      BY <3>1, ClearDataGood
    <3> QED
      BY <1>2, <2>2, <3>2
  <2> QED
    BY <2>3, <2>4
<1> QED
  BY <1>1, <1>3, <1>4, CommandCases

\* after[i] is what Recv has made of a run after i packets.
RecvsFirst(after, run, cmds, n) ==
  after = [i \in 0..n |-> IF i = 0 THEN run ELSE RecvOne(after[i - 1], cmds[i])]

(***************************************************************************)
(* The recursion of Recv defines a function.                               *)
(***************************************************************************)
LEMMA RecvIsFold ==
  ASSUME NEW run, NEW cmds \in Seq(Command)
  PROVE  \E after : RecvsFirst(after, run, cmds, Len(cmds)) /\ Recv(run, cmds) = after[Len(cmds)]
<1> DEFINE N == Len(cmds)
           T == {n \in 0..N : \E after : RecvsFirst(after, run, cmds, n)}
<1>1. N \in Nat
  OBVIOUS
<1>2. 0 \in T
  <2> DEFINE after == [i \in 0..0 |-> run]
  <2>1. after = [i \in 0..0 |-> IF i = 0 THEN run ELSE RecvOne(after[i - 1], cmds[i])]
    OBVIOUS
  <2>2. RecvsFirst(after, run, cmds, 0)
    BY <2>1 DEF RecvsFirst
  <2>3. 0 \in 0..N
    BY <1>1
  <2> HIDE DEF after, N
  <2> QED
    BY <2>2, <2>3
<1>3. \A n \in 1..N : n - 1 \in T => n \in T
  <2> SUFFICES ASSUME NEW n \in 1..N, n - 1 \in T PROVE n \in T
    OBVIOUS
  <2>1. PICK after : RecvsFirst(after, run, cmds, n - 1)
    OBVIOUS
  <2> DEFINE next == [i \in 0..n |-> IF i = 0 THEN run ELSE RecvOne(after[i - 1], cmds[i])]
  <2>2. n \in 0..N /\ n \in Nat
    BY <1>1
  <2>3. ASSUME NEW i \in 0..n
        PROVE  next[i] = IF i = 0 THEN run ELSE RecvOne(next[i - 1], cmds[i])
    <3>1. CASE i = 0
      BY <3>1
    <3>2. CASE i # 0
      <4>1. i - 1 \in 0..(n - 1) /\ i - 1 \in 0..n
        BY <2>2, <3>2
      <4>2. after[i - 1] = IF i - 1 = 0 THEN run ELSE RecvOne(after[(i - 1) - 1], cmds[i - 1])
        BY <2>1, <4>1 DEF RecvsFirst
      <4>3. next[i - 1] = after[i - 1]
        BY <4>1, <4>2
      <4> QED
        BY <3>2, <4>3
    <3> QED
      BY <3>1, <3>2
  <2>4. next = [i \in 0..n |-> next[i]]
    OBVIOUS
  <2>5. RecvsFirst(next, run, cmds, n)
    <3> HIDE DEF next
    <3> QED
      BY <2>3, <2>4 DEF RecvsFirst
  <2> HIDE DEF next, N
  <2> QED
    BY <2>2, <2>5
<1>4. N \in T
  <2>1. N \in 0..N
    BY <1>1
  <2> HIDE DEF T, N
  <2>2. \A i \in 0..N : i \in T
    BY <1>1, <1>2, <1>3, Induction
  <2> QED
    BY <2>1, <2>2
<1>5. PICK after : RecvsFirst(after, run, cmds, N)
  BY <1>4
<1>6. PICK last : /\ last = (CHOOSE f : RecvsFirst(f, run, cmds, N))
                  /\ RecvsFirst(last, run, cmds, N)
  BY <1>5
<1>7. Recv(run, cmds) = last[N]
  BY <1>6, Zenon DEF Recv, RecvsFirst
<1> QED
  BY <1>6, <1>7

(***************************************************************************)
(* The packets of one read keep the mirror good; what is waited for after  *)
(* the last is requested or not read yet.                                  *)
(***************************************************************************)
LEMMA RecvGood ==
  ASSUME NEW run, GoodData(run.data), run.sent \in Seq(Request), NEW cmds \in Seq(Command),
         NEW requests, NEW replies,
         Awaits(run.data, requests \cup Range(run.sent), replies \cup Range(cmds))
  PROVE  LET r == Recv(run, cmds)
         IN  /\ GoodData(r.data) /\ DataStep(run.data, r.data) /\ r.sent \in Seq(Request)
             /\ Awaits(r.data, requests \cup Range(r.sent), replies)
<1> DEFINE N == Len(cmds)
           Rest(i) == replies \cup {cmds[j] : j \in (i + 1)..N}
<1>1. PICK after : RecvsFirst(after, run, cmds, N) /\ Recv(run, cmds) = after[N]
  BY RecvIsFold
<1>2. N \in Nat /\ \A i \in 1..N : cmds[i] \in Command
  OBVIOUS
<1>3. after[0] = run /\ \A i \in 1..N : after[i] = RecvOne(after[i - 1], cmds[i])
  <2>1. 0 \in 0..N /\ \A i \in 1..N : i \in 0..N /\ i # 0
    BY <1>2
  <2> HIDE DEF N
  <2> QED
    BY <1>1, <2>1 DEF RecvsFirst
<1> DEFINE Good(i) == /\ GoodData(after[i].data) /\ DataStep(run.data, after[i].data)
                      /\ after[i].sent \in Seq(Request)
                      /\ Awaits(after[i].data, requests \cup Range(after[i].sent), Rest(i))
           T == {i \in 0..N : Good(i)}
<1>4. 0 \in T
  <2>1. Rest(0) = replies \cup Range(cmds)
    BY DEF Range
  <2>2. Good(0)
    <3> HIDE DEF Rest
    <3> QED
      BY <1>3, <2>1 DEF DataStep
  <2>3. 0 \in 0..N
    BY <1>2
  <2> HIDE DEF Good, N
  <2> QED
    BY <2>2, <2>3
<1>5. \A i \in 1..N : i - 1 \in T => i \in T
  <2> SUFFICES ASSUME NEW i \in 1..N, i - 1 \in T PROVE i \in T
    OBVIOUS
  <2>1. PICK a, b, cmd : a = after[i - 1] /\ b = after[i] /\ cmd = cmds[i] /\ cmd \in Command
    BY <1>2
  <2>2. b = RecvOne(a, cmd) /\ i \in 0..N /\ i \in Nat
    BY <1>2, <1>3, <2>1
  <2>3. /\ GoodData(a.data) /\ DataStep(run.data, a.data) /\ a.sent \in Seq(Request)
        /\ Awaits(a.data, requests \cup Range(a.sent), Rest(i - 1))
    BY <2>1
  <2>4. Rest(i - 1) = Rest(i) \cup {cmd}
    <3>1. \A j \in ((i - 1) + 1)..N : j = i \/ j \in (i + 1)..N
      BY <1>2, <2>2
    <3>2. i \in ((i - 1) + 1)..N /\ \A j \in (i + 1)..N : j \in ((i - 1) + 1)..N
      BY <1>2, <2>2
    <3> HIDE DEF N
    <3> QED
      BY <2>1, <3>1, <3>2
  <2> DEFINE s == RecvCmd(a.data, cmd)
             rest == Rest(i)
             asked == requests \cup Range(a.sent)
  <2>5. /\ GoodData(s.data) /\ DataStep(a.data, s.data) /\ s.sent \in Seq(Request)
        /\ Awaits(s.data, asked \cup Range(s.sent), rest)
    <3>1. Awaits(a.data, asked, rest \cup {cmd})
      BY <2>3, <2>4
    <3> HIDE DEF rest, asked
    <3> QED
      BY <2>1, <2>3, <3>1, RecvCmdGood
  <2>6. b.data = s.data /\ b.sent = a.sent \o s.sent
    BY <2>2 DEF RecvOne
  <2> HIDE DEF s
  <2>7. b.sent \in Seq(Request) /\ asked \cup Range(s.sent) = requests \cup Range(b.sent)
    <3>1. b.sent \in Seq(Request) /\ Range(b.sent) = Range(a.sent) \cup Range(s.sent)
      BY <2>3, <2>5, <2>6, RangeOfJoin
    <3> QED
      BY <3>1
  <2>8. Awaits(b.data, requests \cup Range(b.sent), rest)
    <3> HIDE DEF rest, asked
    <3> QED
      BY <2>5, <2>6, <2>7
  <2>9. DataStep(run.data, b.data)
    BY <2>3, <2>5, <2>6 DEF DataStep
  <2>10. Good(i)
    <3> HIDE DEF Rest
    <3> QED
      BY <2>1, <2>5, <2>6, <2>7, <2>8, <2>9
  <2> HIDE DEF Good, N
  <2> QED
    BY <2>2, <2>10
<1>6. Good(N)
  <2>1. N \in 0..N
    BY <1>2
  <2> HIDE DEF T, N
  <2>2. \A i \in 0..N : i \in T
    BY <1>2, <1>4, <1>5, Induction
  <2>3. N \in T
    BY <2>1, <2>2
  <2> QED
    BY <2>3 DEF T
<1>7. Rest(N) = replies
  <2>1. \A j \in (N + 1)..N : FALSE
    BY <1>2
  <2> HIDE DEF N
  <2> QED
    BY <2>1
<1> DEFINE r == Recv(run, cmds)
<1>8. r = after[N]
  BY <1>1
<1> HIDE DEF r, Rest
<1> QED
  BY <1>6, <1>7, <1>8 DEF r

(***************************************************************************)
(* The lists the mirror starts with.                                       *)
(***************************************************************************)
LEMMA InitializeGood ==
  ASSUME NEW d, GoodData(d), NEW requests, NEW replies
  PROVE  LET e == Initialize(d)
         IN  GoodData(e) /\ DataStep(d, e) /\ Awaits(e, requests, replies)
<1> DEFINE e == Initialize(d)
           keys == {<<type, 0>> : type \in SubscribedTypes \ {"CUE"}}
<1>1. /\ e = [status |-> e.status, lists |-> e.lists, cueMap |-> e.cueMap]
      /\ e.status = SetValue(ClearData(d).status, "RUNNING") /\ e.cueMap = FALSE
      /\ e.lists = [k \in DOMAIN e.lists |-> e.lists[k]] /\ DOMAIN e.lists = keys
      /\ \A k \in keys : e.lists[k] = NewList(k[1], 0)
  BY DEF Initialize
<1>2. \A k \in keys : /\ k \in MirrorKey /\ k[2] = 0 /\ k # DummyKey
  BY SubscribedAssumption DEF MirrorKey, ListKey, DummyKey
<1> HIDE DEF e, keys
<1>3. ASSUME NEW k \in keys
      PROVE  ListFor(k, e.lists[k]) /\ Idle(e.lists[k]) /\ e.lists[k].status = NewStatus
  BY <1>1, <1>2, NewListGood, IdleLists DEF ListFor
<1>4. e.status \in SyncStatus /\ e.status.value = "RUNNING"
  <2>1. ClearData(d).status \in SyncStatus /\ "RUNNING" \in SyncStatusValue
    <3>1. ClearData(d).status = SetValue(d.status, "UNINITIALIZED") /\ d.status \in SyncStatus
      BY DataFields DEF ClearData
    <3> QED
      BY <3>1, StatusType DEF SyncStatusValue
  <2> QED
    BY <1>1, <2>1, StatusType, SetValueFacts
<1>5. DataType(e)
  BY <1>1, <1>2, <1>4 DEF DataType
<1>6. ListsGood(e) /\ DummyComplete(e)
  BY <1>1, <1>2, <1>3 DEF ListsGood, DummyComplete
<1>7. StatusGood(e)
  BY <1>1, <1>3, <1>4 DEF StatusGood, NewStatus
<1>8. Awaits(e, requests, replies)
  BY <1>1, <1>3, ListAwaitsFacts DEF Awaits, Idle
<1>9. DataStep(d, e)
  BY <1>4 DEF DataStep
<1> QED
  BY <1>5, <1>6, <1>7, <1>8, <1>9 DEF GoodData, e

(***************************************************************************)
(* One Tick of the mirror: it stays good, nothing that was synchronised    *)
(* and read becomes so again without a trace, and whatever it waits for    *)
(* afterwards is requested or not read yet.                                *)
(***************************************************************************)
LEMMA DataTickGood ==
  ASSUME NEW d, GoodData(d), NEW cmds \in Seq(Command), NEW requests, NEW replies,
         Awaits(d, requests, replies \cup Range(cmds))
  PROVE  LET r == DataTick(d, cmds)
         IN  /\ GoodData(r.data) /\ DataStep(d, r.data) /\ r.sent \in Seq(Request)
             /\ Awaits(r.data, requests \cup Range(r.sent), replies)
<1> DEFINE run == CASE d.status.value = "UNINITIALIZED" -> [data |-> Initialize(d), sent |-> <<>>]
                    [] d.status.value = "RUNNING"       -> TickRunning(d)
                    [] OTHER                            -> [data |-> d, sent |-> <<>>]
           all == replies \cup Range(cmds)
           r == DataTick(d, cmds)
<1>1. /\ GoodData(run.data) /\ DataStep(d, run.data) /\ run.sent \in Seq(Request)
      /\ Awaits(run.data, requests \cup Range(run.sent), all)
  <2>1. ASSUME NEW e, GoodData(e), DataStep(d, e), Awaits(e, requests, all),
               run = [data |-> e, sent |-> <<>>]
        PROVE  /\ GoodData(run.data) /\ DataStep(d, run.data) /\ run.sent \in Seq(Request)
               /\ Awaits(run.data, requests \cup Range(run.sent), all)
    <3> HIDE DEF all
    <3>1. Awaits(e, requests \cup Range(<<>>), all)
      BY <2>1, AwaitsMore
    <3>2. run.data = e /\ run.sent = <<>> /\ <<>> \in Seq(Request)
      BY <2>1
    <3> HIDE DEF run
    <3> QED
      BY <2>1, <3>1, <3>2
  <2>2. CASE d.status.value = "UNINITIALIZED"
    <3>1. run = [data |-> Initialize(d), sent |-> <<>>]
      BY <2>2
    <3> HIDE DEF run, all
    <3>2. GoodData(Initialize(d)) /\ DataStep(d, Initialize(d)) /\ Awaits(Initialize(d), requests, all)
      BY InitializeGood
    <3> QED
      BY <2>1, <3>1, <3>2
  <2>3. CASE d.status.value = "RUNNING"
    <3>1. run = TickRunning(d)
      BY <2>3
    <3> HIDE DEF run
    <3>2. Awaits(d, requests, all)
      OBVIOUS
    <3> HIDE DEF all
    <3> QED
      BY <2>3, <3>1, <3>2, TickRunningGood
  <2>4. CASE d.status.value = "COMPLETE"
    <3>1. run = [data |-> d, sent |-> <<>>]
      BY <2>4
    <3>2. DataStep(d, d) /\ Awaits(d, requests, all)
      BY DEF DataStep
    <3> HIDE DEF run, all
    <3> QED
      BY <2>1, <3>1, <3>2
  <2> QED
    BY <2>2, <2>3, <2>4, DataFields DEF SyncStatusValue
<1>2. r = Recv(run, cmds)
  BY DEF DataTick
<1> HIDE DEF run, r
<1>3. /\ GoodData(r.data) /\ DataStep(run.data, r.data) /\ r.sent \in Seq(Request)
      /\ Awaits(r.data, requests \cup Range(r.sent), replies)
  BY <1>1, <1>2, RecvGood
<1>4. DataStep(d, r.data)
  BY <1>1, <1>3 DEF DataStep
<1> QED
  BY <1>3, <1>4 DEF r

(***************************************************************************)
(* The application may clear the dirty flags: nothing else changes.        *)
(***************************************************************************)
LEMMA ClearDirtyDataGood ==
  ASSUME NEW d, GoodData(d), d.status.dirty, NEW requests, NEW replies, Awaits(d, requests, replies)
  PROVE  LET e == ClearDirtyData(d)
         IN  GoodData(e) /\ e.status.value = d.status.value /\ Awaits(e, requests, replies)
<1> DEFINE e == ClearDirtyData(d)
<1>1. /\ e = [status |-> e.status, lists |-> e.lists, cueMap |-> e.cueMap]
      /\ e.status = ClearDirty(d.status) /\ e.cueMap = d.cueMap
      /\ e.lists = [k \in DOMAIN e.lists |-> e.lists[k]] /\ DOMAIN e.lists = DOMAIN d.lists
      /\ \A k \in DOMAIN d.lists : e.lists[k] = ClearDirtyList(d.lists[k])
  BY DEF ClearDirtyData
<1>2. /\ e.status \in SyncStatus /\ e.status.value = d.status.value
  BY <1>1, StatusType, DataFields DEF ClearDirty, SyncStatus
<1> HIDE DEF e
<1>3. ASSUME NEW k \in DOMAIN d.lists
      PROVE  /\ ListFor(k, e.lists[k]) /\ ~e.lists[k].status.dirty
             /\ e.lists[k].status.value = d.lists[k].status.value
             /\ e.lists[k].internal = d.lists[k].internal
             /\ Waiting(e.lists[k]) = Waiting(d.lists[k])
  <2> DEFINE l == d.lists[k]
             m == ClearDirtyList(l)
  <2>1. ListFor(k, l) /\ e.lists[k] = m
    BY <1>1 DEF GoodData, ListsGood
  <2>2. GoodList(m) /\ m.type = l.type /\ m.listId = l.listId
    <3> HIDE DEF l
    <3> QED
      BY <2>1, ClearDirtyListGood DEF ListFor
  <2>3. TypeGood(l) /\ l.status \in SyncStatus
    BY <2>1, ListFields DEF ListFor, GoodList, TypeGood
  <2>4. m.entry = l.entry /\ m.live = l.live /\ m.internal = l.internal
        /\ m.status.value = l.status.value /\ ~m.status.dirty
    <3> HIDE DEF l
    <3> QED
      BY <2>3 DEF ClearDirtyList, TypeGood, ListOf, ClearDirty, SyncStatus
  <2> HIDE DEF l, m
  <2>5. ListFor(k, m) /\ Waiting(m) = Waiting(l)
    BY <2>1, <2>2, <2>4 DEF ListFor, Waiting, LivePartsOf
  <2> QED
    BY <2>1, <2>4, <2>5 DEF l
<1>4. DataType(e)
  BY <1>1, <1>2 DEF GoodData, DataType
<1>5. ListsGood(e) /\ DummyComplete(e)
  BY <1>1, <1>3 DEF GoodData, ListsGood, DummyComplete
<1>6. StatusGood(e)
  BY <1>1, <1>2, <1>3 DEF GoodData, StatusGood
<1>7. Awaits(e, requests, replies)
  <2> SUFFICES ASSUME NEW k \in DOMAIN d.lists PROVE ListAwaits(k, e.lists[k], requests, replies)
    BY <1>1 DEF Awaits
  <2>1. ListAwaits(k, d.lists[k], requests, replies)
    BY DEF Awaits
  <2> QED
    BY <1>3, <2>1, ListAwaitsFacts
<1> QED
  BY <1>2, <1>4, <1>5, <1>6, <1>7 DEF GoodData, e

----------------------------------------------------------------------------
(* The console's answers. *)

(***************************************************************************)
(* Any finite set has a sequence that SetToSeq may choose.                 *)
(***************************************************************************)
LEMMA SetToSeqFacts ==
  ASSUME NEW S, IsFiniteSet(S)
  PROVE  SetToSeq(S) \in Seq(S)
<1> DEFINE N == Cardinality(S)
           Lists(f) == f \in [1..N -> S] /\ IsInjective(f)
<1>1. N \in Nat /\ ExistsBijection(1..N, S)
  BY FS_CardinalityType
<1>2. \E f : Lists(f)
  BY <1>1 DEF ExistsBijection, Bijection, Injection
<1>3. SetToSeq(S) \in [1..N -> S]
  BY <1>2 DEF SetToSeq
<1> HIDE DEF N
<1> QED
  BY <1>1, <1>3

(***************************************************************************)
(* The property groups a console sends, at least the base group.           *)
(***************************************************************************)
LEMMA GroupSequenceFacts ==
  ASSUME NEW type \in TargetType
  PROVE  GroupSequence(type) \in Seq(GroupName) /\ Len(GroupSequence(type)) >= 1
<1> DEFINE all == {"notes", "links", "fx", "actions", "channels", "text", "byType"}
           rest == PropGroups(type) \ {General}
<1>1. IsFiniteSet(all)
  <2>1. IsFiniteSet({"notes"})
    BY FS_Singleton
  <2>2. IsFiniteSet({"notes"} \cup {"links"} \cup {"fx"} \cup {"actions"} \cup {"channels"}
                     \cup {"text"} \cup {"byType"})
    BY <2>1, FS_AddElement
  <2>3. all = {"notes"} \cup {"links"} \cup {"fx"} \cup {"actions"} \cup {"channels"}
                \cup {"text"} \cup {"byType"}
    OBVIOUS
  <2> QED
    BY <2>2, <2>3
<1>2. rest \in SUBSET all
  BY DEF PropGroups, General
<1>3. rest \subseteq GroupName /\ General \in GroupName
  BY DEF GroupName, PropGroups
<1> HIDE DEF all, rest
<1>4. SetToSeq(rest) \in Seq(rest)
  BY <1>1, <1>2, FS_Subset, SetToSeqFacts
<1>5. SetToSeq(rest) \in Seq(GroupName) /\ <<General>> \in Seq(GroupName)
  BY <1>3, <1>4
<1>6. PICK s : s = SetToSeq(rest) /\ s \in Seq(GroupName)
  BY <1>5
<1>7. GroupSequence(type) = <<General>> \o s
  BY <1>6 DEF GroupSequence, rest
<1> QED
  BY <1>5, <1>6, <1>7

\* The replies about one number of a list.
ReplyAbout(key, n) == {m \in TargetData : About(m, "target", key) /\ m.pathData.num = n}

\* The targets a list of the show may have, as far as a reply tells.
TargetIn(key, k) == k \in Key /\ k[1] # 0 /\ ValidPart(key[1], k[2])

(***************************************************************************)
(* A reply with any group and any arguments is one the library may get.    *)
(***************************************************************************)
LEMMA TargetReplyFacts ==
  ASSUME NEW key \in MirrorKey, NEW k, TargetIn(key, k), NEW group \in GroupName,
         NEW offset \in Nat, NEW size \in Nat, NEW args \in Seq(Val)
  PROVE  TargetReply(key, k, group, offset, args, size) \in ReplyAbout(key, k[1])
<1> DEFINE p == PathData(k[1], k[2], group, offset, size)
           m == TargetReply(key, k, group, offset, args, size)
<1>1. key = <<key[1], key[2]>> /\ key[1] \in TargetType /\ key[2] \in Nat
  BY MirrorKeyFacts
<1>2. k[1] \in Num \ {0} /\ k[2] \in Part
  BY DEF TargetIn, Key
<1>3. p \in Path(key[1]) /\ p.num = k[1]
  BY <1>2 DEF Path, PathData, TargetIn
<1>4. p \in UNION {Path(type) : type \in TargetType}
  BY <1>1, <1>3
<1>5. m = [kind |-> "target", type |-> key[1], listId |-> key[2], pathData |-> p, args |-> args]
  BY DEF TargetReply
<1> HIDE DEF p, m
<1>6. /\ m.kind = "target" /\ m.type = key[1] /\ m.listId = key[2]
      /\ m.pathData = p /\ m.args = args
  BY <1>5
<1>7. m \in [kind : {"target"}, type : TargetType, listId : Nat,
             pathData : UNION {Path(type) : type \in TargetType}, args : Seq(Val)]
  BY <1>1, <1>4, <1>5
<1>8. m \in TargetData
  BY <1>1, <1>3, <1>6, <1>7 DEF TargetData, Keyed
<1>9. About(m, "target", key) /\ m.pathData.num = k[1]
  BY <1>3, <1>6 DEF About
<1> QED
  BY <1>8, <1>9 DEF ReplyAbout, m

(***************************************************************************)
(* The packets of one property group, at least one.                        *)
(***************************************************************************)
LEMMA GroupRepliesFacts ==
  ASSUME NEW key \in MirrorKey, NEW k, TargetIn(key, k), NEW group \in GroupName,
         NEW args \in Seq(Val), Len(args) = 3
  PROVE  LET s == GroupReplies(key, k, group, args)
         IN  s \in Seq(ReplyAbout(key, k[1])) /\ Len(s) >= 1
<1>0. \A h \in 1..Len(args) : args[h] \in Val
  BY ElementOfSeq
<1> DEFINE n == (Len(args) + ArgsPerPacket - 1) \div ArgsPerPacket
           s == GroupReplies(key, k, group, args)
           first(i) == (i - 1) * ArgsPerPacket
           last(i)  == IF first(i) + ArgsPerPacket < Len(args)
                       THEN first(i) + ArgsPerPacket ELSE Len(args)
           reply(i) == TargetReply(key, k, group, first(i),
                                   SubSeq(args, first(i) + 1, last(i)), Len(args))
<1>1. ArgsPerPacket \in Nat /\ ArgsPerPacket >= 1
  BY BoundsAssumption
<1>2. n \in Nat /\ n >= 1
  BY <1>1
<1>3. ASSUME NEW i \in 1..n
      PROVE  reply(i) \in ReplyAbout(key, k[1])
  <2>1. i \in Nat /\ i >= 1
    BY <1>2
  <2>2. first(i) \in Nat
    BY <1>1, <2>1
  <2>3. last(i) \in Int /\ last(i) <= Len(args)
    BY <1>1, <2>2
  <2> HIDE DEF first, last
  <2>4. PICK a, b : a = first(i) + 1 /\ b = last(i) /\ a \in Nat /\ a >= 1 /\ b \in Int /\ b <= Len(args)
    BY <2>2, <2>3
  <2>5. SubSeq(args, a, b) \in Seq(Val)
    <3>1. \A h \in a..b : args[h] \in Val
      <4>1. \A h \in a..b : h \in 1..Len(args)
        BY <2>4
      <4> QED
        BY <1>0, <4>1, Zenon
    <3>2. a \in Int /\ b \in Int
      BY <2>4
    <3> QED
      BY <3>1, <3>2, SubSeqProperties
  <2>6. Len(args) \in Nat
    OBVIOUS
  <2> QED
    BY <2>2, <2>4, <2>5, <2>6, TargetReplyFacts
<1>4. s = [i \in 1..n |-> reply(i)]
  BY DEF GroupReplies
<1> HIDE DEF s, n, reply
<1>5. PICK T : T = ReplyAbout(key, k[1])
  OBVIOUS
<1>6. s \in [1..n -> T]
  BY <1>3, <1>4, <1>5
<1>7. s \in Seq(T) /\ Len(s) = n
  BY <1>2, <1>6
<1> QED
  BY <1>2, <1>5, <1>7 DEF s

(***************************************************************************)
(* The packets about one target, at least one.                             *)
(***************************************************************************)
LEMMA TargetRepliesFacts ==
  ASSUME NEW s \in Shows, NEW key \in MirrorKey, NEW k \in TargetKeys(s, key)
  PROVE  LET r == TargetReplies(s, key, k)
         IN  TargetIn(key, k) /\ r \in Seq(ReplyAbout(key, k[1])) /\ Len(r) >= 1
<1> DEFINE groups == GroupSequence(key[1])
           args   == ContentArgs(s[key][k])
           ofGroup(i) == GroupReplies(key, k, groups[i], args)
           all    == [i \in DOMAIN groups |-> ofGroup(i)]
           S      == ReplyAbout(key, k[1])
<1>1. key \in ShowLists /\ k \in ShowTargets[key] /\ s[key][k] # NoContent
  BY DEF TargetKeys
<1>2. TargetIn(key, k)
  <2>1. k \in Key /\ k[1] >= 1 /\ ValidPart(key[1], k[2])
    BY <1>1, ShowTargetsAssumption
  <2>2. k[1] # 0
    BY <2>1
  <2> QED
    BY <2>1, <2>2 DEF TargetIn
<1>3. s[key][k] \in Contents
  <2>1. s[key] \in TargetsOfList(key)
    BY <1>1 DEF Shows
  <2>2. s[key] \in [ShowTargets[key] -> Contents \cup {NoContent}]
    BY <2>1 DEF TargetsOfList
  <2> QED
    BY <1>1, <2>2
<1>4. args \in Seq(Val) /\ Len(args) = 3
  <2>1. PICK c \in [uid : Uid, label : Val \ {Empty}] : c = s[key][k]
    BY <1>3, ContentsAssumption
  <2>2. Empty \in Val /\ c.uid \in Val /\ c.label \in Val
    BY <2>1, EmptyAssumption DEF Uid
  <2>3. args = <<Empty, c.uid, c.label>>
    BY <2>1 DEF ContentArgs
  <2> HIDE DEF args
  <2> QED
    BY <2>2, <2>3
<1>5. groups \in Seq(GroupName) /\ Len(groups) >= 1
  BY MirrorKeyFacts, GroupSequenceFacts
<1> HIDE DEF groups, args
<1>6. \A i \in DOMAIN groups : ofGroup(i) \in Seq(S) /\ Len(ofGroup(i)) >= 1
  <2> TAKE i \in DOMAIN groups
  <2>1. groups[i] \in GroupName
    BY <1>5
  <2> QED
    BY <1>2, <1>4, <2>1, GroupRepliesFacts
<1> HIDE DEF ofGroup, S
<1>7. /\ all \in Seq(Seq(S)) /\ Len(all) = Len(groups)
      /\ 1 \in 1..Len(all) /\ all[1] = ofGroup(1) /\ 1 \in 1..Len(all[1])
  BY <1>5, <1>6
<1>8. TargetReplies(s, key, k) = FlattenSeq(all)
  BY DEF TargetReplies, groups, args, ofGroup
<1> HIDE DEF all
<1>9. PICK r : r = FlattenSeq(all)
  OBVIOUS
<1>10. r \in Seq(S) /\ \E j \in 1..Len(r) : r[j] = all[1][1]
  <2>1. /\ FlattenSeq(all) \in Seq(S)
        /\ \A i \in 1..Len(all) : \A j \in 1..Len(all[i]) :
             \E h \in 1..Len(FlattenSeq(all)) : FlattenSeq(all)[h] = all[i][j]
    BY <1>7, FlattenFacts
  <2> QED
    BY <1>7, <1>9, <2>1
<1>11. Len(r) >= 1
  BY <1>10
<1> QED
  BY <1>2, <1>8, <1>9, <1>10, <1>11 DEF S

\* The order of the console's index, as a relation.
IndexOrder == {pair \in Key \X Key : KeyBefore(pair[1], pair[2])}

(***************************************************************************)
(* The targets of a list come in their order, none twice, none left out.   *)
(***************************************************************************)
LEMMA InIndexOrder ==
  ASSUME NEW keys \in SUBSET Key
  PROVE  LET s == InOrder(keys, KeyBefore)
         IN  /\ s \in Seq(keys) /\ (keys # {} => Len(s) >= 1)
             /\ Len(s) = Cardinality(keys) /\ \A k \in keys : \E i \in 1..Len(s) : s[i] = k
             /\ \A i, j \in 1..Len(s) : i < j => s[i] # s[j]
<1> DEFINE N == Cardinality(keys)
           Ordered(s) == s \in [1..N -> keys]
                         /\ \A i, j \in 1..N : i < j => KeyBefore(s[i], s[j])
<1>1. \A k \in Key : k = <<k[1], k[2]>> /\ k[1] \in Int /\ k[2] \in Int
  <2>1. \A n \in Num : n \in Int
    BY NumAssumption
  <2>2. \A p \in Part : p \in Int
    BY PartAssumption
  <2> QED
    BY <2>1, <2>2 DEF Key
<1>2. StrictOrder(IndexOrder, keys)
  <2>1. \A j, k \in keys : <<j, k>> \in IndexOrder <=> KeyBefore(j, k)
    BY DEF IndexOrder
  <2>2. \A k \in keys : ~KeyBefore(k, k)
    BY <1>1 DEF KeyBefore
  <2>3. ASSUME NEW j \in keys, NEW k \in keys, j # k
        PROVE  KeyBefore(j, k) \/ KeyBefore(k, j)
    <3>1. j \in Key /\ k \in Key
      OBVIOUS
    <3>2. /\ j = <<j[1], j[2]>> /\ j[1] \in Int /\ j[2] \in Int
          /\ k = <<k[1], k[2]>> /\ k[1] \in Int /\ k[2] \in Int
      BY <1>1, <3>1
    <3>3. j[1] # k[1] \/ j[2] # k[2]
      BY <2>3, <3>2
    <3> QED
      BY <3>2, <3>3 DEF KeyBefore
  <2>4. ASSUME NEW i \in keys, NEW j \in keys, NEW k \in keys, KeyBefore(i, j), KeyBefore(j, k)
        PROVE  KeyBefore(i, k)
    <3>1. i \in Key /\ j \in Key /\ k \in Key
      OBVIOUS
    <3>2. /\ i[1] \in Int /\ i[2] \in Int /\ j[1] \in Int /\ j[2] \in Int
          /\ k[1] \in Int /\ k[2] \in Int
      BY <1>1, <3>1
    <3> QED
      BY <2>4, <3>2 DEF KeyBefore
  <2> QED
    BY <2>1, <2>2, <2>3, <2>4 DEF StrictOrder
<1>3. IsFiniteSet(keys)
  <2>1. IsFiniteSet(Key)
    BY NumAssumption, PartAssumption, FS_Product DEF Key
  <2> QED
    BY <2>1, FS_Subset
<1>4. PICK s : Enumerates(s, keys, IndexOrder)
  BY <1>2, <1>3, EnumerationExists
<1>5. Ordered(s)
  BY <1>4 DEF Enumerates, IndexOrder
<1>6. PICK r : r = InOrder(keys, KeyBefore) /\ Ordered(r)
  BY <1>5 DEF InOrder
<1>7. Enumerates(r, keys, IndexOrder)
  <2>1. \A i, j \in 1..N : i < j => <<r[i], r[j]>> \in IndexOrder
    BY <1>6 DEF IndexOrder
  <2> QED
    BY <1>6, <2>1 DEF Enumerates
<1>8. /\ N \in Nat /\ r \in Seq(keys) /\ Len(r) = N
      /\ \A k \in keys : \E i \in 1..N : r[i] = k
  BY <1>2, <1>3, <1>7, EnumerationComplete
<1>9. \A i, j \in 1..N : i < j => r[i] # r[j]
  <2>1. \A k \in keys : ~KeyBefore(k, k)
    BY <1>1 DEF KeyBefore
  <2>2. \A i \in 1..N : r[i] \in keys
    BY <1>6
  <2> HIDE DEF N
  <2>3. \A i, j \in 1..N : i < j => KeyBefore(r[i], r[j])
    BY <1>6 DEF N
  <2> QED
    BY <2>1, <2>2, <2>3
<1>10. Cardinality(keys) = N
  OBVIOUS
<1> HIDE DEF N
<1>11. keys # {} => Len(r) >= 1
  BY <1>8
<1> QED
  BY <1>6, <1>8, <1>9, <1>10, <1>11

(***************************************************************************)
(* What a request may be.                                                  *)
(***************************************************************************)
LEMMA RequestCases ==
  ASSUME NEW req \in Request \ {Subscribe}
  PROVE  /\ req.kind \in {"count", "index", "target"}
         /\ <<req.type, req.listId>> \in MirrorKey
         /\ req.kind = "index" => req.index \in Nat
         /\ req.kind = "target" => req.num \in Num \ {0}
  BY DEF Request, Keyed

(***************************************************************************)
(* The console answers a request with packets about the same list; to one  *)
(* for the number of targets with the number, to one for a target with a   *)
(* packet about this target at least.                                      *)
(***************************************************************************)
LEMMA AnswerFacts ==
  ASSUME NEW s \in Shows, NEW req \in Request \ {Subscribe}
  PROVE  LET key == <<req.type, req.listId>>
             a   == AnswerTo(s, req)
         IN  /\ a \in Seq(Command)
             /\ req.kind = "count" => \E i \in 1..Len(a) : About(a[i], "count", key)
             /\ req.kind = "target" => \E i \in 1..Len(a) : a[i] \in ReplyAbout(key, req.num)
<1>1. PICK key : key = <<req.type, req.listId>> /\ key \in MirrorKey
  BY RequestCases
<1>2. key[1] = req.type /\ key[2] = req.listId /\ key[1] \in TargetType /\ key[2] \in Nat
  BY <1>1, MirrorKeyFacts
<1>3. TargetKeys(s, key) \in SUBSET Key
  BY ShowTargetsAssumption DEF TargetKeys
<1>4. PICK existing : existing = Existing(s, key) /\ existing \in Seq(TargetKeys(s, key))
  BY <1>3, InIndexOrder DEF Existing
<1>5. Len(existing) \in Nat
  BY <1>4
<1>6. \A n : ReplyAbout(key, n) \subseteq TargetData /\ TargetData \subseteq Command
  BY DEF ReplyAbout, Command
<1> DEFINE a == AnswerTo(s, req)
<1>7. CASE req.kind = "count"
  <2> DEFINE m == [kind |-> "count", type |-> req.type, listId |-> req.listId,
                   args |-> <<Len(existing)>>]
  <2>1. a = <<m>>
    BY <1>1, <1>4, <1>7 DEF AnswerTo
  <2>2. m \in CountReply /\ About(m, "count", key)
    BY <1>1, <1>2, <1>5 DEF CountReply, Keyed, About
  <2>3. m \in Command
    BY <2>2 DEF Command
  <2> HIDE DEF a, m
  <2>4. a \in Seq(Command) /\ 1 \in 1..Len(a) /\ a[1] = m
    BY <2>1, <2>3
  <2> QED
    BY <1>1, <1>7, <2>2, <2>4 DEF a
<1>8. CASE req.kind = "index"
  <2>1. CASE req.index < Len(existing)
    <3>1. PICK i : i = req.index + 1 /\ i \in 1..Len(existing)
      <4>1. req.index \in Nat
        BY <1>8, RequestCases
      <4> QED
        BY <1>5, <2>1, <4>1
    <3>2. PICK k \in TargetKeys(s, key) : k = existing[i]
      BY <1>4, <3>1
    <3>3. a = TargetReplies(s, key, k)
      BY <1>1, <1>4, <1>8, <2>1, <3>1, <3>2 DEF AnswerTo
    <3> HIDE DEF a
    <3>4. a \in Seq(ReplyAbout(key, k[1]))
      BY <1>1, <3>3, TargetRepliesFacts
    <3>5. a \in Seq(Command)
      BY <1>6, <3>4
    <3> QED
      BY <1>8, <3>5 DEF a
  <2>2. CASE ~(req.index < Len(existing))
    <3>1. a = <<>>
      BY <1>1, <1>4, <1>8, <2>2 DEF AnswerTo
    <3> HIDE DEF a
    <3> QED
      BY <1>8, <3>1 DEF a
  <2> QED
    BY <2>1, <2>2
<1>9. CASE req.kind = "target"
  <2> DEFINE keys == {k \in TargetKeys(s, key) : k[1] = req.num}
             S    == ReplyAbout(key, req.num)
  <2>1. keys \in SUBSET Key /\ req.num \in Num \ {0}
    BY <1>3, <1>9, RequestCases
  <2> HIDE DEF keys
  <2>2. PICK found : /\ found = OfNumber(s, key, req.num)
                     /\ found \in Seq(keys) /\ (keys # {} => Len(found) >= 1)
    BY <2>1, InIndexOrder DEF OfNumber, keys
  <2> HIDE DEF S
  <2>3. CASE found = <<>>
    <3> DEFINE part == IF key[1] = "PATCH" THEN 1 ELSE 0
               k    == <<req.num, part>>
    <3>1. TargetIn(key, k)
      <4>1. part \in Part
        BY <1>1, MirrorKeyFacts, AbsentPartAssumption, PartAssumption
      <4>2. ValidPart(key[1], part)
        BY DEF ValidPart
      <4> HIDE DEF part
      <4> QED
        BY <2>1, <4>1, <4>2 DEF TargetIn, Key
    <3>2. General \in GroupName /\ <<>> \in Seq(Val)
      BY <1>2 DEF GroupName, PropGroups
    <3>3. a = <<TargetReply(key, k, General, 0, <<>>, 0)>>
      BY <1>1, <1>9, <2>2, <2>3 DEF AnswerTo, AbsentReply
    <3>4. k[1] = req.num
      OBVIOUS
    <3> HIDE DEF k, a
    <3>5. TargetReply(key, k, General, 0, <<>>, 0) \in S
      <4>1. PICK e, zero : e = <<>> /\ e \in Seq(Val) /\ zero = 0 /\ zero \in Nat
        BY <3>2
      <4>2. TargetReply(key, k, General, zero, e, zero) \in ReplyAbout(key, k[1])
        BY <1>1, <3>1, <3>2, <4>1, TargetReplyFacts
      <4> QED
        BY <3>4, <4>1, <4>2 DEF S
    <3>6. a \in Seq(Command) /\ 1 \in 1..Len(a) /\ a[1] \in S
      BY <1>6, <3>3, <3>5 DEF S
    <3> QED
      BY <1>1, <1>9, <3>6 DEF a, S
  <2>4. CASE found # <<>>
    <3> DEFINE of(i) == TargetReplies(s, key, found[i])
               all   == [i \in DOMAIN found |-> of(i)]
    <3>1. \A i \in DOMAIN found : of(i) \in Seq(S) /\ Len(of(i)) >= 1
      <4> TAKE i \in DOMAIN found
      <4>1. found[i] \in TargetKeys(s, key) /\ found[i][1] = req.num
        BY <2>2 DEF keys
      <4>2. PICK k \in TargetKeys(s, key) : k = found[i] /\ k[1] = req.num
        BY <4>1
      <4>3. TargetReplies(s, key, k) \in Seq(ReplyAbout(key, k[1]))
            /\ Len(TargetReplies(s, key, k)) >= 1
        BY <1>1, <4>2, TargetRepliesFacts
      <4> QED
        BY <4>2, <4>3 DEF S
    <3>2. a = FlattenSeq(all)
      BY <1>1, <1>9, <2>2, <2>4 DEF AnswerTo
    <3> HIDE DEF of
    <3>3. Len(found) \in Nat /\ Len(found) >= 1
      BY <2>2, <2>4
    <3>4. /\ all \in Seq(Seq(S)) /\ Len(all) = Len(found)
          /\ 1 \in 1..Len(all) /\ 1 \in 1..Len(all[1])
      <4>1. DOMAIN found = 1..Len(found)
        BY <2>2
      <4>2. DOMAIN all = 1..Len(found) /\ \A i \in 1..Len(found) : all[i] = of(i)
        BY <4>1
      <4>3. 1 \in 1..Len(found)
        BY <3>3
      <4>4. all \in [1..Len(found) -> Seq(S)]
        BY <3>1, <4>1
      <4>5. all \in Seq(Seq(S)) /\ Len(all) = Len(found)
        BY <3>3, <4>4
      <4>6. all[1] \in Seq(S) /\ Len(all[1]) >= 1
        BY <3>1, <4>1, <4>2, <4>3
      <4> QED
        BY <4>3, <4>5, <4>6
    <3> HIDE DEF all, a
    <3>5. /\ FlattenSeq(all) \in Seq(S)
          /\ \A i \in 1..Len(all) : \A j \in 1..Len(all[i]) :
               \E h \in 1..Len(FlattenSeq(all)) : FlattenSeq(all)[h] = all[i][j]
      BY <3>4, FlattenFacts
    <3>6. a \in Seq(S) /\ \E h \in 1..Len(a) : a[h] = all[1][1]
      BY <3>2, <3>4, <3>5
    <3>7. \E h \in 1..Len(a) : a[h] \in S
      BY <3>6
    <3>8. a \in Seq(Command)
      BY <1>6, <3>6 DEF S
    <3> QED
      BY <1>1, <1>9, <3>7, <3>8 DEF a, S
  <2> QED
    BY <2>3, <2>4
<1> QED
  BY <1>7, <1>8, <1>9, RequestCases

----------------------------------------------------------------------------
(* The steps. *)

(***************************************************************************)
(* A request is taken away and answered: what was waited for still is on   *)
(* its way.                                                                *)
(***************************************************************************)
LEMMA AwaitsAnswered ==
  ASSUME NEW d, DataType(d), NEW requests, NEW replies, NEW req, NEW answers,
         Awaits(d, requests \cup {req}, replies),
         \A key \in MirrorKey : About(req, "count", key) =>
           \E m \in answers : About(m, "count", key),
         \A key \in MirrorKey, n \in Num : About(req, "target", key) /\ req.num = n =>
           \E m \in answers : About(m, "target", key) /\ m.pathData.num = n
  PROVE  Awaits(d, requests, replies \cup answers)
<1>1. ASSUME NEW key \in DOMAIN d.lists
      PROVE  ListAwaits(key, d.lists[key], requests, replies \cup answers)
  <2>1. key \in MirrorKey /\ ListAwaits(key, d.lists[key], requests \cup {req}, replies)
    BY DEF DataType, Awaits
  <2>2. CountAwaited(key, requests \cup {req}, replies) =>
          CountAwaited(key, requests, replies \cup answers)
    BY <2>1 DEF CountAwaited
  <2>3. \A n \in Num : TargetAwaited(key, n, requests \cup {req}, replies) =>
          TargetAwaited(key, n, requests, replies \cup answers)
    BY <2>1 DEF TargetAwaited
  <2> QED
    BY <2>1, <2>2, <2>3 DEF ListAwaits
<1> QED
  BY <1>1 DEF Awaits

(***************************************************************************)
(* One packet leaves the send queue for the connection.                    *)
(***************************************************************************)
LEMMA SendQueueFacts ==
  ASSUME NEW S, NEW q \in Seq(S), q # <<>>, NEW w \in Seq(S)
  PROVE  /\ Tail(q) \in Seq(S) /\ Append(w, Head(q)) \in Seq(S)
         /\ Range(q) \cup Range(w) = Range(Tail(q)) \cup Range(Append(w, Head(q)))
<1>1. PICK x, t : x = Head(q) /\ t = Tail(q)
  OBVIOUS
<1>2. x \in S /\ t \in Seq(S) /\ Range(q) = {x} \cup Range(t)
  BY <1>1, RangeOfQueue
<1>3. Append(w, x) \in Seq(S) /\ Range(Append(w, x)) = Range(w) \cup {x}
  BY <1>2, RangeOfAppend
<1> QED
  BY <1>1, <1>2, <1>3

(***************************************************************************)
(* Whatever the mirror waits for could be asked for.                       *)
(***************************************************************************)
LEMMA AllIsRequested ==
  ASSUME NEW d, GoodData(d), NEW replies PROVE Awaits(d, Request, replies)
<1>1. ASSUME NEW key \in DOMAIN d.lists
      PROVE  ListAwaits(key, d.lists[key], Request, replies)
  <2>1. key \in MirrorKey /\ ListFor(key, d.lists[key])
    BY DEF GoodData, DataType, ListsGood
  <2>2. key = <<key[1], key[2]>> /\ key[1] \in TargetType /\ key[2] \in Nat
    BY <2>1, MirrorKeyFacts
  <2>3. CountAwaited(key, Request, replies)
    <3> DEFINE m == [kind |-> "count", type |-> key[1], listId |-> key[2]]
    <3>1. m \in Keyed([kind : {"count"}, type : TargetType, listId : Nat])
      BY <2>1, <2>2 DEF Keyed
    <3>2. m \in Request
      BY <3>1 DEF Request, Keyed
    <3>3. About(m, "count", key)
      BY DEF About
    <3> QED
      BY <3>2, <3>3 DEF CountAwaited
  <2>4. ASSUME NEW n \in Num, d.lists[key].entry[n] = "initialized"
        PROVE  TargetAwaited(key, n, Request, replies)
    <3> DEFINE m == [kind |-> "target", type |-> key[1], listId |-> key[2], num |-> n]
    <3>1. n \in Num \ {0}
      BY <2>1, <2>4 DEF ListFor
    <3>2. m \in Keyed([kind : {"target"}, type : TargetType, listId : Nat, num : Num \ {0}])
      BY <2>1, <2>2, <3>1 DEF Keyed
    <3>3. m \in Request
      BY <3>2 DEF Request, Keyed
    <3>4. About(m, "target", key) /\ m.num = n
      BY DEF About
    <3> QED
      BY <3>3, <3>4 DEF TargetAwaited
  <2> QED
    BY <2>3, <2>4 DEF ListAwaits
<1> QED
  BY <1>1 DEF Awaits

(***************************************************************************)
(* A tick of the mirror on the first n packets that have arrived, or on    *)
(* nothing because they cannot be made out: the mirror stays good, and a   *)
(* synchronisation the application has not read stays visible.  What the   *)
(* mirror waits for is among the packets it queues, those queued before,   *)
(* and those not read yet.                                                 *)
(***************************************************************************)
LEMMA MirrorTicks ==
  ASSUME PacketsOK, GoodData(data), NEW n \in 0..Len(toClient), NEW more \in Seq(Request),
         NEW cmds \in {SubSeq(toClient, 1, n), <<>>},
         NEW r, r = DataTick(data, cmds), Becomes(r.data),
         toClient' = SubSeq(toClient, n + 1, Len(toClient))
  PROVE  /\ GoodData(data') /\ unseen' \in BOOLEAN /\ toClient' \in Seq(Command)
         /\ r.sent \in Seq(Request) /\ sendQ \o more \o r.sent \in Seq(Request)
         /\ ResyncIsDirty => ResyncIsDirty'
         /\ AllAwaited /\ cmds = SubSeq(toClient, 1, n) =>
              Awaits(data', Range(sendQ \o more \o r.sent) \cup Range(toConsole), Range(toClient'))
<1>1. PICK rest : /\ rest = SubSeq(toClient, n + 1, Len(toClient))
                  /\ cmds \in Seq(Command) /\ rest \in Seq(Command)
                  /\ cmds = SubSeq(toClient, 1, n) => Range(toClient) = Range(cmds) \cup Range(rest)
  <2>1. PICK s : s = toClient /\ s \in Seq(Command) /\ n \in 0..Len(s)
    BY DEF PacketsOK
  <2>2. PICK front, tail : front = SubSeq(s, 1, n) /\ tail = SubSeq(s, n + 1, Len(s))
    OBVIOUS
  <2>3. front \in Seq(Command) /\ tail \in Seq(Command) /\ Range(s) = Range(front) \cup Range(tail)
    BY <2>1, <2>2, RangeOfParts
  <2>4. <<>> \in Seq(Command)
    OBVIOUS
  <2> QED
    BY <2>1, <2>2, <2>3, <2>4
<1>2. toClient' = rest /\ data' = r.data /\ r = DataTick(data, cmds)
  BY <1>1 DEF Becomes
<1>3. PICK asked : asked = Range(sendQ) \cup Range(toConsole)
  OBVIOUS
<1>4. GoodData(r.data) /\ DataStep(data, r.data) /\ r.sent \in Seq(Request)
  <2>1. Awaits(data, Request, {} \cup Range(cmds))
    BY AllIsRequested
  <2> QED
    BY <1>1, <1>2, <2>1, DataTickGood
<1>5. AllAwaited /\ cmds = SubSeq(toClient, 1, n) =>
        Awaits(r.data, asked \cup Range(r.sent), Range(rest))
  <2> SUFFICES ASSUME AllAwaited, cmds = SubSeq(toClient, 1, n)
               PROVE  Awaits(r.data, asked \cup Range(r.sent), Range(rest))
    OBVIOUS
  <2>1. Awaits(data, asked, Range(rest) \cup Range(cmds))
    <3>1. Awaits(data, asked, Range(toClient)) /\ Range(toClient) = Range(rest) \cup Range(cmds)
      BY <1>1, <1>3 DEF AllAwaited, Requests
    <3> QED
      BY <3>1
  <2> QED
    BY <1>1, <1>2, <2>1, DataTickGood
<1>6. PICK q : q = sendQ \o more
  OBVIOUS
<1>7. q \in Seq(Request) /\ Range(q) = Range(sendQ) \cup Range(more)
  BY <1>6, RangeOfJoin DEF PacketsOK
<1>8. q \o r.sent \in Seq(Request) /\ Range(q \o r.sent) = Range(q) \cup Range(r.sent)
  BY <1>4, <1>7, RangeOfJoin
<1>9. AllAwaited /\ cmds = SubSeq(toClient, 1, n) => Awaits(data', Range(q \o r.sent) \cup Range(toConsole), Range(toClient'))
  <2>1. asked \cup Range(r.sent) \subseteq Range(q \o r.sent) \cup Range(toConsole)
    BY <1>3, <1>7, <1>8
  <2>2. PICK e, less, all, late : /\ e = r.data /\ less = asked \cup Range(r.sent)
                                  /\ all = Range(q \o r.sent) \cup Range(toConsole)
                                  /\ late = Range(rest)
    OBVIOUS
  <2>3. Awaits(e, less, late) => Awaits(e, all, late)
    <3>1. less \subseteq all /\ late \subseteq late
      BY <2>1, <2>2
    <3>2. \A d : Awaits(d, less, late) => Awaits(d, all, late)
      BY <3>1, AwaitsMore
    <3> QED
      BY <3>2
  <2> QED
    BY <1>2, <1>5, <2>2, <2>3
<1>10. ResyncIsDirty => ResyncIsDirty'
  <2>1. unseen' = (unseen \/ (r.data.status.value = "COMPLETE" /\ data.status.value # "COMPLETE"))
    BY DEF Becomes
  <2>2. data.status.dirty \in BOOLEAN /\ r.data.status.dirty \in BOOLEAN /\ unseen \in BOOLEAN
    BY <1>4 DEF GoodData, DataType, SyncStatus, PacketsOK
  <2> QED
    BY <1>2, <1>4, <2>1, <2>2 DEF ResyncIsDirty, IsSynchronized, DataStep
<1>11. unseen' \in BOOLEAN
  BY DEF Becomes, PacketsOK
<1> QED
  BY <1>1, <1>2, <1>4, <1>6, <1>8, <1>9, <1>10, <1>11

(***************************************************************************)
(* A mirror that has not begun is good, and waits for nothing.             *)
(***************************************************************************)
LEMMA NewDataGood ==
  GoodData(NewData) /\ \A requests, replies : Awaits(NewData, requests, replies)
<1> DEFINE d == NewData
<1>1. /\ d = [status |-> d.status, lists |-> d.lists, cueMap |-> d.cueMap]
      /\ d.status = NewStatus /\ d.cueMap = FALSE /\ d.lists = NoLists
  BY DEF NewData
<1>2. DOMAIN NoLists = {} /\ NoLists = [key \in DOMAIN NoLists |-> NoLists[key]]
  BY DEF NoLists
<1> HIDE DEF d
<1>3. d.status \in SyncStatus /\ d.status.value = "UNINITIALIZED"
  BY <1>1, StatusType DEF NewStatus
<1> QED
  BY <1>1, <1>2, <1>3
     DEF GoodData, DataType, ListsGood, DummyComplete, StatusGood, Awaits, d

(***************************************************************************)
(* Reading the changes clears the flag of the mirror, and nothing else.    *)
(***************************************************************************)
LEMMA ClearingKeeps ==
  ASSUME PacketsOK, GoodData(data), ClearDirtyFlag
  PROVE  PacketsOK' /\ GoodData(data') /\ ResyncIsDirty' /\ (AllAwaited => AllAwaited')
<1>1. /\ data' = ClearDirtyData(data) /\ data.status.dirty /\ unseen' = FALSE
      /\ UNCHANGED <<sendQ, toConsole, toClient, show, subscribed, edits>>
  BY DEF ClearDirtyFlag, consoleVars
<1>2. PICK e : e = ClearDirtyData(data)
  OBVIOUS
<1>3. GoodData(e)
  BY <1>1, <1>2, AllIsRequested, ClearDirtyDataGood
<1>4. Awaits(data, Requests, Range(toClient)) => Awaits(e, Requests, Range(toClient))
  BY <1>1, <1>2, ClearDirtyDataGood
<1>5. PacketsOK'
  BY <1>1 DEF PacketsOK
<1>6. Requests' = Requests /\ Range(toClient)' = Range(toClient)
  BY <1>1 DEF Requests
<1> QED
  BY <1>1, <1>2, <1>3, <1>4, <1>5, <1>6 DEF AllAwaited, ResyncIsDirty

(***************************************************************************)
(* An answer of the console, to whatever it was asked.                     *)
(***************************************************************************)
LEMMA AnswerKeeps ==
  ASSUME PacketsOK, GoodData(data), Answer
  PROVE  PacketsOK' /\ (AllAwaited => AllAwaited') /\ UNCHANGED <<clientVars, unseen>>
<1>1. PICK req, q : /\ req = Head(toConsole) /\ q = Tail(toConsole) /\ toConsole' = q
                    /\ req \in Request /\ q \in Seq(Request)
                    /\ Range(toConsole) = {req} \cup Range(q)
  <2>1. PICK w : w = toConsole /\ w \in Seq(Request) /\ w # <<>>
    BY DEF Answer, PacketsOK
  <2>2. Head(w) \in Request /\ Tail(w) \in Seq(Request) /\ Range(w) = {Head(w)} \cup Range(Tail(w))
    BY <2>1, RangeOfQueue
  <2> QED
    BY <2>1, <2>2 DEF Answer
<1>2. /\ UNCHANGED <<clientVars, unseen>>
      /\ UNCHANGED <<data, sendQ, show, edits>>
  BY DEF Answer, clientVars
<1>3. PICK asked : asked = Range(sendQ) \cup Range(q)
  OBVIOUS
<1>4. Requests = asked \cup {req} /\ Requests' = asked
  BY <1>1, <1>2, <1>3 DEF Requests
<1>5. DataType(data)
  BY DEF GoodData
<1>6. CASE req = Subscribe
  <2>1. toClient' = toClient /\ subscribed' = TRUE
    BY <1>1, <1>6 DEF Answer
  <2>2. \A key : ~About(req, "count", key) /\ ~About(req, "target", key)
    BY <1>6 DEF Subscribe, About
  <2>3. PacketsOK'
    BY <1>1, <1>2, <2>1 DEF PacketsOK
  <2>4. Awaits(data, asked \cup {req}, Range(toClient)) => Awaits(data, asked, Range(toClient) \cup {})
    BY <1>5, <2>2, AwaitsAnswered
  <2> QED
    BY <1>2, <1>4, <2>1, <2>3, <2>4 DEF AllAwaited
<1>7. CASE req # Subscribe
  <2>1. PICK a : a = AnswerTo(show, req)
    OBVIOUS
  <2>2. toClient' = toClient \o a /\ subscribed' = subscribed
    BY <1>1, <1>7, <2>1 DEF Answer
  <2>3. PICK key : key = <<req.type, req.listId>>
    OBVIOUS
  <2>4. /\ a \in Seq(Command)
        /\ req.kind = "count" => \E i \in 1..Len(a) : About(a[i], "count", key)
        /\ req.kind = "target" => \E i \in 1..Len(a) : a[i] \in ReplyAbout(key, req.num)
    BY <1>1, <1>7, <2>1, <2>3, AnswerFacts DEF PacketsOK
  <2>5. toClient \o a \in Seq(Command) /\ Range(toClient \o a) = Range(toClient) \cup Range(a)
    BY <2>4, RangeOfJoin DEF PacketsOK
  <2>6. PacketsOK'
    BY <1>1, <1>2, <2>2, <2>5 DEF PacketsOK
  <2>7. \A i \in 1..Len(a) : a[i] \in Range(a)
    BY <2>4 DEF Range
  <2>8. ASSUME NEW k \in MirrorKey, req.type = k[1], req.listId = k[2] PROVE k = key
    BY <2>3, <2>8, MirrorKeyFacts
  <2>9. \A k \in MirrorKey : About(req, "count", k) => \E m \in Range(a) : About(m, "count", k)
    BY <2>4, <2>7, <2>8 DEF About
  <2>10. \A k \in MirrorKey, n \in Num : About(req, "target", k) /\ req.num = n =>
           \E m \in Range(a) : About(m, "target", k) /\ m.pathData.num = n
    <3> SUFFICES ASSUME NEW k \in MirrorKey, NEW n \in Num, About(req, "target", k), req.num = n
                 PROVE  \E m \in Range(a) : About(m, "target", k) /\ m.pathData.num = n
      OBVIOUS
    <3>1. req.kind = "target" /\ k = key
      BY <2>8 DEF About
    <3>2. PICK i \in 1..Len(a) : a[i] \in ReplyAbout(k, n)
      BY <2>4, <3>1
    <3>3. About(a[i], "target", k) /\ a[i].pathData.num = n
      BY <3>2 DEF ReplyAbout
    <3> QED
      BY <2>7, <3>3
  <2>11. Awaits(data, asked \cup {req}, Range(toClient)) =>
           Awaits(data, asked, Range(toClient) \cup Range(a))
    BY <1>5, <2>9, <2>10, AwaitsAnswered
  <2> QED
    BY <1>2, <1>4, <2>2, <2>5, <2>6, <2>11 DEF AllAwaited
<1> QED
  BY <1>6, <1>7

(***************************************************************************)
(* Whatever is announced is a command the library may get.                 *)
(***************************************************************************)
LEMMA AnnouncedIsCommand ==
  ASSUME show \in Shows
  PROVE  /\ Announcing(ShowEvent) \in Command
         /\ \A key \in MirrorKey, nums \in SUBSET (Num \ {0}), hasArgs \in BOOLEAN :
              /\ NotifyMessage(key, nums, hasArgs) \in Command
              /\ Announcing(NotifyMessage(key, nums, hasArgs)) \in Command
<1>1. Announcing(ShowEvent) \in Command
  <2>1. [ShowEvent EXCEPT !.before = show] = [kind |-> "show", before |-> show]
    BY DEF ShowEvent
  <2> QED
    BY <2>1 DEF Announcing, Event, Command
<1>2. ASSUME NEW key \in MirrorKey, NEW nums \in SUBSET (Num \ {0}), NEW hasArgs \in BOOLEAN,
             NEW before \in Shows \cup {Garbled},
             NEW m, m = [kind |-> "notify", type |-> key[1], listId |-> key[2], nums |-> nums,
                         hasArgs |-> hasArgs, before |-> before]
      PROVE  m \in Command
  <2>1. key = <<key[1], key[2]>> /\ key[1] \in TargetType /\ key[2] \in Nat
    BY MirrorKeyFacts
  <2>2. m \in [kind : {"notify"}, type : TargetType, listId : Nat, nums : SUBSET (Num \ {0}),
               hasArgs : BOOLEAN, before : Shows \cup {Garbled}]
    BY <1>2, <2>1
  <2>3. <<m.type, m.listId>> \in MirrorKey
    BY <1>2, <2>1
  <2> QED
    BY <2>2, <2>3 DEF Command, Notice, Keyed
<1>3. ASSUME NEW key \in MirrorKey, NEW nums \in SUBSET (Num \ {0}), NEW hasArgs \in BOOLEAN
      PROVE  /\ NotifyMessage(key, nums, hasArgs) \in Command
             /\ Announcing(NotifyMessage(key, nums, hasArgs)) \in Command
  <2>1. NotifyMessage(key, nums, hasArgs) =
          [kind |-> "notify", type |-> key[1], listId |-> key[2], nums |-> nums,
           hasArgs |-> hasArgs, before |-> Garbled]
    BY DEF NotifyMessage
  <2>2. Announcing(NotifyMessage(key, nums, hasArgs)) =
          [kind |-> "notify", type |-> key[1], listId |-> key[2], nums |-> nums,
           hasArgs |-> hasArgs, before |-> show]
    BY <2>1 DEF Announcing
  <2> QED
    BY <1>2, <2>1, <2>2
<1> QED
  BY <1>1, <1>3

(***************************************************************************)
(* The keys of a show are keys of the mirror, and its targets have numbers *)
(* a packet may name.                                                      *)
(***************************************************************************)
LEMMA ShowKeyFacts ==
  ASSUME NEW key \in ShowLists
  PROVE  key \in MirrorKey /\ \A k \in ShowTargets[key] : k[1] \in Num \ {0}
<1>1. key \in MirrorKey
  BY ShowTargetsAssumption DEF MirrorKey
<1>2. \A k \in ShowTargets[key] : k \in Key /\ k[1] >= 1
  BY ShowTargetsAssumption
<1>3. \A k \in Key : k[1] \in Num
  BY DEF Key
<1>4. ~(0 >= 1)
  OBVIOUS
<1>5. \A k \in ShowTargets[key] : k[1] # 0
  BY <1>2, <1>4
<1> QED
  BY <1>1, <1>2, <1>3, <1>5

(***************************************************************************)
(* A change of the show sends commands, and does nothing else to the       *)
(* library.                                                                *)
(***************************************************************************)
LEMMA ChangeKeeps ==
  ASSUME PacketsOK, GoodData(data), Change
  PROVE  PacketsOK' /\ (AllAwaited => AllAwaited') /\ UNCHANGED <<clientVars, unseen>>
<1>1. ASSUME NEW kind, NEW s, NEW announcement \in Seq(Command), ChangeShow(kind, s, announcement)
      PROVE  PacketsOK' /\ (AllAwaited => AllAwaited') /\ UNCHANGED <<clientVars, unseen>>
  <2>1. /\ UNCHANGED <<clientVars, unseen>> /\ UNCHANGED <<data, sendQ, toConsole, subscribed>>
        /\ show' = s /\ s \in Shows /\ edits' = edits + 1
        /\ toClient' = toClient \o announcement
    BY <1>1 DEF ChangeShow, clientVars
  <2>2. /\ toClient \o announcement \in Seq(Command)
        /\ Range(toClient) \subseteq Range(toClient \o announcement)
    BY RangeOfJoin DEF PacketsOK
  <2>3. PacketsOK'
    BY <2>1, <2>2 DEF PacketsOK
  <2>4. Requests' = Requests
    BY <2>1 DEF Requests
  <2>5. PICK asked, old, new : /\ asked = Requests /\ old = Range(toClient)
                               /\ new = Range(toClient \o announcement)
    OBVIOUS
  <2>6. \A d : Awaits(d, asked, old) => Awaits(d, asked, new)
    BY <2>2, <2>5, AwaitsMore
  <2>7. AllAwaited => AllAwaited'
    BY <2>1, <2>4, <2>5, <2>6 DEF AllAwaited
  <2> QED
    BY <2>1, <2>3, <2>7
<1>2. show \in Shows
  BY DEF PacketsOK
<1>3. ASSUME NEW m, NEW more \in Seq(Command), NEW messages, messages = <<m>> \o more,
             Announcing(m) \in Command, m \in Command
      PROVE  Notification(messages) \in Seq(Command)
  <2>1. Head(messages) = m /\ Tail(messages) = more
    BY <1>3
  <2>2. <<Announcing(m)>> \in Seq(Command) /\ <<>> \in Seq(Command)
    BY <1>3
  <2>3. <<Announcing(m)>> \o more \in Seq(Command)
    BY <2>2
  <2> QED
    BY <2>1, <2>2, <2>3 DEF Notification
<1>4. ASSUME NEW key \in MirrorKey, NEW nums \in SUBSET (Num \ {0}), NEW hasArgs \in BOOLEAN
      PROVE  Notification(<<NotifyMessage(key, nums, hasArgs)>>) \in Seq(Command)
  <2>1. PICK m, more : m = NotifyMessage(key, nums, hasArgs) /\ more = <<>>
    OBVIOUS
  <2>2. m \in Command /\ Announcing(m) \in Command /\ more \in Seq(Command)
    BY <1>2, <2>1, AnnouncedIsCommand
  <2>3. <<m>> = <<m>> \o more
    BY <2>1, <2>2
  <2> QED
    BY <1>3, <2>1, <2>2, <2>3
<1>5. CASE EditTarget
  <2>1. PICK key, k, s :
          /\ key \in ShowLists /\ k \in ShowTargets[key]
          /\ ChangeShow("target", s, Notification(<<NotifyMessage(key, {k[1]}, TRUE)>>))
    BY <1>5, Zenon DEF EditTarget
  <2>2. key \in MirrorKey /\ {k[1]} \in SUBSET (Num \ {0}) /\ TRUE \in BOOLEAN
    BY <2>1, ShowKeyFacts
  <2> QED
    BY <1>1, <1>4, <2>1, <2>2
<1>6. CASE SwapTargets
  <2>1. PICK key, j, k, s :
          /\ key \in ShowLists /\ j \in ShowTargets[key] /\ k \in ShowTargets[key]
          /\ ChangeShow("swap", s, Notification(<<NotifyMessage(key, {j[1], k[1]}, TRUE)>>))
    BY <1>6, Zenon DEF SwapTargets
  <2>2. key \in MirrorKey /\ {j[1], k[1]} \in SUBSET (Num \ {0}) /\ TRUE \in BOOLEAN
    BY <2>1, ShowKeyFacts
  <2> QED
    BY <1>1, <1>4, <2>1, <2>2
<1>7. CASE EditList
  <2>1. PICK key, s :
          /\ key \in ShowLists
          /\ ChangeShow("list", s, Notification(<<NotifyMessage(key, {}, FALSE)>>))
    BY <1>7, Zenon DEF EditList
  <2>2. key \in MirrorKey /\ {} \in SUBSET (Num \ {0}) /\ FALSE \in BOOLEAN
    BY <2>1, ShowKeyFacts
  <2> QED
    BY <1>1, <1>4, <2>1, <2>2
<1>8. CASE EditCueList
  <2> DEFINE lists == <<"CUELIST", 0>>
  <2>1. PICK key, f, s :
          /\ key \in ShowLists /\ key[1] = "CUE"
          /\ ChangeShow("cuelist", s,
               Notification(<<NotifyMessage(lists, {<<key[2], 0>>[1]}, TRUE),
                              NotifyMessage(key, {k[1] : k \in {k \in ShowTargets[key] :
                                                                  f[k] # show[key][k]}}, TRUE)>>))
    BY <1>8, Zenon DEF EditCueList
  <2>2. lists \in MirrorKey /\ {<<key[2], 0>>[1]} \in SUBSET (Num \ {0})
    <3>1. lists \in ShowLists /\ <<key[2], 0>> \in ShowTargets[lists]
      BY <2>1, ShowCuesAssumption
    <3> QED
      BY <3>1, ShowKeyFacts
  <2> DEFINE nums == {k[1] : k \in {k \in ShowTargets[key] : f[k] # show[key][k]}}
  <2>3. key \in MirrorKey /\ nums \in SUBSET (Num \ {0})
    BY <2>1, ShowKeyFacts
  <2> HIDE DEF nums, lists
  <2>4. PICK m, o : /\ m = NotifyMessage(lists, {<<key[2], 0>>[1]}, TRUE)
                    /\ o = NotifyMessage(key, nums, TRUE)
    OBVIOUS
  <2>5. m \in Command /\ Announcing(m) \in Command /\ o \in Command
    BY <1>2, <2>2, <2>3, <2>4, AnnouncedIsCommand
  <2>6. <<m, o>> = <<m>> \o <<o>> /\ <<o>> \in Seq(Command)
    <3>1. <<m>> \in Seq(Command) /\ <<o>> \in Seq(Command)
      BY <2>5
    <3>2. PICK p : p = <<m>> \o <<o>>
      OBVIOUS
    <3>3. p \in Seq(Command) /\ Len(p) = 2 /\ p[1] = m /\ p[2] = o
      BY <3>1, <3>2
    <3>4. p = <<m, o>>
      BY <3>3
    <3> QED
      BY <3>1, <3>2, <3>4
  <2>7. Notification(<<m, o>>) \in Seq(Command)
    BY <1>3, <2>5, <2>6
  <2>8. ChangeShow("cuelist", s, Notification(<<m, o>>))
    BY <2>1, <2>4 DEF nums, lists
  <2> QED
    BY <1>1, <2>7, <2>8
<1>9. CASE LoadShow
  <2>1. PICK s : ChangeShow("load", s, <<Announcing(ShowEvent)>>)
    BY <1>9 DEF LoadShow
  <2>2. <<Announcing(ShowEvent)>> \in Seq(Command)
    BY <1>2, AnnouncedIsCommand
  <2> QED
    BY <1>1, <2>1, <2>2
<1> QED
  BY <1>5, <1>6, <1>7, <1>8, <1>9 DEF Change

(***************************************************************************)
(* A library that has just been initialized.                               *)
(***************************************************************************)
LEMMA InitIInv == Init => IInv
<1> SUFFICES ASSUME Init PROVE IInv
  OBVIOUS
<1>1. /\ connect \in InitialConnect /\ data = NewData /\ sendQ = <<>> /\ toConsole = <<>>
      /\ toClient = <<>> /\ show \in InitialShows /\ subscribed = FALSE /\ edits = 0 /\ unseen = FALSE
  BY DEF Init, InitApart
<1>2. PacketsOK
  <2>1. <<>> \in Seq(Request) /\ <<>> \in Seq(Command)
    OBVIOUS
  <2> QED
    BY <1>1, <2>1, InitialShowsAssumption DEF PacketsOK
<1>3. GoodData(NewData) /\ \A requests, replies : Awaits(NewData, requests, replies)
  BY NewDataGood
<1> QED
  BY <1>1, <1>2, <1>3, ConnectAssumption DEF IInv, AllAwaited, ResyncIsDirty

(***************************************************************************)
(* A call of Tick with a connection.                                       *)
(***************************************************************************)
LEMMA TickKeeps ==
  ASSUME IInv, NEW n \in 0..Len(toClient), TickConnected(n)
  PROVE  IInv'
<1>1. PICK more, r, q :
        /\ more = (IF connect # "CONNECTED" THEN <<Subscribe>> ELSE <<>>)
        /\ r = DataTick(data, SubSeq(toClient, 1, n)) /\ q = sendQ \o more \o r.sent
        /\ connect' = "CONNECTED" /\ Becomes(r.data)
        /\ toClient' = SubSeq(toClient, n + 1, Len(toClient))
        /\ sendQ' = (IF q = <<>> THEN q ELSE Tail(q))
        /\ toConsole' = (IF q = <<>> THEN toConsole ELSE Append(toConsole, Head(q)))
        /\ UNCHANGED <<show, subscribed, edits>>
  BY DEF TickConnected, consoleVars
<1>2. more \in Seq(Request)
  <2>1. Subscribe \in Request
    BY DEF Request
  <2>2. <<Subscribe>> \in Seq(Request) /\ <<>> \in Seq(Request)
    BY <2>1
  <2> QED
    BY <1>1, <2>2
<1>3. /\ GoodData(data') /\ unseen' \in BOOLEAN /\ toClient' \in Seq(Command) /\ q \in Seq(Request)
      /\ ResyncIsDirty' /\ Awaits(data', Range(q) \cup Range(toConsole), Range(toClient'))
  <2>1. PICK cmds : cmds = SubSeq(toClient, 1, n)
    OBVIOUS
  <2> QED
    BY <1>1, <1>2, <2>1, MirrorTicks DEF IInv
<1>4. PICK w : w = toConsole /\ w \in Seq(Request)
  BY DEF IInv, PacketsOK
<1>5. sendQ' \in Seq(Request) /\ toConsole' \in Seq(Request)
      /\ Range(q) \cup Range(w) = Range(sendQ') \cup Range(toConsole')
  <2>1. q \in Seq(Request) /\ w \in Seq(Request)
    BY <1>3, <1>4
  <2>2. CASE q = <<>>
    BY <1>1, <1>4, <2>1, <2>2
  <2>3. CASE q # <<>>
    <3>1. PICK t, v : t = Tail(q) /\ v = Append(w, Head(q))
      OBVIOUS
    <3>2. t \in Seq(Request) /\ v \in Seq(Request)
          /\ Range(q) \cup Range(w) = Range(t) \cup Range(v)
      BY <2>1, <2>3, <3>1, SendQueueFacts
    <3>3. sendQ' = t /\ toConsole' = v
      BY <1>1, <1>4, <2>3, <3>1
    <3> QED
      BY <3>2, <3>3
  <2> QED
    BY <2>2, <2>3
<1>6. AllAwaited'
  BY <1>3, <1>4, <1>5 DEF AllAwaited, Requests
<1>7. PacketsOK'
  BY <1>1, <1>3, <1>5 DEF IInv, PacketsOK
<1> QED
  BY <1>1, <1>3, <1>6, <1>7 DEF IInv

(***************************************************************************)
(* Every step.                                                             *)
(***************************************************************************)
LEMMA NextIInv == IInv /\ [Next]_vars => IInv'
<1> SUFFICES ASSUME IInv, [Next]_vars PROVE IInv'
  OBVIOUS
<1>1. ASSUME UNCHANGED vars PROVE IInv'
  <2>1. UNCHANGED <<connect, data, sendQ, toConsole, toClient, show, subscribed, edits, unseen>>
    BY <1>1 DEF vars, clientVars, consoleVars
  <2>2. PacketsOK' /\ AllAwaited' /\ ResyncIsDirty' /\ GoodData(data')
    BY <2>1 DEF IInv, PacketsOK, AllAwaited, Requests, ResyncIsDirty, IsSynchronized
  <2> QED
    BY <2>1, <2>2 DEF IInv
<1>2. ASSUME NEW n \in 0..Len(toClient), Tick(n) PROVE IInv'
  BY <1>1, <1>2, TickKeeps DEF Tick
<1>3. CASE ClearDirtyFlag
  <2>1. PacketsOK' /\ GoodData(data') /\ ResyncIsDirty' /\ AllAwaited'
    BY <1>3, ClearingKeeps DEF IInv
  <2> QED
    BY <1>3, <2>1 DEF IInv, ClearDirtyFlag
<1>4. ASSUME PacketsOK', AllAwaited', UNCHANGED <<clientVars, unseen>> PROVE IInv'
  BY <1>4 DEF IInv, clientVars, ResyncIsDirty, IsSynchronized
<1>5. CASE Answer
  BY <1>4, <1>5, AnswerKeeps DEF IInv
<1>6. CASE Change
  BY <1>4, <1>6, ChangeKeeps DEF IInv
<1> QED
  BY <1>1, <1>2, <1>3, <1>5, <1>6 DEF Next

(***************************************************************************)
(* What the mirror looks like, and what is on its way, in every state.     *)
(***************************************************************************)
THEOREM InductiveInvariant == Spec => []IInv
BY InitIInv, NextIInv, PTL DEF Spec

(***************************************************************************)
(* The property in the words of the invariant.                             *)
(***************************************************************************)
LEMMA AwaitedIsAnswered == AllAwaited => WaitsAreAnswered
BY DEF AllAwaited, Awaits, ListAwaits, CountAwaited, TargetAwaited, WaitsAreAnswered,
       CountPending, TargetPending

(***************************************************************************)
(* Nothing the mirror waits for is lost: however requests, replies and     *)
(* announcements interleave, a list waiting for its count and an entry     *)
(* waiting for its target have a request or a reply on its way.            *)
(***************************************************************************)
THEOREM WaitsAreAnsweredAlways == Spec => []WaitsAreAnswered
<1>1. AllAwaited => WaitsAreAnswered
  BY AwaitedIsAnswered
<1>2. IInv => WaitsAreAnswered
  BY <1>1 DEF IInv
<1> QED
  BY <1>2, InductiveInvariant, PTL

(***************************************************************************)
(* What a good mirror says of a synchronised one.                          *)
(***************************************************************************)
LEMMA GoodDataIsSynchronized ==
  ASSUME GoodData(data) PROVE SynchronizedLists
<1> SUFFICES ASSUME data.status.value = "COMPLETE", NEW key \in DOMAIN data.lists, NEW l,
                    l = data.lists[key]
             PROVE  /\ l.status.value = "COMPLETE"
                    /\ l.numTargets = Cardinality(l.live)
                    /\ {n \in Num : l.entry[n] # "absent"} = {k[1] : k \in l.live}
                    /\ \A k \in l.live : GotAllProps(l.target[k].groups)
  BY DEF SynchronizedLists, IsSynchronized
<1>1. l.status.value = "COMPLETE" /\ GoodList(l)
  BY DEF GoodData, StatusGood, ListsGood, ListFor
<1>2. /\ l.numTargets = Cardinality(l.live)
      /\ \A n \in Num : l.entry[n] # "absent" => \E part \in Part : <<n, part>> \in l.live
      /\ \A k \in l.live : l.target[k].status.value = "COMPLETE"
      /\ \A k \in l.live : l.entry[k[1]] = "initialized" /\ TargetSound(l.target[k])
  BY <1>1 DEF GoodList, CountGood, CompleteGood, TargetsGood
<1>3. \A k \in l.live : k[1] \in Num
  BY <1>1 DEF GoodList, TypeGood, ListOf, Key
<1>4. \A k \in l.live : GotAllProps(l.target[k].groups)
  BY <1>2 DEF TargetSound
<1>5. \A n, part : <<n, part>>[1] = n
  OBVIOUS
<1>6. {n \in Num : l.entry[n] # "absent"} \subseteq {k[1] : k \in l.live}
  <2> SUFFICES ASSUME NEW n \in Num, l.entry[n] # "absent"
               PROVE  \E k \in l.live : n = k[1]
    OBVIOUS
  <2>1. PICK part : <<n, part>> \in l.live
    BY <1>2
  <2> QED
    BY <1>5, <2>1
<1>7. {k[1] : k \in l.live} \subseteq {n \in Num : l.entry[n] # "absent"}
  BY <1>2, <1>3
<1> QED
  BY <1>1, <1>2, <1>4, <1>6, <1>7

(***************************************************************************)
(* A synchronised mirror is complete: every list has a target for each of  *)
(* its entries and no others, each with all its property groups, and       *)
(* counts them rightly.                                                    *)
(***************************************************************************)
THEOREM SynchronizedListsAlways == Spec => []SynchronizedLists
<1>1. IInv => SynchronizedLists
  BY GoodDataIsSynchronized DEF IInv
<1> QED
  BY <1>1, InductiveInvariant, PTL

(***************************************************************************)
(* A mirror that has resynchronised since the application last read the    *)
(* dirty flag still says so, whatever has happened to it in between.       *)
(***************************************************************************)
THEOREM ResyncIsDirtyAlways == Spec => []ResyncIsDirty
<1>1. IInv => ResyncIsDirty
  BY DEF IInv
<1> QED
  BY <1>1, InductiveInvariant, PTL
=============================================================================
