-------------------------- MODULE TargetListLemmas --------------------------
(***************************************************************************)
(* Lemmas about the methods of EosTargetList and of what it is made of:    *)
(* called on a good list, each returns a good list.  They hold for every   *)
(* type of list, every set of target numbers and parts, and every property *)
(* value, and are used for one list (TargetListProofs) and for the mirror  *)
(* of a whole show (EosSyncProofs).                                        *)
(***************************************************************************)
EXTENDS EosTargetList, FiniteSetTheorems, TLAPS

----------------------------------------------------------------------------
(* The status object. *)

(***************************************************************************)
(* The methods of EosSyncStatus produce a status.                          *)
(***************************************************************************)
LEMMA StatusType ==
  /\ NewStatus \in SyncStatus
  /\ \A s \in SyncStatus, v \in SyncStatusValue : SetValue(s, v) \in SyncStatus
  /\ \A s \in SyncStatus : SetDirty(s) \in SyncStatus /\ ClearDirty(s) \in SyncStatus
  /\ \A s, c \in SyncStatus : UpdateFromChild(s, c) \in SyncStatus
BY DEF NewStatus, SyncStatus, SyncStatusValue, SetValue, SetDirty, ClearDirty, UpdateFromChild

(***************************************************************************)
(* SetValue sets the value, and the dirty flag if that is a change.        *)
(***************************************************************************)
LEMMA SetValueFacts ==
  ASSUME NEW s \in SyncStatus, NEW v \in SyncStatusValue
  PROVE  /\ SetValue(s, v).value = v
         /\ SetValue(s, v).dirty <=> s.dirty \/ s.value # v
BY DEF SyncStatus, SetValue

(***************************************************************************)
(* What UpdateFromChild does to a parent: it never completes it, it leaves *)
(* COMPLETE unless the child is COMPLETE, and it takes over its dirt.      *)
(***************************************************************************)
LEMMA UpdateFromChildFacts ==
  ASSUME NEW s \in SyncStatus, NEW c \in SyncStatus
  PROVE  LET u == UpdateFromChild(s, c)
         IN  /\ u.value = "COMPLETE" => s.value = "COMPLETE" /\ c.value = "COMPLETE"
             /\ u.value = "UNINITIALIZED" <=> s.value = "UNINITIALIZED"
             /\ u.dirty <=> s.dirty \/ c.dirty \/ u.value # s.value
BY DEF SyncStatus, SyncStatusValue, SetValue, UpdateFromChild

----------------------------------------------------------------------------
(* One target. *)

(***************************************************************************)
(* A function on an initial segment of the positive numbers is a sequence. *)
(***************************************************************************)
LEMMA FunctionIsSeq ==
  ASSUME NEW S, NEW n \in Nat, NEW f \in [1..n -> S]
  PROVE  f \in Seq(S)
OBVIOUS

(***************************************************************************)
(* A group's properties stay a sequence of properties.                     *)
(***************************************************************************)
LEMMA StoreArgsType ==
  ASSUME NEW props \in Seq(Property), NEW args \in Seq(Val), NEW pathData,
         pathData.isList = FALSE
  PROVE  StoreArgs(props, args, pathData) \in Seq(Property)
<1> DEFINE sized == IF Len(args) # 0 THEN Resized(props, Len(args)) ELSE props
           stored == [j \in 1..Len(sized) |->
                        IF j <= Len(args) THEN [initialized |-> TRUE, value |-> args[j]]
                        ELSE sized[j]]
<1>1. Resized(props, Len(args)) \in [1..Len(args) -> Property]
  <2>1. [initialized |-> FALSE, value |-> Empty] \in Property
    BY EmptyAssumption DEF Property
  <2>2. /\ Len(props) \in Nat /\ Len(args) \in Nat
        /\ \A j \in 1..Len(props) : props[j] \in Property
    OBVIOUS
  <2> QED
    BY <2>1, <2>2 DEF Resized
<1>2. sized \in Seq(Property)
  BY <1>1, FunctionIsSeq
<1>3. stored \in [1..Len(sized) -> Property]
  <2>1. \A j \in 1..Len(sized) : sized[j] \in Property
    BY <1>2
  <2>2. \A j \in 1..Len(sized) : j <= Len(args) =>
          [initialized |-> TRUE, value |-> args[j]] \in Property
    <3>1. Len(sized) \in Nat /\ Len(args) \in Nat
      BY <1>2
    <3>2. \A j \in 1..Len(args) : args[j] \in Val
      OBVIOUS
    <3> HIDE DEF sized
    <3> QED
      BY <3>1, <3>2 DEF Property
  <2> HIDE DEF sized
  <2> QED
    BY <2>1, <2>2
<1>4. stored \in Seq(Property)
  <2> HIDE DEF sized, stored
  <2> QED
    BY <1>2, <1>3, FunctionIsSeq
<1> QED
  BY <1>4 DEF StoreArgs

(***************************************************************************)
(* A new target is one of its type.                                        *)
(***************************************************************************)
LEMMA NewTargetType ==
  ASSUME NEW type PROVE NewTarget(type) \in Target(type)
<1>1. <<>> \in Seq(Property)
  OBVIOUS
<1> QED
  BY <1>1, StatusType DEF NewTarget, Target, PropertyGroup

(***************************************************************************)
(* A reply leaves a target of the type, ends its UNINITIALIZED phase, and  *)
(* does not touch a target that is COMPLETE.                               *)
(***************************************************************************)
LEMMA TargetRecvType ==
  ASSUME NEW type, NEW t \in Target(type), NEW args \in Seq(Val), NEW pathData,
         pathData.isList = FALSE
  PROVE  LET r == TargetRecv(t, args, pathData)
         IN  /\ r \in Target(type)
             /\ r.status.value # "UNINITIALIZED"
             /\ t.status.value = "COMPLETE" => r = t
             /\ t.status.dirty => r.status.dirty
<1> DEFINE g       == pathData.group
           running == SetValue(t.status, "RUNNING")
           groups  == [t.groups EXCEPT ![g] =
                         [initialized |-> TRUE,
                          props |-> StoreArgs(t.groups[g].props, args, pathData)]]
           done    == IF GotAllProps(groups) THEN SetValue(running, "COMPLETE") ELSE running
<1>1. t.status \in SyncStatus /\ t.groups \in [PropGroups(type) -> PropertyGroup]
  BY DEF Target
<1>2. running \in SyncStatus /\ done \in SyncStatus
  BY <1>1, StatusType DEF SyncStatusValue
<1>3. /\ running.value = "RUNNING" /\ done.value \in {"RUNNING", "COMPLETE"}
      /\ t.status.dirty => running.dirty /\ done.dirty
  BY <1>1 DEF SetValue, SyncStatus
<1>4. CASE t.status.value = "COMPLETE"
  BY <1>4 DEF TargetRecv
<1>5. CASE t.status.value # "COMPLETE" /\ g \notin DOMAIN t.groups
  <2>1. TargetRecv(t, args, pathData) = [t EXCEPT !.status = running]
    BY <1>5 DEF TargetRecv
  <2> QED
    BY <2>1, <1>1, <1>2, <1>3, <1>5 DEF Target
<1>6. CASE t.status.value # "COMPLETE" /\ g \in DOMAIN t.groups
  <2>1. TargetRecv(t, args, pathData) = [status |-> done, groups |-> groups]
    BY <1>6 DEF TargetRecv
  <2>2. t.groups[g].props \in Seq(Property)
    BY <1>1, <1>6 DEF PropertyGroup
  <2>3. StoreArgs(t.groups[g].props, args, pathData) \in Seq(Property)
    BY <2>2, StoreArgsType
  <2>4. groups \in [PropGroups(type) -> PropertyGroup]
    BY <1>1, <1>6, <2>3 DEF PropertyGroup
  <2> HIDE DEF groups, done, running
  <2> QED
    BY <2>1, <2>4, <1>2, <1>3, <1>6 DEF Target
<1> QED
  BY <1>4, <1>5, <1>6

\* A COMPLETE target has every property of every group.
TargetSound(t) == t.status.value = "COMPLETE" => GotAllProps(t.groups)

(***************************************************************************)
(* A target becomes COMPLETE only with the last property it lacked.        *)
(***************************************************************************)
LEMMA TargetRecvSound ==
  ASSUME NEW t, TargetSound(t), NEW args, NEW pathData
  PROVE  TargetSound(TargetRecv(t, args, pathData))
BY DEF TargetSound, TargetRecv, SetValue

----------------------------------------------------------------------------
(***************************************************************************)
(* The inductive invariant.  The properties of TargetListMachine are not   *)
(* inductive one by one: a list stays COMPLETE only because the counter,   *)
(* the handshake and the targets agree, and the UID map stays sound only   *)
(* because every pointer in it is to a live object.  GoodList is their     *)
(* conjunction, strengthened by what a list looks like in each phase of    *)
(* the handshake.  It is stated of any list, so that each method has a     *)
(* lemma of its own: called on a good list, it returns a good list.        *)
(***************************************************************************)
TypeGood(l) == l \in ListOf(l.type, l.listId)

CountGood(l) == IsFiniteSet(l.live) /\ l.numTargets = Cardinality(l.live)

UidGood(l) ==
  \A u \in Uid : l.uidLookup[u] # NoTarget =>
    /\ l.uidLookup[u] \in l.live
    /\ \A v \in Uid : l.uidLookup[v] = l.uidLookup[u] => v = u

\* Before the count has arrived the list is empty, afterwards its status is set.
PhaseGood(l) ==
  /\ l.internal # "COMPLETE" =>
       /\ l.live = {} /\ l.status.value = "UNINITIALIZED" /\ ~l.complete
       /\ \A n \in Num : l.entry[n] = "absent"
  /\ l.internal = "COMPLETE" => l.status.value # "UNINITIALIZED"

TargetsGood(l) ==
  /\ \A k \in l.live : l.entry[k[1]] = "initialized" /\ TargetSound(l.target[k])
  /\ \A k \in Key \ l.live : l.target[k] = NewTarget(l.type)

CompleteGood(l) ==
  l.status.value = "COMPLETE" =>
    /\ l.complete
    /\ \A n \in Num : l.entry[n] # "absent" => \E part \in Part : <<n, part>> \in l.live
    /\ \A k \in l.live : l.target[k].status.value = "COMPLETE"

DirtyGood(l) == \A k \in l.live : l.target[k].status.dirty => l.status.dirty

GoodList(l) ==
  /\ TypeGood(l) /\ CountGood(l) /\ UidGood(l) /\ PhaseGood(l)
  /\ TargetsGood(l) /\ CompleteGood(l) /\ DirtyGood(l)

\* From l to m no change goes unnoticed, and COMPLETE targets stay or go.
GoodStep(l, m) ==
  /\ m.status.value = "COMPLETE" /\ ~m.status.dirty =>
       l.status.value = "COMPLETE" /\ ~l.status.dirty /\ Content(m) = Content(l)
  /\ \A k \in l.live : l.target[k].status.value = "COMPLETE" =>
       m.target[k].groups \in {l.target[k].groups, NewTarget(l.type).groups}

----------------------------------------------------------------------------
(* Facts the lemmas about the methods share. *)

(***************************************************************************)
(* A list of a type, field by field.                                       *)
(***************************************************************************)
LEMMA ListFields ==
  ASSUME NEW l, l \in ListOf(l.type, l.listId)
  PROVE  /\ l.entry \in [Num -> EntryState]
         /\ l.live \in SUBSET Key /\ l.target \in [Key -> Target(l.type)]
         /\ l.numTargets \in Int /\ l.uidLookup \in [Uid -> Key \cup {NoTarget}]
         /\ l.status \in SyncStatus /\ l.internal \in InternalState
         /\ l.count \in Nat /\ l.complete \in BOOLEAN
         /\ l.status.value \in SyncStatusValue /\ l.status.dirty \in BOOLEAN
BY DEF ListOf, SyncStatus

(***************************************************************************)
(* A key is a number and a part, and NoTarget is no key.                   *)
(***************************************************************************)
LEMMA KeyFacts ==
  /\ \A k \in Key : k[1] \in Num /\ k[2] \in Part /\ k = <<k[1], k[2]>>
  /\ NoTarget \notin Key
BY NoTargetAssumption DEF Key

(***************************************************************************)
(* A new target is sound and clean: it lacks its base group.               *)
(***************************************************************************)
LEMMA NewTargetSound ==
  ASSUME NEW type
  PROVE  /\ TargetSound(NewTarget(type)) /\ ~NewTarget(type).status.dirty
         /\ NewTarget(type).status.value = "UNINITIALIZED"
BY DEF TargetSound, NewTarget, NewStatus

----------------------------------------------------------------------------
(* One lemma for each method of the list. *)

(***************************************************************************)
(* A new list is good, and Clear makes any list as good as new.            *)
(***************************************************************************)
LEMMA NewListGood ==
  ASSUME NEW type, NEW listId
  PROVE  /\ GoodList(NewList(type, listId))
         /\ NewList(type, listId).type = type /\ NewList(type, listId).listId = listId
<1> DEFINE l == NewList(type, listId)
<1>1. /\ l.type = type /\ l.listId = listId /\ l.live = {} /\ l.target = [k \in Key |-> NewTarget(type)]
      /\ l.entry = [n \in Num |-> "absent"] /\ l.numTargets = 0
      /\ l.uidLookup = [u \in Uid |-> NoTarget] /\ l.status = NewStatus
      /\ l.internal = "UNINITIALIZED" /\ l.complete = FALSE
  BY DEF NewList
<1>2. TypeGood(l)
  <2>1. [k \in Key |-> NewTarget(type)] \in [Key -> Target(type)]
    BY NewTargetType
  <2>2. /\ [n \in Num |-> "absent"] \in [Num -> EntryState]
        /\ [u \in Uid |-> NoTarget] \in [Uid -> Key \cup {NoTarget}]
    BY DEF EntryState
  <2> QED
    BY <2>1, <2>2, StatusType DEF TypeGood, NewList, ListOf, InternalState
<1>3. CountGood(l)
  BY <1>1, FS_EmptySet DEF CountGood
<1>4. UidGood(l)
  BY <1>1 DEF UidGood
<1>5. PhaseGood(l)
  BY <1>1 DEF PhaseGood, NewStatus
<1>6. TargetsGood(l)
  BY <1>1 DEF TargetsGood
<1>7. CompleteGood(l) /\ DirtyGood(l)
  BY <1>1 DEF CompleteGood, DirtyGood, NewStatus
<1> QED
  BY <1>1, <1>2, <1>3, <1>4, <1>5, <1>6, <1>7 DEF GoodList

LEMMA ClearListGood ==
  ASSUME NEW l, TypeGood(l)
  PROVE  /\ GoodList(ClearList(l)) /\ ClearList(l).type = l.type /\ ClearList(l).listId = l.listId
         /\ GoodStep(l, ClearList(l))
<1> DEFINE n == NewList(l.type, l.listId)
           m == ClearList(l)
<1>1. l.status \in SyncStatus /\ l.target \in [Key -> Target(l.type)]
      /\ l.live \in SUBSET Key
  BY ListFields DEF TypeGood
<1>2. m = [n EXCEPT !.status = SetValue(l.status, "UNINITIALIZED")]
  BY <1>1 DEF ClearList
<1>3. GoodList(n) /\ n.type = l.type /\ n.listId = l.listId
  BY NewListGood
<1>4. /\ m.type = n.type /\ m.listId = n.listId /\ m.live = {} /\ m.target = [k \in Key |-> NewTarget(l.type)]
      /\ m.entry = n.entry /\ m.numTargets = n.numTargets /\ n.live = {}
      /\ m.uidLookup = n.uidLookup /\ m.internal = n.internal /\ m.complete = n.complete
      /\ m.internal = "UNINITIALIZED" /\ n.target = m.target
      /\ m.status = SetValue(l.status, "UNINITIALIZED")
  BY <1>2 DEF NewList
<1>5. m.status.value = "UNINITIALIZED" /\ m.status \in SyncStatus
  <2> HIDE DEF m
  <2>1. m.status \in SyncStatus
    BY <1>1, <1>4, StatusType DEF SyncStatusValue
  <2> QED
    BY <2>1, <1>4 DEF SetValue
<1>6. TypeGood(m)
  <2> HIDE DEF n, m
  <2>1. n \in ListOf(n.type, n.listId)
    BY <1>3 DEF GoodList, TypeGood
  <2> QED
    BY <2>1, <1>2, <1>4, <1>5 DEF TypeGood, ListOf
<1>7. CountGood(m) /\ UidGood(m)
  <2> HIDE DEF n, m
  <2> QED
    BY <1>3, <1>4 DEF GoodList, CountGood, UidGood
<1>8. PhaseGood(m)
  <2> HIDE DEF n, m
  <2> QED
    BY <1>3, <1>4, <1>5 DEF GoodList, PhaseGood
<1>9. TargetsGood(m) /\ CompleteGood(m) /\ DirtyGood(m)
  <2> HIDE DEF n, m
  <2> QED
    BY <1>3, <1>4, <1>5 DEF TargetsGood, CompleteGood, DirtyGood
<1>10. GoodStep(l, m)
  <2> HIDE DEF n, m
  <2>1. \A k \in l.live : m.target[k] = NewTarget(l.type)
    BY <1>1, <1>4
  <2> QED
    BY <2>1, <1>5 DEF GoodStep
<1> QED
  BY <1>3, <1>4, <1>6, <1>7, <1>8, <1>9, <1>10 DEF GoodList

(***************************************************************************)
(* A dummy list is good, and reports that it is synchronised.              *)
(***************************************************************************)
LEMMA DummyGood ==
  ASSUME NEW l, TypeGood(l)
  PROVE  GoodList(InitializeAsDummy(l)) /\ InitializeAsDummy(l).type = l.type /\ InitializeAsDummy(l).listId = l.listId
<1> DEFINE c == ClearList(l)
           m == InitializeAsDummy(l)
<1>1. GoodList(c) /\ c.type = l.type /\ c.listId = l.listId
  BY ClearListGood
<1>2. c.live = {} /\ c.status.value = "UNINITIALIZED" /\ c.entry = [n \in Num |-> "absent"]
      /\ c.target = [k \in Key |-> NewTarget(l.type)]
  <2>1. c.status = SetValue(l.status, "UNINITIALIZED")
    BY DEF ClearList, NewList
  <2>2. l.status \in SyncStatus
    BY ListFields DEF TypeGood
  <2>3. c.status.value = "UNINITIALIZED"
    BY <2>1, <2>2 DEF SetValue, SyncStatus
  <2> QED
    BY <2>3 DEF ClearList, NewList
<1>3. m = [c EXCEPT !.internal = "COMPLETE", !.complete = TRUE,
                    !.status = SetValue(c.status, "COMPLETE")]
  BY DEF InitializeAsDummy
<1> HIDE DEF c, m
<1>4. c \in ListOf(c.type, c.listId) /\ c.status \in SyncStatus
  BY <1>1, ListFields DEF GoodList, TypeGood
<1>5. SetValue(c.status, "COMPLETE") \in SyncStatus
      /\ SetValue(c.status, "COMPLETE").value = "COMPLETE"
  BY <1>4, StatusType DEF SyncStatusValue, SetValue, SyncStatus
<1>6. /\ m.live = c.live /\ m.target = c.target /\ m.entry = c.entry /\ m.type = c.type /\ m.listId = c.listId
      /\ m.numTargets = c.numTargets /\ m.uidLookup = c.uidLookup
      /\ m.internal = "COMPLETE" /\ m.complete = TRUE
      /\ m.status = SetValue(c.status, "COMPLETE")
  BY <1>3, <1>4 DEF ListOf
<1>7. TypeGood(m)
  BY <1>3, <1>4, <1>5 DEF TypeGood, ListOf, InternalState
<1>8. CountGood(m) /\ UidGood(m)
  BY <1>1, <1>6 DEF GoodList, CountGood, UidGood
<1>9. PhaseGood(m) /\ TargetsGood(m) /\ CompleteGood(m) /\ DirtyGood(m)
  BY <1>1, <1>2, <1>5, <1>6 DEF PhaseGood, TargetsGood, CompleteGood, DirtyGood
<1>10. GoodList(m) /\ m.type = l.type /\ m.listId = l.listId
  BY <1>1, <1>6, <1>7, <1>8, <1>9 DEF GoodList
<1> QED
  BY <1>10 DEF m

(***************************************************************************)
(* DeleteTargets leaves a typed list whose counter and UID map agree with  *)
(* the targets that are left.  The entries are the callers' business.      *)
(***************************************************************************)
LEMMA DeleteTargetsFacts ==
  ASSUME NEW l, GoodList(l), NEW dead, dead \subseteq l.live
  PROVE  LET m == DeleteTargets(l, dead)
         IN  /\ TypeGood(m) /\ CountGood(m) /\ UidGood(m)
             /\ m.type = l.type /\ m.listId = l.listId /\ m.live = l.live \ dead /\ m.entry = l.entry
             /\ m.status = l.status /\ m.internal = l.internal /\ m.complete = l.complete
             /\ \A k \in Key : m.target[k] = IF k \in dead THEN NewTarget(l.type) ELSE l.target[k]
<1> DEFINE m      == DeleteTargets(l, dead)
           target == [k \in Key |-> IF k \in dead THEN NewTarget(l.type) ELSE l.target[k]]
           lookup == [u \in Uid |-> IF l.uidLookup[u] \in dead THEN NoTarget ELSE l.uidLookup[u]]
<1>1. l \in ListOf(l.type, l.listId)
  BY DEF GoodList, TypeGood
<1>2. m = [l EXCEPT !.live = l.live \ dead, !.target = target, !.uidLookup = lookup,
                    !.numTargets = l.numTargets - Cardinality(dead)]
  BY DEF DeleteTargets
<1>3. /\ IsFiniteSet(l.live) /\ IsFiniteSet(dead) /\ Cardinality(dead) \in Nat
      /\ Cardinality(l.live \ dead) = l.numTargets - Cardinality(dead)
      /\ IsFiniteSet(l.live \ dead)
  <2>1. IsFiniteSet(l.live) /\ l.numTargets = Cardinality(l.live)
    BY DEF GoodList, CountGood
  <2>2. IsFiniteSet(dead) /\ Cardinality(dead) \in Nat /\ Cardinality(l.live) \in Nat
    BY <2>1, FS_Subset, FS_CardinalityType
  <2>3. /\ IsFiniteSet(l.live \ dead)
        /\ Cardinality(l.live \ dead) = Cardinality(l.live) - Cardinality(l.live \cap dead)
    BY <2>1, FS_Difference
  <2>4. l.live \cap dead = dead
    OBVIOUS
  <2> QED
    BY <2>1, <2>2, <2>3, <2>4
<1>4. target \in [Key -> Target(l.type)] /\ lookup \in [Uid -> Key \cup {NoTarget}]
  BY <1>1, ListFields, NewTargetType
<1>5. /\ m.type = l.type /\ m.listId = l.listId /\ m.live = l.live \ dead /\ m.entry = l.entry
      /\ m.status = l.status /\ m.internal = l.internal /\ m.complete = l.complete
      /\ m.target = target /\ m.uidLookup = lookup
      /\ m.numTargets = l.numTargets - Cardinality(dead)
  <2> HIDE DEF m, target, lookup
  <2> QED
    BY <1>1, <1>2 DEF ListOf
<1>6. TypeGood(m)
  <2> HIDE DEF m, target, lookup
  <2>1. l.live \ dead \in SUBSET Key /\ l.numTargets - Cardinality(dead) \in Int
    BY <1>1, <1>3, ListFields
  <2>2. m \in ListOf(l.type, l.listId)
    BY <1>1, <1>2, <1>4, <2>1 DEF ListOf
  <2> QED
    BY <1>5, <2>2 DEF TypeGood
<1>7. CountGood(m)
  BY <1>3, <1>5 DEF CountGood
<1>8. UidGood(m)
  <2>1. \A u \in Uid : lookup[u] # NoTarget => lookup[u] = l.uidLookup[u] /\ l.uidLookup[u] \notin dead
    OBVIOUS
  <2>2. UidGood(l)
    BY DEF GoodList
  <2> HIDE DEF m, lookup, target
  <2> QED
    BY <1>5, <2>1, <2>2 DEF UidGood
<1> QED
  BY <1>5, <1>6, <1>7, <1>8

(***************************************************************************)
(* A step that leaves targets, counter and UID map alone keeps what        *)
(* GoodList says of them.                                                  *)
(***************************************************************************)
LEMMA SameTargets ==
  ASSUME NEW l, GoodList(l), NEW m,
         m.live = l.live, m.target = l.target, m.numTargets = l.numTargets,
         m.uidLookup = l.uidLookup, m.type = l.type /\ m.listId = l.listId,
         l.status.dirty => m.status.dirty,
         \A n \in Num : l.entry[n] = "initialized" => m.entry[n] = "initialized"
  PROVE  /\ CountGood(m) /\ UidGood(m) /\ TargetsGood(m) /\ DirtyGood(m)
         /\ \A k \in l.live : m.target[k].groups = l.target[k].groups
         /\ Content(m) = Content(l)
<1>1. l.live \in SUBSET Key
  BY ListFields DEF GoodList, TypeGood
<1>2. \A k \in l.live : k[1] \in Num
  BY <1>1, KeyFacts
<1>3. CountGood(m) /\ UidGood(m)
  BY DEF GoodList, CountGood, UidGood
<1>4. TargetsGood(m) /\ DirtyGood(m)
  BY <1>2 DEF GoodList, TargetsGood, DirtyGood
<1>5. Content(m) = Content(l)
  BY DEF Content
<1> QED
  BY <1>3, <1>4, <1>5

(***************************************************************************)
(* Tick: the list becomes COMPLETE only when nothing is outstanding.       *)
(***************************************************************************)
LEMMA TickListGood ==
  ASSUME NEW l, GoodList(l)
  PROVE  GoodList(TickList(l)) /\ TickList(l).type = l.type /\ TickList(l).listId = l.listId /\ GoodStep(l, TickList(l))
<1> DEFINE m == TickList(l)
<1>1. l \in ListOf(l.type, l.listId) /\ l.status \in SyncStatus /\ l.live \in SUBSET Key
      /\ l.entry \in [Num -> EntryState] /\ l.status.value \in SyncStatusValue
  BY ListFields DEF GoodList, TypeGood
<1>2. CASE m = l
  BY <1>2 DEF GoodStep
<1>3. CASE l.internal = "UNINITIALIZED" /\ m = [l EXCEPT !.internal = "RUNNING"]
  <2> HIDE DEF m
  <2>1. /\ m.live = l.live /\ m.target = l.target /\ m.numTargets = l.numTargets
        /\ m.uidLookup = l.uidLookup /\ m.type = l.type /\ m.listId = l.listId /\ m.status = l.status
        /\ m.entry = l.entry /\ m.internal = "RUNNING" /\ m.complete = l.complete
    BY <1>1, <1>3 DEF ListOf
  <2>2. TypeGood(m)
    BY <1>1, <1>3 DEF TypeGood, ListOf, InternalState
  <2>3. PhaseGood(m) /\ CompleteGood(m)
    BY <1>3, <2>1 DEF GoodList, PhaseGood, CompleteGood
  <2>4. /\ CountGood(m) /\ UidGood(m) /\ TargetsGood(m) /\ DirtyGood(m)
        /\ Content(m) = Content(l)
    BY <2>1, SameTargets
  <2>5. GoodList(m) /\ m.type = l.type /\ m.listId = l.listId /\ GoodStep(l, m)
    BY <2>1, <2>2, <2>3, <2>4 DEF GoodList, GoodStep
  <2> QED
    BY <2>5 DEF m
<1>4. CASE /\ CanRequest(l) /\ AllTargetsComplete(l)
           /\ m = [l EXCEPT !.complete = TRUE, !.status = SetValue(l.status, "COMPLETE")]
  <2> HIDE DEF m
  <2>1. /\ m.live = l.live /\ m.target = l.target /\ m.numTargets = l.numTargets
        /\ m.uidLookup = l.uidLookup /\ m.type = l.type /\ m.listId = l.listId
        /\ m.entry = l.entry /\ m.internal = l.internal /\ m.complete = TRUE
        /\ m.status = SetValue(l.status, "COMPLETE")
    BY <1>1, <1>4 DEF ListOf
  <2>2. l.internal = "COMPLETE" /\ l.status.value = "RUNNING"
    BY <1>4 DEF CanRequest
  <2>3. m.status \in SyncStatus /\ m.status.value = "COMPLETE" /\ m.status.dirty
    <3>1. m.status \in SyncStatus
      BY <1>1, <2>1, StatusType DEF SyncStatusValue
    <3>2. m.status.value = "COMPLETE" /\ m.status.dirty
      BY <1>1, <2>1, <2>2, SetValueFacts DEF SyncStatusValue
    <3> QED
      BY <3>1, <3>2
  <2>4. TypeGood(m)
    <3>1. m \in ListOf(l.type, l.listId)
      BY <1>1, <1>4, <2>1, <2>3 DEF ListOf
    <3> QED
      BY <2>1, <3>1 DEF TypeGood
  <2>5. PhaseGood(m)
    BY <2>1, <2>2, <2>3 DEF PhaseGood
  <2>6. CompleteGood(m)
    <3>1. \A n \in Num : l.entry[n] # "absent" => \E part \in Part : <<n, part>> \in l.live
      <4>1. \A n \in Num : l.entry[n] # "absent" => \E k \in l.live : k[1] = n
        BY <1>4 DEF AllTargetsComplete, LivePartsOf
      <4> QED
        BY <4>1, <1>1, KeyFacts
    <3>2. \A k \in l.live : l.target[k].status.value = "COMPLETE"
      <4>1. \A k \in l.live : k[1] \in Num /\ l.entry[k[1]] = "initialized"
        BY <1>1, KeyFacts DEF GoodList, TargetsGood
      <4> QED
        BY <1>4, <4>1 DEF AllTargetsComplete, LivePartsOf
    <3> QED
      BY <2>1, <3>1, <3>2 DEF CompleteGood
  <2>7. /\ CountGood(m) /\ UidGood(m) /\ TargetsGood(m) /\ DirtyGood(m)
        /\ Content(m) = Content(l)
    BY <2>1, <2>3, SameTargets
  <2>8. GoodList(m) /\ m.type = l.type /\ m.listId = l.listId /\ GoodStep(l, m)
    BY <2>1, <2>3, <2>4, <2>5, <2>6, <2>7 DEF GoodList, GoodStep
  <2> QED
    BY <2>8 DEF m
<1>5. CASE CanRequest(l) /\ m = RequestPlaceholders(l)
  <2> DEFINE entry == [n \in Num |-> IF l.entry[n] = "uninitialized" THEN "initialized"
                                     ELSE l.entry[n]]
  <2>1. m = [l EXCEPT !.entry = entry]
    BY <1>5 DEF RequestPlaceholders
  <2>2. entry \in [Num -> EntryState]
    BY <1>1 DEF EntryState
  <2>3. \A n \in Num : l.entry[n] = "initialized" => entry[n] = "initialized"
    OBVIOUS
  <2> HIDE DEF m, entry
  <2>4. /\ m.live = l.live /\ m.target = l.target /\ m.numTargets = l.numTargets
        /\ m.uidLookup = l.uidLookup /\ m.type = l.type /\ m.listId = l.listId /\ m.status = l.status
        /\ m.entry = entry /\ m.internal = l.internal /\ m.complete = l.complete
    BY <1>1, <2>1 DEF ListOf
  <2>5. l.internal = "COMPLETE" /\ l.status.value = "RUNNING"
    BY <1>5 DEF CanRequest
  <2>6. TypeGood(m)
    BY <1>1, <2>1, <2>2 DEF TypeGood, ListOf
  <2>7. PhaseGood(m) /\ CompleteGood(m)
    BY <2>4, <2>5 DEF PhaseGood, CompleteGood
  <2>8. /\ CountGood(m) /\ UidGood(m) /\ TargetsGood(m) /\ DirtyGood(m)
        /\ Content(m) = Content(l)
    BY <2>3, <2>4, SameTargets
  <2>9. GoodList(m) /\ m.type = l.type /\ m.listId = l.listId /\ GoodStep(l, m)
    BY <2>4, <2>5, <2>6, <2>7, <2>8 DEF GoodList, GoodStep
  <2> QED
    BY <2>9 DEF m
<1> QED
  <2>1. \/ m = l
        \/ l.internal = "UNINITIALIZED" /\ m = [l EXCEPT !.internal = "RUNNING"]
        \/ /\ CanRequest(l) /\ AllTargetsComplete(l)
           /\ m = [l EXCEPT !.complete = TRUE, !.status = SetValue(l.status, "COMPLETE")]
        \/ CanRequest(l) /\ m = RequestPlaceholders(l)
    BY DEF TickList
  <2> QED
    BY <2>1, <1>2, <1>3, <1>4, <1>5

(***************************************************************************)
(* A count reply.                                                          *)
(***************************************************************************)
LEMMA RecvCountGood ==
  ASSUME NEW l, GoodList(l), NEW args, \/ args = <<>>
                                       \/ \E c \in Int : args = <<c>>
  PROVE  /\ GoodList(RecvCount(l, args)) /\ RecvCount(l, args).type = l.type /\ RecvCount(l, args).listId = l.listId
         /\ GoodStep(l, RecvCount(l, args))
<1> DEFINE m == RecvCount(l, args)
<1>1. l \in ListOf(l.type, l.listId) /\ l.status \in SyncStatus
  BY ListFields DEF GoodList, TypeGood
<1>2. CASE ~AwaitsCount(l, args)
  BY <1>2 DEF RecvCount, GoodStep
<1>3. CASE AwaitsCount(l, args)
  <2>1. ReceivedCount(args) \in Nat
    BY <1>3 DEF AwaitsCount, ReceivedCount
  <2>2. m = [l EXCEPT !.count = ReceivedCount(args), !.internal = "COMPLETE",
                      !.status = SetValue(l.status, "RUNNING")]
    BY <1>3 DEF RecvCount
  <2> HIDE DEF m
  <2>3. /\ m.live = l.live /\ m.target = l.target /\ m.numTargets = l.numTargets
        /\ m.uidLookup = l.uidLookup /\ m.type = l.type /\ m.listId = l.listId
        /\ m.entry = l.entry /\ m.internal = "COMPLETE"
        /\ m.status = SetValue(l.status, "RUNNING")
    BY <1>1, <2>2 DEF ListOf
  <2>4. SetValue(l.status, "RUNNING") \in SyncStatus
    BY <1>1, StatusType DEF SyncStatusValue
  <2>5. m.status.value = "RUNNING" /\ (l.status.dirty => m.status.dirty)
    BY <1>1, <2>3 DEF SetValue, SyncStatus
  <2>6. TypeGood(m)
    BY <1>1, <2>1, <2>2, <2>4 DEF TypeGood, ListOf, InternalState
  <2>7. PhaseGood(m) /\ CompleteGood(m)
    BY <2>3, <2>5 DEF PhaseGood, CompleteGood
  <2>8. /\ CountGood(m) /\ UidGood(m) /\ TargetsGood(m) /\ DirtyGood(m)
        /\ Content(m) = Content(l)
    BY <2>3, <2>5, SameTargets
  <2>9. GoodList(m) /\ m.type = l.type /\ m.listId = l.listId /\ GoodStep(l, m)
    BY <2>3, <2>5, <2>6, <2>7, <2>8 DEF GoodList, GoodStep
  <2> QED
    BY <2>9 DEF m
<1> QED
  BY <1>2, <1>3

(***************************************************************************)
(* A packet that removes a target: its entry goes with its last part.      *)
(***************************************************************************)
LEMMA RemoveTargetGood ==
  ASSUME NEW l, GoodList(l), l.internal = "COMPLETE", NEW k \in Key
  PROVE  /\ GoodList(RemoveTarget(l, k)) /\ RemoveTarget(l, k).type = l.type /\ RemoveTarget(l, k).listId = l.listId
         /\ GoodStep(l, RemoveTarget(l, k))
<1> DEFINE d == DeleteTargets(l, {k})
           r == IF k \in l.live THEN [d EXCEPT !.status = SetDirty(d.status)] ELSE l
           m == RemoveTarget(l, k)
<1>1. l \in ListOf(l.type, l.listId) /\ l.status \in SyncStatus /\ l.live \in SUBSET Key
      /\ l.target \in [Key -> Target(l.type)] /\ k[1] \in Num /\ l.entry \in [Num -> EntryState]
  BY ListFields, KeyFacts DEF GoodList, TypeGood
\* What is left after the deletion.
<1>2. /\ TypeGood(r) /\ CountGood(r) /\ UidGood(r) /\ r.type = l.type /\ r.listId = l.listId
      /\ r.live = l.live \ {k} /\ r.entry = l.entry /\ r.internal = l.internal
      /\ r.complete = l.complete /\ r.status.value = l.status.value
      /\ l.status.dirty => r.status.dirty
      /\ k \in l.live => r.status.dirty
      /\ k \notin l.live => r = l
      /\ \A j \in Key : r.target[j] = IF j = k THEN NewTarget(l.type) ELSE l.target[j]
  <2>1. CASE k \notin l.live
    <3>1. l.target[k] = NewTarget(l.type)
      BY <2>1 DEF GoodList, TargetsGood
    <3> QED
      BY <2>1, <3>1 DEF GoodList
  <2>2. CASE k \in l.live
    <3>1. /\ TypeGood(d) /\ CountGood(d) /\ UidGood(d) /\ d.type = l.type /\ d.listId = l.listId
          /\ d.live = l.live \ {k} /\ d.entry = l.entry /\ d.internal = l.internal
          /\ d.complete = l.complete /\ d.status = l.status
          /\ \A j \in Key : d.target[j] = IF j \in {k} THEN NewTarget(l.type) ELSE l.target[j]
      <4>1. {k} \subseteq l.live
        BY <2>2
      <4> QED
        BY <4>1, DeleteTargetsFacts
    <3>2. r = [d EXCEPT !.status = SetDirty(d.status)]
      BY <2>2
    <3> HIDE DEF d, r
    <3>3. d \in ListOf(l.type, l.listId) /\ SetDirty(d.status) \in SyncStatus
      BY <1>1, <3>1, StatusType DEF TypeGood
    <3>4. /\ r.type = d.type /\ r.listId = d.listId /\ r.live = d.live /\ r.entry = d.entry /\ r.internal = d.internal
          /\ r.complete = d.complete /\ r.status = SetDirty(d.status) /\ r.target = d.target
          /\ r.numTargets = d.numTargets /\ r.uidLookup = d.uidLookup
      BY <3>2, <3>3 DEF ListOf
    <3>5. r \in ListOf(l.type, l.listId)
      BY <3>2, <3>3 DEF ListOf
    <3>6. r.status.value = l.status.value /\ r.status.dirty
      BY <1>1, <3>1, <3>4 DEF SetDirty, SyncStatus
    <3>7. CountGood(r) /\ UidGood(r)
      BY <3>1, <3>4 DEF CountGood, UidGood
    <3> QED
      BY <2>2, <3>1, <3>4, <3>5, <3>6, <3>7 DEF TypeGood
  <2> QED
    BY <2>1, <2>2
<1>3. m = IF LivePartsOf(r, k[1]) = {} THEN [r EXCEPT !.entry[k[1]] = "absent"] ELSE r
  BY DEF RemoveTarget
<1> HIDE DEF d, r, m
<1> DEFINE gone == LivePartsOf(r, k[1]) = {}
<1>4. r \in ListOf(r.type, r.listId) /\ r.entry \in [Num -> EntryState]
  BY <1>2, ListFields DEF TypeGood
<1>5. /\ m.type = r.type /\ m.listId = r.listId /\ m.live = r.live /\ m.internal = r.internal
      /\ m.complete = r.complete /\ m.status = r.status /\ m.target = r.target
      /\ m.numTargets = r.numTargets /\ m.uidLookup = r.uidLookup
      /\ m \in ListOf(r.type, r.listId)
  BY <1>1, <1>3, <1>4 DEF ListOf, EntryState
<1>6. /\ \A n \in Num : m.entry[n] = IF gone /\ n = k[1] THEN "absent" ELSE l.entry[n]
      /\ \A j \in r.live : j[1] \in Num /\ (gone => j[1] # k[1])
  <2>1. \A j \in r.live : j[1] \in Num /\ (gone => j[1] # k[1])
    BY <1>1, <1>2, KeyFacts DEF LivePartsOf
  <2>2. CASE gone
    <3>1. m.entry = [r.entry EXCEPT ![k[1]] = "absent"]
      BY <1>3, <1>4, <2>2 DEF ListOf
    <3> QED
      BY <1>2, <1>4, <2>1, <2>2, <3>1
  <2>3. CASE ~gone
    BY <1>2, <1>3, <2>1, <2>3
  <2> QED
    BY <2>2, <2>3
<1>7. TypeGood(m) /\ CountGood(m) /\ UidGood(m)
  BY <1>2, <1>5 DEF TypeGood, CountGood, UidGood
<1>8. PhaseGood(m)
  BY <1>2, <1>5 DEF GoodList, PhaseGood
<1>9. TargetsGood(m)
  <2>1. \A j \in r.live : j \in l.live /\ j # k /\ j \in Key
    BY <1>1, <1>2
  <2>2. \A j \in m.live : m.entry[j[1]] = "initialized" /\ TargetSound(m.target[j])
    BY <1>2, <1>5, <1>6, <2>1 DEF GoodList, TargetsGood
  <2>3. \A j \in Key \ m.live : m.target[j] = NewTarget(m.type)
    BY <1>2, <1>5 DEF GoodList, TargetsGood
  <2> QED
    BY <2>2, <2>3 DEF TargetsGood
<1>10. CompleteGood(m)
  <2> SUFFICES ASSUME m.status.value = "COMPLETE"
               PROVE  /\ m.complete
                      /\ \A n \in Num : m.entry[n] # "absent" =>
                           \E part \in Part : <<n, part>> \in m.live
                      /\ \A j \in m.live : m.target[j].status.value = "COMPLETE"
    BY DEF CompleteGood
  <2>1. CompleteGood(l) /\ l.status.value = "COMPLETE"
    BY <1>2, <1>5 DEF GoodList
  <2>2. \A j \in m.live : m.target[j].status.value = "COMPLETE"
    BY <1>1, <1>2, <1>5, <2>1 DEF CompleteGood
  <2>3. ASSUME NEW n \in Num, m.entry[n] # "absent"
        PROVE  \E part \in Part : <<n, part>> \in m.live
    <3>1. PICK part \in Part : <<n, part>> \in l.live
      BY <1>6, <2>1, <2>3 DEF CompleteGood
    <3>2. CASE n = k[1]
      <4>1. ~gone
        BY <1>6, <2>3, <3>2
      <4>2. PICK j \in r.live : j[1] = n
        BY <3>2, <4>1 DEF LivePartsOf
      <4>3. j \in Key /\ j \in m.live
        BY <1>1, <1>2, <1>5, <4>2
      <4>4. j[2] \in Part /\ j = <<n, j[2]>>
        BY <4>2, <4>3, KeyFacts
      <4> QED
        BY <4>3, <4>4
    <3>3. CASE n # k[1]
      BY <1>2, <1>5, <3>1, <3>3
    <3> QED
      BY <3>2, <3>3
  <2> QED
    BY <1>2, <1>5, <2>1, <2>2, <2>3 DEF CompleteGood
<1>11. DirtyGood(m)
  BY <1>1, <1>2, <1>5 DEF GoodList, DirtyGood
<1>12. GoodStep(l, m)
  <2>1. \A j \in l.live : m.target[j].groups \in {l.target[j].groups, NewTarget(l.type).groups}
    BY <1>1, <1>2, <1>5
  <2>2. ~m.status.dirty => Content(m) = Content(l) /\ ~l.status.dirty
    BY <1>2, <1>5 DEF Content
  <2> QED
    BY <1>2, <1>5, <2>1, <2>2 DEF GoodStep
<1> QED
  <2>1. GoodList(m) /\ m.type = l.type /\ m.listId = l.listId
    BY <1>2, <1>5, <1>7, <1>8, <1>9, <1>10, <1>11 DEF GoodList
  <2> QED
    BY <1>12, <2>1 DEF m

(***************************************************************************)
(* Any other packet of a target.  A COMPLETE list demotes itself when the  *)
(* target it gained is not COMPLETE, and is dirty when it gained one.      *)
(***************************************************************************)
LEMMA AddOrUpdateTargetGood ==
  ASSUME NEW l, GoodList(l), l.internal = "COMPLETE", NEW k \in Key,
         NEW args \in Seq(Val), NEW pathData, pathData.isList = FALSE
  PROVE  LET m == AddOrUpdateTarget(l, k, args, pathData)
         IN  GoodList(m) /\ m.type = l.type /\ m.listId = l.listId /\ GoodStep(l, m)
<1> DEFINE uid      == ReceivedUid(args, pathData)
           added    == k \notin l.live
           received == TargetRecv(l.target[k], args, pathData)
           parent   == IF added THEN SetDirty(l.status) ELSE l.status
           status   == UpdateFromChild(parent, received.status)
           lookup   == IF added /\ uid # Empty THEN [l.uidLookup EXCEPT ![uid] = k]
                       ELSE l.uidLookup
           number   == IF added THEN l.numTargets + 1 ELSE l.numTargets
           m        == AddOrUpdateTarget(l, k, args, pathData)
<1>1. /\ l \in ListOf(l.type, l.listId) /\ l.status \in SyncStatus /\ l.live \in SUBSET Key
      /\ l.target \in [Key -> Target(l.type)] /\ l.entry \in [Num -> EntryState]
      /\ l.uidLookup \in [Uid -> Key \cup {NoTarget}] /\ l.numTargets \in Int
      /\ k[1] \in Num /\ \A j \in l.live : j[1] \in Num
  BY ListFields, KeyFacts DEF GoodList, TypeGood
<1>2. m = [l EXCEPT !.entry[k[1]] = "initialized", !.live = l.live \cup {k},
                    !.target[k] = received, !.numTargets = number,
                    !.uidLookup = lookup, !.status = status]
  BY DEF AddOrUpdateTarget
\* The target after the packet.
<1>3. /\ received \in Target(l.type) /\ received.status \in SyncStatus
      /\ TargetSound(received)
      /\ l.target[k].status.value = "COMPLETE" => received = l.target[k]
  <2>1. l.target[k] \in Target(l.type)
    BY <1>1
  <2>2. TargetSound(l.target[k])
    BY NewTargetSound DEF GoodList, TargetsGood
  <2>3. TargetSound(received)
    BY <2>2, TargetRecvSound
  <2>4. received \in Target(l.type) /\ (l.target[k].status.value = "COMPLETE" => received = l.target[k])
    BY <2>1, TargetRecvType, ZenonT(40)
  <2> HIDE DEF received
  <2> QED
    BY <2>3, <2>4 DEF Target
\* The status of the list after the packet.
<1>4. /\ parent \in SyncStatus /\ parent.value = l.status.value
      /\ l.status.dirty => parent.dirty
      /\ added => parent.dirty
  <2>1. SetDirty(l.status) \in SyncStatus
    BY <1>1, StatusType
  <2> QED
    BY <1>1, <2>1 DEF SetDirty, SyncStatus
<1>5. /\ status \in SyncStatus
      /\ status.value = "COMPLETE" =>
           l.status.value = "COMPLETE" /\ received.status.value = "COMPLETE"
      /\ status.value = "UNINITIALIZED" <=> l.status.value = "UNINITIALIZED"
      /\ l.status.dirty => status.dirty
      /\ received.status.dirty => status.dirty
      /\ added => status.dirty
  <2> HIDE DEF parent, received
  <2>1. status \in SyncStatus
    BY <1>3, <1>4, StatusType
  <2>2. /\ status.value = "COMPLETE" => parent.value = "COMPLETE" /\ received.status.value = "COMPLETE"
        /\ status.value = "UNINITIALIZED" <=> parent.value = "UNINITIALIZED"
        /\ status.dirty <=> parent.dirty \/ received.status.dirty \/ status.value # parent.value
    BY <1>3, <1>4, UpdateFromChildFacts
  <2> HIDE DEF status, added
  <2> QED
    BY <1>4, <2>1, <2>2
<1>6. added /\ uid # Empty => uid \in Uid
  BY DEF ReceivedUid, Uid
<1> HIDE DEF uid, received, parent, status, m
<1>7. /\ lookup \in [Uid -> Key \cup {NoTarget}]
      /\ \A u \in Uid : lookup[u] = IF added /\ u = uid THEN k ELSE l.uidLookup[u]
  BY <1>1, <1>6 DEF Uid
<1>8. number \in Int
  BY <1>1
<1> HIDE DEF lookup, number
<1>9. /\ m \in ListOf(l.type, l.listId) /\ m.type = l.type /\ m.listId = l.listId
      /\ m.live = l.live \cup {k} /\ m.internal = l.internal /\ m.complete = l.complete
      /\ m.status = status /\ m.numTargets = number /\ m.uidLookup = lookup
      /\ m.entry = [l.entry EXCEPT ![k[1]] = "initialized"]
      /\ m.target = [l.target EXCEPT ![k] = received]
  BY <1>1, <1>2, <1>3, <1>5, <1>7, <1>8 DEF ListOf, EntryState
<1>10. /\ \A n \in Num : m.entry[n] = IF n = k[1] THEN "initialized" ELSE l.entry[n]
       /\ \A j \in Key : m.target[j] = IF j = k THEN received ELSE l.target[j]
  BY <1>1, <1>9
<1>11. CountGood(m)
  <2>1. IsFiniteSet(l.live) /\ l.numTargets = Cardinality(l.live)
    BY DEF GoodList, CountGood
  <2>2. IsFiniteSet(l.live \cup {k}) /\ Cardinality(l.live \cup {k}) =
          IF k \in l.live THEN Cardinality(l.live) ELSE Cardinality(l.live) + 1
    BY <2>1, FS_AddElement
  <2> QED
    BY <1>9, <2>1, <2>2 DEF CountGood, number
<1>12. UidGood(m)
  <2>1. UidGood(l)
    BY DEF GoodList
  <2>2. k # NoTarget
    BY KeyFacts
  <2> QED
    BY <1>7, <1>9, <2>1, <2>2 DEF UidGood
<1>13. PhaseGood(m)
  BY <1>5, <1>9 DEF GoodList, PhaseGood
<1>14. TargetsGood(m)
  BY <1>1, <1>3, <1>9, <1>10 DEF GoodList, TargetsGood
<1>15. CompleteGood(m)
  <2>1. ASSUME status.value = "COMPLETE"
        PROVE  /\ l.complete
               /\ \A n \in Num : m.entry[n] # "absent" =>
                    \E part \in Part : <<n, part>> \in m.live
               /\ \A j \in m.live : m.target[j].status.value = "COMPLETE"
    <3>1. CompleteGood(l) /\ l.status.value = "COMPLETE" /\ received.status.value = "COMPLETE"
      BY <1>5, <2>1 DEF GoodList
    <3>2. \A j \in m.live : m.target[j].status.value = "COMPLETE"
      BY <1>1, <1>9, <1>10, <3>1 DEF CompleteGood
    <3>3. \A n \in Num : m.entry[n] # "absent" => \E part \in Part : <<n, part>> \in m.live
      <4>1. k[2] \in Part /\ k = <<k[1], k[2]>>
        BY KeyFacts
      <4> QED
        BY <1>9, <1>10, <3>1, <4>1 DEF CompleteGood
    <3> QED
      BY <3>1, <3>2, <3>3 DEF CompleteGood
  <2> QED
    BY <1>9, <2>1 DEF CompleteGood
<1>16. DirtyGood(m)
  BY <1>1, <1>5, <1>9, <1>10 DEF GoodList, DirtyGood
<1>17. GoodStep(l, m)
  <2>1. \A j \in l.live : l.target[j].status.value = "COMPLETE" =>
          m.target[j].groups = l.target[j].groups
    BY <1>1, <1>3, <1>10
  <2>2. ASSUME m.status.value = "COMPLETE", ~m.status.dirty
        PROVE  l.status.value = "COMPLETE" /\ ~l.status.dirty /\ Content(m) = Content(l)
    <3>1. l.status.value = "COMPLETE" /\ ~l.status.dirty /\ k \in l.live
      BY <1>5, <1>9, <2>2
    <3>2. received = l.target[k]
      BY <1>3, <3>1 DEF GoodList, CompleteGood
    <3>3. m.live = l.live /\ \A j \in Key : m.target[j] = l.target[j]
      BY <1>9, <1>10, <3>1, <3>2
    <3> QED
      BY <3>1, <3>3 DEF Content
  <2> QED
    BY <2>1, <2>2 DEF GoodStep
<1> QED
  <2>1. TypeGood(m)
    BY <1>9 DEF TypeGood
  <2> QED
    BY <2>1, <1>9, <1>11, <1>12, <1>13, <1>14, <1>15, <1>16, <1>17 DEF GoodList, m

(***************************************************************************)
(* A reply with target data, good or bad.                                  *)
(***************************************************************************)
LEMMA RecvTargetGood ==
  ASSUME NEW l, GoodList(l), NEW args \in Seq(Val), NEW pathData,
         pathData.isList = FALSE, <<pathData.num, pathData.part>> \in Key
  PROVE  LET m == RecvTarget(l, args, pathData)
         IN  GoodList(m) /\ m.type = l.type /\ m.listId = l.listId /\ GoodStep(l, m)
<1> DEFINE k == <<pathData.num, EffectivePart(l.type, pathData.part)>>
           m == RecvTarget(l, args, pathData)
<1>1. pathData.isList = FALSE
  OBVIOUS
<1>2. k \in Key
  BY PartAssumption DEF Key, EffectivePart
<1>3. \/ m = l
      \/ l.internal = "COMPLETE" /\ m = RemoveTarget(l, k)
      \/ l.internal = "COMPLETE" /\ m = AddOrUpdateTarget(l, k, args, pathData)
  BY DEF RecvTarget, ProcessReceivedTarget
<1> HIDE DEF k, m
<1>4. ASSUME m = l PROVE GoodList(m) /\ m.type = l.type /\ m.listId = l.listId /\ GoodStep(l, m)
  BY <1>4 DEF GoodStep
<1>5. ASSUME l.internal = "COMPLETE", m = RemoveTarget(l, k)
      PROVE  GoodList(m) /\ m.type = l.type /\ m.listId = l.listId /\ GoodStep(l, m)
  BY <1>2, <1>5, RemoveTargetGood
<1>6. ASSUME l.internal = "COMPLETE", m = AddOrUpdateTarget(l, k, args, pathData)
      PROVE  GoodList(m) /\ m.type = l.type /\ m.listId = l.listId /\ GoodStep(l, m)
  BY <1>1, <1>2, <1>6, AddOrUpdateTargetGood, ZenonT(30)
<1>7. GoodList(m) /\ m.type = l.type /\ m.listId = l.listId /\ GoodStep(l, m)
  BY <1>3, <1>4, <1>5, <1>6
<1> QED
  BY <1>7 DEF m

(***************************************************************************)
(* A notification, in every phase of the list.                             *)
(***************************************************************************)
LEMMA InvalidateTargetsGood ==
  ASSUME NEW l, GoodList(l), l.complete, NEW nums \in SUBSET Num
  PROVE  LET m == InvalidateTargets(l, nums)
         IN  GoodList(m) /\ m.type = l.type /\ m.listId = l.listId /\ GoodStep(l, m)
<1> DEFINE dead  == {k \in l.live : k[1] \in nums}
           d     == DeleteTargets(l, dead)
           entry == [n \in Num |-> IF n \in nums THEN "uninitialized" ELSE d.entry[n]]
           m     == InvalidateTargets(l, nums)
<1>1. /\ l \in ListOf(l.type, l.listId) /\ l.status \in SyncStatus /\ l.live \in SUBSET Key
      /\ \A j \in l.live : j \in Key /\ j[1] \in Num
  BY ListFields, KeyFacts DEF GoodList, TypeGood
<1>2. l.internal = "COMPLETE"
  BY DEF GoodList, PhaseGood
<1>3. CASE nums = {}
  <2>1. m = l
    BY <1>3 DEF InvalidateTargets
  <2> QED
    BY <2>1 DEF GoodStep
<1>4. CASE nums # {}
  <2>1. /\ TypeGood(d) /\ CountGood(d) /\ UidGood(d)
        /\ d.type = l.type /\ d.listId = l.listId /\ d.live = l.live \ dead /\ d.entry = l.entry
        /\ d.status = l.status /\ d.internal = l.internal /\ d.complete = l.complete
        /\ \A k \in Key : d.target[k] = IF k \in dead THEN NewTarget(l.type) ELSE l.target[k]
    <3>1. dead \subseteq l.live
      OBVIOUS
    <3> HIDE DEF dead, entry, m
    <3> DEFINE D == DeleteTargets(l, dead)
    <3>2. /\ TypeGood(D) /\ CountGood(D) /\ UidGood(D)
          /\ D.type = l.type /\ D.listId = l.listId /\ D.live = l.live \ dead /\ D.entry = l.entry
          /\ D.status = l.status /\ D.internal = l.internal /\ D.complete = l.complete
      BY <3>1, DeleteTargetsFacts, ZenonT(40)
    <3>3. \A k \in Key : D.target[k] = IF k \in dead THEN NewTarget(l.type) ELSE l.target[k]
      BY <3>1, DeleteTargetsFacts, SMT
    <3> QED
      BY <3>2, <3>3 DEF d
  <2>2. m = [d EXCEPT !.entry = entry, !.status = SetValue(d.status, "RUNNING")]
    BY <1>4 DEF InvalidateTargets
  <2> HIDE DEF d, m
  <2>3. d \in ListOf(l.type, l.listId) /\ d.entry \in [Num -> EntryState] /\ d.status \in SyncStatus
    BY <1>1, <2>1, ListFields DEF TypeGood
  <2>4. /\ SetValue(d.status, "RUNNING") \in SyncStatus
        /\ SetValue(d.status, "RUNNING").value = "RUNNING"
        /\ d.status.dirty => SetValue(d.status, "RUNNING").dirty
    BY <2>3, StatusType, SetValueFacts DEF SyncStatusValue
  <2>5. entry \in [Num -> EntryState]
    BY <2>3 DEF EntryState
  <2>6. \A n \in Num : n \notin nums => entry[n] = l.entry[n]
    BY <2>1
  <2> HIDE DEF entry
  <2>7. /\ m \in ListOf(l.type, l.listId) /\ m.type = d.type /\ m.listId = d.listId /\ m.live = d.live /\ m.entry = entry
        /\ m.target = d.target /\ m.numTargets = d.numTargets /\ m.uidLookup = d.uidLookup
        /\ m.internal = d.internal /\ m.complete = d.complete
        /\ m.status = SetValue(d.status, "RUNNING")
    BY <2>2, <2>3, <2>4, <2>5 DEF ListOf
  <2>8. TypeGood(m) /\ CountGood(m) /\ UidGood(m)
    <3>1. TypeGood(m)
      BY <2>1, <2>7 DEF TypeGood
    <3>2. CountGood(m)
      BY <2>1, <2>7 DEF CountGood
    <3>3. UidGood(m)
      BY <2>1, <2>7 DEF UidGood
    <3> QED
      BY <3>1, <3>2, <3>3
  <2>9. PhaseGood(m) /\ CompleteGood(m)
    BY <1>2, <2>1, <2>4, <2>7 DEF PhaseGood, CompleteGood
  <2>10. TargetsGood(m) /\ DirtyGood(m)
    <3>1. \A k \in m.live : k \in l.live /\ k \in Key /\ k \notin dead /\ k[1] \in Num \ nums
      BY <1>1, <2>1, <2>7
    <3>2. \A k \in Key \ m.live : m.target[k] = NewTarget(m.type)
      BY <2>1, <2>7 DEF GoodList, TargetsGood
    <3>3. \A k \in m.live : m.target[k] = l.target[k] /\ m.entry[k[1]] = l.entry[k[1]]
      BY <2>1, <2>6, <2>7, <3>1
    <3> QED
      BY <2>1, <2>4, <2>7, <3>1, <3>2, <3>3 DEF GoodList, TargetsGood, DirtyGood
  <2>11. GoodStep(l, m)
    <3>1. \A k \in l.live : m.target[k].groups \in {l.target[k].groups, NewTarget(l.type).groups}
      BY <1>1, <2>1, <2>7
    <3> QED
      BY <2>4, <2>7, <3>1 DEF GoodStep
  <2>12. GoodList(m) /\ m.type = l.type /\ m.listId = l.listId /\ GoodStep(l, m)
    BY <2>1, <2>7, <2>8, <2>9, <2>10, <2>11 DEF GoodList
  <2> QED
    BY <2>12 DEF m
<1> QED
  BY <1>3, <1>4

LEMMA NotifyListGood ==
  ASSUME NEW l, GoodList(l), NEW nums \in SUBSET Num, NEW hasArgs, NEW badArgs,
         hasArgs \in BOOLEAN, badArgs \in BOOLEAN
  PROVE  LET m == NotifyList(l, nums, hasArgs, badArgs)
         IN  GoodList(m) /\ m.type = l.type /\ m.listId = l.listId /\ GoodStep(l, m)
<1>1. CASE ~l.complete \/ ~hasArgs
  <2>1. NotifyList(l, nums, hasArgs, badArgs) = ClearList(l)
    BY <1>1 DEF NotifyList
  <2> QED
    BY <2>1, ClearListGood DEF GoodList
<1>2. CASE l.complete /\ hasArgs /\ badArgs
  <2>1. NotifyList(l, nums, hasArgs, badArgs) = l
    BY <1>2 DEF NotifyList
  <2> QED
    BY <2>1 DEF GoodStep
<1>3. CASE l.complete /\ hasArgs /\ ~badArgs
  <2>1. NotifyList(l, nums, hasArgs, badArgs) = InvalidateTargets(l, nums)
    BY <1>3 DEF NotifyList
  <2> QED
    BY <1>3, <2>1, InvalidateTargetsGood
<1> QED
  BY <1>1, <1>2, <1>3

(***************************************************************************)
(* ClearDirty changes flags only, and reaches every dirty target.          *)
(***************************************************************************)
LEMMA ClearDirtyListGood ==
  ASSUME NEW l, GoodList(l)
  PROVE  LET m == ClearDirtyList(l)
         IN  /\ GoodList(m) /\ m.type = l.type /\ m.listId = l.listId
             /\ \A k \in Key : m.target[k].groups = l.target[k].groups
<1> DEFINE target == [k \in Key |-> IF k \in l.live THEN TargetClearDirty(l.target[k])
                                    ELSE l.target[k]]
           m == ClearDirtyList(l)
<1>1. /\ l \in ListOf(l.type, l.listId) /\ l.status \in SyncStatus /\ l.live \in SUBSET Key
      /\ l.target \in [Key -> Target(l.type)]
  BY ListFields DEF GoodList, TypeGood
<1>2. CASE ~l.status.dirty
  BY <1>2 DEF ClearDirtyList
<1>3. CASE l.status.dirty
  <2>1. m = [l EXCEPT !.status = ClearDirty(l.status), !.target = target]
    BY <1>3 DEF ClearDirtyList
  <2>2. \A t \in Target(l.type) :
          /\ TargetClearDirty(t) \in Target(l.type) /\ ~TargetClearDirty(t).status.dirty
          /\ TargetClearDirty(t).groups = t.groups
          /\ TargetClearDirty(t).status.value = t.status.value
    <3> SUFFICES ASSUME NEW t \in Target(l.type)
                 PROVE  /\ TargetClearDirty(t) \in Target(l.type)
                        /\ ~TargetClearDirty(t).status.dirty
                        /\ TargetClearDirty(t).groups = t.groups
                        /\ TargetClearDirty(t).status.value = t.status.value
      OBVIOUS
    <3>1. t.status \in SyncStatus /\ ClearDirty(t.status) \in SyncStatus
      BY StatusType DEF Target
    <3>2. TargetClearDirty(t) = [t EXCEPT !.status = ClearDirty(t.status)]
      BY DEF TargetClearDirty
    <3>3. ~ClearDirty(t.status).dirty /\ ClearDirty(t.status).value = t.status.value
      BY <3>1 DEF ClearDirty, SyncStatus
    <3> QED
      BY <3>1, <3>2, <3>3 DEF Target
  <2>3. target \in [Key -> Target(l.type)]
    BY <1>1, <2>2
  <2>4. \A k \in Key : target[k].groups = l.target[k].groups
                     /\ target[k].status.value = l.target[k].status.value
    BY <1>1, <2>2
  <2>5. /\ \A k \in l.live : ~target[k].status.dirty
        /\ \A k \in Key \ l.live : target[k] = l.target[k]
    BY <1>1, <2>2
  <2>6. ClearDirty(l.status) \in SyncStatus /\ ClearDirty(l.status).value = l.status.value
    BY <1>1, StatusType DEF ClearDirty, SyncStatus
  <2> HIDE DEF m, target
  <2>7. /\ m \in ListOf(l.type, l.listId) /\ m.type = l.type /\ m.listId = l.listId /\ m.live = l.live /\ m.entry = l.entry
        /\ m.target = target /\ m.numTargets = l.numTargets /\ m.uidLookup = l.uidLookup
        /\ m.internal = l.internal /\ m.complete = l.complete
        /\ m.status = ClearDirty(l.status)
    BY <1>1, <2>1, <2>3, <2>6 DEF ListOf
  <2>8. TypeGood(m) /\ CountGood(m) /\ UidGood(m)
    BY <2>7 DEF GoodList, TypeGood, CountGood, UidGood
  <2>9. PhaseGood(m) /\ DirtyGood(m)
    BY <2>5, <2>6, <2>7 DEF GoodList, PhaseGood, DirtyGood
  <2>10. TargetsGood(m) /\ CompleteGood(m)
    BY <1>1, <2>4, <2>5, <2>6, <2>7 DEF GoodList, TargetsGood, CompleteGood, TargetSound
  <2> QED
    BY <2>4, <2>7, <2>8, <2>9, <2>10 DEF GoodList, m
<1> QED
  BY <1>2, <1>3
=============================================================================
