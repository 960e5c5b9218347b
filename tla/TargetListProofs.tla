-------------------------- MODULE TargetListProofs --------------------------
(***************************************************************************)
(* Proofs about TargetListMachine: what one EosTargetList guarantees       *)
(* against any peer, for every type of list, every set of target numbers   *)
(* and parts, and every property value.                                    *)
(***************************************************************************)
EXTENDS TargetListMachine, TargetListLemmas

----------------------------------------------------------------------------
(***************************************************************************)
(* The inductive invariant: the list is good, which strengthens all the    *)
(* properties about it at once, and no change has been missed.             *)
(***************************************************************************)
IInv ==
  /\ list.type \in Types /\ list.listId = ListId /\ unseen \in BOOLEAN
  /\ GoodList(list)
  /\ NoMissedChange

----------------------------------------------------------------------------
(* The machine. *)

(***************************************************************************)
(* A call that takes the list through a good step keeps the invariant.     *)
(***************************************************************************)
LEMMA BecomesGood ==
  ASSUME IInv, NEW m, GoodList(m), m.type = list.type, m.listId = list.listId, GoodStep(list, m), Becomes(m)
  PROVE  IInv'
<1>1. list' = m /\ unseen' = (unseen \/ Content(m) # Content(list))
  BY DEF Becomes
<1>2. list'.type \in Types /\ list'.listId = ListId /\ unseen' \in BOOLEAN
  BY <1>1 DEF IInv
<1>3. ASSUME unseen', m.status.value = "COMPLETE", ~m.status.dirty PROVE FALSE
  <2>1. list.status.value = "COMPLETE" /\ ~list.status.dirty /\ Content(m) = Content(list)
    BY <1>3 DEF GoodStep
  <2>2. unseen
    BY <1>1, <1>3, <2>1
  <2> QED
    BY <2>1, <2>2 DEF IInv, NoMissedChange
<1>4. NoMissedChange'
  BY <1>1, <1>3 DEF NoMissedChange
<1>5. GoodList(list')
  BY <1>1
<1> QED
  BY <1>2, <1>4, <1>5 DEF IInv

\* What a step may do to the targets that are COMPLETE.
Frozen ==
  \A k \in list.live :
    list.target[k].status.value = "COMPLETE" =>
      list'.target[k].groups \in {list.target[k].groups, NewTarget(list.type).groups}

(***************************************************************************)
(* Every call is a good step of the list, or clears the dirty flag.        *)
(***************************************************************************)
LEMMA NextGood == IInv /\ Next => IInv' /\ Frozen
<1> SUFFICES ASSUME IInv, Next PROVE IInv' /\ Frozen
  OBVIOUS
<1>1. GoodList(list)
  BY DEF IInv
<1>2. ASSUME NEW m, GoodList(m), m.type = list.type, m.listId = list.listId, GoodStep(list, m), Becomes(m)
      PROVE  IInv' /\ Frozen
  <2>1. IInv'
    BY <1>2, BecomesGood
  <2>2. list' = m
    BY <1>2 DEF Becomes
  <2> QED
    BY <1>2, <2>1, <2>2 DEF GoodStep, Frozen
<1>3. CASE Tick
  BY <1>1, <1>2, <1>3, TickListGood DEF Tick
<1>4. CASE CountReply
  <2>1. PICK args \in {<<>>} \cup {<<c>> : c \in -1..MaxCount} : Becomes(RecvCount(list, args))
    BY <1>4 DEF CountReply
  <2>2. args = <<>> \/ \E c \in Int : args = <<c>>
    BY <2>1, CountAssumption
  <2>3. /\ GoodList(RecvCount(list, args)) /\ RecvCount(list, args).type = list.type
        /\ RecvCount(list, args).listId = list.listId
        /\ GoodStep(list, RecvCount(list, args))
    BY <1>1, <2>2, RecvCountGood
  <2> QED
    BY <1>2, <2>1, <2>3
<1>5. CASE TargetReply
  <2>1. PICK key \in ReplyKeys, group \in Groups, args \in ArgLists :
          Becomes(RecvTarget(list, args, PathData(key[1], key[2], group, 0, 0)))
    BY <1>5 DEF TargetReply
  <2> DEFINE pathData == PathData(key[1], key[2], group, 0, 0)
             m == RecvTarget(list, args, pathData)
  <2>2. /\ args \in Seq(Val) /\ <<pathData.num, pathData.part>> \in Key
        /\ pathData.isList = FALSE
    BY ReplyAssumption, KeyFacts DEF PathData
  <2>3. GoodList(m) /\ m.type = list.type /\ m.listId = list.listId /\ GoodStep(list, m)
    BY <1>1, <2>2, RecvTargetGood
  <2> HIDE DEF m
  <2>4. Becomes(m)
    BY <2>1 DEF m
  <2> QED
    BY <1>2, <2>3, <2>4
<1>6. CASE Notify
  <2>1. PICK nums \in SUBSET Num, hasArgs \in BOOLEAN, badArgs \in BOOLEAN :
          Becomes(NotifyList(list, nums, hasArgs, badArgs))
    BY <1>6 DEF Notify
  <2>2. LET m == NotifyList(list, nums, hasArgs, badArgs)
        IN  GoodList(m) /\ m.type = list.type /\ m.listId = list.listId /\ GoodStep(list, m)
    BY <1>1, NotifyListGood
  <2> QED
    BY <1>2, <2>1, <2>2
<1>7. CASE ClearDirtyFlag
  <2>1. /\ GoodList(ClearDirtyList(list)) /\ ClearDirtyList(list).type = list.type
        /\ ClearDirtyList(list).listId = list.listId
        /\ \A k \in Key : ClearDirtyList(list).target[k].groups = list.target[k].groups
    BY <1>1, ClearDirtyListGood
  <2>2. list' = ClearDirtyList(list) /\ unseen' = FALSE
    BY <1>7 DEF ClearDirtyFlag
  <2>3. IInv'
    BY <2>1, <2>2 DEF IInv, NoMissedChange
  <2>4. list.live \in SUBSET Key
    BY <1>1, ListFields DEF GoodList, TypeGood
  <2> QED
    BY <2>1, <2>2, <2>3, <2>4 DEF Frozen
<1> QED
  BY <1>3, <1>4, <1>5, <1>6, <1>7 DEF Next

(***************************************************************************)
(* The invariant holds for every peer and application.                     *)
(***************************************************************************)
THEOREM Invariance == Spec => []IInv
<1>1. Init => IInv
  <2> SUFFICES ASSUME Init PROVE IInv
    OBVIOUS
  <2>1. PICK type \in Types :
          list \in {NewList(type, ListId), InitializeAsDummy(NewList(type, ListId))}
    BY DEF Init
  <2>2. GoodList(NewList(type, ListId)) /\ NewList(type, ListId).type = type
        /\ NewList(type, ListId).listId = ListId
    BY NewListGood
  <2>3. GoodList(InitializeAsDummy(NewList(type, ListId)))
        /\ InitializeAsDummy(NewList(type, ListId)).type = type
        /\ InitializeAsDummy(NewList(type, ListId)).listId = ListId
    BY <2>2, DummyGood DEF GoodList
  <2>4. GoodList(list) /\ list.type = type /\ list.listId = ListId
    BY <2>1, <2>2, <2>3
  <2> QED
    BY <2>4 DEF Init, IInv, NoMissedChange
<1>2. IInv /\ [Next]_vars => IInv'
  <2>1. IInv /\ UNCHANGED vars => IInv'
    BY DEF IInv, NoMissedChange, vars
  <2> QED
    BY <2>1, NextGood
<1> QED
  BY <1>1, <1>2, PTL DEF Spec

(***************************************************************************)
(* What the invariant says in terms of the properties of the machine.      *)
(***************************************************************************)
LEMMA InvariantImplies ==
  IInv => TypeOK /\ NumTargetsExact /\ UidLookupSound /\ CompleteSound
                 /\ DirtyReachesList /\ NoMissedChange
<1> SUFFICES ASSUME IInv
             PROVE  TypeOK /\ NumTargetsExact /\ UidLookupSound /\ CompleteSound
                           /\ DirtyReachesList /\ NoMissedChange
  OBVIOUS
<1>1. TypeOK /\ NumTargetsExact /\ UidLookupSound /\ DirtyReachesList /\ NoMissedChange
  <2>1. TypeOK
    BY DEF IInv, GoodList, TypeGood, TypeOK
  <2>2. NumTargetsExact /\ UidLookupSound
    BY DEF IInv, GoodList, CountGood, NumTargetsExact, UidGood, UidLookupSound
  <2>3. DirtyReachesList /\ NoMissedChange
    BY DEF IInv, GoodList, DirtyGood, DirtyReachesList
  <2> QED
    BY <2>1, <2>2, <2>3
<1>2. CompleteSound
  <2> SUFFICES ASSUME list.status.value = "COMPLETE" PROVE CompleteSound
    BY DEF CompleteSound
  <2>1. PhaseGood(list) /\ TargetsGood(list) /\ CompleteGood(list)
    BY DEF IInv, GoodList
  <2>2. list.complete /\ list.internal = "COMPLETE"
    BY <2>1 DEF CompleteGood, PhaseGood
  <2>3. \A k \in list.live : GotAllProps(list.target[k].groups)
    BY <2>1 DEF CompleteGood, TargetsGood, TargetSound
  <2> QED
    BY <2>1, <2>2, <2>3 DEF CompleteSound, CompleteGood, TargetsGood
<1> QED
  BY <1>1, <1>2

(***************************************************************************)
(* Every reachable list has its type: in particular the counter is an      *)
(* integer, and the targets have the property groups of their type.        *)
(***************************************************************************)
THEOREM TypeCorrect == Spec => []TypeOK
BY Invariance, InvariantImplies, PTL

(***************************************************************************)
(* m_NumTargets is the number of targets.                                  *)
(***************************************************************************)
THEOREM CounterCorrect == Spec => []NumTargetsExact
BY Invariance, InvariantImplies, PTL

(***************************************************************************)
(* No pointer of the UID map dangles, and no target has two UIDs.          *)
(***************************************************************************)
THEOREM UidMapCorrect == Spec => []UidLookupSound
BY Invariance, InvariantImplies, PTL

(***************************************************************************)
(* A COMPLETE list lacks nothing it knows of.                              *)
(***************************************************************************)
THEOREM CompleteCorrect == Spec => []CompleteSound
BY Invariance, InvariantImplies, PTL

(***************************************************************************)
(* The dirty flags of the targets are reachable through the list's.        *)
(***************************************************************************)
THEOREM DirtyCorrect == Spec => []DirtyReachesList
BY Invariance, InvariantImplies, PTL

(***************************************************************************)
(* An application that polls the dirty flag misses no change.              *)
(***************************************************************************)
THEOREM ChangesCorrect == Spec => []NoMissedChange
BY Invariance, InvariantImplies, PTL

(***************************************************************************)
(* No reply alters what a COMPLETE target says.                            *)
(***************************************************************************)
THEOREM FrozenCorrect == Spec => CompleteTargetsFrozen
<1>1. IInv /\ [Next]_vars => [Frozen]_vars
  BY NextGood
<1>2. Spec => [][Frozen]_vars
  BY <1>1, Invariance, PTL DEF Spec
<1> QED
  BY <1>2 DEF CompleteTargetsFrozen, Frozen
=============================================================================
