------------------------- MODULE TargetListMachine -------------------------
(***************************************************************************)
(* One EosTargetList driven by an arbitrary peer and application.  Every   *)
(* step is one call of a method of the class, in any order: nothing is     *)
(* assumed of the console, which may answer late, twice, out of order, or  *)
(* about targets nobody asked for.  What holds here is what the class      *)
(* guarantees by itself.                                                   *)
(***************************************************************************)
EXTENDS EosTargetList

CONSTANTS
  Types,                \* the types of list to look at
  ListId,               \* the number of the list
  ReplyKeys,            \* the pairs <<num, part>> a reply may name
  Groups,               \* the property groups a reply may name
  ArgLists,             \* the argument lists a reply may carry
  MaxCount              \* bound: the largest count a reply announces

ASSUME ListAssumption == Types \subseteq TargetType /\ ListId \in Int
ASSUME ReplyAssumption == ReplyKeys \subseteq Key /\ ArgLists \subseteq Seq(Val)
ASSUME CountAssumption == MaxCount \in Nat

VARIABLES
  list,                 \* the object
  unseen                \* history: its content changed since the application last looked

vars == <<list, unseen>>

Becomes(l) ==
  /\ list' = l
  /\ unseen' = (unseen \/ Content(l) # Content(list))

Init ==
  /\ \E type \in Types :
       list \in {NewList(type, ListId), InitializeAsDummy(NewList(type, ListId))}
  /\ unseen = FALSE

Tick == Becomes(TickList(list))

CountReply == \E args \in {<<>>} \cup {<<c>> : c \in -1..MaxCount} : Becomes(RecvCount(list, args))

TargetReply ==
  \E key \in ReplyKeys, group \in Groups, args \in ArgLists :
    Becomes(RecvTarget(list, args, PathData(key[1], key[2], group, 0, 0)))

Notify == \E nums \in SUBSET Num, hasArgs, badArgs \in BOOLEAN :
            Becomes(NotifyList(list, nums, hasArgs, badArgs))

\* An application that polls the dirty flag reads the list, then clears the flag.
ClearDirtyFlag ==
  /\ list.status.dirty
  /\ list' = ClearDirtyList(list)
  /\ unseen' = FALSE

Next == Tick \/ CountReply \/ TargetReply \/ Notify \/ ClearDirtyFlag

Spec == Init /\ [][Next]_vars

----------------------------------------------------------------------------
TypeOK ==
  /\ list.type \in Types /\ list \in ListOf(list.type, ListId)
  /\ unseen \in BOOLEAN

(***************************************************************************)
(* m_NumTargets counts the target objects, whatever sequence of replies,   *)
(* removals and notifications the peer sends: the initial sync compares it *)
(* with the announced count, so a drift would end the sync too early or    *)
(* never (and an unsigned counter that is decremented once too often is    *)
(* four billion).                                                          *)
(***************************************************************************)
NumTargetsExact == list.numTargets = Cardinality(list.live)

(***************************************************************************)
(* The UID map holds raw pointers: every one of them points to an object   *)
(* that has not been deleted, and no object answers to two UIDs.           *)
(***************************************************************************)
UidLookupSound ==
  \A u \in Uid : list.uidLookup[u] # NoTarget =>
    /\ list.uidLookup[u] \in list.live
    /\ \A v \in Uid : list.uidLookup[v] = list.uidLookup[u] => v = u

(***************************************************************************)
(* A list that reports COMPLETE has nothing outstanding: no placeholder    *)
(* to request, no entry whose data is awaited, no target that lacks one of *)
(* its property groups.                                                    *)
(***************************************************************************)
CompleteSound ==
  list.status.value = "COMPLETE" =>
    /\ list.internal = "COMPLETE" /\ list.complete
    /\ \A n \in Num : list.entry[n] # "absent" => \E part \in Part : <<n, part>> \in list.live
    /\ \A k \in list.live : /\ list.entry[k[1]] = "initialized"
                            /\ list.target[k].status.value = "COMPLETE"
                            /\ GotAllProps(list.target[k].groups)

(***************************************************************************)
(* ClearDirty stops at a list that is not dirty, so a dirty target below   *)
(* a clean list would stay dirty for ever.                                 *)
(***************************************************************************)
DirtyReachesList ==
  \A k \in list.live : list.target[k].status.dirty => list.status.dirty

(***************************************************************************)
(* An application that polls the dirty flag misses no change: when the     *)
(* list is COMPLETE and differs from what was last read, it is dirty.      *)
(***************************************************************************)
NoMissedChange == unseen /\ list.status.value = "COMPLETE" => list.status.dirty

(***************************************************************************)
(* What a COMPLETE target says changes only by dropping the target: a late *)
(* or repeated reply never mixes into data the application may be reading. *)
(***************************************************************************)
CompleteTargetsFrozen ==
  [][\A k \in list.live :
       list.target[k].status.value = "COMPLETE" =>
         list'.target[k].groups \in {list.target[k].groups, NewTarget(list.type).groups}]_vars
=============================================================================
