---------------------------- MODULE EosSyncData ----------------------------
(***************************************************************************)
(* The mirror of a whole show (class EosSyncData): a list per subscribed   *)
(* type and, for the cues, a list per cue list.  Like EosTargetList this   *)
(* module holds the methods as operators on a record:                      *)
(*                                                                         *)
(*   lists    the lists that exist, a function from keys <<type, listId>>  *)
(*   cueMap   m_ShowData has a map of cue lists (it may be an empty one)   *)
(*   status   what IsSynchronized reports                                  *)
(*                                                                         *)
(* A method that may queue packets returns [data, sent].                   *)
(***************************************************************************)
EXTENDS EosTargetList

CONSTANTS
  SubscribedTypes,      \* m_Types
  CueListIds            \* the cue list numbers a packet may name

ASSUME SubscribedAssumption == SubscribedTypes \subseteq TargetType
ASSUME CueListAssumption ==
  /\ CueListIds \subseteq Nat \ {0} /\ IsFiniteSet(CueListIds)
  /\ "CUELIST" \in SubscribedTypes => Num \ {0} \subseteq CueListIds

\* The order of EnumEosTargetType, which is the order of the map m_ShowData.
EnumEosTargetType == <<"PATCH", "CUELIST", "CUE", "GROUP", "MACRO", "SUB", "PRESET", "IP",
                       "FP", "CP", "BP", "CURVE", "FX", "SNAP", "PIXMAP", "MS">>

Rank(type) == CHOOSE i \in DOMAIN EnumEosTargetType : EnumEosTargetType[i] = type

ListKey == {<<type, 0>> : type \in TargetType} \cup {<<"CUE", id>> : id \in CueListIds}

KeyPrecedes(j, k) == Rank(j[1]) < Rank(k[1]) \/ (j[1] = k[1] /\ j[2] < k[2])

\* The keys m_ShowData may hold while these types are subscribed, and their order.
MirrorKey == {k \in ListKey : k[1] \in SubscribedTypes \cup {"CUE"}}

KeySequence == InOrder(MirrorKey, KeyPrecedes)

NoLists == [k \in {} |-> NewList("GROUP", 0)]

NewData == [status |-> NewStatus, lists |-> NoLists, cueMap |-> FALSE]

ClearData(d) ==
  [status |-> SetValue(d.status, "UNINITIALIZED"), lists |-> NoLists, cueMap |-> FALSE]

Initialize(d) ==
  [status |-> SetValue(ClearData(d).status, "RUNNING"),
   lists  |-> [k \in {<<type, 0>> : type \in SubscribedTypes \ {"CUE"}} |-> NewList(k[1], 0)],
   cueMap |-> FALSE]

\* The map of cue lists with those of added put in, replacing lists that exist.
WithCueLists(d, added) ==
  [status |-> d.status,
   lists  |-> [k \in DOMAIN added \cup DOMAIN d.lists |->
                 IF k \in DOMAIN added THEN added[k] ELSE d.lists[k]],
   cueMap |-> TRUE]

\* The mirror after one of its lists has changed.
WithList(d, key, l) ==
  [status |-> UpdateFromChild(d.status, l.status),
   lists  |-> [d.lists EXCEPT ![key] = l],
   cueMap |-> d.cueMap]

(***************************************************************************)
(* OnTargeListInitialSyncComplete: when the cue lists are known, start to  *)
(* mirror the cues of each; without any, a dummy list stands for the cues. *)
(***************************************************************************)
OnTargetListInitialSyncComplete(d, key) ==
  LET numbers == {n \in Num : d.lists[key].entry[n] # "absent"}
      dummy   == InitializeAsDummy(NewList("CUE", 0))
  IN  CASE key[1] # "CUELIST" -> d
        [] key[1] = "CUELIST" /\ numbers # {} ->
             WithCueLists(d, [k \in {<<"CUE", n>> : n \in numbers} |-> NewList("CUE", k[2])])
        [] key[1] = "CUELIST" /\ numbers = {} /\ d.cueMap -> d
        [] OTHER -> WithCueLists(d, [k \in {<<"CUE", 0>>} |-> dummy])

\* One iteration of the loop of TickRunning.
TickOneList(run, key) ==
  IF key \notin DOMAIN run.data.lists \/ run.data.lists[key].status.value = "COMPLETE"
  THEN run
  ELSE LET before  == run.data.lists[key]
           after   == TickList(before)
           updated == WithList(run.data, key, after)
       IN  [data |-> IF ~before.complete /\ after.complete
                     THEN OnTargetListInitialSyncComplete(updated, key) ELSE updated,
            sent |-> run.sent \o TickRequests(before),
            allComplete |-> run.allComplete /\ after.status.value = "COMPLETE"]

AfterTheLists(run) ==
  [data |-> IF run.allComplete
            THEN [run.data EXCEPT !.status = SetValue(@, "COMPLETE")] ELSE run.data,
   sent |-> run.sent]

TickRunning(d) ==
  LET lists  == Len(KeySequence)
      run[i \in 0..lists] ==
        IF i = 0 THEN [data |-> d, sent |-> <<>>, allComplete |-> TRUE]
        ELSE TickOneList(run[i - 1], KeySequence[i])
  IN  AfterTheLists(run[lists])

----------------------------------------------------------------------------
(* Commands from the console. *)

\* Mutant of RemoveOrphanedCues: does nothing.
RemoveNoCues(d) == d

\* A cue list disappears with its entry in the list of cue lists.
RemoveOrphanedCues(d) ==
  LET entry      == d.lists[<<"CUELIST", 0>>].entry
      orphan(k)  == k[1] = "CUE" /\ k[2] # 0 /\ (k[2] \notin Num \/ entry[k[2]] = "absent")
  IN  [d EXCEPT !.lists = [k \in {j \in DOMAIN @ : ~orphan(j)} |-> @[k]]]

Route(cmd) == <<cmd.type, IF cmd.type = "CUE" THEN cmd.listId ELSE 0>>

RecvReply(d, cmd) ==
  LET key   == Route(cmd)
      l     == d.lists[key]
      after == IF cmd.kind = "count" THEN RecvCount(l, cmd.args)
               ELSE RecvTarget(l, cmd.args, cmd.pathData)
      updated == WithList(d, key, after)
  IN  IF d.status.value # "RUNNING" \/ key \notin DOMAIN d.lists \/ key = <<"CUE", 0>>
      THEN [data |-> d, sent |-> <<>>]                 \* ignored
      ELSE [data |-> IF cmd.type = "CUELIST" THEN RemoveOrphanedCues(updated) ELSE updated,
            sent |-> IF cmd.kind = "count" THEN IndexRequests(l, cmd.args) ELSE <<>>]

\* Mutant of RecvNotify: ignores a cue list that is not mirrored yet.
RecvNotifyKnownOnly(d, cmd) ==
  LET key   == Route(cmd)
      after == NotifyList(d.lists[key], cmd.nums, cmd.hasArgs, FALSE)
  IN  IF d.status.value = "UNINITIALIZED" \/ key \notin DOMAIN d.lists \/ key = <<"CUE", 0>>
      THEN d
      ELSE WithList(d, key, after)

\* A notification for a cue list that is not mirrored creates it as a dummy.
RecvNotify(d, cmd) ==
  LET key     == Route(cmd)
      creates == key[1] = "CUE" /\ key \notin DOMAIN d.lists /\ d.cueMap
      base    == IF creates
                 THEN WithCueLists(d, [k \in {key} |-> InitializeAsDummy(NewList("CUE", key[2]))])
                 ELSE d
      after   == NotifyList(base.lists[key], cmd.nums, cmd.hasArgs, FALSE)
  IN  IF d.status.value = "UNINITIALIZED" \/ key \notin DOMAIN base.lists \/ key = <<"CUE", 0>>
      THEN d                                           \* ignored
      ELSE WithList(base, key, after)

\* The events "show/loaded" and "show/cleared".
RecvShowEvent(d) == IF d.status.value = "UNINITIALIZED" THEN d ELSE ClearData(d)

RecvCmd(d, cmd) ==
  CASE cmd.kind \in {"count", "target"} -> RecvReply(d, cmd)
    [] cmd.kind = "notify" -> [data |-> RecvNotify(d, cmd), sent |-> <<>>]
    [] cmd.kind = "show"   -> [data |-> RecvShowEvent(d), sent |-> <<>>]

\* Recv: the commands of one read from the connection, one after the other.
RecvOne(run, cmd) ==
  LET reaction == RecvCmd(run.data, cmd)
  IN  [data |-> reaction.data, sent |-> run.sent \o reaction.sent]

Recv(run, cmds) ==
  LET after[i \in 0..Len(cmds)] == IF i = 0 THEN run ELSE RecvOne(after[i - 1], cmds[i])
  IN  after[Len(cmds)]

\* Tick: first the mirror's own steps, then what has arrived.
DataTick(d, cmds) ==
  LET run == CASE d.status.value = "UNINITIALIZED" -> [data |-> Initialize(d), sent |-> <<>>]
               [] d.status.value = "RUNNING"       -> TickRunning(d)
               [] OTHER                            -> [data |-> d, sent |-> <<>>]
  IN  Recv(run, cmds)

ClearDirtyData(d) ==
  IF d.status.dirty
  THEN [status |-> ClearDirty(d.status),
        lists  |-> [k \in DOMAIN d.lists |-> ClearDirtyList(d.lists[k])],
        cueMap |-> d.cueMap]
  ELSE d
=============================================================================
