--------------------------- MODULE EosTargetList ---------------------------
(***************************************************************************)
(* The mirror of one list of targets (class EosTargetList), all targets of *)
(* one type or all cues of one cue list.  A list is a record:              *)
(*                                                                         *)
(*   entry      which numbers m_Targets holds; an "uninitialized" entry is *)
(*              a placeholder whose data has still to be requested         *)
(*   live       the keys <<num, part>> that have an EosTarget object       *)
(*   target     those objects; a key that is not live has a fresh one      *)
(*   numTargets m_NumTargets, the counter that gates the initial sync      *)
(*   uidLookup  the key of the object each UID points to, or NoTarget      *)
(*   status     what the application and EosSyncData see                   *)
(*   internal   m_StatusInternal: the handshake for the number of targets  *)
(*   count, complete    m_InitialSync                                      *)
(*                                                                         *)
(* The operators are the methods; each returns the list after the call.    *)
(* They hold no state, so that the machine of one list and EosSyncData can *)
(* both be built from them.                                                *)
(***************************************************************************)
EXTENDS FiniteSets, EosTarget

CONSTANTS
  Num,                  \* target numbers a packet may name, 0 being the invalid one
  Part,                 \* part numbers a packet may name
  NoTarget              \* what uidLookup holds for a UID that is not in the map

ASSUME NumAssumption == Num \subseteq Nat /\ IsFiniteSet(Num)
ASSUME PartAssumption == Part \subseteq Int /\ 0 \in Part /\ IsFiniteSet(Part)
ASSUME NoTargetAssumption == NoTarget \notin Num \X Part

Key == Num \X Part

Uid == Val \ {Empty}

\* The elements of a finite set in the order of a std::map.
InOrder(S, Precedes(_, _)) ==
  CHOOSE s \in [1..Cardinality(S) -> S] :
    \A i, j \in 1..Cardinality(S) : i < j => Precedes(s[i], s[j])

EntryState == {"absent", "uninitialized", "initialized"}

InternalState == {"UNINITIALIZED", "RUNNING", "COMPLETE"}

\* The lists of one type and number.
ListOf(type, listId) ==
  [type : {type}, listId : {listId},
   entry : [Num -> EntryState], live : SUBSET Key, target : [Key -> Target(type)],
   numTargets : Int, uidLookup : [Uid -> Key \cup {NoTarget}],
   status : SyncStatus, internal : InternalState, count : Nat, complete : BOOLEAN]

NewList(type, listId) ==
  [type |-> type, listId |-> listId,
   entry |-> [n \in Num |-> "absent"],
   live |-> {},
   target |-> [k \in Key |-> NewTarget(type)],
   numTargets |-> 0,
   uidLookup |-> [u \in Uid |-> NoTarget],
   status |-> NewStatus,
   internal |-> "UNINITIALIZED",
   count |-> 0, complete |-> FALSE]

\* Mutant of ClearList: deletes the targets without counting them.
ClearListUncounted(l) ==
  [NewList(l.type, l.listId) EXCEPT !.status = SetValue(l.status, "UNINITIALIZED"),
                                    !.numTargets = l.numTargets]

\* EosTargetList::Clear: everything but the dirty flag starts over.
ClearList(l) ==
  [NewList(l.type, l.listId) EXCEPT !.status = SetValue(l.status, "UNINITIALIZED")]

\* A list that never asks the console for anything: it is born synchronised.
InitializeAsDummy(l) ==
  LET cleared == ClearList(l)
  IN  [cleared EXCEPT !.internal = "COMPLETE", !.complete = TRUE,
                      !.status = SetValue(@, "COMPLETE")]

\* What an application reads: the targets and their properties.
Content(l) == <<l.live, [k \in Key |-> l.target[k].groups]>>

LivePartsOf(l, n) == {k \in l.live : k[1] = n}

Placeholders(l) == {n \in Num : l.entry[n] = "uninitialized"}

\* Mutant of DeleteTargets: leaves the UID map alone.
DeleteTargetsKeepingUids(l, dead) ==
  [l EXCEPT !.live = @ \ dead,
            !.target = [k \in Key |-> IF k \in dead THEN NewTarget(l.type) ELSE @[k]],
            !.numTargets = @ - Cardinality(dead)]

\* DeleteTarget, for every key of dead: no UID may point to them afterwards.
DeleteTargets(l, dead) ==
  [l EXCEPT !.live = @ \ dead,
            !.target = [k \in Key |-> IF k \in dead THEN NewTarget(l.type) ELSE @[k]],
            !.uidLookup = [u \in Uid |-> IF @[u] \in dead THEN NoTarget ELSE @[u]],
            !.numTargets = @ - Cardinality(dead)]

----------------------------------------------------------------------------
(***************************************************************************)
(* Tick: ask for the number of targets, then for every placeholder, and    *)
(* notice when everything that was asked for has arrived.                  *)
(***************************************************************************)
CanRequest(l) == l.internal = "COMPLETE" /\ l.status.value = "RUNNING"

AllTargetsComplete(l) ==
  \A n \in Num : l.entry[n] # "absent" =>
    /\ l.entry[n] = "initialized"
    /\ LivePartsOf(l, n) # {}
    /\ \A k \in LivePartsOf(l, n) : l.target[k].status.value = "COMPLETE"

RequestPlaceholders(l) ==
  [l EXCEPT !.entry = [n \in Num |-> IF @[n] = "uninitialized" THEN "initialized" ELSE @[n]]]

TickList(l) ==
  CASE l.internal = "UNINITIALIZED" -> [l EXCEPT !.internal = "RUNNING"]
    [] CanRequest(l) /\ AllTargetsComplete(l) /\ (l.complete \/ l.numTargets >= l.count) ->
         [l EXCEPT !.complete = TRUE, !.status = SetValue(@, "COMPLETE")]
    [] CanRequest(l) /\ ~AllTargetsComplete(l) -> RequestPlaceholders(l)
    [] OTHER -> l

CountRequest(l) == [kind |-> "count", type |-> l.type, listId |-> l.listId]

IndexRequest(l, i) == [kind |-> "index", type |-> l.type, listId |-> l.listId, index |-> i]

TargetRequest(l, n) == [kind |-> "target", type |-> l.type, listId |-> l.listId, num |-> n]

PlaceholdersInOrder(l) == InOrder(Placeholders(l), <)

\* Mutant of TickRequests: stops after the first placeholder, although TickList marks them all.
TickRequestsFirstOnly(l) ==
  CASE l.internal = "UNINITIALIZED" -> <<CountRequest(l)>>
    [] CanRequest(l) /\ Placeholders(l) # {} ->
         <<TargetRequest(l, PlaceholdersInOrder(l)[1])>>
    [] OTHER -> <<>>

\* The packets TickList queues, in the order of the map of targets.
TickRequests(l) ==
  CASE l.internal = "UNINITIALIZED" -> <<CountRequest(l)>>
    [] CanRequest(l) ->
         [i \in 1..Cardinality(Placeholders(l)) |->
            TargetRequest(l, PlaceholdersInOrder(l)[i])]
    [] OTHER -> <<>>

----------------------------------------------------------------------------
(***************************************************************************)
(* Recv: replies.  A count reply is taken only while it is awaited, target *)
(* data only afterwards.  args of a count reply is empty or holds one      *)
(* number, a negative one standing for an argument GetUInt refuses.        *)
(***************************************************************************)
\* Mutant of ReceivedCount: keeps the sign.
ReceivedCountSigned(args) == args[1]

ReceivedCount(args) == IF args[1] >= 0 THEN args[1] ELSE 0

AwaitsCount(l, args) == l.internal = "RUNNING" /\ args # <<>>

RecvCount(l, args) ==
  IF AwaitsCount(l, args)
  THEN [l EXCEPT !.count = ReceivedCount(args), !.internal = "COMPLETE",
                 !.status = SetValue(@, "RUNNING")]
  ELSE l

IndexRequests(l, args) ==
  IF AwaitsCount(l, args)
  THEN [i \in 1..ReceivedCount(args) |-> IndexRequest(l, i - 1)]
  ELSE <<>>

\* Only patch and cues have parts, and part numbers start at 1 and at 0.
ValidPart(type, part) == CASE type = "CUE"   -> part >= 0
                           [] type = "PATCH" -> part >= 1
                           [] OTHER          -> TRUE

EffectivePart(type, part) == IF type \in {"CUE", "PATCH"} THEN part ELSE 0

\* The UID is the second argument of a packet of the base group.
ReceivedUid(args, pathData) ==
  IF pathData.group = General /\ Len(args) > 1 THEN args[2] ELSE Empty

\* Mutant of RemoveTarget: does not tell the application.
RemoveTargetSilently(l, k) ==
  LET removed == IF k \in l.live THEN DeleteTargets(l, {k}) ELSE l
  IN  IF LivePartsOf(removed, k[1]) = {}
      THEN [removed EXCEPT !.entry[k[1]] = "absent"] ELSE removed

\* Mutant of RemoveTarget: leaves the entry in the map, to wait for ever.
RemoveTargetKeepingEntry(l, k) ==
  IF k \in l.live THEN [DeleteTargets(l, {k}) EXCEPT !.status = SetDirty(@)] ELSE l

\* A base packet without a UID says that the target is gone.
RemoveTarget(l, k) ==
  LET removed == IF k \in l.live
                 THEN [DeleteTargets(l, {k}) EXCEPT !.status = SetDirty(@)] ELSE l
  IN  IF LivePartsOf(removed, k[1]) = {}
      THEN [removed EXCEPT !.entry[k[1]] = "absent"] ELSE removed

\* Any other packet adds the target unless it is there, and goes on to it.
AddOrUpdateTarget(l, k, args, pathData) ==
  LET uid      == ReceivedUid(args, pathData)
      added    == k \notin l.live
      received == TargetRecv(l.target[k], args, pathData)
  IN  [l EXCEPT !.entry[k[1]] = "initialized",
                !.live = @ \cup {k},
                !.target[k] = received,
                !.numTargets = IF added THEN @ + 1 ELSE @,
                !.uidLookup = IF added /\ uid # Empty THEN [@ EXCEPT ![uid] = k] ELSE @,
                !.status = UpdateFromChild(IF added THEN SetDirty(@) ELSE @, received.status)]

ProcessReceivedTarget(l, args, pathData) ==
  LET k == <<pathData.num, EffectivePart(l.type, pathData.part)>>
  IN  CASE ~ValidPart(l.type, pathData.part) -> l
        [] pathData.group = General /\ ReceivedUid(args, pathData) = Empty -> RemoveTarget(l, k)
        [] OTHER -> AddOrUpdateTarget(l, k, args, pathData)

\* Target numbers start at 1.
RecvTarget(l, args, pathData) ==
  IF l.internal = "COMPLETE" /\ pathData.num >= 1
  THEN ProcessReceivedTarget(l, args, pathData)
  ELSE l

----------------------------------------------------------------------------
(***************************************************************************)
(* Notify: the console says that targets changed.  nums is the set of      *)
(* numbers the arguments spell out; a notification without arguments       *)
(* (hasArgs FALSE) is about the whole list, and one whose arguments cannot *)
(* be read (badArgs) is dropped.                                           *)
(***************************************************************************)
InvalidateTargets(l, nums) ==
  LET dead == {k \in l.live : k[1] \in nums}
  IN  IF nums = {} THEN l
      ELSE [DeleteTargets(l, dead) EXCEPT
              !.entry = [n \in Num |-> IF n \in nums THEN "uninitialized" ELSE @[n]],
              !.status = SetValue(@, "RUNNING")]

NotifyList(l, nums, hasArgs, badArgs) ==
  CASE ~l.complete \/ ~hasArgs -> ClearList(l)     \* start over
    [] l.complete /\ hasArgs /\ badArgs -> l
    [] OTHER -> InvalidateTargets(l, nums)

\* Mutant of ClearDirtyList: does not descend.
ClearDirtyListShallow(l) == [l EXCEPT !.status = ClearDirty(@)]

\* EosTargetList::ClearDirty descends only if the list itself is dirty.
ClearDirtyList(l) ==
  IF l.status.dirty
  THEN [l EXCEPT !.status = ClearDirty(@),
                 !.target = [k \in Key |-> IF k \in l.live THEN TargetClearDirty(@[k]) ELSE @[k]]]
  ELSE l
=============================================================================
