----------------------------- MODULE EosTarget -----------------------------
(***************************************************************************)
(* One mirrored target (class EosTarget): a group, a cue, a macro...       *)
(* The console describes a target with several packets, one per property   *)
(* group; the target is COMPLETE once every group it expects has arrived.  *)
(* A property value is an element of Val, the strings the packets carry.   *)
(***************************************************************************)
EXTENDS Integers, Sequences, EosSyncStatus

CONSTANTS
  Val,                  \* property values
  Empty                 \* the empty string, the value of a property or a UID not given

ASSUME EmptyAssumption == Empty \in Val

General == ""           \* the base property group, the one that carries the UID

TargetType == {"PATCH", "CUELIST", "CUE", "GROUP", "MACRO", "SUB", "PRESET", "IP",
               "FP", "CP", "BP", "CURVE", "FX", "SNAP", "PIXMAP", "MS"}

PropGroups(type) ==
  {General} \cup
    (CASE type = "PATCH"                    -> {"notes"}
       [] type = "CUELIST"                  -> {"links"}
       [] type = "CUE"                      -> {"fx", "links", "actions"}
       [] type \in {"GROUP", "PIXMAP"}      -> {"channels"}
       [] type = "MACRO"                    -> {"text"}
       [] type = "SUB"                      -> {"fx"}
       [] type = "PRESET"                   -> {"channels", "byType", "fx"}
       [] type \in {"IP", "FP", "CP", "BP"} -> {"channels", "byType"}
       [] OTHER                             -> {})

GroupName == UNION {PropGroups(type) : type \in TargetType}

Property == [initialized : BOOLEAN, value : Val]

PropertyGroup == [initialized : BOOLEAN, props : Seq(Property)]

\* The targets of one type.
Target(type) == [status : SyncStatus, groups : [PropGroups(type) -> PropertyGroup]]

NewTarget(type) ==
  [status |-> NewStatus,
   groups |-> [g \in PropGroups(type) |-> [initialized |-> FALSE, props |-> <<>>]]]

(***************************************************************************)
(* What the path of a reply says: the number and part of the target, the   *)
(* property group, and where in a list that was split over several packets *)
(* these arguments belong.  Parsing the path records the index and the     *)
(* size of the list but leaves isList at FALSE, its initial value.         *)
(***************************************************************************)
PathData(num, part, group, index, size) ==
  [num |-> num, part |-> part, group |-> group,
   isList |-> FALSE, listIndex |-> index, listSize |-> size]

\* std::vector::resize: new properties start uninitialized.
Resized(props, n) ==
  [j \in 1..n |-> IF j <= Len(props) THEN props[j]
                  ELSE [initialized |-> FALSE, value |-> Empty]]

\* The properties of a group after the arguments of one packet were stored.
StoreArgs(props, args, pathData) ==
  LET numProps == IF pathData.isList THEN pathData.listSize ELSE Len(args)
      sized    == IF numProps # 0 THEN Resized(props, numProps) ELSE props
  IN  [j \in 1..Len(sized) |->
         IF j <= Len(args) THEN [initialized |-> TRUE, value |-> args[j]] ELSE sized[j]]

GotAllProps(groups) ==
  \A g \in DOMAIN groups :
    /\ groups[g].initialized
    /\ \A j \in 1..Len(groups[g].props) : groups[g].props[j].initialized

\* Mutant of TargetRecv: takes a COMPLETE target for a running one.
TargetRecvAlways(t, args, pathData) ==
  LET g      == pathData.group
      groups == [t.groups EXCEPT ![g] =
                   [initialized |-> TRUE, props |-> StoreArgs(@.props, args, pathData)]]
  IN  IF g \notin DOMAIN t.groups THEN t
      ELSE [status |-> SetValue(t.status, IF GotAllProps(groups) THEN "COMPLETE" ELSE "RUNNING"),
            groups |-> groups]

\* EosTarget::Recv: a reply for this target.
TargetRecv(t, args, pathData) ==
  IF t.status.value = "COMPLETE" THEN t                \* ignored, unsolicited
  ELSE LET running == SetValue(t.status, "RUNNING")
           g       == pathData.group
           groups  == [t.groups EXCEPT ![g] =
                         [initialized |-> TRUE,
                          props |-> StoreArgs(@.props, args, pathData)]]
       IN  IF g \notin DOMAIN t.groups                 \* ignored, unexpected group
           THEN [t EXCEPT !.status = running]
           ELSE [status |-> IF GotAllProps(groups) THEN SetValue(running, "COMPLETE")
                            ELSE running,
                 groups |-> groups]

TargetClearDirty(t) == [t EXCEPT !.status = ClearDirty(@)]
=============================================================================
