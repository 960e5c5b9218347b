--------------------------- MODULE EosSyncStatus ---------------------------
(***************************************************************************)
(* The status object every level of the mirror owns (class EosSyncStatus): *)
(* how far the level has synchronised, and whether something changed since *)
(* the application last called ClearDirty.  The timestamp is left out: it  *)
(* is only ever displayed.                                                 *)
(***************************************************************************)

SyncStatusValue == {"UNINITIALIZED", "RUNNING", "COMPLETE"}

SyncStatus == [value : SyncStatusValue, dirty : BOOLEAN]

NewStatus == [value |-> "UNINITIALIZED", dirty |-> FALSE]

\* Mutant of SetValue: forgets the dirty flag.
SetValueSilently(s, v) == [s EXCEPT !.value = v]

\* A status that is set to the value it has does not become dirty.
SetValue(s, v) == [value |-> v, dirty |-> s.dirty \/ s.value # v]

SetDirty(s) == [s EXCEPT !.dirty = TRUE]

ClearDirty(s) == [s EXCEPT !.dirty = FALSE]

\* Mutant of UpdateFromChild: takes over the dirty flag only.
UpdateDirtyFromChild(s, child) == [s EXCEPT !.dirty = @ \/ child.dirty]

\* A parent leaves COMPLETE as soon as a child is not, and never enters it here.
UpdateFromChild(s, child) ==
  LET demoted == IF s.value = "COMPLETE" /\ child.value # "COMPLETE"
                 THEN SetValue(s, "RUNNING") ELSE s
  IN  [demoted EXCEPT !.dirty = @ \/ child.dirty]
=============================================================================
