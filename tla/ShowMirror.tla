----------------------------- MODULE ShowMirror -----------------------------
(***************************************************************************)
(* What the library promises an application, without packets, queues or    *)
(* requests: the mirror is either Unsynced or exactly a state the show has *)
(* really been in, and once it has seen a change it never shows what the   *)
(* show was before it.                                                     *)
(***************************************************************************)
EXTENDS Integers, Sequences

CONSTANTS
  Show,                 \* the states a show can be in
  Unsynced,             \* none of them
  MayForget             \* the mirror may be given up without an announcement

VARIABLES
  log,                  \* the shows from the one last announced to the current one
  mirror                \* what the application may read

vars == <<log, mirror>>

Init ==
  /\ log \in {<<s>> : s \in Show}
  /\ mirror = Unsynced

\* The operator of the console changes the show, and the change is announced.
Edit ==
  LET s == log'[Len(log) + 1]
  IN  /\ Len(log') = Len(log) + 1
      /\ s \in Show
      /\ log' = Append(log, s)
      /\ UNCHANGED mirror

\* Before the library has subscribed, changes are not announced.
EditUnannounced ==
  LET s == log'[Len(log)]
  IN  /\ mirror = Unsynced
      /\ Len(log') = Len(log)
      /\ s \in Show
      /\ log' = [log EXCEPT ![Len(log)] = s]
      /\ UNCHANGED mirror

\* Announcements arrive; the mirror knows that it is out of date.
Invalidate == \E n \in 2..Len(log) :
  /\ log' = SubSeq(log, n, Len(log))
  /\ mirror' = Unsynced

\* The connection is lost or given up, and with it the mirror.
Forget ==
  /\ MayForget
  /\ mirror' = Unsynced
  /\ UNCHANGED log

\* The mirror is brought up to date with what has been announced.
Sync ==
  /\ mirror = Unsynced
  /\ mirror' = Head(log)
  /\ UNCHANGED log

Next == Edit \/ EditUnannounced \/ Invalidate \/ Forget \/ Sync

Spec == Init /\ [][Next]_vars
=============================================================================
