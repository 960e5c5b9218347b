---------------------------- MODULE MCTargetList ----------------------------
(* Instances of TargetListMachine for TLC. *)
EXTENDS TargetListMachine, TLC

CONSTANTS u, v          \* two UIDs

MCVal == {u, v, Empty}

\* Patch has parts 1 and 2, a group only part 0.
MCReplyKeys == {<<1, 0>>, <<1, 1>>, <<1, 2>>, <<2, 0>>}

UidSymmetry == Permutations({u, v})

\* No argument, or an index and a UID.
MCArgLists == {<<>>, <<Empty, u>>, <<Empty, v>>}
=============================================================================
