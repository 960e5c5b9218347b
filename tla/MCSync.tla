------------------------------- MODULE MCSync -------------------------------
(* Instances of EosSync for TLC. *)
EXTENDS EosSync

CONSTANTS u, v, x, y    \* two UIDs, two labels

MCVal == {u, v, x, y, Empty}

ux == [uid |-> u, label |-> x]
uy == [uid |-> u, label |-> y]
vx == [uid |-> v, label |-> x]

\* A target may be relabelled, and may be replaced by another one.
ThreeContents == {ux, uy, vx}

TwoContents == {ux, vx}

\* Two groups.
GroupTargets == <<"GROUP", 0>> :> {<<1, 0>>, <<2, 0>>}

\* A show with both groups.
TwoGroups == {<<"GROUP", 0>> :> (<<1, 0>> :> ux @@ <<2, 0>> :> vx)}

\* Two cue lists of at most one cue each.
CueTargets ==
  <<"CUELIST", 0>> :> {<<1, 0>>, <<2, 0>>} @@
  <<"CUE", 1>> :> {<<1, 0>>} @@ <<"CUE", 2>> :> {<<1, 0>>}

\* A show without cues, and one with two cue lists.
NoneOrTwoCueLists ==
  {[key \in DOMAIN CueTargets |-> [k \in CueTargets[key] |-> NoContent]],
   <<"CUELIST", 0>> :> (<<1, 0>> :> ux @@ <<2, 0>> :> vx) @@
   <<"CUE", 1>> :> (<<1, 0>> :> ux) @@ <<"CUE", 2>> :> (<<1, 0>> :> ux)}

\* One group.
OneGroupTarget == <<"GROUP", 0>> :> {<<1, 0>>}

OneGroup == {<<"GROUP", 0>> :> (<<1, 0>> :> ux)}

\* One patched channel of two parts.
PatchTargets == <<"PATCH", 0>> :> {<<1, 1>>, <<1, 2>>}

TwoParts == {<<"PATCH", 0>> :> (<<1, 1>> :> ux @@ <<1, 2>> :> vx)}
=============================================================================
