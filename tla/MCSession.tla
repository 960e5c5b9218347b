----------------------------- MODULE MCSession -----------------------------
(* Instances of EosSession for TLC, with the shows of MCSync. *)
EXTENDS EosSession, MCSync

OneContent == {ux}

\* No groups, and at most one macro: two lists, whose counts are requested at once.
MacroTargets == <<"GROUP", 0>> :> {} @@ <<"MACRO", 0>> :> {<<1, 0>>}

NoMacro ==
  {<<"GROUP", 0>> :> [k \in {} |-> NoContent] @@ <<"MACRO", 0>> :> (<<1, 0>> :> NoContent)}

NoneOrOneMacro ==
  NoMacro \cup {<<"GROUP", 0>> :> [k \in {} |-> NoContent] @@ <<"MACRO", 0>> :> (<<1, 0>> :> ux)}
=============================================================================
