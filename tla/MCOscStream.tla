---------------------------- MODULE MCOscStream ----------------------------
(* An instance of OscStream for TLC: two-byte headers of four values, and *)
(* packets whose bytes may be mistaken for a header.                      *)
EXTENDS OscStream

MCPackets == {<<0>>, <<0, 1>>, <<1, 2, 0>>}

\* A length of zero, and a negative one.
MCEmptyHeaders == {<<0, 0>>, <<3, 2>>}
=============================================================================
