---------------------------- MODULE MCStandalone ----------------------------
(***************************************************************************)
(* An instance of Standalone for TLC: two keys, hence two shards, and two  *)
(* connections.  Keys and connections are interchangeable.                 *)
(***************************************************************************)
EXTENDS Standalone, TLC

CONSTANTS a, b, c1, c2

TwoKeys  == {a, b}
TwoConns == {c1, c2}
Plain    == {"none"}
AllOptions == {"none", "nx", "xx"}
OneTick  == {1}

Symmetry == Permutations(TwoKeys) \cup Permutations(TwoConns)

=============================================================================
