------------------------------- MODULE MCRaft -------------------------------
(***************************************************************************)
(* Instances of RaftNode for TLC: three servers, model values, symmetry.   *)
(***************************************************************************)
EXTENDS RaftProperties, TLC

CONSTANTS n1, n2, n3, v1

ThreeServers == {n1, n2, n3}
NoServer     == {}
FirstServer  == {n1}
FirstTwo     == {n1, n2}
OneValue     == {v1}

\* Bound of raft_one_term: of the rounds under way, one has RPCs that failed or
\* were refused.
OneRoundFails ==
  Cardinality({k \in ticks : k.todo \cup k.acks # Peers(k.node)})
    + Cardinality({c \in calls : c.rd.fails # {}}) <= 1

ServerSymmetry   == Permutations(ThreeServers)
OthersSymmetry   == Permutations({n2, n3})
FirstTwoSymmetry == Permutations({n1, n2})

=============================================================================
