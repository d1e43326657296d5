------------------------------ MODULE MCReads ------------------------------
(***************************************************************************)
(* Instances of RaftReads for TLC.                                         *)
(***************************************************************************)
EXTENDS RaftReads, TLC

CONSTANTS n1, n2, n3, v1

ThreeServers == {n1, n2, n3}
NoServer     == {}
Followers    == {n2, n3}
OneValue     == {v1}

Symmetry == Permutations(Followers)

\* The cluster at rest in its first term: n1 was elected by everybody, one
\* write is committed, applied and known as such on every node.  RaftNode
\* reaches this state with one election, one submit and two heartbeats.
Settled ==
  LET first == [term |-> 1, val |-> v1]
  IN /\ currentTerm = [n \in Server |-> 1]
     /\ votedFor = [n \in Server |-> n1]
     /\ log = [n \in Server |-> <<first>>]
     /\ role = [n \in Server |-> IF n = n1 THEN Leader ELSE Follower]
     /\ timer = [n \in Server |-> n # n1]
     /\ commitIndex = [n \in Server |-> 1]
     /\ applied = [n \in Server |-> <<first>>]
     /\ peerLast = [n \in Server |-> [p \in Server |->
                      IF n = n1 /\ p # n1 THEN 1 ELSE 0]]
     /\ peerNext = [n \in Server |-> [p \in Server |->
                      IF n = n1 /\ p # n1 THEN 2 ELSE 1]]
     /\ peerHbOk = [n \in Server |-> Peers(n)]
     /\ election = [n \in Server |-> NoElection]
     /\ ticks = {} /\ calls = {} /\ waiting = {} /\ late = {}
     /\ voteLog = {<<n, 1, n1>> : n \in Server}
     /\ leaders = {<<1, n1>>}
     /\ committed = {<<1, first>>}
     /\ acked = {[node |-> n1, index |-> 1, entry |-> first]}
     /\ lease = [n \in Server |-> FALSE] /\ reads = {} /\ served = {}

SettledSpec == Settled /\ [][ReadsNext]_allVars

=============================================================================
