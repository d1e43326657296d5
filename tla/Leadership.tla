----------------------------- MODULE Leadership -----------------------------
(***************************************************************************)
(* What the election half of RaftNode promises to the rest of the server,  *)
(* without votes, timers or messages: every server is in a term, terms     *)
(* only grow, and leadership of a term is handed out once, for good.       *)
(***************************************************************************)
EXTENDS Integers

CONSTANT Server

VARIABLES
  term,      \* the term of each server
  leading,   \* whether it acts as the leader of that term
  elected    \* the leaderships handed out: pairs <<term, server>>

leadershipVars == <<term, leading, elected>>

Start ==
  /\ term = [n \in Server |-> 0]
  /\ leading = [n \in Server |-> FALSE]
  /\ elected = {}

\* A server moves on to a later term and leads it no longer.
AdoptTerm(n) ==
  /\ term'[n] > term[n]
  /\ term' = [term EXCEPT ![n] = term'[n]]
  /\ leading' = [leading EXCEPT ![n] = FALSE]
  /\ UNCHANGED elected

\* A server becomes the leader of its term, which has had no leader before.
Elect(n) ==
  /\ ~leading[n]
  /\ \A e \in elected : e[1] # term[n]
  /\ leading' = [leading EXCEPT ![n] = TRUE]
  /\ elected' = elected \cup {<<term[n], n>>}
  /\ UNCHANGED term

\* A leader gives up (lost quorum, restart) and keeps its term.
Resign(n) ==
  /\ leading[n]
  /\ leading' = [leading EXCEPT ![n] = FALSE]
  /\ UNCHANGED <<term, elected>>

Move == \E n \in Server : AdoptTerm(n) \/ Elect(n) \/ Resign(n)

LeadershipSpec == Start /\ [][Move]_leadershipVars

=============================================================================
