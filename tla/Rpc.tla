-------------------------------- MODULE Rpc --------------------------------
(***************************************************************************)
(* What RaftNode relies on when it calls a peer: an answer it is given     *)
(* answers the very call it made, whose handler ran before the answer came *)
(* back; a call that failed may have been handled, may be handled later,   *)
(* or never; and no call is handled twice.                                 *)
(***************************************************************************)
EXTENDS Naturals

CONSTANTS MaxCalls   \* bound: calls that reach the network

VARIABLES
  status,    \* of each call: new, open, failed or answered
  handled    \* how often the peer's handler ran for it

vars == <<status, handled>>
Calls == 1..MaxCalls

Init ==
  /\ status = [i \in Calls |-> "new"]
  /\ handled = [i \in Calls |-> 0]

Begin(i) ==
  /\ status[i] = "new"
  /\ status' = [status EXCEPT ![i] = "open"]
  /\ UNCHANGED handled

\* The handler runs, once, for a call that is open or was given up.
Handle(i) ==
  /\ status[i] \in {"open", "failed"} /\ handled[i] = 0
  /\ handled' = [handled EXCEPT ![i] = 1]
  /\ UNCHANGED status

Answer(i) ==
  /\ status[i] = "open" /\ handled[i] = 1
  /\ status' = [status EXCEPT ![i] = "answered"]
  /\ UNCHANGED handled

Fail(i) ==
  /\ status[i] \in {"new", "open"}
  /\ status' = [status EXCEPT ![i] = "failed"]
  /\ UNCHANGED handled

Next == \E i \in Calls : Begin(i) \/ Handle(i) \/ Answer(i) \/ Fail(i)

Spec == Init /\ [][Next]_vars

=============================================================================
