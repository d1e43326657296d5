----------------------------- MODULE RpcChannel -----------------------------
(***************************************************************************)
(* One RPC channel between two nodes (server/raft/tcp_transport.cc): the   *)
(* fibers of one proactor thread that call one peer through DoRpc, the TCP *)
(* connection they share, and the peer's RaftRpcConnection fibers.         *)
(*                                                                         *)
(* The round trip is serialised by the fiber mutex of the pooled           *)
(* connection.  A call that timed out leaves the connection open, so late  *)
(* answers are still on their way when the next call reads.  A connection  *)
(* is dropped only when a write fails or a frame arrives damaged; the peer *)
(* keeps serving what it received on it.  Frames are their sequence        *)
(* numbers: the payload and its encoding are left out.  The counter is 32  *)
(* bits wide and does not wrap within the bound.                           *)
(*                                                                         *)
(* A caller repeats its call until it is answered, as heartbeat ticks and  *)
(* replication rounds do.  A definition marked FAULT is a wrong variant of *)
(* the one after it.                                                       *)
(***************************************************************************)
EXTENDS Naturals, Sequences, FiniteSets

CONSTANTS
  Caller,       \* the fibers of the thread that call this peer
  MaxFailures   \* bound: timeouts, damaged frames, refusals, broken
                \* connections and exits of the peer's process

ASSUME CallerAssumption == IsFiniteSet(Caller)
ASSUME FailureAssumption == MaxFailures \in Nat

VARIABLES
  caller,     \* where each fiber is in DoRpc, and the number of its frame
  holder,     \* the fibers inside the critical section of pc.mu
  seqCounter, \* seq_counter of the thread
  pooled,     \* pc.sock: a connection, or NoConn
  conn,       \* every connection made, in order
  peerUp,     \* the peer's process runs
  failures

\* History, read by no action: how often the handler ran for each frame, and
\* the frames whose call was answered.
VARIABLES handled, answered

callVars == <<caller, holder, seqCounter, pooled>>
netVars  == <<conn, peerUp>>
history  == <<handled, answered>>
vars     == <<callVars, netVars, failures, history>>

NoConn  == 0
Idle    == [at |-> "idle", seq |-> 0]
Done    == [at |-> "done", seq |-> 0]

\* A failure costs at most three calls: see FailuresAreCheap.
MaxCalls == Cardinality(Caller) + 3 * MaxFailures

\* A connection as the two kernels see it.  mine, theirs: which ends are
\* open.  reset: our kernel knows that the other end is gone.  up, down: what
\* was written and not yet read.  busy: the request RaftRpcConnection is
\* working on, if any.
NewConn == [mine |-> TRUE, theirs |-> TRUE, reset |-> FALSE,
            up |-> <<>>, down |-> <<>>, busy |-> {}]

Costs == failures < MaxFailures /\ failures' = failures + 1

(***************************************************************************)
(* DoRpc.                                                                  *)
(***************************************************************************)

Call(c) ==
  /\ caller[c] = Idle
  /\ caller' = [caller EXCEPT ![c].at = "wait"]
  /\ UNCHANGED <<holder, seqCounter, pooled, netVars, failures, history>>

\* FAULT: the round trip is not serialised.
MutexIgnored(c) == TRUE

\* lock_guard on pc.mu.
MutexFree(c) == holder = {}

Lock(c) ==
  /\ caller[c].at = "wait" /\ MutexFree(c)
  /\ holder' = holder \cup {c}
  /\ caller' = [caller EXCEPT ![c].at = "have"]
  /\ UNCHANGED <<seqCounter, pooled, netVars, failures, history>>

\* DoRpc returns false: the mutex is released, the caller will call again.
ReturnFailed(c) ==
  /\ holder' = holder \ {c}
  /\ caller' = [caller EXCEPT ![c] = Idle]

\* Connect, when no connection is pooled.  It fails when nobody listens, or by
\* its timeout; the new socket is retired.
Connect(c) ==
  /\ caller[c].at = "have" /\ pooled = NoConn
  /\ \/ /\ peerUp
        /\ conn' = Append(conn, NewConn)
        /\ pooled' = Len(conn')
        /\ UNCHANGED <<caller, holder, failures>>
     \/ /\ \/ ~peerUp /\ UNCHANGED failures
           \/ Costs
        /\ ReturnFailed(c)
        /\ UNCHANGED <<pooled, conn>>
  /\ UNCHANGED <<seqCounter, peerUp, history>>

\* Retire: Close our end.  Our unread input makes the close a reset, which
\* may cost the peer what it has not read; otherwise it can still read it.
Closed(k, heard) ==
  [conn EXCEPT ![k].mine = FALSE, ![k].down = <<>>,
               ![k].up = IF heard THEN @ ELSE <<>>]

Retire(k) ==
  /\ pooled' = NoConn
  /\ \E heard \in BOOLEAN : conn' = Closed(k, heard)

\* FAULT: a failed write is treated like a timeout.
KeepAfterWriteError(k) == UNCHANGED <<pooled, conn>>

\* The write error path.
OnWriteError(k) == Retire(k)

\* FAULT: the counter is not stored back.
SameSeq == UNCHANGED seqCounter

\* ++conns.seq_counter.
NextSeq == seqCounter' = seqCounter + 1

\* The next sequence number, and the frame.  Writing to a connection the
\* peer has closed succeeds once, and tells our kernel that it is gone.
Write(c) ==
  /\ caller[c].at = "have" /\ pooled # NoConn
  /\ NextSeq
  /\ \/ /\ ~conn[pooled].reset
        /\ conn' = [conn EXCEPT
             ![pooled].up = IF conn[pooled].theirs
                            THEN Append(@, seqCounter') ELSE @,
             ![pooled].reset = ~conn[pooled].theirs]
        /\ caller' = [caller EXCEPT ![c] = [at |-> "read", seq |-> seqCounter']]
        /\ UNCHANGED <<holder, pooled>>
     \/ /\ conn[pooled].reset
        /\ OnWriteError(pooled)
        /\ ReturnFailed(c)
  /\ UNCHANGED <<peerUp, failures, history>>

\* FAULT: the first answer that arrives is taken.
TakesAny(seq, frame) == TRUE

\* rsp_seq = seq.
Matches(seq, frame) == frame.seq = seq

Reading(c) == caller[c].at = "read" /\ pooled # NoConn

\* A whole frame arrives: our answer, which may be the peer's refusal, or a
\* late answer to a call that timed out.
ReadFrame(c) ==
  LET input == conn[pooled].down
      frame == Head(input)
      mine  == Matches(caller[c].seq, frame)
  IN /\ Reading(c) /\ input # <<>>
     /\ conn' = [conn EXCEPT ![pooled].down = Tail(input)]
     /\ \/ /\ mine /\ frame.served
           /\ caller' = [caller EXCEPT ![c] = Done]
           /\ holder' = holder \ {c}
           /\ answered' = answered \cup {caller[c].seq}
        \/ /\ mine /\ ~frame.served
           /\ ReturnFailed(c)
           /\ UNCHANGED answered
        \/ /\ ~mine
           /\ UNCHANGED <<caller, holder, answered>>
     /\ UNCHANGED <<seqCounter, pooled, peerUp, failures, handled>>

\* Nothing arrives: the timeout passes, or the peer has closed.  The
\* connection is kept.
ReadNothing(c) ==
  /\ Reading(c) /\ conn[pooled].down = <<>>
  /\ \/ Costs
     \/ ~conn[pooled].theirs /\ UNCHANGED failures
  /\ ReturnFailed(c)
  /\ UNCHANGED <<seqCounter, pooled, netVars, history>>

\* A frame arrives in part, too long, or damaged: the connection goes.
ReadGarbled(c) ==
  /\ Reading(c) /\ conn[pooled].down # <<>>
  /\ Costs
  /\ Retire(pooled)
  /\ ReturnFailed(c)
  /\ UNCHANGED <<seqCounter, peerUp, history>>

(***************************************************************************)
(* RaftRpcConnection::HandleRequests, one fiber per accepted connection.   *)
(***************************************************************************)

Serving(k) == peerUp /\ conn[k].theirs

Receive(k) ==
  /\ Serving(k) /\ conn[k].busy = {} /\ conn[k].up # <<>>
  /\ conn' = [conn EXCEPT ![k].up = Tail(@), ![k].busy = {Head(conn[k].up)}]
  /\ UNCHANGED <<callVars, peerUp, failures, history>>

\* The answer is written.  If the caller is gone the write fails, now or on a
\* later answer, and the fiber ends.
Reply(k, seq, served) ==
  \/ conn' = [conn EXCEPT ![k].busy = {},
       ![k].down = IF conn[k].mine /\ conn[k].theirs
                   THEN Append(@, [seq |-> seq, served |-> served]) ELSE @]
  \/ /\ ~conn[k].mine /\ conn[k].theirs
     /\ conn' = [conn EXCEPT ![k].busy = {}, ![k].theirs = FALSE,
                             ![k].up = <<>>]

\* The handler runs under the node's RPC reference, whatever happened to the
\* connection meanwhile.
Serve(k) ==
  /\ \E seq \in conn[k].busy :
       /\ handled' = [handled EXCEPT ![seq] = @ + 1]
       /\ Reply(k, seq, TRUE)
  /\ UNCHANGED <<callVars, peerUp, failures, answered>>

\* No such group, or TryAcquireRpcRef fails: the answer says no.
Refuse(k) ==
  /\ conn[k].theirs /\ Costs
  /\ \E seq \in conn[k].busy : Reply(k, seq, FALSE)
  /\ UNCHANGED <<callVars, peerUp, history>>

\* End of input, or a request that cannot be read or dispatched.
HangUp(k) ==
  /\ Serving(k) /\ conn[k].busy = {}
  /\ \/ ~conn[k].mine /\ conn[k].up = <<>> /\ UNCHANGED failures
     \/ conn[k].mine /\ conn[k].up # <<>> /\ Costs
  /\ conn' = [conn EXCEPT ![k].theirs = FALSE, ![k].up = <<>>]
  /\ UNCHANGED <<callVars, peerUp, history>>

(***************************************************************************)
(* The environment.                                                        *)
(***************************************************************************)

\* The network breaks a connection.  The peer's fiber may be inside a handler
\* and notices when it answers.
Break(k) ==
  /\ conn[k].mine /\ conn[k].theirs /\ Costs
  /\ \E told \in BOOLEAN :
       conn' = [conn EXCEPT ![k].reset = told, ![k].up = <<>>,
                            ![k].theirs = FALSE, ![k].down = <<>>]
  /\ UNCHANGED <<callVars, peerUp, history>>

\* The peer's process ends; the answers its kernel has not delivered may be
\* lost with it.
PeerExits ==
  /\ peerUp /\ Costs
  /\ peerUp' = FALSE
  /\ \E sent \in BOOLEAN :
       conn' = [k \in DOMAIN conn |->
         [conn[k] EXCEPT !.theirs = FALSE, !.up = <<>>, !.busy = {},
                         !.down = IF sent THEN @ ELSE <<>>]]
  /\ UNCHANGED <<callVars, history>>

PeerStarts ==
  /\ ~peerUp
  /\ peerUp' = TRUE
  /\ UNCHANGED <<callVars, conn, failures, history>>

-----------------------------------------------------------------------------
Init ==
  /\ caller = [c \in Caller |-> Idle]
  /\ holder = {} /\ seqCounter = 0 /\ pooled = NoConn
  /\ conn = <<>>
  /\ peerUp = TRUE /\ failures = 0
  /\ handled = [i \in 1..MaxCalls |-> 0] /\ answered = {}

CallerStep(c) ==
  \/ Call(c) \/ Lock(c) \/ Connect(c) \/ Write(c)
  \/ ReadFrame(c) \/ ReadNothing(c) \/ ReadGarbled(c)

ServerStep(k) == Receive(k) \/ Serve(k) \/ Refuse(k) \/ HangUp(k)

Next ==
  \/ \E c \in Caller : CallerStep(c)
  \/ \E k \in DOMAIN conn : ServerStep(k) \/ Break(k)
  \/ PeerExits
  \/ PeerStarts

Spec == Init /\ [][Next]_vars

\* Fibers that can run do run, the peer's process is started again, and the
\* callers keep calling.
FairSpec ==
  /\ Spec
  /\ \A c \in Caller : WF_vars(CallerStep(c))
  /\ \A k \in 1..(1 + MaxFailures) :
       WF_vars(k \in DOMAIN conn /\ ServerStep(k))
  /\ WF_vars(PeerStarts)

(***************************************************************************)
(* Properties.                                                             *)
(***************************************************************************)

TypeOK ==
  /\ caller \in [Caller -> [at : {"idle", "wait", "have", "read", "done"},
                            seq : 0..MaxCalls]]
  /\ holder \subseteq Caller
  /\ seqCounter \in 0..MaxCalls
  /\ pooled \in 0..Len(conn)
  /\ \A k \in DOMAIN conn :
       /\ {conn[k].mine, conn[k].theirs, conn[k].reset} \subseteq BOOLEAN
       /\ conn[k].up \in Seq(1..seqCounter)
       /\ conn[k].down \in Seq([seq : 1..seqCounter, served : BOOLEAN])
       /\ conn[k].busy \subseteq 1..seqCounter
  /\ peerUp \in BOOLEAN
  /\ failures \in 0..MaxFailures
  /\ handled \in [1..MaxCalls -> Nat]
  /\ answered \subseteq 1..seqCounter

\* A failure costs at most three calls.  Keeping the connection after an
\* empty read is cheap: a dead connection is found out by the call that is
\* open, one whose frame is lost, and one whose write fails.
FailuresAreCheap ==
  seqCounter <= Cardinality(answered) + Cardinality(holder) + 3 * failures

\* The status of call i as Rpc sees it.  A refusal is a failure: the answer
\* is the one the transport makes up itself.
CallStatus ==
  [i \in 1..MaxCalls |->
     IF i > seqCounter THEN "new"
     ELSE IF \E c \in Caller : caller[c] = [at |-> "read", seq |-> i]
          THEN "open"
     ELSE IF i \in answered THEN "answered" ELSE "failed"]

Abstract == INSTANCE Rpc WITH status <- CallStatus

\* The channel is the RPC that RaftNode assumes: the answer DoRpc returns is
\* the answer to its own request although late answers share the
\* connection, and no request is handled twice although callers retry and
\* connections are replaced.
ImplementsRpc == Abstract!Spec

\* Why: the inductive invariant behind these properties.  One caller at a time
\* is between lock and return;
ConnType ==
  [mine : BOOLEAN, theirs : BOOLEAN, reset : BOOLEAN, up : Seq(Nat),
   down : Seq([seq : Nat, served : BOOLEAN]), busy : SUBSET Nat]

Open     == {c \in Caller : caller[c].at = "read"}
Finished == {c \in Caller : caller[c].at = "done"}

Serialised ==
  /\ \A c, d \in holder : c = d
  /\ \A c \in Caller : caller[c].at \in {"have", "read"} <=> c \in holder
  /\ \A c \in Open : caller[c].seq \in 1..seqCounter /\ caller[c].seq \notin answered
  /\ Cardinality(answered) = Cardinality(Finished)

\* a request is in one place until its handler runs, and an answer that says
\* it was served follows that;
Waiting(r) == {r.up[a] : a \in 1..Len(r.up)} \cup r.busy
Frames(r)  == {r.down[a] : a \in 1..Len(r.down)}

InOrder(r) ==
  /\ \A a, b \in 1..Len(r.up) : a < b => r.up[a] < r.up[b]
  /\ \A i, j \in r.busy : i = j
  /\ \A i \in r.busy, a \in 1..Len(r.up) : i < r.up[a]

HandledOnce ==
  /\ \A i \in 1..MaxCalls : handled[i] \in {0, 1} /\ (i > seqCounter => handled[i] = 0)
  /\ \A i \in answered : handled[i] = 1
  /\ \A k \in DOMAIN conn :
       /\ InOrder(conn[k])
       /\ \A i \in Waiting(conn[k]) : i \in 1..seqCounter /\ handled[i] = 0
       /\ \A f \in Frames(conn[k]) : f.seq \in 1..seqCounter /\ (f.served => handled[f.seq] = 1)
       /\ \A l \in DOMAIN conn : k # l => Waiting(conn[k]) \cap Waiting(conn[l]) = {}

\* and a failure pays in advance for the calls it will cost: the open one, the
\* one whose frame a dead connection swallows, the one whose write fails.
Count(S) == IF S = {} THEN 0 ELSE 1

RefusedCalls ==
  {c \in Open : [seq |-> caller[c].seq, served |-> FALSE] \in Frames(conn[pooled])}

Debt ==
  IF pooled = NoConn THEN 0
  ELSE IF conn[pooled].theirs THEN Count(RefusedCalls)
  ELSE (IF conn[pooled].reset THEN 1 ELSE 2) + Count(Open)

Solvent ==
  /\ pooled # NoConn => conn[pooled].mine
  /\ \A k \in DOMAIN conn : conn[k].reset => ~conn[k].theirs
  /\ seqCounter + Debt <= Cardinality(answered) + Count(Open) + 3 * failures

ChannelInv ==
  TypeOK /\ conn \in Seq(ConnType) /\ Serialised /\ HandledOnce /\ Solvent

\* Every caller is answered in the end: whatever failed, the channel finds
\* out, reconnects, and no caller waits for the mutex for ever.
EventuallyAnswered == \A c \in Caller : <>(caller[c] = Done)

=============================================================================
