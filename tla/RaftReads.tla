----------------------------- MODULE RaftReads -----------------------------
(***************************************************************************)
(* Linearizable GETs: Service::Get with --linearizable_read, over          *)
(* RaftNode::ReadIndex, OnReadIndex and WaitForApplied, composed with the  *)
(* consensus core of module RaftNode.                                      *)
(*                                                                         *)
(* A leader whose lease is valid takes its commit index at once; otherwise *)
(* it asks the peers one at a time without the lock, and takes its commit  *)
(* index if a majority still knows it as the leader of this term.  Then it *)
(* waits until that index is applied, or five seconds, and the shard is    *)
(* read.  How long a lease lasts is left open: after it was extended it    *)
(* may run out at any time.                                                *)
(*                                                                         *)
(* A definition marked FAULT is a wrong variant of the one after it.       *)
(***************************************************************************)
EXTENDS RaftNode

CONSTANTS
  MaxReads   \* bound: GETs

ASSUME ReadsAssumption == MaxReads \in Nat

VARIABLES
  lease,     \* NowMs() < leader_lease_expire_, of each node
  reads,     \* GETs in progress
  served     \* history: what each finished GET was entitled to and saw

readVars == <<lease, reads, served>>
allVars  == <<vars, readVars>>

\* due: history, what was committed when the GET came in.  oks: the peers that
\* confirmed.  own: the commit index taken is of the leader's own term.
NewRead(n) ==
  [node |-> n, term |-> currentTerm[n], due |-> committed, phase |-> "ask",
   todo |-> Peers(n), oks |-> {}, maxTerm |-> currentTerm[n],
   index |-> 0, path |-> "slow", own |-> FALSE]

Step(r, next) == reads' = (reads \ {r}) \cup next

\* The commit index is the read index; 0 makes ReadIndex fail.
TakesIndex(r, path) ==
  IF commitIndex[r.node] = 0 THEN {}
  ELSE {[r EXCEPT !.phase = "wait", !.todo = {}, !.oks = {}, !.path = path,
           !.index = commitIndex[r.node],
           !.own = TermAt(log[r.node], commitIndex[r.node]) = r.term]}

\* Phase 1.
ReadIndex(n) ==
  /\ role[n] = Leader
  /\ Cardinality(reads) + Cardinality(served) < MaxReads
  /\ reads' = reads \cup IF lease[n] THEN TakesIndex(NewRead(n), "fast")
                                     ELSE {NewRead(n)}
  /\ UNCHANGED <<vars, lease, served>>

\* OnReadIndex at peer p: the answer, which changes nothing there.
ReadIndexResponse(r, p) ==
  Response(currentTerm[p], r.term >= currentTerm[p] /\ role[p] # Candidate, 0)

Confirms(r, resp) == resp.ok /\ resp.term = r.term

\* Phase 2.
SendReadIndex(r, p) ==
  LET resp == ReadIndexResponse(r, p)
  IN /\ r.phase = "ask" /\ p \in r.todo
     /\ Step(r, {[r EXCEPT !.todo = @ \ {p},
                           !.oks = IF Confirms(r, resp) THEN @ \cup {p} ELSE @,
                           !.maxTerm = MaxOf(@, resp.term)]})
     /\ UNCHANGED <<vars, lease, served>>

ReadIndexFails(r, p) ==
  /\ r.phase = "ask" /\ p \in r.todo
  /\ Step(r, {[r EXCEPT !.todo = @ \ {p}]})
  /\ UNCHANGED <<vars, lease, served>>

\* Phase 3: a newer term was seen; not the leader of this term any more, or
\* no majority; confirmed, which extends the lease.
Asked(r) == r.phase = "ask" /\ r.todo = {}

ReadDeposed(r) ==
  /\ Asked(r) /\ r.maxTerm > currentTerm[r.node]
  /\ BecomeFollower(r.node, r.maxTerm)
  /\ Step(r, {})
  /\ UNCHANGED <<logVars, peerVars, election, callVars, late, history, lease,
                 served>>

\* FAULT: one vote less than a majority.
AlmostConfirmed(r) == Cardinality(r.oks) + 2 >= Majority

\* success_count >= majority, self included.
QuorumConfirmed(r) == Cardinality(r.oks) + 1 >= Majority

StillLeads(r) == role[r.node] = Leader /\ currentTerm[r.node] = r.term

ReadRefused(r) ==
  /\ Asked(r) /\ r.maxTerm <= currentTerm[r.node]
  /\ ~StillLeads(r) \/ ~QuorumConfirmed(r)
  /\ Step(r, {})
  /\ UNCHANGED <<vars, lease, served>>

ReadConfirmed(r) ==
  /\ Asked(r) /\ r.maxTerm <= currentTerm[r.node]
  /\ StillLeads(r) /\ QuorumConfirmed(r)
  /\ Step(r, TakesIndex(r, "slow"))
  /\ lease' = [lease EXCEPT ![r.node] = TRUE]
  /\ UNCHANGED <<vars, served>>

\* WaitForApplied applies what is committed; Get then reads the shard.  When
\* the wait times out the GET is served all the same.
ServeRead(r) ==
  LET n == r.node
      done == Apply(applied[n], log[n], commitIndex[n])
  IN /\ r.phase = "wait"
     /\ applied' = [applied EXCEPT ![n] = done]
     /\ served' = served \cup
          {[due |-> r.due, saw |-> done, path |-> r.path, own |-> r.own,
            waited |-> Len(done) >= r.index]}
     /\ Step(r, {})
     /\ UNCHANGED <<hardState, role, timer, log, commitIndex, peerVars,
                    election, callVars, late, history, lease>>

\* The majority branch of HeartbeatTickImpl, whose other effects are in
\* RecordHeartbeats, extends the lease.
ExtendsLease(k) ==
  /\ k.todo = {} /\ SameLeadership(k) /\ k.maxTerm <= currentTerm[k.node]
  /\ Cardinality(k.acks) + 1 >= PeerMajority

LeaseRunsOut(n) ==
  /\ lease[n]
  /\ lease' = [lease EXCEPT ![n] = FALSE]
  /\ UNCHANGED <<vars, reads, served>>

-----------------------------------------------------------------------------
ReadsInit == Init /\ lease = [n \in Server |-> FALSE] /\ reads = {} /\ served = {}

\* A step of the core; a heartbeat round that ends in it may extend a lease.
CoreStep ==
  /\ Next
  /\ lease' = [n \in Server |->
       lease[n] \/ \E k \in ticks \ ticks' : k.node = n /\ ExtendsLease(k)]
  /\ UNCHANGED <<reads, served>>

ReadStep(r) ==
  \/ \E p \in r.todo : SendReadIndex(r, p) \/ ReadIndexFails(r, p)
  \/ ReadDeposed(r) \/ ReadRefused(r) \/ ReadConfirmed(r) \/ ServeRead(r)

ReadsNext ==
  \/ CoreStep
  \/ \E n \in Server : ReadIndex(n) \/ LeaseRunsOut(n)
  \/ \E r \in reads : ReadStep(r)

ReadsSpec == ReadsInit /\ [][ReadsNext]_allVars

(***************************************************************************)
(* Properties.                                                             *)
(***************************************************************************)

Fresh(s) == \A e \in s.due : e[1] <= Len(s.saw) /\ s.saw[e[1]] = e[2]

\* A GET sees every write committed before it came in, if its leader had the
\* majority confirm it, has committed an entry of its own term, and waited
\* until the index was applied.  The confirmation is what keeps a deposed
\* leader that still believes in itself from answering.
ConfirmedReadsAreFresh ==
  \A s \in served : s.path = "slow" /\ s.own /\ s.waited => Fresh(s)

\* What the comment in Service::Get says of every linearizable GET: it
\* observes every write that completed before it was issued.
ReadsAreFresh == \A s \in served : Fresh(s)

=============================================================================
