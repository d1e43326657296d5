------------------------------ MODULE RaftNode ------------------------------
(***************************************************************************)
(* The consensus core of the server: class RaftNode of                     *)
(* server/raft/raft_node.cc, in a cluster with a fixed set of voters.      *)
(*                                                                         *)
(* Every public entry point of RaftNode runs under one mutex, and every    *)
(* call that talks to the peers has the same shape: a locked phase that    *)
(* captures the request, RPCs sent one peer at a time WITHOUT the lock,    *)
(* and a locked phase that folds in the tally.  The model keeps exactly    *)
(* these atomicity boundaries: one action per locked phase, one action per *)
(* RPC.  A completed RPC is the peer's whole handler plus the caller's     *)
(* bookkeeping; a failed one gives the caller the transport's default      *)
(* answer (term 0, no success), and its request is lost, or stays in       *)
(* "late" to be handled at any later time with nobody awaiting the answer. *)
(*                                                                         *)
(* A definition marked FAULT is a wrong variant of the one after it.  No   *)
(* action uses it; substituting it shows that the properties notice.       *)
(***************************************************************************)
EXTENDS Integers, Sequences, FiniteSets, FiniteSetsExt

CONSTANTS
  Server,       \* the voters: every node, self included
  Value,        \* client commands
  Nil,          \* the empty voted_for
  Mortal,       \* the servers whose process may be killed and restarted
  Eligible,     \* bound: the servers whose election timer may fire
  MaxTerm,      \* bound: no election starts beyond this term
  MaxLog,       \* bound: no submit beyond this log length
  MaxLate,      \* bound: timed-out requests still in the network
  MaxTicks,     \* bound: heartbeat rounds in flight, over all nodes
  MaxWriters,   \* bound: coordinators in flight, over all nodes
  MaxTries,     \* rounds of one ReplicateLog call (8 in the code)
  MaxIters,     \* ReplicateLog calls of one coordinator (16 in the code)
  MaxBatch      \* kMaxAppendBatch

ASSUME ServerAssumption == IsFiniteSet(Server) /\ Server # {}
ASSUME NilAssumption    == Nil \notin Server
ASSUME BoundAssumption  ==
  /\ {MaxTerm, MaxLog, MaxLate, MaxTicks, MaxWriters} \subseteq Nat
  /\ {MaxTries, MaxIters, MaxBatch} \subseteq Nat \ {0}
  /\ Mortal \subseteq Server /\ Eligible \subseteq Server

VARIABLES
  currentTerm, votedFor,     \* storage_: term and vote, one durable record
  log,                       \* log_storage_: Seq of [term, val], durable
  role,                      \* role_
  timer,                     \* election_timer_.active_
  commitIndex,               \* commit_index_
  applied,                   \* what the state machine was given; its length
                             \* is last_applied_
  peerLast, peerNext,        \* peer_last_log_index_, peer_next_index_
  peerHbOk                   \* peer_hb_ok_

VARIABLES
  election,                  \* the StartElection call of each node
  ticks,                     \* HeartbeatTickImpl calls in their phase 2
  calls,                     \* ReplicateLog calls and the loops around them
  waiting,                   \* SubmitEntry callers no coordinator has taken
  late                       \* requests whose caller has timed out

\* History, read by no action: votes ever granted, leaderships ever won,
\* entries a leader ever committed, submits ever answered OK.
VARIABLES voteLog, leaders, committed, acked

hardState == <<currentTerm, votedFor>>
logVars   == <<log, commitIndex, applied>>
peerVars  == <<peerLast, peerNext, peerHbOk>>
callVars  == <<ticks, calls, waiting>>
history   == <<voteLog, leaders, committed, acked>>
vars      == <<hardState, role, timer, logVars, peerVars, election, callVars,
               late, history>>

Follower  == "Follower"
Candidate == "Candidate"
Leader    == "Leader"

Peers(n) == Server \ {n}

\* FAULT: half of the cluster is taken for a majority.
HalfIsMajority == Cardinality(Server) \div 2

\* Votes or match indexes needed (self included): voters.size() counts the
\* peers only, hence the + 1.
Majority == Cardinality(Server) \div 2 + 1

\* The quorum the heartbeat and replication paths use: voters.size() / 2 + 1
\* without the + 1 for self.  Equal to Majority only in odd-sized clusters.
PeerMajority == (Cardinality(Server) - 1) \div 2 + 1

TermAt(l, i) == IF i \in 1..Len(l) THEN l[i].term ELSE 0
LastTerm(l)  == TermAt(l, Len(l))
MinOf(a, b)  == IF a < b THEN a ELSE b
MaxOf(a, b)  == IF a > b THEN a ELSE b

\* ApplyCommittedLogsLocked: applies in log order while both the commit index
\* and the log reach further than what is applied.
Apply(done, l, commit) == done \o SubSeq(l, Len(done) + 1, MinOf(commit, Len(l)))

(***************************************************************************)
(* Role changes.                                                           *)
(***************************************************************************)

\* FAULT: a step-down always clears the vote, as the public SetRole does.
BecomeFollowerClearingVote(n, t) ==
  /\ currentTerm' = [currentTerm EXCEPT ![n] = t]
  /\ votedFor' = [votedFor EXCEPT ![n] = Nil]
  /\ role' = [role EXCEPT ![n] = Follower]
  /\ timer' = [timer EXCEPT ![n] = TRUE]

\* BecomeFollowerLocked: a newer term is stored with an empty vote in one
\* record; stepping down within a term keeps the vote.
BecomeFollower(n, t) ==
  /\ currentTerm' = [currentTerm EXCEPT ![n] = t]
  /\ votedFor' = [votedFor EXCEPT ![n] = IF t > currentTerm[n] THEN Nil ELSE @]
  /\ role' = [role EXCEPT ![n] = Follower]
  /\ timer' = [timer EXCEPT ![n] = TRUE]

\* BecomeCandidateLocked: term + 1 and the self-vote in one durable record.
BecomeCandidate(n) ==
  /\ currentTerm' = [currentTerm EXCEPT ![n] = @ + 1]
  /\ votedFor' = [votedFor EXCEPT ![n] = n]
  /\ role' = [role EXCEPT ![n] = Candidate]
  /\ timer' = [timer EXCEPT ![n] = FALSE]
  /\ voteLog' = voteLog \cup {<<n, currentTerm[n] + 1, n>>}

BecomeLeader(n) ==
  /\ role' = [role EXCEPT ![n] = Leader]
  /\ timer' = [timer EXCEPT ![n] = FALSE]
  /\ peerNext' = [peerNext EXCEPT ![n] = [p \in Server |-> Len(log[n]) + 1]]
  /\ peerLast' = [peerLast EXCEPT ![n] = [p \in Server |-> 0]]
  /\ leaders' = leaders \cup {<<currentTerm[n], n>>}
  /\ UNCHANGED peerHbOk

(***************************************************************************)
(* The three RPC handlers, run at peer p.  Every response has a term, a    *)
(* success flag and the peer's last log index.                             *)
(***************************************************************************)
Response(t, ok, last) == [term |-> t, ok |-> ok, last |-> last]

\* What the transport returns when the RPC fails.
NoResponse == Response(0, FALSE, 0)

VoteRequest(n, p) ==
  [type |-> "vote", from |-> n, to |-> p, term |-> election[n].term,
   lastIndex |-> election[n].lastIndex, lastTerm |-> election[n].lastTerm]

\* FAULT: the longer log wins, whatever its last term.
LogUpToDateByLength(p, m) == m.lastIndex >= Len(log[p])

LogUpToDate(p, m) ==
  \/ m.lastTerm > LastTerm(log[p])
  \/ m.lastTerm = LastTerm(log[p]) /\ m.lastIndex >= Len(log[p])

\* FAULT: the vote already given in this term is not looked at.
GrantsVoteAgain(p, m) == m.term >= currentTerm[p] /\ LogUpToDate(p, m)

GrantsVote(p, m) ==
  /\ m.term >= currentTerm[p]
  /\ m.term > currentTerm[p] \/ votedFor[p] \in {Nil, m.from}
  /\ LogUpToDate(p, m)

VoteResponse(p, m) ==
  Response(MaxOf(m.term, currentTerm[p]), GrantsVote(p, m), 0)

\* A newer term demotes the node and clears its vote before the vote is
\* decided; a grant is durable before the answer leaves.  Granting does not
\* reset the election timer.
OnRequestVote(p, m) ==
  LET newer == m.term > currentTerm[p]
      grant == GrantsVote(p, m)
  IN /\ currentTerm' = [currentTerm EXCEPT ![p] = MaxOf(m.term, @)]
     /\ votedFor' = [votedFor EXCEPT ![p] = IF grant THEN m.from
                                            ELSE IF newer THEN Nil ELSE @]
     /\ role' = [role EXCEPT ![p] = IF newer THEN Follower ELSE @]
     /\ timer' = [timer EXCEPT ![p] = newer \/ @]
     /\ voteLog' = IF grant THEN voteLog \cup {<<p, m.term, m.from>>}
                            ELSE voteLog
     /\ UNCHANGED <<logVars, peerVars, leaders, committed, acked>>

Heartbeat(k, p) ==
  [type |-> "heartbeat", from |-> k.node, to |-> p, term |-> k.term,
   commit |-> k.commit]

HeartbeatResponse(p, m) ==
  Response(MaxOf(m.term, currentTerm[p]), m.term >= currentTerm[p], Len(log[p]))

\* Accepting demotes a same-term candidate too.  A leader_commit within our
\* log is taken as it is, one beyond our log is ignored.
OnHeartbeat(p, m) ==
  LET accept == \/ m.term > currentTerm[p]
                \/ m.term = currentTerm[p] /\ role[p] # Leader
      commit == IF /\ accept
                   /\ m.commit > commitIndex[p]
                   /\ m.commit <= Len(log[p])
                THEN m.commit ELSE commitIndex[p]
  IN /\ IF accept THEN BecomeFollower(p, m.term)
        ELSE /\ timer' = [timer EXCEPT ![p] = m.term = currentTerm[p] \/ @]
             /\ UNCHANGED <<hardState, role>>
     /\ commitIndex' = [commitIndex EXCEPT ![p] = commit]
     /\ applied' = [applied EXCEPT
                      ![p] = IF commit > commitIndex[p]
                             THEN Apply(@, log[p], commit) ELSE @]
     /\ UNCHANGED <<log, peerVars, history>>

\* FAULT: the leader announces its last index instead of its commit index.
AppendEntriesAhead(c, p) ==
  [type |-> "append", from |-> c.node, to |-> p, term |-> c.rd.term,
   commit |-> Len(c.rd.log),
   prev |-> c.rd.next[p] - 1, prevTerm |-> TermAt(c.rd.log, c.rd.next[p] - 1),
   entries |-> SubSeq(c.rd.log, c.rd.next[p],
                      MinOf(Len(c.rd.log), c.rd.next[p] + MaxBatch - 1))]

\* The request ReplicateLog call c has for peer p: prev and entries were
\* copied in phase 1, leader_commit is read as the request is sent.
AppendEntries(c, p) ==
  [type |-> "append", from |-> c.node, to |-> p, term |-> c.rd.term,
   commit |-> commitIndex[c.node],
   prev |-> c.rd.next[p] - 1, prevTerm |-> TermAt(c.rd.log, c.rd.next[p] - 1),
   entries |-> SubSeq(c.rd.log, c.rd.next[p],
                      MinOf(Len(c.rd.log), c.rd.next[p] + MaxBatch - 1))]

PrevMatches(p, m) ==
  /\ m.prev <= Len(log[p])
  /\ m.prev > 0 => log[p][m.prev].term = m.prevTerm

\* FAULT: a request of an older term is not refused.
AcceptsStaleEntries(p, m) == PrevMatches(p, m)

AcceptsEntries(p, m) == m.term >= currentTerm[p] /\ PrevMatches(p, m)

\* FAULT: an index that is present counts as the same entry.
MergedLogByIndex(l, m) ==
  LET tail == m.prev + Len(m.entries)
  IN IF Len(l) < tail
     THEN l \o SubSeq(m.entries, Len(l) - m.prev + 1, Len(m.entries))
     ELSE IF m.entries # <<>> THEN SubSeq(l, 1, tail) ELSE l

\* The log after the merge loop: entries already present are kept up to the
\* first conflict, which cuts the log, and the rest is appended; then, if the
\* request carries entries, any local tail beyond its last entry is cut too.
MergedLog(l, m) ==
  LET kept(i) == /\ i <= Len(l)
                 /\ \A j \in (m.prev + 1)..i :
                      l[j].term = m.entries[j - m.prev].term
  IN IF m.entries = <<>> THEN l
     ELSE [i \in 1..(m.prev + Len(m.entries)) |->
             IF kept(i) THEN l[i] ELSE m.entries[i - m.prev]]

AppendResponse(p, m) ==
  LET t == MaxOf(m.term, currentTerm[p])
  IN IF AcceptsEntries(p, m) THEN Response(t, TRUE, Len(MergedLog(log[p], m)))
     ELSE IF m.term >= currentTerm[p] /\ m.prev <= Len(log[p])
          THEN Response(t, FALSE, m.prev - 1)
          ELSE Response(t, FALSE, Len(log[p]))

\* FAULT: entries of a newer leader are taken without its term.
KeepsTerm(p, m) ==
  /\ timer' = [timer EXCEPT ![p] = @ \/ m.term >= currentTerm[p]]
  /\ UNCHANGED <<hardState, role>>

\* A newer term is followed.  A same-term candidate keeps its role; only its
\* timer is reset.
FollowsSender(p, m) ==
  IF m.term > currentTerm[p] THEN BecomeFollower(p, m.term)
  ELSE /\ timer' = [timer EXCEPT ![p] =
            @ \/ (m.term = currentTerm[p] /\ role[p] # Leader)]
       /\ UNCHANGED <<hardState, role>>

OnAppendEntries(p, m) ==
  LET taken == AcceptsEntries(p, m)
      merged == IF taken THEN MergedLog(log[p], m) ELSE log[p]
      advance == taken /\ m.commit > commitIndex[p]
      commit == MinOf(m.commit, Len(merged))
  IN /\ FollowsSender(p, m)
     /\ log' = [log EXCEPT ![p] = merged]
     /\ commitIndex' = [commitIndex EXCEPT ![p] = IF advance THEN commit ELSE @]
     /\ applied' = [applied EXCEPT ![p] = IF advance
                                          THEN Apply(@, merged, commit) ELSE @]
     /\ UNCHANGED <<peerVars, history>>

\* A request whose RPC failed: lost, or left in the network.
TimesOut(m) ==
  \/ UNCHANGED late
  \/ Cardinality(late) < MaxLate /\ late' = late \cup {m}

\* A late request reaches its peer; the answer carries a stale sequence
\* number and the transport skips it.
HandleLate(m) ==
  /\ m \in late
  /\ late' = late \ {m}
  /\ \/ m.type = "vote" /\ OnRequestVote(m.to, m)
     \/ m.type = "heartbeat" /\ OnHeartbeat(m.to, m)
     \/ m.type = "append" /\ OnAppendEntries(m.to, m)
  /\ UNCHANGED <<election, callVars>>

(***************************************************************************)
(* Elections: StartElection, run by the election timer's fiber.            *)
(***************************************************************************)
NoElection ==
  [on |-> FALSE, term |-> 0, lastIndex |-> 0, lastTerm |-> 0,
   todo |-> {}, granted |-> {}, maxTerm |-> 0]

\* The timer fires (and disarms itself); phase 1 of StartElection.  The same
\* fiber runs the whole call, so a node has one election in progress.
StartElection(n) ==
  /\ timer[n] /\ ~election[n].on
  /\ role[n] # Leader
  /\ n \in Eligible /\ currentTerm[n] < MaxTerm
  /\ BecomeCandidate(n)
  /\ election' = [election EXCEPT ![n] =
       [on |-> TRUE, term |-> currentTerm[n] + 1, lastIndex |-> Len(log[n]),
        lastTerm |-> LastTerm(log[n]), todo |-> Peers(n), granted |-> {},
        maxTerm |-> currentTerm[n] + 1]]
  /\ UNCHANGED <<logVars, peerVars, callVars, late, leaders, committed, acked>>

\* Phase 2: the answer r of peer p enters the tally.
TallyVote(n, p, r) ==
  election' = [election EXCEPT
    ![n].todo = @ \ {p},
    ![n].granted = IF r.ok THEN @ \cup {p} ELSE @,
    ![n].maxTerm = MaxOf(@, r.term)]

SendVoteRequest(n, p) ==
  /\ p \in election[n].todo
  /\ OnRequestVote(p, VoteRequest(n, p))
  /\ TallyVote(n, p, VoteResponse(p, VoteRequest(n, p)))
  /\ UNCHANGED <<callVars, late>>

VoteRequestFails(n, p) ==
  /\ p \in election[n].todo
  /\ TimesOut(VoteRequest(n, p))
  /\ TallyVote(n, p, NoResponse)
  /\ UNCHANGED <<hardState, role, timer, logVars, peerVars, callVars, history>>

\* Phase 3, in the order of its conditions: a newer term was seen; the node
\* is not campaigning in this term any more; won; lost.
Tallied(n) == election[n].on /\ election[n].todo = {}

Campaigning(n) ==
  /\ election[n].maxTerm <= currentTerm[n]
  /\ role[n] = Candidate /\ currentTerm[n] = election[n].term

EndElection(n) ==
  /\ election' = [election EXCEPT ![n] = NoElection]
  /\ UNCHANGED <<logVars, callVars, late, voteLog, committed, acked>>

ElectionDeposed(n) ==
  /\ Tallied(n) /\ election[n].maxTerm > currentTerm[n]
  /\ BecomeFollower(n, election[n].maxTerm)
  /\ EndElection(n)
  /\ UNCHANGED <<peerVars, leaders>>

ElectionOvertaken(n) ==
  /\ Tallied(n) /\ election[n].maxTerm <= currentTerm[n]
  /\ ~Campaigning(n)
  /\ EndElection(n)
  /\ UNCHANGED <<hardState, role, timer, peerVars, leaders>>

ElectionWon(n) ==
  /\ Tallied(n) /\ Campaigning(n)
  /\ Cardinality(election[n].granted) + 1 >= Majority
  /\ BecomeLeader(n)
  /\ EndElection(n)
  /\ UNCHANGED hardState

\* FAULT: the loser does not step back and nothing arms its timer again.
ElectionLostStaysCandidate(n) ==
  /\ Tallied(n) /\ Campaigning(n)
  /\ Cardinality(election[n].granted) + 1 < Majority
  /\ EndElection(n)
  /\ UNCHANGED <<hardState, role, timer, peerVars, leaders>>

ElectionLost(n) ==
  /\ Tallied(n) /\ Campaigning(n)
  /\ Cardinality(election[n].granted) + 1 < Majority
  /\ BecomeFollower(n, currentTerm[n])
  /\ EndElection(n)
  /\ UNCHANGED <<peerVars, leaders>>

(***************************************************************************)
(* Commit.                                                                 *)
(***************************************************************************)

\* The indexes our log and the peers' match indexes reach, held by at least q.
Reached(n, match, q) ==
  LET reach == [s \in Server |-> IF s = n THEN Len(log[n]) ELSE match[s]]
  IN {i \in {0} \cup {reach[s] : s \in Server} :
        Cardinality({s \in Server : reach[s] >= i}) >= q}

\* FAULT: one place too far up the sorted indexes.
MajorityReachOffByOne(n, match) == Max(Reached(n, match, Majority - 1))

\* indexes[majority - 1]: the Majority-th largest.
MajorityReach(n, match) == Max(Reached(n, match, Majority))

\* FAULT: an entry of an older term is committed by counting replicas.
AdvanceCommitAnyTerm(n, match) == MaxOf(commitIndex[n], MajorityReach(n, match))

\* AdvanceCommitIndexLocked: not to an entry of an older term.  An index beyond
\* our log has term 0 and passes.
AdvanceCommit(n, match) ==
  LET candidate == MajorityReach(n, match)
      older == candidate <= Len(log[n])
                 /\ TermAt(log[n], candidate) < currentTerm[n]
  IN IF candidate > commitIndex[n] /\ ~older THEN candidate ELSE commitIndex[n]

\* The leader's commit index moves to c; the entries below it that the leader
\* holds count as committed from then on.
LeaderCommits(n, c) ==
  /\ commitIndex' = [commitIndex EXCEPT ![n] = c]
  /\ committed' = committed \cup
       {<<i, log[n][i]>> : i \in (commitIndex[n] + 1)..MinOf(c, Len(log[n]))}

(***************************************************************************)
(* Heartbeats: HeartbeatTickImpl, run by the heartbeat fiber of one        *)
(* leadership (one heartbeat epoch).                                       *)
(***************************************************************************)

\* The fiber runs its tick and the catch-up that may follow one after the
\* other; a detached fiber of an earlier leadership may still be sending.
FiberBusy(n, t) ==
  \/ \E k \in ticks : k.node = n /\ k.term = t
  \/ \E c \in calls : c.node = n /\ c.kind = "catchup" /\ c.epoch = t

HeartbeatTick(n) ==
  /\ role[n] = Leader
  /\ ~FiberBusy(n, currentTerm[n])
  /\ Cardinality(ticks) < MaxTicks
  /\ ticks' = ticks \cup
       {[node |-> n, term |-> currentTerm[n], commit |-> commitIndex[n],
         todo |-> Peers(n), acks |-> {}, last |-> [p \in Server |-> 0],
         maxTerm |-> currentTerm[n]]}
  /\ UNCHANGED <<hardState, role, timer, logVars, peerVars, election, calls,
                 waiting, late, history>>

TallyHeartbeat(k, p, r) ==
  LET ack == r.ok /\ r.term = k.term
  IN ticks' = (ticks \ {k}) \cup
       {[k EXCEPT !.todo = @ \ {p},
                  !.acks = IF ack THEN @ \cup {p} ELSE @,
                  !.last[p] = IF ack THEN r.last ELSE @,
                  !.maxTerm = MaxOf(@, r.term)]}

SendHeartbeat(k, p) ==
  /\ p \in k.todo
  /\ OnHeartbeat(p, Heartbeat(k, p))
  /\ TallyHeartbeat(k, p, HeartbeatResponse(p, Heartbeat(k, p)))
  /\ UNCHANGED <<election, calls, waiting, late>>

HeartbeatFails(k, p) ==
  /\ p \in k.todo
  /\ TimesOut(Heartbeat(k, p))
  /\ TallyHeartbeat(k, p, NoResponse)
  /\ UNCHANGED <<hardState, role, timer, logVars, peerVars, election, calls,
                 waiting, history>>

\* The epoch check of phase 3: still the leader this tick was started for.
SameLeadership(k) == role[k.node] = Leader /\ currentTerm[k.node] = k.term

HeartbeatStale(k) ==
  /\ k.todo = {} /\ ~SameLeadership(k)
  /\ ticks' = ticks \ {k}
  /\ UNCHANGED <<hardState, role, timer, logVars, peerVars, election, calls,
                 waiting, late, history>>

HeartbeatDeposed(k) ==
  /\ k.todo = {} /\ SameLeadership(k) /\ k.maxTerm > currentTerm[k.node]
  /\ BecomeFollower(k.node, k.maxTerm)
  /\ ticks' = ticks \ {k}
  /\ UNCHANGED <<logVars, peerVars, election, calls, waiting, late, history>>

\* Progress from the acknowledgements: what a follower reports as its last
\* index becomes its match index.  The leader commits but does not apply here.
RecordHeartbeats(k) ==
  LET n == k.node
      match == [p \in Server |-> IF p \in k.acks THEN k.last[p] ELSE peerLast[n][p]]
  IN /\ k.todo = {} /\ SameLeadership(k) /\ k.maxTerm <= currentTerm[n]
     /\ peerHbOk' = [peerHbOk EXCEPT ![n] = k.acks]
     /\ peerLast' = [peerLast EXCEPT ![n] = match]
     /\ LeaderCommits(n, AdvanceCommit(n, match))
     /\ ticks' = ticks \ {k}
     /\ UNCHANGED <<log, applied, peerNext, election, waiting, late, voteLog,
                    leaders, acked>>

(***************************************************************************)
(* Replication: ReplicateLog.  A call is in phase "start" before a round,  *)
(* "send" during its RPCs, and, for a coordinator, "check" after the call. *)
(***************************************************************************)
NoRound ==
  [term |-> 0, log |-> <<>>, next |-> [p \in Server |-> 1],
   todo |-> {}, acks |-> {}, fails |-> {}, hint |-> [p \in Server |-> 0],
   maxTerm |-> 0]

\* kind: "write" for a coordinator, "catchup" for the heartbeat fiber, whose
\* leadership is epoch.  tries counts the rounds of this call, iter the calls.
NewCall(n, kind, epoch, batch) ==
  [node |-> n, kind |-> kind, epoch |-> epoch, batch |-> batch, iter |-> 0,
   tries |-> 0, phase |-> "start", rd |-> NoRound]

\* A tick with too few acknowledgements steps down once the last majority is
\* more than check_quorum_ms ago; otherwise the leader goes on, and pushes
\* entries if a follower that answered is behind.
HeartbeatDone(k) ==
  /\ RecordHeartbeats(k)
  /\ calls' = IF \E p \in k.acks : k.last[p] < Len(log[k.node])
              THEN calls \cup {NewCall(k.node, "catchup", k.term, {})} ELSE calls
  /\ UNCHANGED <<hardState, role, timer>>

CheckQuorumStepDown(k) ==
  /\ RecordHeartbeats(k)
  /\ Cardinality(k.acks) + 1 < PeerMajority
  /\ BecomeFollower(k.node, currentTerm[k.node])
  /\ UNCHANGED calls

\* FAULT: a coordinator starts over until its node leads again.
ReturnedOnlyAsLeader(c) ==
  IF c.kind = "write" THEN {[c EXCEPT !.phase = "start", !.rd = NoRound]} ELSE {}

\* ReplicateLog returns: a coordinator looks at the outcome, the heartbeat
\* fiber goes back to sleep.
Returned(c) ==
  IF c.kind = "write"
  THEN {[c EXCEPT !.phase = "check", !.tries = 0, !.rd = NoRound]}
  ELSE {}

Continue(c, next) == calls' = (calls \ {c}) \cup next

NotLeaderReturn(c) ==
  /\ c.phase = "start" /\ role[c.node] # Leader
  /\ Continue(c, Returned(c))
  /\ UNCHANGED <<hardState, role, timer, logVars, peerVars, election, ticks,
                 waiting, late, history>>

\* Phase 1.  Entries and progress are copied; every peer is on the list (the
\* code puts those that answered the last heartbeat first; here any order).
ReplicateRound(c) ==
  LET n == c.node
  IN /\ c.phase = "start" /\ role[n] = Leader
     /\ Continue(c, {[c EXCEPT !.phase = "send", !.rd =
          [NoRound EXCEPT !.term = currentTerm[n], !.log = log[n],
             !.next = peerNext[n], !.todo = Peers(n),
             !.maxTerm = currentTerm[n]]]})
     /\ UNCHANGED <<hardState, role, timer, logVars, peerVars, election, ticks,
                    waiting, late, history>>

\* Phase 2.  The write path stops as soon as the answers make a quorum.
Enough(c) == c.kind = "write" /\ Cardinality(c.rd.acks) + 1 >= PeerMajority

\* The catch-up passes over a peer that has nothing to get or did not answer
\* the last heartbeat, read without the lock as the peer's turn comes.
Skips(c, p) ==
  /\ c.kind = "catchup"
  /\ c.rd.next[p] > Len(c.rd.log) \/ p \notin peerHbOk[c.node]

MaySend(c, p) ==
  c.phase = "send" /\ p \in c.rd.todo /\ ~Enough(c) /\ ~Skips(c, p)

WithAnswer(rd, p, r) ==
  [rd EXCEPT !.todo = @ \ {p},
             !.acks = IF r.ok THEN @ \cup {p} ELSE @,
             !.fails = IF r.ok THEN @ ELSE @ \cup {p},
             !.hint[p] = IF ~r.ok /\ r.last < rd.next[p] - 1 THEN r.last ELSE 0,
             !.maxTerm = MaxOf(@, r.term)]

TallyAppend(c, p, r) == Continue(c, {[c EXCEPT !.rd = WithAnswer(c.rd, p, r)]})

SendAppendEntries(c, p) ==
  /\ MaySend(c, p)
  /\ OnAppendEntries(p, AppendEntries(c, p))
  /\ TallyAppend(c, p, AppendResponse(p, AppendEntries(c, p)))
  /\ UNCHANGED <<election, ticks, waiting, late>>

AppendEntriesFails(c, p) ==
  /\ MaySend(c, p)
  /\ TimesOut(AppendEntries(c, p))
  /\ TallyAppend(c, p, NoResponse)
  /\ UNCHANGED <<hardState, role, timer, logVars, peerVars, election, ticks,
                 waiting, history>>

SkipPeer(c, p) ==
  /\ c.phase = "send" /\ p \in c.rd.todo /\ Skips(c, p)
  /\ Continue(c, {[c EXCEPT !.rd.todo = @ \ {p}]})
  /\ UNCHANGED <<hardState, role, timer, logVars, peerVars, election, ticks,
                 waiting, late, history>>

\* Phase 3.
RoundSent(c) == c.phase = "send" /\ (c.rd.todo = {} \/ Enough(c))

ReplicateDeposed(c) ==
  /\ RoundSent(c) /\ c.rd.maxTerm > currentTerm[c.node]
  /\ BecomeFollower(c.node, c.rd.maxTerm)
  /\ Continue(c, Returned(c))
  /\ UNCHANGED <<logVars, peerVars, election, ticks, waiting, late, history>>

ReplicateOvertaken(c) ==
  /\ RoundSent(c) /\ c.rd.maxTerm <= currentTerm[c.node]
  /\ role[c.node] # Leader \/ currentTerm[c.node] # c.rd.term
  /\ Continue(c, Returned(c))
  /\ UNCHANGED <<hardState, role, timer, logVars, peerVars, election, ticks,
                 waiting, late, history>>

\* FAULT: nextIndex runs below the first entry.
BackoffUnclamped(next, hint) == MinOf(next - 1, hint + 1)

Backoff(next, hint) == MaxOf(1, MinOf(next - 1, hint + 1))

\* An acknowledged peer matches up to the last entry sent, a failed one backs
\* off to its hint; commit, apply, and go round again while a peer failed.
ReplicateDone(c) ==
  LET n == c.node
      sent(p) == MinOf(Len(c.rd.log), c.rd.next[p] + MaxBatch - 1)
      match == [p \in Server |-> IF p \in c.rd.acks THEN sent(p) ELSE peerLast[n][p]]
      commit == AdvanceCommit(n, match)
  IN /\ RoundSent(c)
     /\ role[n] = Leader /\ currentTerm[n] = c.rd.term /\ c.rd.maxTerm <= c.rd.term
     /\ peerLast' = [peerLast EXCEPT ![n] = match]
     /\ peerNext' = [peerNext EXCEPT ![n] =
          [p \in Server |-> IF p \in c.rd.acks THEN sent(p) + 1
                            ELSE IF p \in c.rd.fails
                            THEN Backoff(@[p], c.rd.hint[p]) ELSE @[p]]]
     /\ LeaderCommits(n, commit)
     /\ applied' = [applied EXCEPT ![n] = Apply(@, log[n], commit)]
     /\ Continue(c, IF c.rd.fails # {} /\ c.tries + 1 < MaxTries
                    THEN {[c EXCEPT !.phase = "start", !.tries = @ + 1,
                                    !.rd = NoRound]}
                    ELSE Returned(c))
     /\ UNCHANGED <<hardState, role, timer, log, peerHbOk, election, ticks,
                    waiting, late, voteLog, leaders, acked>>

(***************************************************************************)
(* Client writes: SubmitEntry and the group-commit coordinator.            *)
(***************************************************************************)
SubmitEntry(n, v) ==
  LET entry == [term |-> currentTerm[n], val |-> v]
  IN /\ role[n] = Leader
     /\ Len(log[n]) < MaxLog
     /\ log' = [log EXCEPT ![n] = Append(@, entry)]
     /\ waiting' = waiting \cup
          {[node |-> n, index |-> Len(log[n]) + 1, entry |-> entry]}
     /\ UNCHANGED <<hardState, role, timer, commitIndex, applied, peerVars,
                    election, ticks, calls, late, history>>

\* CoordinatorCommit takes the batch that has joined so far: of the waiting
\* callers of this node, those that have reached the group.
CoordinatorCommit(n, batch) ==
  /\ batch # {} /\ \A w \in batch : w.node = n
  /\ Cardinality({c \in calls : c.kind = "write"}) < MaxWriters
  /\ waiting' = waiting \ batch
  /\ calls' = calls \cup {NewCall(n, "write", 0, batch)}
  /\ UNCHANGED <<hardState, role, timer, logVars, peerVars, election, ticks,
                 late, history>>

\* FAULT: the waiters are told OK whatever is applied.
CoveredAlways(w, done) == TRUE

Covered(w, done) == w.index <= Len(done)

\* After a ReplicateLog call: apply, then answer the batch if all of it is
\* applied or the calls are used up; a waiter is told OK if its INDEX is
\* applied by then.
CoordinatorCheck(c) ==
  LET n == c.node
      done == Apply(applied[n], log[n], commitIndex[n])
      answer == (\A w \in c.batch : Covered(w, done)) \/ c.iter + 1 >= MaxIters
  IN /\ c.phase = "check"
     /\ applied' = [applied EXCEPT ![n] = done]
     /\ IF answer
        THEN /\ acked' = acked \cup {w \in c.batch : Covered(w, done)}
             /\ Continue(c, {})
        ELSE /\ Continue(c, {[c EXCEPT !.phase = "start", !.iter = @ + 1]})
             /\ UNCHANGED acked
     /\ UNCHANGED <<hardState, role, timer, log, commitIndex, peerVars, election,
                    ticks, waiting, late, voteLog, leaders, committed>>

(***************************************************************************)
(* The process is killed and started again.  Term, vote and log survive.   *)
(* Service::Init resets the apply progress and calls ReplayUnappliedLogs   *)
(* while no peer is registered yet, so that the whole log is committed and *)
(* applied; then InitRaftCluster makes the node a follower.                *)
(***************************************************************************)
Restart(n) ==
  /\ n \in Mortal
  /\ role' = [role EXCEPT ![n] = Follower]
  /\ timer' = [timer EXCEPT ![n] = TRUE]
  /\ commitIndex' = [commitIndex EXCEPT ![n] = Len(log[n])]
  /\ applied' = [applied EXCEPT ![n] = log[n]]
  /\ peerLast' = [peerLast EXCEPT ![n] = [p \in Server |-> 0]]
  /\ peerNext' = [peerNext EXCEPT ![n] = [p \in Server |-> 1]]
  /\ peerHbOk' = [peerHbOk EXCEPT ![n] = Peers(n)]
  /\ election' = [election EXCEPT ![n] = NoElection]
  /\ ticks' = {k \in ticks : k.node # n}
  /\ calls' = {c \in calls : c.node # n}
  /\ waiting' = {w \in waiting : w.node # n}
  /\ UNCHANGED <<hardState, log, late, history>>

(***************************************************************************)
(* The specification: a fresh cluster after InitRaftCluster on every node. *)
(***************************************************************************)
Init ==
  /\ currentTerm = [n \in Server |-> 0]
  /\ votedFor = [n \in Server |-> Nil]
  /\ log = [n \in Server |-> <<>>]
  /\ role = [n \in Server |-> Follower]
  /\ timer = [n \in Server |-> TRUE]
  /\ commitIndex = [n \in Server |-> 0]
  /\ applied = [n \in Server |-> <<>>]
  /\ peerLast = [n \in Server |-> [p \in Server |-> 0]]
  /\ peerNext = [n \in Server |-> [p \in Server |-> 1]]
  /\ peerHbOk = [n \in Server |-> Peers(n)]
  /\ election = [n \in Server |-> NoElection]
  /\ ticks = {} /\ calls = {} /\ waiting = {} /\ late = {}
  /\ voteLog = {} /\ leaders = {} /\ committed = {} /\ acked = {}

ElectionStep(n) ==
  \/ \E p \in Peers(n) : SendVoteRequest(n, p) \/ VoteRequestFails(n, p)
  \/ ElectionDeposed(n) \/ ElectionOvertaken(n)
  \/ ElectionWon(n) \/ ElectionLost(n)

HeartbeatStep(k) ==
  \/ \E p \in k.todo : SendHeartbeat(k, p) \/ HeartbeatFails(k, p)
  \/ HeartbeatStale(k) \/ HeartbeatDeposed(k)
  \/ HeartbeatDone(k) \/ CheckQuorumStepDown(k)

ReplicateStep(c) ==
  \/ NotLeaderReturn(c) \/ ReplicateRound(c)
  \/ \E p \in c.rd.todo :
       SendAppendEntries(c, p) \/ AppendEntriesFails(c, p) \/ SkipPeer(c, p)
  \/ ReplicateDeposed(c) \/ ReplicateOvertaken(c) \/ ReplicateDone(c)
  \/ CoordinatorCheck(c)

Next ==
  \/ \E n \in Server : StartElection(n) \/ ElectionStep(n) \/ HeartbeatTick(n)
  \/ \E k \in ticks : HeartbeatStep(k)
  \/ \E c \in calls : ReplicateStep(c)
  \/ \E n \in Server, v \in Value : SubmitEntry(n, v)
  \/ \E n \in Server : \E batch \in SUBSET waiting : CoordinatorCommit(n, batch)
  \/ \E m \in late : HandleLate(m)
  \/ \E n \in Server : Restart(n)

Spec == Init /\ [][Next]_vars

=============================================================================
