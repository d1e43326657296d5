--------------------------- MODULE RaftProperties ---------------------------
(***************************************************************************)
(* What RaftNode promises: the type invariant, safety invariants, action   *)
(* properties, and liveness under the fairness the RPC timeouts justify.   *)
(***************************************************************************)
EXTENDS RaftNode

Entry    == [term : Nat, val : Value]
VoteMsg  == [type : {"vote"}, from : Server, to : Server, term : Nat,
             lastIndex : Nat, lastTerm : Nat]
BeatMsg  == [type : {"heartbeat"}, from : Server, to : Server, term : Nat,
             commit : Nat]
AppMsg   == [type : {"append"}, from : Server, to : Server, term : Nat,
             commit : Nat, prev : Nat, prevTerm : Nat, entries : Seq(Entry)]
Election == [on : BOOLEAN, term : Nat, lastIndex : Nat, lastTerm : Nat,
             todo : SUBSET Server, granted : SUBSET Server, maxTerm : Nat]
Tick     == [node : Server, term : Nat, commit : Nat, todo : SUBSET Server,
             acks : SUBSET Server, last : [Server -> Nat], maxTerm : Nat]
Round    == [term : Nat, log : Seq(Entry), next : [Server -> Nat \ {0}],
             todo : SUBSET Server, acks : SUBSET Server,
             fails : SUBSET Server, hint : [Server -> Nat], maxTerm : Nat]
Waiter   == [node : Server, index : Nat, entry : Entry]
Call     == [node : Server, kind : {"write", "catchup"}, epoch : Nat,
             batch : SUBSET Waiter, iter : Nat, tries : Nat,
             phase : {"start", "send", "check"}, rd : Round]

NodeTypeOK ==
  /\ currentTerm \in [Server -> Nat]
  /\ votedFor \in [Server -> Server \cup {Nil}]
  /\ log \in [Server -> Seq(Entry)]
  /\ role \in [Server -> {Follower, Candidate, Leader}]
  /\ timer \in [Server -> BOOLEAN]
  /\ commitIndex \in [Server -> Nat]
  /\ applied \in [Server -> Seq(Entry)]
  /\ peerLast \in [Server -> [Server -> Nat]]
  /\ peerNext \in [Server -> [Server -> Nat \ {0}]]
  /\ peerHbOk \in [Server -> SUBSET Server]

CallTypeOK ==
  /\ election \in [Server -> Election]
  /\ ticks \in SUBSET Tick
  /\ calls \in SUBSET Call
  /\ waiting \in SUBSET Waiter
  /\ late \in SUBSET (VoteMsg \cup BeatMsg \cup AppMsg)

HistoryTypeOK ==
  /\ voteLog \in SUBSET (Server \X Nat \X Server)
  /\ leaders \in SUBSET (Nat \X Server)
  /\ committed \in SUBSET (Nat \X Entry)
  /\ acked \in SUBSET Waiter

\* Every variable has its type; nextIndex never falls below the first entry
\* (the backoff clamp of ReplicateLog).
TypeOK == NodeTypeOK /\ CallTypeOK /\ HistoryTypeOK

(***************************************************************************)
(* Elections.                                                              *)
(***************************************************************************)

\* Election Safety: no term ever has two leaders, whatever votes are lost,
\* late or cast around a restart (StartElection, OnRequestVote, and the
\* same-term step-downs that keep voted_for).
ElectionSafety ==
  \A a, b \in leaders : a[1] = b[1] => a[2] = b[2]

\* The election timer is armed, or its fiber is inside StartElection, on
\* exactly the nodes that do not lead: no follower is left without a way to
\* call an election, no leader campaigns against itself (SetRoleLocked,
\* the Reset calls of the handlers, the early returns of StartElection).
TimerArmedUnlessLeader ==
  \A n \in Server : (timer[n] \/ election[n].on) <=> role[n] # Leader

\* The durable term never goes back and a vote, once given in a term, is
\* never changed or forgotten in that term, across restarts too (RaftStorage
\* written as one record by SetState).
VotesKept ==
  \A n \in Server :
    /\ currentTerm'[n] >= currentTerm[n]
    /\ (currentTerm'[n] = currentTerm[n] /\ votedFor[n] # Nil)
         => votedFor'[n] = votedFor[n]

VoteStability == [][VotesKept]_vars

\* RaftNode implements Leadership: no step of any node, in any interleaving,
\* hands out a term twice, lets a term go back, or makes a node lead a term
\* it was not elected in.
Elections == INSTANCE Leadership WITH
  term <- currentTerm, elected <- leaders,
  leading <- [n \in Server |-> role[n] = Leader]

LeadershipOncePerTerm == Elections!LeadershipSpec

\* Why there is one leader per term: the inductive invariant behind it.  The
\* durable record of a node remembers its latest vote;
VotesRecorded ==
  \A v \in voteLog :
    /\ v[2] <= currentTerm[v[1]]
    /\ v[2] = currentTerm[v[1]] => votedFor[v[1]] = v[3]

\* so that no node has voted twice in a term;
OneVotePerTerm ==
  \A a, b \in voteLog : a[1] = b[1] /\ a[2] = b[2] => a[3] = b[3]

\* every vote a running campaign counts was cast for it, its own included;
CampaignBacked ==
  \A n \in Server : election[n].on =>
    /\ <<n, election[n].term, n>> \in voteLog
    /\ n \notin election[n].todo \cup election[n].granted
    /\ \A p \in election[n].granted : <<p, election[n].term, n>> \in voteLog
    /\ <<election[n].term, n>> \notin leaders

\* and every leader had the votes of a majority.
BackedBy(l, Q) == /\ Cardinality(Q) >= Majority
                  /\ \A q \in Q : <<q, l[1], l[2]>> \in voteLog

LeadersBacked ==
  \A l \in leaders :
    /\ l[1] <= currentTerm[l[2]]
    /\ \E Q \in SUBSET Server : BackedBy(l, Q)

ElectionInv ==
  /\ TypeOK /\ VotesRecorded /\ OneVotePerTerm /\ CampaignBacked /\ LeadersBacked

(***************************************************************************)
(* Logs.                                                                   *)
(***************************************************************************)

\* Log Matching: two logs with an entry of the same term at the same index
\* are identical up to it (prev check and merge loop of OnAppendEntries).
LogMatching ==
  \A n, p \in Server : \A i \in 1..MinOf(Len(log[n]), Len(log[p])) :
    log[n][i].term = log[p][i].term
      => SubSeq(log[n], 1, i) = SubSeq(log[p], 1, i)

\* Along a log terms never decrease, and none is ahead of the node's term:
\* what LastTerm stands for in the up-to-date check of OnRequestVote.
TermsOrdered ==
  \A n \in Server : \A i \in 1..Len(log[n]) :
    /\ log[n][i].term <= currentTerm[n]
    /\ i > 1 => log[n][i - 1].term <= log[n][i].term

\* A leader never loses or rewrites an entry of its log while it leads: no
\* AppendEntries, late or current, may truncate it.
LeaderAppendOnly ==
  [][\A n \in Server :
       role[n] = Leader /\ role'[n] = Leader
         => /\ Len(log'[n]) >= Len(log[n])
            /\ SubSeq(log'[n], 1, Len(log[n])) = log[n]]_vars

\* Why logs match: the inductive invariant behind the three properties above
\* and TimerArmedUnlessLeader.  Whatever speaks for a leader was made by one,
\* and is sent to another node;
SpokenByLeaders ==
  /\ \A n \in Server : role[n] = Leader => <<currentTerm[n], n>> \in leaders
  /\ \A k \in ticks : <<k.term, k.node>> \in leaders /\ k.node \notin k.todo
  /\ \A c \in calls : c.rd.todo # {} =>
       <<c.rd.term, c.node>> \in leaders /\ c.node \notin c.rd.todo
  /\ \A m \in late : m.type # "vote" =>
       <<m.term, m.from>> \in leaders /\ m.from # m.to

\* no entry is of a later term than what holds it;
TermsBelow(l, t) == \A i \in 1..Len(l) : l[i].term <= t

TermsBounded ==
  /\ \A n \in Server : TermsBelow(log[n], currentTerm[n])
  /\ \A c \in calls : TermsBelow(c.rd.log, c.rd.term)
  /\ \A m \in late : m.type = "append" => TermsBelow(m.entries, m.term)

\* and a link, an entry with its index and the term of the one before it,
Link(i, e, before) == [index |-> i, term |-> e.term, val |-> e.val, before |-> before]

LogLinks(l) == {Link(i, l[i], TermAt(l, i - 1)) : i \in 1..Len(l)}
MsgLinks(m) ==
  {Link(m.prev + i, m.entries[i],
        IF i > 1 THEN m.entries[i - 1].term
        ELSE IF m.prev > 0 THEN m.prevTerm ELSE 0) :
     i \in 1..Len(m.entries)}

Links ==
  UNION ({LogLinks(log[n]) : n \in Server} \cup {LogLinks(c.rd.log) : c \in calls}
         \cup {MsgLinks(m) : m \in {d \in late : d.type = "append"}})

\* is the only one of its index and term, whose leader still holds as many
\* entries for as long as it is in that term.
LinksUnique ==
  \A a, b \in Links : a.index = b.index /\ a.term = b.term => a = b

LinksOrdered == \A a \in Links : a.before <= a.term

LinksLed ==
  \A a \in Links : \E n \in Server :
    /\ <<a.term, n>> \in leaders
    /\ currentTerm[n] = a.term => a.index <= Len(log[n])

LogInv ==
  /\ ElectionInv /\ SpokenByLeaders /\ TermsBounded
  /\ LinksUnique /\ LinksOrdered /\ LinksLed

\* A campaign without an armed timer is one nobody has interrupted.
TimerInv ==
  /\ TimerArmedUnlessLeader
  /\ \A n \in Server : election[n].on /\ ~timer[n] =>
       role[n] = Candidate /\ currentTerm[n] = election[n].term

(***************************************************************************)
(* Commit and apply.                                                       *)
(***************************************************************************)

\* State Machine Safety: no two nodes apply different entries at an index.
StateMachineSafety ==
  \A n, p \in Server : \A i \in 1..MinOf(Len(applied[n]), Len(applied[p])) :
    applied[n][i] = applied[p][i]

\* Only what a leader committed is ever given to a state machine.
AppliedIsCommitted ==
  \A n \in Server : \A i \in 1..Len(applied[n]) : <<i, applied[n][i]>> \in committed

\* A write answered OK is in its node's state machine: SubmitEntry reports
\* success only for the caller's own entry.
AckedIsApplied ==
  \A w \in acked : /\ w.index <= Len(applied[w.node])
                   /\ applied[w.node][w.index] = w.entry

\* Leader Completeness: the leader of the newest term any node is in holds
\* every entry ever committed (the up-to-date check of OnRequestVote and the
\* current-term rule of AdvanceCommitIndexLocked).
LeaderCompleteness ==
  \A n \in Server :
    role[n] = Leader /\ (\A p \in Server : currentTerm[p] <= currentTerm[n])
      => \A e \in committed : e[1] <= Len(log[n]) /\ log[n][e[1]] = e[2]

\* A committed entry is in the logs of a majority.
CommittedOnMajority ==
  \A e \in committed :
    LET holders == {n \in Server : e[1] <= Len(log[n]) /\ log[n][e[1]] = e[2]}
    IN Cardinality(holders) >= Majority

(***************************************************************************)
(* Why commits are safe.  An entry of a leader's own term, in the logs of  *)
(* a majority, is an anchor: no later leader lacks it.  That holds in the  *)
(* orderly behaviours: no heartbeat round takes a follower's length for    *)
(* what it matches, no timed-out append comes late, no leadership has two  *)
(* rounds under way, and (MaxLog <= MaxBatch) a request carries the whole  *)
(* rest of the log.                                                        *)
(***************************************************************************)
Sending == {c \in calls : c.phase = "send"}

Orderly ==
  /\ ticks = {} /\ \A m \in late : m.type = "vote"
  /\ \A c, d \in Sending : c.node = d.node /\ c.rd.term = d.rd.term => c = d

\* No two rounds at all, not even of leaders of different terms.
OneRound == \A c, d \in Sending : c = d

\* What the bounds of raft_terms leave: no heartbeats, and one coordinator.
OneWriter ==
  /\ ticks = {} /\ late = {}
  /\ \A c, d \in calls : c.kind = "write" /\ c = d

Quorums == {Q \in SUBSET Server : Cardinality(Q) >= Majority}

StartsWith(l, s) == Len(s) <= Len(l) /\ \A i \in 1..Len(s) : l[i] = s[i]

Anchored(l, j, t) == j \in 1..Len(l) /\ l[j].term = t

\* A round has its leader's log as it was, and a leader's progress is within it.
RoundOK(c) ==
  /\ <<c.rd.term, c.node>> \in leaders
  /\ c.node \notin c.rd.todo \cup c.rd.acks
  /\ Len(c.rd.log) <= MaxLog
  /\ \A p \in Server : c.rd.next[p] <= Len(c.rd.log) + 1
  /\ currentTerm[c.node] = c.rd.term => StartsWith(log[c.node], c.rd.log)
  /\ role[c.node] = Leader /\ currentTerm[c.node] = c.rd.term
       => \A p \in Server : peerLast[c.node][p] <= Len(c.rd.log)

ProgressBounded ==
  /\ \A c \in calls : c.rd.todo # {} => c \in Sending
  /\ \A c \in Sending : RoundOK(c)
  /\ \A n \in Server :
       /\ Len(log[n]) <= MaxLog
       /\ role[n] = Leader => \A p \in Server :
            peerLast[n][p] <= Len(log[n]) /\ peerNext[n][p] <= Len(log[n]) + 1

\* The leader of a term holds every entry of it, and they all come after the
\* one place where the term begins.
LinksHeld ==
  \A a \in Links, n \in Server :
    <<a.term, n>> \in leaders /\ currentTerm[n] = a.term
      => Anchored(log[n], a.index, a.term)

TermStarts ==
  \A a, b \in Links : a.term = b.term /\ a.before < a.term => a.index <= b.index

\* A campaign that can still be won describes its node's log.
Open(n) == /\ election[n].on /\ currentTerm[n] = election[n].term
           /\ \A l \in leaders : l[1] # election[n].term

CampaignExact ==
  \A n \in Server : Open(n) =>
    election[n].lastIndex = Len(log[n]) /\ election[n].lastTerm = LastTerm(log[n])

\* Whatever is, or may become, of a later term than t holds the anchor: the
\* members of Q that went on, leaders, logs, candidates with a vote from Q,
\* rounds.
Later(l, t) == \E i \in 1..Len(l) : l[i].term > t

Safe(Q, j, t) ==
  /\ \A q \in Q : currentTerm[q] > t => Anchored(log[q], j, t)
  /\ \A l \in leaders : l[1] > t /\ currentTerm[l[2]] = l[1] => Anchored(log[l[2]], j, t)
  /\ \A n \in Server : Later(log[n], t) => Anchored(log[n], j, t)
  /\ \A c \in calls : Later(c.rd.log, t) => Anchored(c.rd.log, j, t)
  /\ \A n \in Server :
       Open(n) /\ election[n].term > t /\ (election[n].granted \cup {n}) \cap Q # {}
         => Anchored(log[n], j, t)
  /\ \A c \in Sending : c.rd.term > t => Anchored(c.rd.log, j, t)

\* The servers leader n counts for index j now or when its round ends.
Confirmed(n, p, j) ==
  \/ p = n \/ peerLast[n][p] >= j
  \/ \E c \in Sending : /\ c.node = n /\ c.rd.term = currentTerm[n]
                        /\ p \in c.rd.acks /\ j <= Len(c.rd.log)

\* They hold the anchor, and a majority that may yet confirm it is safe.
LeaderProgress(n, j, t) ==
  /\ \A p \in Server : Confirmed(n, p, j) =>
       currentTerm[p] >= t /\ (currentTerm[p] = t => Anchored(log[p], j, t))
  /\ \A Q \in Quorums :
       (\A q \in Q : Confirmed(n, q, j) \/ currentTerm[q] <= t) => Safe(Q, j, t)

ProgressSafe ==
  \A l \in leaders : role[l[2]] = Leader /\ currentTerm[l[2]] = l[1] =>
    \A j \in 1..Len(log[l[2]]) :
      log[l[2]][j].term = l[1] => LeaderProgress(l[2], j, l[1])

\* Entry e is below an anchor of term t that the majority Q holds for good.
Chosen(e, t, j, Q) ==
  /\ e[1] \in 1..j /\ Safe(Q, j, t)
  /\ \A q \in Q : /\ currentTerm[q] >= t
                  /\ Anchored(log[q], j, t) /\ log[q][e[1]] = e[2]
  /\ \A c \in Sending : c.rd.term = t => Anchored(c.rd.log, j, t)

ChosenBy(e, t) ==
  \E l \in leaders, j \in 1..MaxLog, Q \in Quorums : l[1] <= t /\ Chosen(e, l[1], j, Q)

\* Every committed entry is chosen, in a term some node is in.
CommittedChosen == \A e \in committed : \E n \in Server : ChosenBy(e, currentTerm[n])

CommitInv ==
  /\ LogInv /\ ProgressBounded /\ LinksHeld /\ TermStarts /\ CampaignExact
  /\ ProgressSafe /\ CommittedChosen

\* With one round at a time and no restart, what a node takes for committed,
\* and what it announces as such, is.
KnownEntry(i, e, t) == <<i, e>> \in committed /\ ChosenBy(<<i, e>>, t)

Known(l, k, t) == \A i \in 1..k : i <= Len(l) /\ KnownEntry(i, l[i], t)

AppliedInv ==
  /\ AppliedIsCommitted
  /\ \A n \in Server : Known(log[n], commitIndex[n], currentTerm[n])
  /\ \A c \in Sending : Known(c.rd.log, commitIndex[c.node], c.rd.term)

(***************************************************************************)
(* One leader.  Until a second node is elected, whatever is lost, late,    *)
(* overlapping or restarted, everything is copied from one log, the log of *)
(* the node n that alone has led, in one term or in many.                  *)
(***************************************************************************)
OneLeader == \A l, m \in leaders : l[2] = m[2]

Alone(n) == \A l \in leaders : l[2] = n

Slice(l, m) ==
  \A i \in 1..Len(m.entries) : m.prev + i <= Len(l) /\ m.entries[i] = l[m.prev + i]

CopiesOf(n) ==
  /\ \A p \in Server : StartsWith(log[n], log[p]) /\ StartsWith(log[n], applied[p])
  /\ \A c \in calls : StartsWith(log[n], c.rd.log)
  /\ \A m \in late : m.type = "append" => Slice(log[n], m)

\* A caller's entry is where it was put, in the log of the node it was given to.
Holds(w) == /\ w.index \in 1..Len(log[w.node]) /\ log[w.node][w.index] = w.entry
            /\ \E l \in leaders : l[2] = w.node

CopyInv ==
  /\ \A n \in Server : Alone(n) => CopiesOf(n)
  /\ \A w \in waiting \cup acked : Holds(w)
  /\ \A c \in calls : \A w \in c.batch : w.node = c.node /\ Holds(w)
  /\ \A w \in acked : w.index <= Len(applied[w.node])

\* Without restarts, no commit index runs ahead of that node's own.
BehindOf(n) ==
  /\ commitIndex[n] <= Len(log[n])
  /\ \A i \in 1..commitIndex[n] : <<i, log[n][i]>> \in committed
  /\ \A p \in Server : /\ commitIndex[p] <= commitIndex[n]
                       /\ Len(applied[p]) <= commitIndex[n]
                       /\ peerLast[n][p] <= Len(log[n])
  /\ \A k \in ticks : /\ k.commit <= commitIndex[n]
                      /\ \A p \in Server : k.last[p] <= Len(log[n])
  /\ \A m \in late : m.type # "vote" => m.commit <= commitIndex[n]

BehindInv == \A n \in Server : Alone(n) => BehindOf(n)

(***************************************************************************)
(* Liveness.  Every RPC returns or times out, so a call that has started   *)
(* takes its next step; nothing makes a timer fire or a client write.      *)
(***************************************************************************)
ElectionFairness == \A n \in Server : WF_vars(ElectionStep(n))

\* Every fiber that runs a tick or a ReplicateLog call goes on; a waiting
\* caller becomes a coordinator or is taken into a batch.
CallFairness ==
  \A n \in Server :
    /\ WF_vars(\E k \in ticks : k.node = n /\ HeartbeatStep(k))
    /\ \A kind \in {"write", "catchup"} :
         WF_vars(\E c \in calls : c.node = n /\ c.kind = kind /\ ReplicateStep(c))
    /\ WF_vars(CoordinatorCommit(n, {w \in waiting : w.node = n}))

FairSpec == Spec /\ ElectionFairness /\ CallFairness

\* A candidate does not stay one: each campaign ends in leadership or in a
\* follower waiting for a fresh timeout, the step back that breaks split votes.
CandidateResolves ==
  \A n \in Server : role[n] = Candidate ~> role[n] # Candidate

Pending(n) ==
  {w \in waiting : w.node = n} \cup UNION {c.batch : c \in {d \in calls : d.node = n}}

\* Every SubmitEntry call returns, deposed leader or not: the callers waiting
\* on a node are all answered, provided that writes stop (the log bound).
SubmitReturns ==
  \A n \in Server : Pending(n) # {} ~> Pending(n) = {}

=============================================================================
