---------------------------- MODULE RaftLogProofs ----------------------------
(***************************************************************************)
(* Type correctness of RaftNode, Election Safety, the stability of votes   *)
(* and the refinement of Leadership; what the logs promise: ordered terms, *)
(* log matching, leaders that only append; the timer that is armed unless  *)
(* the node leads; and everything that holds as long as one node leads.    *)
(* For every number of servers and every bound.                            *)
(***************************************************************************)
EXTENDS RaftProperties, FiniteSetTheorems, SequenceTheorems, TLAPS

(***************************************************************************)
(* Operators.                                                              *)
(***************************************************************************)

\* A finite nonempty set of naturals has a maximum, so the index
\* AdvanceCommitIndexLocked picks from the sorted match indexes exists.
LEMMA MaxOfFinite ==
  ASSUME NEW S \in SUBSET Nat, IsFiniteSet(S), S # {}
  PROVE  Max(S) \in S /\ \A y \in S : Max(S) >= y
<1> DEFINE above(x) == {y \in S : y > x}
           ups == {above(x) : x \in S}
<1>1. \A x \in S : above(x) \in FiniteSubsetsOf(S)
  <2> TAKE x \in S
  <2>1. above(x) \in SUBSET S
    OBVIOUS
  <2>2. IsFiniteSet(above(x))
    <3> HIDE DEF above
    <3> QED BY <2>1, FS_Subset
  <2> QED BY <2>1, <2>2 DEF FiniteSubsetsOf
<1>2. ups \subseteq FiniteSubsetsOf(S) /\ ups # {}
  BY <1>1, Zenon
<1>3. PICK u \in ups : \A v \in ups : <<v, u>> \notin StrictSubsetOrdering(S)
  <2>1. IsWellFoundedOn(StrictSubsetOrdering(S), FiniteSubsetsOf(S))
    BY FS_StrictSubsetOrderingWellFounded
  <2> HIDE DEF ups
  <2> QED BY <1>2, <2>1, WFMin
<1>4. PICK x \in S : u = above(x)
  OBVIOUS
<1>5. \A y \in S : x >= y
  <2> SUFFICES ASSUME NEW y \in S, y > x PROVE FALSE
    OBVIOUS
  <2>1. \A z \in above(y) : z \in above(x)
    <3> TAKE z \in above(y)
    <3>1. x \in Nat /\ y \in Nat /\ z \in Nat /\ z \in S /\ z > y
      OBVIOUS
    <3> QED BY <3>1
  <2>2. y \in above(x) /\ y \notin above(y)
    OBVIOUS
  <2>3. above(x) \in SUBSET S /\ above(y) \in SUBSET S /\ above(y) \in ups
    OBVIOUS
  <2>4. <<above(y), u>> \in StrictSubsetOrdering(S)
    <3> HIDE DEF above
    <3> QED BY <1>4, <2>1, <2>2, <2>3 DEF StrictSubsetOrdering
  <2> QED BY <1>3, <2>3, <2>4
<1> QED BY <1>5 DEF Max

\* A majority is a number of servers between one and all of them.
LEMMA MajorityBounds ==
  /\ Cardinality(Server) \in Nat \ {0}
  /\ Majority \in 1..Cardinality(Server)
  /\ Majority + Majority > Cardinality(Server)
<1>1. Cardinality(Server) \in Nat /\ Cardinality(Server) # 0
  BY ServerAssumption, FS_CardinalityType, FS_EmptySet
<1> QED BY <1>1 DEF Majority

\* MajorityReach is an index of the log or a match index.
LEMMA MajorityReachType ==
  ASSUME NEW n \in Server, NEW match \in [Server -> Nat],
         log \in [Server -> Seq(Entry)]
  PROVE  /\ MajorityReach(n, match) \in Nat
         /\ MajorityReach(n, match) \in Reached(n, match, Majority)
<1> DEFINE reach == [s \in Server |-> IF s = n THEN Len(log[n]) ELSE match[s]]
           image == {reach[s] : s \in Server}
           S == Reached(n, match, Majority)
<1>1. reach \in [Server -> Nat]
  OBVIOUS
<1>2. IsFiniteSet(image \cup {0}) /\ image \subseteq Nat
  <2>1. image \subseteq Nat /\ reach \in Surjection(Server, image)
    BY <1>1 DEF Surjection
  <2> HIDE DEF reach, image
  <2>2. IsFiniteSet(image)
    BY <2>1, FS_Surjection, ServerAssumption
  <2> QED BY <2>1, <2>2, FS_AddElement
<1>3. S = {i \in image \cup {0} :
             Cardinality({s \in Server : reach[s] >= i}) >= Majority}
  BY DEF Reached
<1>4. {s \in Server : reach[s] >= 0} = Server
  BY <1>1
<1>5. S \in SUBSET (image \cup {0})
  BY <1>3, Zenon
<1>6. 0 \in S
  <2>1. Cardinality(Server) >= Majority
    BY MajorityBounds
  <2>2. Cardinality({s \in Server : reach[s] >= 0}) >= Majority
    BY <1>4, <2>1, Zenon
  <2> QED BY <1>3, <2>2, Zenon
<1> HIDE DEF reach, image, S
<1>7. S \in SUBSET Nat /\ S # {}
  BY <1>2, <1>5, <1>6
<1>8. IsFiniteSet(S)
  BY <1>2, <1>5, FS_Subset
<1> QED BY <1>7, <1>8, MaxOfFinite DEF MajorityReach, S

\* AdvanceCommitIndexLocked leaves a natural.
LEMMA AdvanceCommitType ==
  ASSUME NodeTypeOK, NEW n \in Server, NEW match \in [Server -> Nat]
  PROVE  AdvanceCommit(n, match) \in Nat
  BY MajorityReachType DEF NodeTypeOK, AdvanceCommit

\* ApplyCommittedLogsLocked extends what is applied by entries of the log.
LEMMA ApplyType ==
  ASSUME NEW done \in Seq(Entry), NEW l \in Seq(Entry), NEW c \in Nat
  PROVE  Apply(done, l, c) \in Seq(Entry)
<1> DEFINE i == Len(done) + 1
           j == MinOf(c, Len(l))
<1>1. i \in Nat \ {0} /\ j \in Nat /\ j <= Len(l)
  BY DEF MinOf
<1>2. SubSeq(l, i, j) \in Seq(Entry)
  <2> HIDE DEF i, j
  <2> QED BY <1>1, SubSeqProperties
<1> QED BY <1>2, ConcatProperties DEF Apply

LEMMA TermAtType ==
  ASSUME NEW l \in Seq(Entry), NEW i \in Int
  PROVE  TermAt(l, i) \in Nat
<1>1. i \in 1..Len(l) => l[i] \in Entry
  OBVIOUS
<1>2. \A e \in Entry : e.term \in Nat
  BY DEF Entry
<1> QED BY <1>1, <1>2 DEF TermAt

\* The merge of OnAppendEntries yields a log.
LEMMA MergedLogType ==
  ASSUME NEW l \in Seq(Entry), NEW m \in AppMsg, m.prev <= Len(l)
  PROVE  MergedLog(l, m) \in Seq(Entry)
<1> DEFINE tail == m.prev + Len(m.entries)
           kept(i) == /\ i <= Len(l)
                      /\ \A j \in (m.prev + 1)..i :
                           l[j].term = m.entries[j - m.prev].term
           merged == [i \in 1..tail |-> IF kept(i) THEN l[i]
                                        ELSE m.entries[i - m.prev]]
<1>1. m.prev \in Nat /\ m.entries \in Seq(Entry) /\ tail \in Nat
  BY DEF AppMsg
<1>2. \A i \in 1..tail : (IF kept(i) THEN l[i] ELSE m.entries[i - m.prev]) \in Entry
  <2> TAKE i \in 1..tail
  <2>1. CASE kept(i)
    BY <2>1
  <2>2. CASE ~kept(i)
    <3>1. i > m.prev
      BY <1>1, <2>2
    <3> QED BY <1>1, <2>2, <3>1
  <2> QED BY <2>1, <2>2
<1>3. merged \in Seq(Entry)
  <2> HIDE DEF kept
  <2> QED BY <1>1, <1>2, IsASeq
<1> QED BY <1>3, <1>1 DEF MergedLog

(***************************************************************************)
(* Handlers and role changes.                                              *)
(***************************************************************************)
USE DEF Follower, Candidate, Leader

LEMMA BecomeFollowerType ==
  ASSUME NodeTypeOK, NEW n \in Server, NEW t \in Nat, BecomeFollower(n, t)
  PROVE  /\ currentTerm' \in [Server -> Nat]
         /\ votedFor' \in [Server -> Server \cup {Nil}]
         /\ role' \in [Server -> {Follower, Candidate, Leader}]
         /\ timer' \in [Server -> BOOLEAN]
  BY DEF NodeTypeOK, BecomeFollower

LEMMA RequestVoteType ==
  ASSUME TypeOK, NEW p \in Server, NEW m \in VoteMsg, OnRequestVote(p, m)
  PROVE  NodeTypeOK' /\ HistoryTypeOK'
<1>1. m.term \in Nat /\ m.from \in Server
  BY DEF VoteMsg
<1>2. currentTerm' \in [Server -> Nat]
  BY <1>1 DEF TypeOK, NodeTypeOK, OnRequestVote, MaxOf
<1>3. votedFor' \in [Server -> Server \cup {Nil}]
  BY <1>1 DEF TypeOK, NodeTypeOK, OnRequestVote
<1>4. role' \in [Server -> {Follower, Candidate, Leader}]
  BY DEF TypeOK, NodeTypeOK, OnRequestVote
<1>5. timer' \in [Server -> BOOLEAN]
  BY DEF TypeOK, NodeTypeOK, OnRequestVote
<1>6. HistoryTypeOK'
  BY <1>1 DEF TypeOK, HistoryTypeOK, OnRequestVote
<1> QED BY <1>2, <1>3, <1>4, <1>5, <1>6
        DEF TypeOK, NodeTypeOK, OnRequestVote, logVars, peerVars

LEMMA HeartbeatType ==
  ASSUME TypeOK, NEW p \in Server, NEW m \in BeatMsg, OnHeartbeat(p, m)
  PROVE  NodeTypeOK' /\ HistoryTypeOK'
<1>1. m.term \in Nat /\ m.commit \in Nat
  BY DEF BeatMsg
<1>2. /\ currentTerm' \in [Server -> Nat]
      /\ votedFor' \in [Server -> Server \cup {Nil}]
      /\ role' \in [Server -> {Follower, Candidate, Leader}]
      /\ timer' \in [Server -> BOOLEAN]
  BY <1>1, BecomeFollowerType DEF TypeOK, NodeTypeOK, OnHeartbeat, hardState
<1>3. commitIndex' \in [Server -> Nat]
  BY <1>1 DEF TypeOK, NodeTypeOK, OnHeartbeat
<1>4. applied' \in [Server -> Seq(Entry)]
  <2>1. Apply(applied[p], log[p], m.commit) \in Seq(Entry)
    BY <1>1, ApplyType DEF TypeOK, NodeTypeOK
  <2> QED BY <1>1, <2>1 DEF TypeOK, NodeTypeOK, OnHeartbeat
<1> QED BY <1>2, <1>3, <1>4
        DEF TypeOK, NodeTypeOK, HistoryTypeOK, OnHeartbeat, peerVars, history

LEMMA AppendEntriesType ==
  ASSUME TypeOK, NEW p \in Server, NEW m \in AppMsg, OnAppendEntries(p, m)
  PROVE  NodeTypeOK' /\ HistoryTypeOK'
<1> DEFINE merged == IF AcceptsEntries(p, m) THEN MergedLog(log[p], m) ELSE log[p]
<1>1. m.term \in Nat /\ m.commit \in Nat
  BY DEF AppMsg
<1>2. merged \in Seq(Entry)
  BY MergedLogType DEF TypeOK, NodeTypeOK, AcceptsEntries, PrevMatches
<1>3. /\ currentTerm' \in [Server -> Nat]
      /\ votedFor' \in [Server -> Server \cup {Nil}]
      /\ role' \in [Server -> {Follower, Candidate, Leader}]
      /\ timer' \in [Server -> BOOLEAN]
  BY <1>1, BecomeFollowerType DEF TypeOK, NodeTypeOK, OnAppendEntries, FollowsSender,
         hardState
<1>4. log' \in [Server -> Seq(Entry)]
  BY <1>2 DEF TypeOK, NodeTypeOK, OnAppendEntries
<1>5. MinOf(m.commit, Len(merged)) \in Nat
  BY <1>1, <1>2 DEF MinOf
<1>6. commitIndex' \in [Server -> Nat]
  BY <1>5 DEF TypeOK, NodeTypeOK, OnAppendEntries
<1>7. applied' \in [Server -> Seq(Entry)]
  <2>1. Apply(applied[p], merged, MinOf(m.commit, Len(merged))) \in Seq(Entry)
    <3> HIDE DEF merged
    <3> QED BY <1>2, <1>5, ApplyType DEF TypeOK, NodeTypeOK
  <2> QED BY <2>1 DEF TypeOK, NodeTypeOK, OnAppendEntries
<1> QED BY <1>3, <1>4, <1>6, <1>7
        DEF TypeOK, NodeTypeOK, HistoryTypeOK, OnAppendEntries, peerVars, history

(***************************************************************************)
(* Requests, answers and tallies.                                          *)
(***************************************************************************)
Reply == [term : Nat, ok : BOOLEAN, last : Nat]

LEMMA VoteRequestType ==
  ASSUME TypeOK, NEW n \in Server, NEW p \in Server
  PROVE  VoteRequest(n, p) \in VoteMsg /\ VoteResponse(p, VoteRequest(n, p)) \in Reply
<1>1. election[n] \in Election
  BY DEF TypeOK, CallTypeOK
<1>2. VoteRequest(n, p) \in VoteMsg
  BY <1>1 DEF Election, VoteRequest, VoteMsg
<1>3. \A m \in VoteMsg : GrantsVote(p, m) \in BOOLEAN
  BY DEF GrantsVote
<1> QED BY <1>2, <1>3
        DEF VoteMsg, VoteResponse, Response, Reply, MaxOf, TypeOK, NodeTypeOK

LEMMA HeartbeatMsgType ==
  ASSUME TypeOK, NEW k \in ticks, NEW p \in Server
  PROVE  /\ Heartbeat(k, p) \in BeatMsg
         /\ HeartbeatResponse(p, Heartbeat(k, p)) \in Reply
<1>1. k \in Tick
  BY DEF TypeOK, CallTypeOK
<1>2. Heartbeat(k, p) \in BeatMsg
  BY <1>1 DEF Tick, Heartbeat, BeatMsg
<1> QED BY <1>2
        DEF BeatMsg, HeartbeatResponse, Response, Reply, MaxOf, TypeOK, NodeTypeOK

LEMMA CallFields ==
  ASSUME TypeOK, NEW c \in calls
  PROVE  /\ c \in Call /\ c.rd \in Round /\ c.node \in Server
         /\ c.batch \in SUBSET Waiter /\ c.iter \in Nat /\ c.tries \in Nat
         /\ c.epoch \in Nat /\ c.kind \in {"write", "catchup"}
  BY DEF TypeOK, CallTypeOK, Call

LEMMA AppendEntriesMsgType ==
  ASSUME TypeOK, NEW c \in calls, NEW p \in Server
  PROVE  /\ AppendEntries(c, p) \in AppMsg
         /\ AppendResponse(p, AppendEntries(c, p)) \in Reply
<1> DEFINE next == c.rd.next[p]
           last == MinOf(Len(c.rd.log), next + MaxBatch - 1)
           m == AppendEntries(c, p)
<1>1. /\ next \in Nat \ {0} /\ c.rd.log \in Seq(Entry) /\ c.rd.term \in Nat
      /\ c.node \in Server /\ commitIndex[c.node] \in Nat
  <2>1. next \in Nat \ {0} /\ c.rd.log \in Seq(Entry) /\ c.rd.term \in Nat
    BY CallFields DEF Round
  <2>2. commitIndex \in [Server -> Nat]
    BY DEF TypeOK, NodeTypeOK
  <2> QED BY <2>1, <2>2, CallFields
<1>2. last \in Nat /\ last <= Len(c.rd.log)
  <2>1. MaxBatch \in Nat \ {0}
    BY BoundAssumption
  <2>2. Len(c.rd.log) \in Nat
    BY <1>1
  <2> HIDE DEF next
  <2> QED BY <1>1, <2>1, <2>2 DEF MinOf
<1>3. SubSeq(c.rd.log, next, last) \in Seq(Entry)
  <2> HIDE DEF next, last
  <2> QED BY <1>1, <1>2, SubSeqProperties
<1>4. TermAt(c.rd.log, next - 1) \in Nat
  <2>1. next - 1 \in Int
    BY <1>1
  <2> HIDE DEF next
  <2> QED BY <1>1, <2>1, TermAtType
<1>5. m \in AppMsg
  BY <1>1, <1>3, <1>4 DEF AppendEntries, AppMsg
<1>6. AppendResponse(p, m) \in Reply
  <2> HIDE DEF m
  <2>1. /\ m.term \in Nat /\ m.prev \in Nat
        /\ log[p] \in Seq(Entry) /\ currentTerm[p] \in Nat
    BY <1>5 DEF AppMsg, TypeOK, NodeTypeOK
  <2>2. MaxOf(m.term, currentTerm[p]) \in Nat
    BY <2>1 DEF MaxOf
  <2>3. AcceptsEntries(p, m) => MergedLog(log[p], m) \in Seq(Entry)
    BY <1>5, <2>1, MergedLogType DEF AcceptsEntries, PrevMatches
  <2>4. (m.term >= currentTerm[p] /\ m.prev <= Len(log[p]) /\ ~AcceptsEntries(p, m))
           => m.prev - 1 \in Nat
    BY <2>1 DEF AcceptsEntries, PrevMatches
  <2> QED BY <2>1, <2>2, <2>3, <2>4 DEF AppendResponse, Response, Reply
<1> QED BY <1>5, <1>6

LEMMA NoResponseType == NoResponse \in Reply
  BY DEF NoResponse, Response, Reply

LEMMA TimesOutType ==
  ASSUME TypeOK, NEW m \in VoteMsg \cup BeatMsg \cup AppMsg, TimesOut(m)
  PROVE  late' \in SUBSET (VoteMsg \cup BeatMsg \cup AppMsg)
  BY DEF TypeOK, CallTypeOK, TimesOut

LEMMA TallyVoteType ==
  ASSUME TypeOK, NEW n \in Server, NEW p \in Server, NEW r \in Reply,
         TallyVote(n, p, r)
  PROVE  election' \in [Server -> Election]
<1>1. election[n] \in Election /\ election \in [Server -> Election]
  BY DEF TypeOK, CallTypeOK
<1>2. MaxOf(election[n].maxTerm, r.term) \in Nat
  BY <1>1 DEF Election, Reply, MaxOf
<1> QED BY <1>1, <1>2, ZenonT(30) DEF TallyVote, Election

LEMMA TallyHeartbeatType ==
  ASSUME TypeOK, NEW k \in ticks, NEW p \in Server, NEW r \in Reply,
         TallyHeartbeat(k, p, r)
  PROVE  ticks' \in SUBSET Tick
<1> DEFINE ack == r.ok /\ r.term = k.term
           j == [k EXCEPT !.todo = @ \ {p},
                          !.acks = IF ack THEN @ \cup {p} ELSE @,
                          !.last[p] = IF ack THEN r.last ELSE @,
                          !.maxTerm = MaxOf(@, r.term)]
<1>1. k \in Tick /\ ticks \in SUBSET Tick
  BY DEF TypeOK, CallTypeOK
<1>2. MaxOf(k.maxTerm, r.term) \in Nat /\ r.last \in Nat
  BY <1>1 DEF Tick, Reply, MaxOf
<1>3. [k.last EXCEPT ![p] = IF ack THEN r.last ELSE @] \in [Server -> Nat]
  BY <1>1, <1>2 DEF Tick
<1>4. j \in Tick
  <2> HIDE DEF ack
  <2> QED BY <1>1, <1>2, <1>3 DEF Tick
<1>5. ticks' = (ticks \ {k}) \cup {j}
  BY DEF TallyHeartbeat
<1> QED BY <1>1, <1>4, <1>5

LEMMA WithAnswerType ==
  ASSUME NEW rd \in Round, NEW p \in Server, NEW r \in Reply
  PROVE  WithAnswer(rd, p, r) \in Round
<1>1. MaxOf(rd.maxTerm, r.term) \in Nat /\ r.last \in Nat
  BY DEF Round, Reply, MaxOf
<1>2. [rd.hint EXCEPT ![p] = IF ~r.ok /\ r.last < rd.next[p] - 1 THEN r.last ELSE 0]
        \in [Server -> Nat]
  BY <1>1 DEF Round
<1> QED BY <1>1, <1>2, ZenonT(30) DEF Round, WithAnswer

LEMMA TallyAppendType ==
  ASSUME TypeOK, NEW c \in calls, NEW p \in Server, NEW r \in Reply,
         TallyAppend(c, p, r)
  PROVE  calls' \in SUBSET Call
<1>1. WithAnswer(c.rd, p, r) \in Round /\ c \in Call /\ calls \in SUBSET Call
  BY CallFields, WithAnswerType DEF TypeOK, CallTypeOK
<1>2. [c EXCEPT !.rd = WithAnswer(c.rd, p, r)] \in Call
  BY <1>1 DEF Call
<1> QED BY <1>1, <1>2 DEF TallyAppend, Continue

LEMMA EmptyRecords ==
  /\ NoElection \in Election
  /\ NoRound \in Round
  /\ \A n \in Server, kind \in {"write", "catchup"}, epoch \in Nat,
        batch \in SUBSET Waiter : NewCall(n, kind, epoch, batch) \in Call
<1>1. NoElection \in Election
  BY DEF NoElection, Election
<1>2. NoRound \in Round
  BY DEF NoRound, Round
<1> QED BY <1>1, <1>2 DEF NewCall, Call

LEMMA ReturnedType ==
  ASSUME TypeOK, NEW c \in calls
  PROVE  Returned(c) \in SUBSET Call
<1>1. c \in Call /\ NoRound \in Round
  BY CallFields, EmptyRecords
<1>2. [c EXCEPT !.phase = "check", !.tries = 0, !.rd = NoRound] \in Call
  BY <1>1 DEF Call
<1> QED BY <1>2 DEF Returned

LEMMA ContinueType ==
  ASSUME TypeOK, NEW c \in calls, NEW next \in SUBSET Call, Continue(c, next)
  PROVE  calls' \in SUBSET Call
  BY DEF TypeOK, CallTypeOK, Continue

(***************************************************************************)
(* Type correctness.                                                       *)
(***************************************************************************)

\* The initial cluster is well typed.
LEMMA TypeInit == Init => TypeOK
<1> SUFFICES ASSUME Init PROVE TypeOK
  OBVIOUS
<1>1. NodeTypeOK
  BY DEF Init, NodeTypeOK, Peers
<1>2. CallTypeOK
  BY EmptyRecords DEF Init, CallTypeOK
<1>3. HistoryTypeOK
  BY DEF Init, HistoryTypeOK
<1> QED BY <1>1, <1>2, <1>3 DEF TypeOK

\* The steps of StartElection.
LEMMA ElectionStepType ==
  ASSUME TypeOK, NEW n \in Server, StartElection(n) \/ ElectionStep(n)
  PROVE  TypeOK'
<1>0. election[n] \in Election /\ election[n].maxTerm \in Nat
  BY DEF TypeOK, CallTypeOK, Election
<1>1. CASE StartElection(n)
  <2>1. TermAt(log[n], Len(log[n])) \in Nat
    BY TermAtType DEF TypeOK, NodeTypeOK
  <2>2. currentTerm \in [Server -> Nat] /\ currentTerm[n] + 1 \in Nat
    BY DEF TypeOK, NodeTypeOK
  <2>3. NodeTypeOK'
    <3>1. currentTerm' \in [Server -> Nat]
      BY <1>1, <2>2 DEF StartElection, BecomeCandidate
    <3>2. votedFor' \in [Server -> Server \cup {Nil}]
      BY <1>1 DEF TypeOK, NodeTypeOK, StartElection, BecomeCandidate
    <3>3. role' \in [Server -> {Follower, Candidate, Leader}]
      BY <1>1 DEF TypeOK, NodeTypeOK, StartElection, BecomeCandidate
    <3>4. timer' \in [Server -> BOOLEAN]
      BY <1>1 DEF TypeOK, NodeTypeOK, StartElection, BecomeCandidate
    <3> QED BY <1>1, <3>1, <3>2, <3>3, <3>4
            DEF TypeOK, NodeTypeOK, StartElection, logVars, peerVars
  <2>4. HistoryTypeOK'
    BY <1>1, <2>2 DEF TypeOK, HistoryTypeOK, StartElection, BecomeCandidate
  <2>5. [on |-> TRUE, term |-> currentTerm[n] + 1, lastIndex |-> Len(log[n]),
         lastTerm |-> LastTerm(log[n]), todo |-> Peers(n), granted |-> {},
         maxTerm |-> currentTerm[n] + 1] \in Election
    BY <2>1, <2>2 DEF TypeOK, NodeTypeOK, Election, LastTerm, Peers
  <2>6. CallTypeOK'
    BY <1>1, <2>5 DEF TypeOK, CallTypeOK, StartElection, callVars
  <2> QED BY <2>3, <2>4, <2>6 DEF TypeOK
<1>2. ASSUME NEW p \in Peers(n), SendVoteRequest(n, p) PROVE TypeOK'
  <2>1. p \in Server
    BY <1>2 DEF Peers
  <2>2. NodeTypeOK' /\ HistoryTypeOK'
    BY <1>2, <2>1, VoteRequestType, RequestVoteType DEF SendVoteRequest
  <2>3. election' \in [Server -> Election]
    BY <1>2, <2>1, VoteRequestType, TallyVoteType DEF SendVoteRequest
  <2> QED BY <1>2, <2>2, <2>3 DEF TypeOK, CallTypeOK, SendVoteRequest, callVars
<1>3. ASSUME NEW p \in Peers(n), VoteRequestFails(n, p) PROVE TypeOK'
  <2>1. p \in Server
    BY <1>3 DEF Peers
  <2>2. election' \in [Server -> Election]
    BY <1>3, <2>1, NoResponseType, TallyVoteType DEF VoteRequestFails
  <2>3. late' \in SUBSET (VoteMsg \cup BeatMsg \cup AppMsg)
    BY <1>3, <2>1, VoteRequestType, TimesOutType DEF VoteRequestFails
  <2> QED BY <1>3, <2>2, <2>3 DEF TypeOK, NodeTypeOK, CallTypeOK, HistoryTypeOK,
          VoteRequestFails, hardState, logVars, peerVars, callVars, history
<1>4. CASE ElectionDeposed(n)
  BY <1>0, <1>4, BecomeFollowerType, EmptyRecords DEF TypeOK, NodeTypeOK, CallTypeOK,
     HistoryTypeOK, ElectionDeposed, EndElection, logVars, peerVars, callVars
<1>5. CASE ElectionOvertaken(n)
  BY <1>5, EmptyRecords DEF TypeOK, NodeTypeOK, CallTypeOK, HistoryTypeOK,
     ElectionOvertaken, EndElection, hardState, logVars, peerVars, callVars
<1>6. CASE ElectionWon(n)
  BY <1>6, EmptyRecords, SMTT(30) DEF TypeOK, NodeTypeOK, CallTypeOK, HistoryTypeOK,
     ElectionWon, BecomeLeader, EndElection, hardState, logVars, callVars
<1>7. CASE ElectionLost(n)
  <2>1. currentTerm[n] \in Nat
    BY DEF TypeOK, NodeTypeOK
  <2> QED BY <1>7, <2>1, BecomeFollowerType, EmptyRecords DEF TypeOK, NodeTypeOK,
          CallTypeOK, HistoryTypeOK, ElectionLost, EndElection, logVars, peerVars, callVars
<1> QED BY <1>1, <1>2, <1>3, <1>4, <1>5, <1>6, <1>7 DEF ElectionStep

\* The steps of HeartbeatTickImpl.
LEMMA HeartbeatTickType ==
  ASSUME TypeOK, NEW n \in Server, HeartbeatTick(n)
  PROVE  TypeOK'
<1>1. [node |-> n, term |-> currentTerm[n], commit |-> commitIndex[n],
       todo |-> Peers(n), acks |-> {}, last |-> [p \in Server |-> 0],
       maxTerm |-> currentTerm[n]] \in Tick
  BY DEF TypeOK, NodeTypeOK, Tick, Peers
<1> QED BY <1>1 DEF TypeOK, NodeTypeOK, CallTypeOK, HistoryTypeOK, HeartbeatTick,
        hardState, logVars, peerVars, history

LEMMA LeaderCommitsType ==
  ASSUME TypeOK, NEW n \in Server, NEW c \in Nat, LeaderCommits(n, c)
  PROVE  commitIndex' \in [Server -> Nat] /\ committed' \in SUBSET (Nat \X Entry)
<1>1. commitIndex[n] \in Nat /\ log[n] \in Seq(Entry)
  BY DEF TypeOK, NodeTypeOK
<1>2. \A i \in (commitIndex[n] + 1)..MinOf(c, Len(log[n])) : <<i, log[n][i]>> \in Nat \X Entry
  BY <1>1 DEF MinOf
<1>3. committed \in SUBSET (Nat \X Entry) /\ commitIndex \in [Server -> Nat]
  BY DEF TypeOK, NodeTypeOK, HistoryTypeOK
<1> QED BY <1>2, <1>3 DEF LeaderCommits

LEMMA RecordHeartbeatsType ==
  ASSUME TypeOK, NEW k \in ticks, RecordHeartbeats(k)
  PROVE  /\ peerHbOk' \in [Server -> SUBSET Server]
         /\ peerLast' \in [Server -> [Server -> Nat]]
         /\ commitIndex' \in [Server -> Nat]
         /\ ticks' \in SUBSET Tick
         /\ HistoryTypeOK'
<1> DEFINE n == k.node
           match == [p \in Server |-> IF p \in k.acks THEN k.last[p] ELSE peerLast[n][p]]
<1>1. /\ n \in Server /\ k.acks \in SUBSET Server /\ ticks \in SUBSET Tick
      /\ match \in [Server -> Nat]
  BY ZenonT(30) DEF TypeOK, NodeTypeOK, CallTypeOK, Tick
<1>2. AdvanceCommit(n, match) \in Nat
  <2> HIDE DEF match, n
  <2> QED BY <1>1, AdvanceCommitType DEF TypeOK
<1>3. commitIndex' \in [Server -> Nat] /\ committed' \in SUBSET (Nat \X Entry)
  BY <1>1, <1>2, LeaderCommitsType DEF RecordHeartbeats
<1>4. peerHbOk' \in [Server -> SUBSET Server]
  BY <1>1 DEF TypeOK, NodeTypeOK, RecordHeartbeats
<1>5. peerLast' \in [Server -> [Server -> Nat]]
  <2>1. peerLast' = [peerLast EXCEPT ![n] = match]
    BY DEF RecordHeartbeats
  <2> HIDE DEF match, n
  <2> QED BY <1>1, <2>1 DEF TypeOK, NodeTypeOK
<1>6. ticks' \in SUBSET Tick
  BY <1>1 DEF RecordHeartbeats
<1> QED BY <1>3, <1>4, <1>5, <1>6 DEF TypeOK, HistoryTypeOK, RecordHeartbeats

LEMMA HeartbeatStepType ==
  ASSUME TypeOK, NEW k \in ticks, HeartbeatStep(k)
  PROVE  TypeOK'
<1>0. /\ k \in Tick /\ k.node \in Server /\ k.maxTerm \in Nat /\ k.term \in Nat
      /\ k.todo \in SUBSET Server
  BY DEF TypeOK, CallTypeOK, Tick
<1>1. ASSUME NEW p \in k.todo, SendHeartbeat(k, p) PROVE TypeOK'
  <2>1. p \in Server
    BY <1>0, <1>1
  <2>2. NodeTypeOK' /\ HistoryTypeOK'
    BY <1>1, <2>1, HeartbeatMsgType, HeartbeatType DEF SendHeartbeat
  <2>3. ticks' \in SUBSET Tick
    BY <1>1, <2>1, HeartbeatMsgType, TallyHeartbeatType DEF SendHeartbeat
  <2> QED BY <1>1, <2>2, <2>3 DEF TypeOK, CallTypeOK, SendHeartbeat
<1>2. ASSUME NEW p \in k.todo, HeartbeatFails(k, p) PROVE TypeOK'
  <2>1. p \in Server
    BY <1>0, <1>2
  <2>2. ticks' \in SUBSET Tick
    BY <1>2, <2>1, NoResponseType, TallyHeartbeatType DEF HeartbeatFails
  <2>3. late' \in SUBSET (VoteMsg \cup BeatMsg \cup AppMsg)
    BY <1>2, <2>1, HeartbeatMsgType, TimesOutType DEF HeartbeatFails
  <2> QED BY <1>2, <2>2, <2>3 DEF TypeOK, NodeTypeOK, CallTypeOK, HistoryTypeOK,
          HeartbeatFails, hardState, logVars, peerVars, history
<1>3. CASE HeartbeatStale(k)
  BY <1>3 DEF TypeOK, NodeTypeOK, CallTypeOK, HistoryTypeOK, HeartbeatStale,
     hardState, logVars, peerVars, history
<1>4. CASE HeartbeatDeposed(k)
  BY <1>0, <1>4, BecomeFollowerType DEF TypeOK, NodeTypeOK, CallTypeOK,
     HistoryTypeOK, HeartbeatDeposed, logVars, peerVars, history
<1>5. CASE HeartbeatDone(k)
  <2>1. RecordHeartbeats(k)
    BY <1>5 DEF HeartbeatDone
  <2>2. calls' \in SUBSET Call
    <3>1. NewCall(k.node, "catchup", k.term, {}) \in Call
      BY <1>0, EmptyRecords
    <3> QED BY <1>5, <3>1 DEF TypeOK, CallTypeOK, HeartbeatDone
  <2> QED BY <1>5, <2>1, <2>2, RecordHeartbeatsType DEF TypeOK, NodeTypeOK,
          CallTypeOK, HeartbeatDone, RecordHeartbeats, hardState
<1>6. CASE CheckQuorumStepDown(k)
  <2>1. RecordHeartbeats(k) /\ currentTerm[k.node] \in Nat
    BY <1>0, <1>6 DEF CheckQuorumStepDown, TypeOK, NodeTypeOK
  <2> QED BY <1>0, <1>6, <2>1, RecordHeartbeatsType, BecomeFollowerType DEF TypeOK,
          NodeTypeOK, CallTypeOK, CheckQuorumStepDown, RecordHeartbeats
<1> QED BY <1>1, <1>2, <1>3, <1>4, <1>5, <1>6 DEF HeartbeatStep

\* The steps of ReplicateLog and of the coordinator around it.
LEMMA ReplicateDoneType ==
  ASSUME TypeOK, NEW c \in calls, ReplicateDone(c)
  PROVE  TypeOK'
<1> DEFINE n == c.node
           sent(p) == MinOf(Len(c.rd.log), c.rd.next[p] + MaxBatch - 1)
           match == [p \in Server |-> IF p \in c.rd.acks THEN sent(p) ELSE peerLast[n][p]]
           next == [p \in Server |-> IF p \in c.rd.acks THEN sent(p) + 1
                                     ELSE IF p \in c.rd.fails
                                     THEN Backoff(peerNext[n][p], c.rd.hint[p])
                                     ELSE peerNext[n][p]]
           commit == AdvanceCommit(n, match)
           retry == [c EXCEPT !.phase = "start", !.tries = @ + 1, !.rd = NoRound]
<1>1. /\ n \in Server /\ c.rd.log \in Seq(Entry) /\ c \in Call
      /\ c.rd.next \in [Server -> Nat \ {0}] /\ c.rd.hint \in [Server -> Nat]
      /\ peerLast[n] \in [Server -> Nat] /\ peerNext[n] \in [Server -> Nat \ {0}]
  BY CallFields DEF Round, TypeOK, NodeTypeOK
<1>2. \A p \in Server : sent(p) \in Nat
  <2>1. MaxBatch \in Nat \ {0}
    BY BoundAssumption
  <2>2. Len(c.rd.log) \in Nat /\ \A p \in Server : c.rd.next[p] \in Nat \ {0}
    BY <1>1
  <2> QED BY <2>1, <2>2 DEF MinOf
<1>3. match \in [Server -> Nat]
  <2> HIDE DEF sent, n
  <2> QED BY <1>1, <1>2
<1>4. next \in [Server -> Nat \ {0}]
  <2>1. \A p \in Server : Backoff(peerNext[n][p], c.rd.hint[p]) \in Nat \ {0}
    <3>1. \A a \in Nat \ {0}, h \in Nat : Backoff(a, h) \in Nat \ {0}
      BY DEF Backoff, MaxOf, MinOf
    <3> HIDE DEF n
    <3> QED BY <1>1, <3>1
  <2>2. \A p \in Server : sent(p) + 1 \in Nat \ {0}
    <3> HIDE DEF sent
    <3> QED BY <1>2
  <2>3. \A p \in Server : peerNext[n][p] \in Nat \ {0}
    <3> HIDE DEF n
    <3> QED BY <1>1
  <2>4. \A p \in Server : next[p] \in Nat \ {0}
    <3> HIDE DEF sent, n
    <3> QED BY <2>1, <2>2, <2>3
  <2> QED BY <2>4
<1>5. commit \in Nat
  <2> HIDE DEF match, n
  <2> QED BY <1>1, <1>3, AdvanceCommitType DEF TypeOK
<1>6. commitIndex' \in [Server -> Nat] /\ committed' \in SUBSET (Nat \X Entry)
  <2>1. LeaderCommits(n, commit)
    BY DEF ReplicateDone
  <2> HIDE DEF commit, n
  <2> QED BY <1>1, <1>5, <2>1, LeaderCommitsType
<1>7. peerLast' \in [Server -> [Server -> Nat]]
  <2>1. peerLast' = [peerLast EXCEPT ![n] = match]
    BY DEF ReplicateDone
  <2> HIDE DEF match, n
  <2> QED BY <1>3, <2>1 DEF TypeOK, NodeTypeOK
<1>8. peerNext' \in [Server -> [Server -> Nat \ {0}]]
  <2>1. peerNext' = [peerNext EXCEPT ![n] = next]
    BY DEF ReplicateDone
  <2> HIDE DEF next, n
  <2> QED BY <1>4, <2>1 DEF TypeOK, NodeTypeOK
<1>9. applied' \in [Server -> Seq(Entry)]
  <2>1. applied' = [applied EXCEPT ![n] = Apply(@, log[n], commit)]
    BY DEF ReplicateDone
  <2>2. Apply(applied[n], log[n], commit) \in Seq(Entry)
    <3> HIDE DEF commit, n
    <3> QED BY <1>1, <1>5, ApplyType DEF TypeOK, NodeTypeOK
  <2> HIDE DEF commit, n
  <2> QED BY <2>1, <2>2 DEF TypeOK, NodeTypeOK
<1>10. calls' \in SUBSET Call
  <2>1. retry \in Call
    <3>1. c.tries + 1 \in Nat /\ NoRound \in Round
      BY CallFields, EmptyRecords
    <3> QED BY <1>1, <3>1 DEF Call
  <2>2. Continue(c, {retry}) \/ Continue(c, Returned(c))
    BY DEF ReplicateDone
  <2> HIDE DEF retry
  <2> QED BY <2>1, <2>2, ReturnedType, ContinueType
<1> QED BY <1>6, <1>7, <1>8, <1>9, <1>10 DEF TypeOK, NodeTypeOK, CallTypeOK,
        HistoryTypeOK, ReplicateDone, hardState

LEMMA ReplicateStepType ==
  ASSUME TypeOK, NEW c \in calls, ReplicateStep(c)
  PROVE  TypeOK'
<1>0. c \in Call /\ c.node \in Server /\ c.rd \in Round /\ c.rd.todo \in SUBSET Server
  BY CallFields DEF Round
<1>1. CASE NotLeaderReturn(c)
  BY <1>1, ReturnedType, ContinueType DEF TypeOK, NodeTypeOK, CallTypeOK,
     HistoryTypeOK, NotLeaderReturn, hardState, logVars, peerVars, history
<1>2. CASE ReplicateRound(c)
  <2> DEFINE rd == [NoRound EXCEPT !.term = currentTerm[c.node], !.log = log[c.node],
                      !.next = peerNext[c.node], !.todo = Peers(c.node),
                      !.maxTerm = currentTerm[c.node]]
  <2>1. rd \in Round
    BY <1>0, EmptyRecords DEF TypeOK, NodeTypeOK, Round, Peers
  <2>2. [c EXCEPT !.phase = "send", !.rd = rd] \in Call
    <3> HIDE DEF rd
    <3> QED BY <1>0, <2>1 DEF Call
  <2>3. Continue(c, {[c EXCEPT !.phase = "send", !.rd = rd]})
    BY <1>2 DEF ReplicateRound
  <2>4. calls' \in SUBSET Call
    <3> HIDE DEF rd
    <3> QED BY <2>2, <2>3, ContinueType
  <2> QED BY <1>2, <2>4 DEF TypeOK, NodeTypeOK, CallTypeOK, HistoryTypeOK,
          ReplicateRound, hardState, logVars, peerVars, history
<1>3. ASSUME NEW p \in c.rd.todo, SendAppendEntries(c, p) PROVE TypeOK'
  <2>1. p \in Server
    BY <1>0, <1>3
  <2>2. NodeTypeOK' /\ HistoryTypeOK'
    BY <1>3, <2>1, AppendEntriesMsgType, AppendEntriesType DEF SendAppendEntries
  <2>3. calls' \in SUBSET Call
    BY <1>3, <2>1, AppendEntriesMsgType, TallyAppendType DEF SendAppendEntries
  <2> QED BY <1>3, <2>2, <2>3 DEF TypeOK, CallTypeOK, SendAppendEntries
<1>4. ASSUME NEW p \in c.rd.todo, AppendEntriesFails(c, p) PROVE TypeOK'
  <2>1. p \in Server
    BY <1>0, <1>4
  <2>2. calls' \in SUBSET Call
    BY <1>4, <2>1, NoResponseType, TallyAppendType DEF AppendEntriesFails
  <2>3. late' \in SUBSET (VoteMsg \cup BeatMsg \cup AppMsg)
    BY <1>4, <2>1, AppendEntriesMsgType, TimesOutType DEF AppendEntriesFails
  <2> QED BY <1>4, <2>2, <2>3 DEF TypeOK, NodeTypeOK, CallTypeOK, HistoryTypeOK,
          AppendEntriesFails, hardState, logVars, peerVars, history
<1>5. ASSUME NEW p \in c.rd.todo, SkipPeer(c, p) PROVE TypeOK'
  <2>1. [c EXCEPT !.rd.todo = @ \ {p}] \in Call
    BY <1>0 DEF Call, Round
  <2>2. calls' \in SUBSET Call
    BY <1>5, <2>1, ContinueType DEF SkipPeer
  <2> QED BY <1>5, <2>2 DEF TypeOK, NodeTypeOK, CallTypeOK, HistoryTypeOK, SkipPeer,
          hardState, logVars, peerVars, history
<1>6. CASE ReplicateDeposed(c)
  <2>1. c.rd.maxTerm \in Nat
    BY <1>0 DEF Round
  <2> QED BY <1>0, <1>6, <2>1, BecomeFollowerType, ReturnedType, ContinueType DEF TypeOK,
          NodeTypeOK, CallTypeOK, HistoryTypeOK, ReplicateDeposed, logVars, peerVars,
          history
<1>7. CASE ReplicateOvertaken(c)
  BY <1>7, ReturnedType, ContinueType DEF TypeOK, NodeTypeOK, CallTypeOK,
     HistoryTypeOK, ReplicateOvertaken, hardState, logVars, peerVars, history
<1>8. CASE ReplicateDone(c)
  BY <1>8, ReplicateDoneType
<1>9. CASE CoordinatorCheck(c)
  <2> DEFINE n == c.node
             done == Apply(applied[n], log[n], commitIndex[n])
             again == [c EXCEPT !.phase = "start", !.iter = @ + 1]
  <2>1. done \in Seq(Entry)
    BY <1>0, ApplyType DEF TypeOK, NodeTypeOK
  <2>2. applied' \in [Server -> Seq(Entry)]
    <3>1. applied' = [applied EXCEPT ![n] = done]
      BY <1>9 DEF CoordinatorCheck
    <3> HIDE DEF done, n
    <3> QED BY <2>1, <3>1 DEF TypeOK, NodeTypeOK
  <2>3. again \in Call
    <3>1. c.iter + 1 \in Nat
      BY CallFields
    <3> QED BY <1>0, <3>1 DEF Call
  <2>4. calls' \in SUBSET Call
    <3>1. Continue(c, {}) \/ Continue(c, {again})
      BY <1>9 DEF CoordinatorCheck
    <3> HIDE DEF again
    <3> QED BY <2>3, <3>1, ContinueType
  <2>5. acked' \in SUBSET Waiter
    <3>1. c.batch \in SUBSET Waiter
      BY CallFields
    <3> HIDE DEF done
    <3> QED BY <1>9, <3>1 DEF TypeOK, HistoryTypeOK, CoordinatorCheck
  <2> QED BY <1>9, <2>2, <2>4, <2>5 DEF TypeOK, NodeTypeOK, CallTypeOK, HistoryTypeOK,
          CoordinatorCheck, hardState, peerVars
<1> QED BY <1>1, <1>2, <1>3, <1>4, <1>5, <1>6, <1>7, <1>8, <1>9 DEF ReplicateStep

\* A request that arrives late.
LEMMA HandleLateType ==
  ASSUME TypeOK, NEW m \in late, HandleLate(m)
  PROVE  TypeOK'
<1>1. m \in VoteMsg \cup BeatMsg \cup AppMsg
  BY DEF TypeOK, CallTypeOK
<1>2. NodeTypeOK' /\ HistoryTypeOK'
  <2>1. CASE m.type = "vote" /\ OnRequestVote(m.to, m)
    <3>1. m \in VoteMsg /\ m.to \in Server
      BY <1>1, <2>1 DEF VoteMsg, BeatMsg, AppMsg
    <3> QED BY <2>1, <3>1, RequestVoteType
  <2>2. CASE m.type = "heartbeat" /\ OnHeartbeat(m.to, m)
    <3>1. m \in BeatMsg /\ m.to \in Server
      BY <1>1, <2>2 DEF VoteMsg, BeatMsg, AppMsg
    <3> QED BY <2>2, <3>1, HeartbeatType
  <2>3. CASE m.type = "append" /\ OnAppendEntries(m.to, m)
    <3>1. m \in AppMsg /\ m.to \in Server
      BY <1>1, <2>3 DEF VoteMsg, BeatMsg, AppMsg
    <3> QED BY <2>3, <3>1, AppendEntriesType
  <2> QED BY <2>1, <2>2, <2>3 DEF HandleLate
<1> QED BY <1>2 DEF TypeOK, CallTypeOK, HandleLate, callVars

\* Client writes and restarts.
LEMMA ClientStepType ==
  ASSUME TypeOK, NEW n \in Server,
         \/ \E v \in Value : SubmitEntry(n, v)
         \/ \E batch \in SUBSET waiting : CoordinatorCommit(n, batch)
         \/ Restart(n)
  PROVE  TypeOK'
<1>1. ASSUME NEW v \in Value, SubmitEntry(n, v) PROVE TypeOK'
  <2> DEFINE entry == [term |-> currentTerm[n], val |-> v]
  <2>1. entry \in Entry
    BY DEF TypeOK, NodeTypeOK, Entry
  <2>2. log' \in [Server -> Seq(Entry)]
    <3>1. log' = [log EXCEPT ![n] = Append(@, entry)]
      BY <1>1 DEF SubmitEntry
    <3> HIDE DEF entry
    <3> QED BY <2>1, <3>1 DEF TypeOK, NodeTypeOK
  <2>3. waiting' \in SUBSET Waiter
    <3>1. waiting' = waiting \cup {[node |-> n, index |-> Len(log[n]) + 1, entry |-> entry]}
      BY <1>1 DEF SubmitEntry
    <3>2. Len(log[n]) + 1 \in Nat
      BY DEF TypeOK, NodeTypeOK
    <3> HIDE DEF entry
    <3> QED BY <2>1, <3>1, <3>2 DEF TypeOK, CallTypeOK, Waiter
  <2> QED BY <1>1, <2>2, <2>3 DEF TypeOK, NodeTypeOK, CallTypeOK, HistoryTypeOK,
          SubmitEntry, hardState, peerVars, history
<1>2. ASSUME NEW batch \in SUBSET waiting, CoordinatorCommit(n, batch) PROVE TypeOK'
  <2>1. NewCall(n, "write", 0, batch) \in Call
    BY EmptyRecords DEF TypeOK, CallTypeOK
  <2> QED BY <1>2, <2>1 DEF TypeOK, NodeTypeOK, CallTypeOK, HistoryTypeOK,
          CoordinatorCommit, hardState, logVars, peerVars, history
<1>3. CASE Restart(n)
  <2>1. CallTypeOK'
    BY <1>3, EmptyRecords DEF TypeOK, CallTypeOK, Restart
  <2>2. NodeTypeOK' /\ HistoryTypeOK'
    BY <1>3 DEF TypeOK, NodeTypeOK, HistoryTypeOK, Restart, Peers, hardState, history
  <2> QED BY <2>1, <2>2 DEF TypeOK
<1> QED BY <1>1, <1>2, <1>3

\* Every step keeps the types.
LEMMA TypeStep == TypeOK /\ [Next]_vars => TypeOK'
<1> SUFFICES ASSUME TypeOK, [Next]_vars PROVE TypeOK'
  OBVIOUS
<1>1. CASE UNCHANGED vars
  BY <1>1 DEF TypeOK, NodeTypeOK, CallTypeOK, HistoryTypeOK, vars, hardState, logVars,
     peerVars, callVars, history
<1>2. CASE Next
  BY <1>2, ElectionStepType, HeartbeatTickType, HeartbeatStepType, ReplicateStepType,
     HandleLateType, ClientStepType DEF Next
<1> QED BY <1>1, <1>2

\* Type correctness: in every cluster, for every bound, RaftNode keeps every
\* variable in its type; in particular the nextIndex that ReplicateLog backs
\* off to never falls below 1, and the commit index is always an index.
THEOREM TypeCorrect == Spec => []TypeOK
  BY TypeInit, TypeStep, PTL DEF Spec

(***************************************************************************)
(* Terms and votes move one way only.                                      *)
(***************************************************************************)

\* A step moves only node n's durable state, forward or with its vote kept, and
\* makes nobody a leader.
Demotes(n) ==
  /\ currentTerm' = [currentTerm EXCEPT ![n] = currentTerm'[n]]
  /\ role' = [role EXCEPT ![n] = role'[n]]
  /\ \/ currentTerm'[n] > currentTerm[n] /\ role'[n] # Leader
     \/ currentTerm'[n] = currentTerm[n] /\ (role'[n] = Leader => role[n] = Leader)

LEMMA BecomeFollowerMoves ==
  ASSUME TypeOK, NEW n \in Server, NEW t \in Nat, t >= currentTerm[n],
         BecomeFollower(n, t)
  PROVE  VotesKept /\ Demotes(n)
<1>1. VotesKept
  <2> SUFFICES ASSUME NEW p \in Server
               PROVE  /\ currentTerm'[p] >= currentTerm[p]
                      /\ currentTerm'[p] = currentTerm[p] /\ votedFor[p] # Nil
                           => votedFor'[p] = votedFor[p]
    BY DEF VotesKept
  <2>1. currentTerm \in [Server -> Nat] /\ votedFor \in [Server -> Server \cup {Nil}]
    BY DEF TypeOK, NodeTypeOK
  <2> QED BY <2>1 DEF BecomeFollower
<1>2. currentTerm'[n] = t /\ role'[n] = Follower
  BY DEF TypeOK, NodeTypeOK, BecomeFollower
<1>3. /\ currentTerm' = [currentTerm EXCEPT ![n] = currentTerm'[n]]
      /\ role' = [role EXCEPT ![n] = role'[n]]
  BY <1>2 DEF BecomeFollower
<1>4. currentTerm[n] \in Nat
  BY DEF TypeOK, NodeTypeOK
<1> QED BY <1>1, <1>2, <1>3, <1>4 DEF Demotes

LEMMA UnchangedMoves ==
  ASSUME TypeOK, NEW n \in Server, UNCHANGED <<hardState, role>>
  PROVE  VotesKept /\ Demotes(n)
<1>1. VotesKept
  BY DEF TypeOK, NodeTypeOK, hardState, VotesKept
<1>2. Demotes(n)
  BY DEF TypeOK, NodeTypeOK, hardState, Demotes
<1> QED BY <1>1, <1>2

LEMMA RequestVoteMoves ==
  ASSUME TypeOK, NEW p \in Server, NEW m \in VoteMsg, OnRequestVote(p, m)
  PROVE  VotesKept /\ Demotes(p)
<1>1. m.term \in Nat /\ m.from \in Server /\ currentTerm[p] \in Nat
  BY DEF TypeOK, NodeTypeOK, VoteMsg
<1>2. /\ currentTerm' = [currentTerm EXCEPT ![p] = MaxOf(m.term, @)]
      /\ role' = [role EXCEPT ![p] = IF m.term > currentTerm[p] THEN Follower ELSE @]
      /\ votedFor' = [votedFor EXCEPT ![p] =
           IF GrantsVote(p, m) THEN m.from
           ELSE IF m.term > currentTerm[p] THEN Nil ELSE @]
  BY DEF OnRequestVote
<1>3. /\ currentTerm'[p] = MaxOf(m.term, currentTerm[p])
      /\ role'[p] = IF m.term > currentTerm[p] THEN Follower ELSE role[p]
      /\ votedFor'[p] = IF GrantsVote(p, m) THEN m.from
                        ELSE IF m.term > currentTerm[p] THEN Nil ELSE votedFor[p]
  BY <1>2 DEF TypeOK, NodeTypeOK
<1>4. VotesKept
  <2> SUFFICES ASSUME NEW n \in Server
               PROVE  /\ currentTerm'[n] >= currentTerm[n]
                      /\ (currentTerm'[n] = currentTerm[n] /\ votedFor[n] # Nil)
                           => votedFor'[n] = votedFor[n]
    BY DEF VotesKept
  <2>1. CASE n = p
    BY <1>1, <1>3, <2>1 DEF GrantsVote, MaxOf
  <2>2. CASE n # p
    BY <1>2, <2>2 DEF TypeOK, NodeTypeOK
  <2> QED BY <2>1, <2>2
<1>5. /\ currentTerm' = [currentTerm EXCEPT ![p] = currentTerm'[p]]
      /\ role' = [role EXCEPT ![p] = role'[p]]
  BY <1>2, <1>3
<1> QED BY <1>1, <1>3, <1>4, <1>5 DEF Demotes, MaxOf

LEMMA HeartbeatMoves ==
  ASSUME TypeOK, NEW p \in Server, NEW m \in BeatMsg, OnHeartbeat(p, m)
  PROVE  VotesKept /\ Demotes(p)
<1>1. m.term \in Nat /\ currentTerm[p] \in Nat
  BY DEF TypeOK, NodeTypeOK, BeatMsg
<1>2. \/ m.term >= currentTerm[p] /\ BecomeFollower(p, m.term)
      \/ UNCHANGED <<hardState, role>>
  BY <1>1 DEF OnHeartbeat
<1> QED BY <1>1, <1>2, BecomeFollowerMoves, UnchangedMoves

LEMMA AppendEntriesMoves ==
  ASSUME TypeOK, NEW p \in Server, NEW m \in AppMsg, OnAppendEntries(p, m)
  PROVE  VotesKept /\ Demotes(p)
<1>1. m.term \in Nat /\ currentTerm[p] \in Nat
  BY DEF TypeOK, NodeTypeOK, AppMsg
<1>2. \/ m.term >= currentTerm[p] /\ BecomeFollower(p, m.term)
      \/ UNCHANGED <<hardState, role>>
  BY <1>1 DEF OnAppendEntries, FollowsSender
<1> QED BY <1>1, <1>2, BecomeFollowerMoves, UnchangedMoves

(***************************************************************************)
(* What a step does to elections: nothing that matters (a quiet step), the *)
(* start of a campaign, a request for a vote, or a victory.                *)
(***************************************************************************)
Quiet ==
  /\ VotesKept /\ \E n \in Server : Demotes(n)
  /\ voteLog' = voteLog /\ leaders' = leaders
  /\ \A n \in Server : election'[n].on =>
       /\ election[n].on
       /\ election'[n].term = election[n].term
       /\ election'[n].granted = election[n].granted
       /\ election'[n].todo \subseteq election[n].todo

VoteStep(p, m) ==
  /\ OnRequestVote(p, m)
  /\ \/ UNCHANGED election
     \/ TallyVote(m.from, p, VoteResponse(p, m)) /\ p \in election[m.from].todo
          /\ m.term = election[m.from].term

LEMMA SomeServer == \E n \in Server : TRUE
  BY ServerAssumption

LEMMA NoElectionFields ==
  ASSUME TypeOK, NEW n \in Server, election' = [election EXCEPT ![n] = NoElection]
  PROVE  \A p \in Server : election'[p].on =>
           /\ election[p].on
           /\ election'[p].term = election[p].term
           /\ election'[p].granted = election[p].granted
           /\ election'[p].todo \subseteq election[p].todo
  BY DEF TypeOK, CallTypeOK, NoElection

\* The quiet steps, by what they do to the hard state.
LEMMA QuietUnchanged ==
  ASSUME TypeOK, UNCHANGED <<hardState, role, voteLog, leaders, election>>
  PROVE  Quiet
<1>1. \E n \in Server : VotesKept /\ Demotes(n)
  BY SomeServer, UnchangedMoves
<1> QED BY <1>1 DEF Quiet

LEMMA QuietFollower ==
  ASSUME TypeOK, NEW n \in Server, NEW t \in Nat, t >= currentTerm[n],
         BecomeFollower(n, t), UNCHANGED <<voteLog, leaders, election>>
  PROVE  Quiet
  BY BecomeFollowerMoves DEF Quiet

LEMMA ElectionStepKind ==
  ASSUME TypeOK, NEW n \in Server, ElectionStep(n)
  PROVE  \/ Quiet \/ ElectionWon(n)
         \/ \E p \in Server, m \in VoteMsg : VoteStep(p, m)
<1>0. /\ election[n] \in Election /\ election[n].maxTerm \in Nat
      /\ election \in [Server -> Election] /\ currentTerm[n] \in Nat
  BY DEF TypeOK, NodeTypeOK, CallTypeOK, Election
<1>1. ASSUME NEW p \in Peers(n), SendVoteRequest(n, p)
      PROVE  \E q \in Server, m \in VoteMsg : VoteStep(q, m)
  <2> DEFINE m == VoteRequest(n, p)
  <2>1. p \in Server
    BY DEF Peers
  <2>2. m \in VoteMsg /\ m.from = n /\ m.term = election[n].term
    BY <2>1, VoteRequestType DEF VoteRequest
  <2>3. OnRequestVote(p, m) /\ TallyVote(n, p, VoteResponse(p, m)) /\ p \in election[n].todo
    BY <1>1 DEF SendVoteRequest
  <2>4. VoteStep(p, m)
    <3> HIDE DEF m
    <3> QED BY <2>2, <2>3 DEF VoteStep
  <2> HIDE DEF m
  <2> QED BY <2>1, <2>2, <2>4
<1>2. ASSUME NEW p \in Peers(n), VoteRequestFails(n, p) PROVE Quiet
  <2>1. \E q \in Server : VotesKept /\ Demotes(q)
    BY <1>2, SomeServer, UnchangedMoves DEF VoteRequestFails
  <2>2. \A q \in Server : election'[q].on =>
          /\ election[q].on
          /\ election'[q].term = election[q].term
          /\ election'[q].granted = election[q].granted
          /\ election'[q].todo \subseteq election[q].todo
    BY <1>0, <1>2 DEF VoteRequestFails, TallyVote, NoResponse, Response, Election
  <2> QED BY <1>2, <2>1, <2>2 DEF Quiet, VoteRequestFails, history
<1>3. CASE ElectionDeposed(n)
  <2>1. VotesKept /\ Demotes(n)
    BY <1>0, <1>3, BecomeFollowerMoves DEF ElectionDeposed
  <2>2. election' = [election EXCEPT ![n] = NoElection] /\ UNCHANGED <<voteLog, leaders>>
    BY <1>3 DEF ElectionDeposed, EndElection, history
  <2> QED BY <2>1, <2>2, NoElectionFields DEF Quiet
<1>4. CASE ElectionOvertaken(n)
  BY <1>4, UnchangedMoves, NoElectionFields DEF ElectionOvertaken, EndElection, Quiet
<1>5. CASE ElectionLost(n)
  <2>1. VotesKept /\ Demotes(n)
    BY <1>0, <1>5, BecomeFollowerMoves DEF ElectionLost
  <2>2. election' = [election EXCEPT ![n] = NoElection] /\ UNCHANGED <<voteLog, leaders>>
    BY <1>5 DEF ElectionLost, EndElection, history
  <2> QED BY <2>1, <2>2, NoElectionFields DEF Quiet
<1> QED BY <1>1, <1>2, <1>3, <1>4, <1>5 DEF ElectionStep

LEMMA HeartbeatStepKind ==
  ASSUME TypeOK, NEW k \in ticks, HeartbeatStep(k)
  PROVE  Quiet
<1>0. /\ k.node \in Server /\ k.maxTerm \in Nat /\ k.todo \in SUBSET Server
      /\ currentTerm[k.node] \in Nat
  BY DEF TypeOK, NodeTypeOK, CallTypeOK, Tick
<1>1. ASSUME NEW p \in k.todo, SendHeartbeat(k, p) PROVE Quiet
  BY <1>0, <1>1, HeartbeatMsgType, HeartbeatMoves
     DEF SendHeartbeat, OnHeartbeat, history, Quiet
<1>2. ASSUME NEW p \in k.todo, HeartbeatFails(k, p) PROVE Quiet
  BY <1>2, QuietUnchanged DEF HeartbeatFails, history
<1>3. CASE HeartbeatStale(k)
  BY <1>3, QuietUnchanged DEF HeartbeatStale, history
<1>4. CASE HeartbeatDeposed(k)
  BY <1>0, <1>4, QuietFollower DEF HeartbeatDeposed, history
<1>5. CASE HeartbeatDone(k)
  BY <1>5, QuietUnchanged DEF HeartbeatDone, RecordHeartbeats
<1>6. CASE CheckQuorumStepDown(k)
  BY <1>0, <1>6, QuietFollower DEF CheckQuorumStepDown, RecordHeartbeats
<1> QED BY <1>1, <1>2, <1>3, <1>4, <1>5, <1>6 DEF HeartbeatStep

LEMMA ReplicateStepKind ==
  ASSUME TypeOK, NEW c \in calls, ReplicateStep(c)
  PROVE  Quiet
<1>0. /\ c.node \in Server /\ c.rd.maxTerm \in Nat /\ c.rd.todo \in SUBSET Server
      /\ currentTerm[c.node] \in Nat
  BY CallFields DEF TypeOK, NodeTypeOK, Round
<1>1. ASSUME NEW p \in c.rd.todo, SendAppendEntries(c, p) PROVE Quiet
  BY <1>0, <1>1, AppendEntriesMsgType, AppendEntriesMoves
     DEF SendAppendEntries, OnAppendEntries, history, Quiet
<1>2. CASE \E p \in c.rd.todo : AppendEntriesFails(c, p) \/ SkipPeer(c, p)
  BY <1>2, QuietUnchanged DEF AppendEntriesFails, SkipPeer, history
<1>3. CASE NotLeaderReturn(c) \/ ReplicateRound(c) \/ ReplicateOvertaken(c)
  BY <1>3, QuietUnchanged DEF NotLeaderReturn, ReplicateRound, ReplicateOvertaken, history
<1>4. CASE ReplicateDeposed(c)
  BY <1>0, <1>4, QuietFollower DEF ReplicateDeposed, history
<1>5. CASE ReplicateDone(c)
  BY <1>5, QuietUnchanged DEF ReplicateDone
<1>6. CASE CoordinatorCheck(c)
  BY <1>6, QuietUnchanged DEF CoordinatorCheck
<1> QED BY <1>1, <1>2, <1>3, <1>4, <1>5, <1>6 DEF ReplicateStep

LEMMA HandleLateKind ==
  ASSUME TypeOK, NEW m \in late, HandleLate(m)
  PROVE  Quiet \/ \E p \in Server, v \in VoteMsg : VoteStep(p, v)
<1>1. m \in VoteMsg \cup BeatMsg \cup AppMsg
  BY DEF TypeOK, CallTypeOK
<1>2. CASE m.type = "vote" /\ OnRequestVote(m.to, m)
  <2>1. m \in VoteMsg /\ m.to \in Server
    BY <1>1, <1>2 DEF VoteMsg, BeatMsg, AppMsg
  <2>2. VoteStep(m.to, m)
    BY <1>2 DEF VoteStep, HandleLate
  <2> QED BY <2>1, <2>2
<1>3. CASE m.type = "heartbeat" /\ OnHeartbeat(m.to, m)
  <2>1. m \in BeatMsg /\ m.to \in Server
    BY <1>1, <1>3 DEF VoteMsg, BeatMsg, AppMsg
  <2> QED BY <1>3, <2>1, HeartbeatMoves DEF HandleLate, OnHeartbeat, history, Quiet
<1>4. CASE m.type = "append" /\ OnAppendEntries(m.to, m)
  <2>1. m \in AppMsg /\ m.to \in Server
    BY <1>1, <1>4 DEF VoteMsg, BeatMsg, AppMsg
  <2> QED BY <1>4, <2>1, AppendEntriesMoves DEF HandleLate, OnAppendEntries, history, Quiet
<1> QED BY <1>2, <1>3, <1>4 DEF HandleLate

LEMMA RestartKind ==
  ASSUME TypeOK, NEW n \in Server, Restart(n)
  PROVE  Quiet
<1>1. VotesKept
  BY DEF TypeOK, NodeTypeOK, Restart, hardState, VotesKept
<1>2. role'[n] = Follower /\ currentTerm'[n] = currentTerm[n]
  BY DEF TypeOK, NodeTypeOK, Restart, hardState
<1>3. Demotes(n)
  BY <1>2 DEF TypeOK, NodeTypeOK, Restart, hardState, Demotes
<1> QED BY <1>1, <1>3, NoElectionFields DEF Quiet, Restart, history

\* Every step of the specification is of one of the four kinds.
LEMMA StepKinds ==
  ASSUME TypeOK, Next
  PROVE  \/ Quiet
         \/ \E n \in Server : StartElection(n) \/ ElectionWon(n)
         \/ \E p \in Server, m \in VoteMsg : VoteStep(p, m)
<1>1. ASSUME NEW n \in Server, HeartbeatTick(n) PROVE Quiet
  BY <1>1, QuietUnchanged DEF HeartbeatTick, history
<1>2. ASSUME NEW n \in Server, NEW v \in Value, SubmitEntry(n, v) PROVE Quiet
  BY <1>2, QuietUnchanged DEF SubmitEntry, history
<1>3. ASSUME NEW n \in Server, NEW batch \in SUBSET waiting, CoordinatorCommit(n, batch)
      PROVE  Quiet
  BY <1>3, QuietUnchanged DEF CoordinatorCommit, history
<1> QED BY <1>1, <1>2, <1>3, ElectionStepKind, HeartbeatStepKind, ReplicateStepKind,
        HandleLateKind, RestartKind DEF Next

(***************************************************************************)
(* Votes are kept, by every step.                                          *)
(***************************************************************************)
LEMMA VotesKeptStep ==
  ASSUME TypeOK, Next
  PROVE  VotesKept
<1>1. CASE Quiet
  BY <1>1 DEF Quiet
<1>2. ASSUME NEW n \in Server, StartElection(n) PROVE VotesKept
  <2>1. currentTerm \in [Server -> Nat] /\ votedFor \in [Server -> Server \cup {Nil}]
    BY DEF TypeOK, NodeTypeOK
  <2> QED BY <1>2, <2>1 DEF StartElection, BecomeCandidate, VotesKept
<1>3. ASSUME NEW n \in Server, ElectionWon(n) PROVE VotesKept
  BY <1>3 DEF ElectionWon, hardState, TypeOK, NodeTypeOK, VotesKept
<1>4. ASSUME NEW p \in Server, NEW m \in VoteMsg, VoteStep(p, m) PROVE VotesKept
  BY <1>4, RequestVoteMoves DEF VoteStep
<1> QED BY <1>1, <1>2, <1>3, <1>4, StepKinds

\* No step of any node takes its durable term back, or changes or drops a vote
\* it has given in its term: what BecomeFollowerLocked and OnRequestVote write
\* with SetState, and a restart reads back.
THEOREM VotesStable == Spec => VoteStability
<1>1. TypeOK /\ [Next]_vars => [VotesKept]_vars
  BY VotesKeptStep
<1> QED BY <1>1, TypeCorrect, PTL DEF Spec, VoteStability

(***************************************************************************)
(* The election invariant.                                                 *)
(***************************************************************************)
LEMMA VoteTriple ==
  ASSUME TypeOK, NEW v \in voteLog
  PROVE  v[1] \in Server /\ v[2] \in Nat /\ v[3] \in Server /\ v = <<v[1], v[2], v[3]>>
  BY DEF TypeOK, HistoryTypeOK

LEMMA LeaderPair ==
  ASSUME TypeOK, NEW l \in leaders
  PROVE  l[1] \in Nat /\ l[2] \in Server /\ l = <<l[1], l[2]>>
  BY DEF TypeOK, HistoryTypeOK

LEMMA ElectionInit == Init => ElectionInv
<1> SUFFICES ASSUME Init PROVE ElectionInv
  OBVIOUS
<1>1. TypeOK
  BY TypeInit
<1>2. VotesRecorded /\ OneVotePerTerm /\ LeadersBacked
  BY DEF Init, VotesRecorded, OneVotePerTerm, LeadersBacked
<1>3. CampaignBacked
  BY DEF Init, CampaignBacked, NoElection
<1> QED BY <1>1, <1>2, <1>3 DEF ElectionInv

\* Votes cast are never taken back, so neither are the majorities behind the
\* leaders there were.
LEMMA LeadersStayBacked ==
  ASSUME TypeOK, TypeOK', LeadersBacked, VotesKept, voteLog \subseteq voteLog',
         NEW l \in leaders
  PROVE  l[1] <= currentTerm'[l[2]] /\ \E Q \in SUBSET Server : BackedBy(l, Q)'
<1>1. l[1] <= currentTerm'[l[2]]
  <2>1. l[1] \in Nat /\ l[2] \in Server /\ l[1] <= currentTerm[l[2]]
    BY LeaderPair DEF LeadersBacked
  <2>2. /\ currentTerm[l[2]] \in Nat /\ currentTerm'[l[2]] \in Nat
        /\ currentTerm'[l[2]] >= currentTerm[l[2]]
    BY <2>1 DEF VotesKept, TypeOK, NodeTypeOK
  <2> QED BY <2>1, <2>2
<1>2. PICK Q \in SUBSET Server : BackedBy(l, Q)
  BY DEF LeadersBacked
<1>3. BackedBy(l, Q)'
  BY <1>2 DEF BackedBy, Majority
<1> QED BY <1>1, <1>3

LEMMA QuietElectionInv ==
  ASSUME ElectionInv, TypeOK', Quiet
  PROVE  ElectionInv'
<1> USE DEF ElectionInv
<1>1. VotesRecorded'
  <2> SUFFICES ASSUME NEW v \in voteLog
               PROVE  /\ v[2] <= currentTerm'[v[1]]
                      /\ v[2] = currentTerm'[v[1]] => votedFor'[v[1]] = v[3]
    BY DEF Quiet, VotesRecorded
  <2>1. /\ v[1] \in Server /\ v[2] \in Nat /\ v[3] # Nil
        /\ currentTerm[v[1]] \in Nat /\ currentTerm'[v[1]] \in Nat
    BY VoteTriple, NilAssumption DEF TypeOK, NodeTypeOK
  <2>2. /\ v[2] <= currentTerm[v[1]]
        /\ v[2] = currentTerm[v[1]] => votedFor[v[1]] = v[3]
    BY DEF VotesRecorded
  <2>3. /\ currentTerm'[v[1]] >= currentTerm[v[1]]
        /\ (currentTerm'[v[1]] = currentTerm[v[1]] /\ votedFor[v[1]] # Nil)
             => votedFor'[v[1]] = votedFor[v[1]]
    BY <2>1 DEF Quiet, VotesKept
  <2> QED BY <2>1, <2>2, <2>3
<1>2. OneVotePerTerm'
  BY DEF OneVotePerTerm, Quiet
<1>3. CampaignBacked'
  BY DEF CampaignBacked, Quiet
<1>4. LeadersBacked'
  BY LeadersStayBacked DEF LeadersBacked, Quiet
<1> QED BY <1>1, <1>2, <1>3, <1>4

LEMMA StartElectionInv ==
  ASSUME ElectionInv, TypeOK', NEW n \in Server, StartElection(n)
  PROVE  ElectionInv'
<1> USE DEF ElectionInv
<1> DEFINE t == currentTerm[n] + 1
           vote == <<n, t, n>>
<1>1. /\ t \in Nat /\ t > currentTerm[n] /\ currentTerm \in [Server -> Nat]
      /\ currentTerm' = [currentTerm EXCEPT ![n] = t]
      /\ votedFor' = [votedFor EXCEPT ![n] = n]
      /\ votedFor \in [Server -> Server \cup {Nil}]
      /\ voteLog' = voteLog \cup {vote} /\ leaders' = leaders
  BY DEF StartElection, BecomeCandidate, TypeOK, NodeTypeOK
<1>2. /\ election \in [Server -> Election]
      /\ election'[n].on /\ election'[n].term = t
      /\ election'[n].todo = Peers(n) /\ election'[n].granted = {}
      /\ \A p \in Server \ {n} : election'[p] = election[p]
  BY DEF StartElection, TypeOK, CallTypeOK
<1>3. \A v \in voteLog : v[1] = n => v[2] < t
  <2> TAKE v \in voteLog
  <2>1. v[2] \in Nat /\ v[2] <= currentTerm[v[1]]
    BY VoteTriple DEF VotesRecorded
  <2> QED BY <1>1, <2>1
<1>4. <<t, n>> \notin leaders
  <2> SUFFICES ASSUME <<t, n>> \in leaders PROVE FALSE
    OBVIOUS
  <2>1. t <= currentTerm[n]
    BY DEF LeadersBacked
  <2> QED BY <1>1, <2>1
<1> HIDE DEF t
<1>5. VotesRecorded'
  <2> SUFFICES ASSUME NEW v \in voteLog'
               PROVE  /\ v[2] <= currentTerm'[v[1]]
                      /\ v[2] = currentTerm'[v[1]] => votedFor'[v[1]] = v[3]
    BY DEF VotesRecorded
  <2>1. CASE v = vote
    BY <1>1, <2>1
  <2>2. CASE v \in voteLog
    <3>1. v[1] \in Server /\ v[2] \in Nat
      BY <2>2, VoteTriple
    <3>2. CASE v[1] = n
      BY <1>1, <1>3, <2>2, <3>1, <3>2
    <3>3. CASE v[1] # n
      BY <1>1, <2>2, <3>1, <3>3 DEF VotesRecorded
    <3> QED BY <3>2, <3>3
  <2> QED BY <1>1, <2>1, <2>2
<1>6. OneVotePerTerm'
  <2>1. \A v \in voteLog : v[1] = n => v[2] # t
    BY <1>1, <1>3, VoteTriple
  <2> QED BY <1>1, <2>1 DEF OneVotePerTerm
<1>7. CampaignBacked'
  <2> SUFFICES ASSUME NEW p \in Server, election'[p].on
               PROVE  /\ <<p, election'[p].term, p>> \in voteLog'
                      /\ p \notin election'[p].todo \cup election'[p].granted
                      /\ \A q \in election'[p].granted :
                           <<q, election'[p].term, p>> \in voteLog'
                      /\ <<election'[p].term, p>> \notin leaders'
    BY DEF CampaignBacked
  <2>1. CASE p = n
    BY <1>1, <1>2, <1>4, <2>1 DEF Peers
  <2>2. CASE p # n
    BY <1>1, <1>2, <2>2 DEF CampaignBacked
  <2> QED BY <2>1, <2>2
<1>8. VotesKept
  BY VotesKeptStep DEF Next
<1>9. LeadersBacked'
  BY <1>1, <1>8, LeadersStayBacked DEF LeadersBacked
<1> QED BY <1>5, <1>6, <1>7, <1>9

LEMMA TallyVoteFields ==
  ASSUME election \in [Server -> Election], NEW n \in Server, NEW p, NEW r,
         TallyVote(n, p, r)
  PROVE  /\ election'[n].on = election[n].on /\ election'[n].term = election[n].term
         /\ election'[n].todo \subseteq election[n].todo
         /\ election'[n].granted = IF r.ok THEN election[n].granted \cup {p}
                                   ELSE election[n].granted
         /\ \A q \in Server \ {n} : election'[q] = election[q]
<1> DEFINE e == [election[n] EXCEPT !.todo = @ \ {p},
                   !.granted = IF r.ok THEN @ \cup {p} ELSE @,
                   !.maxTerm = MaxOf(@, r.term)]
<1>1. election' = [election EXCEPT ![n] = e]
  BY DEF TallyVote, Election
<1>2. /\ e.on = election[n].on /\ e.term = election[n].term
      /\ e.todo = election[n].todo \ {p}
      /\ e.granted = IF r.ok THEN election[n].granted \cup {p} ELSE election[n].granted
  BY DEF Election
<1> HIDE DEF e
<1> QED BY <1>1, <1>2

LEMMA VoteStepInv ==
  ASSUME ElectionInv, TypeOK', NEW p \in Server, NEW m \in VoteMsg, VoteStep(p, m)
  PROVE  ElectionInv'
<1> USE DEF ElectionInv
<1> DEFINE vote == <<p, m.term, m.from>>
<1>1. /\ m.term \in Nat /\ m.from \in Server
      /\ currentTerm \in [Server -> Nat] /\ votedFor \in [Server -> Server \cup {Nil}]
      /\ currentTerm' = [currentTerm EXCEPT ![p] = MaxOf(m.term, @)]
      /\ votedFor' = [votedFor EXCEPT ![p] =
           IF GrantsVote(p, m) THEN m.from
           ELSE IF m.term > currentTerm[p] THEN Nil ELSE @]
      /\ voteLog' = IF GrantsVote(p, m) THEN voteLog \cup {vote} ELSE voteLog
      /\ leaders' = leaders
  BY DEF VoteStep, OnRequestVote, TypeOK, NodeTypeOK, VoteMsg
<1>2. VotesKept /\ voteLog \subseteq voteLog'
  BY <1>1, RequestVoteMoves DEF VoteStep
<1>3. GrantsVote(p, m) =>
        /\ m.term >= currentTerm[p] /\ currentTerm'[p] = m.term /\ votedFor'[p] = m.from
        /\ m.term > currentTerm[p] \/ votedFor[p] \in {Nil, m.from}
  BY <1>1 DEF GrantsVote, MaxOf
<1>4. VotesRecorded'
  <2> SUFFICES ASSUME NEW v \in voteLog'
               PROVE  /\ v[2] <= currentTerm'[v[1]]
                      /\ v[2] = currentTerm'[v[1]] => votedFor'[v[1]] = v[3]
    BY DEF VotesRecorded
  <2>1. CASE GrantsVote(p, m) /\ v = vote
    BY <1>1, <1>3, <2>1
  <2>2. CASE v \in voteLog
    <3>1. /\ v[1] \in Server /\ v[2] \in Nat /\ v[3] # Nil
          /\ currentTerm[v[1]] \in Nat /\ currentTerm'[v[1]] \in Nat
      BY <2>2, VoteTriple, NilAssumption DEF TypeOK, NodeTypeOK
    <3>2. /\ v[2] <= currentTerm[v[1]]
          /\ v[2] = currentTerm[v[1]] => votedFor[v[1]] = v[3]
      BY <2>2 DEF VotesRecorded
    <3>3. /\ currentTerm'[v[1]] >= currentTerm[v[1]]
          /\ (currentTerm'[v[1]] = currentTerm[v[1]] /\ votedFor[v[1]] # Nil)
               => votedFor'[v[1]] = votedFor[v[1]]
      BY <1>2, <3>1 DEF VotesKept
    <3> QED BY <3>1, <3>2, <3>3
  <2> QED BY <1>1, <2>1, <2>2
<1>5. OneVotePerTerm'
  <2>1. CASE ~GrantsVote(p, m)
    BY <1>1, <2>1 DEF OneVotePerTerm
  <2>2. CASE GrantsVote(p, m)
    <3>1. ASSUME NEW v \in voteLog, v[1] = p, v[2] = m.term PROVE v[3] = m.from
      <4>1. /\ v[2] \in Nat /\ v[3] # Nil /\ currentTerm[p] \in Nat
            /\ v[2] <= currentTerm[p]
            /\ v[2] = currentTerm[p] => votedFor[p] = v[3]
        <5>1. v[2] \in Nat /\ v[3] # Nil
          BY VoteTriple, NilAssumption
        <5>2. currentTerm[p] \in Nat
          BY DEF TypeOK, NodeTypeOK
        <5> QED BY <3>1, <5>1, <5>2 DEF VotesRecorded
      <4> QED BY <1>1, <1>3, <2>2, <3>1, <4>1
    <3> QED BY <1>1, <2>2, <3>1 DEF OneVotePerTerm
  <2> QED BY <2>1, <2>2
<1>6. CampaignBacked'
  <2>1. CASE UNCHANGED election
    BY <1>1, <1>2, <2>1 DEF CampaignBacked
  <2>2. CASE TallyVote(m.from, p, VoteResponse(p, m)) /\ p \in election[m.from].todo
               /\ m.term = election[m.from].term
    <3> DEFINE n == m.from
    <3>1. election \in [Server -> Election] /\ VoteResponse(p, m).ok = GrantsVote(p, m)
      BY DEF TypeOK, CallTypeOK, VoteResponse, Response
    <3>2. /\ election'[n].on = election[n].on /\ election'[n].term = m.term
          /\ election'[n].todo \subseteq election[n].todo
          /\ election'[n].granted = IF GrantsVote(p, m) THEN election[n].granted \cup {p}
                                    ELSE election[n].granted
          /\ \A q \in Server \ {n} : election'[q] = election[q]
      BY <1>1, <2>2, <3>1, TallyVoteFields
    <3> SUFFICES ASSUME NEW q \in Server, election'[q].on
                 PROVE  /\ <<q, election'[q].term, q>> \in voteLog'
                        /\ q \notin election'[q].todo \cup election'[q].granted
                        /\ \A r \in election'[q].granted :
                             <<r, election'[q].term, q>> \in voteLog'
                        /\ <<election'[q].term, q>> \notin leaders'
      BY DEF CampaignBacked
    <3>3. CASE q = n
      <4>1. /\ election[n].on /\ <<n, m.term, n>> \in voteLog
            /\ n \notin election[n].todo \cup election[n].granted
            /\ \A r \in election[n].granted : <<r, m.term, n>> \in voteLog
            /\ <<m.term, n>> \notin leaders
        BY <1>1, <2>2, <3>2, <3>3 DEF CampaignBacked
      <4>2. n # p
        BY <2>2, <4>1
      <4> QED BY <1>1, <1>2, <3>2, <3>3, <4>1, <4>2
    <3>4. CASE q # n
      BY <1>1, <1>2, <3>2, <3>4 DEF CampaignBacked
    <3> QED BY <3>3, <3>4
  <2> QED BY <2>1, <2>2 DEF VoteStep
<1>7. LeadersBacked'
  BY <1>1, <1>2, LeadersStayBacked DEF LeadersBacked
<1> QED BY <1>4, <1>5, <1>6, <1>7

\* The voters of a victorious campaign, the winner included, are a majority.
LEMMA WinnerBacked ==
  ASSUME ElectionInv, NEW n \in Server, ElectionWon(n)
  PROVE  \E Q \in SUBSET Server : BackedBy(<<currentTerm[n], n>>, Q)
<1> USE DEF ElectionInv
<1> DEFINE Q == election[n].granted \cup {n}
<1>1. /\ election[n].on /\ election[n].term = currentTerm[n]
      /\ election[n].granted \in SUBSET Server
      /\ Cardinality(election[n].granted) + 1 >= Majority
  BY DEF ElectionWon, Tallied, Campaigning, TypeOK, CallTypeOK, Election
<1>2. IsFiniteSet(election[n].granted)
  BY <1>1, FS_Subset, ServerAssumption
<1>3. /\ n \notin election[n].granted
      /\ \A q \in Q : <<q, currentTerm[n], n>> \in voteLog
  BY <1>1 DEF CampaignBacked
<1>4. Cardinality(Q) >= Majority
  BY <1>1, <1>2, <1>3, FS_AddElement
<1> QED BY <1>1, <1>3, <1>4 DEF BackedBy

LEMMA ElectionWonInv ==
  ASSUME ElectionInv, TypeOK', NEW n \in Server, ElectionWon(n)
  PROVE  ElectionInv'
<1> USE DEF ElectionInv
<1> DEFINE won == <<currentTerm[n], n>>
<1>1. /\ UNCHANGED hardState /\ voteLog' = voteLog
      /\ leaders' = leaders \cup {won}
      /\ election' = [election EXCEPT ![n] = NoElection]
  BY DEF ElectionWon, BecomeLeader, EndElection
<1>2. VotesRecorded' /\ OneVotePerTerm'
  BY <1>1 DEF VotesRecorded, OneVotePerTerm, hardState
<1>3. CampaignBacked'
  <2>1. election' [n].on = FALSE /\ \A p \in Server \ {n} : election'[p] = election[p]
    BY <1>1 DEF TypeOK, CallTypeOK, NoElection
  <2> QED BY <1>1, <2>1 DEF CampaignBacked
<1>4. VotesKept
  BY <1>1 DEF hardState, TypeOK, NodeTypeOK, VotesKept
<1>5. ASSUME NEW l \in leaders'
      PROVE  l[1] <= currentTerm'[l[2]] /\ \E Q \in SUBSET Server : BackedBy(l, Q)'
  <2>1. CASE l \in leaders
    BY <1>1, <1>4, <2>1, LeadersStayBacked
  <2>2. CASE l = won
    <3>1. PICK Q \in SUBSET Server : BackedBy(won, Q)
      BY WinnerBacked
    <3>2. BackedBy(l, Q)'
      BY <1>1, <2>2, <3>1 DEF BackedBy, Majority
    <3>3. l[1] <= currentTerm'[l[2]]
      BY <1>1, <2>2 DEF hardState, TypeOK, NodeTypeOK
    <3> QED BY <3>2, <3>3
  <2> QED BY <1>1, <2>1, <2>2
<1>6. LeadersBacked'
  BY <1>5 DEF LeadersBacked
<1> QED BY <1>2, <1>3, <1>6

LEMMA ElectionStepInv == ElectionInv /\ [Next]_vars => ElectionInv'
<1> SUFFICES ASSUME ElectionInv, [Next]_vars PROVE ElectionInv'
  OBVIOUS
<1>1. TypeOK /\ TypeOK'
  BY TypeStep DEF ElectionInv
<1>2. CASE Next
  BY <1>1, <1>2, StepKinds, QuietElectionInv, StartElectionInv, VoteStepInv, ElectionWonInv
<1>3. CASE UNCHANGED vars
  <2>1. UNCHANGED <<hardState, role, voteLog, leaders, election>>
    BY <1>3 DEF vars, history
  <2> QED BY <1>1, <2>1, QuietUnchanged, QuietElectionInv
<1> QED BY <1>2, <1>3

\* Two leaders of one term would share a voter, who has one vote.
LEMMA LeadersUnique ==
  ASSUME ElectionInv, NEW a, NEW b, a[1] = b[1],
         NEW Qa \in SUBSET Server, BackedBy(a, Qa),
         NEW Qb \in SUBSET Server, BackedBy(b, Qb)
  PROVE  a[2] = b[2]
<1>1. /\ Cardinality(Qa) >= Majority /\ Cardinality(Qb) >= Majority
      /\ Cardinality(Qa) \in Nat /\ Cardinality(Qb) \in Nat
  BY FS_Subset, FS_CardinalityType, ServerAssumption DEF BackedBy
<1>2. Cardinality(Qa) + Cardinality(Qb) > Cardinality(Server)
  BY <1>1, MajorityBounds
<1>3. PICK q \in Qa \cap Qb : TRUE
  BY <1>2, FS_MajoritiesIntersect, ServerAssumption
<1>4. <<q, a[1], a[2]>> \in voteLog /\ <<q, b[1], b[2]>> \in voteLog
  BY <1>3 DEF BackedBy
<1> QED BY <1>4 DEF ElectionInv, OneVotePerTerm

LEMMA ElectionInvSafe == ElectionInv => ElectionSafety
<1> SUFFICES ASSUME ElectionInv, NEW a \in leaders, NEW b \in leaders, a[1] = b[1]
             PROVE  a[2] = b[2]
  BY DEF ElectionSafety
<1>1. PICK Qa \in SUBSET Server : BackedBy(a, Qa)
  BY DEF ElectionInv, LeadersBacked
<1>2. PICK Qb \in SUBSET Server : BackedBy(b, Qb)
  BY DEF ElectionInv, LeadersBacked
<1> QED BY <1>1, <1>2, LeadersUnique

\* Election Safety: in no execution of any cluster do two nodes win the same
\* term, whatever is lost, late or restarted (StartElection, OnRequestVote,
\* BecomeFollowerLocked and the record SetState writes).
THEOREM ElectionSafe == Spec => []ElectionSafety
  BY ElectionInvSafe, ElectionInit, ElectionStepInv, PTL DEF Spec

(***************************************************************************)
(* RaftNode implements Leadership.                                         *)
(***************************************************************************)
leading == [n \in Server |-> role[n] = Leader]

LEMMA ImplementsStart == Init => Elections!Start
  BY DEF Init, Elections!Start

\* A step that demotes at most one node is AdoptTerm, Resign or a stutter.
LEMMA DemotesImplements ==
  ASSUME TypeOK, TypeOK', NEW n \in Server, Demotes(n), leaders' = leaders
  PROVE  [Elections!Move]_<<currentTerm, leading, leaders>>
<1>1. /\ currentTerm \in [Server -> Nat] /\ currentTerm' \in [Server -> Nat]
      /\ role \in [Server -> {Follower, Candidate, Leader}]
      /\ currentTerm' = [currentTerm EXCEPT ![n] = currentTerm'[n]]
      /\ role' = [role EXCEPT ![n] = role'[n]]
  BY DEF TypeOK, NodeTypeOK, Demotes
<1>2. leading' = [leading EXCEPT ![n] = (role'[n] = Leader)]
  BY <1>1 DEF leading
<1>3. CASE currentTerm'[n] > currentTerm[n] /\ role'[n] # Leader
  <2>1. Elections!AdoptTerm(n)
    BY <1>1, <1>2, <1>3 DEF Elections!AdoptTerm, leading
  <2> QED BY <2>1 DEF Elections!Move
<1>4. CASE currentTerm'[n] = currentTerm[n] /\ (role'[n] = Leader => role[n] = Leader)
  <2>1. currentTerm' = currentTerm
    BY <1>1, <1>4
  <2>2. CASE role[n] = Leader /\ role'[n] # Leader
    <3>1. Elections!Resign(n)
      BY <1>2, <2>1, <2>2 DEF Elections!Resign, leading
    <3> QED BY <3>1 DEF Elections!Move
  <2>3. CASE (role[n] = Leader) = (role'[n] = Leader)
    <3>1. leading' = leading
      BY <1>2, <2>3 DEF leading
    <3> QED BY <2>1, <3>1
  <2> QED BY <1>4, <2>2, <2>3
<1> QED BY <1>3, <1>4 DEF Demotes

LEMMA StartElectionImplements ==
  ASSUME TypeOK, TypeOK', NEW n \in Server, StartElection(n)
  PROVE  Elections!Move
<1>1. /\ currentTerm \in [Server -> Nat] /\ role \in [Server -> {Follower, Candidate, Leader}]
      /\ currentTerm' = [currentTerm EXCEPT ![n] = currentTerm[n] + 1]
      /\ role' = [role EXCEPT ![n] = Candidate] /\ leaders' = leaders
  BY DEF StartElection, BecomeCandidate, TypeOK, NodeTypeOK
<1>2. leading' = [leading EXCEPT ![n] = FALSE]
  BY <1>1 DEF leading
<1>3. Elections!AdoptTerm(n)
  BY <1>1, <1>2 DEF Elections!AdoptTerm, leading
<1> QED BY <1>3 DEF Elections!Move

LEMMA ElectionWonImplements ==
  ASSUME ElectionInv, NEW n \in Server, ElectionWon(n)
  PROVE  Elections!Move
<1>1. /\ role \in [Server -> {Follower, Candidate, Leader}]
      /\ role[n] = Candidate /\ role' = [role EXCEPT ![n] = Leader]
      /\ currentTerm' = currentTerm
      /\ leaders' = leaders \cup {<<currentTerm[n], n>>}
      /\ election[n].on /\ election[n].term = currentTerm[n]
  BY DEF ElectionInv, TypeOK, NodeTypeOK, ElectionWon, Tallied, Campaigning, BecomeLeader,
         hardState
<1>2. leading' = [leading EXCEPT ![n] = TRUE]
  BY <1>1 DEF leading
<1>3. \A l \in leaders : l[1] # currentTerm[n]
  <2> SUFFICES ASSUME NEW l \in leaders, l[1] = currentTerm[n] PROVE FALSE
    OBVIOUS
  <2> DEFINE won == <<currentTerm[n], n>>
  <2>1. PICK Q \in SUBSET Server : BackedBy(won, Q)
    BY WinnerBacked
  <2>2. PICK R \in SUBSET Server : BackedBy(l, R)
    BY DEF ElectionInv, LeadersBacked
  <2>3. l[2] = won[2]
    <3>1. l[1] = won[1]
      OBVIOUS
    <3> HIDE DEF won
    <3> QED BY <2>1, <2>2, <3>1, LeadersUnique
  <2>4. l = won
    BY <2>3, LeaderPair DEF ElectionInv
  <2> QED BY <1>1, <2>4 DEF ElectionInv, CampaignBacked
<1>4. Elections!Elect(n)
  BY <1>1, <1>2, <1>3 DEF Elections!Elect, leading
<1> QED BY <1>4 DEF Elections!Move

LEMMA ImplementsStep ==
  ASSUME ElectionInv, [Next]_vars
  PROVE  [Elections!Move]_<<currentTerm, leading, leaders>>
<1>1. TypeOK /\ TypeOK'
  BY TypeStep DEF ElectionInv
<1>2. CASE Next
  <2>1. CASE Quiet
    BY <1>1, <2>1, DemotesImplements DEF Quiet
  <2>2. ASSUME NEW p \in Server, NEW m \in VoteMsg, VoteStep(p, m)
        PROVE  [Elections!Move]_<<currentTerm, leading, leaders>>
    BY <1>1, <2>2, RequestVoteMoves, DemotesImplements DEF VoteStep, OnRequestVote
  <2> QED BY <1>1, <1>2, <2>1, <2>2, StepKinds, StartElectionImplements,
             ElectionWonImplements
<1>3. CASE UNCHANGED vars
  BY <1>3 DEF vars, hardState, history, leading
<1> QED BY <1>2, <1>3

\* RaftNode implements Leadership: every behaviour of the cluster hands out each
\* term at most once and for good, whatever the interleaving of campaigns,
\* ticks, replication rounds, late messages and restarts.
THEOREM RaftImplementsLeadership == Spec => LeadershipOncePerTerm
<1>1. ElectionInv /\ [Next]_vars => [Elections!Move]_(Elections!leadershipVars)
  BY ImplementsStep DEF Elections!leadershipVars, leading
<1> QED BY <1>1, ImplementsStart, ElectionInit, ElectionStepInv, PTL
        DEF Spec, LeadershipOncePerTerm, Elections!LeadershipSpec

USE DEF Follower, Candidate, Leader

(***************************************************************************)
(* Links.                                                                  *)
(***************************************************************************)
LEMMA EntryFields ==
  ASSUME NEW l \in Seq(Entry), NEW i \in 1..Len(l)
  PROVE  l[i] \in Entry /\ l[i].term \in Nat /\ l[i] = [term |-> l[i].term, val |-> l[i].val]
<1>1. l[i] \in Entry
  OBVIOUS
<1> QED BY <1>1 DEF Entry

\* The links of what the merge leaves were links of the log or of the request.
LEMMA MergedLinks ==
  ASSUME NEW l \in Seq(Entry), NEW m \in AppMsg, m.prev <= Len(l),
         m.prev > 0 => l[m.prev].term = m.prevTerm
  PROVE  LogLinks(MergedLog(l, m)) \subseteq LogLinks(l) \cup MsgLinks(m)
<1> DEFINE tail == m.prev + Len(m.entries)
           kept(i) == /\ i <= Len(l)
                      /\ \A j \in (m.prev + 1)..i :
                           l[j].term = m.entries[j - m.prev].term
           merged == [i \in 1..tail |-> IF kept(i) THEN l[i]
                                        ELSE m.entries[i - m.prev]]
<1>1. m.prev \in Nat /\ m.entries \in Seq(Entry) /\ tail \in Nat /\ Len(l) \in Nat
  BY DEF AppMsg
<1>2. CASE m.entries = <<>>
  BY <1>2 DEF MergedLog
<1>3. CASE m.entries # <<>>
  <2>1. MergedLog(l, m) = merged
    BY <1>3 DEF MergedLog
  <2>2. merged \in Seq(Entry)
    BY <2>1, MergedLogType
  <2>3. Len(merged) = tail /\ \A i \in 1..tail : merged[i] = IF kept(i) THEN l[i]
                                                           ELSE m.entries[i - m.prev]
    BY <1>1, <2>2
  <2>4. \A i \in 1..tail : i > 1 /\ kept(i) => kept(i - 1)
    BY <1>1
  <2>5. \A i \in 1..tail : i <= m.prev => kept(i)
    BY <1>1
  <2>6. \A i \in 1..tail : i > m.prev /\ kept(i) => l[i].term = m.entries[i - m.prev].term
    BY <1>1
  <2> HIDE DEF kept, merged
  <2> SUFFICES ASSUME NEW i \in 1..tail
               PROVE  Link(i, merged[i], TermAt(merged, i - 1)) \in LogLinks(l) \cup MsgLinks(m)
    BY <2>1, <2>3 DEF LogLinks
  <2>7. CASE kept(i)
    <3>1. i \in 1..Len(l) /\ merged[i] = l[i]
      BY <1>1, <2>3, <2>7 DEF kept
    <3>2. TermAt(merged, i - 1) = TermAt(l, i - 1)
      <4>1. CASE i = 1
        BY <4>1 DEF TermAt
      <4>2. CASE i > 1
        <5>1. kept(i - 1) /\ i - 1 \in 1..tail /\ i - 1 \in 1..Len(l)
          BY <1>1, <2>4, <2>7, <3>1, <4>2
        <5> QED BY <2>3, <5>1 DEF TermAt
      <4> QED BY <4>1, <4>2
    <3> QED BY <3>1, <3>2 DEF LogLinks
  <2>8. CASE ~kept(i)
    <3> DEFINE j == i - m.prev
    <3>1. i > m.prev /\ j \in 1..Len(m.entries) /\ merged[i] = m.entries[j]
      BY <1>1, <2>3, <2>5, <2>8
    <3>2. TermAt(merged, i - 1) = IF j > 1 THEN m.entries[j - 1].term
                                  ELSE IF m.prev > 0 THEN m.prevTerm ELSE 0
      <4>1. CASE i = 1
        BY <1>1, <3>1, <4>1 DEF TermAt
      <4>2. CASE i > 1 /\ j = 1
        <5>1. i - 1 = m.prev /\ kept(i - 1) /\ i - 1 \in 1..tail
          BY <1>1, <2>5, <4>2
        <5> QED BY <1>1, <2>3, <4>2, <5>1 DEF TermAt
      <4>3. CASE i > 1 /\ j > 1
        <5>1. i - 1 \in 1..tail /\ i - 1 > m.prev /\ i - 1 - m.prev = j - 1
          BY <1>1, <3>1, <4>3
        <5>2. merged[i - 1].term = m.entries[i - 1 - m.prev].term
          BY <2>3, <2>6, <5>1
        <5> QED BY <2>3, <4>3, <5>1, <5>2 DEF TermAt
      <4> QED BY <1>1, <3>1, <4>1, <4>2, <4>3
    <3>3. i = m.prev + j
      BY <1>1
    <3> HIDE DEF j
    <3> QED BY <3>1, <3>2, <3>3 DEF MsgLinks
  <2> QED BY <2>7, <2>8
<1> QED BY <1>2, <1>3

\* The entries of a request are a slice of the round's copy of the log.
LEMMA RequestSlice ==
  ASSUME TypeOK, NEW c \in calls, NEW p \in Server
  PROVE  LET m == AppendEntries(c, p)
         IN /\ c.rd.log \in Seq(Entry) /\ m.entries \in Seq(Entry) /\ m.prev \in Nat
            /\ \A i \in 1..Len(m.entries) :
                 m.prev + i \in 1..Len(c.rd.log) /\ m.entries[i] = c.rd.log[m.prev + i]
<1> DEFINE next == c.rd.next[p]
           last == MinOf(Len(c.rd.log), next + MaxBatch - 1)
           m == AppendEntries(c, p)
<1>1. c.rd.log \in Seq(Entry) /\ next \in Nat \ {0}
  BY CallFields DEF Round
<1>2. last \in Nat /\ last <= Len(c.rd.log)
  <2>1. MaxBatch \in Nat \ {0}
    BY BoundAssumption
  <2> HIDE DEF next
  <2> QED BY <1>1, <2>1 DEF MinOf
<1>3. m.prev = next - 1 /\ m.entries = SubSeq(c.rd.log, next, last)
  BY DEF AppendEntries
<1>4. m \in AppMsg
  BY AppendEntriesMsgType
<1>5. m.entries \in Seq(Entry) /\ m.prev \in Nat
  BY <1>4 DEF AppMsg
<1> HIDE DEF next, last, m
<1>6. \A i \in 1..Len(m.entries) :
        next - 1 + i \in 1..Len(c.rd.log) /\ m.entries[i] = c.rd.log[next - 1 + i]
  BY <1>1, <1>2, <1>3
<1> QED BY <1>1, <1>3, <1>5, <1>6 DEF m

LEMMA RequestLinks ==
  ASSUME TypeOK, NEW c \in calls, NEW p \in Server
  PROVE  MsgLinks(AppendEntries(c, p)) \subseteq LogLinks(c.rd.log)
<1> DEFINE m == AppendEntries(c, p)
           l == c.rd.log
<1>1. /\ l \in Seq(Entry) /\ m.entries \in Seq(Entry) /\ m.prev \in Nat
      /\ \A i \in 1..Len(m.entries) :
           m.prev + i \in 1..Len(l) /\ m.entries[i] = l[m.prev + i]
  BY RequestSlice
<1>2. m.prev = c.rd.next[p] - 1 /\ m.prevTerm = TermAt(l, c.rd.next[p] - 1)
  BY DEF AppendEntries
<1>3. m.prevTerm = TermAt(l, m.prev)
  BY <1>2
<1> HIDE DEF m, l
<1> DEFINE before(i) == IF i > 1 THEN m.entries[i - 1].term
                        ELSE IF m.prev > 0 THEN m.prevTerm ELSE 0
<1>4. ASSUME NEW i \in 1..Len(m.entries)
      PROVE  before(i) = TermAt(l, (m.prev + i) - 1)
  <2>1. CASE i > 1
    <3>0. Len(m.entries) \in Nat /\ m.prev \in Nat
      BY <1>1
    <3>1. i - 1 \in 1..Len(m.entries) /\ m.prev + (i - 1) = (m.prev + i) - 1
      BY <2>1, <3>0
    <3>2. m.prev + (i - 1) \in 1..Len(l) /\ m.entries[i - 1] = l[m.prev + (i - 1)]
      BY <1>1, <3>1
    <3> QED BY <2>1, <3>1, <3>2 DEF TermAt
  <2>2. CASE i = 1
    <3>1. (m.prev + i) - 1 = m.prev
      BY <1>1, <2>2
    <3> QED BY <1>1, <1>3, <2>2, <3>1 DEF TermAt
  <2> QED BY <2>1, <2>2
<1>5. MsgLinks(m) = {Link(m.prev + i, m.entries[i], before(i)) : i \in 1..Len(m.entries)}
  BY DEF MsgLinks
<1> HIDE DEF before
<1>6. ASSUME NEW i \in 1..Len(m.entries)
      PROVE  Link(m.prev + i, m.entries[i], before(i)) \in LogLinks(l)
  BY <1>1, <1>4 DEF LogLinks
<1> QED BY <1>5, <1>6 DEF m, l

(***************************************************************************)
(* Where calls, ticks and late requests come from.                         *)
(***************************************************************************)

\* A round goes on, is over, or starts as a copy of its leader's log.
CallKept(d) ==
  \/ d.rd.log = <<>> /\ d.rd.todo = {}
  \/ \E c \in calls : /\ d.node = c.node /\ d.rd.log = c.rd.log
                      /\ d.rd.term = c.rd.term /\ d.rd.todo \subseteq c.rd.todo
  \/ /\ d.node \in Server /\ role[d.node] = Leader
     /\ d.rd.log = log[d.node] /\ d.rd.term = currentTerm[d.node]
     /\ d.rd.todo = Peers(d.node)

TickKept(j) ==
  \/ \E k \in ticks : j.node = k.node /\ j.term = k.term /\ j.todo \subseteq k.todo
  \/ /\ j.node \in Server /\ role[j.node] = Leader
     /\ j.term = currentTerm[j.node] /\ j.todo = Peers(j.node)

\* A request is sent by a tick or a call to a peer on its list.
SentAppend(m) == \E c \in calls : \E p \in c.rd.todo : m = AppendEntries(c, p)
SentBeat(m)   == \E k \in ticks : \E p \in k.todo : m = Heartbeat(k, p)

LateKept(m) == m \in late \/ m.type = "vote" \/ SentBeat(m) \/ SentAppend(m)

RequestsKept ==
  /\ \A d \in calls' : CallKept(d)
  /\ \A j \in ticks' : TickKept(j)
  /\ \A m \in late' : LateKept(m)

\* A node merges the entries of a request on its way to it.
OnItsWay(m) == m \in AppMsg /\ (m \in late \/ SentAppend(m))

Merges(p, m) == OnItsWay(m) /\ m.to = p /\ OnAppendEntries(p, m)

LEMMA SameCalls ==
  ASSUME UNCHANGED calls PROVE \A d \in calls' : CallKept(d)
  BY DEF CallKept

LEMMA SameTicks ==
  ASSUME ticks' \subseteq ticks PROVE \A j \in ticks' : TickKept(j)
  BY DEF TickKept

LEMMA SameLate ==
  ASSUME late' \subseteq late PROVE \A m \in late' : LateKept(m)
  BY DEF LateKept

LEMMA ContinueKept ==
  ASSUME NEW c \in calls, NEW next, Continue(c, next), \A d \in next : CallKept(d)
  PROVE  \A d \in calls' : CallKept(d)
<1>1. \A d \in calls : CallKept(d)
  BY DEF CallKept
<1> QED BY <1>1 DEF Continue

LEMMA ReturnedKept ==
  ASSUME TypeOK, NEW c \in calls PROVE \A d \in Returned(c) : CallKept(d)
<1>1. c \in Call
  BY CallFields
<1> DEFINE d == [c EXCEPT !.phase = "check", !.tries = 0, !.rd = NoRound]
<1>2. d.rd = NoRound
  BY <1>1 DEF Call
<1>3. NoRound.log = <<>> /\ NoRound.todo = {}
  BY DEF NoRound
<1> HIDE DEF d
<1>4. CallKept(d)
  BY <1>2, <1>3 DEF CallKept
<1> QED BY <1>4 DEF Returned, d

LEMMA ElectionRequests ==
  ASSUME TypeOK, NEW n \in Server, ElectionStep(n)
  PROVE  RequestsKept /\ UNCHANGED log
<1>1. UNCHANGED <<calls, ticks, log>>
  BY DEF ElectionStep, SendVoteRequest, VoteRequestFails, ElectionDeposed, ElectionOvertaken,
         ElectionWon, ElectionLost, EndElection, OnRequestVote, logVars, callVars
<1>2. \A m \in late' : LateKept(m)
  <2>1. CASE UNCHANGED late
    BY <2>1, SameLate
  <2>2. ASSUME NEW p \in Peers(n), VoteRequestFails(n, p) PROVE \A m \in late' : LateKept(m)
    <3>1. VoteRequest(n, p).type = "vote"
      BY DEF VoteRequest
    <3> QED BY <2>2, <3>1 DEF VoteRequestFails, TimesOut, LateKept
  <2> QED BY <2>1, <2>2 DEF ElectionStep, SendVoteRequest, ElectionDeposed, ElectionOvertaken,
             ElectionWon, ElectionLost, EndElection
<1> QED BY <1>1, <1>2, SameCalls, SameTicks DEF RequestsKept

LEMMA HeartbeatRequests ==
  ASSUME TypeOK, NEW k \in ticks, HeartbeatStep(k)
  PROVE  RequestsKept /\ UNCHANGED log
<1>0. k \in Tick
  BY DEF TypeOK, CallTypeOK
<1>1. UNCHANGED log
  BY DEF HeartbeatStep, SendHeartbeat, HeartbeatFails, HeartbeatStale, HeartbeatDeposed,
         HeartbeatDone, CheckQuorumStepDown, RecordHeartbeats, OnHeartbeat, logVars
<1>2. ASSUME NEW p, NEW r, TallyHeartbeat(k, p, r) PROVE \A j \in ticks' : TickKept(j)
  <2> DEFINE t == [k EXCEPT !.todo = @ \ {p},
                     !.acks = IF r.ok /\ r.term = k.term THEN @ \cup {p} ELSE @,
                     !.last[p] = IF r.ok /\ r.term = k.term THEN r.last ELSE @,
                     !.maxTerm = MaxOf(@, r.term)]
  <2>1. t.node = k.node /\ t.term = k.term /\ t.todo \subseteq k.todo
    BY <1>0 DEF Tick
  <2>2. ticks' = (ticks \ {k}) \cup {t}
    BY <1>2 DEF TallyHeartbeat
  <2> HIDE DEF t
  <2> QED BY <2>1, <2>2 DEF TickKept
<1>3. \A j \in ticks' : TickKept(j)
  <2>1. CASE ticks' \subseteq ticks
    BY <2>1, SameTicks
  <2> QED BY <1>2, <2>1 DEF HeartbeatStep, SendHeartbeat, HeartbeatFails, HeartbeatStale,
             HeartbeatDeposed, HeartbeatDone, CheckQuorumStepDown, RecordHeartbeats
<1>4. \A m \in late' : LateKept(m)
  <2>1. CASE UNCHANGED late
    BY <2>1, SameLate
  <2>2. ASSUME NEW p \in k.todo, HeartbeatFails(k, p) PROVE \A m \in late' : LateKept(m)
    BY <2>2 DEF HeartbeatFails, TimesOut, LateKept, SentBeat
  <2> QED BY <2>1, <2>2 DEF HeartbeatStep, SendHeartbeat, HeartbeatStale, HeartbeatDeposed,
             HeartbeatDone, CheckQuorumStepDown, RecordHeartbeats
<1>5. \A d \in calls' : CallKept(d)
  <2>1. CASE UNCHANGED calls
    BY <2>1, SameCalls
  <2>2. CASE HeartbeatDone(k)
    <3> DEFINE d == NewCall(k.node, "catchup", k.term, {})
    <3>1. CallKept(d)
      BY DEF NewCall, NoRound, CallKept
    <3>2. calls' \subseteq calls \cup {d}
      BY <2>2 DEF HeartbeatDone
    <3> HIDE DEF d
    <3>3. \A e \in calls : CallKept(e)
      BY DEF CallKept
    <3> QED BY <3>1, <3>2, <3>3
  <2> QED BY <2>1, <2>2 DEF HeartbeatStep, SendHeartbeat, HeartbeatFails, HeartbeatStale,
             HeartbeatDeposed, CheckQuorumStepDown
<1> QED BY <1>1, <1>3, <1>4, <1>5 DEF RequestsKept

LEMMA ReplicateRequests ==
  ASSUME TypeOK, NEW c \in calls, ReplicateStep(c)
  PROVE  /\ RequestsKept
         /\ UNCHANGED log \/ \E p \in Server, m \in AppMsg : Merges(p, m)
<1>0. c \in Call /\ c.node \in Server /\ c.rd \in Round /\ c.rd.todo \in SUBSET Server
  BY CallFields DEF Round
<1>1. ASSUME NEW p \in c.rd.todo, NEW r, TallyAppend(c, p, r)
      PROVE  \A d \in calls' : CallKept(d)
  <2> DEFINE rd == WithAnswer(c.rd, p, r)
             e == [c EXCEPT !.rd = rd]
  <2>1. rd.log = c.rd.log /\ rd.term = c.rd.term /\ rd.todo \subseteq c.rd.todo
    BY <1>0 DEF WithAnswer, Round
  <2> HIDE DEF rd
  <2>2. e.rd = rd /\ e.node = c.node
    BY <1>0 DEF Call
  <2> HIDE DEF e
  <2>3. CallKept(e)
    BY <2>1, <2>2 DEF CallKept
  <2>4. Continue(c, {e})
    BY <1>1 DEF TallyAppend, rd, e
  <2> QED BY <2>3, <2>4, ContinueKept
<1>2. \A d \in calls' : CallKept(d)
  <2>1. CASE Continue(c, Returned(c)) \/ Continue(c, {})
    BY <2>1, ReturnedKept, ContinueKept
  <2>2. CASE ReplicateRound(c)
    <3> DEFINE rd == [NoRound EXCEPT !.term = currentTerm[c.node], !.log = log[c.node],
                        !.next = peerNext[c.node], !.todo = Peers(c.node),
                        !.maxTerm = currentTerm[c.node]]
               e == [c EXCEPT !.phase = "send", !.rd = rd]
    <3>1. /\ rd.log = log[c.node] /\ rd.term = currentTerm[c.node]
          /\ rd.todo = Peers(c.node)
      BY DEF NoRound
    <3> HIDE DEF rd
    <3>2. e.rd = rd /\ e.node = c.node
      BY <1>0 DEF Call
    <3> HIDE DEF e
    <3>3. CallKept(e)
      BY <1>0, <2>2, <3>1, <3>2 DEF CallKept, ReplicateRound
    <3>4. Continue(c, {e})
      BY <2>2 DEF ReplicateRound, rd, e
    <3> QED BY <3>3, <3>4, ContinueKept
  <2>3. ASSUME NEW p \in c.rd.todo, SendAppendEntries(c, p) \/ AppendEntriesFails(c, p)
        PROVE  \A d \in calls' : CallKept(d)
    BY <1>1, <2>3 DEF SendAppendEntries, AppendEntriesFails
  <2>4. ASSUME NEW p \in c.rd.todo, SkipPeer(c, p) PROVE \A d \in calls' : CallKept(d)
    <3> DEFINE e == [c EXCEPT !.rd.todo = @ \ {p}]
    <3>1. /\ e.node = c.node /\ e.rd.log = c.rd.log /\ e.rd.term = c.rd.term
          /\ e.rd.todo \subseteq c.rd.todo
      BY <1>0 DEF Call, Round
    <3> HIDE DEF e
    <3>2. CallKept(e)
      BY <3>1 DEF CallKept
    <3>3. Continue(c, {e})
      BY <2>4 DEF SkipPeer, e
    <3> QED BY <3>2, <3>3, ContinueKept
  <2>5. CASE ReplicateDone(c)
    <3> DEFINE e == [c EXCEPT !.phase = "start", !.tries = @ + 1, !.rd = NoRound]
    <3>1. e.rd.log = <<>> /\ e.rd.todo = {}
      BY <1>0 DEF Call, NoRound
    <3> HIDE DEF e
    <3>2. CallKept(e)
      BY <3>1 DEF CallKept
    <3>3. Continue(c, {e}) \/ Continue(c, Returned(c))
      BY <2>5 DEF ReplicateDone, e
    <3> QED BY <2>1, <3>2, <3>3, ContinueKept
  <2>6. CASE CoordinatorCheck(c)
    <3> DEFINE e == [c EXCEPT !.phase = "start", !.iter = @ + 1]
    <3>1. e.rd = c.rd /\ e.node = c.node
      BY <1>0 DEF Call
    <3> HIDE DEF e
    <3>2. CallKept(e)
      BY <3>1 DEF CallKept
    <3>3. Continue(c, {e}) \/ Continue(c, {})
      BY <2>6 DEF CoordinatorCheck, e
    <3> QED BY <2>1, <3>2, <3>3, ContinueKept
  <2> QED BY <2>1, <2>2, <2>3, <2>4, <2>5, <2>6
          DEF ReplicateStep, NotLeaderReturn, ReplicateDeposed, ReplicateOvertaken
<1>3. \A j \in ticks' : TickKept(j)
  <2>1. UNCHANGED ticks
    BY DEF ReplicateStep, NotLeaderReturn, ReplicateRound, SendAppendEntries,
       AppendEntriesFails, SkipPeer, ReplicateDeposed, ReplicateOvertaken, ReplicateDone,
       CoordinatorCheck
  <2> QED BY <2>1, SameTicks
<1>4. \A m \in late' : LateKept(m)
  <2>1. CASE UNCHANGED late
    BY <2>1, SameLate
  <2>2. ASSUME NEW p \in c.rd.todo, AppendEntriesFails(c, p)
        PROVE  \A m \in late' : LateKept(m)
    BY <2>2 DEF AppendEntriesFails, TimesOut, LateKept, SentAppend
  <2> QED BY <2>1, <2>2 DEF ReplicateStep, NotLeaderReturn, ReplicateRound,
       SendAppendEntries, SkipPeer, ReplicateDeposed, ReplicateOvertaken, ReplicateDone,
       CoordinatorCheck
<1>5. UNCHANGED log \/ \E p \in Server, m \in AppMsg : Merges(p, m)
  <2>1. ASSUME NEW p \in c.rd.todo, SendAppendEntries(c, p)
        PROVE  \E q \in Server, m \in AppMsg : Merges(q, m)
    <3> DEFINE m == AppendEntries(c, p)
    <3>1. p \in Server /\ m \in AppMsg /\ m.to = p
      BY <1>0, AppendEntriesMsgType DEF AppendEntries
    <3>2. OnAppendEntries(p, m) /\ SentAppend(m)
      BY <2>1 DEF SendAppendEntries, SentAppend
    <3> HIDE DEF m
    <3> QED BY <3>1, <3>2 DEF Merges, OnItsWay
  <2> QED BY <2>1 DEF ReplicateStep, NotLeaderReturn, ReplicateRound,
       AppendEntriesFails, SkipPeer, ReplicateDeposed, ReplicateOvertaken, ReplicateDone,
       CoordinatorCheck, logVars
<1> QED BY <1>2, <1>3, <1>4, <1>5 DEF RequestsKept

\* Every step, as the logs and the requests see it.
LEMMA LogStepKinds ==
  ASSUME TypeOK, Next
  PROVE  /\ RequestsKept
         /\ \/ UNCHANGED log
            \/ \E p \in Server, m \in AppMsg : Merges(p, m)
            \/ \E n \in Server, v \in Value : SubmitEntry(n, v)
<1> DEFINE Kind == /\ RequestsKept
                   /\ \/ UNCHANGED log
                      \/ \E p \in Server, m \in AppMsg : Merges(p, m)
                      \/ \E n \in Server, v \in Value : SubmitEntry(n, v)
<1> SUFFICES Kind
  OBVIOUS
<1>1. ASSUME NEW n \in Server, StartElection(n) PROVE Kind
  BY <1>1, SameCalls, SameTicks, SameLate DEF StartElection, callVars, logVars, RequestsKept
<1>2. ASSUME NEW n \in Server, HeartbeatTick(n) PROVE Kind
  <2> DEFINE k == [node |-> n, term |-> currentTerm[n], commit |-> commitIndex[n],
                   todo |-> Peers(n), acks |-> {}, last |-> [p \in Server |-> 0],
                   maxTerm |-> currentTerm[n]]
  <2>1. role[n] = Leader /\ ticks' = ticks \cup {k}
    BY <1>2 DEF HeartbeatTick
  <2>2. TickKept(k)
    BY <2>1 DEF TickKept
  <2>3. \A j \in ticks : TickKept(j)
    BY DEF TickKept
  <2> HIDE DEF k
  <2> QED BY <1>2, <2>1, <2>2, <2>3, SameCalls, SameLate
          DEF HeartbeatTick, logVars, RequestsKept
<1>3. ASSUME NEW n \in Server, NEW v \in Value, SubmitEntry(n, v) PROVE Kind
  BY <1>3, SameCalls, SameTicks, SameLate DEF SubmitEntry, RequestsKept
<1>4. ASSUME NEW n \in Server, NEW batch \in SUBSET waiting, CoordinatorCommit(n, batch)
      PROVE  Kind
  <2> DEFINE d == NewCall(n, "write", 0, batch)
  <2>1. calls' = calls \cup {d}
    BY <1>4 DEF CoordinatorCommit
  <2>2. CallKept(d)
    BY DEF NewCall, NoRound, CallKept
  <2>3. \A e \in calls : CallKept(e)
    BY DEF CallKept
  <2> HIDE DEF d
  <2> QED BY <1>4, <2>1, <2>2, <2>3, SameTicks, SameLate
          DEF CoordinatorCommit, logVars, RequestsKept
<1>5. ASSUME NEW m \in late, HandleLate(m) PROVE Kind
  <2>1. RequestsKept
    BY <1>5, SameCalls, SameTicks, SameLate DEF HandleLate, callVars, RequestsKept
  <2>2. CASE m.type = "append" /\ OnAppendEntries(m.to, m)
    <3>1. m \in AppMsg /\ m.to \in Server
      BY <2>2 DEF TypeOK, CallTypeOK, VoteMsg, BeatMsg, AppMsg
    <3> QED BY <2>1, <2>2, <3>1 DEF Merges, OnItsWay
  <2>3. CASE OnRequestVote(m.to, m) \/ OnHeartbeat(m.to, m)
    BY <2>1, <2>3 DEF OnRequestVote, OnHeartbeat, logVars
  <2> QED BY <1>5, <2>2, <2>3 DEF HandleLate
<1>6. ASSUME NEW n \in Server, Restart(n) PROVE Kind
  <2>1. calls' \subseteq calls /\ ticks' \subseteq ticks /\ UNCHANGED <<log, late>>
    BY <1>6 DEF Restart
  <2>2. \A d \in calls' : CallKept(d)
    BY <2>1 DEF CallKept
  <2> QED BY <2>1, <2>2, SameTicks, SameLate DEF RequestsKept
<1> QED BY <1>1, <1>2, <1>3, <1>4, <1>5, <1>6, ElectionRequests, HeartbeatRequests,
           ReplicateRequests DEF Next

(***************************************************************************)
(* Whatever speaks for a leader was made by one.                           *)
(***************************************************************************)
LEMMA LeaderChanges ==
  ASSUME TypeOK, TypeOK', Next
  PROVE  /\ leaders \subseteq leaders'
         /\ \A n \in Server : role'[n] = Leader =>
              \/ role[n] = Leader /\ currentTerm'[n] = currentTerm[n]
              \/ <<currentTerm'[n], n>> \in leaders'
<1> DEFINE P == /\ leaders \subseteq leaders'
                /\ \A n \in Server : role'[n] = Leader =>
                     \/ role[n] = Leader /\ currentTerm'[n] = currentTerm[n]
                     \/ <<currentTerm'[n], n>> \in leaders'
<1>1. ASSUME NEW p \in Server, Demotes(p), leaders' = leaders PROVE P
  <2>1. \A n \in Server \ {p} : role'[n] = role[n] /\ currentTerm'[n] = currentTerm[n]
    BY <1>1 DEF Demotes, TypeOK, NodeTypeOK
  <2>2. role'[p] = Leader => role[p] = Leader /\ currentTerm'[p] = currentTerm[p]
    BY <1>1 DEF Demotes
  <2> QED BY <1>1, <2>1, <2>2
<1>2. CASE Quiet
  BY <1>1, <1>2 DEF Quiet
<1>3. ASSUME NEW n \in Server, StartElection(n) PROVE P
  <2>1. leaders' = leaders
    BY <1>3 DEF StartElection
  <2>2. /\ currentTerm' = [currentTerm EXCEPT ![n] = currentTerm[n] + 1]
        /\ role' = [role EXCEPT ![n] = Candidate]
    BY <1>3 DEF StartElection, BecomeCandidate
  <2>3. \A q \in Server : role'[q] = Leader =>
          role[q] = Leader /\ currentTerm'[q] = currentTerm[q]
    BY <2>2 DEF TypeOK, NodeTypeOK
  <2> QED BY <2>1, <2>3
<1>4. ASSUME NEW n \in Server, ElectionWon(n) PROVE P
  BY <1>4 DEF ElectionWon, BecomeLeader, hardState, TypeOK, NodeTypeOK
<1>5. ASSUME NEW p \in Server, NEW m \in VoteMsg, VoteStep(p, m) PROVE P
  BY <1>1, <1>5, RequestVoteMoves DEF VoteStep, OnRequestVote
<1> QED BY <1>2, <1>3, <1>4, <1>5, StepKinds

LEMMA SpokenStep ==
  ASSUME TypeOK, TypeOK', SpokenByLeaders, Next
  PROVE  SpokenByLeaders'
<1>1. RequestsKept
  BY LogStepKinds
<1>2. leaders \subseteq leaders'
  BY LeaderChanges
<1>3. \A n \in Server : n \notin Peers(n)
  BY DEF Peers
<1>4. ASSUME NEW n \in Server, role'[n] = Leader PROVE <<currentTerm'[n], n>> \in leaders'
  BY <1>2, <1>4, LeaderChanges DEF SpokenByLeaders
<1>5. ASSUME NEW j \in ticks' PROVE <<j.term, j.node>> \in leaders' /\ j.node \notin j.todo
  BY <1>1, <1>2, <1>3 DEF RequestsKept, TickKept, SpokenByLeaders
<1>6. ASSUME NEW d \in calls', d.rd.todo # {}
      PROVE  <<d.rd.term, d.node>> \in leaders' /\ d.node \notin d.rd.todo
  <2>1. CallKept(d)
    BY <1>1 DEF RequestsKept
  <2> QED BY <1>2, <1>3, <1>6, <2>1 DEF CallKept, SpokenByLeaders
<1>7. ASSUME NEW m \in late', m.type # "vote"
      PROVE  <<m.term, m.from>> \in leaders' /\ m.from # m.to
  <2>1. CASE m \in late
    BY <1>2, <1>7, <2>1 DEF SpokenByLeaders
  <2>2. CASE SentBeat(m)
    <3>0. PICK k \in ticks : \E p \in k.todo : m = Heartbeat(k, p)
      BY <2>2 DEF SentBeat
    <3>1. PICK p \in k.todo : m = Heartbeat(k, p)
      BY <3>0
    <3>2. m.term = k.term /\ m.from = k.node /\ m.to = p
      BY <3>1 DEF Heartbeat
    <3> QED BY <1>2, <3>2 DEF SpokenByLeaders
  <2>3. CASE SentAppend(m)
    <3>0. PICK c \in calls : \E p \in c.rd.todo : m = AppendEntries(c, p)
      BY <2>3 DEF SentAppend
    <3>1. PICK p \in c.rd.todo : m = AppendEntries(c, p)
      BY <3>0
    <3>2. m.term = c.rd.term /\ m.from = c.node /\ m.to = p
      BY <3>1 DEF AppendEntries
    <3> QED BY <1>2, <3>2 DEF SpokenByLeaders
  <2> QED BY <1>1, <1>7, <2>1, <2>2, <2>3 DEF RequestsKept, LateKept
<1> QED BY <1>4, <1>5, <1>6, <1>7 DEF SpokenByLeaders

(***************************************************************************)
(* A request on its way was sent by a leader of its term and carries links *)
(* that are known.                                                         *)
(***************************************************************************)
LEMMA RequestOrigin ==
  ASSUME TypeOK, SpokenByLeaders, NEW m, OnItsWay(m)
  PROVE  <<m.term, m.from>> \in leaders /\ m.from # m.to
<1>1. CASE m \in late
  BY <1>1 DEF OnItsWay, AppMsg, SpokenByLeaders
<1>2. CASE SentAppend(m)
  <2>0. PICK c \in calls : \E p \in c.rd.todo : m = AppendEntries(c, p)
    BY <1>2 DEF SentAppend
  <2>1. PICK p \in c.rd.todo : m = AppendEntries(c, p)
    BY <2>0
  <2>2. m.term = c.rd.term /\ m.from = c.node /\ m.to = p
    BY <2>1 DEF AppendEntries
  <2> QED BY <2>2 DEF SpokenByLeaders
<1> QED BY <1>1, <1>2 DEF OnItsWay

LEMMA RequestTerms ==
  ASSUME TypeOK, TermsBounded, NEW m, OnItsWay(m)
  PROVE  TermsBelow(m.entries, m.term)
<1>1. CASE m \in late
  BY <1>1 DEF OnItsWay, AppMsg, TermsBounded
<1>2. CASE SentAppend(m)
  <2>0. PICK c \in calls : \E p \in c.rd.todo : m = AppendEntries(c, p)
    BY <1>2 DEF SentAppend
  <2>1. PICK p \in c.rd.todo : m = AppendEntries(c, p)
    BY <2>0
  <2>2. p \in Server /\ m.term = c.rd.term
    BY <2>1, CallFields DEF AppendEntries, Round
  <2>3. \A i \in 1..Len(m.entries) :
          m.prev + i \in 1..Len(c.rd.log) /\ m.entries[i] = c.rd.log[m.prev + i]
    BY <2>1, <2>2, RequestSlice
  <2> QED BY <2>2, <2>3 DEF TermsBounded, TermsBelow
<1> QED BY <1>1, <1>2 DEF OnItsWay

LEMMA RequestLinksKnown ==
  ASSUME TypeOK, NEW m, OnItsWay(m)
  PROVE  MsgLinks(m) \subseteq Links
<1>1. CASE m \in late
  <2>1. m.type = "append"
    BY DEF OnItsWay, AppMsg
  <2> QED BY <1>1, <2>1 DEF Links
<1>2. CASE SentAppend(m)
  <2>0. PICK c \in calls : \E p \in c.rd.todo : m = AppendEntries(c, p)
    BY <1>2 DEF SentAppend
  <2>1. PICK p \in c.rd.todo : m = AppendEntries(c, p)
    BY <2>0
  <2>2. p \in Server
    BY <2>1, CallFields DEF Round
  <2>3. MsgLinks(m) \subseteq LogLinks(c.rd.log)
    BY <2>1, <2>2, RequestLinks
  <2>4. LogLinks(c.rd.log) \subseteq Links
    BY DEF Links
  <2> QED BY <2>3, <2>4
<1> QED BY <1>1, <1>2 DEF OnItsWay

(***************************************************************************)
(* The log of a leader is not merged into while it is in its term.         *)
(***************************************************************************)
LEMMA MergeEffect ==
  ASSUME TypeOK, NEW p \in Server, NEW m \in AppMsg, Merges(p, m)
  PROVE  /\ \A n \in Server \ {p} : log'[n] = log[n] /\ currentTerm'[n] = currentTerm[n]
         /\ \/ log'[p] = log[p] /\ currentTerm'[p] >= currentTerm[p]
            \/ /\ AcceptsEntries(p, m) /\ currentTerm'[p] = m.term
               /\ log'[p] = MergedLog(log[p], m)
<1>1. m.term \in Nat /\ currentTerm[p] \in Nat
  BY DEF AppMsg, TypeOK, NodeTypeOK
<1>2. currentTerm' = [currentTerm EXCEPT ![p] = MaxOf(m.term, currentTerm[p])]
  <2>1. CASE m.term > currentTerm[p]
    BY <1>1, <2>1 DEF Merges, OnAppendEntries, FollowsSender, BecomeFollower, MaxOf
  <2>2. CASE ~(m.term > currentTerm[p])
    <3>1. currentTerm' = currentTerm
      BY <2>2 DEF Merges, OnAppendEntries, FollowsSender, hardState
    <3> QED BY <1>1, <2>2, <3>1 DEF MaxOf, TypeOK, NodeTypeOK
  <2> QED BY <2>1, <2>2
<1>3. log' = [log EXCEPT ![p] = IF AcceptsEntries(p, m) THEN MergedLog(log[p], m) ELSE log[p]]
  BY DEF Merges, OnAppendEntries
<1>4. /\ currentTerm'[p] = MaxOf(m.term, currentTerm[p])
      /\ log'[p] = IF AcceptsEntries(p, m) THEN MergedLog(log[p], m) ELSE log[p]
      /\ \A n \in Server \ {p} : log'[n] = log[n] /\ currentTerm'[n] = currentTerm[n]
  BY <1>2, <1>3 DEF TypeOK, NodeTypeOK
<1>5. AcceptsEntries(p, m) => m.term >= currentTerm[p]
  BY DEF AcceptsEntries
<1> QED BY <1>1, <1>4, <1>5 DEF MaxOf

LEMMA LeaderLogKept ==
  ASSUME TypeOK, ElectionInv, SpokenByLeaders, NEW p \in Server, NEW m \in AppMsg,
         Merges(p, m), <<currentTerm'[p], p>> \in leaders
  PROVE  log'[p] = log[p]
<1> SUFFICES ASSUME AcceptsEntries(p, m), currentTerm'[p] = m.term PROVE FALSE
  BY MergeEffect
<1>1. <<m.term, p>> \in leaders /\ <<m.term, m.from>> \in leaders /\ m.from # p
  BY RequestOrigin DEF Merges
<1> QED BY <1>1, ElectionInvSafe DEF ElectionSafety

(***************************************************************************)
(* Terms.                                                                  *)
(***************************************************************************)
LEMMA MergedTerms ==
  ASSUME NEW l \in Seq(Entry), NEW m \in AppMsg, m.prev <= Len(l), NEW t \in Nat,
         TermsBelow(l, t), TermsBelow(m.entries, t)
  PROVE  TermsBelow(MergedLog(l, m), t)
<1> DEFINE tail == m.prev + Len(m.entries)
           kept(i) == /\ i <= Len(l)
                      /\ \A j \in (m.prev + 1)..i :
                           l[j].term = m.entries[j - m.prev].term
           merged == [i \in 1..tail |-> IF kept(i) THEN l[i]
                                        ELSE m.entries[i - m.prev]]
<1>1. m.prev \in Nat /\ m.entries \in Seq(Entry) /\ tail \in Nat /\ Len(l) \in Nat
  BY DEF AppMsg
<1>2. CASE m.entries = <<>>
  BY <1>2 DEF MergedLog
<1>3. CASE m.entries # <<>>
  <2>1. MergedLog(l, m) = merged
    BY <1>3 DEF MergedLog
  <2>2. merged \in Seq(Entry)
    BY <2>1, MergedLogType
  <2>3. Len(merged) = tail
    BY <1>1, <2>2
  <2>4. ASSUME NEW i \in 1..tail PROVE merged[i].term <= t
    <3>1. CASE kept(i)
      BY <1>1, <3>1 DEF TermsBelow
    <3>2. CASE ~kept(i)
      <4>1. i - m.prev \in 1..Len(m.entries)
        BY <1>1, <3>2
      <4> QED BY <3>2, <4>1 DEF TermsBelow
    <3> QED BY <3>1, <3>2
  <2> HIDE DEF merged
  <2> QED BY <2>1, <2>3, <2>4 DEF TermsBelow
<1> QED BY <1>2, <1>3

LEMMA TermsBelowRise ==
  ASSUME NEW l \in Seq(Entry), NEW s \in Nat, NEW t \in Nat, s <= t, TermsBelow(l, s)
  PROVE  TermsBelow(l, t)
<1> SUFFICES ASSUME NEW i \in 1..Len(l) PROVE l[i].term <= t
  BY DEF TermsBelow
<1>1. l[i].term \in Nat /\ l[i].term <= s
  BY EntryFields DEF TermsBelow
<1> QED BY <1>1

LEMMA TermsStep ==
  ASSUME TypeOK, TypeOK', TermsBounded, Next
  PROVE  TermsBounded'
<1>1. RequestsKept
  BY LogStepKinds
<1>2. \A n \in Server : /\ log[n] \in Seq(Entry) /\ log'[n] \in Seq(Entry)
                        /\ currentTerm[n] \in Nat /\ currentTerm'[n] \in Nat
                        /\ currentTerm'[n] >= currentTerm[n]
  BY VotesKeptStep DEF VotesKept, TypeOK, NodeTypeOK
<1>3. ASSUME NEW n \in Server, log'[n] = log[n] PROVE TermsBelow(log'[n], currentTerm'[n])
  BY <1>2, <1>3, TermsBelowRise DEF TermsBounded
<1>4. ASSUME NEW n \in Server PROVE TermsBelow(log'[n], currentTerm'[n])
  <2>1. CASE UNCHANGED log
    BY <1>3, <2>1
  <2>2. ASSUME NEW p \in Server, NEW m \in AppMsg, Merges(p, m)
        PROVE  TermsBelow(log'[n], currentTerm'[n])
    <3>1. CASE log'[n] = log[n]
      BY <1>3, <3>1
    <3>2. CASE log'[n] # log[n]
      <4>1. n = p /\ AcceptsEntries(p, m) /\ currentTerm'[p] = m.term
            /\ log'[p] = MergedLog(log[p], m)
        BY <2>2, <3>2, MergeEffect
      <4>2. TermsBelow(m.entries, m.term) /\ TermsBelow(log[p], m.term)
        BY <1>2, <2>2, <4>1, RequestTerms, TermsBelowRise DEF Merges, TermsBounded
      <4>3. m.prev <= Len(log[p]) /\ m.term \in Nat
        BY <4>1 DEF AcceptsEntries, PrevMatches, AppMsg
      <4> QED BY <1>2, <4>1, <4>2, <4>3, MergedTerms
    <3> QED BY <3>1, <3>2
  <2>3. ASSUME NEW q \in Server, NEW v \in Value, SubmitEntry(q, v)
        PROVE  TermsBelow(log'[n], currentTerm'[n])
    <3>1. CASE n # q
      BY <1>3, <2>3, <3>1 DEF SubmitEntry, TypeOK, NodeTypeOK
    <3>2. CASE n = q
      <4> DEFINE e == [term |-> currentTerm[q], val |-> v]
      <4>1. log'[q] = Append(log[q], e) /\ currentTerm'[q] = currentTerm[q]
        BY <2>3 DEF SubmitEntry, hardState, TypeOK, NodeTypeOK
      <4>2. e.term = currentTerm[q]
        OBVIOUS
      <4>3. TermsBelow(log[q], currentTerm[q])
        BY DEF TermsBounded
      <4> HIDE DEF e
      <4> QED BY <1>2, <3>2, <4>1, <4>2, <4>3 DEF TermsBelow
    <3> QED BY <3>1, <3>2
  <2> QED BY <2>1, <2>2, <2>3, LogStepKinds
<1>5. ASSUME NEW d \in calls' PROVE TermsBelow(d.rd.log, d.rd.term)
  <2>1. CallKept(d)
    BY <1>1 DEF RequestsKept
  <2>2. CASE d.rd.log = <<>>
    BY <2>2 DEF TermsBelow
  <2> QED BY <2>1, <2>2 DEF CallKept, TermsBounded
<1>6. ASSUME NEW m \in late', m.type = "append" PROVE TermsBelow(m.entries, m.term)
  <2>1. m \in AppMsg
    BY <1>6 DEF TypeOK, CallTypeOK, VoteMsg, BeatMsg, AppMsg
  <2>2. CASE m \in late \/ SentAppend(m)
    BY <2>1, <2>2, RequestTerms DEF OnItsWay
  <2>3. ~SentBeat(m)
    BY <1>6 DEF SentBeat, Heartbeat
  <2> QED BY <1>1, <1>6, <2>2, <2>3 DEF RequestsKept, LateKept
<1> QED BY <1>4, <1>5, <1>6 DEF TermsBounded

(***************************************************************************)
(* The links.                                                              *)
(***************************************************************************)
LEMMA LinkTypes ==
  ASSUME TypeOK, NEW a \in Links
  PROVE  a.index \in Nat /\ a.term \in Nat /\ a.before \in Nat
<1>1. ASSUME NEW l \in Seq(Entry), a \in LogLinks(l)
      PROVE  a.index \in Nat /\ a.term \in Nat /\ a.before \in Nat
  <2>1. PICK i \in 1..Len(l) : a = Link(i, l[i], TermAt(l, i - 1))
    BY <1>1 DEF LogLinks
  <2>0. Len(l) \in Nat
    OBVIOUS
  <2>2. l[i].term \in Nat /\ i \in Nat /\ i - 1 \in Int
    <3>1. l[i].term \in Nat
      BY EntryFields
    <3> QED BY <2>0, <3>1
  <2>3. TermAt(l, i - 1) \in Nat
    BY <2>2, TermAtType
  <2> QED BY <2>1, <2>2, <2>3 DEF Link
<1>2. ASSUME NEW m \in AppMsg, a \in MsgLinks(m)
      PROVE  a.index \in Nat /\ a.term \in Nat /\ a.before \in Nat
  <2> DEFINE before(i) == IF i > 1 THEN m.entries[i - 1].term
                          ELSE IF m.prev > 0 THEN m.prevTerm ELSE 0
  <2>1. m.entries \in Seq(Entry) /\ m.prev \in Nat /\ m.prevTerm \in Nat
    BY DEF AppMsg
  <2>2. PICK i \in 1..Len(m.entries) : a = Link(m.prev + i, m.entries[i], before(i))
    BY <1>2 DEF MsgLinks
  <2>3. m.entries[i].term \in Nat /\ (i > 1 => m.entries[i - 1].term \in Nat)
    <3>1. i > 1 => i - 1 \in 1..Len(m.entries)
      BY <2>1
    <3> QED BY <2>1, <3>1, EntryFields
  <2>4. before(i) \in Nat /\ m.prev + i \in Nat
    BY <2>1, <2>3
  <2> HIDE DEF before
  <2> QED BY <2>2, <2>3, <2>4 DEF Link
<1>3. \/ \E n \in Server : a \in LogLinks(log[n])
      \/ \E c \in calls : a \in LogLinks(c.rd.log)
      \/ \E m \in late : m.type = "append" /\ a \in MsgLinks(m)
  BY DEF Links
<1>4. \A n \in Server : log[n] \in Seq(Entry)
  BY DEF TypeOK, NodeTypeOK
<1>5. \A c \in calls : c.rd.log \in Seq(Entry)
  BY CallFields DEF Round
<1>6. \A m \in late : m.type = "append" => m \in AppMsg
  BY DEF TypeOK, CallTypeOK, VoteMsg, BeatMsg, AppMsg
<1> QED BY <1>1, <1>2, <1>3, <1>4, <1>5, <1>6

LEMMA LinksOfLogs == \A n \in Server : LogLinks(log[n]) \subseteq Links
  BY DEF Links

\* New links appear in the logs first.
LEMMA LinksFrom ==
  ASSUME TypeOK, TypeOK', RequestsKept, NEW X,
         \A n \in Server : LogLinks(log'[n]) \subseteq Links \cup X
  PROVE  Links' \subseteq Links \cup X
<1>1. ASSUME NEW d \in calls' PROVE LogLinks(d.rd.log) \subseteq Links
  <2>1. CallKept(d)
    BY DEF RequestsKept
  <2>2. CASE d.rd.log = <<>>
    BY <2>2 DEF LogLinks
  <2>3. \A c \in calls : LogLinks(c.rd.log) \subseteq Links
    BY DEF Links
  <2> QED BY <2>1, <2>2, <2>3, LinksOfLogs DEF CallKept
<1>2. ASSUME NEW m \in late', m.type = "append" PROVE MsgLinks(m) \subseteq Links
  <2>1. m \in AppMsg
    BY <1>2 DEF TypeOK, CallTypeOK, VoteMsg, BeatMsg, AppMsg
  <2>2. ~SentBeat(m)
    BY <1>2 DEF SentBeat, Heartbeat
  <2>3. m \in late \/ SentAppend(m)
    BY <1>2, <2>2 DEF RequestsKept, LateKept
  <2> QED BY <2>1, <2>3, RequestLinksKnown DEF OnItsWay
<1> SUFFICES ASSUME NEW a \in Links' PROVE a \in Links \cup X
  OBVIOUS
<1>3. \/ \E n \in Server : a \in LogLinks(log'[n])
      \/ \E d \in calls' : a \in LogLinks(d.rd.log)
      \/ \E m \in late' : m.type = "append" /\ a \in MsgLinks(m)
  BY DEF Links
<1> QED BY <1>1, <1>2, <1>3

LEMMA LeaderLogGrows ==
  ASSUME TypeOK, TypeOK', ElectionInv, SpokenByLeaders, Next,
         NEW n \in Server, <<currentTerm'[n], n>> \in leaders
  PROVE  Len(log'[n]) >= Len(log[n])
<1>1. log[n] \in Seq(Entry) /\ Len(log[n]) \in Nat
  BY DEF TypeOK, NodeTypeOK
<1>2. CASE log'[n] = log[n]
  BY <1>1, <1>2
<1>3. ASSUME NEW p \in Server, NEW m \in AppMsg, Merges(p, m) PROVE log'[n] = log[n]
  BY <1>3, MergeEffect, LeaderLogKept
<1>4. ASSUME NEW q \in Server, NEW v \in Value, SubmitEntry(q, v)
      PROVE  Len(log'[n]) >= Len(log[n])
  <2> DEFINE e == [term |-> currentTerm[q], val |-> v]
  <2>1. log' = [log EXCEPT ![q] = Append(log[q], e)]
    BY <1>4 DEF SubmitEntry
  <2> HIDE DEF e
  <2>2. log'[n] = log[n] \/ log'[n] = Append(log[n], e)
    BY <2>1 DEF TypeOK, NodeTypeOK
  <2> QED BY <1>1, <2>2
<1> QED BY <1>2, <1>3, <1>4, LogStepKinds

\* The leader behind a link stays one, and holds as many entries in its term.
LEMMA LedKept ==
  ASSUME TypeOK, TypeOK', ElectionInv, SpokenByLeaders, Next, LinksLed, NEW a \in Links
  PROVE  \E n \in Server : /\ <<a.term, n>> \in leaders'
                           /\ currentTerm'[n] = a.term => a.index <= Len(log'[n])
<1>1. PICK n \in Server : /\ <<a.term, n>> \in leaders
                          /\ currentTerm[n] = a.term => a.index <= Len(log[n])
  BY DEF LinksLed
<1>2. <<a.term, n>> \in leaders'
  BY <1>1, LeaderChanges
<1>3. ASSUME currentTerm'[n] = a.term PROVE a.index <= Len(log'[n])
  <2>1. a.term <= currentTerm[n] /\ currentTerm[n] \in Nat /\ a.term \in Nat
    BY <1>1, LeaderPair DEF ElectionInv, LeadersBacked, TypeOK, NodeTypeOK
  <2>2. currentTerm'[n] >= currentTerm[n]
    BY VotesKeptStep DEF VotesKept
  <2>3. a.index <= Len(log[n])
    BY <1>1, <1>3, <2>1, <2>2
  <2>4. Len(log'[n]) >= Len(log[n])
    BY <1>1, <1>3, LeaderLogGrows
  <2>5. Len(log'[n]) \in Nat /\ Len(log[n]) \in Nat
    BY DEF TypeOK, NodeTypeOK
  <2>6. a.index \in Int
    BY LinkTypes
  <2> QED BY <2>3, <2>4, <2>5, <2>6
<1> QED BY <1>2, <1>3

\* What a client's entry adds: one link, above all others of the leader's term.
LEMMA SubmitLinks ==
  ASSUME TypeOK, NEW n \in Server, NEW v \in Value, SubmitEntry(n, v)
  PROVE  LET e == [term |-> currentTerm[n], val |-> v]
             a == Link(Len(log[n]) + 1, e, LastTerm(log[n]))
         IN \A p \in Server : LogLinks(log'[p]) \subseteq Links \cup {a}
<1> DEFINE e == [term |-> currentTerm[n], val |-> v]
           l == log[n]
           a == Link(Len(l) + 1, e, LastTerm(l))
<1>1. log' = [log EXCEPT ![n] = Append(l, e)]
  BY DEF SubmitEntry
<1>2. l \in Seq(Entry) /\ e \in Entry
  BY DEF TypeOK, NodeTypeOK, Entry
<1>3. LogLinks(Append(l, e)) \subseteq LogLinks(l) \cup {a}
  <2> HIDE DEF e, l
  <2>1. /\ Len(Append(l, e)) = Len(l) + 1 /\ Len(l) \in Nat
        /\ \A i \in 1..Len(l) : Append(l, e)[i] = l[i]
        /\ Append(l, e)[Len(l) + 1] = e
    BY <1>2
  <2>2. \A i \in 1..(Len(l) + 1) : TermAt(Append(l, e), i - 1) = TermAt(l, i - 1)
    BY <2>1 DEF TermAt
  <2>3. ASSUME NEW i \in 1..(Len(l) + 1)
        PROVE  Link(i, Append(l, e)[i], TermAt(Append(l, e), i - 1)) \in LogLinks(l) \cup {a}
    <3>1. CASE i \in 1..Len(l)
      BY <2>1, <2>2, <3>1 DEF LogLinks
    <3>2. CASE i = Len(l) + 1
      <4>1. i - 1 = Len(l)
        BY <2>1, <3>2
      <4> QED BY <2>1, <2>2, <3>2, <4>1 DEF LastTerm
    <3> QED BY <2>1, <3>1, <3>2
  <2> HIDE DEF a
  <2> QED BY <2>1, <2>3 DEF LogLinks
<1> HIDE DEF e, a
<1>4. \A p \in Server : LogLinks(log'[p]) \subseteq Links \cup {a}
  BY <1>1, <1>3, LinksOfLogs DEF TypeOK, NodeTypeOK
<1> QED BY <1>4 DEF a, e

\* Only a client's entry makes a new link.
LEMMA LinksMove ==
  ASSUME TypeOK, TypeOK', Next
  PROVE  \/ Links' \subseteq Links
         \/ \E n \in Server, v \in Value :
              /\ SubmitEntry(n, v)
              /\ Links' \subseteq Links \cup
                   {Link(Len(log[n]) + 1, [term |-> currentTerm[n], val |-> v], LastTerm(log[n]))}
<1>1. RequestsKept
  BY LogStepKinds
<1>2. CASE UNCHANGED log
  <2>1. \A n \in Server : LogLinks(log'[n]) \subseteq Links \cup {}
    BY <1>2, LinksOfLogs
  <2> QED BY <1>1, <2>1, LinksFrom
<1>3. ASSUME NEW p \in Server, NEW m \in AppMsg, Merges(p, m) PROVE Links' \subseteq Links
  <2>1. ASSUME NEW n \in Server PROVE LogLinks(log'[n]) \subseteq Links \cup {}
    <3>1. CASE log'[n] = log[n]
      BY <3>1, LinksOfLogs
    <3>2. CASE log'[n] # log[n]
      <4>1. n = p /\ AcceptsEntries(p, m) /\ log'[p] = MergedLog(log[p], m)
        BY <1>3, <3>2, MergeEffect
      <4>2. /\ log[p] \in Seq(Entry) /\ m.prev <= Len(log[p])
            /\ m.prev > 0 => log[p][m.prev].term = m.prevTerm
        BY <4>1 DEF AcceptsEntries, PrevMatches, TypeOK, NodeTypeOK
      <4>3. LogLinks(MergedLog(log[p], m)) \subseteq LogLinks(log[p]) \cup MsgLinks(m)
        BY <4>2, MergedLinks
      <4>4. MsgLinks(m) \subseteq Links
        BY <1>3, RequestLinksKnown DEF Merges
      <4> QED BY <4>1, <4>3, <4>4, LinksOfLogs
    <3> QED BY <3>1, <3>2
  <2>2. Links' \subseteq Links \cup {}
    BY <1>1, <2>1, LinksFrom
  <2> QED BY <2>2
<1>4. ASSUME NEW n \in Server, NEW v \in Value, SubmitEntry(n, v)
      PROVE  Links' \subseteq Links \cup
               {Link(Len(log[n]) + 1, [term |-> currentTerm[n], val |-> v], LastTerm(log[n]))}
  <2> DEFINE a == Link(Len(log[n]) + 1, [term |-> currentTerm[n], val |-> v], LastTerm(log[n]))
  <2>1. \A p \in Server : LogLinks(log'[p]) \subseteq Links \cup {a}
    BY <1>4, SubmitLinks
  <2> HIDE DEF a
  <2>2. Links' \subseteq Links \cup {a}
    BY <1>1, <2>1, LinksFrom
  <2> QED BY <2>2 DEF a
<1> QED BY <1>2, <1>3, <1>4, LogStepKinds

LEMMA LinksStep ==
  ASSUME LogInv, TypeOK', Next
  PROVE  LinksUnique' /\ LinksOrdered' /\ LinksLed'
<1>0. TypeOK /\ ElectionInv /\ SpokenByLeaders /\ TermsBounded /\ LinksLed
  BY DEF LogInv, ElectionInv
<1>2. CASE Links' \subseteq Links
  BY <1>0, <1>2, LedKept DEF LogInv, LinksUnique, LinksOrdered, LinksLed
<1>5. ASSUME NEW n \in Server, NEW v \in Value, SubmitEntry(n, v),
             Links' \subseteq Links \cup
               {Link(Len(log[n]) + 1, [term |-> currentTerm[n], val |-> v], LastTerm(log[n]))}
      PROVE  LinksUnique' /\ LinksOrdered' /\ LinksLed'
  <2> DEFINE e == [term |-> currentTerm[n], val |-> v]
             a == Link(Len(log[n]) + 1, e, LastTerm(log[n]))
  <2>1. Links' \subseteq Links \cup {a}
    BY <1>5
  <2>2. /\ a.index = Len(log[n]) + 1 /\ a.term = currentTerm[n] /\ a.before = LastTerm(log[n])
        /\ log[n] \in Seq(Entry) /\ Len(log[n]) \in Nat /\ currentTerm[n] \in Nat
    BY <1>0 DEF Link, TypeOK, NodeTypeOK
  <2>3. a.before <= a.term
    <3>1. TermsBelow(log[n], currentTerm[n])
      BY <1>0 DEF TermsBounded
    <3> QED BY <2>2, <3>1 DEF TermsBelow, LastTerm, TermAt
  <2>4. /\ <<a.term, n>> \in leaders /\ role[n] = Leader
        /\ leaders' = leaders /\ currentTerm' = currentTerm
    BY <1>0, <1>5, <2>2 DEF SubmitEntry, SpokenByLeaders, hardState, history
  <2>5. Len(log'[n]) = Len(log[n]) + 1
    BY <1>0, <1>5, <2>2 DEF SubmitEntry, TypeOK, NodeTypeOK
  <2> HIDE DEF a
  <2>6. ASSUME NEW b \in Links, b.term = a.term PROVE b.index # a.index
    <3>1. PICK p \in Server : /\ <<b.term, p>> \in leaders
                              /\ currentTerm[p] = b.term => b.index <= Len(log[p])
      BY <1>0 DEF LinksLed
    <3>2. p = n
      BY <1>0, <2>4, <2>6, <3>1, ElectionInvSafe DEF ElectionSafety
    <3>3. b.index \in Nat
      BY <1>0, LinkTypes
    <3> QED BY <2>2, <2>6, <3>1, <3>2, <3>3
  <2>7. LinksUnique'
    BY <2>1, <2>6 DEF LogInv, LinksUnique
  <2>8. LinksOrdered'
    BY <2>1, <2>3 DEF LogInv, LinksOrdered
  <2>9. LinksLed'
    <3>1. /\ <<a.term, n>> \in leaders'
          /\ currentTerm'[n] = a.term => a.index <= Len(log'[n])
      BY <2>2, <2>4, <2>5
    <3> SUFFICES ASSUME NEW b \in Links'
                 PROVE  \E p \in Server : /\ <<b.term, p>> \in leaders'
                                          /\ currentTerm'[p] = b.term => b.index <= Len(log'[p])
      BY DEF LinksLed
    <3>2. CASE b = a
      BY <3>1, <3>2
    <3>3. CASE b \in Links
      BY <1>0, <3>3, LedKept
    <3> QED BY <2>1, <3>2, <3>3
  <2> QED BY <2>7, <2>8, <2>9
<1> QED BY <1>0, <1>2, <1>5, LinksMove

LEMMA LogInvInit == Init => LogInv
<1> SUFFICES ASSUME Init PROVE LogInv
  OBVIOUS
<1>1. ElectionInv
  BY ElectionInit
<1>2. SpokenByLeaders
  BY DEF Init, SpokenByLeaders
<1>3. TermsBounded
  BY DEF Init, TermsBounded, TermsBelow
<1>4. Links = {}
  <2>1. \A n \in Server : LogLinks(log[n]) = {}
    BY DEF Init, LogLinks
  <2>2. calls = {} /\ late = {}
    BY DEF Init
  <2> QED BY <2>1, <2>2 DEF Links
<1> QED BY <1>1, <1>2, <1>3, <1>4 DEF LogInv, LinksUnique, LinksOrdered, LinksLed

LEMMA LogInvStep == LogInv /\ [Next]_vars => LogInv'
<1> SUFFICES ASSUME LogInv, [Next]_vars PROVE LogInv'
  OBVIOUS
<1>1. ElectionInv' /\ TypeOK /\ TypeOK'
  BY ElectionStepInv DEF LogInv, ElectionInv
<1>2. CASE Next
  BY <1>1, <1>2, SpokenStep, TermsStep, LinksStep DEF LogInv
<1>3. CASE UNCHANGED vars
  <2>1. UNCHANGED <<currentTerm, role, log, ticks, calls, late, leaders>>
    BY <1>3 DEF vars, hardState, logVars, callVars, history
  <2>2. Links' = Links
    BY <2>1 DEF Links
  <2> QED BY <1>1, <2>1, <2>2 DEF LogInv, SpokenByLeaders, TermsBounded, LinksUnique,
                                  LinksOrdered, LinksLed
<1> QED BY <1>2, <1>3

LEMMA LogInvHolds == Spec => []LogInv
  BY LogInvInit, LogInvStep, PTL DEF Spec

\* Along every log terms never decrease, and none is ahead of the node's own
\* term: LastTerm is what OnRequestVote takes it for.
THEOREM LogTermsOrdered == Spec => []TermsOrdered
<1>1. LogInv => TermsOrdered
  <2> SUFFICES ASSUME LogInv, NEW n \in Server, NEW i \in 1..Len(log[n])
               PROVE  /\ log[n][i].term <= currentTerm[n]
                      /\ i > 1 => log[n][i - 1].term <= log[n][i].term
    BY DEF TermsOrdered
  <2>1. log[n][i].term <= currentTerm[n]
    BY DEF LogInv, TermsBounded, TermsBelow
  <2>2. log[n] \in Seq(Entry)
    BY DEF LogInv, ElectionInv, TypeOK, NodeTypeOK
  <2>3. ASSUME i > 1 PROVE log[n][i - 1].term <= log[n][i].term
    <3> DEFINE a == Link(i, log[n][i], TermAt(log[n], i - 1))
    <3>1. a \in Links
      BY LinksOfLogs DEF LogLinks
    <3>2. a.before = log[n][i - 1].term /\ a.term = log[n][i].term
      BY <2>2, <2>3 DEF Link, TermAt
    <3> HIDE DEF a
    <3> QED BY <3>1, <3>2 DEF LogInv, LinksOrdered
  <2> QED BY <2>1, <2>3
<1> QED BY <1>1, LogInvHolds, PTL

\* Two logs with an entry of one term at one index agree on it, and so on the
\* term before it, and so on all the way down.
\* Any two logs, of nodes or of rounds under way, made of known links.
LEMMA LinkedMatch ==
  ASSUME LinksUnique, NEW k \in Seq(Entry), NEW l \in Seq(Entry),
         LogLinks(k) \subseteq Links, LogLinks(l) \subseteq Links,
         NEW i \in 1..Len(k), i <= Len(l), k[i].term = l[i].term
  PROVE  \A j \in 1..i : k[j] = l[j]
<1>1. i \in Nat \ {0} /\ i <= Len(k) /\ i <= Len(l) /\ Len(k) \in Nat /\ Len(l) \in Nat
  OBVIOUS
<1>2. ASSUME NEW j \in 1..i, k[j].term = l[j].term
      PROVE  k[j] = l[j] /\ TermAt(k, j - 1) = TermAt(l, j - 1)
  <2> DEFINE a == Link(j, k[j], TermAt(k, j - 1))
             b == Link(j, l[j], TermAt(l, j - 1))
  <2>1. j \in 1..Len(k) /\ j \in 1..Len(l)
    BY <1>1
  <2>2. a \in Links /\ b \in Links
    BY <2>1 DEF LogLinks
  <2>3. a.index = b.index /\ a.term = b.term
    BY <1>2 DEF Link
  <2>4. a = b
    <3> HIDE DEF a, b
    <3> QED BY <2>2, <2>3 DEF LinksUnique
  <2>5. a.val = b.val /\ a.before = b.before
    BY <2>4
  <2>6. k[j].val = l[j].val /\ TermAt(k, j - 1) = TermAt(l, j - 1)
    BY <2>5 DEF Link
  <2> QED BY <1>1, <1>2, <2>1, <2>6, EntryFields
<1> DEFINE D == {j \in 1..i : k[j] # l[j]}
<1> SUFFICES ASSUME D # {} PROVE FALSE
  OBVIOUS
<1>3. D \in SUBSET Nat /\ IsFiniteSet(D)
  <2>1. D \in SUBSET (1..i) /\ i \in Int
    BY <1>1
  <2>2. IsFiniteSet(1..i)
    BY <2>1, FS_Interval
  <2>3. IsFiniteSet(D)
    <3> HIDE DEF D
    <3> QED BY <2>1, <2>2, FS_Subset
  <2> QED BY <2>1, <2>3
<1> DEFINE j == Max(D)
<1>4. j \in D /\ \A y \in D : j >= y
  <2> HIDE DEF D
  <2> QED BY <1>3, MaxOfFinite
<1> HIDE DEF j
<1>5. j \in 1..i /\ k[j] # l[j]
  BY <1>4
<1>6. CASE j = i
  BY <1>2, <1>5, <1>6
<1>7. CASE j < i
  <2>1. j + 1 \in 1..i /\ j + 1 \notin D
    BY <1>1, <1>4, <1>5, <1>7
  <2>2. k[j + 1] = l[j + 1]
    BY <2>1
  <2>3. TermAt(k, (j + 1) - 1) = TermAt(l, (j + 1) - 1)
    BY <1>2, <2>1, <2>2
  <2>4. (j + 1) - 1 = j /\ j \in 1..Len(k) /\ j \in 1..Len(l)
    BY <1>1, <1>5
  <2>5. k[j].term = l[j].term
    BY <2>3, <2>4 DEF TermAt
  <2> QED BY <1>2, <1>5, <2>5
<1> QED BY <1>1, <1>5, <1>6, <1>7

LEMMA LinksMatch ==
  ASSUME LogInv, NEW n \in Server, NEW p \in Server,
         NEW i \in 1..MinOf(Len(log[n]), Len(log[p])), log[n][i].term = log[p][i].term
  PROVE  \A j \in 1..i : log[n][j] = log[p][j]
<1>1. log[n] \in Seq(Entry) /\ log[p] \in Seq(Entry)
  BY DEF LogInv, ElectionInv, TypeOK, NodeTypeOK
<1>2. i \in 1..Len(log[n]) /\ i <= Len(log[p])
  <2>1. Len(log[n]) \in Nat /\ Len(log[p]) \in Nat
    BY <1>1
  <2> QED BY <2>1 DEF MinOf
<1> QED BY <1>1, <1>2, LinkedMatch, LinksOfLogs DEF LogInv

\* Log Matching: two logs with an entry of the same term at the same index are
\* identical up to it, in every cluster and whatever requests are lost, late or
\* overlapping (ReplicateLog, the previous-entry check and the merge of
\* OnAppendEntries).
THEOREM LogsMatch == Spec => []LogMatching
<1>1. LogInv => LogMatching
  <2> SUFFICES ASSUME LogInv, NEW n \in Server, NEW p \in Server,
                      NEW i \in 1..MinOf(Len(log[n]), Len(log[p])),
                      log[n][i].term = log[p][i].term
               PROVE  SubSeq(log[n], 1, i) = SubSeq(log[p], 1, i)
    BY DEF LogMatching
  <2>1. /\ log[n] \in Seq(Entry) /\ log[p] \in Seq(Entry)
        /\ i \in Nat /\ i <= Len(log[n]) /\ i <= Len(log[p])
        /\ Len(log[n]) \in Nat /\ Len(log[p]) \in Nat
    <3>1. log[n] \in Seq(Entry) /\ log[p] \in Seq(Entry)
      BY DEF LogInv, ElectionInv, TypeOK, NodeTypeOK
    <3>2. Len(log[n]) \in Nat /\ Len(log[p]) \in Nat
      BY <3>1
    <3> QED BY <3>1, <3>2 DEF MinOf
  <2>2. \A j \in 1..i : log[n][j] = log[p][j]
    BY LinksMatch
  <2> DEFINE x == SubSeq(log[n], 1, i)
             y == SubSeq(log[p], 1, i)
  <2>3. /\ x \in Seq(Entry) /\ Len(x) = i /\ \A j \in 1..i : x[j] = log[n][j]
        /\ y \in Seq(Entry) /\ Len(y) = i /\ \A j \in 1..i : y[j] = log[p][j]
    BY <2>1, SubSeqProperties
  <2> HIDE DEF x, y
  <2> QED BY <2>2, <2>3, SeqEqual DEF x, y
<1> QED BY <1>1, LogInvHolds, PTL

\* Leader Append-Only: no step of any node truncates or rewrites the log of a
\* node that leads before and after it.
THEOREM LeadersAppendOnly == Spec => LeaderAppendOnly
<1>1. ASSUME LogInv, Next, NEW n \in Server, role[n] = Leader, role'[n] = Leader
      PROVE  Len(log'[n]) >= Len(log[n]) /\ SubSeq(log'[n], 1, Len(log[n])) = log[n]
  <2>0. TypeOK /\ TypeOK' /\ ElectionInv /\ SpokenByLeaders
    BY <1>1, TypeStep DEF LogInv, ElectionInv
  <2>1. log[n] \in Seq(Entry) /\ Len(log[n]) \in Nat /\ SubSeq(log[n], 1, Len(log[n])) = log[n]
    BY <2>0, SubSeqFull DEF TypeOK, NodeTypeOK
  <2>2. CASE log'[n] = log[n]
    BY <2>1, <2>2
  <2>3. ASSUME NEW p \in Server, NEW m \in AppMsg, Merges(p, m) PROVE log'[n] = log[n]
    <3>1. CASE n # p
      BY <2>0, <2>3, <3>1, MergeEffect
    <3>2. CASE n = p
      <4>1. currentTerm'[n] = currentTerm[n]
        BY <1>1, <2>0, <2>3, <3>2 DEF Merges, OnAppendEntries, FollowsSender,
           BecomeFollower, hardState, TypeOK, NodeTypeOK
      <4> QED BY <1>1, <2>0, <2>3, <3>2, <4>1, LeaderLogKept DEF SpokenByLeaders
    <3> QED BY <3>1, <3>2
  <2>4. ASSUME NEW q \in Server, NEW v \in Value, SubmitEntry(q, v)
        PROVE  Len(log'[n]) >= Len(log[n]) /\ SubSeq(log'[n], 1, Len(log[n])) = log[n]
    <3> DEFINE e == [term |-> currentTerm[q], val |-> v]
    <3>1. log' = [log EXCEPT ![q] = Append(log[q], e)] /\ e \in Entry
      BY <2>0, <2>4 DEF SubmitEntry, Entry, TypeOK, NodeTypeOK
    <3> HIDE DEF e
    <3>2. log'[n] = log[n] \/ log'[n] = Append(log[n], e)
      BY <2>0, <3>1 DEF TypeOK, NodeTypeOK
    <3>3. /\ Len(Append(log[n], e)) = Len(log[n]) + 1
          /\ SubSeq(Append(log[n], e), 1, Len(log[n])) = log[n]
      BY <2>1, <3>1, AppendProperties
    <3> QED BY <2>1, <2>2, <3>2, <3>3
  <2> QED BY <1>1, <2>0, <2>2, <2>3, <2>4, LogStepKinds
<1>2. LogInv /\ [Next]_vars =>
        [\A n \in Server : role[n] = Leader /\ role'[n] = Leader
           => /\ Len(log'[n]) >= Len(log[n])
              /\ SubSeq(log'[n], 1, Len(log[n])) = log[n]]_vars
  BY <1>1
<1> QED BY <1>2, LogInvHolds, PTL DEF Spec, LeaderAppendOnly

(***************************************************************************)
(* The election timer.  A step rearms it on a node that does not lead, or  *)
(* changes neither it nor the role, term and campaign of the node; but for *)
(* the start of a campaign and a victory.                                  *)
(***************************************************************************)
Rearms(n) == timer'[n] = TRUE /\ role'[n] # Leader

Stays(n) == /\ timer'[n] = timer[n] /\ role'[n] = role[n]
            /\ currentTerm'[n] = currentTerm[n]

SameCampaign(n) == /\ election'[n].on = election[n].on
                   /\ election'[n].term = election[n].term

Steady == \A n \in Server : Rearms(n) \/ (Stays(n) /\ SameCampaign(n))

LEMMA FollowerRearms ==
  ASSUME TypeOK, NEW n \in Server, NEW t, BecomeFollower(n, t)
  PROVE  Rearms(n) /\ \A q \in Server \ {n} : Stays(q)
<1>1. timer' = [timer EXCEPT ![n] = TRUE]
  BY DEF BecomeFollower
<1>2. timer'[n] = TRUE /\ \A q \in Server \ {n} : timer'[q] = timer[q]
  BY <1>1 DEF TypeOK, NodeTypeOK
<1>3. role'[n] = Follower /\ \A q \in Server \ {n} : role'[q] = role[q]
  BY DEF BecomeFollower, TypeOK, NodeTypeOK
<1>4. \A q \in Server \ {n} : currentTerm'[q] = currentTerm[q]
  BY DEF BecomeFollower, TypeOK, NodeTypeOK
<1> QED BY <1>2, <1>3, <1>4 DEF Rearms, Stays

\* A timer set to a condition or left alone.
LEMMA TimerSet ==
  ASSUME TypeOK, NEW n \in Server, NEW C, timer' = [timer EXCEPT ![n] = C]
  PROVE  timer'[n] = C /\ \A q \in Server \ {n} : timer'[q] = timer[q]
  BY DEF TypeOK, NodeTypeOK

LEMMA FalseOr ==
  ASSUME NEW C, ~C, NEW b \in BOOLEAN PROVE (C \/ b) = b
  BY Zenon

LEMMA UnchangedStays ==
  ASSUME UNCHANGED <<hardState, role, timer>>
  PROVE  \A n \in Server : Stays(n)
  BY DEF hardState, Stays

LEMMA UnchangedSteady ==
  ASSUME UNCHANGED <<hardState, role, timer, election>>
  PROVE  Steady
  BY UnchangedStays DEF Steady, SameCampaign

LEMMA FollowerSteady ==
  ASSUME TypeOK, NEW n \in Server, NEW t, BecomeFollower(n, t), UNCHANGED election
  PROVE  Steady
  BY FollowerRearms DEF Steady, SameCampaign

LEMMA RequestVoteTimer ==
  ASSUME TypeOK, NEW p \in Server, NEW m \in VoteMsg, OnRequestVote(p, m)
  PROVE  \A n \in Server : Rearms(n) \/ Stays(n)
<1>1. m.term \in Nat /\ currentTerm[p] \in Nat /\ timer[p] \in BOOLEAN
  BY DEF TypeOK, NodeTypeOK, VoteMsg
<1>2. /\ timer'[p] = (m.term > currentTerm[p] \/ timer[p])
      /\ \A q \in Server \ {p} : timer'[q] = timer[q]
  <2>1. timer' = [timer EXCEPT ![p] = m.term > currentTerm[p] \/ timer[p]]
    BY DEF OnRequestVote
  <2> QED BY <2>1, TimerSet
<1>3. /\ role'[p] = IF m.term > currentTerm[p] THEN Follower ELSE role[p]
      /\ currentTerm'[p] = MaxOf(m.term, currentTerm[p])
      /\ \A q \in Server \ {p} : role'[q] = role[q] /\ currentTerm'[q] = currentTerm[q]
  BY DEF OnRequestVote, TypeOK, NodeTypeOK
<1>4. CASE m.term > currentTerm[p]
  <2>1. timer'[p] = TRUE
    BY <1>2, <1>4, Zenon
  <2>2. role'[p] = Follower
    BY <1>3, <1>4
  <2> QED BY <1>2, <1>3, <2>1, <2>2 DEF Rearms, Stays
<1>5. CASE ~(m.term > currentTerm[p])
  <2>1. timer'[p] = timer[p]
    BY <1>1, <1>2, <1>5, FalseOr
  <2>2. role'[p] = role[p] /\ currentTerm'[p] = currentTerm[p]
    BY <1>1, <1>3, <1>5 DEF MaxOf
  <2> QED BY <1>2, <1>3, <2>1, <2>2 DEF Stays
<1> QED BY <1>4, <1>5

\* The only leader of a term is never sent a heartbeat of that term, which
\* would arm its timer.
LEMMA HeartbeatTimer ==
  ASSUME TypeOK, ElectionInv, SpokenByLeaders, NEW p \in Server, NEW m \in BeatMsg,
         OnHeartbeat(p, m), <<m.term, m.from>> \in leaders, m.from # p
  PROVE  \A n \in Server : Rearms(n) \/ Stays(n)
<1>1. m.term \in Nat /\ currentTerm[p] \in Nat /\ timer[p] \in BOOLEAN
  BY DEF TypeOK, NodeTypeOK, BeatMsg
<1>2. ~(m.term = currentTerm[p] /\ role[p] = Leader)
  <2>1. ASSUME m.term = currentTerm[p], role[p] = Leader PROVE FALSE
    <3>1. <<m.term, p>> \in leaders
      BY <2>1 DEF SpokenByLeaders
    <3> QED BY <3>1, ElectionInvSafe DEF ElectionSafety
  <2> QED BY <2>1
<1>3. CASE BecomeFollower(p, m.term)
  BY <1>3, FollowerRearms
<1>4. CASE m.term # currentTerm[p] /\ UNCHANGED <<hardState, role>>
           /\ timer' = [timer EXCEPT ![p] = m.term = currentTerm[p] \/ timer[p]]
  <2>1. /\ timer'[p] = (m.term = currentTerm[p] \/ timer[p])
        /\ \A q \in Server \ {p} : timer'[q] = timer[q]
    BY <1>4, TimerSet
  <2>2. timer'[p] = timer[p]
    BY <1>1, <1>4, <2>1, Zenon
  <2> QED BY <1>4, <2>1, <2>2 DEF Stays, hardState
<1> QED BY <1>1, <1>2, <1>3, <1>4 DEF OnHeartbeat

LEMMA AppendEntriesTimer ==
  ASSUME TypeOK, NEW p \in Server, NEW m \in AppMsg, OnAppendEntries(p, m)
  PROVE  \A n \in Server : Rearms(n) \/ Stays(n)
<1>1. timer[p] \in BOOLEAN
  BY DEF TypeOK, NodeTypeOK
<1> DEFINE C == m.term = currentTerm[p] /\ role[p] # Leader
<1>2. CASE BecomeFollower(p, m.term)
  BY <1>2, FollowerRearms
<1>3. CASE UNCHANGED <<hardState, role>> /\ timer' = [timer EXCEPT ![p] = timer[p] \/ C]
  <2>1. /\ timer'[p] = (timer[p] \/ C)
        /\ \A q \in Server \ {p} : timer'[q] = timer[q]
    BY <1>3, TimerSet
  <2>2. C => timer'[p] = TRUE
    BY <2>1, Zenon
  <2>3. ~C => timer'[p] = timer[p]
    BY <1>1, <2>1, Zenon
  <2> QED BY <1>3, <2>1, <2>2, <2>3 DEF Rearms, Stays, hardState
<1> QED BY <1>2, <1>3 DEF OnAppendEntries, FollowsSender

LEMMA ElectionTimer ==
  ASSUME LogInv, TimerInv, NEW n \in Server, ElectionStep(n), ~ElectionWon(n)
  PROVE  Steady
<1>0. /\ TypeOK /\ election \in [Server -> Election] /\ election[n] \in Election
      /\ timer[n] \in BOOLEAN
  BY DEF LogInv, ElectionInv, TypeOK, NodeTypeOK, CallTypeOK
<1>1. ASSUME NEW p \in Peers(n), NEW r, TallyVote(n, p, r)
      PROVE  \A q \in Server : SameCampaign(q)
  BY <1>0, <1>1 DEF TallyVote, Election, SameCampaign
<1>2. ASSUME NEW p \in Peers(n), SendVoteRequest(n, p) PROVE Steady
  <2>1. VoteRequest(n, p) \in VoteMsg /\ p \in Server
    BY <1>0, VoteRequestType DEF Peers
  <2> QED BY <1>0, <1>1, <1>2, <2>1, RequestVoteTimer DEF SendVoteRequest, Steady
<1>3. ASSUME NEW p \in Peers(n), VoteRequestFails(n, p) PROVE Steady
  BY <1>1, <1>3, UnchangedStays DEF VoteRequestFails, Steady
<1>4. ASSUME EndElection(n) PROVE \A q \in Server \ {n} : SameCampaign(q)
  BY <1>0, <1>4 DEF EndElection, SameCampaign
<1>5. CASE ElectionDeposed(n) \/ ElectionLost(n)
  BY <1>0, <1>4, <1>5, FollowerRearms DEF ElectionDeposed, ElectionLost, Steady
<1>6. CASE ElectionOvertaken(n)
  <2>1. election[n].on /\ election[n].maxTerm <= currentTerm[n] /\ ~Campaigning(n)
    BY <1>6 DEF ElectionOvertaken, Tallied
  <2>2. timer[n]
    BY <2>1 DEF TimerInv, Campaigning
  <2>3. role[n] # Leader
    BY <2>2 DEF TimerInv, TimerArmedUnlessLeader
  <2>4. \A q \in Server : Stays(q)
    BY <1>6, UnchangedStays DEF ElectionOvertaken
  <2>5. timer'[n] = TRUE
    <3>1. timer'[n] = timer[n]
      BY <2>4 DEF Stays
    <3> QED BY <1>0, <2>2, <3>1, Zenon
  <2>6. Rearms(n)
    BY <2>3, <2>4, <2>5 DEF Rearms, Stays
  <2> QED BY <1>4, <1>6, <2>4, <2>6 DEF ElectionOvertaken, Steady
<1> QED BY <1>2, <1>3, <1>5, <1>6 DEF ElectionStep

LEMMA HeartbeatStepTimer ==
  ASSUME LogInv, NEW k \in ticks, HeartbeatStep(k)
  PROVE  Steady
<1>0. TypeOK /\ ElectionInv /\ SpokenByLeaders /\ k.node \in Server /\ k.todo \in SUBSET Server
  BY DEF LogInv, ElectionInv, TypeOK, CallTypeOK, Tick
<1>1. ASSUME NEW p \in k.todo, SendHeartbeat(k, p) PROVE Steady
  <2> DEFINE m == Heartbeat(k, p)
  <2>1. m \in BeatMsg /\ OnHeartbeat(p, m) /\ UNCHANGED election /\ p \in Server
    BY <1>0, <1>1, HeartbeatMsgType DEF SendHeartbeat
  <2>2. m.term = k.term /\ m.from = k.node
    BY DEF Heartbeat
  <2>3. <<m.term, m.from>> \in leaders /\ m.from # p
    BY <1>0, <2>2 DEF SpokenByLeaders
  <2> HIDE DEF m
  <2> QED BY <1>0, <2>1, <2>3, HeartbeatTimer DEF Steady, SameCampaign
<1>2. ASSUME NEW p \in k.todo, HeartbeatFails(k, p) PROVE Steady
  BY <1>2, UnchangedSteady DEF HeartbeatFails
<1>3. CASE HeartbeatStale(k)
  BY <1>3, UnchangedSteady DEF HeartbeatStale
<1>4. CASE HeartbeatDeposed(k)
  BY <1>0, <1>4, FollowerSteady DEF HeartbeatDeposed
<1>5. CASE HeartbeatDone(k)
  BY <1>5, UnchangedSteady DEF HeartbeatDone, RecordHeartbeats
<1>6. CASE CheckQuorumStepDown(k)
  BY <1>0, <1>6, FollowerSteady DEF CheckQuorumStepDown, RecordHeartbeats
<1> QED BY <1>1, <1>2, <1>3, <1>4, <1>5, <1>6 DEF HeartbeatStep

LEMMA ReplicateStepTimer ==
  ASSUME TypeOK, NEW c \in calls, ReplicateStep(c)
  PROVE  Steady
<1>0. c.node \in Server /\ c.rd.todo \in SUBSET Server
  BY CallFields DEF Round
<1>1. ASSUME NEW p \in c.rd.todo, SendAppendEntries(c, p) PROVE Steady
  BY <1>0, <1>1, AppendEntriesMsgType, AppendEntriesTimer
     DEF SendAppendEntries, Steady, SameCampaign
<1>2. CASE \E p \in c.rd.todo : AppendEntriesFails(c, p) \/ SkipPeer(c, p)
  BY <1>2, UnchangedSteady DEF AppendEntriesFails, SkipPeer
<1>3. CASE NotLeaderReturn(c) \/ ReplicateRound(c) \/ ReplicateOvertaken(c)
  BY <1>3, UnchangedSteady DEF NotLeaderReturn, ReplicateRound, ReplicateOvertaken
<1>4. CASE ReplicateDeposed(c)
  BY <1>0, <1>4, FollowerSteady DEF ReplicateDeposed
<1>5. CASE ReplicateDone(c)
  BY <1>5, UnchangedSteady DEF ReplicateDone
<1>6. CASE CoordinatorCheck(c)
  BY <1>6, UnchangedSteady DEF CoordinatorCheck
<1> QED BY <1>1, <1>2, <1>3, <1>4, <1>5, <1>6 DEF ReplicateStep

LEMMA HandleLateTimer ==
  ASSUME LogInv, NEW m \in late, HandleLate(m)
  PROVE  Steady
<1>0. TypeOK /\ ElectionInv /\ SpokenByLeaders
  BY DEF LogInv, ElectionInv
<1>1. m \in VoteMsg \cup BeatMsg \cup AppMsg
  BY <1>0 DEF TypeOK, CallTypeOK
<1>2. \A n \in Server : SameCampaign(n)
  BY DEF HandleLate, SameCampaign
<1>3. CASE m.type = "vote" /\ OnRequestVote(m.to, m)
  <2>1. m \in VoteMsg /\ m.to \in Server
    BY <1>1, <1>3 DEF VoteMsg, BeatMsg, AppMsg
  <2> QED BY <1>0, <1>2, <1>3, <2>1, RequestVoteTimer DEF Steady
<1>4. CASE m.type = "heartbeat" /\ OnHeartbeat(m.to, m)
  <2>1. m \in BeatMsg /\ m.to \in Server
    BY <1>1, <1>4 DEF VoteMsg, BeatMsg, AppMsg
  <2>2. <<m.term, m.from>> \in leaders /\ m.from # m.to
    BY <1>0, <1>4 DEF SpokenByLeaders
  <2> QED BY <1>0, <1>2, <1>4, <2>1, <2>2, HeartbeatTimer DEF Steady
<1>5. CASE m.type = "append" /\ OnAppendEntries(m.to, m)
  <2>1. m \in AppMsg /\ m.to \in Server
    BY <1>1, <1>5 DEF VoteMsg, BeatMsg, AppMsg
  <2> QED BY <1>0, <1>2, <1>5, <2>1, AppendEntriesTimer DEF Steady
<1> QED BY <1>3, <1>4, <1>5 DEF HandleLate

LEMMA RestartTimer ==
  ASSUME TypeOK, NEW n \in Server, Restart(n)
  PROVE  Steady
<1>1. timer'[n] = TRUE /\ \A q \in Server \ {n} : timer'[q] = timer[q]
  BY TimerSet DEF Restart
<1>2. role'[n] = Follower /\ \A q \in Server \ {n} : role'[q] = role[q]
  BY DEF Restart, TypeOK, NodeTypeOK
<1>3. \A q \in Server \ {n} : SameCampaign(q)
  BY DEF Restart, SameCampaign, TypeOK, CallTypeOK
<1>4. currentTerm' = currentTerm
  BY DEF Restart, hardState
<1> QED BY <1>1, <1>2, <1>3, <1>4 DEF Steady, Rearms, Stays

LEMMA SteadyTimer ==
  ASSUME TypeOK, TimerInv, Steady
  PROVE  TimerInv'
<1> SUFFICES ASSUME NEW n \in Server
             PROVE  /\ (timer'[n] \/ election'[n].on) <=> role'[n] # Leader
                    /\ election'[n].on /\ ~timer'[n] =>
                         role'[n] = Candidate /\ currentTerm'[n] = election'[n].term
  BY DEF TimerInv, TimerArmedUnlessLeader
<1>1. CASE Rearms(n)
  BY <1>1, Zenon DEF Rearms
<1>2. CASE Stays(n) /\ SameCampaign(n)
  <2>1. /\ (timer[n] \/ election[n].on) <=> role[n] # Leader
        /\ election[n].on /\ ~timer[n] =>
             role[n] = Candidate /\ currentTerm[n] = election[n].term
    BY DEF TimerInv, TimerArmedUnlessLeader
  <2> QED BY <1>2, <2>1 DEF Stays, SameCampaign
<1> QED BY <1>1, <1>2 DEF Steady

LEMMA TimerInvStep ==
  ASSUME LogInv, TimerInv, Next
  PROVE  TimerInv'
<1>0. TypeOK
  BY DEF LogInv, ElectionInv
<1>1. CASE Steady
  BY <1>0, <1>1, SteadyTimer
<1>2. ASSUME NEW n \in Server, StartElection(n) PROVE TimerInv'
  <2> DEFINE e == [on |-> TRUE, term |-> currentTerm[n] + 1, lastIndex |-> Len(log[n]),
                   lastTerm |-> LastTerm(log[n]), todo |-> Peers(n), granted |-> {},
                   maxTerm |-> currentTerm[n] + 1]
  <2>1. election'[n] = e /\ \A q \in Server \ {n} : election'[q] = election[q]
    BY <1>0, <1>2 DEF StartElection, TypeOK, CallTypeOK
  <2>2. e.on = TRUE /\ e.term = currentTerm[n] + 1
    OBVIOUS
  <2> HIDE DEF e
  <2>3. /\ role'[n] = Candidate /\ currentTerm'[n] = currentTerm[n] + 1
        /\ \A q \in Server \ {n} : role'[q] = role[q] /\ currentTerm'[q] = currentTerm[q]
    BY <1>0, <1>2 DEF StartElection, BecomeCandidate, TypeOK, NodeTypeOK
  <2>4. timer'[n] = FALSE /\ \A q \in Server \ {n} : timer'[q] = timer[q]
    BY <1>0, <1>2, TimerSet DEF StartElection, BecomeCandidate
  <2> QED BY <2>1, <2>2, <2>3, <2>4 DEF TimerInv, TimerArmedUnlessLeader
<1>3. ASSUME NEW n \in Server, ElectionWon(n) PROVE TimerInv'
  <2>1. election'[n] = NoElection /\ \A q \in Server \ {n} : election'[q] = election[q]
    BY <1>0, <1>3 DEF ElectionWon, EndElection, TypeOK, CallTypeOK
  <2>2. election'[n].on = FALSE
    BY <2>1 DEF NoElection
  <2>3. role'[n] = Leader /\ \A q \in Server \ {n} : role'[q] = role[q]
    BY <1>0, <1>3 DEF ElectionWon, BecomeLeader, TypeOK, NodeTypeOK
  <2>4. timer'[n] = FALSE /\ \A q \in Server \ {n} : timer'[q] = timer[q]
    BY <1>0, <1>3, TimerSet DEF ElectionWon, BecomeLeader
  <2>5. currentTerm' = currentTerm
    BY <1>3 DEF ElectionWon, hardState
  <2> QED BY <2>1, <2>2, <2>3, <2>4, <2>5 DEF TimerInv, TimerArmedUnlessLeader
<1>4. ASSUME NEW n \in Server, ElectionStep(n), ~ElectionWon(n) PROVE Steady
  BY <1>4, ElectionTimer
<1>5. ASSUME NEW n \in Server, HeartbeatTick(n) PROVE Steady
  BY <1>5, UnchangedSteady DEF HeartbeatTick
<1>6. ASSUME NEW n \in Server, NEW v \in Value, SubmitEntry(n, v) PROVE Steady
  BY <1>6, UnchangedSteady DEF SubmitEntry
<1>7. ASSUME NEW n \in Server, NEW batch \in SUBSET waiting, CoordinatorCommit(n, batch)
      PROVE  Steady
  BY <1>7, UnchangedSteady DEF CoordinatorCommit
<1> QED BY <1>0, <1>1, <1>2, <1>3, <1>4, <1>5, <1>6, <1>7, HeartbeatStepTimer,
           ReplicateStepTimer, HandleLateTimer, RestartTimer DEF Next

\* The election timer is armed, or its fiber is inside StartElection, on
\* exactly the nodes that do not lead: in no interleaving of SetRoleLocked, the
\* Reset calls of the handlers and the early returns of StartElection is a
\* follower left without a way to call an election.
THEOREM TimerArmed == Spec => []TimerArmedUnlessLeader
<1>1. Init => TimerInv
  BY DEF Init, NoElection, TimerInv, TimerArmedUnlessLeader
<1>2. LogInv /\ TimerInv /\ [Next]_vars => TimerInv'
  <2>1. ASSUME TimerInv, UNCHANGED vars PROVE TimerInv'
    BY <2>1 DEF vars, hardState, TimerInv, TimerArmedUnlessLeader
  <2> QED BY <2>1, TimerInvStep
<1>3. TimerInv => TimerArmedUnlessLeader
  BY DEF TimerInv
<1> QED BY <1>1, <1>2, <1>3, LogInvHolds, PTL DEF Spec

(***************************************************************************)
(* One leader.  Until a second node is elected, every log, round, request  *)
(* and state machine is a copy of part of one log.                         *)
(***************************************************************************)
LEMMA LogTypes ==
  ASSUME TypeOK
  PROVE  /\ \A n \in Server : /\ log[n] \in Seq(Entry) /\ Len(log[n]) \in Nat
                              /\ currentTerm[n] \in Nat
         /\ \A c \in calls : /\ c.rd.log \in Seq(Entry) /\ Len(c.rd.log) \in Nat
                             /\ c.rd.term \in Nat /\ c.node \in Server
<1>1. ASSUME NEW n \in Server
      PROVE  log[n] \in Seq(Entry) /\ Len(log[n]) \in Nat /\ currentTerm[n] \in Nat
  BY DEF TypeOK, NodeTypeOK
<1>2. ASSUME NEW c \in calls
      PROVE  /\ c.rd.log \in Seq(Entry) /\ Len(c.rd.log) \in Nat
             /\ c.rd.term \in Nat /\ c.node \in Server
  <2>1. c.rd \in Round /\ c.node \in Server
    BY CallFields
  <2>2. c.rd.log \in Seq(Entry) /\ c.rd.term \in Nat
    BY <2>1 DEF Round
  <2> QED BY <2>1, <2>2
<1> QED BY <1>1, <1>2

LEMMA AppendKeeps ==
  ASSUME NEW l \in Seq(Entry), NEW e \in Entry
  PROVE  /\ Append(l, e) \in Seq(Entry) /\ Len(Append(l, e)) = Len(l) + 1
         /\ \A i \in 1..Len(l) : Append(l, e)[i] = l[i]
         /\ Append(l, e)[Len(l) + 1] = e
         /\ StartsWith(Append(l, e), l)
<1>1. /\ Append(l, e) \in Seq(Entry) /\ Len(Append(l, e)) = Len(l) + 1
      /\ \A i \in 1..Len(l) : Append(l, e)[i] = l[i]
      /\ Append(l, e)[Len(l) + 1] = e /\ Len(l) \in Nat
  OBVIOUS
<1> QED BY <1>1 DEF StartsWith

LEMMA StartsWithTrans ==
  ASSUME NEW l \in Seq(Entry), NEW k \in Seq(Entry), NEW s \in Seq(Entry),
         StartsWith(l, k), StartsWith(k, s)
  PROVE  StartsWith(l, s)
<1>1. Len(l) \in Nat /\ Len(k) \in Nat /\ Len(s) \in Nat
  OBVIOUS
<1> QED BY <1>1 DEF StartsWith

\* Where the entries given to a state machine come from.
LEMMA ApplyEntries ==
  ASSUME NEW done \in Seq(Entry), NEW l \in Seq(Entry), NEW k \in Nat,
         NEW i \in 1..Len(Apply(done, l, k))
  PROVE  \/ i \in 1..Len(done) /\ Apply(done, l, k)[i] = done[i]
         \/ i \in 1..k /\ Apply(done, l, k)[i] = l[i]
<1> DEFINE x == Len(done) + 1
           y == MinOf(k, Len(l))
           s == SubSeq(l, x, y)
<1>1. Len(done) \in Nat /\ Len(l) \in Nat
  OBVIOUS
<1>2. x \in Nat \ {0} /\ y \in Nat /\ y <= Len(l) /\ y <= k
  BY <1>1 DEF MinOf
<1>3. Apply(done, l, k) = done \o s
  BY DEF Apply
<1> HIDE DEF x, y
<1>4. /\ s \in Seq(Entry) /\ Len(s) = (IF x <= y THEN y - x + 1 ELSE 0)
      /\ \A z \in 1..Len(s) : s[z] = l[x + z - 1]
  BY <1>1, <1>2
<1> HIDE DEF s
<1>5. /\ Len(done \o s) = Len(done) + Len(s)
      /\ \A z \in 1..Len(done) : (done \o s)[z] = done[z]
      /\ \A z \in 1..Len(s) : (done \o s)[Len(done) + z] = s[z]
  BY <1>4, ConcatProperties
<1>6. CASE i \in 1..Len(done)
  BY <1>3, <1>5, <1>6
<1>7. CASE i \notin 1..Len(done)
  <2>1. /\ i - Len(done) \in 1..Len(s) /\ Len(done) + (i - Len(done)) = i
        /\ x + (i - Len(done)) - 1 = i /\ i \in 1..k
    BY <1>1, <1>2, <1>3, <1>4, <1>5, <1>7 DEF x
  <2>2. (done \o s)[i] = s[i - Len(done)] /\ s[i - Len(done)] = l[i]
    BY <1>4, <1>5, <2>1
  <2> QED BY <1>3, <2>1, <2>2
<1> QED BY <1>6, <1>7

LEMMA ApplyLength ==
  ASSUME NEW done \in Seq(Entry), NEW l \in Seq(Entry), NEW k \in Nat
  PROVE  /\ Len(done) <= Len(Apply(done, l, k))
         /\ \/ Len(Apply(done, l, k)) <= Len(done)
            \/ Len(Apply(done, l, k)) <= k /\ Len(Apply(done, l, k)) <= Len(l)
         /\ \A i \in 1..Len(done) : Apply(done, l, k)[i] = done[i]
<1> DEFINE x == Len(done) + 1
           y == MinOf(k, Len(l))
           s == SubSeq(l, x, y)
<1>1. Len(done) \in Nat /\ Len(l) \in Nat
  OBVIOUS
<1>2. x \in Nat \ {0} /\ y \in Nat /\ y <= Len(l) /\ y <= k
  BY <1>1 DEF MinOf
<1>3. Apply(done, l, k) = done \o s
  BY DEF Apply
<1> HIDE DEF x, y
<1>4. s \in Seq(Entry) /\ Len(s) = (IF x <= y THEN y - x + 1 ELSE 0)
  BY <1>1, <1>2
<1> HIDE DEF s
<1>5. /\ Len(done \o s) = Len(done) + Len(s)
      /\ \A z \in 1..Len(done) : (done \o s)[z] = done[z]
  BY <1>4, ConcatProperties
<1> QED BY <1>1, <1>2, <1>3, <1>4, <1>5 DEF x

LEMMA StartsWithItself ==
  ASSUME NEW l \in Seq(Entry) PROVE StartsWith(l, l)
<1>1. Len(l) \in Nat
  OBVIOUS
<1> QED BY <1>1 DEF StartsWith

LEMMA StartsWithEmpty ==
  ASSUME NEW l \in Seq(Entry) PROVE StartsWith(l, <<>>)
<1>1. Len(l) \in Nat /\ Len(<<>>) = 0
  OBVIOUS
<1> QED BY <1>1 DEF StartsWith

\* Applying the entries of a copy leaves a copy.
LEMMA ApplyCopies ==
  ASSUME NEW l \in Seq(Entry), NEW done \in Seq(Entry), NEW s \in Seq(Entry), NEW k \in Nat,
         StartsWith(l, done), StartsWith(l, s)
  PROVE  /\ StartsWith(l, Apply(done, s, k)) /\ Len(done) <= Len(Apply(done, s, k))
         /\ Len(Apply(done, s, k)) <= Len(done) \/ Len(Apply(done, s, k)) <= k
<1>1. Len(l) \in Nat /\ Len(done) \in Nat /\ Len(s) \in Nat
  OBVIOUS
<1>2. PICK a : a = Apply(done, s, k)
  OBVIOUS
<1>3. a \in Seq(Entry) /\ Len(a) \in Nat
  <2>1. a \in Seq(Entry)
    BY <1>2, ApplyType
  <2> QED BY <2>1
<1>4. Len(done) <= Len(a) /\ (Len(a) <= Len(done) \/ (Len(a) <= k /\ Len(a) <= Len(s)))
  BY <1>2, ApplyLength
<1>5. ASSUME NEW i \in 1..Len(a) PROVE a[i] = l[i]
  <2>1. \/ i \in 1..Len(done) /\ a[i] = done[i]
        \/ i \in 1..k /\ a[i] = s[i]
    BY <1>2, ApplyEntries
  <2>2. CASE i \in 1..Len(done)
    <3>1. a[i] = done[i]
      BY <1>2, <2>2, ApplyLength
    <3> QED BY <2>2, <3>1 DEF StartsWith
  <2>3. CASE i \notin 1..Len(done) /\ a[i] = s[i]
    <3>1. i \in 1..Len(s)
      BY <1>1, <1>3, <1>4, <2>3
    <3> QED BY <2>3, <3>1 DEF StartsWith
  <2> QED BY <2>1, <2>2, <2>3
<1>6. Len(a) <= Len(l)
  BY <1>1, <1>3, <1>4 DEF StartsWith
<1> QED BY <1>2, <1>4, <1>5, <1>6 DEF StartsWith

\* So does merging a slice.
LEMMA MergedCopies ==
  ASSUME NEW l \in Seq(Entry), NEW s \in Seq(Entry), NEW m \in AppMsg, m.prev <= Len(s),
         StartsWith(l, s), Slice(l, m)
  PROVE  StartsWith(l, MergedLog(s, m))
<1> DEFINE tail == m.prev + Len(m.entries)
           kept(i) == /\ i <= Len(s)
                      /\ \A j \in (m.prev + 1)..i :
                           s[j].term = m.entries[j - m.prev].term
           merged == [i \in 1..tail |-> IF kept(i) THEN s[i]
                                        ELSE m.entries[i - m.prev]]
<1>1. m.prev \in Nat /\ m.entries \in Seq(Entry) /\ Len(m.entries) \in Nat /\ tail \in Nat
      /\ Len(s) \in Nat /\ Len(l) \in Nat
  BY DEF AppMsg
<1>2. CASE m.entries = <<>>
  BY <1>2 DEF MergedLog
<1>3. CASE m.entries # <<>>
  <2>1. MergedLog(s, m) = merged
    BY <1>3 DEF MergedLog
  <2>2. merged \in Seq(Entry)
    BY <2>1, MergedLogType
  <2>3. Len(merged) = tail
    BY <1>1, <2>2
  <2>4. ASSUME NEW i \in 1..tail PROVE i <= Len(l) /\ merged[i] = l[i]
    <3>1. CASE kept(i)
      <4>1. i <= Len(s) /\ i \in Nat /\ i >= 1
        BY <1>1, <3>1
      <4>2. merged[i] = s[i]
        BY <3>1
      <4> HIDE DEF merged, kept, tail
      <4>3. i \in 1..Len(s)
        BY <1>1, <4>1
      <4>4. Len(s) <= Len(l) /\ s[i] = l[i]
        BY <4>3 DEF StartsWith
      <4>5. i <= Len(l)
        BY <1>1, <4>1, <4>4
      <4> QED BY <4>2, <4>4, <4>5
    <3>2. CASE ~kept(i)
      <4>1. i - m.prev \in 1..Len(m.entries) /\ m.prev + (i - m.prev) = i
        BY <1>1, <3>2
      <4>2. merged[i] = m.entries[i - m.prev]
        BY <3>2
      <4>3. m.prev + (i - m.prev) <= Len(l) /\ m.entries[i - m.prev] = l[m.prev + (i - m.prev)]
        BY <4>1 DEF Slice
      <4> QED BY <4>1, <4>2, <4>3
    <3> QED BY <3>1, <3>2
  <2>5. tail <= Len(l)
    <3>1. CASE tail = 0
      BY <1>1, <3>1
    <3>2. CASE tail # 0
      <4>1. tail \in 1..tail
        BY <1>1, <3>2
      <4> HIDE DEF tail, merged
      <4> QED BY <2>4, <4>1
    <3> QED BY <3>1, <3>2
  <2> HIDE DEF merged, tail
  <2> QED BY <2>1, <2>3, <2>4, <2>5 DEF StartsWith
<1> QED BY <1>2, <1>3

\* What a state machine is given, by any step: entries of its node's log up to
\* its commit index, or, at a restart, all of the log.
ApplyMoves(p) ==
  \/ applied'[p] = applied[p]
  \/ applied'[p] = Apply(applied[p], log'[p], commitIndex'[p])


LEMMA AppliedMoves ==
  ASSUME TypeOK, Next, NEW p \in Server
  PROVE  ApplyMoves(p) \/ (Restart(p) /\ applied'[p] = log'[p])
<1> DEFINE Moves == ApplyMoves(p) \/ (Restart(p) /\ applied'[p] = log'[p])
<1>0. /\ log \in [Server -> Seq(Entry)] /\ commitIndex \in [Server -> Nat]
      /\ applied \in [Server -> Seq(Entry)]
  BY DEF TypeOK, NodeTypeOK
<1>1. ASSUME applied' = applied PROVE Moves
  BY <1>1 DEF ApplyMoves
<1>2. ASSUME NEW x \in Server, NEW m, OnAppendEntries(x, m) PROVE Moves
  <2> DEFINE taken == AcceptsEntries(x, m)
             merged == IF taken THEN MergedLog(log[x], m) ELSE log[x]
             advance == taken /\ m.commit > commitIndex[x]
             commit == MinOf(m.commit, Len(merged))
  <2>1. /\ log' = [log EXCEPT ![x] = merged]
        /\ commitIndex' = [commitIndex EXCEPT ![x] = IF advance THEN commit ELSE commitIndex[x]]
        /\ applied' = [applied EXCEPT ![x] = IF advance THEN Apply(applied[x], merged, commit)
                                             ELSE applied[x]]
    BY <1>2 DEF OnAppendEntries
  <2> HIDE DEF merged, advance, commit
  <2>2. CASE p # x \/ ~advance
    <3>1. applied'[p] = applied[p]
      BY <1>0, <2>1, <2>2
    <3> QED BY <3>1 DEF ApplyMoves
  <2>3. CASE p = x /\ advance
    <3>1. log'[p] = merged /\ commitIndex'[p] = commit
          /\ applied'[p] = Apply(applied[p], merged, commit)
      BY <1>0, <2>1, <2>3
    <3> QED BY <3>1 DEF ApplyMoves
  <2> QED BY <2>2, <2>3
<1>3. ASSUME NEW x \in Server, NEW m, OnHeartbeat(x, m) PROVE Moves
  <2>1. PICK k : /\ commitIndex' = [commitIndex EXCEPT ![x] = k]
                 /\ applied' = [applied EXCEPT ![x] = IF k > commitIndex[x]
                                THEN Apply(applied[x], log[x], k) ELSE applied[x]]
                 /\ log' = log
    BY <1>3 DEF OnHeartbeat
  <2>2. CASE p # x \/ ~(k > commitIndex[x])
    <3>1. applied'[p] = applied[p]
      BY <1>0, <2>1, <2>2
    <3> QED BY <3>1 DEF ApplyMoves
  <2>3. CASE p = x /\ k > commitIndex[x]
    <3>1. log'[p] = log[p] /\ commitIndex'[p] = k
          /\ applied'[p] = Apply(applied[p], log[p], k)
      BY <1>0, <2>1, <2>3
    <3> QED BY <3>1 DEF ApplyMoves
  <2> QED BY <2>2, <2>3
<1>4. ASSUME NEW x \in Server, NEW k, commitIndex' = [commitIndex EXCEPT ![x] = k],
             applied' = [applied EXCEPT ![x] = Apply(applied[x], log[x], k)], log' = log
      PROVE  Moves
  <2>1. CASE p # x
    <3>1. applied'[p] = applied[p]
      BY <1>0, <1>4, <2>1
    <3> QED BY <3>1 DEF ApplyMoves
  <2>2. CASE p = x
    <3>1. log'[p] = log[p] /\ commitIndex'[p] = k
          /\ applied'[p] = Apply(applied[p], log[p], k)
      BY <1>0, <1>4, <2>2
    <3> QED BY <3>1 DEF ApplyMoves
  <2> QED BY <2>1, <2>2
<1> HIDE DEF Moves
<1>5. ASSUME NEW x \in Server, StartElection(x) \/ ElectionStep(x) \/ HeartbeatTick(x)
      PROVE  Moves
  <2>1. applied' = applied
    BY <1>5 DEF StartElection, ElectionStep, SendVoteRequest, VoteRequestFails,
       OnRequestVote, ElectionDeposed, ElectionOvertaken, ElectionLost, ElectionWon,
       EndElection, HeartbeatTick, logVars
  <2> QED BY <1>1, <2>1
<1>6. ASSUME NEW k \in ticks, HeartbeatStep(k) PROVE Moves
  <2>1. ASSUME NEW x \in k.todo, SendHeartbeat(k, x) PROVE Moves
    <3>1. x \in Server
      BY DEF TypeOK, CallTypeOK, Tick
    <3> QED BY <1>3, <2>1, <3>1 DEF SendHeartbeat
  <2>2. ASSUME NEW x \in k.todo, HeartbeatFails(k, x) PROVE Moves
    BY <1>1, <2>2 DEF HeartbeatFails, logVars
  <2>3. CASE HeartbeatStale(k) \/ HeartbeatDeposed(k) \/ HeartbeatDone(k) \/ CheckQuorumStepDown(k)
    <3>1. applied' = applied
      BY <2>3 DEF HeartbeatStale, HeartbeatDeposed, HeartbeatDone, CheckQuorumStepDown,
         RecordHeartbeats, logVars
    <3> QED BY <1>1, <3>1
  <2> QED BY <1>6, <2>1, <2>2, <2>3 DEF HeartbeatStep
<1>7. ASSUME NEW c \in calls, ReplicateStep(c) PROVE Moves
  <2>0. c.node \in Server /\ c.rd.todo \in SUBSET Server
    BY CallFields DEF Round
  <2>1. ASSUME NEW x \in c.rd.todo, SendAppendEntries(c, x) PROVE Moves
    BY <1>2, <2>0, <2>1 DEF SendAppendEntries
  <2>2. ASSUME NEW x \in c.rd.todo, AppendEntriesFails(c, x) \/ SkipPeer(c, x) PROVE Moves
    BY <1>1, <2>2 DEF AppendEntriesFails, SkipPeer, logVars
  <2>3. CASE NotLeaderReturn(c) \/ ReplicateRound(c) \/ ReplicateDeposed(c) \/ ReplicateOvertaken(c)
    <3>1. applied' = applied
      BY <2>3 DEF NotLeaderReturn, ReplicateRound, ReplicateDeposed, ReplicateOvertaken, logVars
    <3> QED BY <1>1, <3>1
  <2>4. CASE ReplicateDone(c)
    <3>1. PICK k : /\ commitIndex' = [commitIndex EXCEPT ![c.node] = k]
                   /\ applied' = [applied EXCEPT ![c.node] =
                                    Apply(applied[c.node], log[c.node], k)]
      BY <2>4 DEF ReplicateDone, LeaderCommits
    <3>2. log' = log
      BY <2>4 DEF ReplicateDone
    <3> QED BY <1>4, <2>0, <3>1, <3>2
  <2>5. CASE CoordinatorCheck(c)
    <3>1. /\ log' = log /\ commitIndex' = commitIndex
          /\ applied' = [applied EXCEPT ![c.node] =
               Apply(applied[c.node], log[c.node], commitIndex[c.node])]
      BY <2>5 DEF CoordinatorCheck
    <3>2. commitIndex' = [commitIndex EXCEPT ![c.node] = commitIndex[c.node]]
      BY <1>0, <2>0, <3>1
    <3>3. PICK k : k = commitIndex[c.node]
      OBVIOUS
    <3> QED BY <1>4, <2>0, <3>1, <3>2, <3>3
  <2> QED BY <1>7, <2>1, <2>2, <2>3, <2>4, <2>5 DEF ReplicateStep
<1>8. ASSUME NEW x \in Server,
             \/ \E v \in Value : SubmitEntry(x, v)
             \/ \E batch \in SUBSET waiting : CoordinatorCommit(x, batch)
      PROVE  Moves
  BY <1>1, <1>8 DEF SubmitEntry, CoordinatorCommit, logVars
<1>9. ASSUME NEW m \in late, HandleLate(m) PROVE Moves
  <2>1. m.to \in Server
    BY DEF TypeOK, CallTypeOK, VoteMsg, BeatMsg, AppMsg
  <2>2. OnRequestVote(m.to, m) => applied' = applied
    BY DEF OnRequestVote, logVars
  <2> QED BY <1>1, <1>2, <1>3, <1>9, <2>1, <2>2 DEF HandleLate
<1>10. ASSUME NEW x \in Server, Restart(x) PROVE Moves
  <2>1. log' = log /\ applied' = [applied EXCEPT ![x] = log[x]]
    BY <1>10 DEF Restart
  <2> QED BY <1>0, <1>10, <2>1 DEF Moves, ApplyMoves
<1>11. Moves
  BY <1>5, <1>6, <1>7, <1>8, <1>9, <1>10 DEF Next
<1> QED BY <1>11 DEF Moves

LEMMA CopyTypes ==
  ASSUME LogInv, Next
  PROVE  /\ TypeOK /\ TypeOK' /\ ElectionInv /\ SpokenByLeaders /\ leaders \subseteq leaders'
         /\ \A p \in Server : /\ log[p] \in Seq(Entry) /\ log'[p] \in Seq(Entry)
                              /\ applied[p] \in Seq(Entry) /\ applied'[p] \in Seq(Entry)
                              /\ commitIndex[p] \in Nat /\ commitIndex'[p] \in Nat
<1>1. TypeOK /\ TypeOK' /\ ElectionInv /\ SpokenByLeaders
  BY TypeStep DEF LogInv, ElectionInv
<1>2. leaders \subseteq leaders'
  BY <1>1, LeaderChanges
<1>3. ASSUME NEW p \in Server
      PROVE  /\ log[p] \in Seq(Entry) /\ applied[p] \in Seq(Entry) /\ commitIndex[p] \in Nat
  BY <1>1 DEF TypeOK, NodeTypeOK
<1>4. ASSUME NEW p \in Server
      PROVE  /\ log'[p] \in Seq(Entry) /\ applied'[p] \in Seq(Entry) /\ commitIndex'[p] \in Nat
  BY <1>1 DEF TypeOK, NodeTypeOK
<1> QED BY <1>1, <1>2, <1>3, <1>4

\* How logs move while n alone has led: its own grows, the others merge.
LEMMA AloneLogs ==
  ASSUME LogInv, Next, NEW n \in Server, Alone(n)
  PROVE  /\ StartsWith(log'[n], log[n])
         /\ \A p \in Server :
              \/ p = n \/ log'[p] = log[p]
              \/ \E m \in AppMsg : /\ OnItsWay(m) /\ m.prev <= Len(log[p])
                                   /\ log'[p] = MergedLog(log[p], m)
<1>0. /\ TypeOK /\ SpokenByLeaders
      /\ \A p \in Server : log[p] \in Seq(Entry) /\ log'[p] \in Seq(Entry)
  BY CopyTypes
<1>1. CASE UNCHANGED log
  BY <1>0, <1>1, StartsWithItself
<1>2. ASSUME NEW q \in Server, NEW m \in AppMsg, Merges(q, m)
      PROVE  /\ log'[n] = log[n]
             /\ \A p \in Server :
                  \/ log'[p] = log[p]
                  \/ /\ OnItsWay(m) /\ m.prev <= Len(log[p])
                     /\ log'[p] = MergedLog(log[p], m)
  <2>1. OnItsWay(m) /\ m.to = q
    BY <1>2 DEF Merges
  <2>2. <<m.term, m.from>> \in leaders /\ m.from # q
    BY <1>0, <2>1, RequestOrigin
  <2>3. q # n
    BY <2>2 DEF Alone
  <2>4. /\ \A p \in Server \ {q} : log'[p] = log[p]
        /\ log'[q] = log[q] \/ (AcceptsEntries(q, m) /\ log'[q] = MergedLog(log[q], m))
    BY <1>0, <1>2, MergeEffect
  <2>5. AcceptsEntries(q, m) => m.prev <= Len(log[q])
    BY DEF AcceptsEntries, PrevMatches
  <2> QED BY <2>1, <2>3, <2>4, <2>5
<1>3. ASSUME NEW q \in Server, NEW v \in Value, SubmitEntry(q, v)
      PROVE  /\ StartsWith(log'[n], log[n])
             /\ \A p \in Server : p = n \/ log'[p] = log[p]
  <2> DEFINE e == [term |-> currentTerm[q], val |-> v]
  <2>1. role[q] = Leader /\ log' = [log EXCEPT ![q] = Append(log[q], e)]
    BY <1>3 DEF SubmitEntry
  <2>2. q = n
    BY <1>0, <2>1 DEF SpokenByLeaders, Alone
  <2>3. e \in Entry
    BY <1>0 DEF Entry, TypeOK, NodeTypeOK
  <2> HIDE DEF e
  <2>4. log'[n] = Append(log[n], e) /\ \A p \in Server : p = n \/ log'[p] = log[p]
    BY <1>0, <2>1, <2>2 DEF TypeOK, NodeTypeOK
  <2> QED BY <1>0, <2>3, <2>4, AppendKeeps
<1>4. ASSUME NEW q \in Server, NEW m \in AppMsg, Merges(q, m) PROVE StartsWith(log'[n], log[n])
  BY <1>0, <1>2, <1>4, StartsWithItself
<1> QED BY <1>0, <1>1, <1>2, <1>3, <1>4, LogStepKinds

\* Every append request on its way carries a slice of n's log.
LEMMA SentSlices ==
  ASSUME TypeOK, NEW n \in Server, CopiesOf(n), NEW m, m \in late \/ SentAppend(m),
         m.type = "append"
  PROVE  Slice(log[n], m)
<1>1. CASE m \in late
  BY <1>1 DEF CopiesOf
<1>2. CASE SentAppend(m)
  <2>0. PICK c \in calls : \E p \in c.rd.todo : m = AppendEntries(c, p)
    BY <1>2 DEF SentAppend
  <2>1. PICK p \in c.rd.todo : m = AppendEntries(c, p)
    BY <2>0
  <2>2. p \in Server
    BY <2>1, CallFields DEF Round
  <2>3. /\ c.rd.log \in Seq(Entry) /\ m.entries \in Seq(Entry) /\ m.prev \in Nat
        /\ \A i \in 1..Len(m.entries) :
             m.prev + i \in 1..Len(c.rd.log) /\ m.entries[i] = c.rd.log[m.prev + i]
    BY <2>1, <2>2, RequestSlice
  <2>4. StartsWith(log[n], c.rd.log)
    BY DEF CopiesOf
  <2>5. Len(log[n]) \in Nat /\ Len(c.rd.log) \in Nat
    BY <2>3 DEF TypeOK, NodeTypeOK
  <2>6. ASSUME NEW i \in 1..Len(m.entries)
        PROVE  m.prev + i <= Len(log[n]) /\ m.entries[i] = log[n][m.prev + i]
    <3>1. m.prev + i \in 1..Len(c.rd.log) /\ m.entries[i] = c.rd.log[m.prev + i]
      BY <2>3
    <3>2. PICK x : x = m.prev + i
      OBVIOUS
    <3>3. x \in 1..Len(c.rd.log) /\ Len(c.rd.log) <= Len(log[n]) /\ c.rd.log[x] = log[n][x]
      BY <2>4, <3>1, <3>2 DEF StartsWith
    <3> QED BY <2>5, <3>1, <3>2, <3>3
  <2> QED BY <2>6 DEF Slice
<1> QED BY <1>1, <1>2

LEMMA CopiesStep ==
  ASSUME LogInv, Next, NEW n \in Server, Alone(n), CopiesOf(n)
  PROVE  CopiesOf(n)'
<1>0. /\ TypeOK /\ TypeOK' /\ SpokenByLeaders
      /\ \A p \in Server : /\ log[p] \in Seq(Entry) /\ log'[p] \in Seq(Entry)
                           /\ applied[p] \in Seq(Entry) /\ applied'[p] \in Seq(Entry)
                           /\ commitIndex[p] \in Nat /\ commitIndex'[p] \in Nat
  BY CopyTypes
<1>1. PICK l, k : l = log[n] /\ k = log'[n]
  OBVIOUS
<1>2. l \in Seq(Entry) /\ k \in Seq(Entry) /\ StartsWith(k, l) /\ Len(l) \in Nat /\ Len(k) \in Nat
  <2>1. l \in Seq(Entry) /\ k \in Seq(Entry) /\ StartsWith(k, l)
    BY <1>0, <1>1, AloneLogs
  <2> QED BY <2>1
<1>3. ASSUME NEW s \in Seq(Entry), StartsWith(l, s) PROVE StartsWith(k, s)
  BY <1>2, <1>3, StartsWithTrans
<1>4. ASSUME NEW m \in AppMsg, Slice(l, m) PROVE Slice(k, m)
  <2>1. m.prev \in Nat
    BY DEF AppMsg
  <2>2. ASSUME NEW i \in 1..Len(m.entries)
        PROVE  m.prev + i <= Len(k) /\ m.entries[i] = k[m.prev + i]
    <3>1. PICK x : x = m.prev + i
      OBVIOUS
    <3>2. x <= Len(l) /\ m.entries[i] = l[x] /\ x \in Nat /\ x >= 1
      BY <1>4, <2>1, <3>1 DEF Slice
    <3>3. x \in 1..Len(l)
      BY <1>2, <3>2
    <3>4. Len(l) <= Len(k) /\ k[x] = l[x]
      BY <1>2, <3>3 DEF StartsWith
    <3> QED BY <1>2, <3>1, <3>2, <3>4
  <2> QED BY <2>2 DEF Slice
<1>5. ASSUME NEW p \in Server PROVE StartsWith(k, log'[p])
  <2>1. StartsWith(l, log[p])
    BY <1>1 DEF CopiesOf
  <2>2. CASE p = n
    BY <1>1, <1>2, <2>2, StartsWithItself
  <2>3. CASE log'[p] = log[p]
    BY <1>0, <1>3, <2>1, <2>3
  <2>4. ASSUME NEW m \in AppMsg, OnItsWay(m), m.prev <= Len(log[p]),
               log'[p] = MergedLog(log[p], m)
        PROVE  StartsWith(k, log'[p])
    <3>1. Slice(l, m)
      BY <1>0, <1>1, <2>4, SentSlices DEF OnItsWay, AppMsg
    <3>2. StartsWith(l, MergedLog(log[p], m))
      BY <1>0, <1>2, <2>1, <2>4, <3>1, MergedCopies
    <3>3. StartsWith(l, log'[p])
      BY <2>4, <3>2
    <3> QED BY <1>0, <1>3, <3>3
  <2> QED BY <2>2, <2>3, <2>4, AloneLogs
<1>6. ASSUME NEW p \in Server PROVE StartsWith(k, applied'[p])
  <2>1. StartsWith(k, applied[p])
    BY <1>0, <1>1, <1>3 DEF CopiesOf
  <2>2. StartsWith(k, log'[p])
    BY <1>5
  <2>3. StartsWith(k, Apply(applied[p], log'[p], commitIndex'[p]))
    BY <1>0, <1>2, <2>1, <2>2, ApplyCopies
  <2> QED BY <1>0, <2>1, <2>2, <2>3, AppliedMoves DEF ApplyMoves
<1>7. RequestsKept
  BY <1>0, LogStepKinds
<1>8. ASSUME NEW d \in calls' PROVE StartsWith(k, d.rd.log)
  <2>1. CallKept(d)
    BY <1>7 DEF RequestsKept
  <2>2. CASE d.rd.log = <<>>
    BY <1>2, <2>2, StartsWithEmpty
  <2>3. ASSUME NEW c \in calls, d.rd.log = c.rd.log PROVE StartsWith(k, d.rd.log)
    <3>1. c.rd.log \in Seq(Entry) /\ StartsWith(l, c.rd.log)
      BY <1>0, <1>1, LogTypes DEF CopiesOf
    <3> QED BY <1>3, <2>3, <3>1
  <2>4. CASE d.node \in Server /\ d.rd.log = log[d.node]
    <3>1. log[d.node] \in Seq(Entry) /\ StartsWith(l, log[d.node])
      BY <1>0, <1>1, <2>4 DEF CopiesOf
    <3> QED BY <1>3, <2>4, <3>1
  <2> QED BY <2>1, <2>2, <2>3, <2>4 DEF CallKept
<1>9. ASSUME NEW m \in late', m.type = "append" PROVE Slice(k, m)
  <2>1. m \in AppMsg
    BY <1>0, <1>9 DEF TypeOK, CallTypeOK, VoteMsg, BeatMsg
  <2>2. m \in late \/ SentAppend(m) \/ SentBeat(m)
    BY <1>7, <1>9 DEF RequestsKept, LateKept
  <2>3. ~SentBeat(m)
    BY <1>9 DEF SentBeat, Heartbeat
  <2>4. Slice(l, m)
    BY <1>0, <1>1, <1>9, <2>2, <2>3, SentSlices
  <2> QED BY <1>4, <2>1, <2>4
<1> QED BY <1>1, <1>5, <1>6, <1>8, <1>9 DEF CopiesOf

(***************************************************************************)
(* Callers.  Where the entry of a waiting, batched or answered caller is.  *)
(***************************************************************************)

\* A call keeps its batch and its node.
SameBatch(d, c) == d.batch = c.batch /\ d.node = c.node

LEMMA CallBatch ==
  ASSUME TypeOK, NEW c \in calls, ReplicateStep(c), NEW d \in calls'
  PROVE  \E e \in calls : SameBatch(d, e)
<1> DEFINE Goal == \E e \in calls : SameBatch(d, e)
<1>0. c \in Call
  BY CallFields
<1>1. ASSUME NEW next, Continue(c, next), \A e \in next : SameBatch(e, c) PROVE Goal
  BY <1>1 DEF Continue, SameBatch
<1>2. ASSUME NEW e, SameBatch(e, c), Continue(c, {e}) PROVE Goal
  BY <1>1, <1>2
<1>3. ASSUME Continue(c, {}) PROVE Goal
  BY <1>1, <1>3
<1> HIDE DEF Goal
<1>4. ASSUME Continue(c, Returned(c)) PROVE Goal
  <2> DEFINE e == [c EXCEPT !.phase = "check", !.tries = 0, !.rd = NoRound]
  <2>1. SameBatch(e, c)
    BY <1>0 DEF Call, SameBatch
  <2>2. Returned(c) = {e} \/ Returned(c) = {}
    BY DEF Returned
  <2> HIDE DEF e
  <2> QED BY <1>2, <1>3, <1>4, <2>1, <2>2
<1>5. ASSUME NEW rd, Continue(c, {[c EXCEPT !.rd = rd]}) PROVE Goal
  <2>1. SameBatch([c EXCEPT !.rd = rd], c)
    BY <1>0 DEF Call, SameBatch
  <2> QED BY <1>2, <1>5, <2>1
<1>6. CASE ReplicateRound(c)
  <2>1. PICK rd : Continue(c, {[c EXCEPT !.phase = "send", !.rd = rd]})
    BY <1>6 DEF ReplicateRound
  <2>2. SameBatch([c EXCEPT !.phase = "send", !.rd = rd], c)
    BY <1>0 DEF Call, SameBatch
  <2> QED BY <1>2, <2>1, <2>2 DEF Goal
<1>7. CASE \E p \in c.rd.todo : SendAppendEntries(c, p) \/ AppendEntriesFails(c, p)
  BY <1>5, <1>7 DEF SendAppendEntries, AppendEntriesFails, TallyAppend, Goal
<1>8. CASE \E p \in c.rd.todo : SkipPeer(c, p)
  <2>1. PICK p \in c.rd.todo : SkipPeer(c, p)
    BY <1>8
  <2>2. SameBatch([c EXCEPT !.rd.todo = @ \ {p}], c)
    BY <1>0 DEF Call, SameBatch
  <2> QED BY <1>2, <2>1, <2>2 DEF SkipPeer, Goal
<1>9. CASE ReplicateDone(c)
  <2> DEFINE e == [c EXCEPT !.phase = "start", !.tries = @ + 1, !.rd = NoRound]
  <2>1. SameBatch(e, c)
    BY <1>0 DEF Call, SameBatch
  <2>2. Continue(c, {e}) \/ Continue(c, Returned(c))
    BY <1>9 DEF ReplicateDone
  <2> HIDE DEF e
  <2> QED BY <1>2, <1>4, <2>1, <2>2 DEF Goal
<1>10. CASE CoordinatorCheck(c)
  <2> DEFINE e == [c EXCEPT !.phase = "start", !.iter = @ + 1]
  <2>1. SameBatch(e, c)
    BY <1>0 DEF Call, SameBatch
  <2>2. Continue(c, {e}) \/ Continue(c, {})
    BY <1>10 DEF CoordinatorCheck
  <2> HIDE DEF e
  <2> QED BY <1>2, <1>3, <2>1, <2>2 DEF Goal
<1>11. CASE NotLeaderReturn(c) \/ ReplicateDeposed(c) \/ ReplicateOvertaken(c)
  BY <1>4, <1>11 DEF NotLeaderReturn, ReplicateDeposed, ReplicateOvertaken, Goal
<1> QED BY <1>6, <1>7, <1>8, <1>9, <1>10, <1>11 DEF ReplicateStep

\* Callers come from SubmitEntry, batches from waiting callers, answers from
\* the batch of a coordinator that found them applied.
NewCaller(w) ==
  \E n \in Server, v \in Value :
    /\ SubmitEntry(n, v)
    /\ w = [node |-> n, index |-> Len(log[n]) + 1,
            entry |-> [term |-> currentTerm[n], val |-> v]]

LEMMA CallersMove ==
  ASSUME TypeOK, Next
  PROVE  /\ \A w \in waiting' : w \in waiting \/ NewCaller(w)
         /\ \A d \in calls' : \/ \E c \in calls : SameBatch(d, c)
                              \/ \A w \in d.batch : w \in waiting /\ w.node = d.node
         /\ \A w \in acked' : \/ w \in acked
                              \/ \E c \in calls : w \in c.batch /\ w.index <= Len(applied'[c.node])
<1> DEFINE W == \A w \in waiting' : w \in waiting \/ NewCaller(w)
           C == \A d \in calls' : \/ \E c \in calls : SameBatch(d, c)
                                  \/ \A w \in d.batch : w \in waiting /\ w.node = d.node
           A == \A w \in acked' : \/ w \in acked
                                  \/ \E c \in calls : w \in c.batch
                                                      /\ w.index <= Len(applied'[c.node])
<1>0. ASSUME calls' \subseteq calls PROVE C
  BY <1>0 DEF SameBatch
<1>1. ASSUME NEW n \in Server, StartElection(n) \/ ElectionStep(n) \/ HeartbeatTick(n)
      PROVE  W /\ C /\ A
  <2>1. waiting' = waiting /\ calls' = calls /\ acked' = acked
    BY <1>1 DEF StartElection, ElectionStep, SendVoteRequest, VoteRequestFails,
       OnRequestVote, ElectionDeposed, ElectionOvertaken, ElectionLost, ElectionWon,
       BecomeLeader, EndElection, HeartbeatTick, callVars, history
  <2> QED BY <1>0, <2>1
<1>2. ASSUME NEW k \in ticks, HeartbeatStep(k) PROVE W /\ C /\ A
  <2>1. waiting' = waiting /\ acked' = acked
    BY <1>2 DEF HeartbeatStep, SendHeartbeat, HeartbeatFails, HeartbeatStale,
       HeartbeatDeposed, HeartbeatDone, CheckQuorumStepDown, RecordHeartbeats, OnHeartbeat, history
  <2>2. CASE calls' = calls
    BY <1>0, <2>1, <2>2
  <2>3. CASE HeartbeatDone(k)
    <3> DEFINE d == NewCall(k.node, "catchup", k.term, {})
    <3>1. d.batch = {}
      BY DEF NewCall
    <3>2. calls' \subseteq calls \cup {d}
      BY <2>3 DEF HeartbeatDone
    <3> HIDE DEF d
    <3>3. C
      BY <3>1, <3>2 DEF SameBatch
    <3> QED BY <2>1, <3>3
  <2> QED BY <1>2, <2>2, <2>3 DEF HeartbeatStep, SendHeartbeat, HeartbeatFails, HeartbeatStale,
       HeartbeatDeposed, CheckQuorumStepDown
<1>3. ASSUME NEW c \in calls, ReplicateStep(c) PROVE W /\ C /\ A
  <2>1. C
    BY <1>3, CallBatch
  <2>2. waiting' = waiting
    BY <1>3 DEF ReplicateStep, NotLeaderReturn, ReplicateRound, SendAppendEntries,
       AppendEntriesFails, SkipPeer, ReplicateDeposed, ReplicateOvertaken, ReplicateDone,
       CoordinatorCheck
  <2>3. CASE acked' = acked
    BY <2>1, <2>2, <2>3
  <2>4. CASE CoordinatorCheck(c)
    <3> DEFINE done == Apply(applied[c.node], log[c.node], commitIndex[c.node])
    <3>1. /\ applied' = [applied EXCEPT ![c.node] = done]
          /\ acked' \subseteq acked \cup {w \in c.batch : Covered(w, done)}
      BY <2>4 DEF CoordinatorCheck
    <3> HIDE DEF done
    <3>2. applied'[c.node] = done
      BY <3>1, CallFields DEF TypeOK, NodeTypeOK
    <3> QED BY <2>1, <2>2, <3>1, <3>2 DEF Covered
  <2>5. acked' = acked \/ CoordinatorCheck(c)
    <3>1. ASSUME NEW p \in c.rd.todo,
                 SendAppendEntries(c, p) \/ AppendEntriesFails(c, p) \/ SkipPeer(c, p)
          PROVE  acked' = acked
      BY <3>1 DEF SendAppendEntries, OnAppendEntries, AppendEntriesFails, SkipPeer, history
    <3> QED BY <1>3, <3>1 DEF ReplicateStep, NotLeaderReturn, ReplicateRound,
               ReplicateDeposed, ReplicateOvertaken, ReplicateDone, history
  <2> QED BY <2>3, <2>4, <2>5
<1>4. ASSUME NEW n \in Server, NEW v \in Value, SubmitEntry(n, v) PROVE W /\ C /\ A
  <2>1. calls' = calls /\ acked' = acked
    BY <1>4 DEF SubmitEntry, history
  <2>2. waiting' = waiting \cup
          {[node |-> n, index |-> Len(log[n]) + 1,
            entry |-> [term |-> currentTerm[n], val |-> v]]}
    BY <1>4 DEF SubmitEntry
  <2>3. W
    BY <1>4, <2>2 DEF NewCaller
  <2> QED BY <1>0, <2>1, <2>3
<1>5. ASSUME NEW n \in Server, NEW batch \in SUBSET waiting, CoordinatorCommit(n, batch)
      PROVE  W /\ C /\ A
  <2> DEFINE d == NewCall(n, "write", 0, batch)
  <2>1. /\ waiting' = waiting \ batch /\ calls' = calls \cup {d} /\ acked' = acked
        /\ \A w \in batch : w.node = n
    BY <1>5 DEF CoordinatorCommit, history
  <2>2. d.batch = batch /\ d.node = n
    BY DEF NewCall
  <2> HIDE DEF d
  <2> QED BY <2>1, <2>2 DEF SameBatch
<1>6. ASSUME NEW m \in late, HandleLate(m) PROVE W /\ C /\ A
  <2>1. waiting' = waiting /\ calls' = calls /\ acked' = acked
    BY <1>6 DEF HandleLate, OnRequestVote, OnHeartbeat, OnAppendEntries, callVars, history
  <2> QED BY <1>0, <2>1
<1>7. ASSUME NEW n \in Server, Restart(n) PROVE W /\ C /\ A
  <2>1. waiting' \subseteq waiting /\ calls' \subseteq calls /\ acked' = acked
    BY <1>7 DEF Restart, history
  <2> QED BY <1>0, <2>1
<1> HIDE DEF W, C, A
<1>8. W /\ C /\ A
  BY <1>1, <1>2, <1>3, <1>4, <1>5, <1>6, <1>7 DEF Next
<1> QED BY <1>8 DEF W, C, A

LEMMA HoldsKept ==
  ASSUME LogInv, Next, OneLeader, NEW w \in Waiter, Holds(w)
  PROVE  Holds(w)'
<1>0. w.node \in Server /\ Len(log[w.node]) \in Nat /\ Len(log'[w.node]) \in Nat
      /\ leaders \subseteq leaders'
  BY CopyTypes DEF Waiter
<1>1. PICK l \in leaders : l[2] = w.node
  BY DEF Holds
<1>2. Alone(w.node)
  BY <1>1 DEF OneLeader, Alone
<1>3. StartsWith(log'[w.node], log[w.node])
  BY <1>0, <1>2, AloneLogs
<1>4. w.index \in 1..Len(log[w.node]) /\ log[w.node][w.index] = w.entry
  BY DEF Holds
<1>5. w.index \in 1..Len(log'[w.node]) /\ log'[w.node][w.index] = w.entry
  BY <1>0, <1>3, <1>4 DEF StartsWith
<1> QED BY <1>0, <1>1, <1>5 DEF Holds

LEMMA NewCallerHolds ==
  ASSUME LogInv, Next, NEW w, NewCaller(w)
  PROVE  Holds(w)'
<1>1. PICK n \in Server, v \in Value :
        /\ SubmitEntry(n, v)
        /\ w = [node |-> n, index |-> Len(log[n]) + 1,
                entry |-> [term |-> currentTerm[n], val |-> v]]
  BY DEF NewCaller
<1>2. PICK e : e = [term |-> currentTerm[n], val |-> v]
  OBVIOUS
<1>3. role[n] = Leader /\ log' = [log EXCEPT ![n] = Append(log[n], e)]
  BY <1>1, <1>2 DEF SubmitEntry
<1>4. /\ TypeOK /\ SpokenByLeaders /\ leaders \subseteq leaders'
      /\ log[n] \in Seq(Entry) /\ Len(log[n]) \in Nat
  BY CopyTypes
<1>5. e \in Entry
  BY <1>2, <1>4 DEF Entry, TypeOK, NodeTypeOK
<1>6. log'[n] = Append(log[n], e)
  BY <1>3, <1>4 DEF TypeOK, NodeTypeOK
<1>7. Len(log'[n]) = Len(log[n]) + 1 /\ log'[n][Len(log[n]) + 1] = e
  BY <1>4, <1>5, <1>6, AppendKeeps
<1>8. w.node = n /\ w.index = Len(log[n]) + 1 /\ w.entry = e
  BY <1>1, <1>2
<1>9. w.index \in 1..Len(log'[w.node]) /\ log'[w.node][w.index] = w.entry
  BY <1>4, <1>7, <1>8
<1>10. \E l \in leaders' : l[2] = w.node
  <2>1. <<currentTerm[n], n>> \in leaders'
    BY <1>3, <1>4 DEF SpokenByLeaders
  <2> QED BY <1>8, <2>1
<1> QED BY <1>9, <1>10 DEF Holds

LEMMA CopyInvInit == Init => CopyInv
<1> SUFFICES ASSUME Init PROVE CopyInv
  OBVIOUS
<1>1. ASSUME NEW n \in Server, NEW p \in Server PROVE log[n] = <<>> /\ applied[p] = <<>>
  BY DEF Init
<1>2. <<>> \in Seq(Entry)
  OBVIOUS
<1>3. \A n \in Server, p \in Server : StartsWith(log[n], log[p]) /\ StartsWith(log[n], applied[p])
  BY <1>1, <1>2, StartsWithItself
<1>4. calls = {} /\ late = {} /\ waiting = {} /\ acked = {}
  BY DEF Init
<1> QED BY <1>3, <1>4 DEF CopyInv, CopiesOf

LEMMA CopyInvStep ==
  ASSUME LogInv, OneLeader, CopyInv, [Next]_vars
  PROVE  CopyInv'
<1>1. CASE UNCHANGED vars
  BY <1>1 DEF CopyInv, Alone, CopiesOf, Holds, vars, logVars, callVars, history
<1>2. CASE Next
  <2>0. /\ TypeOK /\ TypeOK' /\ leaders \subseteq leaders'
        /\ \A p \in Server : /\ log[p] \in Seq(Entry) /\ log'[p] \in Seq(Entry)
                             /\ applied[p] \in Seq(Entry) /\ applied'[p] \in Seq(Entry)
                             /\ commitIndex'[p] \in Nat
    BY <1>2, CopyTypes
  <2>1. ASSUME NEW n \in Server, Alone(n)' PROVE CopiesOf(n)'
    <3>1. Alone(n)
      BY <2>0, <2>1 DEF Alone
    <3> QED BY <1>2, <3>1, CopiesStep DEF CopyInv
  <2>2. waiting \subseteq Waiter /\ acked \subseteq Waiter /\ acked' \subseteq Waiter
        /\ \A c \in calls : c.batch \subseteq Waiter
    <3>1. \A c \in calls : c.batch \subseteq Waiter
      BY <2>0 DEF TypeOK, CallTypeOK, Call
    <3> QED BY <2>0, <3>1 DEF TypeOK, CallTypeOK, HistoryTypeOK
  <2>3. ASSUME NEW c \in calls, NEW w \in c.batch PROVE w.node = c.node /\ Holds(w)'
    BY <1>2, <2>2, HoldsKept DEF CopyInv
  <2>4. ASSUME NEW w \in waiting \cup acked PROVE Holds(w)'
    BY <1>2, <2>2, HoldsKept DEF CopyInv
  <2>5. ASSUME NEW w \in waiting' \cup acked' PROVE Holds(w)'
    <3>1. CASE w \in waiting'
      BY <1>2, <2>0, <2>4, <3>1, CallersMove, NewCallerHolds
    <3>2. CASE w \in acked'
      BY <1>2, <2>0, <2>3, <2>4, <3>2, CallersMove
    <3> QED BY <3>1, <3>2
  <2>6. ASSUME NEW d \in calls', NEW w \in d.batch PROVE w.node = d.node /\ Holds(w)'
    <3>1. CASE \E c \in calls : SameBatch(d, c)
      BY <2>3, <3>1 DEF SameBatch
    <3>2. CASE \A x \in d.batch : x \in waiting /\ x.node = d.node
      BY <2>4, <3>2
    <3> QED BY <1>2, <2>0, <3>1, <3>2, CallersMove
  <2>7. ASSUME NEW w \in acked' PROVE w.index <= Len(applied'[w.node])
    <3>0. w.node \in Server /\ w.index \in Nat
      BY <2>2 DEF Waiter
    <3>1. PICK a, b, l : a = applied[w.node] /\ b = applied'[w.node] /\ l = log'[w.node]
      OBVIOUS
    <3>2. /\ a \in Seq(Entry) /\ b \in Seq(Entry) /\ l \in Seq(Entry)
          /\ commitIndex'[w.node] \in Nat
      BY <2>0, <3>0, <3>1
    <3>3. Len(a) \in Nat /\ Len(b) \in Nat
      BY <3>2
    <3>4. CASE w \in acked
      <4>1. w.index <= Len(a)
        BY <3>1, <3>4 DEF CopyInv
      <4>2. CASE b = a \/ b = Apply(a, l, commitIndex'[w.node])
        <5>1. Len(a) <= Len(b)
          BY <3>2, <3>3, <4>2, ApplyLength
        <5> QED BY <3>0, <3>1, <3>3, <4>1, <5>1
      <4>3. CASE b = l
        <5>1. w.index \in 1..Len(l)
          BY <2>5, <3>1 DEF Holds
        <5> QED BY <3>1, <4>3, <5>1
      <4> QED BY <1>2, <2>0, <3>0, <3>1, <4>2, <4>3, AppliedMoves DEF ApplyMoves
    <3>5. ASSUME NEW c \in calls, w \in c.batch, w.index <= Len(applied'[c.node])
          PROVE  w.index <= Len(applied'[w.node])
      BY <2>3, <3>5
    <3> QED BY <1>2, <2>0, <3>1, <3>4, <3>5, CallersMove
  <2> QED BY <2>1, <2>5, <2>6, <2>7 DEF CopyInv
<1> QED BY <1>1, <1>2

LEMMA CopyInvHolds == Spec /\ []OneLeader => [](LogInv /\ CopyInv)
<1>1. LogInv /\ OneLeader /\ CopyInv /\ [Next]_vars => CopyInv'
  BY CopyInvStep
<1> QED BY <1>1, CopyInvInit, LogInvHolds, PTL DEF Spec

\* An acknowledged write is applied: what SubmitEntry answers OK is the caller's
\* own entry in its node's state machine, as long as no second node is elected;
\* whatever heartbeats, late requests, overlapping rounds, small batches and
\* restarts there are.
THEOREM AckedWritesApplied == Spec /\ []OneLeader => []AckedIsApplied
<1>1. ASSUME LogInv, OneLeader, CopyInv PROVE AckedIsApplied
  <2> SUFFICES ASSUME NEW w \in acked
               PROVE  w.index <= Len(applied[w.node]) /\ applied[w.node][w.index] = w.entry
    BY DEF AckedIsApplied
  <2>1. w.index <= Len(applied[w.node]) /\ Holds(w)
    BY <1>1 DEF CopyInv
  <2>2. w \in Waiter
    BY <1>1 DEF LogInv, ElectionInv, TypeOK, HistoryTypeOK
  <2>3. w.node \in Server /\ w.index \in Nat
    BY <2>2 DEF Waiter
  <2>4. PICK l \in leaders : l[2] = w.node
    BY <2>1 DEF Holds
  <2>5. Alone(w.node)
    BY <1>1, <2>4 DEF OneLeader, Alone
  <2>6. StartsWith(log[w.node], applied[w.node])
    BY <1>1, <2>3, <2>5 DEF CopyInv, CopiesOf
  <2>7. w.index \in 1..Len(log[w.node]) /\ log[w.node][w.index] = w.entry
    BY <2>1 DEF Holds
  <2>8. applied[w.node] \in Seq(Entry)
    BY <1>1, <2>3 DEF LogInv, ElectionInv, TypeOK, NodeTypeOK
  <2>9. w.index \in 1..Len(applied[w.node])
    <3>1. Len(applied[w.node]) \in Nat
      BY <2>8
    <3>2. w.index >= 1
      BY <2>7
    <3> QED BY <2>1, <2>3, <3>1, <3>2
  <2>10. applied[w.node][w.index] = log[w.node][w.index]
    BY <2>6, <2>9 DEF StartsWith
  <2> QED BY <2>1, <2>7, <2>10
<1>2. LogInv /\ OneLeader /\ CopyInv => AckedIsApplied
  BY <1>1
<1> QED BY <1>2, CopyInvHolds, PTL

\* Some node's log holds everything.
LEMMA SomeoneAlone ==
  ASSUME TypeOK, OneLeader PROVE \E n \in Server : Alone(n)
<1>1. CASE leaders = {}
  <2>1. PICK n \in Server : TRUE
    BY SomeServer
  <2> QED BY <1>1, <2>1 DEF Alone
<1>2. CASE leaders # {}
  <2>1. PICK l \in leaders : TRUE
    BY <1>2
  <2>2. l[2] \in Server
    BY LeaderPair
  <2> QED BY <2>2 DEF Alone, OneLeader
<1> QED BY <1>1, <1>2

\* State machine safety with one leader: no two nodes apply different entries
\* at one index, restarts and their replay of the whole log included.
THEOREM OneLeaderAgrees == Spec /\ []OneLeader => []StateMachineSafety
<1>1. ASSUME LogInv, OneLeader, CopyInv PROVE StateMachineSafety
  <2>0. TypeOK
    BY <1>1 DEF LogInv, ElectionInv
  <2> SUFFICES ASSUME NEW n \in Server, NEW p \in Server,
                      NEW i \in 1..MinOf(Len(applied[n]), Len(applied[p]))
               PROVE  applied[n][i] = applied[p][i]
    BY DEF StateMachineSafety
  <2>1. PICK x \in Server : Alone(x)
    BY <1>1, <2>0, SomeoneAlone
  <2>2. StartsWith(log[x], applied[n]) /\ StartsWith(log[x], applied[p])
    BY <1>1, <2>1 DEF CopyInv, CopiesOf
  <2>3. applied[n] \in Seq(Entry) /\ applied[p] \in Seq(Entry)
    BY <2>0 DEF TypeOK, NodeTypeOK
  <2>4. Len(applied[n]) \in Nat /\ Len(applied[p]) \in Nat
    BY <2>3
  <2>5. i \in 1..Len(applied[n]) /\ i \in 1..Len(applied[p])
    BY <2>4 DEF MinOf
  <2>6. applied[n][i] = log[x][i] /\ applied[p][i] = log[x][i]
    BY <2>2, <2>5 DEF StartsWith
  <2> QED BY <2>6
<1>2. LogInv /\ OneLeader /\ CopyInv => StateMachineSafety
  BY <1>1
<1> QED BY <1>2, CopyInvHolds, PTL

(***************************************************************************)
(* One leader and no restart: what is applied is committed.  A commit      *)
(* index is raised by a request, which announces one, or by a leader that  *)
(* counts.                                                                 *)
(***************************************************************************)
Announces(m) == (m \in late /\ m.type # "vote") \/ SentBeat(m) \/ SentAppend(m)

LEMMA AnnouncedByLeader ==
  ASSUME TypeOK, SpokenByLeaders, NEW m, Announces(m)
  PROVE  <<m.term, m.from>> \in leaders /\ m.from # m.to
<1>1. CASE m \in late /\ m.type # "vote"
  BY <1>1 DEF SpokenByLeaders
<1>2. CASE SentBeat(m)
  <2>0. PICK k \in ticks : \E p \in k.todo : m = Heartbeat(k, p)
    BY <1>2 DEF SentBeat
  <2>1. PICK p \in k.todo : m = Heartbeat(k, p)
    BY <2>0
  <2>2. m.term = k.term /\ m.from = k.node /\ m.to = p
    BY <2>1 DEF Heartbeat
  <2> QED BY <2>2 DEF SpokenByLeaders
<1>3. CASE SentAppend(m)
  <2>0. PICK c \in calls : \E p \in c.rd.todo : m = AppendEntries(c, p)
    BY <1>3 DEF SentAppend
  <2>1. PICK p \in c.rd.todo : m = AppendEntries(c, p)
    BY <2>0
  <2>2. m.term = c.rd.term /\ m.from = c.node /\ m.to = p
    BY <2>1 DEF AppendEntries
  <2> QED BY <2>2 DEF SpokenByLeaders
<1> QED BY <1>1, <1>2, <1>3 DEF Announces

LEMMA AnnouncedBehind ==
  ASSUME TypeOK, NEW n \in Server, BehindOf(n), NEW m, Announces(m)
  PROVE  m.commit \in Nat /\ m.commit <= commitIndex[n]
<1>1. CASE m \in late /\ m.type # "vote"
  BY <1>1 DEF BehindOf, TypeOK, CallTypeOK, VoteMsg, BeatMsg, AppMsg
<1>2. CASE SentBeat(m)
  <2>0. PICK k \in ticks : \E p \in k.todo : m = Heartbeat(k, p)
    BY <1>2 DEF SentBeat
  <2>1. m.commit = k.commit
    BY <2>0 DEF Heartbeat
  <2>2. k.commit \in Nat
    BY DEF TypeOK, CallTypeOK, Tick
  <2> QED BY <2>1, <2>2 DEF BehindOf
<1>3. CASE SentAppend(m)
  <2>0. PICK c \in calls : \E p \in c.rd.todo : m = AppendEntries(c, p)
    BY <1>3 DEF SentAppend
  <2>1. m.commit = commitIndex[c.node]
    BY <2>0 DEF AppendEntries
  <2>2. c.node \in Server /\ commitIndex[c.node] \in Nat
    BY CallFields DEF TypeOK, NodeTypeOK
  <2> QED BY <2>1, <2>2 DEF BehindOf
<1> QED BY <1>1, <1>2, <1>3 DEF Announces

\* The ways commit indexes move.
CommitSame ==
  /\ commitIndex' = commitIndex /\ committed' = committed
  /\ \/ peerLast' = peerLast
     \/ \E x \in Server : peerLast' = [peerLast EXCEPT ![x] = [p \in Server |-> 0]]

Told(p, m, j) ==
  /\ Announces(m) /\ m.to = p
  /\ commitIndex' = [commitIndex EXCEPT ![p] = j]
  /\ j = commitIndex[p] \/ j <= m.commit
  /\ committed' = committed /\ peerLast' = peerLast

Counts(n, match) ==
  /\ role[n] = Leader /\ log' = log
  /\ peerLast' = [peerLast EXCEPT ![n] = match]
  /\ LeaderCommits(n, AdvanceCommit(n, match))
  /\ \A q \in Server : \/ match[q] = peerLast[n][q]
                       \/ \E k \in ticks : match[q] = k.last[q]
                       \/ \E c \in calls : match[q] <= Len(c.rd.log)

CommitKinds ==
  \/ CommitSame
  \/ \E p \in Server, j \in Nat : \E m : Told(p, m, j)
  \/ \E n \in Server, match \in [Server -> Nat] : Counts(n, match)

LEMMA BeatTold ==
  ASSUME TypeOK, NEW p \in Server, NEW m, m.commit \in Nat, Announces(m), m.to = p,
         OnHeartbeat(p, m)
  PROVE  CommitKinds
<1> DEFINE accept == \/ m.term > currentTerm[p]
                     \/ m.term = currentTerm[p] /\ role[p] # Leader
           j == IF accept /\ m.commit > commitIndex[p] /\ m.commit <= Len(log[p])
                THEN m.commit ELSE commitIndex[p]
<1>1. commitIndex[p] \in Nat
  BY DEF TypeOK, NodeTypeOK
<1> HIDE DEF accept
<1>2. j \in Nat /\ (j = commitIndex[p] \/ j = m.commit)
  BY <1>1
<1>3. j \in Nat /\ (j = commitIndex[p] \/ j <= m.commit)
  BY <1>2
<1>4. commitIndex' = [commitIndex EXCEPT ![p] = j] /\ committed' = committed /\ peerLast' = peerLast
  BY DEF OnHeartbeat, accept, history, peerVars
<1> HIDE DEF j
<1>5. Told(p, m, j)
  BY <1>3, <1>4 DEF Told
<1> QED BY <1>3, <1>5 DEF CommitKinds

LEMMA AppendTold ==
  ASSUME TypeOK, TypeOK', NEW p \in Server, NEW m, m.commit \in Nat, Announces(m), m.to = p,
         OnAppendEntries(p, m)
  PROVE  CommitKinds
<1> DEFINE taken == AcceptsEntries(p, m)
           merged == IF taken THEN MergedLog(log[p], m) ELSE log[p]
           advance == taken /\ m.commit > commitIndex[p]
           j == IF advance THEN MinOf(m.commit, Len(merged)) ELSE commitIndex[p]
<1>1. /\ commitIndex' = [commitIndex EXCEPT ![p] = j] /\ committed' = committed
      /\ peerLast' = peerLast /\ log' = [log EXCEPT ![p] = merged]
  BY DEF OnAppendEntries, history, peerVars
<1>2. merged = log'[p]
  BY <1>1 DEF TypeOK, NodeTypeOK
<1>3. Len(merged) \in Nat
  <2>1. log'[p] \in Seq(Entry)
    BY DEF TypeOK, NodeTypeOK
  <2>2. Len(log'[p]) \in Nat
    BY <2>1
  <2> HIDE DEF merged
  <2> QED BY <1>2, <2>2
<1>4. commitIndex[p] \in Nat
  BY DEF TypeOK, NodeTypeOK
<1> HIDE DEF merged, advance
<1>5. j \in Nat /\ (j = commitIndex[p] \/ j <= m.commit)
  BY <1>3, <1>4 DEF MinOf
<1> HIDE DEF j
<1>6. Told(p, m, j)
  BY <1>1, <1>5 DEF Told
<1> QED BY <1>5, <1>6 DEF CommitKinds

LEMMA HeartbeatCounts ==
  ASSUME TypeOK, NEW k \in ticks, RecordHeartbeats(k)
  PROVE  CommitKinds
<1> DEFINE n == k.node
           match == [p \in Server |-> IF p \in k.acks THEN k.last[p] ELSE peerLast[n][p]]
<1>1. n \in Server /\ k.last \in [Server -> Nat] /\ peerLast[n] \in [Server -> Nat]
  BY DEF TypeOK, NodeTypeOK, CallTypeOK, Tick
<1>2. match \in [Server -> Nat]
  BY <1>1
<1>3. \A q \in Server : match[q] = peerLast[n][q] \/ match[q] = k.last[q]
  OBVIOUS
<1>4. /\ role[n] = Leader /\ log' = log /\ peerLast' = [peerLast EXCEPT ![n] = match]
      /\ LeaderCommits(n, AdvanceCommit(n, match))
  BY DEF RecordHeartbeats, SameLeadership
<1> HIDE DEF n, match
<1>5. Counts(n, match)
  BY <1>3, <1>4 DEF Counts
<1> QED BY <1>1, <1>2, <1>5 DEF CommitKinds

LEMMA RoundCounts ==
  ASSUME TypeOK, NEW c \in calls, ReplicateDone(c)
  PROVE  CommitKinds
<1> DEFINE n == c.node
           sent(p) == MinOf(Len(c.rd.log), c.rd.next[p] + MaxBatch - 1)
           match == [p \in Server |-> IF p \in c.rd.acks THEN sent(p) ELSE peerLast[n][p]]
<1>0. c.rd \in Round /\ n \in Server
  BY CallFields
<1>1. c.rd.next \in [Server -> Nat \ {0}] /\ Len(c.rd.log) \in Nat
      /\ peerLast[n] \in [Server -> Nat]
  BY <1>0, LogTypes DEF Round, TypeOK, NodeTypeOK
<1>2. ASSUME NEW p \in Server PROVE sent(p) \in Nat /\ sent(p) <= Len(c.rd.log)
  <2>1. c.rd.next[p] \in Nat \ {0} /\ MaxBatch \in Nat \ {0}
    BY <1>1, BoundAssumption
  <2> QED BY <1>1, <2>1 DEF MinOf
<1>4. /\ role[n] = Leader /\ log' = log /\ peerLast' = [peerLast EXCEPT ![n] = match]
      /\ LeaderCommits(n, AdvanceCommit(n, match))
  BY DEF ReplicateDone
<1> HIDE DEF n, sent
<1>3. match \in [Server -> Nat]
  BY <1>1, <1>2
<1>5. \A q \in Server : match[q] = peerLast[n][q] \/ match[q] <= Len(c.rd.log)
  BY <1>2
<1> HIDE DEF match
<1>7. \A q \in Server : \/ match[q] = peerLast[n][q]
                        \/ \E d \in calls : match[q] <= Len(d.rd.log)
  BY <1>5
<1>6. Counts(n, match)
  BY <1>4, <1>7 DEF Counts
<1> QED BY <1>0, <1>3, <1>6 DEF CommitKinds, n

LEMMA CommitStepKinds ==
  ASSUME TypeOK, TypeOK', Next, Mortal = {}
  PROVE  CommitKinds
<1>1. ASSUME commitIndex' = commitIndex, committed' = committed, peerLast' = peerLast
      PROVE  CommitKinds
  BY <1>1 DEF CommitKinds, CommitSame
<1>2. ASSUME NEW n \in Server, StartElection(n) \/ ElectionStep(n) \/ HeartbeatTick(n)
      PROVE  CommitKinds
  <2>1. CASE ElectionWon(n)
    <3>1. /\ commitIndex' = commitIndex /\ committed' = committed
          /\ peerLast' = [peerLast EXCEPT ![n] = [p \in Server |-> 0]]
      BY <2>1 DEF ElectionWon, BecomeLeader, EndElection, logVars
    <3> QED BY <3>1 DEF CommitKinds, CommitSame
  <2>2. CASE ~ElectionWon(n)
    <3>1. commitIndex' = commitIndex /\ committed' = committed /\ peerLast' = peerLast
      BY <1>2, <2>2 DEF StartElection, ElectionStep, SendVoteRequest, VoteRequestFails,
         OnRequestVote, ElectionDeposed, ElectionOvertaken, ElectionLost, EndElection,
         HeartbeatTick, logVars, peerVars, history
    <3> QED BY <1>1, <3>1
  <2> QED BY <2>1, <2>2
<1>3. ASSUME NEW k \in ticks, HeartbeatStep(k) PROVE CommitKinds
  <2>0. k.commit \in Nat /\ k.todo \subseteq Server
    BY DEF TypeOK, CallTypeOK, Tick
  <2>1. ASSUME NEW p \in k.todo, SendHeartbeat(k, p) PROVE CommitKinds
    <3>1. PICK m : m = Heartbeat(k, p)
      OBVIOUS
    <3>2. m.commit = k.commit /\ m.to = p
      BY <3>1 DEF Heartbeat
    <3>3. Announces(m)
      BY <3>1 DEF Announces, SentBeat
    <3>4. OnHeartbeat(p, m)
      BY <2>1, <3>1 DEF SendHeartbeat
    <3> QED BY <2>0, <3>2, <3>3, <3>4, BeatTold
  <2>2. ASSUME NEW p \in k.todo, HeartbeatFails(k, p) PROVE CommitKinds
    BY <1>1, <2>2 DEF HeartbeatFails, logVars, peerVars, history
  <2>3. CASE HeartbeatStale(k) \/ HeartbeatDeposed(k)
    BY <1>1, <2>3 DEF HeartbeatStale, HeartbeatDeposed, logVars, peerVars, history
  <2>4. CASE HeartbeatDone(k) \/ CheckQuorumStepDown(k)
    BY <2>4, HeartbeatCounts DEF HeartbeatDone, CheckQuorumStepDown
  <2> QED BY <1>3, <2>1, <2>2, <2>3, <2>4 DEF HeartbeatStep
<1>4. ASSUME NEW c \in calls, ReplicateStep(c) PROVE CommitKinds
  <2>0. c.node \in Server /\ c.rd.todo \subseteq Server /\ commitIndex[c.node] \in Nat
    BY CallFields DEF Round, TypeOK, NodeTypeOK
  <2>1. ASSUME NEW p \in c.rd.todo, SendAppendEntries(c, p) PROVE CommitKinds
    <3>1. PICK m : m = AppendEntries(c, p)
      OBVIOUS
    <3>2. m.commit = commitIndex[c.node] /\ m.to = p
      BY <3>1 DEF AppendEntries
    <3>3. Announces(m)
      BY <3>1 DEF Announces, SentAppend
    <3>4. OnAppendEntries(p, m)
      BY <2>1, <3>1 DEF SendAppendEntries
    <3>5. m.commit \in Nat /\ p \in Server
      BY <2>0, <3>2
    <3> QED BY <3>2, <3>3, <3>4, <3>5, AppendTold
  <2>2. ASSUME NEW p \in c.rd.todo, AppendEntriesFails(c, p) \/ SkipPeer(c, p) PROVE CommitKinds
    BY <1>1, <2>2 DEF AppendEntriesFails, SkipPeer, logVars, peerVars, history
  <2>3. CASE NotLeaderReturn(c) \/ ReplicateRound(c) \/ ReplicateDeposed(c) \/ ReplicateOvertaken(c)
    BY <1>1, <2>3 DEF NotLeaderReturn, ReplicateRound, ReplicateDeposed, ReplicateOvertaken,
       logVars, peerVars, history
  <2>4. CASE ReplicateDone(c)
    BY <2>4, RoundCounts
  <2>5. CASE CoordinatorCheck(c)
    BY <1>1, <2>5 DEF CoordinatorCheck, peerVars
  <2> QED BY <1>4, <2>1, <2>2, <2>3, <2>4, <2>5 DEF ReplicateStep
<1>5. ASSUME NEW n \in Server,
             \/ \E v \in Value : SubmitEntry(n, v)
             \/ \E batch \in SUBSET waiting : CoordinatorCommit(n, batch)
      PROVE  CommitKinds
  BY <1>1, <1>5 DEF SubmitEntry, CoordinatorCommit, logVars, peerVars, history
<1>6. ASSUME NEW m \in late, HandleLate(m) PROVE CommitKinds
  <2>0. m.to \in Server /\ (m.type # "vote" => m.commit \in Nat)
    BY DEF TypeOK, CallTypeOK, VoteMsg, BeatMsg, AppMsg
  <2>1. CASE m.type = "vote" /\ OnRequestVote(m.to, m)
    BY <1>1, <2>1 DEF OnRequestVote, logVars, peerVars
  <2>2. CASE m.type = "heartbeat" /\ OnHeartbeat(m.to, m)
    <3>1. Announces(m) /\ m.commit \in Nat
      BY <2>0, <2>2 DEF Announces
    <3> QED BY <2>0, <2>2, <3>1, BeatTold
  <2>3. CASE m.type = "append" /\ OnAppendEntries(m.to, m)
    <3>1. Announces(m) /\ m.commit \in Nat
      BY <2>0, <2>3 DEF Announces
    <3> QED BY <2>0, <2>3, <3>1, AppendTold
  <2> QED BY <1>6, <2>1, <2>2, <2>3 DEF HandleLate
<1>7. ASSUME NEW n \in Server, Restart(n) PROVE CommitKinds
  BY <1>7 DEF Restart
<1> QED BY <1>2, <1>3, <1>4, <1>5, <1>6, <1>7 DEF Next

\* What a heartbeat round announces and what it is told.
LEMMA TicksMove ==
  ASSUME TypeOK, Next, NEW j \in ticks'
  PROVE  /\ \/ \E k \in ticks : j.commit = k.commit
            \/ \E x \in Server : j.commit = commitIndex[x]
         /\ \A p \in Server : \/ j.last[p] = 0
                              \/ \E k \in ticks : j.last[p] = k.last[p]
                              \/ \E q \in Server : j.last[p] = Len(log[q])
<1> DEFINE Goal == /\ \/ \E k \in ticks : j.commit = k.commit
                      \/ \E x \in Server : j.commit = commitIndex[x]
                   /\ \A p \in Server : \/ j.last[p] = 0
                                        \/ \E k \in ticks : j.last[p] = k.last[p]
                                        \/ \E q \in Server : j.last[p] = Len(log[q])
<1>1. ASSUME j \in ticks PROVE Goal
  BY <1>1
<1>2. ASSUME NEW n \in Server, HeartbeatTick(n) PROVE Goal
  <2> DEFINE k == [node |-> n, term |-> currentTerm[n], commit |-> commitIndex[n],
                   todo |-> Peers(n), acks |-> {}, last |-> [p \in Server |-> 0],
                   maxTerm |-> currentTerm[n]]
  <2>1. ticks' = ticks \cup {k}
    BY <1>2 DEF HeartbeatTick
  <2>2. k.commit = commitIndex[n] /\ \A p \in Server : k.last[p] = 0
    OBVIOUS
  <2> HIDE DEF k
  <2>3. CASE j = k
    BY <2>2, <2>3
  <2> QED BY <1>1, <2>1, <2>3
<1>3. ASSUME NEW k \in ticks, NEW p \in Server, NEW r, TallyHeartbeat(k, p, r),
             r.last = 0 \/ \E q \in Server : r.last = Len(log[q])
      PROVE  Goal
  <2>0. k \in Tick /\ k.last \in [Server -> Nat]
    BY DEF TypeOK, CallTypeOK, Tick
  <2> DEFINE ack == r.ok /\ r.term = k.term
             t == [k EXCEPT !.todo = @ \ {p},
                     !.acks = IF ack THEN @ \cup {p} ELSE @,
                     !.last[p] = IF ack THEN r.last ELSE @,
                     !.maxTerm = MaxOf(@, r.term)]
  <2>1. ticks' = (ticks \ {k}) \cup {t}
    BY <1>3 DEF TallyHeartbeat
  <2> HIDE DEF ack
  <2>2. t.commit = k.commit /\ t.last = [k.last EXCEPT ![p] = IF ack THEN r.last ELSE k.last[p]]
    BY <2>0 DEF Tick
  <2> HIDE DEF t
  <2>3. \A q \in Server : t.last[q] = k.last[q] \/ t.last[q] = r.last
    BY <2>0, <2>2
  <2>4. CASE j = t
    BY <1>3, <2>2, <2>3, <2>4
  <2> QED BY <1>1, <2>1, <2>4
<1> HIDE DEF Goal
<1>4. ASSUME NEW k \in ticks, HeartbeatStep(k) PROVE Goal
  <2>0. k.todo \subseteq Server
    BY DEF TypeOK, CallTypeOK, Tick
  <2>1. ASSUME NEW p \in k.todo, SendHeartbeat(k, p) PROVE Goal
    <3>1. PICK r : r = HeartbeatResponse(p, Heartbeat(k, p))
      OBVIOUS
    <3>2. r.last = Len(log[p])
      BY <3>1 DEF HeartbeatResponse, Response
    <3>3. TallyHeartbeat(k, p, r)
      BY <2>1, <3>1 DEF SendHeartbeat
    <3> QED BY <1>3, <2>0, <3>2, <3>3
  <2>2. ASSUME NEW p \in k.todo, HeartbeatFails(k, p) PROVE Goal
    <3>1. NoResponse.last = 0
      BY DEF NoResponse, Response
    <3> QED BY <1>3, <2>0, <2>2, <3>1 DEF HeartbeatFails
  <2>3. CASE HeartbeatStale(k) \/ HeartbeatDeposed(k) \/ HeartbeatDone(k) \/ CheckQuorumStepDown(k)
    <3>1. ticks' \subseteq ticks
      BY <2>3 DEF HeartbeatStale, HeartbeatDeposed, HeartbeatDone, CheckQuorumStepDown,
         RecordHeartbeats
    <3> QED BY <1>1, <3>1
  <2> QED BY <1>4, <2>1, <2>2, <2>3 DEF HeartbeatStep
<1>5. ASSUME NEW n \in Server, StartElection(n) \/ ElectionStep(n) PROVE Goal
  <2>1. ticks' = ticks
    BY <1>5 DEF StartElection, ElectionStep, SendVoteRequest, VoteRequestFails,
       ElectionDeposed, ElectionOvertaken, ElectionLost, ElectionWon, EndElection, callVars
  <2> QED BY <1>1, <2>1
<1>6. ASSUME NEW c \in calls, ReplicateStep(c) PROVE Goal
  <2>1. ticks' = ticks
    BY <1>6 DEF ReplicateStep, NotLeaderReturn, ReplicateRound, SendAppendEntries,
       AppendEntriesFails, SkipPeer, ReplicateDeposed, ReplicateOvertaken, ReplicateDone,
       CoordinatorCheck
  <2> QED BY <1>1, <2>1
<1>7. ASSUME NEW n \in Server,
             \/ \E v \in Value : SubmitEntry(n, v)
             \/ \E batch \in SUBSET waiting : CoordinatorCommit(n, batch)
             \/ Restart(n)
      PROVE  Goal
  <2>1. ticks' \subseteq ticks
    BY <1>7 DEF SubmitEntry, CoordinatorCommit, Restart
  <2> QED BY <1>1, <2>1
<1>8. ASSUME NEW m \in late, HandleLate(m) PROVE Goal
  BY <1>1, <1>8 DEF HandleLate, callVars
<1>9. Goal
  BY <1>2, <1>4, <1>5, <1>6, <1>7, <1>8 DEF Next
<1> QED BY <1>9 DEF Goal

\* A leader counts up to its own log's end, and never back.
LEMMA CountBounds ==
  ASSUME TypeOK, NEW n \in Server, NEW match \in [Server -> Nat],
         \A q \in Server : match[q] <= Len(log[n]), commitIndex[n] <= Len(log[n])
  PROVE  /\ AdvanceCommit(n, match) \in Nat
         /\ commitIndex[n] <= AdvanceCommit(n, match)
         /\ AdvanceCommit(n, match) <= Len(log[n])
<1>0. log \in [Server -> Seq(Entry)] /\ commitIndex[n] \in Nat /\ Len(log[n]) \in Nat
  BY LogTypes DEF TypeOK, NodeTypeOK
<1>1. PICK j : j = MajorityReach(n, match)
  OBVIOUS
<1>2. j \in Nat /\ j \in Reached(n, match, Majority)
  BY <1>0, <1>1, MajorityReachType
<1> DEFINE reach == [s \in Server |-> IF s = n THEN Len(log[n]) ELSE match[s]]
<1>3. Reached(n, match, Majority) =
        {i \in {0} \cup {reach[s] : s \in Server} :
           Cardinality({s \in Server : reach[s] >= i}) >= Majority}
  BY DEF Reached
<1>4. \A s \in Server : reach[s] <= Len(log[n])
  BY <1>0
<1> HIDE DEF reach
<1>5. j \in {0} \cup {reach[s] : s \in Server}
  BY <1>2, <1>3, Zenon
<1>6. j <= Len(log[n])
  BY <1>0, <1>4, <1>5
<1>7. \/ AdvanceCommit(n, match) = commitIndex[n]
      \/ AdvanceCommit(n, match) = j /\ j > commitIndex[n]
  BY <1>1 DEF AdvanceCommit
<1> QED BY <1>0, <1>2, <1>6, <1>7

LEMMA CommitBehind ==
  ASSUME LogInv, Next, Mortal = {}, NEW n \in Server, Alone(n), CopiesOf(n), BehindOf(n)
  PROVE  /\ commitIndex[n] <= commitIndex'[n] /\ commitIndex'[n] <= Len(log'[n])
         /\ \A i \in 1..commitIndex'[n] : <<i, log'[n][i]>> \in committed'
         /\ \A p \in Server : commitIndex'[p] <= commitIndex'[n] /\ peerLast'[n][p] <= Len(log'[n])
<1>0. /\ TypeOK /\ TypeOK' /\ SpokenByLeaders
      /\ \A p \in Server : /\ log[p] \in Seq(Entry) /\ log'[p] \in Seq(Entry)
                           /\ commitIndex[p] \in Nat /\ commitIndex'[p] \in Nat
  BY CopyTypes
<1>1. PICK l, k, a : l = log[n] /\ k = log'[n] /\ a = commitIndex[n]
  OBVIOUS
<1>2. l \in Seq(Entry) /\ k \in Seq(Entry) /\ StartsWith(k, l) /\ a \in Nat
  BY <1>0, <1>1, AloneLogs
<1>3. Len(l) \in Nat /\ Len(k) \in Nat /\ Len(l) <= Len(k) /\ \A i \in 1..Len(l) : k[i] = l[i]
  BY <1>2 DEF StartsWith
<1>4. /\ a <= Len(l) /\ \A i \in 1..a : <<i, l[i]>> \in committed
      /\ \A p \in Server : commitIndex[p] <= a /\ peerLast[n][p] <= Len(l)
      /\ \A j \in ticks, p \in Server : j.last[p] <= Len(l)
  BY <1>1 DEF BehindOf
<1>5. \A p \in Server : peerLast[n][p] \in Nat
  BY <1>0 DEF TypeOK, NodeTypeOK
<1>6. commitIndex \in [Server -> Nat] /\ peerLast \in [Server -> [Server -> Nat]]
  BY <1>0 DEF TypeOK, NodeTypeOK
<1>7. \A i \in 1..a : <<i, k[i]>> \in committed
  BY <1>2, <1>3, <1>4
<1>8. a <= Len(k) /\ \A p \in Server : peerLast[n][p] <= Len(k)
  BY <1>2, <1>3, <1>4, <1>5
<1>9. CASE CommitSame
  <2>1. commitIndex' = commitIndex /\ committed' = committed
    BY <1>9 DEF CommitSame
  <2>2. \A p \in Server : peerLast'[n][p] = peerLast[n][p] \/ peerLast'[n][p] = 0
    BY <1>6, <1>9 DEF CommitSame
  <2>3. \A p \in Server : peerLast'[n][p] <= Len(k)
    BY <1>3, <1>8, <2>2
  <2> QED BY <1>1, <1>2, <1>4, <1>7, <1>8, <2>1, <2>3
<1>10. ASSUME NEW x \in Server, NEW j \in Nat, NEW m, Told(x, m, j)
       PROVE  /\ commitIndex'[n] = a /\ committed' = committed
              /\ \A p \in Server : commitIndex'[p] <= a /\ peerLast'[n][p] <= Len(k)
  <2>1. /\ Announces(m) /\ m.to = x /\ commitIndex' = [commitIndex EXCEPT ![x] = j]
        /\ j = commitIndex[x] \/ j <= m.commit
        /\ committed' = committed /\ peerLast' = peerLast
    BY <1>10 DEF Told
  <2>2. <<m.term, m.from>> \in leaders /\ m.from # x
    BY <1>0, <2>1, AnnouncedByLeader
  <2>3. x # n
    BY <2>2 DEF Alone
  <2>4. m.commit \in Nat /\ m.commit <= a
    BY <1>0, <1>1, <2>1, AnnouncedBehind
  <2>5. j <= a
    BY <1>0, <1>2, <1>4, <2>1, <2>4
  <2>6. commitIndex'[n] = a
    BY <1>1, <1>6, <2>1, <2>3
  <2>7. \A p \in Server : commitIndex'[p] <= a
    BY <1>4, <1>6, <2>1, <2>5
  <2> QED BY <1>8, <2>1, <2>6, <2>7
<1>11. ASSUME NEW x \in Server, NEW match \in [Server -> Nat], Counts(x, match)
       PROVE  /\ a <= commitIndex'[n] /\ commitIndex'[n] <= Len(k)
              /\ \A i \in 1..commitIndex'[n] : <<i, k[i]>> \in committed'
              /\ \A p \in Server : /\ commitIndex'[p] <= commitIndex'[n]
                                   /\ peerLast'[n][p] <= Len(k)
  <2>1. role[x] = Leader /\ log' = log /\ peerLast' = [peerLast EXCEPT ![x] = match]
    BY <1>11 DEF Counts
  <2>2. x = n /\ k = l
    BY <1>0, <1>1, <2>1 DEF SpokenByLeaders, Alone
  <2>3. \A c \in calls : Len(c.rd.log) \in Nat /\ Len(c.rd.log) <= Len(l)
    BY <1>0, <1>1, LogTypes DEF CopiesOf, StartsWith
  <2>4. ASSUME NEW q \in Server PROVE match[q] <= Len(l)
    <3>1. match[q] \in Nat
      OBVIOUS
    <3>2. \/ match[q] = peerLast[n][q]
          \/ \E j \in ticks : match[q] = j.last[q]
          \/ \E c \in calls : match[q] <= Len(c.rd.log)
      BY <1>11, <2>2 DEF Counts
    <3>3. ASSUME NEW c \in calls, match[q] <= Len(c.rd.log) PROVE match[q] <= Len(l)
      BY <1>3, <2>3, <3>1, <3>3
    <3> QED BY <1>4, <3>2, <3>3
  <2>5. PICK J : J = AdvanceCommit(n, match)
    OBVIOUS
  <2>6. J \in Nat /\ a <= J /\ J <= Len(l)
    BY <1>0, <1>1, <1>4, <2>4, <2>5, CountBounds
  <2>7. /\ commitIndex' = [commitIndex EXCEPT ![n] = J]
        /\ committed' = committed \cup {<<i, l[i]>> : i \in (a + 1)..MinOf(J, Len(l))}
    BY <1>1, <1>11, <2>2, <2>5 DEF Counts, LeaderCommits
  <2>8. MinOf(J, Len(l)) = J
    BY <1>3, <2>6 DEF MinOf
  <2>9. commitIndex'[n] = J
    BY <1>6, <2>7
  <2>10. \A p \in Server : p = n \/ commitIndex'[p] = commitIndex[p]
    BY <1>6, <2>7
  <2>11. \A p \in Server : commitIndex'[p] <= J
    BY <1>0, <1>2, <1>4, <2>6, <2>9, <2>10
  <2>12. \A p \in Server : peerLast'[n][p] <= Len(k)
    BY <1>6, <2>1, <2>2, <2>4
  <2>13. ASSUME NEW i \in 1..J PROVE <<i, k[i]>> \in committed'
    <3>1. CASE i \in 1..a
      BY <1>7, <2>7, <3>1
    <3>2. CASE i \notin 1..a
      <4>1. i \in (a + 1)..MinOf(J, Len(l))
        BY <1>2, <2>6, <2>8, <3>2
      <4> QED BY <2>2, <2>7, <4>1
    <3> QED BY <3>1, <3>2
  <2> QED BY <2>2, <2>6, <2>9, <2>11, <2>12, <2>13
<1>12. CASE \E x \in Server, j \in Nat : \E m : Told(x, m, j)
  BY <1>1, <1>2, <1>7, <1>8, <1>10, <1>12
<1>13. CASE \E x \in Server, match \in [Server -> Nat] : Counts(x, match)
  BY <1>1, <1>11, <1>13
<1> QED BY <1>0, <1>9, <1>12, <1>13, CommitStepKinds DEF CommitKinds

LEMMA BehindStep ==
  ASSUME LogInv, Next, Mortal = {}, NEW n \in Server, Alone(n), CopiesOf(n), BehindOf(n)
  PROVE  BehindOf(n)'
<1>0. /\ TypeOK /\ TypeOK'
      /\ \A p \in Server : /\ log[p] \in Seq(Entry) /\ log'[p] \in Seq(Entry)
                           /\ applied[p] \in Seq(Entry) /\ applied'[p] \in Seq(Entry)
                           /\ commitIndex[p] \in Nat /\ commitIndex'[p] \in Nat
  BY CopyTypes
<1>1. PICK l, k, a, b : l = log[n] /\ k = log'[n] /\ a = commitIndex[n] /\ b = commitIndex'[n]
  OBVIOUS
<1>2. l \in Seq(Entry) /\ k \in Seq(Entry) /\ StartsWith(k, l) /\ a \in Nat /\ b \in Nat
  BY <1>0, <1>1, AloneLogs
<1>3. Len(l) \in Nat /\ Len(k) \in Nat /\ Len(l) <= Len(k)
  BY <1>2 DEF StartsWith
<1>4. /\ a <= b /\ b <= Len(k) /\ \A i \in 1..b : <<i, k[i]>> \in committed'
      /\ \A p \in Server : commitIndex'[p] <= b /\ peerLast'[n][p] <= Len(k)
  BY <1>1, CommitBehind
<1>5. ASSUME NEW p \in Server PROVE Len(applied'[p]) <= b
  <2>1. PICK done, s, j : done = applied[p] /\ s = log'[p] /\ j = commitIndex'[p]
    OBVIOUS
  <2>2. done \in Seq(Entry) /\ s \in Seq(Entry) /\ j \in Nat /\ applied'[p] \in Seq(Entry)
    BY <1>0, <2>1
  <2>3. Len(done) \in Nat /\ Len(applied'[p]) \in Nat
    BY <2>2
  <2>4. Len(done) <= a /\ j <= b
    BY <1>1, <1>4, <2>1 DEF BehindOf
  <2>5. ~Restart(p)
    BY DEF Restart
  <2>6. applied'[p] = done \/ applied'[p] = Apply(done, s, j)
    BY <1>0, <2>1, <2>5, AppliedMoves DEF ApplyMoves
  <2>7. Len(applied'[p]) <= Len(done) \/ Len(applied'[p]) <= j
    <3>1. PICK r : r = Apply(done, s, j)
      OBVIOUS
    <3>2. Len(r) <= Len(done) \/ Len(r) <= j
      BY <2>2, <3>1, ApplyLength
    <3>3. CASE applied'[p] = done
      BY <2>3, <3>3
    <3>4. CASE applied'[p] = r
      BY <3>2, <3>4
    <3> QED BY <2>6, <3>1, <3>3, <3>4
  <2> QED BY <1>2, <1>4, <2>2, <2>3, <2>4, <2>7
<1>6. ASSUME NEW j \in ticks' PROVE j.commit <= b /\ \A p \in Server : j.last[p] <= Len(k)
  <2>0. j.commit \in Nat /\ \A p \in Server : j.last[p] \in Nat
    BY <1>0 DEF TypeOK, CallTypeOK, Tick
  <2>1. j.commit <= a
    <3>1. \A t \in ticks : t.commit <= a
      BY <1>1 DEF BehindOf
    <3>2. \A x \in Server : commitIndex[x] <= a
      BY <1>1 DEF BehindOf
    <3> QED BY <1>0, <3>1, <3>2, TicksMove
  <2>2. ASSUME NEW p \in Server PROVE j.last[p] <= Len(l)
    <3>1. \A t \in ticks : t.last[p] <= Len(l)
      BY <1>1 DEF BehindOf
    <3>2. \A q \in Server : Len(log[q]) <= Len(l)
      BY <1>1 DEF CopiesOf, StartsWith
    <3>3. \/ j.last[p] = 0
          \/ \E t \in ticks : j.last[p] = t.last[p]
          \/ \E q \in Server : j.last[p] = Len(log[q])
      BY <1>0, TicksMove
    <3> QED BY <1>3, <3>1, <3>2, <3>3
  <2>3. j.commit <= b
    BY <1>2, <1>4, <2>0, <2>1
  <2>4. \A p \in Server : j.last[p] <= Len(k)
    BY <1>3, <2>0, <2>2
  <2> QED BY <2>3, <2>4
<1>7. ASSUME NEW m \in late', m.type # "vote" PROVE m.commit <= b
  <2>1. RequestsKept
    BY <1>0, LogStepKinds
  <2>2. Announces(m)
    BY <1>7, <2>1 DEF RequestsKept, LateKept, Announces
  <2>3. m.commit \in Nat /\ m.commit <= a
    BY <1>0, <1>1, <2>2, AnnouncedBehind
  <2> QED BY <1>2, <1>4, <2>3
<1> QED BY <1>1, <1>4, <1>5, <1>6, <1>7 DEF BehindOf

LEMMA BehindInvHolds == Mortal = {} => (Spec /\ []OneLeader => [](CopyInv /\ BehindInv))
<1> SUFFICES ASSUME Mortal = {} PROVE Spec /\ []OneLeader => [](CopyInv /\ BehindInv)
  OBVIOUS
<1>1. ASSUME Init PROVE BehindInv
  <2>1. ASSUME NEW n \in Server
        PROVE  log[n] = <<>> /\ commitIndex[n] = 0 /\ applied[n] = <<>>
               /\ \A p \in Server : peerLast[n][p] = 0
    BY <1>1 DEF Init
  <2>2. Len(<<>>) = 0 /\ 1..0 = {}
    OBVIOUS
  <2>3. ticks = {} /\ late = {}
    BY <1>1 DEF Init
  <2> QED BY <2>1, <2>2, <2>3 DEF BehindInv, BehindOf
<1>2. ASSUME LogInv, CopyInv, BehindInv, [Next]_vars PROVE BehindInv'
  <2>1. CASE UNCHANGED vars
    BY <1>2, <2>1 DEF BehindInv, Alone, BehindOf, vars, logVars, peerVars, callVars, history
  <2>2. CASE Next
    <3>1. ASSUME NEW n \in Server, Alone(n)' PROVE BehindOf(n)'
      <4>1. leaders \subseteq leaders'
        BY <1>2, <2>2, CopyTypes
      <4>2. Alone(n)
        BY <3>1, <4>1 DEF Alone
      <4>3. CopiesOf(n) /\ BehindOf(n)
        BY <1>2, <4>2 DEF CopyInv, BehindInv
      <4> QED BY <1>2, <2>2, <4>2, <4>3, BehindStep
    <3> QED BY <3>1 DEF BehindInv
  <2> QED BY <1>2, <2>1, <2>2
<1>3. LogInv /\ CopyInv /\ BehindInv /\ [Next]_vars => BehindInv'
  BY <1>2
<1>4. Init => BehindInv
  BY <1>1
<1> QED BY <1>3, <1>4, CopyInvHolds, PTL DEF Spec

\* With one leader and no restart, only what that leader committed is applied,
\* however heartbeat rounds, late requests and overlapping rounds mix
\* (OnHeartbeat, OnAppendEntries, AdvanceCommitIndexLocked).
THEOREM OneLeaderAppliesCommitted ==
  Mortal = {} => (Spec /\ []OneLeader => []AppliedIsCommitted)
<1> SUFFICES ASSUME Mortal = {} PROVE Spec /\ []OneLeader => []AppliedIsCommitted
  OBVIOUS
<1>1. ASSUME TypeOK, OneLeader, CopyInv, BehindInv PROVE AppliedIsCommitted
  <2> SUFFICES ASSUME NEW p \in Server, NEW i \in 1..Len(applied[p])
               PROVE  <<i, applied[p][i]>> \in committed
    BY DEF AppliedIsCommitted
  <2>1. PICK n \in Server : Alone(n)
    BY <1>1, SomeoneAlone
  <2>2. StartsWith(log[n], applied[p])
    BY <1>1, <2>1 DEF CopyInv, CopiesOf
  <2>3. /\ Len(applied[p]) <= commitIndex[n]
        /\ \A j \in 1..commitIndex[n] : <<j, log[n][j]>> \in committed
    BY <1>1, <2>1 DEF BehindInv, BehindOf
  <2>4. applied[p] \in Seq(Entry) /\ commitIndex[n] \in Nat
    BY <1>1 DEF TypeOK, NodeTypeOK
  <2>5. Len(applied[p]) \in Nat
    BY <2>4
  <2>6. i \in 1..commitIndex[n]
    BY <2>3, <2>4, <2>5
  <2>7. applied[p][i] = log[n][i]
    BY <2>2 DEF StartsWith
  <2> QED BY <2>3, <2>6, <2>7
<1>2. TypeOK /\ OneLeader /\ CopyInv /\ BehindInv => AppliedIsCommitted
  BY <1>1
<1> QED BY <1>2, BehindInvHolds, TypeCorrect, PTL

(***************************************************************************)
(* The condition from the constants: one server whose timer may fire.      *)
(***************************************************************************)
LedByEligible ==
  /\ \A n \in Server : election[n].on => n \in Eligible
  /\ \A l \in leaders : l[2] \in Eligible

LEMMA EligibleStep ==
  ASSUME TypeOK, LedByEligible, [Next]_vars PROVE LedByEligible'
<1>0. election \in [Server -> Election]
  BY DEF TypeOK, CallTypeOK
<1>1. CASE UNCHANGED vars
  BY <1>1 DEF LedByEligible, vars, history
<1>2. CASE Quiet
  BY <1>2 DEF Quiet, LedByEligible
<1>3. ASSUME NEW n \in Server, StartElection(n) PROVE LedByEligible'
  <2>1. n \in Eligible /\ leaders' = leaders
        /\ \E e : election' = [election EXCEPT ![n] = e]
    BY <1>3 DEF StartElection
  <2>2. \A p \in Server \ {n} : election'[p] = election[p]
    BY <1>0, <2>1
  <2> QED BY <2>1, <2>2 DEF LedByEligible
<1>4. ASSUME NEW n \in Server, ElectionWon(n) PROVE LedByEligible'
  <2>1. /\ election[n].on /\ leaders' = leaders \cup {<<currentTerm[n], n>>}
        /\ election' = [election EXCEPT ![n] = NoElection]
    BY <1>4 DEF ElectionWon, Tallied, BecomeLeader, EndElection
  <2>2. \A p \in Server : election'[p].on => election[p].on
    BY <2>1, NoElectionFields
  <2> QED BY <2>1, <2>2 DEF LedByEligible
<1>5. ASSUME NEW p \in Server, NEW m \in VoteMsg, VoteStep(p, m) PROVE LedByEligible'
  <2>0. m.from \in Server
    BY DEF VoteMsg
  <2>1. leaders' = leaders
    BY <1>5 DEF VoteStep, OnRequestVote
  <2>2. ASSUME NEW r, TallyVote(m.from, p, r)
        PROVE  \A q \in Server : election'[q].on = election[q].on
    <3>1. election'[m.from].on = election[m.from].on
      BY <1>0, <2>0, <2>2, TallyVoteFields
    <3>2. \A q \in Server \ {m.from} : election'[q] = election[q]
      BY <1>0, <2>0, <2>2, TallyVoteFields
    <3> QED BY <3>1, <3>2
  <2>3. \A q \in Server : election'[q].on = election[q].on
    BY <1>5, <2>2 DEF VoteStep
  <2> QED BY <2>1, <2>3 DEF LedByEligible
<1> QED BY <1>1, <1>2, <1>3, <1>4, <1>5, StepKinds

LEMMA OneEligibleLeads == (\A x, y \in Eligible : x = y) => (Spec => []OneLeader)
<1> SUFFICES ASSUME \A x, y \in Eligible : x = y PROVE Spec => []OneLeader
  OBVIOUS
<1>1. Init => LedByEligible
  BY DEF Init, NoElection, LedByEligible
<1>2. TypeOK /\ LedByEligible /\ [Next]_vars => LedByEligible'
  BY EligibleStep
<1>3. LedByEligible => OneLeader
  BY DEF LedByEligible, OneLeader
<1> QED BY <1>1, <1>2, <1>3, TypeCorrect, PTL DEF Spec

\* The same from the constants alone (raft_one_term is one such instance): with
\* one server whose election timer fires, in any number of terms, acknowledged
\* writes are applied and state machines agree, across restarts too.
THEOREM OneCandidateSafe ==
  (\A x, y \in Eligible : x = y) => (Spec => [](AckedIsApplied /\ StateMachineSafety))
BY OneEligibleLeads, AckedWritesApplied, OneLeaderAgrees, PTL

=============================================================================
