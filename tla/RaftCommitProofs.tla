-------------------------- MODULE RaftCommitProofs --------------------------
(***************************************************************************)
(* Commit safety of RaftNode: committed entries stay with a majority and   *)
(* with every later leader, and only they are applied, in the orderly      *)
(* behaviours of RaftProperties; and linearizable GETs of RaftReads: a     *)
(* confirmed GET sees every write that was committed before it.  For every *)
(* cluster, every bound and every number of GETs.                          *)
(***************************************************************************)
EXTENDS RaftReads, RaftLogProofs

USE DEF Follower, Candidate, Leader

(***************************************************************************)
(* Logs, anchors and majorities.                                           *)
(***************************************************************************)
LEMMA LinksOfCalls == \A c \in calls : LogLinks(c.rd.log) \subseteq Links
  BY DEF Links

\* Two logs with the same anchor are the same up to it.
LEMMA AnchorsMatch ==
  ASSUME LinksUnique, NEW k \in Seq(Entry), NEW l \in Seq(Entry),
         LogLinks(k) \subseteq Links, LogLinks(l) \subseteq Links,
         NEW j, NEW t, Anchored(k, j, t), Anchored(l, j, t)
  PROVE  \A i \in 1..j : k[i] = l[i]
<1>1. j \in 1..Len(k) /\ j <= Len(l) /\ k[j].term = l[j].term
  BY DEF Anchored
<1> QED BY <1>1, LinkedMatch

\* The link of an anchor is a known one.
LEMMA AnchorLink ==
  ASSUME NEW l \in Seq(Entry), LogLinks(l) \subseteq Links, NEW j, NEW t, Anchored(l, j, t)
  PROVE  \E a \in Links : a.index = j /\ a.term = t
<1> DEFINE a == Link(j, l[j], TermAt(l, j - 1))
<1>1. a \in LogLinks(l)
  BY DEF Anchored, LogLinks
<1>2. a.index = j /\ a.term = t
  BY DEF Anchored, Link
<1> QED BY <1>1, <1>2

LEMMA StartsWithAnchor ==
  ASSUME NEW l \in Seq(Entry), NEW s \in Seq(Entry), StartsWith(l, s),
         NEW j, NEW t, Anchored(s, j, t)
  PROVE  Anchored(l, j, t)
<1>1. Len(l) \in Nat /\ Len(s) \in Nat
  OBVIOUS
<1> QED BY <1>1 DEF StartsWith, Anchored

LEMMA AppendAnchor ==
  ASSUME NEW l \in Seq(Entry), NEW e \in Entry, NEW j, NEW t, Anchored(l, j, t)
  PROVE  Anchored(Append(l, e), j, t)
<1>1. Append(l, e) \in Seq(Entry) /\ StartsWith(Append(l, e), l)
  BY AppendKeeps
<1> QED BY <1>1, StartsWithAnchor

\* Two majorities share a server.
LEMMA QuorumsMeet ==
  ASSUME NEW P \in Quorums, NEW Q \in Quorums
  PROVE  P \cap Q # {}
<1> SUFFICES ASSUME P \cap Q = {} PROVE FALSE
  OBVIOUS
<1>1. /\ P \in SUBSET Server /\ Q \in SUBSET Server
      /\ Cardinality(P) >= Majority /\ Cardinality(Q) >= Majority
  BY DEF Quorums
<1>2. IsFiniteSet(P) /\ IsFiniteSet(Q) /\ P \cup Q \in SUBSET Server
  BY <1>1, ServerAssumption, FS_Subset
<1>3. Cardinality(P \cup Q) = Cardinality(P) + Cardinality(Q)
  <2>1. Cardinality(P \cup Q) = Cardinality(P) + Cardinality(Q) - Cardinality(P \cap Q)
    BY <1>2, FS_Union
  <2>2. Cardinality(P \cap Q) = 0
    BY FS_EmptySet
  <2>3. Cardinality(P) \in Nat /\ Cardinality(Q) \in Nat
    BY <1>2, FS_CardinalityType
  <2> QED BY <2>1, <2>2, <2>3
<1>4. Cardinality(P \cup Q) <= Cardinality(Server)
  BY <1>2, ServerAssumption, FS_Subset
<1>5. Cardinality(P) \in Nat /\ Cardinality(Q) \in Nat /\ Majority \in Nat
      /\ Cardinality(Server) \in Nat /\ Majority + Majority > Cardinality(Server)
  BY <1>2, FS_CardinalityType, MajorityBounds
<1> QED BY <1>1, <1>3, <1>4, <1>5

(***************************************************************************)
(* Requests.  One that carries the whole rest of the log leaves either the *)
(* peer's log, which holds all of the round's, or the round's log itself.  *)
(***************************************************************************)

\* What the request says, in terms of the round's log.
LEMMA RequestShape ==
  ASSUME TypeOK, ProgressBounded, MaxLog <= MaxBatch, NEW c \in Sending, NEW p \in Server
  PROVE  LET m == AppendEntries(c, p)
             l == c.rd.log
         IN /\ m.prev \in 0..Len(l) /\ m.prevTerm = TermAt(l, m.prev)
            /\ m.entries \in Seq(Entry) /\ m.prev + Len(m.entries) = Len(l)
            /\ \A i \in 1..Len(m.entries) : m.entries[i] = l[m.prev + i]
<1> DEFINE m == AppendEntries(c, p)
           l == c.rd.log
           next == c.rd.next[p]
           last == MinOf(Len(l), next + MaxBatch - 1)
<1>1. c \in calls /\ RoundOK(c)
  BY DEF Sending, ProgressBounded
<1>2. l \in Seq(Entry) /\ Len(l) \in Nat /\ next \in Nat \ {0}
  BY <1>1, CallFields DEF Round
<1>3. Len(l) <= MaxLog /\ next <= Len(l) + 1
  BY <1>1 DEF RoundOK
<1>4. MaxLog \in Nat /\ MaxBatch \in Nat
  BY BoundAssumption
<1>5. m.prev = next - 1 /\ m.prevTerm = TermAt(l, next - 1) /\ m.entries = SubSeq(l, next, last)
  BY DEF AppendEntries
<1> HIDE DEF m, l, next
<1>6. last = Len(l)
  BY <1>2, <1>3, <1>4 DEF MinOf
<1> HIDE DEF last
<1>7. /\ SubSeq(l, next, Len(l)) \in Seq(Entry)
      /\ Len(SubSeq(l, next, Len(l))) = Len(l) - next + 1
      /\ \A i \in 1..(Len(l) - next + 1) : SubSeq(l, next, Len(l))[i] = l[next + i - 1]
  BY <1>2, <1>3
<1>8. \A i \in 1..Len(m.entries) : next + i - 1 = m.prev + i
  BY <1>2, <1>3, <1>5, <1>6, <1>7
<1>9. /\ m.prev \in 0..Len(l) /\ m.prevTerm = TermAt(l, m.prev)
      /\ m.entries \in Seq(Entry) /\ m.prev + Len(m.entries) = Len(l)
  BY <1>2, <1>3, <1>5, <1>6, <1>7
<1>10. \A i \in 1..Len(m.entries) : m.entries[i] = l[m.prev + i]
  BY <1>5, <1>6, <1>7, <1>8
<1> QED BY <1>9, <1>10 DEF m, l

LEMMA RoundMerged ==
  ASSUME LogInv, ProgressBounded, MaxLog <= MaxBatch, NEW c \in Sending, NEW p \in Server,
         AcceptsEntries(p, AppendEntries(c, p))
  PROVE  /\ \/ MergedLog(log[p], AppendEntries(c, p)) = log[p]
            \/ MergedLog(log[p], AppendEntries(c, p)) = c.rd.log
         /\ StartsWith(MergedLog(log[p], AppendEntries(c, p)), c.rd.log)
<1> DEFINE m == AppendEntries(c, p)
           l == c.rd.log
           k == log[p]
<1>1. TypeOK /\ LinksUnique /\ c \in calls
  BY DEF LogInv, ElectionInv, Sending
<1>2. /\ m.prev \in 0..Len(l) /\ m.prevTerm = TermAt(l, m.prev)
      /\ m.entries \in Seq(Entry) /\ m.prev + Len(m.entries) = Len(l)
      /\ \A i \in 1..Len(m.entries) : m.entries[i] = l[m.prev + i]
  BY <1>1, RequestShape
<1>3. l \in Seq(Entry) /\ Len(l) \in Nat /\ k \in Seq(Entry) /\ Len(k) \in Nat
  BY <1>1, LogTypes
<1>4. m.prev <= Len(k) /\ (m.prev > 0 => k[m.prev].term = m.prevTerm)
  BY DEF AcceptsEntries, PrevMatches
<1>5. LogLinks(k) \subseteq Links /\ LogLinks(l) \subseteq Links
  BY <1>1, LinksOfLogs, LinksOfCalls
<1> HIDE DEF m, l, k
<1>6. ASSUME NEW i \in 1..Len(k), i <= Len(l), k[i].term = l[i].term
      PROVE  \A j \in 1..i : k[j] = l[j]
  BY <1>1, <1>3, <1>5, <1>6, LinkedMatch
<1>7. \A i \in 1..m.prev : k[i] = l[i]
  <2>1. CASE m.prev > 0
    <3>1. m.prev \in 1..Len(k) /\ m.prev <= Len(l) /\ m.prev \in 1..Len(l)
      BY <1>2, <1>3, <1>4, <2>1
    <3>2. k[m.prev].term = l[m.prev].term
      BY <1>2, <1>4, <2>1, <3>1 DEF TermAt
    <3> QED BY <1>6, <3>1, <3>2
  <2>2. CASE ~(m.prev > 0)
    BY <1>2, <1>3, <2>2
  <2> QED BY <2>1, <2>2
<1>8. CASE m.entries = <<>>
  <2>1. m.prev = Len(l)
    BY <1>2, <1>3, <1>8
  <2>2. MergedLog(k, m) = k
    BY <1>8 DEF MergedLog
  <2>3. StartsWith(k, l)
    BY <1>3, <1>4, <1>7, <2>1 DEF StartsWith
  <2> QED BY <2>2, <2>3 DEF m, l, k
<1>9. CASE m.entries # <<>>
  <2> DEFINE kept(i) == /\ i <= Len(k)
                        /\ \A j \in (m.prev + 1)..i :
                             k[j].term = m.entries[j - m.prev].term
             f == [i \in 1..(m.prev + Len(m.entries)) |->
                     IF kept(i) THEN k[i] ELSE m.entries[i - m.prev]]
  <2>1. MergedLog(k, m) = f
    BY <1>9 DEF MergedLog
  <2>2. ASSUME NEW i \in 1..Len(l) PROVE (IF kept(i) THEN k[i] ELSE m.entries[i - m.prev]) = l[i]
    <3>1. CASE i <= m.prev
      <4>1. kept(i)
        BY <1>2, <1>3, <1>4, <3>1
      <4>2. i \in 1..m.prev
        BY <3>1, <1>2, <1>3
      <4> QED BY <1>7, <4>1, <4>2
    <3>2. CASE i > m.prev
      <4>1. i - m.prev \in 1..Len(m.entries) /\ m.prev + (i - m.prev) = i
        BY <1>2, <1>3, <3>2
      <4>2. m.entries[i - m.prev] = l[i]
        BY <1>2, <4>1
      <4>3. ASSUME kept(i) PROVE k[i] = l[i]
        <5>1. i \in (m.prev + 1)..i /\ i \in 1..Len(k) /\ i <= Len(l) /\ i \in 1..i
          BY <1>2, <1>3, <3>2, <4>3
        <5>2. k[i].term = l[i].term
          BY <4>2, <4>3, <5>1
        <5> QED BY <1>6, <5>1, <5>2
      <4> HIDE DEF kept
      <4> QED BY <4>2, <4>3
    <3> QED BY <1>2, <1>3, <3>1, <3>2
  <2> HIDE DEF kept
  <2>3. f = [i \in 1..Len(l) |-> l[i]]
    BY <1>2, <2>2
  <2>4. [i \in 1..Len(l) |-> l[i]] = l
    BY <1>3
  <2>5. StartsWith(l, l)
    BY <1>3 DEF StartsWith
  <2> QED BY <2>1, <2>3, <2>4, <2>5 DEF m, l, k
<1> QED BY <1>8, <1>9

(***************************************************************************)
(* What an orderly step does to logs and rounds.                           *)
(***************************************************************************)

\* Peer p takes the request of round c; its log may already hold it all.
Takes(c, p) ==
  /\ c \in Sending /\ p \in c.rd.todo
  /\ currentTerm[p] <= c.rd.term /\ currentTerm'[p] = c.rd.term
  /\ StartsWith(log'[p], c.rd.log) /\ (log'[p] = log[p] \/ log'[p] = c.rd.log)

\* A leader adds an entry of its term.
Adds(q) ==
  /\ role[q] = Leader /\ role'[q] = Leader /\ currentTerm'[q] = currentTerm[q]
  /\ Len(log[q]) < MaxLog
  /\ \E e \in Entry : e.term = currentTerm[q] /\ log'[q] = Append(log[q], e)

LogMoves(q) ==
  \/ log'[q] = log[q]
  \/ \E c \in Sending : Takes(c, q) /\ log'[q] = c.rd.log
  \/ Adds(q)

SameRound(c, d) ==
  /\ d.node = c.node /\ d.rd.term = c.rd.term /\ d.rd.log = c.rd.log
  /\ d.rd.next = c.rd.next /\ d.rd.todo \subseteq c.rd.todo

Begins(d) ==
  /\ d.node \in Server /\ role[d.node] = Leader
  /\ d.rd.term = currentTerm[d.node] /\ d.rd.log = log[d.node]
  /\ d.rd.next = peerNext[d.node] /\ d.rd.acks = {} /\ d.rd.todo = Peers(d.node)
  /\ UNCHANGED <<log, currentTerm, role, peerLast, commitIndex, leaders, committed>>

\* A round goes on, with the acknowledgements of peers that took its request,
\* or begins.
RoundKept(d) ==
  \/ \E c \in Sending : /\ SameRound(c, d)
                        /\ \A p \in d.rd.acks : p \in c.rd.acks \/ Takes(c, p)
  \/ Begins(d)

CallOK(d) ==
  /\ d.phase = "send" => RoundKept(d)
  /\ d.rd.todo # {} => d.phase = "send"

LEMMA RequestTaken ==
  ASSUME LogInv, ProgressBounded, MaxLog <= MaxBatch, NEW c \in Sending, NEW p \in c.rd.todo,
         OnAppendEntries(p, AppendEntries(c, p))
  PROVE  /\ p \in Server
         /\ AcceptsEntries(p, AppendEntries(c, p)) => Takes(c, p)
         /\ ~AcceptsEntries(p, AppendEntries(c, p)) => log'[p] = log[p]
         /\ \A q \in Server \ {p} : log'[q] = log[q]
<1> DEFINE m == AppendEntries(c, p)
<1>1. TypeOK /\ c \in calls
  BY DEF LogInv, ElectionInv, Sending
<1>2. p \in Server
  BY <1>1, CallFields DEF Round
<1>3. m \in AppMsg /\ m.term = c.rd.term /\ m.to = p
  BY <1>1, <1>2, AppendEntriesMsgType DEF AppendEntries
<1>4. m.term \in Nat /\ currentTerm[p] \in Nat
  BY <1>1, <1>2, <1>3, LogTypes
<1>5. log' = [log EXCEPT ![p] = IF AcceptsEntries(p, m) THEN MergedLog(log[p], m) ELSE log[p]]
  BY DEF OnAppendEntries
<1>6. /\ log'[p] = IF AcceptsEntries(p, m) THEN MergedLog(log[p], m) ELSE log[p]
      /\ \A q \in Server \ {p} : log'[q] = log[q]
  BY <1>1, <1>2, <1>5 DEF TypeOK, NodeTypeOK
<1>7. ASSUME AcceptsEntries(p, m) PROVE Takes(c, p)
  <2>1. m.term >= currentTerm[p]
    BY <1>7 DEF AcceptsEntries
  <2>2. currentTerm'[p] = m.term
    <3>1. CASE m.term > currentTerm[p]
      BY <1>1, <1>2, <3>1 DEF OnAppendEntries, FollowsSender, BecomeFollower, TypeOK, NodeTypeOK
    <3>2. CASE ~(m.term > currentTerm[p])
      <4>1. currentTerm' = currentTerm
        BY <3>2 DEF OnAppendEntries, FollowsSender, hardState
      <4> QED BY <1>4, <2>1, <3>2, <4>1
    <3> QED BY <3>1, <3>2
  <2>3. /\ log'[p] = log[p] \/ log'[p] = c.rd.log
        /\ StartsWith(log'[p], c.rd.log)
    BY <1>2, <1>6, <1>7, RoundMerged
  <2> QED BY <1>3, <1>4, <2>1, <2>2, <2>3 DEF Takes
<1> QED BY <1>2, <1>6, <1>7

LEMMA LogsMove ==
  ASSUME LogInv, ProgressBounded, MaxLog <= MaxBatch, Orderly, Next, NEW q \in Server
  PROVE  LogMoves(q)
<1>1. TypeOK
  BY DEF LogInv, ElectionInv
<1>2. CASE UNCHANGED log
  BY <1>2 DEF LogMoves
<1>3. ASSUME NEW p \in Server, NEW m \in AppMsg, Merges(p, m) PROVE LogMoves(q)
  <2>1. SentAppend(m)
    <3>1. m.type = "append"
      BY DEF AppMsg
    <3> QED BY <1>3, <3>1 DEF Merges, OnItsWay, Orderly
  <2>2. PICK c \in calls : \E x \in c.rd.todo : m = AppendEntries(c, x)
    BY <2>1 DEF SentAppend
  <2>3. PICK x \in c.rd.todo : m = AppendEntries(c, x)
    BY <2>2
  <2>4. x = p
    BY <1>3, <2>3 DEF Merges, AppendEntries
  <2>5. c \in Sending
    BY <2>3 DEF ProgressBounded
  <2>6. OnAppendEntries(p, AppendEntries(c, p))
    BY <1>3, <2>3, <2>4 DEF Merges
  <2>7. CASE q = p
    BY <2>3, <2>4, <2>5, <2>6, <2>7, RequestTaken DEF LogMoves, Takes
  <2>8. CASE q # p
    BY <2>3, <2>4, <2>5, <2>6, <2>8, RequestTaken DEF LogMoves
  <2> QED BY <2>7, <2>8
<1>4. ASSUME NEW n \in Server, NEW v \in Value, SubmitEntry(n, v) PROVE LogMoves(q)
  <2> DEFINE e == [term |-> currentTerm[n], val |-> v]
  <2>1. /\ role[n] = Leader /\ role' = role /\ currentTerm' = currentTerm
        /\ Len(log[n]) < MaxLog
        /\ log' = [log EXCEPT ![n] = Append(log[n], e)]
    BY <1>4 DEF SubmitEntry, hardState
  <2>2. e \in Entry /\ e.term = currentTerm[n]
    BY <1>1, LogTypes DEF Entry
  <2> HIDE DEF e
  <2>3. IF q = n THEN log'[n] = Append(log[n], e) ELSE log'[q] = log[q]
    BY <1>1, <2>1 DEF TypeOK, NodeTypeOK
  <2> QED BY <2>1, <2>2, <2>3 DEF LogMoves, Adds
<1> QED BY <1>1, <1>2, <1>3, <1>4, LogStepKinds

LEMMA SameRounds ==
  ASSUME ProgressBounded, calls' \subseteq calls
  PROVE  \A d \in calls' : CallOK(d)
<1>1. ASSUME NEW d \in calls PROVE CallOK(d)
  BY DEF CallOK, RoundKept, SameRound, Sending, ProgressBounded
<1> QED BY <1>1

LEMMA ContinueOK ==
  ASSUME ProgressBounded, NEW c \in calls, NEW next, Continue(c, next), \A d \in next : CallOK(d)
  PROVE  \A d \in calls' : CallOK(d)
<1>1. ASSUME NEW d \in calls PROVE CallOK(d)
  BY DEF CallOK, RoundKept, SameRound, Sending, ProgressBounded
<1> QED BY <1>1 DEF Continue

LEMMA ReturnedOK ==
  ASSUME TypeOK, NEW c \in calls PROVE \A d \in Returned(c) : CallOK(d)
<1>1. c \in Call
  BY CallFields
<1> DEFINE d == [c EXCEPT !.phase = "check", !.tries = 0, !.rd = NoRound]
<1>2. d.rd = NoRound /\ d.phase = "check"
  BY <1>1 DEF Call
<1>3. NoRound.todo = {}
  BY DEF NoRound
<1> HIDE DEF d
<1>4. CallOK(d)
  BY <1>2, <1>3 DEF CallOK
<1> QED BY <1>4 DEF Returned, d

LEMMA ReplicateRounds ==
  ASSUME LogInv, ProgressBounded, MaxLog <= MaxBatch, NEW c \in calls, ReplicateStep(c)
  PROVE  \A d \in calls' : CallOK(d)
<1>0. TypeOK /\ c \in Call /\ c.node \in Server /\ c.rd \in Round
  <2>1. TypeOK
    BY DEF LogInv, ElectionInv
  <2> QED BY <2>1, CallFields
<1>1. ASSUME NEW p \in c.rd.todo, NEW r, TallyAppend(c, p, r), c.phase = "send",
             r.ok => Takes(c, p)
      PROVE  \A d \in calls' : CallOK(d)
  <2> DEFINE rd == WithAnswer(c.rd, p, r)
             e == [c EXCEPT !.rd = rd]
  <2>1. /\ rd.log = c.rd.log /\ rd.term = c.rd.term /\ rd.next = c.rd.next
        /\ rd.todo \subseteq c.rd.todo
        /\ rd.acks = IF r.ok THEN c.rd.acks \cup {p} ELSE c.rd.acks
    BY <1>0 DEF WithAnswer, Round
  <2> HIDE DEF rd
  <2>2. e.rd = rd /\ e.node = c.node /\ e.phase = "send"
    BY <1>0, <1>1 DEF Call
  <2> HIDE DEF e
  <2>3. c \in Sending
    BY <1>1 DEF Sending
  <2>4. \A x \in e.rd.acks : x \in c.rd.acks \/ Takes(c, x)
    BY <1>1, <2>1, <2>2
  <2>5. SameRound(c, e)
    BY <2>1, <2>2 DEF SameRound
  <2>6. CallOK(e)
    BY <2>2, <2>3, <2>4, <2>5 DEF CallOK, RoundKept
  <2>7. Continue(c, {e})
    BY <1>1 DEF TallyAppend, rd, e
  <2> QED BY <2>6, <2>7, ContinueOK
<1>2. CASE Continue(c, Returned(c)) \/ Continue(c, {})
  BY <1>0, <1>2, ReturnedOK, ContinueOK
<1>3. CASE ReplicateRound(c)
  <2> DEFINE rd == [NoRound EXCEPT !.term = currentTerm[c.node], !.log = log[c.node],
                      !.next = peerNext[c.node], !.todo = Peers(c.node),
                      !.maxTerm = currentTerm[c.node]]
             e == [c EXCEPT !.phase = "send", !.rd = rd]
  <2>1. /\ rd.log = log[c.node] /\ rd.term = currentTerm[c.node] /\ rd.acks = {}
        /\ rd.todo = Peers(c.node) /\ rd.next = peerNext[c.node]
    BY DEF NoRound
  <2> HIDE DEF rd
  <2>2. e.rd = rd /\ e.node = c.node /\ e.phase = "send"
    BY <1>0 DEF Call
  <2> HIDE DEF e
  <2>3. /\ role[c.node] = Leader
        /\ UNCHANGED <<log, currentTerm, role, peerLast, commitIndex, leaders, committed>>
    BY <1>3 DEF ReplicateRound, hardState, logVars, peerVars, history
  <2>4. CallOK(e)
    BY <1>0, <2>1, <2>2, <2>3 DEF CallOK, RoundKept, Begins
  <2>5. Continue(c, {e})
    BY <1>3 DEF ReplicateRound, rd, e
  <2> QED BY <2>4, <2>5, ContinueOK
<1>4. ASSUME NEW p \in c.rd.todo, SendAppendEntries(c, p) PROVE \A d \in calls' : CallOK(d)
  <2> DEFINE r == AppendResponse(p, AppendEntries(c, p))
  <2>1. c.phase = "send" /\ OnAppendEntries(p, AppendEntries(c, p)) /\ TallyAppend(c, p, r)
    BY <1>4 DEF SendAppendEntries, MaySend
  <2>2. r.ok => AcceptsEntries(p, AppendEntries(c, p))
    BY DEF AppendResponse, Response
  <2>3. c \in Sending
    BY <2>1 DEF Sending
  <2>4. r.ok => Takes(c, p)
    BY <2>1, <2>2, <2>3, RequestTaken
  <2> HIDE DEF r
  <2> QED BY <1>1, <2>1, <2>4
<1>5. ASSUME NEW p \in c.rd.todo, AppendEntriesFails(c, p) PROVE \A d \in calls' : CallOK(d)
  <2>1. ~NoResponse.ok
    BY DEF NoResponse, Response
  <2> QED BY <1>1, <1>5, <2>1 DEF AppendEntriesFails, MaySend
<1>6. ASSUME NEW p \in c.rd.todo, SkipPeer(c, p) PROVE \A d \in calls' : CallOK(d)
  <2> DEFINE e == [c EXCEPT !.rd.todo = @ \ {p}]
  <2>1. /\ e.node = c.node /\ e.rd.log = c.rd.log /\ e.rd.term = c.rd.term
        /\ e.rd.todo \subseteq c.rd.todo /\ e.rd.next = c.rd.next /\ e.rd.acks = c.rd.acks
        /\ e.phase = c.phase
    BY <1>0 DEF Call, Round
  <2> HIDE DEF e
  <2>2. c \in Sending /\ c.phase = "send"
    BY <1>6 DEF SkipPeer, Sending
  <2>3. CallOK(e)
    BY <2>1, <2>2 DEF CallOK, RoundKept, SameRound
  <2>4. Continue(c, {e})
    BY <1>6 DEF SkipPeer, e
  <2> QED BY <2>3, <2>4, ContinueOK
<1>7. CASE ReplicateDone(c)
  <2> DEFINE e == [c EXCEPT !.phase = "start", !.tries = @ + 1, !.rd = NoRound]
  <2>1. e.rd.todo = {} /\ e.phase = "start"
    BY <1>0 DEF Call, NoRound
  <2> HIDE DEF e
  <2>2. CallOK(e)
    BY <2>1 DEF CallOK
  <2>3. Continue(c, {e}) \/ Continue(c, Returned(c))
    BY <1>7 DEF ReplicateDone, e
  <2> QED BY <1>2, <2>2, <2>3, ContinueOK
<1>8. CASE CoordinatorCheck(c)
  <2> DEFINE e == [c EXCEPT !.phase = "start", !.iter = @ + 1]
  <2>1. e.rd = c.rd /\ e.phase = "start"
    BY <1>0 DEF Call
  <2> HIDE DEF e
  <2>2. c.rd.todo = {}
    BY <1>8 DEF CoordinatorCheck, ProgressBounded, Sending
  <2>3. CallOK(e)
    BY <2>1, <2>2 DEF CallOK
  <2>4. Continue(c, {e}) \/ Continue(c, {})
    BY <1>8 DEF CoordinatorCheck, e
  <2> QED BY <1>2, <2>3, <2>4, ContinueOK
<1> QED BY <1>2, <1>3, <1>4, <1>5, <1>6, <1>7, <1>8
        DEF ReplicateStep, NotLeaderReturn, ReplicateDeposed, ReplicateOvertaken

LEMMA RoundsMove ==
  ASSUME LogInv, ProgressBounded, MaxLog <= MaxBatch, Orderly, Next
  PROVE  /\ \A d \in Sending' : RoundKept(d)
         /\ \A d \in calls' : d.rd.todo # {} => d \in Sending'
<1> SUFFICES \A d \in calls' : CallOK(d)
  BY DEF CallOK, Sending
<1>1. CASE calls' \subseteq calls
  BY <1>1, SameRounds
<1>2. ASSUME NEW n \in Server, StartElection(n) \/ ElectionStep(n) \/ HeartbeatTick(n)
      PROVE  calls' \subseteq calls
  BY <1>2 DEF StartElection, ElectionStep, SendVoteRequest, VoteRequestFails,
       ElectionDeposed, ElectionOvertaken, ElectionWon, ElectionLost, EndElection,
       HeartbeatTick, callVars
<1>3. ASSUME NEW n \in Server, NEW v \in Value, SubmitEntry(n, v) PROVE calls' \subseteq calls
  BY <1>3 DEF SubmitEntry
<1>4. ASSUME NEW n \in Server, NEW batch \in SUBSET waiting, CoordinatorCommit(n, batch)
      PROVE  \A d \in calls' : CallOK(d)
  <2> DEFINE e == NewCall(n, "write", 0, batch)
  <2>1. calls' = calls \cup {e}
    BY <1>4 DEF CoordinatorCommit
  <2>2. e.phase = "start" /\ e.rd.todo = {}
    BY DEF NewCall, NoRound
  <2> HIDE DEF e
  <2>3. CallOK(e)
    BY <2>2 DEF CallOK
  <2>4. ASSUME NEW d \in calls PROVE CallOK(d)
    BY DEF CallOK, RoundKept, SameRound, Sending, ProgressBounded
  <2> QED BY <2>1, <2>3, <2>4
<1>5. ASSUME NEW m \in late, HandleLate(m) PROVE calls' \subseteq calls
  BY <1>5 DEF HandleLate, callVars
<1>6. ASSUME NEW n \in Server, Restart(n) PROVE calls' \subseteq calls
  BY <1>6 DEF Restart
<1> QED BY <1>1, <1>2, <1>3, <1>4, <1>5, <1>6, ReplicateRounds DEF Next, Orderly

(***************************************************************************)
(* What a step does to leaderships, progress and campaigns.                *)
(***************************************************************************)
LEMMA RolesMove ==
  ASSUME TypeOK, TypeOK', Next
  PROVE  /\ leaders' = leaders \/ \E n \in Server : ElectionWon(n)
         /\ \A n \in Server : role'[n] = Leader =>
              (role[n] = Leader /\ currentTerm'[n] = currentTerm[n]) \/ ElectionWon(n)
<1> DEFINE P == /\ leaders' = leaders \/ \E n \in Server : ElectionWon(n)
                /\ \A n \in Server : role'[n] = Leader =>
                     (role[n] = Leader /\ currentTerm'[n] = currentTerm[n]) \/ ElectionWon(n)
<1>1. ASSUME NEW p \in Server, Demotes(p), leaders' = leaders PROVE P
  <2>1. \A n \in Server \ {p} : role'[n] = role[n] /\ currentTerm'[n] = currentTerm[n]
    BY <1>1 DEF Demotes, TypeOK, NodeTypeOK
  <2>2. role'[p] = Leader => role[p] = Leader /\ currentTerm'[p] = currentTerm[p]
    BY <1>1 DEF Demotes
  <2> QED BY <1>1, <2>1, <2>2
<1>2. CASE Quiet
  BY <1>1, <1>2 DEF Quiet
<1>3. ASSUME NEW n \in Server, StartElection(n) PROVE P
  <2>1. leaders' = leaders
    BY <1>3 DEF StartElection
  <2>2. /\ currentTerm' = [currentTerm EXCEPT ![n] = currentTerm[n] + 1]
        /\ role' = [role EXCEPT ![n] = Candidate]
    BY <1>3 DEF StartElection, BecomeCandidate
  <2>3. \A q \in Server : role'[q] = Leader =>
          role[q] = Leader /\ currentTerm'[q] = currentTerm[q]
    BY <2>2 DEF TypeOK, NodeTypeOK
  <2> QED BY <2>1, <2>3
<1>4. ASSUME NEW n \in Server, ElectionWon(n) PROVE P
  <2>1. role' = [role EXCEPT ![n] = Leader] /\ currentTerm' = currentTerm
    BY <1>4 DEF ElectionWon, BecomeLeader, hardState
  <2>2. \A q \in Server \ {n} : role'[q] = role[q]
    BY <2>1 DEF TypeOK, NodeTypeOK
  <2> QED BY <1>4, <2>1, <2>2
<1>5. ASSUME NEW p \in Server, NEW m \in VoteMsg, VoteStep(p, m) PROVE P
  BY <1>1, <1>5, RequestVoteMoves DEF VoteStep, OnRequestVote
<1> QED BY <1>2, <1>3, <1>4, <1>5, StepKinds

\* What winning an election changes.
LEMMA WinnerMoves ==
  ASSUME ElectionInv, NEW n \in Server, ElectionWon(n)
  PROVE  /\ leaders' = leaders \cup {<<currentTerm[n], n>>}
         /\ <<currentTerm[n], n>> \notin leaders
         /\ Tallied(n) /\ currentTerm[n] = election[n].term /\ role[n] = Candidate
         /\ peerLast'[n] = [p \in Server |-> 0]
         /\ peerNext'[n] = [p \in Server |-> Len(log[n]) + 1]
         /\ UNCHANGED <<currentTerm, log, calls, commitIndex, applied, committed>>
<1>1. /\ leaders' = leaders \cup {<<currentTerm[n], n>>}
      /\ Tallied(n) /\ currentTerm[n] = election[n].term /\ role[n] = Candidate
      /\ UNCHANGED <<currentTerm, log, calls, commitIndex, applied, committed>>
  BY DEF ElectionWon, BecomeLeader, Campaigning, EndElection, hardState, logVars, callVars
<1>2. <<currentTerm[n], n>> \notin leaders
  BY <1>1 DEF ElectionInv, CampaignBacked, Tallied
<1>3. /\ peerLast'[n] = [p \in Server |-> 0]
      /\ peerNext'[n] = [p \in Server |-> Len(log[n]) + 1]
  BY DEF ElectionWon, BecomeLeader, ElectionInv, TypeOK, NodeTypeOK
<1> QED BY <1>1, <1>2, <1>3

LEMMA PeersMove ==
  ASSUME TypeOK, TypeOK', Orderly, Next, NEW n \in Server, role'[n] = Leader
  PROVE  \/ /\ role[n] = Leader /\ currentTerm'[n] = currentTerm[n]
            /\ peerLast'[n] = peerLast[n] /\ peerNext'[n] = peerNext[n]
         \/ ElectionWon(n)
         \/ \E c \in Sending : c.node = n /\ ReplicateDone(c)
<1> DEFINE P == \/ ElectionWon(n)
                \/ \E c \in Sending : c.node = n /\ ReplicateDone(c)
                \/ peerLast'[n] = peerLast[n] /\ peerNext'[n] = peerNext[n]
<1> SUFFICES P
  BY RolesMove
<1>1. ASSUME NEW x \in Server, StartElection(x) \/ ElectionStep(x) \/ HeartbeatTick(x) PROVE P
  <2>1. CASE ElectionWon(x)
    <3>1. /\ peerNext' = [peerNext EXCEPT ![x] = [p \in Server |-> Len(log[x]) + 1]]
          /\ peerLast' = [peerLast EXCEPT ![x] = [p \in Server |-> 0]]
      BY <2>1 DEF ElectionWon, BecomeLeader
    <3>2. x # n => peerLast'[n] = peerLast[n] /\ peerNext'[n] = peerNext[n]
      BY <3>1 DEF TypeOK, NodeTypeOK
    <3> QED BY <2>1, <3>2
  <2>2. CASE ~ElectionWon(x)
    BY <1>1, <2>2 DEF StartElection, ElectionStep, SendVoteRequest, VoteRequestFails,
       OnRequestVote, ElectionDeposed, ElectionOvertaken, ElectionLost, HeartbeatTick, peerVars
  <2> QED BY <2>1, <2>2
<1>2. ASSUME NEW c \in calls, ReplicateStep(c) PROVE P
  <2>1. CASE ReplicateDone(c)
    <3>1. c \in Sending
      BY <2>1 DEF ReplicateDone, RoundSent, Sending
    <3>2. CASE c.node = n
      BY <2>1, <3>1, <3>2
    <3>3. CASE c.node # n
      <4>1. \E f, g : /\ peerLast' = [peerLast EXCEPT ![c.node] = f]
                      /\ peerNext' = [peerNext EXCEPT ![c.node] = g]
        BY <2>1 DEF ReplicateDone
      <4> QED BY <3>3, <4>1 DEF TypeOK, NodeTypeOK
    <3> QED BY <3>2, <3>3
  <2>2. CASE ~ReplicateDone(c)
    BY <1>2, <2>2 DEF ReplicateStep, NotLeaderReturn, ReplicateRound, SendAppendEntries,
       OnAppendEntries, AppendEntriesFails, SkipPeer, ReplicateDeposed, ReplicateOvertaken,
       CoordinatorCheck, peerVars
  <2> QED BY <2>1, <2>2
<1>3. ASSUME NEW x \in Server, NEW v \in Value, SubmitEntry(x, v) PROVE P
  BY <1>3 DEF SubmitEntry, peerVars
<1>4. ASSUME NEW x \in Server, NEW batch \in SUBSET waiting, CoordinatorCommit(x, batch)
      PROVE  P
  BY <1>4 DEF CoordinatorCommit, peerVars
<1>5. ASSUME NEW m \in late, HandleLate(m) PROVE P
  BY <1>5 DEF HandleLate, OnRequestVote, OnHeartbeat, OnAppendEntries, peerVars
<1>6. ASSUME NEW x \in Server, Restart(x) PROVE P
  <2>1. x # n
    BY <1>6 DEF Restart, TypeOK, NodeTypeOK
  <2>2. /\ peerLast' = [peerLast EXCEPT ![x] = [p \in Server |-> 0]]
        /\ peerNext' = [peerNext EXCEPT ![x] = [p \in Server |-> 1]]
    BY <1>6 DEF Restart
  <2> QED BY <2>1, <2>2 DEF TypeOK, NodeTypeOK
<1> QED BY <1>1, <1>2, <1>3, <1>4, <1>5, <1>6 DEF Next, Orderly

LEMMA CommitsMove ==
  ASSUME TypeOK, Orderly, Next
  PROVE  committed' = committed \/ \E c \in Sending : ReplicateDone(c)
<1>1. ASSUME NEW x \in Server, StartElection(x) \/ ElectionStep(x) \/ HeartbeatTick(x)
      PROVE  committed' = committed
  BY <1>1 DEF StartElection, ElectionStep, SendVoteRequest, VoteRequestFails,
     OnRequestVote, ElectionDeposed, ElectionOvertaken, ElectionLost, ElectionWon, EndElection,
     HeartbeatTick, history
<1>2. ASSUME NEW c \in calls, ReplicateStep(c), ~ReplicateDone(c) PROVE committed' = committed
  BY <1>2 DEF ReplicateStep, NotLeaderReturn, ReplicateRound, SendAppendEntries,
     OnAppendEntries, AppendEntriesFails, SkipPeer, ReplicateDeposed, ReplicateOvertaken,
     CoordinatorCheck, history
<1>3. ASSUME NEW c \in calls, ReplicateDone(c) PROVE c \in Sending
  BY <1>3 DEF ReplicateDone, RoundSent, Sending
<1>4. ASSUME NEW x \in Server,
             \/ \E v \in Value : SubmitEntry(x, v)
             \/ \E batch \in SUBSET waiting : CoordinatorCommit(x, batch)
             \/ Restart(x)
      PROVE  committed' = committed
  BY <1>4 DEF SubmitEntry, CoordinatorCommit, Restart, history
<1>5. ASSUME NEW m \in late, HandleLate(m) PROVE committed' = committed
  BY <1>5 DEF HandleLate, OnRequestVote, OnHeartbeat, OnAppendEntries, history
<1> QED BY <1>1, <1>2, <1>3, <1>4, <1>5 DEF Next, Orderly

\* Peer p votes for the campaign of n as it asks.
Votes(n, p) ==
  /\ p \in Server /\ OnRequestVote(p, VoteRequest(n, p)) /\ GrantsVote(p, VoteRequest(n, p))

\* A campaign begins, or goes on with the votes it gets.
CampaignKept(n) ==
  \/ StartElection(n)
  \/ /\ election[n].on /\ election'[n].term = election[n].term
     /\ election'[n].lastIndex = election[n].lastIndex
     /\ election'[n].lastTerm = election[n].lastTerm
     /\ \A p \in election'[n].granted : p \in election[n].granted \/ Votes(n, p)

LEMMA CampaignsMove ==
  ASSUME TypeOK, Orderly, Next, NEW n \in Server, election'[n].on
  PROVE  CampaignKept(n)
<1>0. election \in [Server -> Election]
  BY DEF TypeOK, CallTypeOK
<1>1. CASE election'[n] = election[n]
  BY <1>1 DEF CampaignKept
<1>2. ASSUME NEW x \in Server, election' = [election EXCEPT ![x] = NoElection]
      PROVE  CampaignKept(n)
  <2>1. ~NoElection.on
    BY DEF NoElection
  <2>2. n # x
    BY <1>0, <1>2, <2>1
  <2> QED BY <1>0, <1>1, <1>2, <2>2
<1>3. ASSUME NEW x \in Server, NEW p, NEW r, TallyVote(x, p, r), r.ok => Votes(x, p)
      PROVE  CampaignKept(n)
  <2>1. CASE x # n
    BY <1>0, <1>1, <1>3, <2>1, TallyVoteFields
  <2>2. CASE x = n
    <3> DEFINE e == [election[n] EXCEPT !.todo = @ \ {p},
                       !.granted = IF r.ok THEN @ \cup {p} ELSE @,
                       !.maxTerm = MaxOf(@, r.term)]
    <3>1. election' = [election EXCEPT ![n] = e]
      BY <1>0, <1>3, <2>2 DEF TallyVote, Election
    <3>2. election[n] \in Election
      BY <1>0
    <3>3. /\ e.on = election[n].on /\ e.term = election[n].term
          /\ e.lastIndex = election[n].lastIndex /\ e.lastTerm = election[n].lastTerm
          /\ e.granted = IF r.ok THEN election[n].granted \cup {p} ELSE election[n].granted
      BY <3>2 DEF Election
    <3> HIDE DEF e
    <3>4. election'[n] = e
      BY <1>0, <3>1
    <3> QED BY <1>3, <2>2, <3>3, <3>4 DEF CampaignKept
  <2> QED BY <2>1, <2>2
<1>4. ASSUME NEW x \in Server, StartElection(x) PROVE CampaignKept(n)
  <2>1. CASE x = n
    BY <1>4, <2>1 DEF CampaignKept
  <2>2. CASE x # n
    <3>1. \E e : election' = [election EXCEPT ![x] = e]
      BY <1>4 DEF StartElection
    <3> QED BY <1>0, <1>1, <2>2, <3>1
  <2> QED BY <2>1, <2>2
<1>5. ASSUME NEW x \in Server, NEW p \in Peers(x), SendVoteRequest(x, p) PROVE CampaignKept(n)
  <2> DEFINE r == VoteResponse(p, VoteRequest(x, p))
  <2>1. p \in Server /\ OnRequestVote(p, VoteRequest(x, p)) /\ TallyVote(x, p, r)
    BY <1>5 DEF SendVoteRequest, Peers
  <2>2. r.ok => Votes(x, p)
    BY <2>1 DEF VoteResponse, Response, Votes
  <2> HIDE DEF r
  <2> QED BY <1>3, <2>1, <2>2
<1>6. ASSUME NEW x \in Server, NEW p \in Peers(x), VoteRequestFails(x, p) PROVE CampaignKept(n)
  <2>1. ~NoResponse.ok
    BY DEF NoResponse, Response
  <2> QED BY <1>3, <1>6, <2>1 DEF VoteRequestFails
<1>7. ASSUME NEW x \in Server, ElectionStep(x) PROVE CampaignKept(n)
  BY <1>2, <1>5, <1>6, <1>7 DEF ElectionStep, ElectionDeposed, ElectionOvertaken, ElectionWon,
     ElectionLost, EndElection
<1>8. ASSUME NEW c \in calls, ReplicateStep(c) PROVE election' = election
  BY <1>8 DEF ReplicateStep, NotLeaderReturn, ReplicateRound, SendAppendEntries,
     AppendEntriesFails, SkipPeer, ReplicateDeposed, ReplicateOvertaken, ReplicateDone,
     CoordinatorCheck
<1>9. ASSUME NEW x \in Server,
             \/ \E v \in Value : SubmitEntry(x, v)
             \/ \E batch \in SUBSET waiting : CoordinatorCommit(x, batch)
             \/ HeartbeatTick(x)
      PROVE  election' = election
  BY <1>9 DEF SubmitEntry, CoordinatorCommit, HeartbeatTick
<1>10. ASSUME NEW m \in late, HandleLate(m) PROVE election' = election
  BY <1>10 DEF HandleLate
<1>11. ASSUME NEW x \in Server, Restart(x) PROVE CampaignKept(n)
  BY <1>2, <1>11 DEF Restart
<1> QED BY <1>1, <1>4, <1>7, <1>8, <1>9, <1>10, <1>11 DEF Next, Orderly

(***************************************************************************)
(* Terms along a log, and the up-to-date check.                            *)
(***************************************************************************)

\* A property of a set of indexes is settled at its largest member.
LEMMA LastIndexOf ==
  ASSUME NEW k \in Nat, NEW D \in SUBSET (1..k), D # {}
  PROVE  \E i \in D : \A y \in D : y <= i
<1>1. IsFiniteSet(1..k)
  BY FS_Interval
<1>2. IsFiniteSet(D)
  BY <1>1, FS_Subset
<1>3. D \in SUBSET Nat
  OBVIOUS
<1>4. Max(D) \in D /\ \A y \in D : Max(D) >= y
  BY <1>2, <1>3, MaxOfFinite
<1> QED BY <1>3, <1>4

\* The terms of a log are numbers.
LEMMA LogTerms ==
  ASSUME NEW l \in Seq(Entry)
  PROVE  Len(l) \in Nat /\ \A x \in 1..Len(l) : l[x].term \in Nat
<1>1. Len(l) \in Nat
  OBVIOUS
<1>2. \A x \in 1..Len(l) : l[x].term \in Nat
  BY EntryFields
<1> QED BY <1>1, <1>2

LEMMA TermsRise ==
  ASSUME LinksOrdered, NEW l \in Seq(Entry), LogLinks(l) \subseteq Links,
         NEW k \in 1..Len(l), NEW i \in 1..k
  PROVE  l[i].term <= l[k].term
<1>1. Len(l) \in Nat /\ k \in Nat /\ \A x \in 1..Len(l) : l[x].term \in Nat
  BY LogTerms
<1>2. ASSUME NEW x \in 1..(k - 1) PROVE l[x].term <= l[x + 1].term
  <2> DEFINE a == Link(x + 1, l[x + 1], TermAt(l, (x + 1) - 1))
  <2>1. x + 1 \in 1..Len(l) /\ (x + 1) - 1 = x /\ x \in 1..Len(l)
    BY <1>1
  <2>2. a \in Links
    BY <2>1 DEF LogLinks
  <2>3. a.before <= a.term
    <3> HIDE DEF a
    <3> QED BY <2>2 DEF LinksOrdered
  <2>4. a.before = l[x].term /\ a.term = l[x + 1].term
    BY <2>1 DEF Link, TermAt
  <2> QED BY <2>3, <2>4
<1> DEFINE D == {x \in 1..k : l[x].term > l[k].term}
<1> SUFFICES ASSUME D # {} PROVE FALSE
  <2>1. i \in 1..Len(l) /\ l[i].term \in Nat /\ l[k].term \in Nat
    BY <1>1
  <2> QED BY <2>1
<1>3. D \in SUBSET (1..k)
  OBVIOUS
<1>4. PICK x \in D : \A y \in D : y <= x
  <2> HIDE DEF D
  <2> QED BY <1>1, <1>3, LastIndexOf
<1>5. x \in 1..k /\ l[x].term > l[k].term
  BY <1>4
<1>6. CASE x = k
  BY <1>1, <1>5, <1>6
<1>7. CASE x < k
  <2>1. x + 1 \in 1..k /\ x \in 1..(k - 1) /\ x + 1 \in 1..Len(l) /\ x \in 1..Len(l)
    BY <1>1, <1>5, <1>7
  <2>2. x + 1 \notin D
    BY <1>4, <1>5, <1>1
  <2>3. ~(l[x + 1].term > l[k].term)
    BY <2>1, <2>2
  <2>4. l[x].term \in Nat /\ l[x + 1].term \in Nat /\ l[k].term \in Nat
    BY <1>1, <2>1
  <2>5. l[x].term <= l[x + 1].term
    BY <1>2, <2>1
  <2>6. PICK a, b, d : a = l[x].term /\ b = l[x + 1].term /\ d = l[k].term
    OBVIOUS
  <2>7. a \in Nat /\ b \in Nat /\ d \in Nat /\ a > d /\ ~(b > d) /\ a <= b
    BY <1>5, <2>3, <2>4, <2>5, <2>6
  <2> QED BY <2>7
<1> QED BY <1>1, <1>5, <1>6, <1>7

\* A log of last term t that reaches index j of a known anchor holds it.
LEMMA ReachesAnchor ==
  ASSUME LinksOrdered, TermStarts, NEW l \in Seq(Entry), LogLinks(l) \subseteq Links,
         NEW j \in Nat, NEW t \in Nat, NEW b \in Links, b.index = j, b.term = t,
         j \in 1..Len(l), l[Len(l)].term = t
  PROVE  l[j].term = t
<1>1. Len(l) \in Nat /\ Len(l) \in 1..Len(l) /\ \A x \in 1..Len(l) : l[x].term \in Nat
  BY LogTerms
<1>2. \A x \in 1..Len(l) : l[x].term <= t
  BY <1>1, TermsRise
<1> DEFINE D == {x \in 1..Len(l) : l[x].term < t}
<1> SUFFICES ASSUME j \in D PROVE FALSE
  BY <1>1, <1>2
<1>3. D \in SUBSET (1..Len(l)) /\ D # {}
  OBVIOUS
<1>4. PICK x \in D : \A y \in D : y <= x
  <2> HIDE DEF D
  <2> QED BY <1>1, <1>3, LastIndexOf
<1>5. x \in 1..Len(l) /\ l[x].term < t /\ j <= x
  BY <1>4
<1>6. x # Len(l)
  BY <1>1, <1>5
<1>7. x + 1 \in 1..Len(l) /\ (x + 1) - 1 = x
  BY <1>1, <1>5, <1>6
<1>8. x + 1 \notin D
  BY <1>1, <1>4, <1>5
<1>9. l[x + 1].term = t
  BY <1>1, <1>2, <1>7, <1>8
<1> DEFINE a == Link(x + 1, l[x + 1], TermAt(l, (x + 1) - 1))
<1>10. a \in Links
  BY <1>7 DEF LogLinks
<1>11. a.index = x + 1 /\ a.term = t /\ a.before = l[x].term
  BY <1>5, <1>7, <1>9 DEF Link, TermAt
<1> HIDE DEF a
<1>12. a.index <= b.index
  BY <1>5, <1>10, <1>11 DEF TermStarts
<1> QED BY <1>1, <1>5, <1>11, <1>12

\* A candidate that a holder of the anchor finds up to date holds it too.
LEMMA UpToDateHolds ==
  ASSUME LinksOrdered, TermStarts, NEW k \in Seq(Entry), NEW l \in Seq(Entry),
         LogLinks(k) \subseteq Links, LogLinks(l) \subseteq Links,
         NEW j \in Nat, NEW t \in Nat, Anchored(k, j, t), Later(l, t) => Anchored(l, j, t),
         \/ LastTerm(l) > LastTerm(k)
         \/ LastTerm(l) = LastTerm(k) /\ Len(l) >= Len(k)
  PROVE  Anchored(l, j, t)
<1>1. /\ Len(k) \in Nat /\ Len(l) \in Nat
      /\ \A x \in 1..Len(k) : k[x].term \in Nat
      /\ \A x \in 1..Len(l) : l[x].term \in Nat
  BY LogTerms
<1>2. j \in 1..Len(k) /\ k[j].term = t /\ Len(k) \in 1..Len(k)
  BY <1>1 DEF Anchored
<1>3. LastTerm(k) = k[Len(k)].term /\ LastTerm(k) \in Nat /\ LastTerm(k) >= t
  <2>1. k[j].term <= k[Len(k)].term
    BY <1>2, TermsRise
  <2>2. LastTerm(k) = k[Len(k)].term
    BY <1>2 DEF LastTerm, TermAt
  <2> QED BY <1>1, <1>2, <2>1, <2>2
<1>4. CASE Len(l) = 0
  <2>1. LastTerm(l) = 0
    BY <1>1, <1>4 DEF LastTerm, TermAt
  <2> QED BY <1>1, <1>2, <1>3, <1>4, <2>1
<1>5. CASE Len(l) # 0
  <2>1. Len(l) \in 1..Len(l)
    BY <1>1, <1>5
  <2>2. LastTerm(l) = l[Len(l)].term /\ LastTerm(l) \in Nat
    BY <1>1, <2>1 DEF LastTerm, TermAt
  <2>3. CASE LastTerm(l) > t
    BY <2>1, <2>2, <2>3 DEF Later
  <2>4. CASE ~(LastTerm(l) > t)
    <3>1. LastTerm(l) = t /\ Len(l) >= Len(k)
      BY <1>3, <2>2, <2>4
    <3>2. j \in 1..Len(l)
      BY <1>1, <1>2, <3>1
    <3>3. PICK b \in Links : b.index = j /\ b.term = t
      BY AnchorLink
    <3>4. l[j].term = t
      BY <2>2, <3>1, <3>2, <3>3, ReachesAnchor
    <3> QED BY <3>2, <3>4 DEF Anchored
  <2> QED BY <2>3, <2>4
<1> QED BY <1>1, <1>4, <1>5

(***************************************************************************)
(* Steps of the orderly behaviours: leaderships, links and campaigns.      *)
(***************************************************************************)
OrderlyStep ==
  LogInv /\ TypeOK' /\ ProgressBounded /\ MaxLog <= MaxBatch /\ Orderly /\ Next

LEMMA StepFacts ==
  ASSUME OrderlyStep
  PROVE  /\ TypeOK /\ ElectionInv /\ LogInv' /\ ElectionSafety /\ ElectionSafety'
         /\ leaders \subseteq leaders' /\ VotesKept
<1>1. TypeOK /\ ElectionInv /\ LogInv /\ Next /\ TypeOK'
  BY DEF OrderlyStep, LogInv, ElectionInv
<1>2. LogInv'
  BY <1>1, LogInvStep
<1>3. ElectionInv'
  BY <1>2 DEF LogInv
<1>4. ElectionSafety /\ ElectionSafety'
  BY <1>1, <1>3, ElectionInvSafe, PTL
<1>5. leaders \subseteq leaders' /\ VotesKept
  BY <1>1, LeaderChanges, VotesKeptStep
<1> QED BY <1>1, <1>2, <1>4, <1>5

\* While a node is in a term it led, its log only grows, by its own hand.
LEMMA LeadTerm ==
  ASSUME OrderlyStep, NEW n \in Server, NEW t, <<t, n>> \in leaders, currentTerm'[n] = t
  PROVE  /\ currentTerm[n] = t /\ (log'[n] = log[n] \/ Adds(n))
         /\ StartsWith(log'[n], log[n])
<1>1. TypeOK /\ ElectionInv /\ ElectionSafety /\ VotesKept
  BY StepFacts
<1>2. currentTerm[n] = t
  <2>1. t <= currentTerm[n]
    BY <1>1 DEF ElectionInv, LeadersBacked
  <2>2. currentTerm'[n] >= currentTerm[n]
    BY <1>1 DEF VotesKept
  <2>3. currentTerm[n] \in Nat /\ currentTerm'[n] \in Nat
    BY <1>1 DEF OrderlyStep, TypeOK, NodeTypeOK
  <2> QED BY <2>1, <2>2, <2>3
<1>3. LogMoves(n)
  BY LogsMove DEF OrderlyStep
<1>4. ASSUME NEW c \in Sending, Takes(c, n) PROVE FALSE
  <2>1. <<c.rd.term, c.node>> \in leaders /\ c.node \notin c.rd.todo
    BY DEF OrderlyStep, ProgressBounded, RoundOK
  <2>2. c.rd.term = t /\ n \in c.rd.todo
    BY <1>4 DEF Takes
  <2>3. c.node = n
    BY <1>1, <2>1, <2>2 DEF ElectionSafety
  <2> QED BY <2>1, <2>2, <2>3
<1>5. log'[n] = log[n] \/ Adds(n)
  BY <1>3, <1>4 DEF LogMoves
<1>6. log[n] \in Seq(Entry) /\ Len(log[n]) \in Nat
  BY <1>1, LogTypes
<1>7. StartsWith(log'[n], log[n])
  <2>1. CASE log'[n] = log[n]
    BY <1>6, <2>1 DEF StartsWith
  <2>2. CASE Adds(n)
    BY <1>6, <2>2, AppendKeeps DEF Adds
  <2> QED BY <1>5, <2>1, <2>2
<1> QED BY <1>2, <1>5, <1>7

\* The one link a step can add.
LEMMA NewLink ==
  ASSUME OrderlyStep, NEW a \in Links', a \notin Links
  PROVE  \E n \in Server :
           /\ role[n] = Leader /\ currentTerm'[n] = currentTerm[n] /\ leaders' = leaders
           /\ <<currentTerm[n], n>> \in leaders
           /\ a.index = Len(log[n]) + 1 /\ a.term = currentTerm[n]
           /\ a.before = LastTerm(log[n])
           /\ Anchored(log'[n], a.index, a.term)
           /\ \A b \in Links' : b \in Links \/ b = a
<1>1. TypeOK /\ TypeOK' /\ Next
  BY StepFacts DEF OrderlyStep
<1>2. PICK n \in Server, v \in Value :
        /\ SubmitEntry(n, v)
        /\ Links' \subseteq Links \cup
             {Link(Len(log[n]) + 1, [term |-> currentTerm[n], val |-> v], LastTerm(log[n]))}
  BY <1>1, LinksMove
<1> DEFINE e == [term |-> currentTerm[n], val |-> v]
           N == Link(Len(log[n]) + 1, e, LastTerm(log[n]))
<1>3. a = N /\ \A b \in Links' : b \in Links \/ b = a
  BY <1>2
<1>4. /\ N.index = Len(log[n]) + 1 /\ N.term = currentTerm[n]
      /\ N.before = LastTerm(log[n])
  BY DEF Link
<1>5. /\ role[n] = Leader /\ currentTerm' = currentTerm /\ leaders' = leaders
      /\ log' = [log EXCEPT ![n] = Append(log[n], e)]
  BY <1>2 DEF SubmitEntry, hardState, history
<1>6. e \in Entry /\ e.term = currentTerm[n] /\ log[n] \in Seq(Entry) /\ Len(log[n]) \in Nat
  BY <1>1, LogTypes DEF Entry
<1> HIDE DEF e
<1>7. log'[n] = Append(log[n], e)
  BY <1>1, <1>5 DEF TypeOK, NodeTypeOK
<1>8. Anchored(log'[n], Len(log[n]) + 1, currentTerm[n])
  BY <1>6, <1>7, AppendKeeps DEF Anchored
<1>9. <<currentTerm[n], n>> \in leaders
  BY <1>5 DEF OrderlyStep, LogInv, SpokenByLeaders
<1> HIDE DEF N
<1> QED BY <1>3, <1>4, <1>5, <1>8, <1>9

LEMMA LinksHeldStep ==
  ASSUME OrderlyStep, LinksHeld PROVE LinksHeld'
<1> SUFFICES ASSUME NEW a \in Links', NEW n \in Server, <<a.term, n>> \in leaders',
                    currentTerm'[n] = a.term
             PROVE  Anchored(log'[n], a.index, a.term)
  BY DEF LinksHeld
<1>1. TypeOK /\ ElectionInv /\ ElectionSafety' /\ leaders \subseteq leaders'
  BY StepFacts
<1>2. CASE a \in Links /\ <<a.term, n>> \in leaders
  <2>1. currentTerm[n] = a.term /\ StartsWith(log'[n], log[n])
    BY <1>2, LeadTerm
  <2>2. Anchored(log[n], a.index, a.term)
    BY <1>2, <2>1 DEF LinksHeld
  <2>3. log[n] \in Seq(Entry) /\ log'[n] \in Seq(Entry)
    BY <1>1 DEF OrderlyStep, TypeOK, NodeTypeOK
  <2> QED BY <2>1, <2>2, <2>3, StartsWithAnchor
<1>3. CASE a \in Links /\ <<a.term, n>> \notin leaders
  <2>1. PICK p \in Server : <<a.term, p>> \in leaders
    BY <1>3 DEF OrderlyStep, LogInv, LinksLed
  <2>2. p = n
    BY <1>1, <2>1 DEF ElectionSafety
  <2> QED BY <1>3, <2>1, <2>2
<1>4. CASE a \notin Links
  <2>1. PICK x \in Server : /\ <<currentTerm[x], x>> \in leaders /\ a.term = currentTerm[x]
                            /\ Anchored(log'[x], a.index, a.term)
    BY <1>4, NewLink
  <2>2. x = n
    BY <1>1, <2>1 DEF ElectionSafety
  <2> QED BY <2>1, <2>2
<1> QED BY <1>2, <1>3, <1>4

LEMMA TermStartsStep ==
  ASSUME OrderlyStep, LinksHeld, TermStarts PROVE TermStarts'
<1> SUFFICES ASSUME NEW a \in Links', NEW b \in Links', a.term = b.term, a.before < a.term
             PROVE  a.index <= b.index
  BY DEF TermStarts
<1>1. TypeOK /\ TypeOK'
  BY StepFacts DEF OrderlyStep
<1>2. a.index \in Nat /\ b.index \in Nat
  <2>1. ASSUME NEW d \in Links', d \notin Links PROVE d.index \in Nat
    <3>1. PICK n \in Server : d.index = Len(log[n]) + 1
      BY <2>1, NewLink
    <3>2. Len(log[n]) \in Nat
      BY <1>1, LogTypes
    <3> QED BY <3>1, <3>2
  <2>2. \A d \in Links : d.index \in Nat
    BY <1>1, LinkTypes
  <2> QED BY <2>1, <2>2
<1>3. CASE a \in Links /\ b \in Links
  BY <1>3 DEF TermStarts
<1>4. CASE a \in Links /\ b \notin Links
  <2>1. PICK n \in Server : /\ <<currentTerm[n], n>> \in leaders /\ b.term = currentTerm[n]
                            /\ b.index = Len(log[n]) + 1
    BY <1>4, NewLink
  <2>2. Anchored(log[n], a.index, a.term)
    BY <1>4, <2>1 DEF LinksHeld
  <2>3. Len(log[n]) \in Nat
    BY <1>1, LogTypes
  <2> QED BY <1>2, <2>1, <2>2, <2>3 DEF Anchored
<1>5. CASE a \notin Links /\ b \in Links
  <2>1. PICK n \in Server : /\ <<currentTerm[n], n>> \in leaders /\ a.term = currentTerm[n]
                            /\ a.before = LastTerm(log[n])
    BY <1>5, NewLink
  <2>2. Anchored(log[n], b.index, b.term)
    BY <1>5, <2>1 DEF LinksHeld
  <2>3. /\ log[n] \in Seq(Entry) /\ Len(log[n]) \in Nat
        /\ \A x \in 1..Len(log[n]) : log[n][x].term \in Nat
    BY <1>1, LogTypes, LogTerms
  <2>4. /\ b.index \in 1..Len(log[n]) /\ log[n][b.index].term = b.term
        /\ Len(log[n]) \in 1..Len(log[n])
    BY <2>2, <2>3 DEF Anchored
  <2>5. b.index \in 1..Len(log[n]) /\ LinksOrdered /\ LogLinks(log[n]) \subseteq Links
    BY <2>4, LinksOfLogs DEF OrderlyStep, LogInv
  <2>6. log[n][b.index].term <= log[n][Len(log[n])].term
    BY <2>3, <2>4, <2>5, TermsRise
  <2>7. LastTerm(log[n]) = log[n][Len(log[n])].term
    BY <2>4 DEF LastTerm, TermAt
  <2>8. log[n][b.index].term \in Nat /\ log[n][Len(log[n])].term \in Nat
    BY <2>3, <2>4
  <2>9. a.before = log[n][Len(log[n])].term /\ a.term = log[n][b.index].term
    BY <2>1, <2>4, <2>7
  <2> QED BY <2>6, <2>8, <2>9
<1>6. CASE a \notin Links /\ b \notin Links
  <2>1. b = a
    BY <1>6, NewLink
  <2> QED BY <1>2, <2>1
<1> QED BY <1>3, <1>4, <1>5, <1>6

\* A campaign that can still be won began, or could be won before.
LEMMA OpenKept ==
  ASSUME OrderlyStep, NEW n \in Server, Open(n)'
  PROVE  \/ StartElection(n)
         \/ /\ Open(n) /\ log'[n] = log[n] /\ currentTerm'[n] = currentTerm[n]
            /\ election'[n].term = election[n].term
            /\ election'[n].lastIndex = election[n].lastIndex
            /\ election'[n].lastTerm = election[n].lastTerm
            /\ \A p \in election'[n].granted : p \in election[n].granted \/ Votes(n, p)
<1>1. TypeOK /\ ElectionInv /\ leaders \subseteq leaders' /\ VotesKept
  BY StepFacts
<1>2. /\ election'[n].on /\ currentTerm'[n] = election'[n].term
      /\ \A l \in leaders' : l[1] # election'[n].term
  BY DEF Open
<1>3. CampaignKept(n)
  BY <1>1, <1>2, CampaignsMove DEF OrderlyStep
<1> SUFFICES ASSUME ~StartElection(n)
             PROVE  Open(n) /\ log'[n] = log[n] /\ currentTerm'[n] = currentTerm[n]
  BY <1>3 DEF CampaignKept
<1>4. election[n].on /\ election'[n].term = election[n].term
  BY <1>3 DEF CampaignKept
<1>5. currentTerm[n] = election[n].term /\ currentTerm'[n] = election[n].term
  <2>1. <<n, election[n].term, n>> \in voteLog
    BY <1>1, <1>4 DEF ElectionInv, CampaignBacked
  <2>2. election[n].term <= currentTerm[n]
    BY <1>1, <2>1 DEF ElectionInv, VotesRecorded
  <2>3. currentTerm'[n] >= currentTerm[n]
    BY <1>1 DEF VotesKept
  <2>4. currentTerm[n] \in Nat /\ currentTerm'[n] \in Nat
    BY <1>1 DEF OrderlyStep, TypeOK, NodeTypeOK
  <2> QED BY <1>2, <1>4, <2>2, <2>3, <2>4
<1>6. \A l \in leaders : l[1] # election[n].term
  BY <1>1, <1>2, <1>4
<1>7. Open(n)
  BY <1>4, <1>5, <1>6 DEF Open
<1>8. LogMoves(n)
  BY LogsMove DEF OrderlyStep
<1>9. ASSUME NEW c \in Sending, Takes(c, n) PROVE FALSE
  <2>1. <<c.rd.term, c.node>> \in leaders
    BY DEF OrderlyStep, ProgressBounded, RoundOK
  <2>2. c.rd.term = election[n].term
    BY <1>5, <1>9 DEF Takes
  <2> QED BY <1>6, <2>1, <2>2
<1>10. ~Adds(n)
  BY <1>5, <1>6 DEF Adds, OrderlyStep, LogInv, SpokenByLeaders
<1> QED BY <1>5, <1>7, <1>8, <1>9, <1>10 DEF LogMoves

LEMMA StartElectionEffect ==
  ASSUME TypeOK, NEW n \in Server, StartElection(n)
  PROVE  /\ log' = log /\ calls' = calls /\ leaders' = leaders
         /\ currentTerm'[n] = currentTerm[n] + 1
         /\ \A q \in Server \ {n} : currentTerm'[q] = currentTerm[q]
         /\ election'[n].term = currentTerm[n] + 1 /\ election'[n].granted = {}
         /\ election'[n].lastIndex = Len(log[n])
         /\ election'[n].lastTerm = LastTerm(log[n])
<1>1. log' = log /\ calls' = calls /\ leaders' = leaders
  BY DEF StartElection, logVars, callVars
<1>2. currentTerm' = [currentTerm EXCEPT ![n] = currentTerm[n] + 1]
  BY DEF StartElection, BecomeCandidate
<1>3. /\ currentTerm'[n] = currentTerm[n] + 1
      /\ \A q \in Server \ {n} : currentTerm'[q] = currentTerm[q]
  BY <1>2 DEF TypeOK, NodeTypeOK
<1>4. /\ election'[n].term = currentTerm[n] + 1 /\ election'[n].granted = {}
      /\ election'[n].lastIndex = Len(log[n])
      /\ election'[n].lastTerm = LastTerm(log[n])
  BY DEF StartElection, TypeOK, CallTypeOK
<1> QED BY <1>1, <1>3, <1>4

LEMMA CampaignExactStep ==
  ASSUME OrderlyStep, CampaignExact PROVE CampaignExact'
<1> SUFFICES ASSUME NEW n \in Server, Open(n)'
             PROVE  /\ election'[n].lastIndex = Len(log'[n])
                    /\ election'[n].lastTerm = LastTerm(log'[n])
  <2>1. ASSUME NEW n \in Server, Open(n)'
        PROVE  (election[n].lastIndex = Len(log[n]) /\ election[n].lastTerm = LastTerm(log[n]))'
    BY <2>1 DEF LastTerm, TermAt
  <2> QED BY <2>1 DEF CampaignExact
<1>1. CASE StartElection(n)
  BY <1>1, StepFacts, StartElectionEffect
<1>2. CASE ~StartElection(n)
  BY <1>2, OpenKept DEF CampaignExact
<1> QED BY <1>1, <1>2

(***************************************************************************)
(* Progress stays within the log.                                          *)
(***************************************************************************)

\* The end of a round: acknowledged peers match all of its log.
LEMMA DoneEffect ==
  ASSUME OrderlyStep, NEW c \in Sending, ReplicateDone(c)
  PROVE  LET n == c.node
         IN /\ n \in Server /\ role[n] = Leader /\ currentTerm[n] = c.rd.term
            /\ log' = log /\ currentTerm' = currentTerm /\ role' = role /\ leaders' = leaders
            /\ Sending' \subseteq Sending \ {c}
            /\ \A p \in Server : peerLast'[n][p] =
                 IF p \in c.rd.acks THEN Len(c.rd.log) ELSE peerLast[n][p]
            /\ \A p \in Server : peerNext'[n][p] <= Len(log[n]) + 1
<1> DEFINE n == c.node
           sent(p) == MinOf(Len(c.rd.log), c.rd.next[p] + MaxBatch - 1)
           match == [p \in Server |-> IF p \in c.rd.acks THEN sent(p) ELSE peerLast[n][p]]
           next == [p \in Server |-> IF p \in c.rd.acks THEN sent(p) + 1
                            ELSE IF p \in c.rd.fails
                            THEN Backoff(peerNext[n][p], c.rd.hint[p]) ELSE peerNext[n][p]]
<1>1. TypeOK /\ c \in calls /\ RoundOK(c) /\ MaxLog <= MaxBatch
  BY StepFacts DEF Sending, OrderlyStep, ProgressBounded
<1>2. /\ n \in Server /\ c \in Call /\ c.rd \in Round /\ c.rd.log \in Seq(Entry)
      /\ Len(c.rd.log) \in Nat /\ c.rd.hint \in [Server -> Nat]
      /\ \A p \in Server : c.rd.next[p] \in Nat \ {0}
  BY <1>1, CallFields DEF Round
<1>3. /\ role[n] = Leader /\ currentTerm[n] = c.rd.term
      /\ log' = log /\ currentTerm' = currentTerm /\ role' = role /\ leaders' = leaders
  BY DEF ReplicateDone, hardState
<1>4. /\ peerLast' = [peerLast EXCEPT ![n] = match]
      /\ peerNext' = [peerNext EXCEPT ![n] = next]
  <2>1. peerLast' = [peerLast EXCEPT ![n] = match]
    BY DEF ReplicateDone
  <2>2. peerNext' = [peerNext EXCEPT ![n] = next]
    BY DEF ReplicateDone
  <2> QED BY <2>1, <2>2
<1>5. /\ MaxLog \in Nat /\ MaxBatch \in Nat /\ Len(c.rd.log) <= MaxLog
      /\ Len(c.rd.log) <= Len(log[n]) /\ Len(log[n]) \in Nat
      /\ \A p \in Server : peerNext[n][p] <= Len(log[n]) + 1 /\ peerNext[n][p] \in Nat \ {0}
  <2>1. MaxLog \in Nat /\ MaxBatch \in Nat
    BY BoundAssumption
  <2>2. Len(c.rd.log) <= MaxLog /\ Len(c.rd.log) <= Len(log[n])
    BY <1>1, <1>3 DEF RoundOK, StartsWith
  <2>3. Len(log[n]) \in Nat
    BY <1>1, <1>2, LogTypes
  <2>4. \A p \in Server : peerNext[n][p] <= Len(log[n]) + 1
    BY <1>2, <1>3 DEF OrderlyStep, ProgressBounded
  <2>5. \A p \in Server : peerNext[n][p] \in Nat \ {0}
    BY <1>1, <1>2 DEF TypeOK, NodeTypeOK
  <2> QED BY <2>1, <2>2, <2>3, <2>4, <2>5
<1>6. \A p \in Server : sent(p) = Len(c.rd.log)
  <2> TAKE p \in Server
  <2>1. c.rd.next[p] \in Nat \ {0}
    BY <1>2
  <2>2. PICK x, k : x = c.rd.next[p] /\ k = Len(c.rd.log)
    OBVIOUS
  <2>3. MinOf(k, x + MaxBatch - 1) = k
    BY <1>1, <1>2, <1>5, <2>1, <2>2 DEF MinOf
  <2> QED BY <2>2, <2>3
<1> HIDE DEF sent
<1>7. \A p \in Server : peerLast'[n][p] =
        IF p \in c.rd.acks THEN Len(c.rd.log) ELSE peerLast[n][p]
  <2>1. peerLast'[n] = match
    BY <1>1, <1>2, <1>4 DEF TypeOK, NodeTypeOK
  <2> QED BY <1>6, <2>1
<1>8. ASSUME NEW p \in Server PROVE peerNext'[n][p] <= Len(log[n]) + 1
  <2>1. peerNext'[n] = next
    BY <1>1, <1>2, <1>4 DEF TypeOK, NodeTypeOK
  <2>2. ASSUME NEW x \in Nat \ {0}, NEW h \in Nat, NEW k \in Nat, x <= k + 1
        PROVE  Backoff(x, h) <= k + 1
    BY <2>2 DEF Backoff, MaxOf, MinOf
  <2>3. c.rd.hint[p] \in Nat
    BY <1>2
  <2>4. Backoff(peerNext[n][p], c.rd.hint[p]) <= Len(log[n]) + 1
    BY <1>5, <2>2, <2>3
  <2>5. sent(p) + 1 <= Len(log[n]) + 1
    BY <1>2, <1>5, <1>6
  <2>6. \/ peerNext'[n][p] = sent(p) + 1
        \/ peerNext'[n][p] = Backoff(peerNext[n][p], c.rd.hint[p])
        \/ peerNext'[n][p] = peerNext[n][p]
    BY <2>1
  <2> QED BY <1>5, <2>4, <2>5, <2>6
<1>9. Sending' \subseteq Sending \ {c}
  <2> DEFINE e == [c EXCEPT !.phase = "start", !.tries = @ + 1, !.rd = NoRound]
             f == [c EXCEPT !.phase = "check", !.tries = 0, !.rd = NoRound]
  <2>1. e.phase = "start" /\ f.phase = "check"
    BY <1>2 DEF Call
  <2>2. Continue(c, {e}) \/ Continue(c, Returned(c))
    BY DEF ReplicateDone
  <2>3. Returned(c) \subseteq {f}
    BY DEF Returned
  <2> HIDE DEF e, f
  <2>4. calls' \subseteq (calls \ {c}) \cup {e, f}
    BY <2>2, <2>3 DEF Continue
  <2> QED BY <2>1, <2>4 DEF Sending
<1> QED BY <1>2, <1>3, <1>7, <1>8, <1>9

LEMMA RoundOKStep ==
  ASSUME OrderlyStep, NEW d \in Sending'
  PROVE  RoundOK(d)'
<1>1. /\ TypeOK /\ ElectionInv /\ ElectionSafety /\ leaders \subseteq leaders' /\ VotesKept
      /\ TypeOK' /\ Next /\ Orderly
  BY StepFacts DEF OrderlyStep
<1> SUFFICES /\ <<d.rd.term, d.node>> \in leaders'
             /\ d.node \notin d.rd.todo \cup d.rd.acks
             /\ Len(d.rd.log) <= MaxLog
             /\ \A p \in Server : d.rd.next[p] <= Len(d.rd.log) + 1
             /\ currentTerm'[d.node] = d.rd.term => StartsWith(log'[d.node], d.rd.log)
             /\ role'[d.node] = Leader /\ currentTerm'[d.node] = d.rd.term
                  => \A p \in Server : peerLast'[d.node][p] <= Len(d.rd.log)
  BY DEF RoundOK, StartsWith
<1>2. RoundKept(d)
  BY RoundsMove DEF OrderlyStep
<1>3. ASSUME NEW c \in Sending, SameRound(c, d),
             \A p \in d.rd.acks : p \in c.rd.acks \/ Takes(c, p)
      PROVE  /\ <<d.rd.term, d.node>> \in leaders'
             /\ d.node \notin d.rd.todo \cup d.rd.acks
             /\ Len(d.rd.log) <= MaxLog
             /\ \A p \in Server : d.rd.next[p] <= Len(d.rd.log) + 1
             /\ currentTerm'[d.node] = d.rd.term => StartsWith(log'[d.node], d.rd.log)
             /\ role'[d.node] = Leader /\ currentTerm'[d.node] = d.rd.term
                  => \A p \in Server : peerLast'[d.node][p] <= Len(d.rd.log)
  <2>1. RoundOK(c) /\ c \in calls
    BY DEF OrderlyStep, ProgressBounded, Sending
  <2>2. /\ d.node = c.node /\ d.rd.term = c.rd.term /\ d.rd.log = c.rd.log
        /\ d.rd.next = c.rd.next /\ d.rd.todo \subseteq c.rd.todo
    BY <1>3 DEF SameRound
  <2>3. c.node \in Server /\ c.rd.log \in Seq(Entry)
    BY <1>1, <2>1, LogTypes
  <2>4. <<c.rd.term, c.node>> \in leaders
    BY <2>1 DEF RoundOK
  <2>5. d.node \notin d.rd.todo \cup d.rd.acks
    BY <1>3, <2>1, <2>2 DEF RoundOK, Takes
  <2>6. /\ Len(d.rd.log) <= MaxLog
        /\ \A p \in Server : d.rd.next[p] <= Len(d.rd.log) + 1
    BY <2>1, <2>2 DEF RoundOK
  <2>7. ASSUME currentTerm'[c.node] = c.rd.term
        PROVE  currentTerm[c.node] = c.rd.term /\ StartsWith(log'[c.node], c.rd.log)
    <3>1. currentTerm[c.node] = c.rd.term /\ StartsWith(log'[c.node], log[c.node])
      BY <2>3, <2>4, <2>7, LeadTerm
    <3>2. StartsWith(log[c.node], c.rd.log)
      BY <2>1, <3>1 DEF RoundOK
    <3>3. log[c.node] \in Seq(Entry) /\ log'[c.node] \in Seq(Entry)
      BY <1>1, <2>3 DEF TypeOK, NodeTypeOK
    <3> QED BY <2>3, <3>1, <3>2, <3>3, StartsWithTrans
  <2>8. ASSUME role'[c.node] = Leader, currentTerm'[c.node] = c.rd.term
        PROVE  \A p \in Server : peerLast'[c.node][p] <= Len(c.rd.log)
    <3>1. CASE /\ role[c.node] = Leader /\ currentTerm'[c.node] = currentTerm[c.node]
               /\ peerLast'[c.node] = peerLast[c.node]
      BY <2>1, <2>7, <2>8, <3>1 DEF RoundOK
    <3>2. ASSUME ElectionWon(c.node) PROVE FALSE
      <4>1. <<currentTerm[c.node], c.node>> \notin leaders
        BY <1>1, <2>3, <3>2, WinnerMoves
      <4> QED BY <2>4, <2>7, <2>8, <4>1
    <3>3. ASSUME NEW e \in Sending, e.node = c.node, ReplicateDone(e) PROVE FALSE
      <4>1. currentTerm[e.node] = e.rd.term /\ Sending' \subseteq Sending \ {e}
        BY <3>3, DoneEffect
      <4>2. e.rd.term = d.rd.term /\ e.node = d.node /\ d \in Sending /\ d # e
        BY <2>2, <2>7, <2>8, <3>3, <4>1
      <4> QED BY <1>1, <4>2 DEF Orderly
    <3> QED BY <1>1, <2>3, <2>8, <3>1, <3>2, <3>3, PeersMove
  <2> QED BY <1>1, <2>2, <2>4, <2>5, <2>6, <2>7, <2>8
<1>4. ASSUME Begins(d)
      PROVE  /\ <<d.rd.term, d.node>> \in leaders'
             /\ d.node \notin d.rd.todo \cup d.rd.acks
             /\ Len(d.rd.log) <= MaxLog
             /\ \A p \in Server : d.rd.next[p] <= Len(d.rd.log) + 1
             /\ currentTerm'[d.node] = d.rd.term => StartsWith(log'[d.node], d.rd.log)
             /\ role'[d.node] = Leader /\ currentTerm'[d.node] = d.rd.term
                  => \A p \in Server : peerLast'[d.node][p] <= Len(d.rd.log)
  <2>1. /\ d.node \in Server /\ role[d.node] = Leader
        /\ d.rd.term = currentTerm[d.node] /\ d.rd.log = log[d.node]
        /\ d.rd.next = peerNext[d.node] /\ d.rd.acks = {} /\ d.rd.todo = Peers(d.node)
        /\ log' = log /\ peerLast' = peerLast /\ leaders' = leaders
    BY <1>4 DEF Begins
  <2>2. <<d.rd.term, d.node>> \in leaders
    BY <2>1 DEF OrderlyStep, LogInv, SpokenByLeaders
  <2>3. d.node \notin d.rd.todo \cup d.rd.acks
    BY <2>1 DEF Peers
  <2>4. /\ Len(log[d.node]) <= MaxLog
        /\ \A p \in Server : /\ peerNext[d.node][p] <= Len(log[d.node]) + 1
                             /\ peerLast[d.node][p] <= Len(log[d.node])
    BY <2>1 DEF OrderlyStep, ProgressBounded
  <2>5. Len(log[d.node]) \in Nat
    BY <1>1, <2>1, LogTypes
  <2>6. StartsWith(log[d.node], log[d.node])
    BY <2>5 DEF StartsWith
  <2> QED BY <2>1, <2>2, <2>3, <2>4, <2>6
<1> QED BY <1>2, <1>3, <1>4 DEF RoundKept

LEMMA ProgressStep ==
  ASSUME OrderlyStep PROVE ProgressBounded'
<1>1. TypeOK /\ ElectionInv /\ TypeOK' /\ Next /\ Orderly /\ LogInv /\ ProgressBounded
  BY StepFacts DEF OrderlyStep
<1>2. \A d \in calls' : d.rd.todo # {} => d \in Sending'
  BY RoundsMove DEF OrderlyStep
<1>3. \A d \in Sending' : RoundOK(d)'
  BY RoundOKStep
<1>4. ASSUME NEW n \in Server PROVE Len(log'[n]) <= MaxLog
  <2>1. Len(log[n]) <= MaxLog /\ Len(log[n]) \in Nat /\ log[n] \in Seq(Entry)
    BY <1>1, LogTypes DEF ProgressBounded
  <2>2. ASSUME NEW c \in Sending PROVE Len(c.rd.log) <= MaxLog
    BY <1>1 DEF ProgressBounded, RoundOK
  <2>3. ASSUME Adds(n) PROVE Len(log'[n]) <= MaxLog
    <3>1. PICK e \in Entry : log'[n] = Append(log[n], e)
      BY <2>3 DEF Adds
    <3>2. Len(log'[n]) = Len(log[n]) + 1
      BY <2>1, <3>1, AppendKeeps
    <3>3. Len(log[n]) < MaxLog /\ MaxLog \in Nat
      BY <2>3, BoundAssumption DEF Adds
    <3> QED BY <2>1, <3>2, <3>3
  <2> QED BY <2>1, <2>2, <2>3, LogsMove DEF OrderlyStep, LogMoves
<1>5. ASSUME NEW n \in Server, role'[n] = Leader
      PROVE  \A p \in Server : /\ peerLast'[n][p] <= Len(log'[n])
                               /\ peerNext'[n][p] <= Len(log'[n]) + 1
  <2>0. Len(log[n]) \in Nat /\ Len(log'[n]) \in Nat
    BY <1>1 DEF TypeOK, NodeTypeOK
  <2>1. CASE /\ role[n] = Leader /\ currentTerm'[n] = currentTerm[n]
             /\ peerLast'[n] = peerLast[n] /\ peerNext'[n] = peerNext[n]
    <3>1. <<currentTerm[n], n>> \in leaders
      BY <1>1, <2>1 DEF LogInv, SpokenByLeaders
    <3>2. Len(log[n]) <= Len(log'[n])
      BY <2>1, <3>1, LeadTerm DEF StartsWith
    <3>3. \A p \in Server : peerLast[n][p] <= Len(log[n]) /\ peerNext[n][p] <= Len(log[n]) + 1
      BY <1>1, <2>1 DEF ProgressBounded
    <3>4. \A p \in Server : peerLast[n][p] \in Nat /\ peerNext[n][p] \in Nat
      BY <1>1 DEF TypeOK, NodeTypeOK
    <3> QED BY <2>0, <2>1, <3>2, <3>3, <3>4
  <2>2. CASE ElectionWon(n)
    <3>1. /\ peerLast'[n] = [p \in Server |-> 0] /\ log' = log
          /\ peerNext'[n] = [p \in Server |-> Len(log[n]) + 1]
      BY <1>1, <2>2, WinnerMoves
    <3> QED BY <2>0, <3>1
  <2>3. ASSUME NEW c \in Sending, c.node = n, ReplicateDone(c)
        PROVE  \A p \in Server : /\ peerLast'[n][p] <= Len(log'[n])
                                 /\ peerNext'[n][p] <= Len(log'[n]) + 1
    <3>1. /\ log' = log /\ role[n] = Leader /\ currentTerm[n] = c.rd.term
          /\ \A p \in Server : peerLast'[n][p] =
                 IF p \in c.rd.acks THEN Len(c.rd.log) ELSE peerLast[n][p]
          /\ \A p \in Server : peerNext'[n][p] <= Len(log[n]) + 1
      BY <2>3, DoneEffect
    <3>2. Len(c.rd.log) <= Len(log[n])
      BY <1>1, <2>3, <3>1 DEF ProgressBounded, RoundOK, StartsWith
    <3>3. \A p \in Server : peerLast[n][p] <= Len(log[n])
      BY <1>1, <3>1 DEF ProgressBounded
    <3> QED BY <3>1, <3>2, <3>3
  <2> QED BY <1>1, <1>5, <2>1, <2>2, <2>3, PeersMove
<1> QED BY <1>2, <1>3, <1>4, <1>5 DEF ProgressBounded

(***************************************************************************)
(* An anchor that is safe stays safe.                                      *)
(***************************************************************************)

\* The members of Q that leave the anchor's term take the anchor along.
Leaving(Q, j, t) ==
  \A q \in Q : currentTerm[q] <= t /\ currentTerm'[q] > t => Anchored(log[q], j, t)

SafeBefore(Q, j, t) ==
  OrderlyStep /\ TermStarts /\ CampaignExact /\ Safe(Q, j, t) /\ Leaving(Q, j, t)

LEMMA LogTypesNext ==
  ASSUME OrderlyStep
  PROVE  \A n \in Server :
           /\ log[n] \in Seq(Entry) /\ Len(log[n]) \in Nat /\ currentTerm[n] \in Nat
           /\ log'[n] \in Seq(Entry) /\ Len(log'[n]) \in Nat /\ currentTerm'[n] \in Nat
<1>1. TypeOK /\ TypeOK'
  BY StepFacts DEF OrderlyStep
<1>2. \A n \in Server : log'[n] \in Seq(Entry) /\ Len(log'[n]) \in Nat /\ currentTerm'[n] \in Nat
  BY <1>1 DEF TypeOK, NodeTypeOK
<1> QED BY <1>1, <1>2, LogTypes

LEMMA SafeMembers ==
  ASSUME NEW Q \in Quorums, NEW j \in Nat, NEW t \in Nat, SafeBefore(Q, j, t),
         NEW q \in Q, currentTerm'[q] > t
  PROVE  Anchored(log'[q], j, t)
<1>1. OrderlyStep /\ Safe(Q, j, t) /\ q \in Server
  BY DEF SafeBefore, Quorums
<1>2. LogMoves(q)
  BY <1>1, LogsMove DEF OrderlyStep
<1>3. currentTerm[q] \in Nat /\ currentTerm'[q] \in Nat /\ log[q] \in Seq(Entry)
  BY <1>1, LogTypesNext
<1>4. CASE log'[q] = log[q]
  <2>1. CASE currentTerm[q] > t
    BY <1>1, <1>4, <2>1 DEF Safe
  <2>2. CASE currentTerm[q] <= t
    BY <1>4, <2>2 DEF SafeBefore, Leaving
  <2> QED BY <1>3, <2>1, <2>2
<1>5. ASSUME NEW c \in Sending, Takes(c, q), log'[q] = c.rd.log PROVE Anchored(log'[q], j, t)
  <2>1. c.rd.term > t
    BY <1>5 DEF Takes
  <2> QED BY <1>1, <1>5, <2>1 DEF Safe
<1>6. CASE Adds(q)
  <2>1. PICK e \in Entry : log'[q] = Append(log[q], e)
    BY <1>6 DEF Adds
  <2>2. currentTerm[q] > t
    BY <1>6 DEF Adds
  <2>3. Anchored(log[q], j, t)
    BY <1>1, <2>2 DEF Safe
  <2> QED BY <1>3, <2>1, <2>3, AppendAnchor
<1> QED BY <1>2, <1>4, <1>5, <1>6 DEF LogMoves

LEMMA SafeLogs ==
  ASSUME NEW Q \in Quorums, NEW j \in Nat, NEW t \in Nat, SafeBefore(Q, j, t),
         NEW n \in Server, Later(log'[n], t)
  PROVE  Anchored(log'[n], j, t)
<1>1. OrderlyStep /\ Safe(Q, j, t)
  BY DEF SafeBefore
<1>2. LogMoves(n)
  BY <1>1, LogsMove DEF OrderlyStep
<1>3. CASE log'[n] = log[n]
  BY <1>1, <1>3 DEF Safe
<1>4. ASSUME NEW c \in Sending, log'[n] = c.rd.log PROVE Anchored(log'[n], j, t)
  <2>1. c \in calls
    BY DEF Sending
  <2> QED BY <1>1, <1>4, <2>1 DEF Safe
<1>5. CASE Adds(n)
  <2>1. PICK e \in Entry : e.term = currentTerm[n] /\ log'[n] = Append(log[n], e)
    BY <1>5 DEF Adds
  <2>2. log[n] \in Seq(Entry) /\ Len(log[n]) \in Nat
    BY <1>1, LogTypesNext
  <2>3. PICK i \in 1..Len(log'[n]) : log'[n][i].term > t
    BY DEF Later
  <2>4. Anchored(log[n], j, t)
    <3>1. CASE i \in 1..Len(log[n])
      <4>1. log'[n][i] = log[n][i]
        BY <2>1, <2>2, <3>1, AppendKeeps
      <4>2. Later(log[n], t)
        BY <2>3, <3>1, <4>1 DEF Later
      <4> QED BY <1>1, <4>2 DEF Safe
    <3>2. CASE i \notin 1..Len(log[n])
      <4>1. i = Len(log[n]) + 1
        BY <2>1, <2>2, <3>2, AppendKeeps
      <4>2. currentTerm[n] > t
        BY <2>1, <2>2, <2>3, <4>1, AppendKeeps
      <4>3. <<currentTerm[n], n>> \in leaders
        BY <1>1, <1>5 DEF Adds, OrderlyStep, LogInv, SpokenByLeaders
      <4>4. PICK l \in leaders : l = <<currentTerm[n], n>>
        BY <4>3
      <4>5. l[1] = currentTerm[n] /\ l[2] = n
        BY <4>4
      <4> QED BY <1>1, <4>2, <4>5 DEF Safe
    <3> QED BY <3>1, <3>2
  <2> QED BY <2>1, <2>2, <2>4, AppendAnchor
<1> QED BY <1>2, <1>3, <1>4, <1>5 DEF LogMoves

LEMMA SafeCalls ==
  ASSUME NEW Q \in Quorums, NEW j \in Nat, NEW t \in Nat, SafeBefore(Q, j, t), NEW d \in calls'
  PROVE  Later(d.rd.log, t) => Anchored(d.rd.log, j, t)
<1>1. OrderlyStep /\ Safe(Q, j, t)
  BY DEF SafeBefore
<1>2. CallKept(d)
  BY <1>1, StepFacts, LogStepKinds DEF OrderlyStep, RequestsKept
<1>3. CASE d.rd.log = <<>>
  BY <1>3 DEF Later
<1>4. CASE \E c \in calls : d.rd.log = c.rd.log
  BY <1>1, <1>4 DEF Safe
<1>5. CASE d.node \in Server /\ d.rd.log = log[d.node]
  BY <1>1, <1>5 DEF Safe
<1> QED BY <1>2, <1>3, <1>4, <1>5 DEF CallKept

LEMMA SafeRounds ==
  ASSUME NEW Q \in Quorums, NEW j \in Nat, NEW t \in Nat, SafeBefore(Q, j, t),
         NEW d \in Sending', d.rd.term > t
  PROVE  Anchored(d.rd.log, j, t)
<1>1. OrderlyStep /\ Safe(Q, j, t)
  BY DEF SafeBefore
<1>2. RoundKept(d)
  BY <1>1, RoundsMove DEF OrderlyStep
<1>3. CASE \E c \in Sending : SameRound(c, d)
  BY <1>1, <1>3 DEF Safe, SameRound
<1>4. CASE Begins(d)
  <2>1. /\ d.node \in Server /\ role[d.node] = Leader
        /\ d.rd.term = currentTerm[d.node] /\ d.rd.log = log[d.node]
    BY <1>4 DEF Begins
  <2>2. <<currentTerm[d.node], d.node>> \in leaders
    BY <1>1, <2>1 DEF OrderlyStep, LogInv, SpokenByLeaders
  <2>3. PICK l \in leaders : l[1] = currentTerm[d.node] /\ l[2] = d.node
    BY <2>2
  <2> QED BY <1>1, <2>1, <2>3 DEF Safe
<1> QED BY <1>2, <1>3, <1>4 DEF RoundKept

\* The votes of a winner make a majority, and its campaign was open.
LEMMA WinnerOpen ==
  ASSUME OrderlyStep, NEW n \in Server, ElectionWon(n)
  PROVE  Open(n) /\ election[n].granted \cup {n} \in Quorums
<1>1. ElectionInv /\ TypeOK /\ ElectionSafety'
  BY StepFacts
<1>2. /\ election[n].on /\ election[n].term = currentTerm[n]
      /\ election[n].granted \in SUBSET Server
      /\ Cardinality(election[n].granted) + 1 >= Majority
  BY <1>1 DEF ElectionWon, Tallied, Campaigning, TypeOK, CallTypeOK, Election
<1>3. n \notin election[n].granted
  BY <1>1, <1>2 DEF ElectionInv, CampaignBacked
<1>4. IsFiniteSet(election[n].granted)
  BY <1>2, FS_Subset, ServerAssumption
<1>5. Cardinality(election[n].granted \cup {n}) >= Majority
  BY <1>2, <1>3, <1>4, FS_AddElement
<1>6. ASSUME NEW l \in leaders, l[1] = currentTerm[n] PROVE FALSE
  <2>1. l = <<l[1], l[2]>>
    BY <1>1, LeaderPair
  <2>2. leaders' = leaders \cup {<<currentTerm[n], n>>} /\ <<currentTerm[n], n>> \notin leaders
    BY <1>1, WinnerMoves
  <2>3. l[2] = n
    BY <1>1, <1>6, <2>2 DEF ElectionSafety
  <2> QED BY <1>6, <2>1, <2>2, <2>3
<1> QED BY <1>2, <1>5, <1>6 DEF Open, Quorums

LEMMA SafeLeaders ==
  ASSUME NEW Q \in Quorums, NEW j \in Nat, NEW t \in Nat, SafeBefore(Q, j, t),
         NEW l \in leaders', l[1] > t, currentTerm'[l[2]] = l[1]
  PROVE  Anchored(log'[l[2]], j, t)
<1>1. OrderlyStep /\ Safe(Q, j, t) /\ TypeOK /\ ElectionInv /\ TypeOK'
  BY StepFacts DEF SafeBefore, OrderlyStep
<1>2. CASE l \in leaders
  <2>1. l[2] \in Server /\ <<l[1], l[2]>> \in leaders
    BY <1>1, <1>2, LeaderPair
  <2>2. currentTerm[l[2]] = l[1] /\ StartsWith(log'[l[2]], log[l[2]])
    BY <1>1, <2>1, LeadTerm
  <2>3. Anchored(log[l[2]], j, t)
    BY <1>1, <1>2, <2>2 DEF Safe
  <2>4. log[l[2]] \in Seq(Entry) /\ log'[l[2]] \in Seq(Entry)
    BY <1>1, <2>1, LogTypesNext
  <2> QED BY <2>2, <2>3, <2>4, StartsWithAnchor
<1>3. CASE l \notin leaders
  <2>1. PICK n \in Server : ElectionWon(n)
    BY <1>1, <1>3, RolesMove DEF OrderlyStep
  <2>2. leaders' = leaders \cup {<<currentTerm[n], n>>} /\ log' = log
        /\ currentTerm[n] = election[n].term
    BY <1>1, <2>1, WinnerMoves
  <2>3. l = <<currentTerm[n], n>>
    BY <1>3, <2>2
  <2>4. l[1] = election[n].term /\ l[2] = n
    BY <2>2, <2>3
  <2>5. Open(n) /\ election[n].granted \cup {n} \in Quorums
    BY <1>1, <2>1, WinnerOpen
  <2>6. (election[n].granted \cup {n}) \cap Q # {}
    BY <2>5, QuorumsMeet
  <2> QED BY <1>1, <2>2, <2>4, <2>5, <2>6 DEF Safe
<1> QED BY <1>2, <1>3

LEMMA SafeCampaigns ==
  ASSUME NEW Q \in Quorums, NEW j \in Nat, NEW t \in Nat, SafeBefore(Q, j, t),
         NEW n \in Server, Open(n)', election'[n].term > t,
         (election'[n].granted \cup {n}) \cap Q # {}
  PROVE  Anchored(log'[n], j, t)
<1>1. OrderlyStep /\ Safe(Q, j, t) /\ CampaignExact /\ TermStarts /\ TypeOK /\ LinksOrdered
  BY StepFacts DEF SafeBefore, OrderlyStep, LogInv
<1>2. PICK q \in Q : q \in election'[n].granted \cup {n}
  OBVIOUS
<1>3. q \in Server
  BY DEF Quorums
<1>4. CASE StartElection(n)
  <2>1. /\ currentTerm'[n] = election'[n].term /\ election'[n].granted = {}
    BY <1>1, <1>4, StartElectionEffect
  <2>2. q = n
    BY <1>2, <2>1
  <2> QED BY <2>1, <2>2, SafeMembers
<1>5. CASE ~StartElection(n)
  <2>1. /\ Open(n) /\ log'[n] = log[n] /\ election'[n].term = election[n].term
        /\ \A p \in election'[n].granted : p \in election[n].granted \/ Votes(n, p)
    BY <1>1, <1>5, OpenKept
  <2>2. CASE q \in election[n].granted \cup {n}
    <3>1. (election[n].granted \cup {n}) \cap Q # {}
      BY <2>2
    <3> QED BY <1>1, <2>1, <3>1 DEF Safe
  <2>3. CASE Votes(n, q)
    <3> DEFINE m == VoteRequest(n, q)
    <3>1. OnRequestVote(q, m) /\ GrantsVote(q, m)
      BY <2>3 DEF Votes
    <3>2. /\ m.term = election[n].term /\ m.lastIndex = election[n].lastIndex
          /\ m.lastTerm = election[n].lastTerm
      BY DEF VoteRequest
    <3> HIDE DEF m
    <3>3. m.lastIndex = Len(log[n]) /\ m.lastTerm = LastTerm(log[n])
      BY <1>1, <2>1, <3>2 DEF CampaignExact
    <3>4. log' = log /\ currentTerm' = [currentTerm EXCEPT ![q] = MaxOf(m.term, currentTerm[q])]
      BY <3>1 DEF OnRequestVote, logVars
    <3>5. m.term >= currentTerm[q] /\ LogUpToDate(q, m)
      BY <3>1 DEF GrantsVote
    <3>6. currentTerm \in [Server -> Nat] /\ election[n].term \in Nat
      BY <1>1 DEF TypeOK, NodeTypeOK, CallTypeOK, Election
    <3>7. currentTerm'[q] = m.term
      <4>1. currentTerm'[q] = MaxOf(m.term, currentTerm[q])
        BY <1>3, <3>4, <3>6
      <4>2. currentTerm[q] \in Nat /\ m.term \in Nat
        BY <1>3, <3>2, <3>6
      <4> QED BY <3>5, <4>1, <4>2 DEF MaxOf
    <3>8. Anchored(log[q], j, t)
      BY <2>1, <3>2, <3>4, <3>7, SafeMembers
    <3>9. Later(log[n], t) => Anchored(log[n], j, t)
      BY <1>1 DEF Safe
    <3>10. \/ LastTerm(log[n]) > LastTerm(log[q])
           \/ LastTerm(log[n]) = LastTerm(log[q]) /\ Len(log[n]) >= Len(log[q])
      BY <3>3, <3>5 DEF LogUpToDate
    <3>11. /\ log[n] \in Seq(Entry) /\ log[q] \in Seq(Entry)
           /\ LogLinks(log[n]) \subseteq Links /\ LogLinks(log[q]) \subseteq Links
      BY <1>1, <1>3, LogTypes, LinksOfLogs
    <3>12. Anchored(log[n], j, t)
      BY <1>1, <3>8, <3>9, <3>10, <3>11, UpToDateHolds
    <3> QED BY <2>1, <3>12
  <2> QED BY <1>2, <2>1, <2>2, <2>3
<1> QED BY <1>4, <1>5

LEMMA SafeStep ==
  ASSUME NEW Q \in Quorums, NEW j \in Nat, NEW t \in Nat, SafeBefore(Q, j, t)
  PROVE  Safe(Q, j, t)'
<1>1. (\A q \in Q : currentTerm[q] > t => Anchored(log[q], j, t))'
  BY SafeMembers DEF Anchored
<1>2. (\A l \in leaders : l[1] > t /\ currentTerm[l[2]] = l[1] => Anchored(log[l[2]], j, t))'
  BY SafeLeaders DEF Anchored
<1>3. (\A n \in Server : Later(log[n], t) => Anchored(log[n], j, t))'
  BY SafeLogs DEF Anchored, Later
<1>4. (\A c \in calls : Later(c.rd.log, t) => Anchored(c.rd.log, j, t))'
  BY SafeCalls DEF Anchored, Later
<1>5. (\A n \in Server :
         Open(n) /\ election[n].term > t /\ (election[n].granted \cup {n}) \cap Q # {}
           => Anchored(log[n], j, t))'
  BY SafeCampaigns DEF Anchored
<1>6. (\A c \in Sending : c.rd.term > t => Anchored(c.rd.log, j, t))'
  BY SafeRounds DEF Anchored
<1> QED BY <1>1, <1>2, <1>3, <1>4, <1>5, <1>6 DEF Safe

(***************************************************************************)
(* What a leader counts is safe.                                           *)
(***************************************************************************)

\* A majority that has not passed term t has let nobody pass it.
LEMMA FreshSafe ==
  ASSUME LogInv, ProgressBounded, NEW Q \in Quorums, NEW j \in Nat, NEW t \in Nat,
         \A q \in Q : currentTerm[q] <= t
  PROVE  Safe(Q, j, t)
<1>1. TypeOK /\ ElectionInv /\ Q \in SUBSET Server
  BY DEF LogInv, ElectionInv, Quorums
<1>2. ASSUME NEW q \in Q, NEW u \in Nat, NEW n, <<q, u, n>> \in voteLog PROVE ~(u > t)
  <2>1. u <= currentTerm[q]
    BY <1>1, <1>2 DEF ElectionInv, VotesRecorded
  <2>2. currentTerm[q] \in Nat /\ currentTerm[q] <= t
    BY <1>1, LogTypes
  <2> QED BY <2>1, <2>2
<1>3. ASSUME NEW l \in leaders PROVE ~(l[1] > t)
  <2>1. PICK P \in SUBSET Server : BackedBy(l, P)
    BY <1>1 DEF ElectionInv, LeadersBacked
  <2>2. P \in Quorums /\ \A q \in P : <<q, l[1], l[2]>> \in voteLog
    BY <2>1 DEF BackedBy, Quorums
  <2>3. PICK q \in Q : q \in P
    BY <2>2, QuorumsMeet
  <2>4. l[1] \in Nat
    BY <1>1, LeaderPair
  <2> QED BY <1>2, <2>2, <2>3, <2>4
<1>4. ASSUME NEW l \in Seq(Entry), LogLinks(l) \subseteq Links PROVE ~Later(l, t)
  <2> SUFFICES ASSUME NEW i \in 1..Len(l), l[i].term > t PROVE FALSE
    BY DEF Later
  <2>1. Anchored(l, i, l[i].term)
    BY DEF Anchored
  <2>2. PICK a \in Links : a.term = l[i].term
    BY <1>4, <2>1, AnchorLink
  <2>3. PICK n \in Server : <<a.term, n>> \in leaders
    BY DEF LogInv, LinksLed
  <2>4. PICK b \in leaders : b[1] = a.term
    BY <2>3
  <2> QED BY <1>3, <2>2, <2>4
<1>5. \A n \in Server : ~Later(log[n], t)
  BY <1>1, <1>4, LogTypes, LinksOfLogs
<1>6. \A c \in calls : ~Later(c.rd.log, t)
  BY <1>1, <1>4, LogTypes, LinksOfCalls
<1>7. ASSUME NEW n \in Server, Open(n), NEW q \in Q, q \in election[n].granted \cup {n}
      PROVE  ~(election[n].term > t)
  <2>1. election[n].on
    BY <1>7 DEF Open
  <2>2. <<q, election[n].term, n>> \in voteLog
    BY <1>1, <1>7, <2>1 DEF ElectionInv, CampaignBacked
  <2>3. election[n].term \in Nat
    BY <1>1 DEF TypeOK, CallTypeOK, Election
  <2> QED BY <1>2, <2>2, <2>3
<1>8. ASSUME NEW c \in Sending PROVE ~(c.rd.term > t)
  <2>1. <<c.rd.term, c.node>> \in leaders
    BY DEF ProgressBounded, RoundOK
  <2>2. PICK l \in leaders : l[1] = c.rd.term
    BY <2>1
  <2> QED BY <1>3, <2>2
<1>9. ASSUME NEW q \in Q PROVE ~(currentTerm[q] > t)
  BY <1>1, LogTypes
<1> QED BY <1>3, <1>5, <1>6, <1>7, <1>8, <1>9 DEF Safe

\* Whom a leader counts after a step it counted before, or just took its
\* request.
LEMMA ConfirmedKept ==
  ASSUME OrderlyStep, NEW n \in Server, role[n] = Leader, role'[n] = Leader,
         currentTerm'[n] = currentTerm[n], NEW p \in Server, NEW j \in Nat, Confirmed(n, p, j)'
  PROVE  \/ Confirmed(n, p, j)
         \/ \E c \in Sending : /\ c.node = n /\ c.rd.term = currentTerm[n]
                               /\ j <= Len(c.rd.log) /\ Takes(c, p)
<1>1. TypeOK /\ TypeOK' /\ ElectionInv /\ Orderly /\ Next
  BY StepFacts DEF OrderlyStep
<1>2. CASE p = n
  BY <1>2 DEF Confirmed
<1>3. CASE peerLast'[n][p] >= j
  <2>1. CASE peerLast'[n] = peerLast[n]
    BY <1>3, <2>1 DEF Confirmed
  <2>2. ~ElectionWon(n)
    BY <1>1, WinnerMoves
  <2>3. ASSUME NEW c \in Sending, c.node = n, ReplicateDone(c) PROVE Confirmed(n, p, j)
    <3>1. /\ currentTerm[n] = c.rd.term
          /\ peerLast'[n][p] = IF p \in c.rd.acks THEN Len(c.rd.log) ELSE peerLast[n][p]
      BY <2>3, DoneEffect
    <3>2. CASE p \in c.rd.acks
      <4>1. Len(c.rd.log) >= j
        BY <1>3, <3>1, <3>2
      <4>2. Len(c.rd.log) \in Nat
        BY <1>1, LogTypes DEF Sending
      <4>3. j <= Len(c.rd.log)
        BY <4>1, <4>2
      <4> QED BY <2>3, <3>1, <3>2, <4>3 DEF Confirmed
    <3>3. CASE p \notin c.rd.acks
      BY <1>3, <3>1, <3>3 DEF Confirmed
    <3> QED BY <3>2, <3>3
  <2> QED BY <1>1, <2>1, <2>2, <2>3, PeersMove
<1>4. ASSUME NEW d \in Sending', d.node = n, d.rd.term = currentTerm'[n],
             p \in d.rd.acks, j <= Len(d.rd.log)
      PROVE  \/ Confirmed(n, p, j)
             \/ \E c \in Sending : /\ c.node = n /\ c.rd.term = currentTerm[n]
                                   /\ j <= Len(c.rd.log) /\ Takes(c, p)
  <2>1. RoundKept(d)
    BY RoundsMove DEF OrderlyStep
  <2>2. ~Begins(d)
    BY <1>4 DEF Begins
  <2>3. PICK c \in Sending : SameRound(c, d) /\ (p \in c.rd.acks \/ Takes(c, p))
    BY <1>4, <2>1, <2>2 DEF RoundKept
  <2>4. c.node = n /\ c.rd.term = currentTerm[n] /\ j <= Len(c.rd.log)
    BY <1>4, <2>3 DEF SameRound
  <2> QED BY <2>3, <2>4 DEF Confirmed
<1> QED BY <1>2, <1>3, <1>4 DEF Confirmed

\* The anchor is in every round of its leader that is long enough.
LEMMA RoundAnchored ==
  ASSUME LogInv, ProgressBounded, NEW c \in Sending, NEW j,
         currentTerm[c.node] = c.rd.term, Anchored(log[c.node], j, c.rd.term),
         j <= Len(c.rd.log)
  PROVE  Anchored(c.rd.log, j, c.rd.term)
<1>1. TypeOK /\ c \in calls
  BY DEF LogInv, ElectionInv, Sending
<1>2. Len(c.rd.log) \in Nat /\ Len(log[c.node]) \in Nat
  BY <1>1, LogTypes
<1>3. StartsWith(log[c.node], c.rd.log)
  BY DEF ProgressBounded, RoundOK
<1>4. j \in 1..Len(log[c.node]) /\ log[c.node][j].term = c.rd.term
  BY DEF Anchored
<1>5. j \in 1..Len(c.rd.log)
  BY <1>2, <1>4
<1> QED BY <1>3, <1>4, <1>5 DEF StartsWith, Anchored

\* A server the leader counts keeps the anchor while it stays in the term.
LEMMA ConfirmedHolds ==
  ASSUME OrderlyStep, NEW n \in Server, NEW t \in Nat, role[n] = Leader, currentTerm[n] = t,
         NEW p \in Server, NEW j \in Nat, Anchored(log[n], j, t),
         Confirmed(n, p, j), currentTerm'[p] = t, Anchored(log[p], j, t)
  PROVE  Anchored(log'[p], j, t)
<1>1. LogInv /\ ProgressBounded /\ Orderly /\ TypeOK /\ ElectionSafety
  BY StepFacts DEF OrderlyStep
<1>2. log[p] \in Seq(Entry)
  BY <1>1, LogTypes
<1>3. LogMoves(p)
  BY LogsMove DEF OrderlyStep
<1>4. ASSUME NEW c \in Sending, Takes(c, p), log'[p] = c.rd.log PROVE Anchored(log'[p], j, t)
  <2>1. RoundOK(c) /\ c \in calls
    BY <1>1 DEF ProgressBounded, Sending
  <2>2. c.rd.term = t /\ p \in c.rd.todo
    BY <1>4 DEF Takes
  <2>3. <<t, n>> \in leaders /\ <<t, c.node>> \in leaders /\ c.node \notin c.rd.todo
    BY <1>1, <2>1, <2>2 DEF LogInv, SpokenByLeaders, RoundOK
  <2>4. c.node = n
    BY <1>1, <2>3 DEF ElectionSafety
  <2>5. /\ Len(c.rd.log) \in Nat /\ peerLast[n][p] \in Nat
    BY <1>1, <2>1, LogTypes DEF TypeOK, NodeTypeOK
  <2>6. j <= Len(c.rd.log)
    <3>1. CASE p = n
      BY <2>2, <2>3, <2>4, <3>1
    <3>2. CASE peerLast[n][p] >= j
      <4>1. peerLast[n][p] <= Len(c.rd.log)
        BY <2>1, <2>2, <2>4 DEF RoundOK
      <4> QED BY <2>5, <3>2, <4>1
    <3>3. ASSUME NEW d \in Sending, d.node = n, d.rd.term = currentTerm[n], j <= Len(d.rd.log)
          PROVE  j <= Len(c.rd.log)
      BY <1>1, <2>2, <2>4, <3>3 DEF Orderly
    <3> QED BY <3>1, <3>2, <3>3 DEF Confirmed
  <2> QED BY <1>1, <1>4, <2>2, <2>4, <2>6, RoundAnchored
<1>5. CASE Adds(p)
  BY <1>2, <1>5, AppendAnchor DEF Adds
<1> QED BY <1>3, <1>4, <1>5 DEF LogMoves

\* An index the leader had, after a step.
LEMMA ProgressOfOld ==
  ASSUME OrderlyStep, TermStarts, CampaignExact, NEW n \in Server, NEW t \in Nat,
         role[n] = Leader, currentTerm[n] = t, role'[n] = Leader, currentTerm'[n] = t,
         NEW j \in Nat, Anchored(log[n], j, t), LeaderProgress(n, j, t)
  PROVE  LeaderProgress(n, j, t)'
<1>1. LogInv /\ ProgressBounded /\ VotesKept
  BY StepFacts DEF OrderlyStep
<1>2. ASSUME NEW p \in Server, Confirmed(n, p, j)'
      PROVE  \/ Confirmed(n, p, j)
             \/ \E c \in Sending : /\ c.node = n /\ c.rd.term = t
                                   /\ j <= Len(c.rd.log) /\ Takes(c, p)
  BY <1>2, ConfirmedKept
<1>3. \A p \in Server : currentTerm[p] \in Nat /\ currentTerm'[p] \in Nat
                        /\ currentTerm'[p] >= currentTerm[p]
  BY <1>1, LogTypesNext DEF VotesKept
<1>4. ASSUME NEW p \in Server, Confirmed(n, p, j)'
      PROVE  currentTerm'[p] >= t /\ (currentTerm'[p] = t => Anchored(log'[p], j, t))
  <2>1. CASE Confirmed(n, p, j)
    <3>1. currentTerm[p] >= t /\ (currentTerm[p] = t => Anchored(log[p], j, t))
      BY <2>1 DEF LeaderProgress
    <3>2. currentTerm'[p] >= t /\ (currentTerm'[p] = t => currentTerm[p] = t)
      BY <1>3, <3>1
    <3> QED BY <2>1, <3>1, <3>2, ConfirmedHolds
  <2>2. ASSUME NEW c \in Sending, c.node = n, c.rd.term = t, j <= Len(c.rd.log), Takes(c, p)
        PROVE  currentTerm'[p] = t /\ Anchored(log'[p], j, t)
    <3>1. currentTerm'[p] = t /\ StartsWith(log'[p], c.rd.log)
      BY <2>2 DEF Takes
    <3>2. Anchored(c.rd.log, j, t)
      BY <1>1, <2>2, RoundAnchored
    <3>3. c.rd.log \in Seq(Entry) /\ log'[p] \in Seq(Entry)
      BY StepFacts, LogTypes, LogTypesNext DEF Sending
    <3> QED BY <3>1, <3>2, <3>3, StartsWithAnchor
  <2> QED BY <1>2, <1>4, <2>1, <2>2
<1>5. ASSUME NEW Q \in Quorums, \A q \in Q : Confirmed(n, q, j)' \/ currentTerm'[q] <= t
      PROVE  Safe(Q, j, t)'
  <2>1. Q \in SUBSET Server
    BY DEF Quorums
  <2>2. ASSUME NEW q \in Q, Confirmed(n, q, j)' PROVE Confirmed(n, q, j) \/ currentTerm'[q] = t
    BY <1>2, <2>1, <2>2 DEF Takes
  <2>3. \A q \in Q : Confirmed(n, q, j) \/ currentTerm[q] <= t
    BY <1>3, <1>5, <2>1, <2>2
  <2>4. Safe(Q, j, t)
    BY <2>3 DEF LeaderProgress
  <2>5. Leaving(Q, j, t)
    <3> SUFFICES ASSUME NEW q \in Q, currentTerm[q] <= t, currentTerm'[q] > t
                 PROVE  Anchored(log[q], j, t)
      BY DEF Leaving
    <3>1. Confirmed(n, q, j)
      BY <1>3, <1>5, <2>1, <2>2
    <3>2. currentTerm[q] >= t /\ (currentTerm[q] = t => Anchored(log[q], j, t))
      BY <2>1, <3>1 DEF LeaderProgress
    <3> QED BY <1>3, <2>1, <3>2
  <2> QED BY <2>4, <2>5, SafeStep DEF SafeBefore
<1>6. (\A p \in Server : Confirmed(n, p, j) =>
         currentTerm[p] >= t /\ (currentTerm[p] = t => Anchored(log[p], j, t)))'
  BY <1>4 DEF Anchored
<1>7. (\A Q \in Quorums :
         (\A q \in Q : Confirmed(n, q, j) \/ currentTerm[q] <= t) => Safe(Q, j, t))'
  BY <1>5 DEF Quorums, Majority
<1> QED BY <1>6, <1>7 DEF LeaderProgress

\* The index of an entry the leader adds: nobody else has it yet.
LEMMA ProgressOfNew ==
  ASSUME OrderlyStep, TermStarts, CampaignExact, NEW n \in Server, NEW t \in Nat,
         role[n] = Leader, currentTerm[n] = t, role'[n] = Leader, currentTerm'[n] = t,
         NEW j \in Nat, j = Len(log[n]) + 1, Anchored(log'[n], j, t)
  PROVE  LeaderProgress(n, j, t)'
<1>1. LogInv /\ ProgressBounded /\ VotesKept /\ TypeOK
  BY StepFacts DEF OrderlyStep
<1>2. \A p \in Server : currentTerm[p] \in Nat /\ currentTerm'[p] \in Nat
                        /\ currentTerm'[p] >= currentTerm[p]
  BY <1>1, LogTypesNext DEF VotesKept
<1>3. ASSUME NEW c \in Sending, c.node = n, c.rd.term = t PROVE ~(j <= Len(c.rd.log))
  <2>1. Len(c.rd.log) <= Len(log[n])
    BY <1>1, <1>3 DEF ProgressBounded, RoundOK, StartsWith
  <2>2. Len(c.rd.log) \in Nat /\ Len(log[n]) \in Nat
    BY <1>1, LogTypes DEF Sending
  <2> QED BY <2>1, <2>2
<1>4. ASSUME NEW p \in Server PROVE ~(peerLast[n][p] >= j)
  <2>1. peerLast[n][p] <= Len(log[n])
    BY <1>1 DEF ProgressBounded
  <2>2. peerLast[n][p] \in Nat /\ Len(log[n]) \in Nat
    BY <1>1, LogTypes DEF TypeOK, NodeTypeOK
  <2> QED BY <2>1, <2>2
<1>5. ASSUME NEW p \in Server, Confirmed(n, p, j)' PROVE p = n
  <2>1. \/ Confirmed(n, p, j)
        \/ \E c \in Sending : c.node = n /\ c.rd.term = t /\ j <= Len(c.rd.log)
    BY <1>5, ConfirmedKept
  <2>2. Confirmed(n, p, j)
    BY <1>3, <2>1
  <2> QED BY <1>3, <1>4, <2>2 DEF Confirmed
<1>6. (\A p \in Server : Confirmed(n, p, j) =>
         currentTerm[p] >= t /\ (currentTerm[p] = t => Anchored(log[p], j, t)))'
  <2>1. ASSUME NEW p \in Server, Confirmed(n, p, j)'
        PROVE  currentTerm'[p] >= t /\ Anchored(log'[p], j, t)
    BY <1>2, <1>5, <2>1
  <2> QED BY <2>1 DEF Anchored
<1>7. ASSUME NEW Q \in Quorums, \A q \in Q : Confirmed(n, q, j)' \/ currentTerm'[q] <= t
      PROVE  Safe(Q, j, t)'
  <2>1. Q \in SUBSET Server
    BY DEF Quorums
  <2>2. \A q \in Q : currentTerm'[q] <= t
    BY <1>2, <1>5, <1>7, <2>1
  <2>3. \A q \in Q : currentTerm[q] <= t
    BY <1>2, <2>1, <2>2
  <2>4. Safe(Q, j, t)
    BY <1>1, <2>3, FreshSafe
  <2>5. Leaving(Q, j, t)
    BY <1>2, <2>1, <2>2 DEF Leaving
  <2> QED BY <2>4, <2>5, SafeStep DEF SafeBefore
<1>8. (\A Q \in Quorums :
         (\A q \in Q : Confirmed(n, q, j) \/ currentTerm[q] <= t) => Safe(Q, j, t))'
  BY <1>7 DEF Quorums, Majority
<1> QED BY <1>6, <1>8 DEF LeaderProgress

LEMMA ProgressSafeStep ==
  ASSUME OrderlyStep, TermStarts, CampaignExact, ProgressSafe
  PROVE  ProgressSafe'
<1>1. /\ TypeOK /\ TypeOK' /\ ElectionInv /\ ElectionSafety' /\ LogInv /\ Next /\ Orderly
      /\ leaders \subseteq leaders'
  BY StepFacts DEF OrderlyStep
<1>2. ASSUME NEW l \in leaders', role'[l[2]] = Leader, currentTerm'[l[2]] = l[1],
             NEW j \in 1..Len(log'[l[2]]), log'[l[2]][j].term = l[1]
      PROVE  LeaderProgress(l[2], j, l[1])'
  <2>1. PICK n, t : n = l[2] /\ t = l[1]
    OBVIOUS
  <2>2. l = <<t, n>> /\ n \in Server /\ t \in Nat
    <3>1. leaders' \in SUBSET (Nat \X Server)
      BY <1>1 DEF TypeOK, HistoryTypeOK
    <3> QED BY <2>1, <3>1
  <2>3. /\ log[n] \in Seq(Entry) /\ Len(log[n]) \in Nat
        /\ log'[n] \in Seq(Entry) /\ Len(log'[n]) \in Nat
    BY <2>2, LogTypesNext
  <2>4. j \in Nat /\ Anchored(log'[n], j, t)
    BY <1>2, <2>1, <2>3 DEF Anchored
  <2>5. ASSUME ElectionWon(n) PROVE FALSE
    <3>1. log' = log /\ currentTerm' = currentTerm /\ currentTerm[n] = election[n].term
      BY <1>1, <2>2, <2>5, WinnerMoves
    <3>2. \A k \in leaders : k[1] # t
      BY <1>2, <2>1, <2>2, <2>5, <3>1, WinnerOpen DEF Open
    <3>3. Anchored(log[n], j, t) /\ LogLinks(log[n]) \subseteq Links
      BY <2>2, <2>4, <3>1, LinksOfLogs
    <3>4. PICK a \in Links : a.term = t
      BY <2>3, <3>3, AnchorLink
    <3>5. PICK p \in Server : <<a.term, p>> \in leaders
      BY <1>1 DEF LogInv, LinksLed
    <3> QED BY <3>2, <3>4, <3>5
  <2>6. role[n] = Leader /\ currentTerm[n] = t
    BY <1>1, <1>2, <2>1, <2>2, <2>5, RolesMove
  <2>7. <<t, n>> \in leaders
    BY <1>1, <2>2, <2>6 DEF LogInv, SpokenByLeaders
  <2>8. CASE j \in 1..Len(log[n])
    <3>1. StartsWith(log'[n], log[n])
      BY <1>2, <2>1, <2>2, <2>7, LeadTerm
    <3>2. log[n][j].term = t
      BY <2>4, <2>8, <3>1 DEF StartsWith, Anchored
    <3>3. Anchored(log[n], j, t)
      BY <2>8, <3>2 DEF Anchored
    <3>4. LeaderProgress(n, j, t)
      BY <2>1, <2>2, <2>6, <2>7, <2>8, <3>2 DEF ProgressSafe
    <3>5. LeaderProgress(n, j, t)'
      BY <1>2, <2>1, <2>2, <2>4, <2>6, <3>3, <3>4, ProgressOfOld
    <3> QED BY <2>1, <3>5
  <2>9. CASE j \notin 1..Len(log[n])
    <3>1. log'[n] # log[n]
      BY <2>4, <2>9 DEF Anchored
    <3>2. Adds(n)
      BY <1>2, <2>1, <2>2, <2>7, <3>1, LeadTerm
    <3>3. Len(log'[n]) = Len(log[n]) + 1
      BY <2>3, <3>2, AppendKeeps DEF Adds
    <3>4. j = Len(log[n]) + 1
      BY <2>3, <2>4, <2>9, <3>3 DEF Anchored
    <3>5. LeaderProgress(n, j, t)'
      BY <1>2, <2>1, <2>2, <2>4, <2>6, <3>4, ProgressOfNew
    <3> QED BY <2>1, <3>5
  <2> QED BY <2>8, <2>9
<1> QED BY <1>2 DEF ProgressSafe

(***************************************************************************)
(* What is chosen stays chosen, and what is committed is chosen.           *)
(***************************************************************************)
LEMMA ChosenKept ==
  ASSUME OrderlyStep, TermStarts, CampaignExact, LinksHeld,
         NEW e, NEW t \in Nat, NEW j \in Nat, NEW Q \in Quorums, Chosen(e, t, j, Q)
  PROVE  Chosen(e, t, j, Q)'
<1>1. /\ TypeOK /\ LogInv /\ LinksUnique /\ ProgressBounded /\ VotesKept /\ Q \in SUBSET Server
      /\ Next /\ Orderly
  BY StepFacts DEF OrderlyStep, LogInv, Quorums
<1>2. /\ e[1] \in 1..j /\ Safe(Q, j, t)
      /\ \A q \in Q : /\ currentTerm[q] >= t
                      /\ Anchored(log[q], j, t) /\ log[q][e[1]] = e[2]
      /\ \A c \in Sending : c.rd.term = t => Anchored(c.rd.log, j, t)
  BY DEF Chosen
<1>3. SafeBefore(Q, j, t)
  BY <1>2 DEF SafeBefore, Leaving
<1>4. Safe(Q, j, t)'
  BY <1>3, SafeStep
<1>5. ASSUME NEW q \in Q
      PROVE  /\ currentTerm'[q] >= t
             /\ Anchored(log'[q], j, t) /\ log'[q][e[1]] = e[2]
  <2>1. /\ q \in Server /\ log[q] \in Seq(Entry) /\ Len(log[q]) \in Nat
        /\ currentTerm[q] \in Nat /\ currentTerm'[q] \in Nat /\ currentTerm'[q] >= currentTerm[q]
    BY <1>1, LogTypesNext DEF VotesKept
  <2>2. currentTerm'[q] >= t
    BY <1>2, <2>1
  <2>3. LogMoves(q)
    BY <2>1, LogsMove DEF OrderlyStep
  <2>4. CASE log'[q] = log[q]
    BY <1>2, <2>2, <2>4
  <2>5. ASSUME NEW c \in Sending, Takes(c, q), log'[q] = c.rd.log
        PROVE  Anchored(log'[q], j, t) /\ log'[q][e[1]] = e[2]
    <3>1. Anchored(c.rd.log, j, t)
      <4>1. CASE currentTerm'[q] = t
        BY <1>2, <2>5, <4>1 DEF Takes
      <4>2. CASE currentTerm'[q] > t
        BY <1>3, <2>5, <4>2, SafeMembers
      <4> QED BY <2>1, <2>2, <4>1, <4>2
    <3>2. c \in calls
      BY DEF Sending
    <3>3. c.rd.log \in Seq(Entry) /\ LogLinks(c.rd.log) \subseteq Links
      BY <1>1, <3>2, LogTypes, LinksOfCalls
    <3>4. LogLinks(log[q]) \subseteq Links /\ Anchored(log[q], j, t)
      BY <1>2, <2>1, LinksOfLogs
    <3>5. c.rd.log[e[1]] = log[q][e[1]]
      <4>1. PICK k, l : k = c.rd.log /\ l = log[q]
        OBVIOUS
      <4>2. /\ k \in Seq(Entry) /\ LogLinks(k) \subseteq Links /\ Anchored(k, j, t)
            /\ l \in Seq(Entry) /\ LogLinks(l) \subseteq Links /\ Anchored(l, j, t)
        BY <2>1, <3>1, <3>3, <3>4, <4>1
      <4>3. \A i \in 1..j : k[i] = l[i]
        BY <1>1, <4>2, AnchorsMatch
      <4>4. e[1] \in 1..j
        BY <1>2
      <4> QED BY <4>1, <4>3, <4>4
    <3> QED BY <1>2, <2>5, <3>1, <3>5
  <2>6. CASE Adds(q)
    <3>1. PICK x \in Entry : log'[q] = Append(log[q], x)
      BY <2>6 DEF Adds
    <3>2. Anchored(log[q], j, t)
      BY <1>2
    <3>3. e[1] \in 1..Len(log[q])
      BY <1>2, <2>1, <3>2 DEF Anchored
    <3>4. Append(log[q], x)[e[1]] = log[q][e[1]]
      BY <2>1, <3>3, AppendKeeps
    <3> QED BY <1>2, <2>1, <2>2, <3>1, <3>2, <3>4, AppendAnchor
  <2> QED BY <2>2, <2>3, <2>4, <2>5, <2>6 DEF LogMoves
<1>6. ASSUME NEW d \in Sending', d.rd.term = t PROVE Anchored(d.rd.log, j, t)
  <2>1. RoundKept(d)
    BY RoundsMove DEF OrderlyStep
  <2>2. CASE \E c \in Sending : SameRound(c, d)
    BY <1>2, <1>6, <2>2 DEF SameRound
  <2>3. CASE Begins(d)
    <3>1. /\ d.node \in Server /\ role[d.node] = Leader
          /\ t = currentTerm[d.node] /\ d.rd.log = log[d.node]
      BY <1>6, <2>3 DEF Begins
    <3>2. <<t, d.node>> \in leaders
      BY <1>1, <3>1 DEF LogInv, SpokenByLeaders
    <3>3. PICK q \in Q : TRUE
      BY QuorumsMeet
    <3>4. /\ Anchored(log[q], j, t) /\ log[q] \in Seq(Entry)
          /\ LogLinks(log[q]) \subseteq Links
      BY <1>1, <1>2, <3>3, LogTypes, LinksOfLogs
    <3>5. PICK a \in Links : a.index = j /\ a.term = t
      BY <3>4, AnchorLink
    <3> QED BY <3>1, <3>2, <3>5 DEF LinksHeld
  <2> QED BY <2>1, <2>2, <2>3 DEF RoundKept
<1>7. (\A q \in Q : /\ currentTerm[q] >= t
                    /\ Anchored(log[q], j, t) /\ log[q][e[1]] = e[2])'
  BY <1>5 DEF Anchored
<1>8. (\A c \in Sending : c.rd.term = t => Anchored(c.rd.log, j, t))'
  BY <1>6 DEF Anchored
<1> QED BY <1>2, <1>4, <1>7, <1>8 DEF Chosen

LEMMA ChosenByKept ==
  ASSUME OrderlyStep, TermStarts, CampaignExact, LinksHeld,
         NEW e, NEW t \in Nat, NEW u \in Nat, t <= u, ChosenBy(e, t)
  PROVE  ChosenBy(e, u)'
<1>1. PICK l \in leaders, j \in 1..MaxLog, Q \in Quorums : l[1] <= t /\ Chosen(e, l[1], j, Q)
  BY DEF ChosenBy
<1>2. l[1] \in Nat /\ l \in leaders' /\ j \in Nat
  BY StepFacts, LeaderPair
<1>3. Chosen(e, l[1], j, Q)'
  BY <1>1, <1>2, ChosenKept
<1>4. l[1] <= u
  BY <1>1, <1>2
<1> QED BY <1>2, <1>3, <1>4 DEF ChosenBy, Quorums, Majority

\* What the end of a round commits: nothing, or up to an entry of the leader's
\* own term that it counts a majority for.
LEMMA CommitReach ==
  ASSUME OrderlyStep, NEW c \in Sending, ReplicateDone(c), NEW J,
         J = AdvanceCommit(c.node, peerLast'[c.node])
  PROVE  LET n == c.node
         IN /\ J \in Nat /\ commitIndex'[n] = J
            /\ applied' = [applied EXCEPT ![n] = Apply(applied[n], log[n], J)]
            /\ committed' = committed \cup
                 {<<i, log[n][i]>> : i \in (commitIndex[n] + 1)..MinOf(J, Len(log[n]))}
            /\ \/ J = commitIndex[n]
               \/ /\ J > commitIndex[n] /\ Anchored(log[n], J, currentTerm[n])
                  /\ \E Q \in Quorums : \A q \in Q : Confirmed(n, q, J)
<1> DEFINE n == c.node
           match == peerLast'[n]
           R == MajorityReach(n, match)
           reach == [s \in Server |-> IF s = n THEN Len(log[n]) ELSE match[s]]
           Q == {s \in Server : reach[s] >= J}
<1>1. TypeOK /\ TypeOK' /\ LogInv /\ ProgressBounded /\ c \in calls
  BY StepFacts DEF OrderlyStep, Sending
<1>2. /\ n \in Server /\ role[n] = Leader /\ currentTerm[n] = c.rd.term
      /\ \A p \in Server : match[p] =
                 IF p \in c.rd.acks THEN Len(c.rd.log) ELSE peerLast[n][p]
  BY DoneEffect
<1>3. match \in [Server -> Nat] /\ log \in [Server -> Seq(Entry)] /\ commitIndex \in [Server -> Nat]
  BY <1>1, <1>2 DEF TypeOK, NodeTypeOK
<1>4. /\ commitIndex' = [commitIndex EXCEPT ![n] = J]
      /\ committed' = committed \cup
           {<<i, log[n][i]>> : i \in (commitIndex[n] + 1)..MinOf(J, Len(log[n]))}
      /\ applied' = [applied EXCEPT ![n] = Apply(applied[n], log[n], J)]
  <2> DEFINE sent(p) == MinOf(Len(c.rd.log), c.rd.next[p] + MaxBatch - 1)
             m == [p \in Server |-> IF p \in c.rd.acks THEN sent(p) ELSE peerLast[n][p]]
  <2>1. peerLast' = [peerLast EXCEPT ![n] = m]
    BY DEF ReplicateDone
  <2>2. match = m
    BY <1>1, <1>2, <2>1 DEF TypeOK, NodeTypeOK
  <2>3. LeaderCommits(n, AdvanceCommit(n, m))
    BY DEF ReplicateDone
  <2>4. applied' = [applied EXCEPT ![n] = Apply(applied[n], log[n], AdvanceCommit(n, m))]
    BY DEF ReplicateDone
  <2> HIDE DEF m
  <2> QED BY <2>2, <2>3, <2>4 DEF LeaderCommits
<1>5. commitIndex'[n] = J
  BY <1>2, <1>3, <1>4
<1>6. R \in Nat /\ R \in Reached(n, match, Majority)
  BY <1>2, <1>3, MajorityReachType
<1>7. Len(log[n]) \in Nat /\ Len(c.rd.log) \in Nat /\ commitIndex[n] \in Nat
  BY <1>1, <1>2, <1>3, LogTypes
<1>8. \A s \in Server : reach[s] \in Nat /\ reach[s] <= Len(log[n])
  <2>1. Len(c.rd.log) <= Len(log[n])
    BY <1>1, <1>2 DEF ProgressBounded, RoundOK, StartsWith
  <2>2. \A p \in Server : peerLast[n][p] <= Len(log[n])
    BY <1>1, <1>2 DEF ProgressBounded
  <2>3. \A p \in Server : match[p] \in Nat /\ match[p] <= Len(log[n])
    BY <1>2, <1>3, <2>1, <2>2
  <2> QED BY <1>7, <2>3
<1>9. /\ \/ J = commitIndex[n]
         \/ /\ J = R /\ R > commitIndex[n]
            /\ ~(R <= Len(log[n]) /\ TermAt(log[n], R) < currentTerm[n])
  BY DEF AdvanceCommit
<1>10. J \in Nat
  BY <1>6, <1>7, <1>9
<1>11. CASE J # commitIndex[n]
  <2>1. J = R /\ J > commitIndex[n] /\ ~(J <= Len(log[n]) /\ TermAt(log[n], J) < currentTerm[n])
    BY <1>9, <1>11
  <2>2. /\ J = 0 \/ \E s \in Server : J = reach[s]
        /\ Cardinality(Q) >= Majority
    <3>1. Reached(n, match, Majority) =
            {i \in {0} \cup {reach[s] : s \in Server} :
               Cardinality({s \in Server : reach[s] >= i}) >= Majority}
      BY DEF Reached
    <3>2. /\ J \in {0} \cup {reach[s] : s \in Server}
          /\ Cardinality({s \in Server : reach[s] >= J}) >= Majority
      <4> HIDE DEF reach, R
      <4> QED BY <1>6, <2>1, <3>1, Zenon
    <3> HIDE DEF reach
    <3> QED BY <3>2
  <2> HIDE DEF R
  <2>3. J \in 1..Len(log[n])
    BY <1>7, <1>8, <1>10, <2>1, <2>2
  <2>4. log[n][J].term = currentTerm[n]
    <3>1. log[n][J].term \in Nat /\ currentTerm[n] \in Nat
      BY <1>1, <1>2, <2>3, LogTypes, LogTerms
    <3>2. log[n][J].term <= currentTerm[n]
      BY <1>1, <1>2, <2>3 DEF LogInv, TermsBounded, TermsBelow
    <3>3. TermAt(log[n], J) = log[n][J].term
      BY <2>3 DEF TermAt
    <3> QED BY <1>7, <2>1, <2>3, <3>1, <3>2, <3>3
  <2>5. ASSUME NEW q \in Q PROVE Confirmed(n, q, J)
    <3>1. q \in Server /\ reach[q] >= J
      OBVIOUS
    <3>2. CASE q = n
      BY <3>2 DEF Confirmed
    <3>3. CASE q # n /\ q \in c.rd.acks
      <4>1. J <= Len(c.rd.log)
        BY <1>2, <1>7, <1>10, <3>1, <3>3
      <4> QED BY <1>2, <3>3, <4>1 DEF Confirmed
    <3>4. CASE q # n /\ q \notin c.rd.acks
      <4>1. peerLast[n][q] >= J
        BY <1>2, <3>1, <3>4
      <4> QED BY <4>1 DEF Confirmed
    <3> QED BY <3>2, <3>3, <3>4
  <2>6. Q \in Quorums
    <3>1. Q \in SUBSET Server
      OBVIOUS
    <3> HIDE DEF Q
    <3> QED BY <2>2, <3>1 DEF Quorums
  <2>7. Anchored(log[n], J, currentTerm[n])
    BY <2>3, <2>4 DEF Anchored
  <2> HIDE DEF Q
  <2> QED BY <1>4, <1>5, <1>10, <2>1, <2>5, <2>6, <2>7
<1>12. CASE J = commitIndex[n]
  BY <1>4, <1>5, <1>10, <1>12
<1> QED BY <1>11, <1>12

\* All the entries below such an index are chosen, once the round is over.
LEMMA CountedExactly ==
  ASSUME OrderlyStep, TermStarts, CampaignExact, ProgressSafe,
         NEW c \in Sending, ReplicateDone(c), NEW J \in Nat,
         Anchored(log[c.node], J, currentTerm[c.node]),
         NEW Q \in Quorums, \A q \in Q : Confirmed(c.node, q, J), NEW i \in 1..J
  PROVE  \E e, t : /\ e = <<i, log[c.node][i]>> /\ t = currentTerm[c.node] /\ log' = log
                   /\ <<t, c.node>> \in leaders' /\ J \in 1..MaxLog /\ Chosen(e, t, J, Q)'
<1>1. PICK n, t : n = c.node /\ t = currentTerm[n]
  OBVIOUS
<1>2. /\ TypeOK /\ LogInv /\ LinksUnique /\ ProgressBounded /\ Orderly /\ ElectionSafety
      /\ Q \in SUBSET Server
  BY StepFacts DEF OrderlyStep, LogInv, Quorums
<1>3. /\ n \in Server /\ role[n] = Leader /\ t = c.rd.term
      /\ log' = log /\ currentTerm' = currentTerm /\ leaders' = leaders
      /\ Sending' \subseteq Sending \ {c}
  BY <1>1, DoneEffect
<1>4. /\ <<t, n>> \in leaders /\ t \in Nat /\ log[n] \in Seq(Entry) /\ Len(log[n]) \in Nat
  BY <1>1, <1>2, <1>3, LogTypes DEF LogInv, SpokenByLeaders
<1>5. J \in 1..Len(log[n]) /\ log[n][J].term = t /\ Anchored(log[n], J, t)
  BY <1>1 DEF Anchored
<1>6. LeaderProgress(n, J, t)
  <2>1. PICK l \in leaders : l[1] = t /\ l[2] = n
    BY <1>4
  <2> QED BY <1>1, <1>3, <1>5, <2>1 DEF ProgressSafe
<1>7. Safe(Q, J, t)
  BY <1>1, <1>6 DEF LeaderProgress
<1>8. ASSUME NEW q \in Q
      PROVE  currentTerm[q] >= t /\ Anchored(log[q], J, t) /\ log[q][i] = log[n][i]
  <2>1. currentTerm[q] >= t /\ (currentTerm[q] = t => Anchored(log[q], J, t))
    BY <1>1, <1>2, <1>6 DEF LeaderProgress
  <2>2. currentTerm[q] \in Nat /\ log[q] \in Seq(Entry)
    BY <1>2, LogTypes
  <2>3. Anchored(log[q], J, t)
    <3>1. CASE currentTerm[q] > t
      BY <1>7, <3>1 DEF Safe
    <3> QED BY <1>4, <2>1, <2>2, <3>1
  <2>4. LogLinks(log[q]) \subseteq Links /\ LogLinks(log[n]) \subseteq Links
    BY <1>2, <1>3, LinksOfLogs
  <2>5. log[q][i] = log[n][i]
    BY <1>2, <1>4, <1>5, <2>2, <2>3, <2>4, AnchorsMatch
  <2> QED BY <2>1, <2>3, <2>5
<1>9. Safe(Q, J, t)'
  <2>1. Leaving(Q, J, t)
    <3>1. \A q \in Q : currentTerm[q] \in Nat
      BY <1>2, LogTypes
    <3> QED BY <1>3, <1>4, <3>1 DEF Leaving
  <2> QED BY <1>4, <1>7, <2>1, SafeStep DEF SafeBefore
<1>10. ASSUME NEW d \in Sending', d.rd.term = t PROVE FALSE
  <2>1. d \in Sending /\ d # c
    BY <1>3
  <2>2. <<t, d.node>> \in leaders
    BY <1>2, <1>10, <2>1 DEF ProgressBounded, RoundOK
  <2>3. d.node = n
    BY <1>2, <1>4, <2>2 DEF ElectionSafety
  <2> QED BY <1>1, <1>2, <1>3, <1>10, <2>1, <2>3 DEF Orderly
<1>11. PICK e : e = <<i, log[n][i]>>
  OBVIOUS
<1>12. e[1] = i /\ e[2] = log[n][i]
  BY <1>11
<1>13. Chosen(e, t, J, Q)'
  <2>1. (\A q \in Q : /\ currentTerm[q] >= t
                      /\ Anchored(log[q], J, t) /\ log[q][e[1]] = e[2])'
    BY <1>3, <1>8, <1>12 DEF Anchored
  <2>2. (\A d \in Sending : d.rd.term = t => Anchored(d.rd.log, J, t))'
    BY <1>10
  <2> QED BY <1>9, <1>12, <2>1, <2>2 DEF Chosen
<1>14. J \in 1..MaxLog
  <2>1. Len(log[n]) <= MaxLog /\ MaxLog \in Nat
    BY <1>2, <1>3, BoundAssumption DEF ProgressBounded
  <2> QED BY <1>4, <1>5, <2>1
<1> QED BY <1>1, <1>3, <1>4, <1>11, <1>13, <1>14

LEMMA CountedChosen ==
  ASSUME OrderlyStep, TermStarts, CampaignExact, ProgressSafe,
         NEW c \in Sending, ReplicateDone(c), NEW J \in Nat,
         Anchored(log[c.node], J, currentTerm[c.node]),
         NEW Q \in Quorums, \A q \in Q : Confirmed(c.node, q, J), NEW i \in 1..J
  PROVE  ChosenBy(<<i, log[c.node][i]>>, currentTerm[c.node])'
<1>1. PICK e, t : /\ e = <<i, log[c.node][i]>> /\ t = currentTerm[c.node] /\ log' = log
                  /\ <<t, c.node>> \in leaders' /\ J \in 1..MaxLog /\ Chosen(e, t, J, Q)'
  BY CountedExactly
<1>2. TypeOK /\ c.node \in Server /\ currentTerm' = currentTerm
  BY StepFacts, DoneEffect
<1>3. t \in Nat
  BY <1>1, <1>2, LogTypes
<1>4. PICK l \in leaders' : l[1] = t
  BY <1>1
<1>5. l[1] <= t
  BY <1>3, <1>4
<1>6. ChosenBy(e, t)'
  BY <1>1, <1>4, <1>5 DEF ChosenBy, Quorums, Majority
<1>7. t = currentTerm'[c.node] /\ e = <<i, log'[c.node][i]>>
  BY <1>1, <1>2
<1> QED BY <1>6, <1>7 DEF ChosenBy, Chosen

LEMMA CommittedChosenStep ==
  ASSUME OrderlyStep, LinksHeld, TermStarts, CampaignExact, ProgressSafe, CommittedChosen
  PROVE  CommittedChosen'
<1>1. TypeOK /\ Orderly /\ Next /\ VotesKept
  BY StepFacts DEF OrderlyStep
<1>2. ASSUME NEW e \in committed PROVE \E n \in Server : ChosenBy(e, currentTerm[n])'
  <2>1. PICK n \in Server : ChosenBy(e, currentTerm[n])
    BY DEF CommittedChosen
  <2>2. PICK t, u : t = currentTerm[n] /\ u = currentTerm'[n]
    OBVIOUS
  <2>3. t \in Nat /\ u \in Nat /\ t <= u
    BY <1>1, <2>2, LogTypesNext DEF VotesKept
  <2>4. ChosenBy(e, t)
    BY <2>1, <2>2
  <2>5. ChosenBy(e, u)'
    BY <2>3, <2>4, ChosenByKept
  <2> QED BY <2>2, <2>5 DEF ChosenBy
<1>3. ASSUME NEW e \in committed', e \notin committed
      PROVE  \E n \in Server : ChosenBy(e, currentTerm[n])'
  <2>1. PICK c \in Sending : ReplicateDone(c)
    BY <1>1, <1>3, CommitsMove
  <2>2. PICK n, J : n = c.node /\ J = AdvanceCommit(c.node, peerLast'[c.node])
    OBVIOUS
  <2>3. /\ J \in Nat
        /\ committed' = committed \cup
             {<<i, log[n][i]>> : i \in (commitIndex[n] + 1)..MinOf(J, Len(log[n]))}
        /\ \/ J = commitIndex[n]
           \/ /\ J > commitIndex[n] /\ Anchored(log[n], J, currentTerm[n])
              /\ \E Q \in Quorums : \A q \in Q : Confirmed(n, q, J)
    BY <2>1, <2>2, CommitReach
  <2>4. PICK i \in (commitIndex[n] + 1)..MinOf(J, Len(log[n])) : e = <<i, log[n][i]>>
    BY <1>3, <2>3
  <2>5. n \in Server /\ log' = log
    BY <2>1, <2>2, DoneEffect
  <2>6. commitIndex[n] \in Nat /\ Len(log[n]) \in Nat
    BY <1>1, <2>5, LogTypes DEF TypeOK, NodeTypeOK
  <2>7. i \in 1..J /\ J # commitIndex[n]
    BY <2>3, <2>4, <2>6 DEF MinOf
  <2>8. PICK Q \in Quorums : \A q \in Q : Confirmed(n, q, J)
    BY <2>3, <2>7
  <2>9. Anchored(log[n], J, currentTerm[n])
    BY <2>3, <2>7
  <2>10. ChosenBy(<<i, log[c.node][i]>>, currentTerm[c.node])'
    BY <2>1, <2>2, <2>3, <2>7, <2>8, <2>9, CountedChosen
  <2>11. ChosenBy(e, currentTerm[n])'
    BY <2>2, <2>4, <2>5, <2>10 DEF ChosenBy, Chosen
  <2> QED BY <2>5, <2>11
<1>4. \A e \in committed' : \E n \in Server : ChosenBy(e, currentTerm[n])'
  BY <1>2, <1>3
<1> QED BY <1>4 DEF CommittedChosen

(***************************************************************************)
(* The commit invariant.                                                   *)
(***************************************************************************)
LEMMA CommitInvInit == Init => CommitInv
<1> SUFFICES ASSUME Init PROVE CommitInv
  OBVIOUS
<1>1. LogInv
  BY LogInvInit
<1>2. Links = {}
  BY DEF Init, Links, LogLinks
<1>3. LinksHeld /\ TermStarts
  BY <1>2 DEF LinksHeld, TermStarts
<1>4. CampaignExact
  BY DEF Init, CampaignExact, Open, NoElection
<1>5. ProgressSafe /\ CommittedChosen
  BY DEF Init, ProgressSafe, CommittedChosen
<1>6. ProgressBounded
  BY BoundAssumption DEF Init, ProgressBounded, Sending
<1> QED BY <1>1, <1>3, <1>4, <1>5, <1>6 DEF CommitInv

\* Steps that touch nothing the invariants speak of.
SameCore ==
  UNCHANGED <<currentTerm, votedFor, role, log, commitIndex, peerLast, peerNext, election,
              ticks, calls, late, voteLog, leaders, committed>>

LEMMA LogInvFrame ==
  ASSUME LogInv, TypeOK', SameCore PROVE LogInv' /\ Links' = Links
<1> USE DEF SameCore
<1>1. ElectionInv'
  BY DEF LogInv, ElectionInv, VotesRecorded, OneVotePerTerm, CampaignBacked, LeadersBacked,
     BackedBy, Majority
<1>2. SpokenByLeaders' /\ TermsBounded'
  BY DEF LogInv, SpokenByLeaders, TermsBounded, TermsBelow
<1>3. Links' = Links
  BY DEF Links, LogLinks, MsgLinks, TermAt
<1>4. LinksUnique' /\ LinksOrdered' /\ LinksLed'
  BY <1>3 DEF LogInv, LinksUnique, LinksOrdered, LinksLed
<1> QED BY <1>1, <1>2, <1>3, <1>4 DEF LogInv

LEMMA ChosenFrame ==
  ASSUME SameCore
  PROVE  /\ \A Q, j, t : Safe(Q, j, t)' <=> Safe(Q, j, t)
         /\ \A e, t, j, Q : Chosen(e, t, j, Q)' <=> Chosen(e, t, j, Q)
         /\ \A e, t : ChosenBy(e, t)' <=> ChosenBy(e, t)
<1> USE DEF SameCore
<1>1. \A Q, j, t : Safe(Q, j, t)' <=> Safe(Q, j, t)
  BY DEF Safe, Anchored, Later, Open, Sending
<1>2. \A e, t, j, Q : Chosen(e, t, j, Q)' <=> Chosen(e, t, j, Q)
  BY <1>1 DEF Chosen, Anchored, Sending
<1>3. \A e, t : ChosenBy(e, t)' <=> ChosenBy(e, t)
  BY <1>2 DEF ChosenBy, Quorums, Majority
<1> QED BY <1>1, <1>2, <1>3

LEMMA CommitInvFrame ==
  ASSUME CommitInv, TypeOK', SameCore PROVE CommitInv'
<1> USE DEF SameCore
<1>1. LogInv' /\ Links' = Links
  BY LogInvFrame DEF CommitInv
<1>2. ProgressBounded'
  BY DEF CommitInv, ProgressBounded, RoundOK, Sending, StartsWith
<1>3. LinksHeld' /\ TermStarts'
  BY <1>1 DEF CommitInv, LinksHeld, TermStarts, Anchored
<1>4. CampaignExact'
  BY DEF CommitInv, CampaignExact, Open, LastTerm, TermAt
<1>5. ProgressSafe'
  <2>1. \A n, p, j : Confirmed(n, p, j)' <=> Confirmed(n, p, j)
    BY DEF Confirmed, Sending
  <2>2. \A Q, j, t : Safe(Q, j, t)' <=> Safe(Q, j, t)
    BY ChosenFrame
  <2>3. \A n, j, t : LeaderProgress(n, j, t)' <=> LeaderProgress(n, j, t)
    BY <2>1, <2>2 DEF LeaderProgress, Anchored, Quorums, Majority
  <2> QED BY <2>3 DEF CommitInv, ProgressSafe
<1>6. CommittedChosen'
  <2>1. \A e, t : ChosenBy(e, t)' <=> ChosenBy(e, t)
    BY ChosenFrame
  <2> QED BY <2>1 DEF CommitInv, CommittedChosen, ChosenBy
<1> QED BY <1>1, <1>2, <1>3, <1>4, <1>5, <1>6 DEF CommitInv

LEMMA CommitInvStutters ==
  ASSUME CommitInv, UNCHANGED vars PROVE CommitInv'
<1>1. SameCore
  BY DEF SameCore, vars, hardState, logVars, peerVars, callVars, history
<1>2. TypeOK'
  BY TypeStep DEF CommitInv, LogInv, ElectionInv
<1> QED BY <1>1, <1>2, CommitInvFrame

LEMMA CommitInvStep ==
  ASSUME MaxLog <= MaxBatch, CommitInv, Orderly, [Next]_vars PROVE CommitInv'
<1>1. CASE UNCHANGED vars
  BY <1>1, CommitInvStutters
<1>2. CASE Next
  <2>1. LogInv' /\ LogInv
    BY <1>2, LogInvStep DEF CommitInv
  <2>2. TypeOK'
    BY <2>1 DEF LogInv, ElectionInv
  <2>3. OrderlyStep
    BY <1>2, <2>1, <2>2 DEF OrderlyStep, CommitInv
  <2>4. LinksHeld' /\ TermStarts' /\ CampaignExact' /\ ProgressBounded'
    BY <2>3, LinksHeldStep, TermStartsStep, CampaignExactStep, ProgressStep DEF CommitInv
  <2>5. ProgressSafe' /\ CommittedChosen'
    BY <2>3, ProgressSafeStep, CommittedChosenStep DEF CommitInv
  <2> QED BY <2>1, <2>4, <2>5 DEF CommitInv
<1> QED BY <1>1, <1>2

LEMMA CommitInvHolds == MaxLog <= MaxBatch => (Spec /\ []Orderly => []CommitInv)
<1> SUFFICES ASSUME MaxLog <= MaxBatch PROVE Spec /\ []Orderly => []CommitInv
  OBVIOUS
<1>1. CommitInv /\ Orderly /\ [Next]_vars => CommitInv'
  BY CommitInvStep
<1> QED BY <1>1, CommitInvInit, PTL DEF Spec

\* Committed entries stay on a majority: an entry a leader ever counted as
\* committed (AdvanceCommitIndexLocked at the end of a ReplicateLog round) is
\* in the logs of a majority ever after, across elections, lost requests and
\* restarts, for every cluster in every orderly execution in which a request
\* carries the whole rest of the log.
THEOREM CommittedStays ==
  MaxLog <= MaxBatch => (Spec /\ []Orderly => []CommittedOnMajority)
<1>1. ASSUME CommitInv PROVE CommittedOnMajority
  <2> SUFFICES ASSUME NEW e \in committed
               PROVE  Cardinality({n \in Server : e[1] <= Len(log[n]) /\ log[n][e[1]] = e[2]})
                        >= Majority
    BY DEF CommittedOnMajority
  <2> DEFINE H == {n \in Server : e[1] <= Len(log[n]) /\ log[n][e[1]] = e[2]}
  <2>0. PICK p \in Server : ChosenBy(e, currentTerm[p])
    BY <1>1 DEF CommitInv, CommittedChosen
  <2>1. PICK l \in leaders, j \in 1..MaxLog, Q \in Quorums : Chosen(e, l[1], j, Q)
    BY <2>0 DEF ChosenBy
  <2>2. Q \in SUBSET Server /\ Cardinality(Q) >= Majority
    BY DEF Quorums
  <2>3. ASSUME NEW q \in Q PROVE q \in H
    <3>1. e[1] \in 1..j /\ Anchored(log[q], j, l[1]) /\ log[q][e[1]] = e[2]
      BY <2>1 DEF Chosen
    <3>2. Len(log[q]) \in Nat
      BY <1>1, <2>2, LogTypes DEF CommitInv, LogInv, ElectionInv
    <3>3. e[1] <= Len(log[q])
      BY <3>1, <3>2 DEF Anchored
    <3> QED BY <2>2, <3>1, <3>3
  <2>4. H \in SUBSET Server /\ Q \in SUBSET H
    BY <2>3
  <2> HIDE DEF H
  <2>5. IsFiniteSet(H)
    BY <2>4, ServerAssumption, FS_Subset
  <2>6. /\ Cardinality(Q) <= Cardinality(H)
        /\ Cardinality(Q) \in Nat /\ Cardinality(H) \in Nat /\ Majority \in Nat
    <3>1. IsFiniteSet(Q)
      BY <2>4, <2>5, FS_Subset
    <3> QED BY <2>4, <2>5, <3>1, FS_Subset, FS_CardinalityType, MajorityBounds
  <2>7. Cardinality(H) >= Majority
    BY <2>2, <2>6
  <2> QED BY <2>7 DEF H
<1>2. CommitInv => CommittedOnMajority
  BY <1>1
<1> QED BY <1>2, CommitInvHolds, PTL

\* What is chosen is in the log of every leader of the term or a later one.
LEMMA LeaderHoldsChosen ==
  ASSUME CommitInv, NEW n \in Server, role[n] = Leader, NEW e, ChosenBy(e, currentTerm[n])
  PROVE  e[1] <= Len(log[n]) /\ log[n][e[1]] = e[2]
<1>1. PICK l \in leaders, j \in 1..MaxLog, Q \in Quorums :
        l[1] <= currentTerm[n] /\ Chosen(e, l[1], j, Q)
  BY DEF ChosenBy
<1>2. TypeOK /\ LogInv /\ LinksUnique /\ LinksHeld /\ Q \in SUBSET Server
  BY DEF CommitInv, LogInv, ElectionInv, Quorums
<1>3. PICK t : t = l[1]
  OBVIOUS
<1>4. t \in Nat /\ currentTerm[n] \in Nat /\ log[n] \in Seq(Entry) /\ Len(log[n]) \in Nat
  BY <1>2, <1>3, LeaderPair, LogTypes
<1>5. PICK q \in Q : TRUE
  BY QuorumsMeet
<1>6. /\ e[1] \in 1..j /\ Safe(Q, j, t) /\ Anchored(log[q], j, t) /\ log[q][e[1]] = e[2]
  BY <1>1, <1>3, <1>5 DEF Chosen
<1>7. /\ log[q] \in Seq(Entry)
      /\ LogLinks(log[q]) \subseteq Links /\ LogLinks(log[n]) \subseteq Links
  BY <1>2, <1>5, LogTypes, LinksOfLogs
<1>8. <<currentTerm[n], n>> \in leaders
  BY <1>2 DEF LogInv, SpokenByLeaders
<1>9. Anchored(log[n], j, t)
  <2>1. CASE t = currentTerm[n]
    <3>1. PICK a \in Links : a.index = j /\ a.term = t
      BY <1>6, <1>7, AnchorLink
    <3> QED BY <1>2, <1>8, <2>1, <3>1 DEF LinksHeld
  <2>2. CASE t < currentTerm[n]
    <3>1. PICK k \in leaders : k[1] = currentTerm[n] /\ k[2] = n
      BY <1>8
    <3>2. k[1] > t /\ currentTerm[k[2]] = k[1]
      BY <1>4, <2>2, <3>1
    <3> QED BY <1>6, <3>1, <3>2 DEF Safe
  <2> QED BY <1>1, <1>3, <1>4, <2>1, <2>2
<1>10. log[n][e[1]] = log[q][e[1]]
  BY <1>2, <1>4, <1>6, <1>7, <1>9, AnchorsMatch
<1>11. e[1] <= Len(log[n])
  BY <1>4, <1>6, <1>9 DEF Anchored
<1> QED BY <1>6, <1>10, <1>11

\* Leader completeness: the leader of the newest term any node is in holds
\* every entry ever committed (the up-to-date check of OnRequestVote and the
\* current-term rule of AdvanceCommitIndexLocked), under the same conditions.
THEOREM LeadersComplete ==
  MaxLog <= MaxBatch => (Spec /\ []Orderly => []LeaderCompleteness)
<1>1. ASSUME CommitInv PROVE LeaderCompleteness
  <2> SUFFICES ASSUME NEW n \in Server, role[n] = Leader,
                      \A p \in Server : currentTerm[p] <= currentTerm[n], NEW e \in committed
               PROVE  e[1] <= Len(log[n]) /\ log[n][e[1]] = e[2]
    BY DEF LeaderCompleteness
  <2>1. PICK p \in Server : ChosenBy(e, currentTerm[p])
    BY <1>1 DEF CommitInv, CommittedChosen
  <2>2. TypeOK
    BY <1>1 DEF CommitInv, LogInv, ElectionInv
  <2>3. ChosenBy(e, currentTerm[n])
    <3>1. PICK l \in leaders, j \in 1..MaxLog, Q \in Quorums :
            l[1] <= currentTerm[p] /\ Chosen(e, l[1], j, Q)
      BY <2>1 DEF ChosenBy
    <3>2. l[1] \in Nat /\ currentTerm[p] \in Nat /\ currentTerm[n] \in Nat
      BY <2>2, LeaderPair, LogTypes
    <3>3. l[1] <= currentTerm[n]
      BY <3>1, <3>2
    <3> QED BY <3>1, <3>3 DEF ChosenBy
  <2> QED BY <1>1, <2>3, LeaderHoldsChosen
<1>2. CommitInv => LeaderCompleteness
  BY <1>1
<1> QED BY <1>2, CommitInvHolds, PTL

(***************************************************************************)
(* What is applied is committed: one round at a time, and no restart.      *)
(***************************************************************************)

\* How a node's commit index and state machine move: by a leader's request,
\* by the end of a round of its own, or by a coordinator's check.
CommitMoves(p) ==
  \/ commitIndex'[p] = commitIndex[p]
  \/ \E c \in Sending : /\ Takes(c, p) /\ commitIndex[c.node] > commitIndex[p]
                        /\ commitIndex'[p] = MinOf(commitIndex[c.node], Len(log'[p]))
  \/ \E c \in Sending : ReplicateDone(c) /\ c.node = p

LEMMA RequestApplied ==
  ASSUME OrderlyStep, NEW c \in Sending, NEW x \in c.rd.todo,
         OnAppendEntries(x, AppendEntries(c, x)), NEW p \in Server
  PROVE  CommitMoves(p) /\ ApplyMoves(p)
<1> DEFINE m == AppendEntries(c, x)
           taken == AcceptsEntries(x, m)
           merged == IF taken THEN MergedLog(log[x], m) ELSE log[x]
           advance == taken /\ m.commit > commitIndex[x]
           commit == MinOf(m.commit, Len(merged))
<1>1. TypeOK /\ LogInv /\ ProgressBounded /\ MaxLog <= MaxBatch
  BY StepFacts DEF OrderlyStep
<1>2. x \in Server /\ (taken => Takes(c, x))
  BY <1>1, RequestTaken
<1>3. /\ log' = [log EXCEPT ![x] = merged]
      /\ commitIndex' = [commitIndex EXCEPT ![x] = IF advance THEN commit ELSE commitIndex[x]]
      /\ applied' = [applied EXCEPT ![x] = IF advance THEN Apply(applied[x], merged, commit)
                                           ELSE applied[x]]
  BY DEF OnAppendEntries
<1>4. m.commit = commitIndex[c.node]
  BY DEF AppendEntries
<1>5. advance => taken
  OBVIOUS
<1> HIDE DEF m, taken, merged, advance
<1>6. /\ log \in [Server -> Seq(Entry)] /\ commitIndex \in [Server -> Nat]
      /\ applied \in [Server -> Seq(Entry)]
  BY <1>1 DEF TypeOK, NodeTypeOK
<1>7. CASE p # x
  <2>1. commitIndex'[p] = commitIndex[p] /\ applied'[p] = applied[p]
    BY <1>3, <1>6, <1>7
  <2> QED BY <2>1 DEF CommitMoves, ApplyMoves
<1>8. CASE p = x /\ ~advance
  <2>1. commitIndex'[p] = commitIndex[p] /\ applied'[p] = applied[p]
    BY <1>2, <1>3, <1>6, <1>8
  <2> QED BY <2>1 DEF CommitMoves, ApplyMoves
<1>9. CASE p = x /\ advance
  <2>1. /\ log'[p] = merged /\ commitIndex'[p] = MinOf(m.commit, Len(merged))
        /\ applied'[p] = Apply(applied[p], merged, MinOf(m.commit, Len(merged)))
    BY <1>2, <1>3, <1>6, <1>9
  <2>2. commitIndex[c.node] > commitIndex[p]
    BY <1>4, <1>9 DEF advance
  <2>3. CommitMoves(p)
    BY <1>2, <1>4, <1>5, <1>9, <2>1, <2>2 DEF CommitMoves
  <2> QED BY <2>1, <2>3 DEF ApplyMoves
<1> QED BY <1>7, <1>8, <1>9

LEMMA AppliesMove ==
  ASSUME OrderlyStep, Mortal = {}, NEW p \in Server
  PROVE  CommitMoves(p) /\ ApplyMoves(p)
<1>1. TypeOK /\ Orderly /\ Next
  BY StepFacts DEF OrderlyStep
<1>2. CASE commitIndex' = commitIndex /\ applied' = applied
  BY <1>2 DEF CommitMoves, ApplyMoves
<1>3. ASSUME NEW x \in Server, StartElection(x) \/ ElectionStep(x) \/ HeartbeatTick(x)
      PROVE  commitIndex' = commitIndex /\ applied' = applied
  BY <1>3 DEF StartElection, ElectionStep, SendVoteRequest, VoteRequestFails,
     OnRequestVote, ElectionDeposed, ElectionOvertaken, ElectionLost, ElectionWon, EndElection,
     HeartbeatTick, logVars
<1>4. ASSUME NEW c \in calls,
             \/ NotLeaderReturn(c) \/ ReplicateRound(c)
             \/ \E x \in c.rd.todo : AppendEntriesFails(c, x) \/ SkipPeer(c, x)
             \/ ReplicateDeposed(c) \/ ReplicateOvertaken(c)
      PROVE  commitIndex' = commitIndex /\ applied' = applied
  BY <1>4 DEF NotLeaderReturn, ReplicateRound, AppendEntriesFails, SkipPeer,
     ReplicateDeposed, ReplicateOvertaken, logVars
<1>5. ASSUME NEW c \in calls, NEW x \in c.rd.todo, SendAppendEntries(c, x)
      PROVE  CommitMoves(p) /\ ApplyMoves(p)
  <2>1. c \in Sending /\ OnAppendEntries(x, AppendEntries(c, x))
    BY <1>5 DEF SendAppendEntries, MaySend, Sending
  <2> QED BY <2>1, RequestApplied
<1>6. ASSUME NEW c \in calls, ReplicateDone(c) PROVE CommitMoves(p) /\ ApplyMoves(p)
  <2>1. c \in Sending
    BY <1>6 DEF ReplicateDone, RoundSent, Sending
  <2>2. PICK n, J : n = c.node /\ J = AdvanceCommit(c.node, peerLast'[c.node])
    OBVIOUS
  <2>3. /\ commitIndex'[n] = J
        /\ applied' = [applied EXCEPT ![n] = Apply(applied[n], log[n], J)]
    BY <1>6, <2>1, <2>2, CommitReach
  <2>4. n \in Server /\ log' = log
    BY <1>6, <2>1, <2>2, DoneEffect
  <2>5. applied \in [Server -> Seq(Entry)] /\ commitIndex \in [Server -> Nat]
    BY <1>1 DEF TypeOK, NodeTypeOK
  <2>6. CASE p = n
    BY <1>6, <2>1, <2>2, <2>3, <2>4, <2>5, <2>6 DEF CommitMoves, ApplyMoves
  <2>7. CASE p # n
    <3>1. \E k : commitIndex' = [commitIndex EXCEPT ![n] = k]
      BY <1>6, <2>2 DEF ReplicateDone, LeaderCommits
    <3> QED BY <2>3, <2>5, <2>7, <3>1 DEF CommitMoves, ApplyMoves
  <2> QED BY <2>6, <2>7
<1>7. ASSUME NEW c \in calls, CoordinatorCheck(c) PROVE CommitMoves(p) /\ ApplyMoves(p)
  <2>1. /\ log' = log /\ commitIndex' = commitIndex
        /\ applied' = [applied EXCEPT ![c.node] =
             Apply(applied[c.node], log[c.node], commitIndex[c.node])]
    BY <1>7 DEF CoordinatorCheck
  <2>2. applied \in [Server -> Seq(Entry)]
    BY <1>1 DEF TypeOK, NodeTypeOK
  <2> QED BY <2>1, <2>2 DEF CommitMoves, ApplyMoves
<1>8. ASSUME NEW x \in Server,
             \/ \E v \in Value : SubmitEntry(x, v)
             \/ \E batch \in SUBSET waiting : CoordinatorCommit(x, batch)
      PROVE  commitIndex' = commitIndex /\ applied' = applied
  BY <1>8 DEF SubmitEntry, CoordinatorCommit, logVars
<1>9. ASSUME NEW m \in late, HandleLate(m) PROVE commitIndex' = commitIndex /\ applied' = applied
  <2>1. m.type = "vote"
    BY <1>1 DEF Orderly
  <2> QED BY <1>9, <2>1 DEF HandleLate, OnRequestVote, logVars
<1>10. ASSUME NEW x \in Server, Restart(x) PROVE FALSE
  BY <1>10 DEF Restart
<1>11. ASSUME NEW c \in calls, ReplicateStep(c) PROVE CommitMoves(p) /\ ApplyMoves(p)
  BY <1>2, <1>4, <1>5, <1>6, <1>7, <1>11 DEF ReplicateStep
<1> QED BY <1>1, <1>2, <1>3, <1>8, <1>9, <1>10, <1>11 DEF Next, Orderly

LEMMA CommitsGrow ==
  ASSUME OrderlyStep PROVE committed \subseteq committed'
<1>1. TypeOK /\ Orderly /\ Next
  BY StepFacts DEF OrderlyStep
<1>2. ASSUME NEW c \in Sending, ReplicateDone(c) PROVE committed \subseteq committed'
  BY <1>2 DEF ReplicateDone, LeaderCommits
<1> QED BY <1>1, <1>2, CommitsMove

\* What is known of an entry lasts.
LEMMA KnownKept ==
  ASSUME OrderlyStep, TermStarts, CampaignExact, LinksHeld, NEW i, NEW e,
         NEW t \in Nat, NEW u \in Nat, t <= u, KnownEntry(i, e, t)
  PROVE  KnownEntry(i, e, u)'
<1>1. PICK f : f = <<i, e>>
  OBVIOUS
<1>2. f \in committed /\ ChosenBy(f, t)
  BY <1>1 DEF KnownEntry
<1>3. f \in committed' /\ ChosenBy(f, u)'
  BY <1>2, ChosenByKept, CommitsGrow
<1> QED BY <1>1, <1>3 DEF KnownEntry

\* A round of the term an entry was chosen by, or of a later one, holds it.
LEMMA RoundHoldsChosen ==
  ASSUME LogInv, NEW e, NEW t \in Nat, ChosenBy(e, t), NEW c \in Sending, t <= c.rd.term
  PROVE  e[1] \in 1..Len(c.rd.log) /\ c.rd.log[e[1]] = e[2]
<1>1. PICK l \in leaders, j \in 1..MaxLog, Q \in Quorums : l[1] <= t /\ Chosen(e, l[1], j, Q)
  BY DEF ChosenBy
<1>2. TypeOK /\ LinksUnique /\ c \in calls /\ Q \in SUBSET Server
  BY DEF LogInv, ElectionInv, Sending, Quorums
<1>3. PICK s : s = l[1]
  OBVIOUS
<1>4. s \in Nat /\ c.rd.term \in Nat /\ c.rd.log \in Seq(Entry) /\ Len(c.rd.log) \in Nat
  BY <1>2, <1>3, LeaderPair, LogTypes
<1>5. PICK q \in Q : TRUE
  BY QuorumsMeet
<1>6. /\ e[1] \in 1..j /\ Safe(Q, j, s) /\ Anchored(log[q], j, s) /\ log[q][e[1]] = e[2]
      /\ c.rd.term = s => Anchored(c.rd.log, j, s)
  BY <1>1, <1>3, <1>5 DEF Chosen
<1>7. Anchored(c.rd.log, j, s)
  <2>1. CASE c.rd.term > s
    BY <1>6, <2>1 DEF Safe
  <2> QED BY <1>1, <1>3, <1>4, <1>6, <2>1
<1>8. /\ log[q] \in Seq(Entry)
      /\ LogLinks(log[q]) \subseteq Links /\ LogLinks(c.rd.log) \subseteq Links
  BY <1>2, <1>5, LogTypes, LinksOfLogs, LinksOfCalls
<1>9. c.rd.log[e[1]] = log[q][e[1]]
  BY <1>2, <1>4, <1>6, <1>7, <1>8, AnchorsMatch
<1>10. e[1] \in 1..Len(c.rd.log)
  BY <1>4, <1>6, <1>7 DEF Anchored
<1> QED BY <1>6, <1>9, <1>10

LEMMA KnownLogs ==
  ASSUME OrderlyStep, Mortal = {}, TermStarts, CampaignExact, LinksHeld, ProgressSafe,
         AppliedInv, NEW n \in Server, NEW i \in 1..commitIndex'[n],
         NEW e, e = log'[n][i], NEW u, u = currentTerm'[n]
  PROVE  i <= Len(log'[n]) /\ KnownEntry(i, e, u)'
<1>1. TypeOK /\ TypeOK' /\ LogInv /\ VotesKept
  BY StepFacts DEF OrderlyStep
<1>2. /\ log[n] \in Seq(Entry) /\ Len(log[n]) \in Nat /\ currentTerm[n] \in Nat
      /\ log'[n] \in Seq(Entry) /\ Len(log'[n]) \in Nat /\ u \in Nat /\ currentTerm[n] <= u
  BY <1>1, LogTypesNext DEF VotesKept
<1>3. commitIndex[n] \in Nat /\ commitIndex'[n] \in Nat
  BY <1>1 DEF TypeOK, NodeTypeOK
<1>4. CASE i <= commitIndex[n]
  <2>1. i \in 1..commitIndex[n]
    BY <1>3, <1>4
  <2>2. i <= Len(log[n]) /\ KnownEntry(i, log[n][i], currentTerm[n])
    BY <2>1 DEF AppliedInv, Known
  <2>3. PICK t, f : t = currentTerm[n] /\ f = log[n][i]
    OBVIOUS
  <2>4. KnownEntry(i, f, u)'
    BY <1>2, <2>2, <2>3, KnownKept
  <2>5. i <= Len(log'[n]) /\ log'[n][i] = log[n][i]
    <3>1. CASE log'[n] = log[n]
      BY <2>2, <3>1
    <3>2. ASSUME NEW c \in Sending, Takes(c, n), log'[n] = c.rd.log
          PROVE  i <= Len(log'[n]) /\ log'[n][i] = log[n][i]
      <4>1. currentTerm[n] <= c.rd.term /\ ChosenBy(<<i, f>>, t)
        BY <2>2, <2>3, <3>2 DEF Takes, KnownEntry
      <4>2. PICK x : x = <<i, f>>
        OBVIOUS
      <4>3. x[1] \in 1..Len(c.rd.log) /\ c.rd.log[x[1]] = x[2]
        BY <1>1, <1>2, <2>3, <4>1, <4>2, RoundHoldsChosen
      <4>4. x[1] = i /\ x[2] = f
        BY <4>2
      <4> QED BY <1>2, <2>3, <3>2, <4>3, <4>4
    <3>3. CASE Adds(n)
      <4>1. PICK x \in Entry : log'[n] = Append(log[n], x)
        BY <3>3 DEF Adds
      <4>2. i \in 1..Len(log[n])
        BY <1>2, <1>3, <2>1, <2>2
      <4> QED BY <1>2, <4>1, <4>2, AppendKeeps
    <3> QED BY <3>1, <3>2, <3>3, LogsMove DEF LogMoves, OrderlyStep
  <2> QED BY <2>3, <2>4, <2>5
<1>5. CASE i > commitIndex[n]
  <2>1. CommitMoves(n) /\ commitIndex'[n] # commitIndex[n]
    BY <1>3, <1>5, AppliesMove
  <2>2. ASSUME NEW c \in Sending, Takes(c, n),
               commitIndex'[n] = MinOf(commitIndex[c.node], Len(log'[n]))
        PROVE  i <= Len(log'[n]) /\ KnownEntry(i, e, u)'
    <3>1. c.node \in Server /\ Len(c.rd.log) \in Nat
      BY <1>1, LogTypes DEF Sending
    <3>2. commitIndex[c.node] \in Nat
      BY <1>1, <3>1 DEF TypeOK, NodeTypeOK
    <3>3. i \in 1..commitIndex[c.node] /\ i <= Len(log'[n])
      BY <1>2, <1>3, <2>2, <3>2 DEF MinOf
    <3>4. i <= Len(c.rd.log) /\ KnownEntry(i, c.rd.log[i], c.rd.term)
      BY <3>3 DEF AppliedInv, Known
    <3>5. u = c.rd.term /\ StartsWith(log'[n], c.rd.log)
      BY <2>2 DEF Takes
    <3>6. i \in 1..Len(c.rd.log)
      BY <3>1, <3>2, <3>3, <3>4
    <3>7. e = c.rd.log[i]
      BY <3>5, <3>6 DEF StartsWith
    <3>8. KnownEntry(i, e, u)
      BY <3>4, <3>5, <3>7
    <3> QED BY <1>2, <3>3, <3>8, KnownKept
  <2>3. ASSUME NEW c \in Sending, ReplicateDone(c), c.node = n
        PROVE  i <= Len(log'[n]) /\ KnownEntry(i, e, u)'
    <3>1. PICK J : J = AdvanceCommit(c.node, peerLast'[c.node])
      OBVIOUS
    <3>2. /\ J \in Nat /\ commitIndex'[n] = J
          /\ \A x \in (commitIndex[n] + 1)..MinOf(J, Len(log[n])) : <<x, log[n][x]>> \in committed'
          /\ \/ J = commitIndex[n]
             \/ /\ J > commitIndex[n] /\ Anchored(log[n], J, currentTerm[n])
                /\ \E Q \in Quorums : \A q \in Q : Confirmed(n, q, J)
      <4>1. /\ J \in Nat /\ commitIndex'[n] = J
            /\ committed' = committed \cup
                 {<<x, log[n][x]>> : x \in (commitIndex[n] + 1)..MinOf(J, Len(log[n]))}
        BY <2>3, <3>1, CommitReach
      <4>2. \/ J = commitIndex[n]
            \/ /\ J > commitIndex[n] /\ Anchored(log[n], J, currentTerm[n])
               /\ \E Q \in Quorums : \A q \in Q : Confirmed(n, q, J)
        BY <2>3, <3>1, CommitReach
      <4>3. \A x \in (commitIndex[n] + 1)..MinOf(J, Len(log[n])) : <<x, log[n][x]>> \in committed'
        BY <4>1
      <4> QED BY <4>1, <4>2, <4>3
    <3>3. log' = log /\ currentTerm' = currentTerm
      BY <2>3, DoneEffect
    <3>4. J \in 1..Len(log[n]) /\ Anchored(log[n], J, currentTerm[n])
      BY <2>1, <3>2 DEF Anchored
    <3>5. PICK Q \in Quorums : \A q \in Q : Confirmed(n, q, J)
      BY <2>1, <3>2
    <3>6. i \in 1..J
      BY <3>2
    <3>7. ChosenBy(<<i, log[c.node][i]>>, currentTerm[c.node])'
      BY <2>3, <3>2, <3>4, <3>5, <3>6, CountedChosen
    <3>8. ChosenBy(<<i, e>>, u)'
      BY <2>3, <3>7 DEF ChosenBy, Chosen
    <3>9. <<i, e>> \in committed'
      <4>1. i \in (commitIndex[n] + 1)..MinOf(J, Len(log[n]))
        BY <1>2, <1>3, <1>5, <3>2, <3>4, <3>6 DEF MinOf
      <4> QED BY <3>2, <3>3, <4>1
    <3>10. i <= Len(log'[n])
      BY <1>2, <3>3, <3>4, <3>6
    <3> QED BY <3>8, <3>9, <3>10 DEF KnownEntry
  <2> QED BY <2>1, <2>2, <2>3 DEF CommitMoves
<1> QED BY <1>3, <1>4, <1>5

LEMMA KnownRounds ==
  ASSUME OrderlyStep, Mortal = {}, OneRound, TermStarts, CampaignExact, LinksHeld,
         AppliedInv, NEW d \in Sending', NEW i \in 1..commitIndex'[d.node],
         NEW e, e = d.rd.log[i], NEW u, u = d.rd.term
  PROVE  i <= Len(d.rd.log) /\ KnownEntry(i, e, u)'
<1>1. TypeOK /\ ProgressBounded /\ LogInv
  BY StepFacts DEF OrderlyStep
<1>2. RoundKept(d)
  BY RoundsMove DEF OrderlyStep
<1>3. CASE Begins(d)
  <2>1. /\ d.node \in Server /\ d.rd.log = log[d.node] /\ u = currentTerm[d.node]
        /\ commitIndex' = commitIndex
    BY <1>3 DEF Begins
  <2>2. i <= Len(d.rd.log) /\ KnownEntry(i, e, u)
    BY <2>1 DEF AppliedInv, Known
  <2>3. u \in Nat
    BY <1>1, <2>1, LogTypes
  <2>4. KnownEntry(i, e, u)'
    BY <2>2, <2>3, KnownKept
  <2> QED BY <2>2, <2>4
<1>4. ASSUME NEW c \in Sending, SameRound(c, d) PROVE i <= Len(d.rd.log) /\ KnownEntry(i, e, u)'
  <2>1. d.node = c.node /\ d.rd.log = c.rd.log /\ u = c.rd.term
    BY <1>4 DEF SameRound
  <2>2. c \in calls /\ c.node \notin c.rd.todo
    BY <1>1 DEF Sending, ProgressBounded, RoundOK
  <2>3. c.node \in Server /\ u \in Nat
    BY <1>1, <2>1, <2>2, LogTypes
  <2>4. ASSUME NEW b \in Sending PROVE ~Takes(b, c.node)
    BY <2>2 DEF OneRound, Takes
  <2>5. ASSUME NEW b \in Sending PROVE ~ReplicateDone(b)
    <3>1. ASSUME ReplicateDone(b) PROVE d \in Sending \ {b}
      BY <3>1, DoneEffect
    <3> QED BY <3>1 DEF OneRound
  <2>6. commitIndex'[c.node] = commitIndex[c.node]
    BY <2>3, <2>4, <2>5, AppliesMove DEF CommitMoves
  <2>7. i <= Len(d.rd.log) /\ KnownEntry(i, e, u)
    BY <2>1, <2>6 DEF AppliedInv, Known
  <2>8. KnownEntry(i, e, u)'
    BY <2>3, <2>7, KnownKept
  <2> QED BY <2>7, <2>8
<1> QED BY <1>2, <1>3, <1>4 DEF RoundKept

LEMMA AppliedInvInit == Init => AppliedInv
<1> SUFFICES ASSUME Init PROVE AppliedInv
  OBVIOUS
<1>1. AppliedIsCommitted
  BY DEF Init, AppliedIsCommitted
<1>2. \A n \in Server : Known(log[n], commitIndex[n], currentTerm[n])
  BY DEF Init, Known
<1>3. Sending = {}
  BY DEF Init, Sending
<1> QED BY <1>1, <1>2, <1>3 DEF AppliedInv

LEMMA KnownFrame ==
  ASSUME AppliedInv, SameCore, AppliedIsCommitted' PROVE AppliedInv'
<1> USE DEF SameCore
<1>1. \A e, t : ChosenBy(e, t)' <=> ChosenBy(e, t)
  BY ChosenFrame
<1>2. \A i, e, t : KnownEntry(i, e, t)' <=> KnownEntry(i, e, t)
  BY <1>1 DEF KnownEntry, ChosenBy
<1>3. \A l, k, t : Known(l, k, t)' <=> Known(l, k, t)
  BY <1>2 DEF Known, KnownEntry
<1>4. (\A n \in Server : Known(log[n], commitIndex[n], currentTerm[n]))'
  BY <1>3 DEF AppliedInv, Known, KnownEntry
<1>5. (\A c \in Sending : Known(c.rd.log, commitIndex[c.node], c.rd.term))'
  BY <1>3 DEF AppliedInv, Known, KnownEntry, Sending
<1> QED BY <1>4, <1>5 DEF AppliedInv

LEMMA AppliedInvStutters ==
  ASSUME AppliedInv, UNCHANGED vars PROVE AppliedInv'
<1>1. SameCore /\ applied' = applied
  BY DEF SameCore, vars, hardState, logVars, peerVars, callVars, history
<1>2. AppliedIsCommitted'
  BY <1>1 DEF AppliedInv, AppliedIsCommitted, SameCore
<1> QED BY <1>1, <1>2, KnownFrame

LEMMA AppliedInvStep ==
  ASSUME MaxLog <= MaxBatch, Mortal = {}, CommitInv, AppliedInv, Orderly, OneRound, [Next]_vars
  PROVE  AppliedInv'
<1>1. CASE UNCHANGED vars
  BY <1>1, AppliedInvStutters
<1>2. CASE Next
  <2>1. LogInv' /\ LogInv
    BY <1>2, LogInvStep DEF CommitInv
  <2>2. TypeOK' /\ TypeOK
    BY <2>1 DEF LogInv, ElectionInv
  <2>3. /\ OrderlyStep /\ TermStarts /\ CampaignExact /\ LinksHeld /\ ProgressSafe
    BY <1>2, <2>1, <2>2 DEF OrderlyStep, CommitInv
  <2>4. ASSUME NEW n \in Server, NEW i \in 1..commitIndex'[n]
        PROVE  i <= Len(log'[n]) /\ KnownEntry(i, log[n][i], currentTerm[n])'
    <3>1. PICK e, u : e = log'[n][i] /\ u = currentTerm'[n]
      OBVIOUS
    <3>2. i <= Len(log'[n]) /\ KnownEntry(i, e, u)'
      BY <2>3, <3>1, KnownLogs
    <3> QED BY <3>1, <3>2 DEF KnownEntry, ChosenBy
  <2>5. ASSUME NEW d \in Sending', NEW i \in 1..commitIndex'[d.node]
        PROVE  i <= Len(d.rd.log) /\ KnownEntry(i, d.rd.log[i], d.rd.term)'
    <3>1. PICK e, u : e = d.rd.log[i] /\ u = d.rd.term
      OBVIOUS
    <3>2. i <= Len(d.rd.log) /\ KnownEntry(i, e, u)'
      BY <2>3, <3>1, KnownRounds
    <3> QED BY <3>1, <3>2
  <2>6. ASSUME NEW p \in Server, NEW i \in 1..Len(applied'[p])
        PROVE  <<i, applied'[p][i]>> \in committed'
    <3>1. /\ applied[p] \in Seq(Entry) /\ log'[p] \in Seq(Entry)
          /\ commitIndex'[p] \in Nat
      BY <2>2 DEF TypeOK, NodeTypeOK
    <3>2. ASSUME i \in 1..Len(applied[p]) PROVE <<i, applied[p][i]>> \in committed'
      BY <2>3, <3>2, CommitsGrow DEF AppliedInv, AppliedIsCommitted
    <3>3. ASSUME i \in 1..commitIndex'[p] PROVE <<i, log'[p][i]>> \in committed'
      BY <2>4, <3>3 DEF KnownEntry
    <3>4. CASE applied'[p] = applied[p]
      BY <3>2, <3>4
    <3>5. CASE applied'[p] = Apply(applied[p], log'[p], commitIndex'[p])
      <4>1. \/ i \in 1..Len(applied[p]) /\ applied'[p][i] = applied[p][i]
            \/ i \in 1..commitIndex'[p] /\ applied'[p][i] = log'[p][i]
        BY <3>1, <3>5, ApplyEntries
      <4> QED BY <3>2, <3>3, <4>1
    <3> QED BY <2>3, <3>4, <3>5, AppliesMove DEF ApplyMoves
  <2>7. (\A n \in Server : Known(log[n], commitIndex[n], currentTerm[n]))'
    BY <2>4 DEF Known
  <2>8. (\A c \in Sending : Known(c.rd.log, commitIndex[c.node], c.rd.term))'
    BY <2>5 DEF Known
  <2>9. AppliedIsCommitted'
    BY <2>6 DEF AppliedIsCommitted
  <2> QED BY <2>7, <2>8, <2>9 DEF AppliedInv
<1> QED BY <1>1, <1>2

LEMMA AppliedInvHolds ==
  MaxLog <= MaxBatch /\ Mortal = {}
    => (Spec /\ [](Orderly /\ OneRound) => [](CommitInv /\ AppliedInv))
<1> SUFFICES ASSUME MaxLog <= MaxBatch, Mortal = {}
             PROVE  Spec /\ [](Orderly /\ OneRound) => [](CommitInv /\ AppliedInv)
  OBVIOUS
<1>1. CommitInv /\ AppliedInv /\ Orderly /\ OneRound /\ [Next]_vars => CommitInv' /\ AppliedInv'
  BY CommitInvStep, AppliedInvStep
<1> QED BY <1>1, CommitInvInit, AppliedInvInit, PTL DEF Spec

\* What is applied is committed: a node's state machine is only ever given
\* entries that a leader committed (OnAppendEntries and its leader_commit,
\* AdvanceCommitIndexLocked, ApplyCommittedLogsLocked), for every cluster, in
\* the orderly executions with one round at a time and no restart.
THEOREM AppliedOnlyCommitted ==
  MaxLog <= MaxBatch /\ Mortal = {}
    => (Spec /\ [](Orderly /\ OneRound) => []AppliedIsCommitted)
<1>1. AppliedInv => AppliedIsCommitted
  BY DEF AppliedInv
<1> QED BY <1>1, AppliedInvHolds, PTL

\* Two majorities that hold an entry of one index hold the same one.
LEMMA ChosenUnique ==
  ASSUME NEW e, NEW f, e[1] = f[1], NEW s, NEW t, ChosenBy(e, s), ChosenBy(f, t)
  PROVE  e[2] = f[2]
<1>1. PICK l \in leaders, j \in 1..MaxLog, Q \in Quorums : Chosen(e, l[1], j, Q)
  BY DEF ChosenBy
<1>2. PICK m \in leaders, k \in 1..MaxLog, P \in Quorums : Chosen(f, m[1], k, P)
  BY DEF ChosenBy
<1>3. PICK q \in Q : q \in P
  BY QuorumsMeet
<1>4. log[q][e[1]] = e[2] /\ log[q][f[1]] = f[2]
  BY <1>1, <1>2, <1>3 DEF Chosen
<1> QED BY <1>4

\* State machine safety: no two nodes apply different entries at one index,
\* under the same conditions.
THEOREM StateMachinesAgree ==
  MaxLog <= MaxBatch /\ Mortal = {}
    => (Spec /\ [](Orderly /\ OneRound) => []StateMachineSafety)
<1>1. ASSUME CommitInv, AppliedInv PROVE StateMachineSafety
  <2> SUFFICES ASSUME NEW n \in Server, NEW p \in Server,
                      NEW i \in 1..MinOf(Len(applied[n]), Len(applied[p]))
               PROVE  applied[n][i] = applied[p][i]
    BY DEF StateMachineSafety
  <2>1. Len(applied[n]) \in Nat /\ Len(applied[p]) \in Nat
    <3>1. NodeTypeOK
      BY <1>1 DEF CommitInv, LogInv, ElectionInv, TypeOK
    <3>2. applied[n] \in Seq(Entry) /\ applied[p] \in Seq(Entry)
      BY <3>1 DEF NodeTypeOK
    <3> QED BY <3>2
  <2>2. i \in 1..Len(applied[n]) /\ i \in 1..Len(applied[p])
    BY <2>1 DEF MinOf
  <2>3. PICK e, f : e = <<i, applied[n][i]>> /\ f = <<i, applied[p][i]>>
    OBVIOUS
  <2>4. e \in committed /\ f \in committed
    BY <1>1, <2>2, <2>3 DEF AppliedInv, AppliedIsCommitted
  <2>5. PICK x \in Server : ChosenBy(e, currentTerm[x])
    BY <1>1, <2>4 DEF CommitInv, CommittedChosen
  <2>6. PICK y \in Server : ChosenBy(f, currentTerm[y])
    BY <1>1, <2>4 DEF CommitInv, CommittedChosen
  <2>7. e[1] = i /\ f[1] = i /\ e[2] = applied[n][i] /\ f[2] = applied[p][i]
    BY <2>3
  <2>8. e[2] = f[2]
    BY <2>5, <2>6, <2>7, ChosenUnique
  <2> QED BY <2>7, <2>8
<1>2. CommitInv /\ AppliedInv => StateMachineSafety
  BY <1>1
<1> QED BY <1>2, AppliedInvHolds, PTL

(***************************************************************************)
(* The conditions from the constants.  Without heartbeat rounds and late   *)
(* requests, one coordinator at a time keeps every execution orderly.      *)
(***************************************************************************)

\* A call goes on as one call of its kind, or ends.
LEMMA CallContinues ==
  ASSUME TypeOK, NEW c \in calls, ReplicateStep(c)
  PROVE  \E next : Continue(c, next) /\ \A d, e \in next : d.kind = c.kind /\ d = e
<1> DEFINE One(next) == \A d, e \in next : d.kind = c.kind /\ d = e
           Goal == \E next : Continue(c, next) /\ One(next)
<1>0. c \in Call /\ c.rd \in Round
  BY CallFields
<1>1. ASSUME NEW d, d.kind = c.kind, Continue(c, {d}) PROVE Goal
  BY <1>1
<1>2. ASSUME Continue(c, {}) PROVE Goal
  BY <1>2
<1>3. ASSUME Continue(c, Returned(c)) PROVE Goal
  <2>1. CASE c.kind = "write"
    <3> DEFINE d == [c EXCEPT !.phase = "check", !.tries = 0, !.rd = NoRound]
    <3>1. d.kind = c.kind
      BY <1>0 DEF Call
    <3>2. Continue(c, {d})
      BY <1>3, <2>1 DEF Returned
    <3> QED BY <3>1, <3>2, <1>1
  <2>2. CASE c.kind # "write"
    <3>1. Continue(c, {})
      BY <1>3, <2>2 DEF Returned
    <3> QED BY <3>1, <1>2
  <2> QED BY <2>1, <2>2
<1>4. ASSUME NEW p, NEW r, TallyAppend(c, p, r) PROVE Goal
  <2> DEFINE d == [c EXCEPT !.rd = WithAnswer(c.rd, p, r)]
  <2>1. d.kind = c.kind
    BY <1>0 DEF Call
  <2>2. Continue(c, {d})
    BY <1>4 DEF TallyAppend
  <2> QED BY <2>1, <2>2, <1>1
<1>5. ASSUME ReplicateRound(c) PROVE Goal
  <2> DEFINE d == [c EXCEPT !.phase = "send", !.rd =
                     [NoRound EXCEPT !.term = currentTerm[c.node], !.log = log[c.node],
                        !.next = peerNext[c.node], !.todo = Peers(c.node),
                        !.maxTerm = currentTerm[c.node]]]
  <2>1. d.kind = c.kind
    BY <1>0 DEF Call
  <2>2. Continue(c, {d})
    BY <1>5 DEF ReplicateRound
  <2> QED BY <2>1, <2>2, <1>1
<1>6. ASSUME NEW p \in c.rd.todo, SkipPeer(c, p) PROVE Goal
  <2> DEFINE d == [c EXCEPT !.rd.todo = @ \ {p}]
  <2>1. d.kind = c.kind
    BY <1>0 DEF Call
  <2>2. Continue(c, {d})
    BY <1>6 DEF SkipPeer
  <2> QED BY <2>1, <2>2, <1>1
<1>7. ASSUME ReplicateDone(c) PROVE Goal
  <2> DEFINE d == [c EXCEPT !.phase = "start", !.tries = @ + 1, !.rd = NoRound]
  <2>1. d.kind = c.kind
    BY <1>0 DEF Call
  <2>2. Continue(c, {d}) \/ Continue(c, Returned(c))
    BY <1>7 DEF ReplicateDone
  <2> HIDE DEF d
  <2> QED BY <2>1, <2>2, <1>1, <1>3
<1>8. ASSUME CoordinatorCheck(c) PROVE Goal
  <2> DEFINE d == [c EXCEPT !.phase = "start", !.iter = @ + 1]
  <2>1. d.kind = c.kind
    BY <1>0 DEF Call
  <2>2. Continue(c, {d}) \/ Continue(c, {})
    BY <1>8 DEF CoordinatorCheck
  <2> HIDE DEF d
  <2> QED BY <2>1, <2>2, <1>1, <1>2
<1> HIDE DEF Goal
<1>9. Goal
  <2>1. CASE \E p \in c.rd.todo : SendAppendEntries(c, p) \/ AppendEntriesFails(c, p)
    BY <1>4, <2>1 DEF SendAppendEntries, AppendEntriesFails
  <2>2. CASE NotLeaderReturn(c) \/ ReplicateDeposed(c) \/ ReplicateOvertaken(c)
    BY <1>3, <2>2 DEF NotLeaderReturn, ReplicateDeposed, ReplicateOvertaken
  <2>3. CASE \E p \in c.rd.todo : SkipPeer(c, p)
    BY <1>6, <2>3
  <2>4. \/ \E p \in c.rd.todo : SendAppendEntries(c, p) \/ AppendEntriesFails(c, p)
        \/ \E p \in c.rd.todo : SkipPeer(c, p)
        \/ NotLeaderReturn(c) \/ ReplicateDeposed(c) \/ ReplicateOvertaken(c)
        \/ ReplicateRound(c) \/ ReplicateDone(c) \/ CoordinatorCheck(c)
    BY DEF ReplicateStep
  <2> QED BY <1>5, <1>7, <1>8, <2>1, <2>2, <2>3, <2>4
<1> QED BY <1>9 DEF Goal

LEMMA OneWriterStep ==
  ASSUME MaxTicks = 0, MaxLate = 0, MaxWriters <= 1, TypeOK, OneWriter, [Next]_vars
  PROVE  OneWriter'
<1>1. Cardinality(ticks) = 0 /\ Cardinality(late) = 0
  BY FS_EmptySet DEF OneWriter
<1>2. ASSUME UNCHANGED <<ticks, calls, late>> PROVE OneWriter'
  BY <1>2 DEF OneWriter
<1>3. ASSUME NEW m PROVE TimesOut(m) => UNCHANGED late
  BY <1>1 DEF TimesOut
<1>4. CASE \E n \in Server : StartElection(n) \/ ElectionStep(n) \/ HeartbeatTick(n)
  <2>1. ASSUME NEW n \in Server, StartElection(n) \/ ElectionStep(n)
        PROVE  UNCHANGED <<ticks, calls, late>>
    <3>1. CASE StartElection(n)
      BY <3>1 DEF StartElection, callVars
    <3>2. ASSUME NEW p \in Peers(n), SendVoteRequest(n, p)
          PROVE  UNCHANGED <<ticks, calls, late>>
      BY <3>2 DEF SendVoteRequest, callVars
    <3>3. ASSUME NEW p \in Peers(n), VoteRequestFails(n, p)
          PROVE  UNCHANGED <<ticks, calls, late>>
      <4>1. UNCHANGED late
        BY <1>3, <3>3 DEF VoteRequestFails
      <4> QED BY <3>3, <4>1 DEF VoteRequestFails, callVars
    <3>4. CASE ElectionDeposed(n) \/ ElectionOvertaken(n) \/ ElectionWon(n) \/ ElectionLost(n)
      BY <3>4 DEF ElectionDeposed, ElectionOvertaken, ElectionWon, ElectionLost, EndElection,
                  callVars
    <3> QED BY <2>1, <3>1, <3>2, <3>3, <3>4 DEF ElectionStep
  <2>2. ASSUME NEW n \in Server PROVE ~HeartbeatTick(n)
    BY <1>1 DEF HeartbeatTick
  <2> QED BY <1>2, <1>4, <2>1, <2>2
<1>5. CASE \E c \in calls : ReplicateStep(c)
  <2> PICK c \in calls : ReplicateStep(c)
    BY <1>5
  <2>1. PICK next : Continue(c, next) /\ \A d, e \in next : d.kind = c.kind /\ d = e
    BY CallContinues
  <2>2. calls = {c} /\ c.kind = "write"
    BY DEF OneWriter
  <2>3. calls' = next
    BY <2>1, <2>2 DEF Continue
  <2>4. UNCHANGED <<ticks, late>>
    BY <1>3 DEF ReplicateStep, NotLeaderReturn, ReplicateRound, SendAppendEntries,
                AppendEntriesFails, SkipPeer, ReplicateDeposed, ReplicateOvertaken,
                ReplicateDone, CoordinatorCheck
  <2> QED BY <2>1, <2>2, <2>3, <2>4 DEF OneWriter
<1>6. CASE \E n \in Server, v \in Value : SubmitEntry(n, v)
  BY <1>2, <1>6 DEF SubmitEntry
<1>7. CASE \E n \in Server : \E batch \in SUBSET waiting : CoordinatorCommit(n, batch)
  <2> PICK n \in Server, batch \in SUBSET waiting : CoordinatorCommit(n, batch)
    BY <1>7
  <2>1. {c \in calls : c.kind = "write"} = calls
    BY DEF OneWriter
  <2>2. Cardinality(calls) < MaxWriters
    BY <2>1 DEF CoordinatorCommit
  <2>3. calls = {}
    <3>1. SUFFICES ASSUME NEW c \in calls PROVE FALSE
      OBVIOUS
    <3>2. calls = {c}
      BY DEF OneWriter
    <3>3. Cardinality(calls) = 1
      BY <3>2, FS_Singleton
    <3> QED BY <3>3, <2>2, BoundAssumption
  <2>4. calls' = {NewCall(n, "write", 0, batch)} /\ UNCHANGED <<ticks, late>>
    BY <2>3 DEF CoordinatorCommit
  <2>5. NewCall(n, "write", 0, batch).kind = "write"
    BY DEF NewCall
  <2> QED BY <2>4, <2>5 DEF OneWriter
<1>8. CASE \E n \in Server : Restart(n)
  <2>1. calls' \subseteq calls /\ ticks' = {} /\ late' = {}
    BY <1>8 DEF Restart, OneWriter
  <2> QED BY <2>1 DEF OneWriter
<1>9. CASE UNCHANGED vars
  BY <1>2, <1>9 DEF vars, callVars
<1> QED BY <1>4, <1>5, <1>6, <1>7, <1>8, <1>9 DEF Next, OneWriter

LEMMA OneWriterOrderly ==
  MaxTicks = 0 /\ MaxLate = 0 /\ MaxWriters <= 1 => (Spec => [](Orderly /\ OneRound))
<1> SUFFICES ASSUME MaxTicks = 0, MaxLate = 0, MaxWriters <= 1
             PROVE  Spec => [](Orderly /\ OneRound)
  OBVIOUS
<1>1. Init => OneWriter
  BY DEF Init, OneWriter
<1>2. TypeOK /\ OneWriter /\ [Next]_vars => OneWriter'
  BY OneWriterStep
<1>3. OneWriter => Orderly /\ OneRound
  BY DEF OneWriter, Orderly, OneRound, Sending
<1> QED BY <1>1, <1>2, <1>3, TypeCorrect, PTL DEF Spec

\* The same results from the bounds alone (raft_terms is one such instance):
\* where heartbeats and late requests play no part and one coordinator runs
\* at a time, on any number of servers, terms, entries, rounds and iterations,
\* a committed entry stays on a majority and with every later leader.
THEOREM OneWriterCommits ==
  MaxLog <= MaxBatch /\ MaxTicks = 0 /\ MaxLate = 0 /\ MaxWriters <= 1
    => (Spec => [](CommittedOnMajority /\ LeaderCompleteness))
BY OneWriterOrderly, CommittedStays, LeadersComplete, PTL

\* And, as no node restarts, no two state machines are given different entries
\* at one index, and none is given an entry that was not committed.
THEOREM OneWriterAgrees ==
  MaxLog <= MaxBatch /\ MaxTicks = 0 /\ MaxLate = 0 /\ MaxWriters <= 1 /\ Mortal = {}
    => (Spec => [](StateMachineSafety /\ AppliedIsCommitted))
BY OneWriterOrderly, StateMachinesAgree, AppliedOnlyCommitted, PTL

(***************************************************************************)
(* Reads: the invariant.  A committed entry was chosen in a term whose     *)
(* leader has taken it into its commit index;                              *)
(***************************************************************************)
Led(e, l, j, Q) == Chosen(e, l[1], j, Q) /\ e[1] <= commitIndex[l[2]]

CommitsLed ==
  \A e \in committed : \E l \in leaders, j \in 1..MaxLog, Q \in Quorums : Led(e, l, j, Q)

\* no member of the majority that chose it has confirmed an older leadership
\* to a GET that came in later;
NotBehind(r, e) ==
  \E l \in leaders, j \in 1..MaxLog, Q \in Quorums :
    Led(e, l, j, Q) /\ \A q \in Q \cap r.oks : l[1] <= r.term

\* so that the index a confirmed GET waits for covers what it is due.
ReadOK(r) ==
  /\ r.node \notin r.todo \cup r.oks
  /\ r.due \subseteq committed
  /\ r.phase = "ask" => \A e \in r.due : NotBehind(r, e)
  /\ r.phase = "wait" /\ r.path = "slow" /\ r.own => \A e \in r.due : e[1] <= r.index

Read == [node : Server, term : Nat, due : SUBSET (Nat \X Entry),
         phase : {"ask", "wait"}, todo : SUBSET Server, oks : SUBSET Server,
         maxTerm : Nat, index : Nat, path : {"slow", "fast"}, own : BOOLEAN]

ReadsInv == reads \subseteq Read /\ CommitsLed /\ \A r \in reads : ReadOK(r)

(***************************************************************************)
(* A leader that learns of a newer term while it asks its peers.           *)
(***************************************************************************)
Overtaken(n, t) ==
  /\ n \in Server /\ t \in Nat /\ t > currentTerm[n] /\ BecomeFollower(n, t)
  /\ UNCHANGED <<logVars, peerVars, election, callVars, late, history>>

LEMMA OvertakenFacts ==
  ASSUME LogInv, NEW n, NEW t, Overtaken(n, t)
  PROVE  /\ TypeOK /\ TypeOK' /\ ElectionInv /\ ElectionInv'
         /\ n \in Server /\ t \in Nat /\ currentTerm'[n] = t /\ currentTerm[n] < t
         /\ role'[n] = Follower
         /\ \A p \in Server : /\ currentTerm[p] \in Nat /\ currentTerm'[p] \in Nat
                              /\ p # n => currentTerm'[p] = currentTerm[p] /\ role'[p] = role[p]
         /\ UNCHANGED <<log, commitIndex, applied, peerLast, peerNext, election, ticks,
                        calls, waiting, late, voteLog, leaders, committed, acked>>
<1>1. /\ n \in Server /\ t \in Nat /\ t > currentTerm[n] /\ BecomeFollower(n, t)
      /\ UNCHANGED <<log, commitIndex, applied, peerLast, peerNext, peerHbOk, election,
                     ticks, calls, waiting, late, voteLog, leaders, committed, acked>>
  BY DEF Overtaken, logVars, peerVars, callVars, history
<1>2. TypeOK /\ ElectionInv
  BY DEF LogInv, ElectionInv
<1>3. /\ currentTerm \in [Server -> Nat] /\ role \in [Server -> {Follower, Candidate, Leader}]
      /\ votedFor \in [Server -> Server \cup {Nil}] /\ timer \in [Server -> BOOLEAN]
  BY <1>2 DEF TypeOK, NodeTypeOK
<1>4. /\ currentTerm' = [currentTerm EXCEPT ![n] = t]
      /\ role' = [role EXCEPT ![n] = Follower]
      /\ timer' = [timer EXCEPT ![n] = TRUE]
      /\ votedFor' = [votedFor EXCEPT ![n] = Nil]
  BY <1>1, <1>3 DEF BecomeFollower
<1>5. /\ currentTerm' \in [Server -> Nat] /\ role' \in [Server -> {Follower, Candidate, Leader}]
      /\ votedFor' \in [Server -> Server \cup {Nil}]
  BY <1>1, <1>3, <1>4
<1>6. timer' \in [Server -> BOOLEAN]
  BY <1>3, <1>4, Zenon
<1>7. TypeOK'
  BY <1>1, <1>2, <1>5, <1>6 DEF TypeOK, NodeTypeOK, CallTypeOK, HistoryTypeOK
<1>8. ElectionInv'
  <2>1. currentTerm[n] \in Nat /\ t >= currentTerm[n]
    BY <1>1, <1>3
  <2>2. Quiet
    BY <1>1, <1>2, <2>1, QuietFollower
  <2> QED BY <1>2, <1>7, <2>2, QuietElectionInv
<1>9. \A p \in Server : /\ currentTerm[p] \in Nat /\ currentTerm'[p] \in Nat
                        /\ p # n => currentTerm'[p] = currentTerm[p] /\ role'[p] = role[p]
  BY <1>3, <1>4, <1>5
<1>10. currentTerm'[n] = t /\ role'[n] = Follower /\ currentTerm[n] < t
  BY <1>1, <1>3, <1>4
<1> QED BY <1>1, <1>2, <1>7, <1>8, <1>9, <1>10

\* Nobody is back in a term it led, or campaigned in.
LEMMA OvertakenTerms ==
  ASSUME LogInv, NEW n, NEW t, Overtaken(n, t)
  PROVE  /\ \A l \in leaders : currentTerm'[l[2]] = l[1] =>
              l[2] # n /\ currentTerm[l[2]] = l[1]
         /\ \A p \in Server : role'[p] = Leader =>
              p # n /\ role[p] = Leader /\ currentTerm'[p] = currentTerm[p]
         /\ \A p \in Server : Open(p)' => p # n /\ Open(p)
<1>1. /\ TypeOK /\ ElectionInv /\ n \in Server /\ t \in Nat /\ currentTerm'[n] = t
      /\ currentTerm[n] < t /\ currentTerm[n] \in Nat /\ role'[n] = Follower
      /\ \A p \in Server : p # n => currentTerm'[p] = currentTerm[p] /\ role'[p] = role[p]
      /\ leaders' = leaders /\ election' = election
  BY OvertakenFacts
<1>2. ASSUME NEW l \in leaders, currentTerm'[l[2]] = l[1]
      PROVE  l[2] # n /\ currentTerm[l[2]] = l[1]
  <2>1. l[1] \in Nat /\ l[2] \in Server /\ l[1] <= currentTerm[l[2]]
    BY <1>1, LeaderPair DEF ElectionInv, LeadersBacked
  <2>2. l[2] # n
    BY <1>1, <1>2, <2>1
  <2> QED BY <1>1, <1>2, <2>1, <2>2
<1>3. ASSUME NEW p \in Server, Open(p)' PROVE p # n /\ Open(p)
  <2>1. /\ election[p].on /\ currentTerm'[p] = election[p].term
        /\ \A l \in leaders : l[1] # election[p].term
    BY <1>1, <1>3 DEF Open
  <2>2. <<p, election[p].term, p>> \in voteLog
    BY <1>1, <2>1 DEF ElectionInv, CampaignBacked
  <2>3. election[p].term \in Nat /\ election[p].term <= currentTerm[p]
    <3>1. PICK v : v = <<p, election[p].term, p>>
      OBVIOUS
    <3>2. v \in voteLog /\ v[1] = p /\ v[2] = election[p].term
      BY <2>2, <3>1
    <3>3. v[2] \in Nat /\ v[2] <= currentTerm[v[1]]
      BY <1>1, <3>2, VoteTriple DEF ElectionInv, VotesRecorded
    <3> QED BY <3>2, <3>3
  <2>4. p # n
    BY <1>1, <2>1, <2>3
  <2> QED BY <1>1, <2>1, <2>4 DEF Open
<1>4. ASSUME NEW p \in Server, role'[p] = Leader
      PROVE  p # n /\ role[p] = Leader /\ currentTerm'[p] = currentTerm[p]
  BY <1>1, <1>4
<1> QED BY <1>2, <1>3, <1>4

LEMMA OvertakenLogs ==
  ASSUME LogInv, NEW n, NEW t, Overtaken(n, t)
  PROVE  LogInv' /\ Links' = Links
<1>1. /\ TypeOK /\ ElectionInv' /\ n \in Server /\ t \in Nat /\ currentTerm'[n] = t
      /\ currentTerm[n] < t
      /\ \A p \in Server : /\ currentTerm[p] \in Nat
                           /\ p # n => currentTerm'[p] = currentTerm[p]
      /\ UNCHANGED <<log, ticks, calls, late, leaders>>
  BY OvertakenFacts
<1>2. /\ \A l \in leaders : currentTerm'[l[2]] = l[1] => currentTerm[l[2]] = l[1]
      /\ \A p \in Server : role'[p] = Leader =>
           role[p] = Leader /\ currentTerm'[p] = currentTerm[p]
  BY OvertakenTerms
<1>3. SpokenByLeaders'
  BY <1>1, <1>2 DEF LogInv, SpokenByLeaders
<1>4. TermsBounded'
  <2>1. ASSUME NEW p \in Server PROVE TermsBelow(log[p], currentTerm'[p])
    <3>1. TermsBelow(log[p], currentTerm[p]) /\ log[p] \in Seq(Entry)
      BY <1>1, LogTypes DEF LogInv, TermsBounded
    <3>2. currentTerm[p] \in Nat /\ currentTerm'[p] \in Nat /\ currentTerm[p] <= currentTerm'[p]
      BY <1>1
    <3>3. ASSUME NEW i \in 1..Len(log[p]) PROVE log[p][i].term <= currentTerm'[p]
      <4>1. log[p][i].term \in Nat
        BY <3>1, LogTerms
      <4>2. log[p][i].term <= currentTerm[p]
        BY <3>1 DEF TermsBelow
      <4> QED BY <3>2, <4>1, <4>2
    <3> QED BY <3>3 DEF TermsBelow
  <2> QED BY <1>1, <2>1 DEF LogInv, TermsBounded, TermsBelow
<1>5. Links' = Links
  BY <1>1 DEF Links, LogLinks, MsgLinks, TermAt
<1>6. LinksUnique' /\ LinksOrdered'
  BY <1>5 DEF LogInv, LinksUnique, LinksOrdered
<1>7. LinksLed'
  <2> SUFFICES ASSUME NEW a \in Links
               PROVE  \E p \in Server : /\ <<a.term, p>> \in leaders
                                        /\ currentTerm'[p] = a.term => a.index <= Len(log[p])
    BY <1>1, <1>5 DEF LinksLed
  <2>1. PICK p \in Server : /\ <<a.term, p>> \in leaders
                            /\ currentTerm[p] = a.term => a.index <= Len(log[p])
    BY DEF LogInv, LinksLed
  <2>2. PICK l \in leaders : l[1] = a.term /\ l[2] = p
    BY <2>1
  <2>3. currentTerm'[p] = a.term => currentTerm[p] = a.term
    BY <1>2, <2>2
  <2> QED BY <2>1, <2>3
<1> QED BY <1>1, <1>3, <1>4, <1>5, <1>6, <1>7 DEF LogInv

LEMMA OvertakenSafe ==
  ASSUME LogInv, NEW n, NEW t, Overtaken(n, t),
         NEW Q \in SUBSET Server, NEW j, NEW u \in Nat, Safe(Q, j, u),
         n \in Q /\ currentTerm[n] <= u /\ u < t => Anchored(log[n], j, u)
  PROVE  Safe(Q, j, u)'
<1>1. /\ n \in Server /\ t \in Nat /\ currentTerm'[n] = t
      /\ \A p \in Server : /\ currentTerm[p] \in Nat
                           /\ p # n => currentTerm'[p] = currentTerm[p]
      /\ UNCHANGED <<log, election, calls, leaders>>
  BY OvertakenFacts
<1>2. /\ \A l \in leaders : currentTerm'[l[2]] = l[1] => currentTerm[l[2]] = l[1]
      /\ \A p \in Server : Open(p)' => Open(p)
  BY OvertakenTerms
<1>3. ASSUME NEW q \in Q, currentTerm'[q] > u PROVE Anchored(log[q], j, u)
  <2>1. CASE currentTerm[q] > u
    BY <2>1 DEF Safe
  <2>2. CASE ~(currentTerm[q] > u)
    <3>1. q = n
      BY <1>1, <1>3, <2>2
    <3>2. currentTerm[n] <= u /\ u < t
      BY <1>1, <1>3, <2>2, <3>1
    <3> QED BY <3>1, <3>2
  <2> QED BY <2>1, <2>2
<1>4. /\ \A l \in leaders : l[1] > u /\ currentTerm'[l[2]] = l[1] => Anchored(log[l[2]], j, u)
      /\ \A p \in Server : Later(log[p], u) => Anchored(log[p], j, u)
      /\ \A c \in calls : Later(c.rd.log, u) => Anchored(c.rd.log, j, u)
      /\ \A c \in Sending : c.rd.term > u => Anchored(c.rd.log, j, u)
  BY <1>2 DEF Safe
<1>5. ASSUME NEW p \in Server, Open(p)', election[p].term > u,
             (election[p].granted \cup {p}) \cap Q # {}
      PROVE  Anchored(log[p], j, u)
  BY <1>2, <1>5 DEF Safe
<1> QED BY <1>1, <1>3, <1>4, <1>5 DEF Safe, Anchored, Later, Sending

\* What is chosen stays chosen.
LEMMA OvertakenChosen ==
  ASSUME LogInv, NEW n, NEW t, Overtaken(n, t),
         NEW e, NEW u \in Nat, NEW j, NEW Q \in Quorums, Chosen(e, u, j, Q)
  PROVE  Chosen(e, u, j, Q)'
<1>1. /\ n \in Server /\ t \in Nat /\ currentTerm'[n] = t /\ currentTerm[n] < t
      /\ \A p \in Server : /\ currentTerm[p] \in Nat
                           /\ p # n => currentTerm'[p] = currentTerm[p]
      /\ UNCHANGED <<log, calls>>
  BY OvertakenFacts
<1>2. /\ e[1] \in 1..j /\ Safe(Q, j, u) /\ Q \in SUBSET Server
      /\ \A q \in Q : /\ currentTerm[q] >= u
                      /\ Anchored(log[q], j, u) /\ log[q][e[1]] = e[2]
      /\ \A c \in Sending : c.rd.term = u => Anchored(c.rd.log, j, u)
  BY DEF Chosen, Quorums
<1>3. Safe(Q, j, u)'
  BY <1>2, OvertakenSafe
<1>4. \A q \in Q : currentTerm'[q] >= u
  BY <1>1, <1>2
<1> QED BY <1>1, <1>2, <1>3, <1>4 DEF Chosen, Anchored, Sending

LEMMA OvertakenChosenBy ==
  ASSUME LogInv, NEW n, NEW t, Overtaken(n, t),
         NEW e, NEW u \in Nat, NEW v \in Nat, u <= v, ChosenBy(e, u)
  PROVE  ChosenBy(e, v)'
<1>1. PICK l \in leaders, j \in 1..MaxLog, Q \in Quorums : l[1] <= u /\ Chosen(e, l[1], j, Q)
  BY DEF ChosenBy
<1>2. TypeOK /\ leaders' = leaders
  BY OvertakenFacts
<1>3. l[1] \in Nat
  BY <1>2, LeaderPair
<1>4. Chosen(e, l[1], j, Q)' /\ l[1] <= v
  BY <1>1, <1>3, OvertakenChosen
<1> QED BY <1>2, <1>4 DEF ChosenBy, Quorums, Majority

LEMMA OvertakenProgress ==
  ASSUME CommitInv, NEW n, NEW t, Overtaken(n, t)
  PROVE  ProgressSafe'
<1>1. LogInv /\ ProgressSafe
  BY DEF CommitInv
<1>2. /\ TypeOK /\ n \in Server /\ t \in Nat /\ currentTerm'[n] = t /\ currentTerm[n] < t
      /\ \A p \in Server : /\ currentTerm[p] \in Nat
                           /\ p # n => currentTerm'[p] = currentTerm[p]
      /\ UNCHANGED <<log, calls, leaders, peerLast>>
  BY <1>1, OvertakenFacts
<1>3. ASSUME NEW l \in leaders, role'[l[2]] = Leader, currentTerm'[l[2]] = l[1],
             NEW j \in 1..Len(log[l[2]]), log[l[2]][j].term = l[1]
      PROVE  LeaderProgress(l[2], j, l[1])'
  <2>1. PICK m, u : m = l[2] /\ u = l[1]
    OBVIOUS
  <2>2. m \in Server /\ u \in Nat
    BY <1>2, <2>1, LeaderPair
  <2>3. m # n /\ role[m] = Leader /\ currentTerm[m] = u /\ currentTerm'[m] = u
    BY <1>1, <1>3, <2>1, <2>2, OvertakenTerms
  <2>4. LeaderProgress(m, j, u)
    BY <1>1, <1>3, <2>1, <2>3 DEF ProgressSafe
  <2>5. \A p : Confirmed(m, p, j)' <=> Confirmed(m, p, j)
    BY <1>2, <2>3 DEF Confirmed, Sending
  <2>6. ASSUME NEW p \in Server, Confirmed(m, p, j)
        PROVE  currentTerm'[p] >= u /\ (currentTerm'[p] = u => Anchored(log[p], j, u))
    <3>1. currentTerm[p] >= u /\ (currentTerm[p] = u => Anchored(log[p], j, u))
      BY <2>4, <2>6 DEF LeaderProgress
    <3> QED BY <1>2, <2>2, <3>1
  <2>7. ASSUME NEW Q \in Quorums, \A q \in Q : Confirmed(m, q, j) \/ currentTerm'[q] <= u
        PROVE  Safe(Q, j, u)'
    <3>1. Q \in SUBSET Server
      BY DEF Quorums
    <3>2. \A q \in Q : Confirmed(m, q, j) \/ currentTerm[q] <= u
      BY <1>2, <2>2, <2>7, <3>1
    <3>3. Safe(Q, j, u)
      BY <2>4, <3>2 DEF LeaderProgress
    <3>4. ASSUME n \in Q, currentTerm[n] <= u, u < t PROVE Anchored(log[n], j, u)
      <4>1. Confirmed(m, n, j)
        BY <1>2, <2>2, <2>7, <3>4
      <4>2. currentTerm[n] >= u /\ (currentTerm[n] = u => Anchored(log[n], j, u))
        BY <1>2, <2>4, <4>1 DEF LeaderProgress
      <4> QED BY <1>2, <2>2, <3>4, <4>2
    <3> QED BY <1>1, <2>2, <3>1, <3>3, <3>4, OvertakenSafe
  <2>8. LeaderProgress(m, j, u)'
    BY <1>2, <2>5, <2>6, <2>7 DEF LeaderProgress, Anchored, Quorums, Majority
  <2> QED BY <1>2, <2>1, <2>8
<1> QED BY <1>2, <1>3 DEF ProgressSafe

LEMMA OvertakenCommits ==
  ASSUME CommitInv, NEW n, NEW t, Overtaken(n, t)
  PROVE  CommitInv'
<1>1. LogInv /\ LogInv' /\ Links' = Links
  BY OvertakenLogs DEF CommitInv
<1>2. /\ TypeOK /\ n \in Server /\ t \in Nat /\ currentTerm'[n] = t /\ currentTerm[n] < t
      /\ \A p \in Server : /\ currentTerm[p] \in Nat /\ currentTerm'[p] \in Nat
                           /\ p # n => currentTerm'[p] = currentTerm[p]
      /\ UNCHANGED <<log, calls, leaders, peerLast, peerNext, election, committed>>
  BY <1>1, OvertakenFacts
<1>3. /\ \A l \in leaders : currentTerm'[l[2]] = l[1] => currentTerm[l[2]] = l[1]
      /\ \A p \in Server : role'[p] = Leader =>
           role[p] = Leader /\ currentTerm'[p] = currentTerm[p]
      /\ \A p \in Server : Open(p)' => Open(p)
  BY <1>1, OvertakenTerms
<1>4. ProgressBounded'
  <2>1. ASSUME NEW c \in Sending PROVE RoundOK(c)'
    <3>1. RoundOK(c) /\ c.node \in Server
      BY <1>2, LogTypes DEF CommitInv, ProgressBounded, Sending
    <3>2. PICK l \in leaders : l[1] = c.rd.term /\ l[2] = c.node
      BY <3>1 DEF RoundOK
    <3>3. currentTerm'[c.node] = c.rd.term => currentTerm[c.node] = c.rd.term
      BY <1>3, <3>2
    <3> QED BY <1>2, <1>3, <3>1, <3>3 DEF RoundOK, StartsWith
  <2> QED BY <1>2, <1>3, <2>1 DEF CommitInv, ProgressBounded, Sending
<1>5. LinksHeld'
  <2> SUFFICES ASSUME NEW a \in Links, NEW p \in Server, <<a.term, p>> \in leaders,
                      currentTerm'[p] = a.term
               PROVE  Anchored(log[p], a.index, a.term)
    BY <1>1, <1>2 DEF LinksHeld, Anchored
  <2>1. PICK l \in leaders : l[1] = a.term /\ l[2] = p
    OBVIOUS
  <2>2. currentTerm[p] = a.term
    BY <1>3, <2>1
  <2> QED BY <2>2 DEF CommitInv, LinksHeld
<1>6. TermStarts'
  BY <1>1 DEF CommitInv, TermStarts
<1>7. CampaignExact'
  BY <1>2, <1>3 DEF CommitInv, CampaignExact, LastTerm, TermAt
<1>8. CommittedChosen'
  <2>1. ASSUME NEW e \in committed PROVE \E p \in Server : ChosenBy(e, currentTerm[p])'
    <3>1. PICK p \in Server : ChosenBy(e, currentTerm[p])
      BY DEF CommitInv, CommittedChosen
    <3>2. PICK u, v : u = currentTerm[p] /\ v = currentTerm'[p]
      OBVIOUS
    <3>3. u \in Nat /\ v \in Nat /\ u <= v
      BY <1>2, <3>2
    <3>4. ChosenBy(e, v)'
      BY <1>1, <3>1, <3>2, <3>3, OvertakenChosenBy
    <3> QED BY <3>2, <3>4 DEF ChosenBy
  <2> QED BY <1>2, <2>1 DEF CommittedChosen
<1> QED BY <1>1, <1>4, <1>5, <1>6, <1>7, <1>8, OvertakenProgress DEF CommitInv

LEMMA OvertakenApplied ==
  ASSUME CommitInv, AppliedInv, NEW n, NEW t, Overtaken(n, t)
  PROVE  AppliedInv'
<1>1. LogInv
  BY DEF CommitInv
<1>2. /\ TypeOK /\ n \in Server /\ t \in Nat /\ currentTerm'[n] = t /\ currentTerm[n] < t
      /\ \A p \in Server : /\ currentTerm[p] \in Nat /\ currentTerm'[p] \in Nat
                           /\ p # n => currentTerm'[p] = currentTerm[p]
      /\ UNCHANGED <<log, calls, commitIndex, applied, committed>>
  BY <1>1, OvertakenFacts
<1>3. ASSUME NEW i, NEW e, NEW u \in Nat, NEW v \in Nat, u <= v, KnownEntry(i, e, u)
      PROVE  KnownEntry(i, e, v)'
  <2>1. PICK f : f = <<i, e>>
    OBVIOUS
  <2>2. f \in committed /\ ChosenBy(f, u)
    BY <1>3, <2>1 DEF KnownEntry
  <2>3. f \in committed' /\ ChosenBy(f, v)'
    BY <1>1, <1>2, <1>3, <2>2, OvertakenChosenBy
  <2> QED BY <2>1, <2>3 DEF KnownEntry
<1>4. ASSUME NEW p \in Server, NEW i \in 1..commitIndex[p]
      PROVE  i <= Len(log[p]) /\ KnownEntry(i, log[p][i], currentTerm[p])'
  <2>1. PICK e, u, v : e = log[p][i] /\ u = currentTerm[p] /\ v = currentTerm'[p]
    OBVIOUS
  <2>2. u \in Nat /\ v \in Nat /\ u <= v
    BY <1>2, <2>1
  <2>3. i <= Len(log[p]) /\ KnownEntry(i, e, u)
    BY <2>1 DEF AppliedInv, Known
  <2>4. KnownEntry(i, e, v)'
    BY <1>3, <2>2, <2>3
  <2> QED BY <1>2, <2>1, <2>3, <2>4 DEF KnownEntry, ChosenBy, Chosen
<1>5. ASSUME NEW c \in Sending, NEW i \in 1..commitIndex[c.node]
      PROVE  i <= Len(c.rd.log) /\ KnownEntry(i, c.rd.log[i], c.rd.term)'
  <2>1. PICK e, u : e = c.rd.log[i] /\ u = c.rd.term
    OBVIOUS
  <2>2. u \in Nat
    BY <1>2, <2>1, LogTypes DEF Sending
  <2>3. i <= Len(c.rd.log) /\ KnownEntry(i, e, u)
    BY <2>1 DEF AppliedInv, Known
  <2>4. KnownEntry(i, e, u)'
    BY <1>3, <2>2, <2>3
  <2> QED BY <2>1, <2>3, <2>4
<1>6. (\A p \in Server : Known(log[p], commitIndex[p], currentTerm[p]))'
  BY <1>2, <1>4 DEF Known
<1>7. (\A c \in Sending : Known(c.rd.log, commitIndex[c.node], c.rd.term))'
  BY <1>2, <1>5 DEF Known, Sending
<1>8. AppliedIsCommitted'
  BY <1>2 DEF AppliedInv, AppliedIsCommitted
<1> QED BY <1>6, <1>7, <1>8 DEF AppliedInv

(***************************************************************************)
(* Commit indexes only grow, and what was committed keeps its leader.      *)
(***************************************************************************)
LEMMA CommitIndexGrows ==
  ASSUME OrderlyStep, Mortal = {}, AppliedInv, NEW p \in Server
  PROVE  commitIndex[p] \in Nat /\ commitIndex'[p] \in Nat /\ commitIndex[p] <= commitIndex'[p]
<1>1. TypeOK /\ TypeOK' /\ LogInv
  BY StepFacts DEF OrderlyStep
<1>2. PICK k, h : k = commitIndex[p] /\ h = commitIndex'[p]
  OBVIOUS
<1>3. k \in Nat /\ h \in Nat /\ currentTerm[p] \in Nat
  BY <1>1, <1>2 DEF TypeOK, NodeTypeOK
<1>4. CASE h = k
  BY <1>2, <1>3, <1>4
<1>5. ASSUME NEW c \in Sending, Takes(c, p), commitIndex[c.node] > k,
             h = MinOf(commitIndex[c.node], Len(log'[p]))
      PROVE  k <= h
  <2>1. CASE k = 0
    BY <1>3, <2>1
  <2>2. CASE k > 0
    <3>1. k \in 1..k
      BY <1>3, <2>2
    <3>2. PICK e : e = <<k, log[p][k]>>
      OBVIOUS
    <3>3. ChosenBy(e, currentTerm[p]) /\ e[1] = k
      BY <1>2, <3>1, <3>2 DEF AppliedInv, Known, KnownEntry
    <3>4. currentTerm[p] <= c.rd.term /\ StartsWith(log'[p], c.rd.log)
      BY <1>5 DEF Takes
    <3>5. k \in 1..Len(c.rd.log)
      BY <1>1, <1>3, <3>3, <3>4, RoundHoldsChosen
    <3>6. Len(c.rd.log) <= Len(log'[p]) /\ Len(c.rd.log) \in Nat /\ Len(log'[p]) \in Nat
      BY <1>1, <3>4, LogTypes, LogTypesNext DEF StartsWith, Sending
    <3>7. commitIndex[c.node] \in Nat
      BY <1>1, LogTypes DEF TypeOK, NodeTypeOK, Sending
    <3> QED BY <1>3, <1>5, <3>5, <3>6, <3>7 DEF MinOf
  <2> QED BY <1>3, <2>1, <2>2
<1>6. ASSUME NEW c \in Sending, ReplicateDone(c), c.node = p PROVE k <= h
  <2>1. PICK J : J = AdvanceCommit(c.node, peerLast'[c.node])
    OBVIOUS
  <2>2. commitIndex'[p] = J /\ (J = commitIndex[p] \/ J > commitIndex[p])
    BY <1>6, <2>1, CommitReach
  <2> QED BY <1>2, <1>3, <2>2
<1> QED BY <1>2, <1>3, <1>4, <1>5, <1>6, AppliesMove DEF CommitMoves

\* What a step must keep for the reads' sake.
LedStays ==
  /\ leaders \subseteq leaders' /\ committed \subseteq committed'
  /\ \A e : \A l \in leaders, j \in 1..MaxLog, Q \in Quorums :
       Led(e, l, j, Q) => Led(e, l, j, Q)'

LEMMA CoreLedStays ==
  ASSUME OrderlyStep, Mortal = {}, CommitInv, AppliedInv PROVE LedStays
<1>1. /\ TypeOK /\ leaders \subseteq leaders' /\ committed \subseteq committed'
      /\ TermStarts /\ CampaignExact /\ LinksHeld
  BY StepFacts, CommitsGrow DEF CommitInv
<1>2. ASSUME NEW e, NEW l \in leaders, NEW j \in 1..MaxLog, NEW Q \in Quorums, Led(e, l, j, Q)
      PROVE  Led(e, l, j, Q)'
  <2>1. Chosen(e, l[1], j, Q) /\ e[1] <= commitIndex[l[2]] /\ e[1] \in 1..j
    BY <1>2 DEF Led, Chosen
  <2>2. l[1] \in Nat /\ l[2] \in Server /\ j \in Nat
    BY <1>1, LeaderPair
  <2>3. Chosen(e, l[1], j, Q)'
    BY <1>1, <2>1, <2>2, ChosenKept
  <2>4. e[1] <= commitIndex'[l[2]]
    <3>1. PICK k, h : k = commitIndex[l[2]] /\ h = commitIndex'[l[2]]
      OBVIOUS
    <3>2. k \in Nat /\ h \in Nat /\ k <= h
      BY <2>2, <3>1, CommitIndexGrows
    <3> QED BY <2>1, <2>2, <3>1, <3>2
  <2> QED BY <2>3, <2>4 DEF Led
<1> QED BY <1>1, <1>2 DEF LedStays

LEMMA CommitsLedStep ==
  ASSUME OrderlyStep, Mortal = {}, CommitInv, AppliedInv, CommitsLed PROVE CommitsLed'
<1>1. TypeOK /\ Orderly /\ Next /\ LedStays
  BY StepFacts, CoreLedStays DEF OrderlyStep
<1>2. ASSUME NEW e \in committed
      PROVE  \E l \in leaders', j \in 1..MaxLog, Q \in Quorums : Led(e, l, j, Q)'
  <2>1. PICK l \in leaders, j \in 1..MaxLog, Q \in Quorums : Led(e, l, j, Q)
    BY DEF CommitsLed
  <2> QED BY <1>1, <2>1 DEF LedStays
<1>3. ASSUME NEW e \in committed', e \notin committed
      PROVE  \E l \in leaders', j \in 1..MaxLog, Q \in Quorums : Led(e, l, j, Q)'
  <2>1. PICK c \in Sending : ReplicateDone(c)
    BY <1>1, <1>3, CommitsMove
  <2>2. PICK n, J : n = c.node /\ J = AdvanceCommit(c.node, peerLast'[c.node])
    OBVIOUS
  <2>3. /\ J \in Nat /\ commitIndex'[n] = J
        /\ committed' = committed \cup
             {<<i, log[n][i]>> : i \in (commitIndex[n] + 1)..MinOf(J, Len(log[n]))}
        /\ \/ J = commitIndex[n]
           \/ /\ J > commitIndex[n] /\ Anchored(log[n], J, currentTerm[n])
              /\ \E Q \in Quorums : \A q \in Q : Confirmed(n, q, J)
    BY <2>1, <2>2, CommitReach
  <2>4. PICK i \in (commitIndex[n] + 1)..MinOf(J, Len(log[n])) : e = <<i, log[n][i]>>
    BY <1>3, <2>3
  <2>5. n \in Server
    BY <2>1, <2>2, DoneEffect
  <2>6. commitIndex[n] \in Nat /\ Len(log[n]) \in Nat
    BY <1>1, <2>5, LogTypes DEF TypeOK, NodeTypeOK
  <2>7. i \in 1..J /\ J # commitIndex[n]
    BY <2>3, <2>4, <2>6 DEF MinOf
  <2>8. PICK Q \in Quorums : \A q \in Q : Confirmed(n, q, J)
    BY <2>3, <2>7
  <2>9. Anchored(log[n], J, currentTerm[n])
    BY <2>3, <2>7
  <2>10. PICK f, t : /\ f = <<i, log[c.node][i]>> /\ t = currentTerm[c.node] /\ log' = log
                     /\ <<t, c.node>> \in leaders' /\ J \in 1..MaxLog /\ Chosen(f, t, J, Q)'
    BY <2>1, <2>2, <2>3, <2>7, <2>8, <2>9, CountedExactly DEF CommitInv
  <2>11. PICK l \in leaders' : l[1] = t /\ l[2] = n
    BY <2>2, <2>10
  <2>12. f = e /\ e[1] = i
    BY <2>2, <2>4, <2>10
  <2>13. e[1] <= commitIndex'[l[2]]
    BY <2>3, <2>7, <2>11, <2>12
  <2>14. Led(e, l, J, Q)'
    BY <2>10, <2>11, <2>12, <2>13 DEF Led
  <2> QED BY <2>8, <2>10, <2>11, <2>14
<1>4. \A e \in committed' :
        \E l \in leaders', j \in 1..MaxLog, Q \in Quorums : Led(e, l, j, Q)'
  BY <1>2, <1>3
<1> QED BY <1>4 DEF CommitsLed, Quorums, Majority

LEMMA OvertakenLedStays ==
  ASSUME CommitInv, NEW n, NEW t, Overtaken(n, t) PROVE LedStays /\ committed' = committed
<1>1. LogInv
  BY DEF CommitInv
<1>2. TypeOK /\ UNCHANGED <<leaders, committed, commitIndex>>
  BY <1>1, OvertakenFacts
<1>3. ASSUME NEW e, NEW l \in leaders, NEW j \in 1..MaxLog, NEW Q \in Quorums, Led(e, l, j, Q)
      PROVE  Led(e, l, j, Q)'
  <2>1. Chosen(e, l[1], j, Q) /\ e[1] <= commitIndex[l[2]]
    BY <1>3 DEF Led
  <2>2. l[1] \in Nat
    BY <1>2, LeaderPair
  <2>3. Chosen(e, l[1], j, Q)'
    BY <1>1, <2>1, <2>2, OvertakenChosen
  <2> QED BY <1>2, <2>1, <2>3 DEF Led
<1> QED BY <1>2, <1>3 DEF LedStays

LEMMA FrameLedStays ==
  ASSUME SameCore PROVE LedStays /\ committed' = committed
<1>1. \A e, t, j, Q : Chosen(e, t, j, Q)' <=> Chosen(e, t, j, Q)
  BY ChosenFrame
<1>2. UNCHANGED <<leaders, committed, commitIndex>>
  BY DEF SameCore
<1> QED BY <1>1, <1>2 DEF LedStays, Led

(***************************************************************************)
(* The GETs in progress.                                                   *)
(***************************************************************************)
LEMMA ReadKept ==
  ASSUME LedStays, NEW r, ReadOK(r) PROVE ReadOK(r)'
<1>1. r.due \subseteq committed'
  BY DEF ReadOK, LedStays
<1>2. ASSUME NEW e, NotBehind(r, e) PROVE NotBehind(r, e)'
  <2>1. PICK l \in leaders, j \in 1..MaxLog, Q \in Quorums :
          Led(e, l, j, Q) /\ \A q \in Q \cap r.oks : l[1] <= r.term
    BY <1>2 DEF NotBehind
  <2>2. l \in leaders' /\ Led(e, l, j, Q)'
    BY <2>1 DEF LedStays
  <2> QED BY <2>1, <2>2 DEF NotBehind, Quorums, Majority
<1> QED BY <1>1, <1>2 DEF ReadOK

LEMMA ReadsKept ==
  ASSUME ReadsInv, LedStays, committed' = committed,
         NEW S, reads' \subseteq reads \cup S, S \subseteq Read, \A r \in S : ReadOK(r)'
  PROVE  ReadsInv'
<1>1. CommitsLed'
  <2>1. ASSUME NEW e \in committed
        PROVE  \E l \in leaders', j \in 1..MaxLog, Q \in Quorums : Led(e, l, j, Q)'
    <3>1. PICK l \in leaders, j \in 1..MaxLog, Q \in Quorums : Led(e, l, j, Q)
      BY DEF ReadsInv, CommitsLed
    <3> QED BY <3>1 DEF LedStays
  <2> QED BY <2>1 DEF CommitsLed, Quorums, Majority
<1>2. \A r \in reads : ReadOK(r)'
  BY ReadKept DEF ReadsInv
<1>3. reads' \subseteq Read
  BY DEF ReadsInv
<1>4. Read' = Read
  BY DEF Read, Entry
<1>5. \A r \in reads' : ReadOK(r)'
  BY <1>2
<1> QED BY <1>1, <1>3, <1>4, <1>5 DEF ReadsInv

LEMMA ReadTypes ==
  ASSUME NEW r \in Read
  PROVE  /\ r.node \in Server /\ r.term \in Nat /\ r.due \in SUBSET (Nat \X Entry)
         /\ r.todo \in SUBSET Server /\ r.oks \in SUBSET Server /\ r.maxTerm \in Nat
         /\ r.index \in Nat /\ r.own \in BOOLEAN
  BY DEF Read

\* The read that waits for the leader's commit index.
LEMMA TakenRead ==
  ASSUME TypeOK, NEW r \in Read, NEW path \in {"slow", "fast"}, NEW x \in TakesIndex(r, path)
  PROVE  /\ commitIndex[r.node] # 0 /\ x \in Read
         /\ x.node = r.node /\ x.due = r.due /\ x.phase = "wait" /\ x.todo = {} /\ x.oks = {}
         /\ x.path = path /\ x.index = commitIndex[r.node]
         /\ x.own => TermAt(log[r.node], commitIndex[r.node]) = r.term
<1>1. PICK b : b = (TermAt(log[r.node], commitIndex[r.node]) = r.term)
  OBVIOUS
<1>2. b \in BOOLEAN /\ (b => TermAt(log[r.node], commitIndex[r.node]) = r.term)
  BY <1>1, Zenon
<1>3. PICK k : k = commitIndex[r.node]
  OBVIOUS
<1>4. k \in Nat
  BY <1>3, ReadTypes DEF TypeOK, NodeTypeOK
<1>5. k # 0 /\ x = [r EXCEPT !.phase = "wait", !.todo = {}, !.oks = {}, !.path = path,
                             !.index = k, !.own = b]
  BY <1>1, <1>3, Zenon DEF TakesIndex
<1>6. /\ x \in Read /\ x.node = r.node /\ x.due = r.due /\ x.phase = "wait" /\ x.todo = {}
      /\ x.oks = {} /\ x.path = path /\ x.index = k /\ x.own = b
  BY <1>2, <1>4, <1>5 DEF Read
<1> QED BY <1>2, <1>3, <1>5, <1>6

LEMMA ReadIndexKeeps ==
  ASSUME TypeOK, ReadsInv, NEW n \in Server, ReadIndex(n) PROVE ReadsInv'
<1>1. SameCore
  BY DEF ReadIndex, SameCore, vars, hardState, logVars, peerVars, callVars, history
<1>2. PICK r : r = NewRead(n)
  OBVIOUS
<1>3. /\ r.node = n /\ r.due = committed /\ r.phase = "ask" /\ r.todo = Peers(n) /\ r.oks = {}
  BY <1>2 DEF NewRead
<1>4. r \in Read
  <2>1. currentTerm[n] \in Nat /\ committed \in SUBSET (Nat \X Entry) /\ Peers(n) \in SUBSET Server
    BY DEF TypeOK, NodeTypeOK, HistoryTypeOK, Peers
  <2> QED BY <1>2, <2>1 DEF NewRead, Read
<1>5. ReadOK(r)
  <2>1. ASSUME NEW e \in committed PROVE NotBehind(r, e)
    <3>1. PICK l \in leaders, j \in 1..MaxLog, Q \in Quorums : Led(e, l, j, Q)
      BY DEF ReadsInv, CommitsLed
    <3> QED BY <1>3, <3>1 DEF NotBehind
  <2> QED BY <1>3, <2>1 DEF ReadOK, Peers
<1>6. ASSUME NEW x \in TakesIndex(r, "fast") PROVE x \in Read /\ ReadOK(x)
  <2>1. /\ x \in Read /\ x.due = committed /\ x.phase = "wait" /\ x.todo = {} /\ x.oks = {}
        /\ x.path = "fast"
    BY <1>3, <1>4, TakenRead
  <2> QED BY <2>1 DEF ReadOK
<1>7. PICK S : /\ S \in {TakesIndex(r, "fast"), {r}} /\ reads' = reads \cup S
  BY <1>2 DEF ReadIndex
<1>8. S \subseteq Read /\ \A x \in S : ReadOK(x)
  BY <1>4, <1>5, <1>6, <1>7
<1>9. LedStays /\ committed' = committed
  BY <1>1, FrameLedStays
<1>10. \A x \in S : ReadOK(x)'
  BY <1>8, <1>9, ReadKept
<1> QED BY <1>7, <1>8, <1>9, <1>10, ReadsKept

\* A peer's answer: who confirms the read's term is in it, so no entry was
\* chosen in a later one with its help when the read came in.
LEMMA SendReadIndexKeeps ==
  ASSUME TypeOK, ReadsInv, NEW r \in reads, NEW p \in r.todo,
         SendReadIndex(r, p) \/ ReadIndexFails(r, p)
  PROVE  ReadsInv'
<1>1. SameCore
  BY DEF SendReadIndex, ReadIndexFails, SameCore, vars, hardState, logVars, peerVars, callVars,
     history
<1>2. r \in Read /\ ReadOK(r)
  BY DEF ReadsInv
<1>3. LedStays /\ committed' = committed
  BY <1>1, FrameLedStays
<1>4. p \in Server /\ currentTerm[p] \in Nat
  BY <1>2, ReadTypes DEF TypeOK, NodeTypeOK
<1>5. PICK oks, mt : /\ reads' = (reads \ {r}) \cup
                          {[r EXCEPT !.todo = r.todo \ {p}, !.oks = oks, !.maxTerm = mt]}
                     /\ oks = r.oks \/ (oks = r.oks \cup {p} /\ currentTerm[p] = r.term)
                     /\ mt \in Nat
  <2>1. CASE SendReadIndex(r, p)
    <3>1. PICK resp : resp = ReadIndexResponse(r, p)
      OBVIOUS
    <3>2. resp.term = currentTerm[p]
      BY <3>1 DEF ReadIndexResponse, Response
    <3>3. PICK oks : oks = IF Confirms(r, resp) THEN r.oks \cup {p} ELSE r.oks
      OBVIOUS
    <3>4. PICK mt : mt = MaxOf(r.maxTerm, resp.term)
      OBVIOUS
    <3>5. oks = r.oks \/ (oks = r.oks \cup {p} /\ currentTerm[p] = r.term)
      BY <3>2, <3>3 DEF Confirms
    <3>6. mt \in Nat
      BY <1>2, <1>4, <3>2, <3>4, ReadTypes DEF MaxOf
    <3>7. reads' = (reads \ {r}) \cup
                     {[r EXCEPT !.todo = r.todo \ {p}, !.oks = oks, !.maxTerm = mt]}
      BY <2>1, <3>1, <3>3, <3>4 DEF SendReadIndex, Step
    <3> QED BY <3>5, <3>6, <3>7
  <2>2. CASE ReadIndexFails(r, p)
    <3>1. [r EXCEPT !.todo = r.todo \ {p}]
            = [r EXCEPT !.todo = r.todo \ {p}, !.oks = r.oks, !.maxTerm = r.maxTerm]
      BY <1>2 DEF Read
    <3>2. reads' = (reads \ {r}) \cup {[r EXCEPT !.todo = r.todo \ {p}]}
      BY <2>2 DEF ReadIndexFails, Step
    <3> QED BY <1>2, <3>1, <3>2, ReadTypes
  <2> QED BY <2>1, <2>2
<1>6. PICK x : x = [r EXCEPT !.todo = r.todo \ {p}, !.oks = oks, !.maxTerm = mt]
  OBVIOUS
<1>7. oks \in SUBSET Server
  BY <1>2, <1>4, <1>5, ReadTypes
<1>8. /\ x \in Read /\ x.node = r.node /\ x.term = r.term /\ x.due = r.due
      /\ x.phase = r.phase /\ x.path = r.path /\ x.own = r.own /\ x.index = r.index
      /\ x.todo = r.todo \ {p} /\ x.oks = oks
  BY <1>2, <1>5, <1>6, <1>7 DEF Read
<1>9. ASSUME NEW e, NotBehind(r, e) PROVE NotBehind(x, e)
  <2>1. PICK l \in leaders, j \in 1..MaxLog, Q \in Quorums :
          Led(e, l, j, Q) /\ \A q \in Q \cap r.oks : l[1] <= r.term
    BY <1>9 DEF NotBehind
  <2>2. \A q \in Q : currentTerm[q] >= l[1]
    BY <2>1 DEF Led, Chosen
  <2>3. l[1] \in Nat /\ r.term \in Nat
    BY <1>2, LeaderPair, ReadTypes
  <2>4. \A q \in Q \cap x.oks : l[1] <= x.term
    BY <1>4, <1>5, <1>8, <2>1, <2>2, <2>3
  <2> QED BY <2>1, <2>4 DEF NotBehind
<1>10. ReadOK(x)
  <2>1. x.node \notin x.todo \cup x.oks
    BY <1>2, <1>5, <1>8 DEF ReadOK
  <2>2. x.phase = "wait" /\ x.path = "slow" /\ x.own => \A e \in x.due : e[1] <= x.index
    BY <1>2, <1>8 DEF ReadOK
  <2>3. x.due \subseteq committed /\ (x.phase = "ask" => \A e \in x.due : NotBehind(x, e))
    BY <1>2, <1>8, <1>9 DEF ReadOK
  <2> QED BY <2>1, <2>2, <2>3 DEF ReadOK
<1>11. ReadOK(x)'
  BY <1>3, <1>10, ReadKept
<1>12. PICK S : S = {x}
  OBVIOUS
<1>13. S \subseteq Read /\ \A y \in S : ReadOK(y)'
  BY <1>8, <1>11, <1>12
<1>14. reads' \subseteq reads \cup S
  BY <1>5, <1>6, <1>12
<1> QED BY <1>3, <1>13, <1>14, ReadsKept

\* The heart of it: the confirmed leader's commit index, when the entry there
\* is of its own term, covers all that the read is due.
LEMMA ConfirmedCovers ==
  ASSUME CommitInv, AppliedInv, NEW r \in Read, ReadOK(r), r.phase = "ask",
         StillLeads(r), QuorumConfirmed(r), commitIndex[r.node] # 0,
         TermAt(log[r.node], commitIndex[r.node]) = r.term, NEW e \in r.due
  PROVE  e[1] <= commitIndex[r.node]
<1>1. PICK n, t, k : n = r.node /\ t = r.term /\ k = commitIndex[n]
  OBVIOUS
<1>2. TypeOK /\ LogInv /\ ElectionInv /\ LinksOrdered
  BY DEF CommitInv, LogInv, ElectionInv
<1>3. n \in Server /\ t \in Nat /\ r.oks \in SUBSET Server
  BY <1>1, ReadTypes
<1>4. /\ k \in Nat /\ k # 0 /\ log[n] \in Seq(Entry) /\ Len(log[n]) \in Nat
  BY <1>1, <1>2, <1>3, LogTypes DEF TypeOK, NodeTypeOK
<1>5. k \in 1..Len(log[n])
  <2>1. k \in 1..k
    BY <1>4
  <2>2. k <= Len(log[n])
    BY <1>1, <1>3, <2>1 DEF AppliedInv, Known
  <2> QED BY <1>4, <2>2
<1>6. log[n][k].term = t
  BY <1>1, <1>5 DEF TermAt
<1>7. role[n] = Leader /\ currentTerm[n] = t
  BY <1>1 DEF StillLeads
<1>8. <<t, n>> \in leaders
  BY <1>2, <1>3, <1>7 DEF LogInv, SpokenByLeaders
<1>9. PICK l \in leaders, j \in 1..MaxLog, Q \in Quorums :
        Led(e, l, j, Q) /\ \A q \in Q \cap r.oks : l[1] <= r.term
  BY DEF ReadOK, NotBehind
<1>10. l[1] \in Nat /\ l[2] \in Server
  BY <1>2, LeaderPair
<1>11. /\ e[1] \in 1..j /\ Safe(Q, j, l[1]) /\ \A q \in Q : currentTerm[q] >= l[1]
  BY <1>9 DEF Led, Chosen
<1>12. r.oks \cup {n} \in Quorums
  <2>1. n \notin r.oks
    BY <1>1 DEF ReadOK
  <2>2. IsFiniteSet(r.oks)
    BY <1>3, ServerAssumption, FS_Subset
  <2>3. Cardinality(r.oks \cup {n}) = Cardinality(r.oks) + 1
    BY <2>1, <2>2, FS_AddElement
  <2>4. Cardinality(r.oks \cup {n}) >= Majority
    BY <2>3 DEF QuorumConfirmed
  <2> QED BY <1>3, <2>4 DEF Quorums
<1>13. l[1] <= t
  <2>1. PICK q \in Q : q \in r.oks \cup {n}
    BY <1>12, QuorumsMeet
  <2>2. CASE q = n
    BY <1>7, <1>11, <2>2
  <2>3. CASE q \in r.oks
    BY <1>1, <1>9, <2>3
  <2> QED BY <2>1, <2>2, <2>3
<1>14. CASE l[1] = t
  <2>1. l[2] = n
    <3>1. PICK m \in leaders : m[1] = t /\ m[2] = n
      BY <1>8
    <3>2. ElectionSafety
      BY <1>2, ElectionInvSafe
    <3> QED BY <1>14, <3>1, <3>2 DEF ElectionSafety
  <2> QED BY <1>1, <1>9, <2>1 DEF Led
<1>15. CASE l[1] < t
  <2>1. Anchored(log[n], j, l[1])
    <3>1. PICK m \in leaders : m[1] = t /\ m[2] = n
      BY <1>8
    <3>2. m[1] > l[1] /\ currentTerm[m[2]] = m[1]
      BY <1>3, <1>7, <1>10, <1>15, <3>1
    <3> QED BY <1>11, <3>1, <3>2 DEF Safe
  <2>2. j \in 1..Len(log[n]) /\ log[n][j].term = l[1]
    BY <2>1 DEF Anchored
  <2>3. ~(k <= j)
    <3> SUFFICES ASSUME k <= j PROVE FALSE
      OBVIOUS
    <3>1. k \in 1..j
      BY <1>4, <2>2
    <3>2. LogLinks(log[n]) \subseteq Links
      BY <1>3, LinksOfLogs
    <3>3. log[n][k].term <= log[n][j].term
      BY <1>2, <1>4, <2>2, <3>1, <3>2, TermsRise
    <3> QED BY <1>3, <1>6, <1>10, <1>15, <2>2, <3>3
  <2>4. e[1] <= k
    BY <1>4, <1>11, <2>2, <2>3
  <2> QED BY <1>1, <2>4
<1> QED BY <1>3, <1>10, <1>13, <1>14, <1>15

LEMMA ReadConfirmedKeeps ==
  ASSUME CommitInv, AppliedInv, ReadsInv, NEW r \in reads, ReadConfirmed(r)
  PROVE  ReadsInv'
<1>1. SameCore /\ reads' = (reads \ {r}) \cup TakesIndex(r, "slow")
  BY DEF ReadConfirmed, Step, SameCore, vars, hardState, logVars, peerVars, callVars, history
<1>2. TypeOK /\ r \in Read /\ ReadOK(r)
  BY DEF ReadsInv, CommitInv, LogInv, ElectionInv
<1>3. LedStays /\ committed' = committed
  BY <1>1, FrameLedStays
<1>4. r.phase = "ask" /\ StillLeads(r) /\ QuorumConfirmed(r)
  BY DEF ReadConfirmed, Asked
<1>5. ASSUME NEW x \in TakesIndex(r, "slow") PROVE x \in Read /\ ReadOK(x)
  <2>1. /\ commitIndex[r.node] # 0 /\ x \in Read
        /\ x.node = r.node /\ x.due = r.due /\ x.phase = "wait" /\ x.todo = {} /\ x.oks = {}
        /\ x.index = commitIndex[r.node]
        /\ x.own => TermAt(log[r.node], commitIndex[r.node]) = r.term
    BY <1>2, TakenRead
  <2>2. ASSUME x.own, NEW e \in x.due PROVE e[1] <= x.index
    BY <1>2, <1>4, <2>1, <2>2, ConfirmedCovers
  <2>3. x.due \subseteq committed
    BY <1>2, <2>1 DEF ReadOK
  <2> QED BY <2>1, <2>2, <2>3 DEF ReadOK
<1>6. PICK S : S = TakesIndex(r, "slow")
  OBVIOUS
<1>7. S \subseteq Read /\ \A x \in S : ReadOK(x)'
  BY <1>3, <1>5, <1>6, ReadKept
<1>8. reads' \subseteq reads \cup S
  BY <1>1, <1>6
<1> QED BY <1>3, <1>7, <1>8, ReadsKept

\* A read that ends leaves the others alone.
LEMMA ReadEnds ==
  ASSUME ReadsInv, LedStays, committed' = committed, reads' \subseteq reads PROVE ReadsInv'
<1>1. PICK S : S = {}
  OBVIOUS
<1>2. reads' \subseteq reads \cup S /\ S \subseteq Read /\ \A x \in S : ReadOK(x)'
  BY <1>1
<1> QED BY <1>2, ReadsKept

\* ServeRead: WaitForApplied may apply more, all of it committed.
LEMMA ServeApplies ==
  ASSUME CommitInv, AppliedInv, NEW r \in Read, ServeRead(r),
         NEW done, done = Apply(applied[r.node], log[r.node], commitIndex[r.node])
  PROVE  /\ SameCore /\ CommitInv' /\ AppliedInv' /\ Len(done) \in Nat
         /\ \A i \in 1..Len(done) : <<i, done[i]>> \in committed
<1>1. PICK n : n = r.node
  OBVIOUS
<1>2. /\ SameCore /\ applied' = [applied EXCEPT ![n] = done]
      /\ UNCHANGED <<timer, peerHbOk, waiting, acked>>
  BY <1>1 DEF ServeRead, SameCore, hardState, peerVars, callVars, history
<1>3. TypeOK /\ n \in Server
  BY <1>1, ReadTypes DEF CommitInv, LogInv, ElectionInv
<1>4. /\ applied \in [Server -> Seq(Entry)] /\ log[n] \in Seq(Entry) /\ commitIndex[n] \in Nat
  BY <1>3 DEF TypeOK, NodeTypeOK
<1>5. done \in Seq(Entry) /\ Len(done) \in Nat
  <2>1. applied[n] \in Seq(Entry)
    BY <1>3, <1>4
  <2>2. done \in Seq(Entry)
    BY <1>1, <1>4, <2>1, ApplyType
  <2> QED BY <2>2
<1>6. ASSUME NEW i \in 1..Len(done) PROVE <<i, done[i]>> \in committed
  <2>1. \/ i \in 1..Len(applied[n]) /\ done[i] = applied[n][i]
        \/ i \in 1..commitIndex[n] /\ done[i] = log[n][i]
    BY <1>1, <1>3, <1>4, ApplyEntries
  <2>2. CASE i \in 1..Len(applied[n]) /\ done[i] = applied[n][i]
    BY <1>3, <2>2 DEF AppliedInv, AppliedIsCommitted
  <2>3. CASE i \in 1..commitIndex[n] /\ done[i] = log[n][i]
    BY <1>3, <2>3 DEF AppliedInv, Known, KnownEntry
  <2> QED BY <2>1, <2>2, <2>3
<1>7. TypeOK'
  <2>1. applied' \in [Server -> Seq(Entry)]
    BY <1>2, <1>3, <1>4, <1>5
  <2> QED BY <1>2, <1>3, <2>1 DEF SameCore, TypeOK, NodeTypeOK, CallTypeOK, HistoryTypeOK
<1>8. AppliedIsCommitted'
  <2> SUFFICES ASSUME NEW p \in Server, NEW i \in 1..Len(applied'[p])
               PROVE  <<i, applied'[p][i]>> \in committed
    BY <1>2 DEF AppliedIsCommitted, SameCore
  <2>1. CASE p = n
    BY <1>2, <1>3, <1>4, <1>6, <2>1
  <2>2. CASE p # n
    BY <1>2, <1>4, <2>2 DEF AppliedInv, AppliedIsCommitted
  <2> QED BY <2>1, <2>2
<1> QED BY <1>2, <1>5, <1>6, <1>7, <1>8, CommitInvFrame, KnownFrame

LEMMA ServedFresh ==
  ASSUME CommitInv, AppliedInv, ReadsInv, ConfirmedReadsAreFresh, NEW r \in reads, ServeRead(r)
  PROVE  ConfirmedReadsAreFresh'
<1>1. PICK done : done = Apply(applied[r.node], log[r.node], commitIndex[r.node])
  OBVIOUS
<1>2. r \in Read /\ ReadOK(r) /\ r.phase = "wait"
  BY DEF ReadsInv, ServeRead
<1>3. Len(done) \in Nat /\ \A i \in 1..Len(done) : <<i, done[i]>> \in committed
  BY <1>1, <1>2, ServeApplies
<1>4. PICK w : w = (Len(done) >= r.index)
  OBVIOUS
<1>5. w => Len(done) >= r.index
  BY <1>4, Zenon
<1>6. PICK s : s = [due |-> r.due, saw |-> done, path |-> r.path, own |-> r.own, waited |-> w]
  OBVIOUS
<1>7. served' = served \cup {s}
  BY <1>1, <1>4, <1>6, Zenon DEF ServeRead
<1>8. s.due = r.due /\ s.saw = done /\ s.path = r.path /\ s.own = r.own /\ s.waited = w
  BY <1>6
<1>9. ASSUME s.path = "slow", s.own, s.waited PROVE Fresh(s)
  <2>1. r.path = "slow" /\ r.own /\ w
    BY <1>8, <1>9, Zenon
  <2>2. Len(done) >= r.index
    BY <1>5, <2>1
  <2> SUFFICES ASSUME NEW e \in r.due PROVE e[1] <= Len(done) /\ done[e[1]] = e[2]
    BY <1>8 DEF Fresh
  <2>3. e[1] <= r.index /\ e \in committed /\ r.index \in Nat
    BY <1>2, <2>1, ReadTypes DEF ReadOK
  <2>4. PICK p \in Server : ChosenBy(e, currentTerm[p])
    BY <2>3 DEF CommitInv, CommittedChosen
  <2>5. e[1] \in Nat /\ e[1] >= 1
    BY <2>4 DEF ChosenBy, Chosen
  <2>6. e[1] \in 1..Len(done)
    BY <1>3, <2>2, <2>3, <2>5
  <2>7. PICK f : f = <<e[1], done[e[1]]>>
    OBVIOUS
  <2>8. f \in committed /\ f[1] = e[1] /\ f[2] = done[e[1]]
    BY <1>3, <2>6, <2>7
  <2>9. PICK q \in Server : ChosenBy(f, currentTerm[q])
    BY <2>8 DEF CommitInv, CommittedChosen
  <2>10. e[2] = f[2]
    BY <2>4, <2>8, <2>9, ChosenUnique
  <2> QED BY <2>6, <2>8, <2>10
<1> QED BY <1>7, <1>9 DEF ConfirmedReadsAreFresh, Fresh

(***************************************************************************)
(* The theorems.                                                           *)
(***************************************************************************)
FreshInv == CommitInv /\ AppliedInv /\ ReadsInv /\ ConfirmedReadsAreFresh

LEMMA FreshInvInit == ReadsInit => FreshInv
<1> SUFFICES ASSUME ReadsInit PROVE FreshInv
  OBVIOUS
<1>1. Init /\ reads = {} /\ served = {}
  BY DEF ReadsInit
<1>2. CommitInv /\ AppliedInv
  BY <1>1, CommitInvInit, AppliedInvInit
<1>3. committed = {}
  BY <1>1 DEF Init
<1> QED BY <1>1, <1>2, <1>3 DEF FreshInv, ReadsInv, CommitsLed, ConfirmedReadsAreFresh

\* A step of a GET, seen by the core: it is not there, it demotes the leader,
\* or it applies what is committed.
LEMMA ReadStepKinds ==
  ASSUME ReadsNext, ~CoreStep, ReadsInv
  PROVE  \/ /\ UNCHANGED vars
            /\ \/ \E n \in Server : ReadIndex(n) \/ LeaseRunsOut(n)
               \/ \E r \in reads : \E p \in r.todo : SendReadIndex(r, p) \/ ReadIndexFails(r, p)
               \/ \E r \in reads : ReadRefused(r) \/ ReadConfirmed(r)
         \/ \E r \in reads : Overtaken(r.node, r.maxTerm) /\ reads' \subseteq reads
                             /\ served' = served
         \/ \E r \in reads : ServeRead(r)
<1>1. ASSUME NEW n \in Server, ReadIndex(n) \/ LeaseRunsOut(n) PROVE UNCHANGED vars
  BY <1>1 DEF ReadIndex, LeaseRunsOut
<1>2. ASSUME NEW r \in reads, NEW p \in r.todo, SendReadIndex(r, p) \/ ReadIndexFails(r, p)
      PROVE  UNCHANGED vars
  BY <1>2 DEF SendReadIndex, ReadIndexFails
<1>3. ASSUME NEW r \in reads, ReadRefused(r) \/ ReadConfirmed(r) PROVE UNCHANGED vars
  BY <1>3 DEF ReadRefused, ReadConfirmed
<1>4. ASSUME NEW r \in reads, ReadDeposed(r)
      PROVE  Overtaken(r.node, r.maxTerm) /\ reads' \subseteq reads /\ served' = served
  <2>1. r.node \in Server /\ r.maxTerm \in Nat
    BY ReadTypes DEF ReadsInv
  <2> QED BY <1>4, <2>1 DEF ReadDeposed, Overtaken, Step
<1> QED BY <1>1, <1>2, <1>3, <1>4 DEF ReadsNext, ReadStep

LEMMA FreshInvStep ==
  ASSUME MaxLog <= MaxBatch, Mortal = {}, FreshInv, Orderly, OneRound, [ReadsNext]_allVars
  PROVE  FreshInv'
<1>1. CommitInv /\ AppliedInv /\ ReadsInv /\ ConfirmedReadsAreFresh /\ TypeOK
  BY DEF FreshInv, CommitInv, LogInv, ElectionInv
<1>2. ASSUME UNCHANGED vars PROVE CommitInv' /\ AppliedInv' /\ LedStays /\ committed' = committed
  <2>1. SameCore
    BY <1>2 DEF SameCore, vars, hardState, logVars, peerVars, callVars, history
  <2> QED BY <1>1, <1>2, <2>1, CommitInvStutters, AppliedInvStutters, FrameLedStays
<1>3. ASSUME served' = served PROVE ConfirmedReadsAreFresh'
  BY <1>1, <1>3 DEF ConfirmedReadsAreFresh, Fresh
<1>4. CASE UNCHANGED allVars
  <2>1. UNCHANGED vars /\ reads' = reads /\ served' = served
    BY <1>4 DEF allVars, readVars
  <2>2. ReadsInv'
    BY <1>1, <1>2, <2>1, ReadEnds
  <2> QED BY <1>2, <1>3, <2>1, <2>2 DEF FreshInv
<1>5. CASE CoreStep
  <2>1. Next /\ reads' = reads /\ served' = served
    BY <1>5 DEF CoreStep
  <2>2. CommitInv' /\ AppliedInv'
    BY <1>1, <2>1, CommitInvStep, AppliedInvStep
  <2>3. OrderlyStep
    BY <1>1, <2>1, <2>2 DEF OrderlyStep, CommitInv, LogInv, ElectionInv
  <2>4. LedStays /\ CommitsLed'
    BY <1>1, <2>3, CoreLedStays, CommitsLedStep DEF ReadsInv
  <2>5. \A r \in reads : ReadOK(r)'
    BY <1>1, <2>4, ReadKept DEF ReadsInv
  <2>6. Read' = Read
    BY DEF Read, Entry
  <2>7. ReadsInv'
    BY <1>1, <2>1, <2>4, <2>5, <2>6 DEF ReadsInv
  <2> QED BY <1>3, <2>1, <2>2, <2>7 DEF FreshInv
<1>6. ASSUME NEW n \in Server, UNCHANGED vars, ReadIndex(n) \/ LeaseRunsOut(n) PROVE FreshInv'
  <2>1. served' = served
    BY <1>6 DEF ReadIndex, LeaseRunsOut
  <2>2. CASE ReadIndex(n)
    BY <1>1, <1>2, <1>3, <1>6, <2>1, <2>2, ReadIndexKeeps DEF FreshInv
  <2>3. CASE LeaseRunsOut(n)
    <3>1. reads' \subseteq reads
      BY <2>3 DEF LeaseRunsOut
    <3> QED BY <1>1, <1>2, <1>3, <1>6, <2>1, <3>1, ReadEnds DEF FreshInv
  <2> QED BY <1>6, <2>2, <2>3
<1>7. ASSUME NEW r \in reads, NEW p \in r.todo, UNCHANGED vars,
             SendReadIndex(r, p) \/ ReadIndexFails(r, p)
      PROVE  FreshInv'
  <2>1. served' = served
    BY <1>7 DEF SendReadIndex, ReadIndexFails
  <2> QED BY <1>1, <1>2, <1>3, <1>7, <2>1, SendReadIndexKeeps DEF FreshInv
<1>8. ASSUME NEW r \in reads, UNCHANGED vars, ReadRefused(r) \/ ReadConfirmed(r) PROVE FreshInv'
  <2>1. served' = served
    BY <1>8 DEF ReadRefused, ReadConfirmed
  <2>2. CASE ReadRefused(r)
    <3>1. reads' \subseteq reads
      BY <2>2 DEF ReadRefused, Step
    <3> QED BY <1>1, <1>2, <1>3, <1>8, <2>1, <3>1, ReadEnds DEF FreshInv
  <2>3. CASE ReadConfirmed(r)
    BY <1>1, <1>2, <1>3, <1>8, <2>1, <2>3, ReadConfirmedKeeps DEF FreshInv
  <2> QED BY <1>8, <2>2, <2>3
<1>9. ASSUME NEW r \in reads, Overtaken(r.node, r.maxTerm), reads' \subseteq reads,
             served' = served
      PROVE  FreshInv'
  <2>1. CommitInv' /\ AppliedInv' /\ LedStays /\ committed' = committed
    BY <1>1, <1>9, OvertakenCommits, OvertakenApplied, OvertakenLedStays
  <2> QED BY <1>1, <1>3, <1>9, <2>1, ReadEnds DEF FreshInv
<1>10. ASSUME NEW r \in reads, ServeRead(r) PROVE FreshInv'
  <2>1. PICK done : done = Apply(applied[r.node], log[r.node], commitIndex[r.node])
    OBVIOUS
  <2>2. r \in Read
    BY <1>1 DEF ReadsInv
  <2>3. SameCore /\ CommitInv' /\ AppliedInv'
    BY <1>1, <1>10, <2>1, <2>2, ServeApplies
  <2>4. reads' \subseteq reads
    BY <1>10 DEF ServeRead, Step
  <2>5. ReadsInv'
    BY <1>1, <2>3, <2>4, FrameLedStays, ReadEnds
  <2> QED BY <1>1, <1>10, <2>3, <2>5, ServedFresh DEF FreshInv
<1>11. CASE ReadsNext /\ ~CoreStep
  BY <1>1, <1>6, <1>7, <1>8, <1>9, <1>10, <1>11, ReadStepKinds
<1> QED BY <1>4, <1>5, <1>11

\* Linearizable reads: a GET whose leader had a majority confirm it, has
\* committed an entry of its own term and waited until the index was applied
\* (ReadIndex, OnReadIndex, WaitForApplied) sees every write committed before
\* the GET came in, whatever elections and step-downs went on around it: for
\* every cluster and any number of GETs, in the orderly executions with one
\* round at a time, no restart, and requests that carry the rest of the log.
THEOREM ConfirmedReadsFresh ==
  MaxLog <= MaxBatch /\ Mortal = {}
    => (ReadsSpec /\ [](Orderly /\ OneRound) => []ConfirmedReadsAreFresh)
<1> SUFFICES ASSUME MaxLog <= MaxBatch, Mortal = {}
             PROVE  ReadsSpec /\ [](Orderly /\ OneRound) => []ConfirmedReadsAreFresh
  OBVIOUS
<1>1. FreshInv /\ Orderly /\ OneRound /\ [ReadsNext]_allVars => FreshInv'
  BY FreshInvStep
<1>2. FreshInv => ConfirmedReadsAreFresh
  BY DEF FreshInv
<1> QED BY <1>1, <1>2, FreshInvInit, PTL DEF ReadsSpec

\* The same from the bounds alone: without heartbeats and late requests, one
\* coordinator at a time keeps every execution orderly, GETs included.
THEOREM OneWriterReadsFresh ==
  MaxLog <= MaxBatch /\ MaxTicks = 0 /\ MaxLate = 0 /\ MaxWriters <= 1 /\ Mortal = {}
    => (ReadsSpec => []ConfirmedReadsAreFresh)
<1> SUFFICES ASSUME MaxLog <= MaxBatch, MaxTicks = 0, MaxLate = 0, MaxWriters <= 1, Mortal = {}
             PROVE  ReadsSpec => []ConfirmedReadsAreFresh
  OBVIOUS
<1>1. ReadsInit => OneWriter
  BY DEF ReadsInit, Init, OneWriter
<1>2. ASSUME FreshInv, OneWriter, [ReadsNext]_allVars PROVE FreshInv' /\ OneWriter'
  <2>1. Orderly /\ OneRound
    BY <1>2 DEF OneWriter, Orderly, OneRound, Sending
  <2>2. FreshInv' /\ TypeOK /\ LogInv /\ ReadsInv
    BY <1>2, <2>1, FreshInvStep DEF FreshInv, CommitInv, LogInv, ElectionInv
  <2>3. CASE [Next]_vars
    BY <1>2, <2>2, <2>3, OneWriterStep
  <2>4. ASSUME UNCHANGED <<ticks, calls, late>> PROVE OneWriter'
    BY <1>2, <2>4 DEF OneWriter
  <2>5. ASSUME NEW r \in reads, Overtaken(r.node, r.maxTerm) PROVE UNCHANGED <<ticks, calls, late>>
    BY <2>2, <2>5, OvertakenFacts
  <2>6. ASSUME NEW r \in reads, ServeRead(r) PROVE UNCHANGED <<ticks, calls, late>>
    BY <2>6 DEF ServeRead, callVars
  <2>7. CASE ReadsNext /\ ~CoreStep
    BY <2>2, <2>3, <2>4, <2>5, <2>6, <2>7, ReadStepKinds
  <2>8. CASE CoreStep \/ UNCHANGED allVars
    BY <2>2, <2>3, <2>8 DEF CoreStep, allVars
  <2> QED BY <1>2, <2>7, <2>8
<1>3. FreshInv /\ OneWriter /\ [ReadsNext]_allVars => FreshInv' /\ OneWriter'
  BY <1>2
<1>4. FreshInv => ConfirmedReadsAreFresh
  BY DEF FreshInv
<1> QED BY <1>1, <1>3, <1>4, FreshInvInit, PTL DEF ReadsSpec

=============================================================================
