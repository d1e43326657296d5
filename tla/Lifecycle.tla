----------------------------- MODULE Lifecycle -----------------------------
(***************************************************************************)
(* The background activity of one RaftNode and how it is stopped: the      *)
(* election timer's fiber (server/raft/election_timer.cc), the heartbeat   *)
(* fibers of its leaderships, the RPC handlers running inside the node     *)
(* under its reference count, and Shutdown (server/raft/raft_node.cc).     *)
(*                                                                         *)
(* RaftNode models what these fibers decide; this module models when they  *)
(* run.  Terms, votes and logs are left out: an election is won or lost, a *)
(* request makes the node follow or not.  The fibers live on different     *)
(* threads, so every atomic load and store that is not under mutex_ is a   *)
(* step of its own.  A locked section is one step, except that the timer   *)
(* may be joined inside one: mutex then names the fiber that holds it.     *)
(*                                                                         *)
(* Epochs are compared for equality only, so of the timer's epoch_ the     *)
(* model keeps whether it moved since the timer's fiber read it.  Reset,   *)
(* Stop and Deactivate store two or three flags; every order in which the  *)
(* fiber can read these stores ends like one in which they are one step.   *)
(*                                                                         *)
(* A definition marked FAULT is a wrong variant of the one after it.       *)
(***************************************************************************)
EXTENDS Naturals, FiniteSets

CONSTANTS
  Handler,     \* fibers that serve requests of peers
  MaxLeads     \* bound: leaderships, each with a heartbeat fiber

ASSUME HandlerAssumption == IsFiniteSet(Handler)
ASSUME LeadsAssumption == MaxLeads \in Nat

VARIABLES
  role, campaign,   \* role_, and the fiber whose election made it Candidate
  mutex,            \* mutex_: <<>>, or the fiber that joins the timer in it
  timer,            \* active_ and shutdown_ of election_timer_; moved
  timerAt,          \* where the timer's fiber is
  beat, beatStop, beatEpoch,   \* heartbeat fibers, heartbeat_stop_ and
                               \* heartbeat_epoch_
  handlerAt,        \* where each handler is, and the count it last saw
  refs, alive,      \* rpc_refs_ and rpc_alive_
  shutdown,         \* shutdown_
  stopperAt         \* where the Shutdown call is

roleVars  == <<role, campaign, mutex>>
timerVars == <<timer, timerAt>>
beatVars  == <<beat, beatStop, beatEpoch>>
rpcVars   == <<handlerAt, refs, alive>>
stopVars  == <<shutdown, stopperAt>>
vars      == <<roleVars, timerVars, beatVars, rpcVars, stopVars>>

None   == "none"
Timer  == "timer"
Free   == mutex = <<>>
Leads  == 1..MaxLeads

(***************************************************************************)
(* ElectionTimer.                                                          *)
(***************************************************************************)

\* epoch_ is incremented; it matters while the fiber remembers an older one.
Moved      == timerAt \in {"test", "sleep"}
Reset      == [timer EXCEPT !.active = TRUE, !.moved = Moved]
Deactivate == [timer EXCEPT !.active = FALSE, !.moved = Moved]
Stop       == [timer EXCEPT !.active = FALSE, !.moved = Moved, !.stop = TRUE]

\* Run: the loop condition, then the load of the epoch.
TimerTop ==
  /\ timerAt = "top"
  /\ timerAt' = IF timer.stop THEN "ended" ELSE "test"
  /\ UNCHANGED <<roleVars, timer, beatVars, rpcVars, stopVars>>

\* Inactive: look again in 10 ms.  Active: sleep for the random timeout.
TimerTest ==
  /\ timerAt = "test"
  /\ \/ timer.active /\ timerAt' = "sleep" /\ UNCHANGED timer
     \/ ~timer.active /\ timerAt' = "top"
        /\ timer' = [timer EXCEPT !.moved = FALSE]
  /\ UNCHANGED <<roleVars, beatVars, rpcVars, stopVars>>

TimerWakes ==
  /\ timerAt = "sleep"
  /\ timerAt' = CASE timer.stop  -> "ended"
                  [] timer.moved -> "top"
                  [] OTHER       -> "expired"
  /\ timer' = [timer EXCEPT !.moved = FALSE]
  /\ UNCHANGED <<roleVars, beatVars, rpcVars, stopVars>>

\* The store that disarms the timer, then the callback: StartElection.  A
\* Reset may have come after the test above and is undone here.
TimerFires ==
  /\ timerAt = "expired"
  /\ timer' = [timer EXCEPT !.active = FALSE]
  /\ timerAt' = "elect"
  /\ UNCHANGED <<roleVars, beatVars, rpcVars, stopVars>>

(***************************************************************************)
(* Role changes, all under mutex_.                                         *)
(***************************************************************************)

\* FAULT: joining from the timer's own fiber is not special.
JoinsTimerAlways(who) == timerAt # "ended"

\* Stop joins the timer's fiber unless it runs on it.
JoinsTimer(who) == who # <<Timer>> /\ timerAt # "ended"

\* FAULT: a candidate that lost, or a leader that was deposed, does not
\* re-arm.
FollowUnarmed(who) ==
  /\ role' = "Follower" /\ campaign' = None
  /\ beatStop' = TRUE
  /\ timer' = IF shutdown THEN Stop ELSE Deactivate
  /\ mutex' = IF shutdown /\ JoinsTimer(who) THEN who ELSE <<>>
  /\ UNCHANGED beatEpoch

\* SetRoleLocked(Follower).  During a shutdown it stops the timer, and waits
\* for the timer's fiber with mutex_ held.
Follow(who) ==
  /\ role' = "Follower" /\ campaign' = None
  /\ beatStop' = TRUE
  /\ timer' = IF shutdown THEN Stop ELSE Reset
  /\ mutex' = IF shutdown /\ JoinsTimer(who) THEN who ELSE <<>>
  /\ UNCHANGED beatEpoch

\* SetRoleLocked(Candidate).
Campaign(who) ==
  /\ role' = "Candidate" /\ campaign' = who
  /\ timer' = Deactivate
  /\ beatStop' = TRUE
  /\ UNCHANGED <<mutex, beat, beatEpoch>>

\* SetRoleLocked(Leader) with StartHeartbeat: a new fiber, and the old one
\* detached.  The votes arrive through the proactor, which first runs the
\* fibers that are ready: the previous heartbeat fiber has begun by then.
Lead ==
  /\ beatEpoch < MaxLeads
  /\ \A f \in Leads : beat[f].at # "new"
  /\ role' = "Leader" /\ campaign' = None
  /\ timer' = Deactivate
  /\ beatStop' = shutdown
  /\ beatEpoch' = IF shutdown THEN beatEpoch ELSE beatEpoch + 1
  /\ beat' = IF shutdown THEN beat
             ELSE [beat EXCEPT ![beatEpoch + 1] = [at |-> "new", epoch |-> 0]]
  /\ UNCHANGED mutex

NoRoleChange == UNCHANGED <<roleVars, timer, beatVars>>

(***************************************************************************)
(* StartElection, on the timer's fiber or in the handler of TimeoutNow.    *)
(***************************************************************************)

\* Phase 1: the early returns.
MayCampaign == ~shutdown /\ role # "Leader"

\* Phase 3.  A higher term, a stale election, a win, a loss.
CountVotes(who) ==
  \/ Follow(<<who>>) /\ UNCHANGED beat
  \/ campaign # who /\ NoRoleChange
  \/ campaign = who /\ Lead
  \/ campaign = who /\ ~shutdown /\ Follow(<<who>>) /\ UNCHANGED beat
  \/ campaign = who /\ shutdown /\ NoRoleChange

TimerElects ==
  /\ timerAt = "elect" /\ Free
  /\ \/ MayCampaign /\ Campaign(Timer) /\ timerAt' = "votes"
     \/ ~MayCampaign /\ NoRoleChange /\ timerAt' = "top"
  /\ UNCHANGED <<rpcVars, stopVars>>

TimerCounts ==
  /\ timerAt = "votes" /\ Free
  /\ CountVotes(Timer)
  /\ timerAt' = "top"
  /\ UNCHANGED <<rpcVars, stopVars>>

(***************************************************************************)
(* HeartbeatLoop.                                                          *)
(***************************************************************************)

At(f, a) == beat[f].at = a
Go(f, a) == beat' = [beat EXCEPT ![f].at = a]

BeatBegins(f) ==
  /\ At(f, "new")
  /\ beat' = [beat EXCEPT ![f] = [at |-> "loop", epoch |-> beatEpoch]]
  /\ UNCHANGED <<roleVars, timerVars, beatStop, beatEpoch, rpcVars, stopVars>>

BeatLoops(f) ==
  /\ At(f, "loop")
  /\ Go(f, IF beatStop \/ shutdown THEN "ended" ELSE "tick")
  /\ UNCHANGED <<roleVars, timerVars, beatStop, beatEpoch, rpcVars, stopVars>>

\* FAULT: only the role is checked.
MayBeatByRole(f) == role = "Leader"

\* The checks at the start of both locked phases of HeartbeatTickImpl.
MayBeat(f) == beat[f].epoch = beatEpoch /\ role = "Leader"

BeatSends(f) ==
  /\ At(f, "tick") /\ Free
  /\ Go(f, IF MayBeat(f) THEN "sent" ELSE "ended")
  /\ UNCHANGED <<roleVars, timerVars, beatStop, beatEpoch, rpcVars, stopVars>>

\* The answers: deposed or without a quorum, or on to the next tick.
BeatCounts(f) ==
  /\ At(f, "sent") /\ Free
  /\ \/ ~MayBeat(f) /\ Go(f, "ended")
        /\ UNCHANGED <<roleVars, timer, beatStop, beatEpoch>>
     \/ MayBeat(f) /\ Go(f, "loop")
        /\ UNCHANGED <<roleVars, timer, beatStop, beatEpoch>>
     \/ /\ MayBeat(f) /\ Follow(<<"beat", f>>)
        /\ Go(f, IF mutex' = <<>> THEN "ended" ELSE "join")
  /\ UNCHANGED <<timerAt, rpcVars, stopVars>>

BeatJoined(f) ==
  /\ At(f, "join") /\ timerAt = "ended"
  /\ mutex' = <<>> /\ Go(f, "ended")
  /\ UNCHANGED <<role, campaign, timerVars, beatStop, beatEpoch, rpcVars,
                 stopVars>>

(***************************************************************************)
(* Handlers under TryAcquireRpcRef and ReleaseRpcRef.                      *)
(***************************************************************************)

In(h, a) == handlerAt[h].at = a
To(h, a) == handlerAt' = [handlerAt EXCEPT ![h] = [at |-> a, saw |-> 0]]
Saw(h, a, n) == handlerAt' = [handlerAt EXCEPT ![h] = [at |-> a, saw |-> n]]

\* The load of rpc_refs_.
Arrives(h) ==
  /\ In(h, "out")
  /\ Saw(h, "check", refs)
  /\ UNCHANGED <<roleVars, timerVars, beatVars, refs, alive, stopVars>>

\* The test before the compare-and-swap.
MayEnter(h) == alive /\ handlerAt[h].saw # 0

Checks(h) ==
  /\ In(h, "check")
  /\ \/ MayEnter(h) /\ Saw(h, "swap", handlerAt[h].saw)
     \/ ~MayEnter(h) /\ To(h, "out")
  /\ UNCHANGED <<roleVars, timerVars, beatVars, refs, alive, stopVars>>

\* FAULT: a plain increment.
Increments(h) ==
  /\ refs' = refs + 1
  /\ To(h, "in")

\* compare_exchange_weak: enters, or looks again at what it read.
Swap(h) ==
  \/ /\ refs = handlerAt[h].saw
     /\ refs' = refs + 1
     /\ To(h, "in")
  \/ /\ Saw(h, "check", refs)
     /\ UNCHANGED refs

Swaps(h) ==
  /\ In(h, "swap")
  /\ Swap(h)
  /\ UNCHANGED <<roleVars, timerVars, beatVars, alive, stopVars>>

\* A request that leaves the role alone, one that re-arms the timer of a
\* follower or a candidate, one that makes the node follow, and TimeoutNow,
\* which may do that too and whose election runs in the handler.
Handles(h) ==
  /\ In(h, "in") /\ Free
  /\ \/ NoRoleChange /\ To(h, "leaving")
     \/ /\ role # "Leader" /\ timer' = Reset /\ To(h, "leaving")
        /\ UNCHANGED <<roleVars, beatVars>>
     \/ /\ Follow(<<h>>) /\ UNCHANGED beat
        /\ \E a \in {"leaving", "elect"} :
             To(h, IF mutex' = <<>> THEN a ELSE "join")
     \/ /\ role # "Leader" /\ NoRoleChange /\ To(h, "elect")
  /\ UNCHANGED <<timerAt, refs, alive, stopVars>>

HandlerElects(h) ==
  /\ In(h, "elect") /\ Free
  /\ \/ MayCampaign /\ Campaign(h) /\ To(h, "votes")
     \/ ~MayCampaign /\ NoRoleChange /\ To(h, "leaving")
  /\ UNCHANGED <<timerAt, refs, alive, stopVars>>

HandlerCounts(h) ==
  /\ In(h, "votes") /\ Free
  /\ CountVotes(h)
  /\ To(h, IF mutex' = <<>> THEN "leaving" ELSE "join")
  /\ UNCHANGED <<timerAt, refs, alive, stopVars>>

HandlerJoined(h) ==
  /\ In(h, "join") /\ timerAt = "ended"
  /\ mutex' = <<>> /\ To(h, "leaving")
  /\ UNCHANGED <<role, campaign, timerVars, beatVars, refs, alive, stopVars>>

Leaves(h) ==
  /\ In(h, "leaving")
  /\ refs' = refs - 1 /\ To(h, "out")
  /\ UNCHANGED <<roleVars, timerVars, beatVars, alive, stopVars>>

(***************************************************************************)
(* Shutdown.                                                               *)
(***************************************************************************)

Stopper(from, to) == stopperAt = from /\ stopperAt' = to

SetShutdown ==
  /\ Stopper("running", "flagged") /\ Free
  /\ shutdown' = TRUE
  /\ UNCHANGED <<roleVars, timerVars, beatVars, rpcVars>>

\* rpc_alive_, and the transport forgets the node.
RefuseRpcs ==
  /\ Stopper("flagged", "refusing")
  /\ alive' = FALSE
  /\ UNCHANGED <<roleVars, timerVars, beatVars, handlerAt, refs, shutdown>>

StopHeartbeat ==
  /\ Stopper("refusing", "stopping")
  /\ beatStop' = TRUE
  /\ UNCHANGED <<roleVars, timerVars, beat, beatEpoch, rpcVars, shutdown>>

\* JoinHeartbeat waits for the last fiber started; older ones are detached.
\* Then election_timer_.Stop.
JoinHeartbeat ==
  /\ Stopper("stopping", "joining")
  /\ beatEpoch # 0 => At(beatEpoch, "ended")
  /\ timer' = Stop
  /\ UNCHANGED <<roleVars, timerAt, beatVars, rpcVars, shutdown>>

\* FAULT: both Shutdown calls, the explicit one and the destructor's, drop it.
DropsBaseRefTwice == refs' = refs - 2

\* WaitForRpcDrain: the base reference is dropped once.
DropBaseRef == refs' = refs - 1

JoinTimer ==
  /\ Stopper("joining", "draining") /\ timerAt = "ended"
  /\ DropBaseRef
  /\ UNCHANGED <<roleVars, timerVars, beatVars, handlerAt, alive, shutdown>>

\* The condition of the drain's loop.
NoRefsLeft == refs = 0

Drained ==
  /\ Stopper("draining", "down") /\ NoRefsLeft
  /\ UNCHANGED <<roleVars, timerVars, beatVars, rpcVars, shutdown>>

\* Five seconds have passed.
DrainGivesUp ==
  /\ Stopper("draining", "gaveUp") /\ ~NoRefsLeft
  /\ UNCHANGED <<roleVars, timerVars, beatVars, rpcVars, shutdown>>

-----------------------------------------------------------------------------
\* A node that joined a cluster as a follower.
Init ==
  /\ role = "Follower" /\ campaign = None /\ mutex = <<>>
  /\ timer = [active |-> TRUE, moved |-> FALSE, stop |-> FALSE]
  /\ timerAt = "top"
  /\ beat = [f \in Leads |-> [at |-> "none", epoch |-> 0]]
  /\ beatStop = TRUE /\ beatEpoch = 0
  /\ handlerAt = [h \in Handler |-> [at |-> "out", saw |-> 0]]
  /\ refs = 1 /\ alive = TRUE
  /\ shutdown = FALSE /\ stopperAt = "running"

TimerStep ==
  TimerTop \/ TimerTest \/ TimerWakes \/ TimerFires \/ TimerElects
  \/ TimerCounts

BeatStep(f) ==
  BeatBegins(f) \/ BeatLoops(f) \/ BeatSends(f) \/ BeatCounts(f)
  \/ BeatJoined(f)

\* What a handler does once it has arrived.
HandlerStep(h) ==
  \/ Checks(h) \/ Swaps(h) \/ Handles(h) \/ HandlerElects(h)
  \/ HandlerCounts(h) \/ HandlerJoined(h) \/ Leaves(h)

ShutdownStep ==
  \/ RefuseRpcs \/ StopHeartbeat \/ JoinHeartbeat \/ JoinTimer
  \/ Drained \/ DrainGivesUp

Next ==
  \/ TimerStep
  \/ \E f \in Leads : BeatStep(f)
  \/ \E h \in Handler : Arrives(h) \/ HandlerStep(h)
  \/ SetShutdown
  \/ ShutdownStep

Spec == Init /\ [][Next]_vars

\* Fibers that can run do run.  Nothing makes a peer call or the process
\* shut down.
FairSpec ==
  /\ Spec
  /\ WF_vars(TimerStep) /\ WF_vars(ShutdownStep)
  /\ \A f \in Leads : WF_vars(BeatStep(f))
  /\ \A h \in Handler : WF_vars(HandlerStep(h))

(***************************************************************************)
(* Properties.                                                             *)
(***************************************************************************)

\* Types.
TypeOK ==
  /\ role \in {"Follower", "Candidate", "Leader"}
  /\ campaign \in {None, Timer} \cup Handler
  /\ mutex \in {<<>>} \cup {<<h>> : h \in Handler} \cup ({"beat"} \X Leads)
  /\ timer \in [active : BOOLEAN, moved : BOOLEAN, stop : BOOLEAN]
  /\ timerAt \in {"top", "test", "sleep", "expired", "elect", "votes", "ended"}
  /\ beat \in [Leads -> [at : {"none", "new", "loop", "tick", "sent", "join",
                               "ended"},
                         epoch : 0..MaxLeads]]
  /\ beatStop \in BOOLEAN /\ beatEpoch \in 0..MaxLeads
  /\ handlerAt \in [Handler -> [at : {"out", "check", "swap", "in", "elect",
                                      "votes", "join", "leaving"},
                                saw : 0..(Cardinality(Handler) + 1)]]
  /\ refs \in 0..(Cardinality(Handler) + 1)
  /\ alive \in BOOLEAN /\ shutdown \in BOOLEAN
  /\ stopperAt \in {"running", "flagged", "refusing", "stopping", "joining",
                    "draining", "down", "gaveUp"}

\* Until the shutdown, a follower's timer is armed or about to start an
\* election, and a candidate's election is on its way: no node waits for a
\* leader with nobody to call an election.  It holds although TimerFires may
\* undo a Reset made on another thread.
SomethingWillCallAnElection ==
  ~shutdown =>
    /\ role = "Follower" =>
         timer.active \/ timerAt \in {"expired", "elect"}
    /\ role = "Candidate" =>
         \/ campaign = Timer /\ timerAt = "votes"
         \/ campaign \in Handler /\ In(campaign, "votes")

\* When the drain has seen the count at zero, no handler is inside the node,
\* and none gets in afterwards.
DrainedIsQuiet ==
  stopperAt = "down" =>
    \A h \in Handler : handlerAt[h].at \in {"out", "check", "swap"}

\* The timer's fiber is waited for by a fiber that holds the lock it needs.
Wedged == ~Free /\ timerAt \in {"elect", "votes"}

\* Every heartbeat fiber but the last one started ends, also when its
\* successor has cleared heartbeat_stop_ before it looked: no two loops beat
\* for one node for ever.
OldLoopsEnd ==
  \A f \in Leads : (f < beatEpoch) ~> (At(f, "ended") \/ Wedged)

\* A shutdown comes to its end, unless the node is wedged.
ShutdownEnds == (stopperAt # "running") ~>
                (stopperAt \in {"down", "gaveUp"} \/ Wedged)

\* What the comments of Shutdown promise: it comes to its end.
ShutdownReturns == (stopperAt # "running") ~> (stopperAt \in {"down", "gaveUp"})

\* What the comment in StartHeartbeat takes for granted: the detached fiber
\* has ended before the node is gone.
NoFiberOutlives ==
  stopperAt = "down" =>
    \A f \in Leads : beat[f].at \in {"none", "ended"}

=============================================================================
