-------------------------- MODULE LifecycleProofs --------------------------
(***************************************************************************)
(* Lifecycle for every number of handlers and of leaderships: a drained    *)
(* node has no handler inside, until the shutdown somebody will call an    *)
(* election, and every variable keeps its type.                            *)
(***************************************************************************)
EXTENDS Lifecycle, FiniteSetTheorems, TLAPS

(***************************************************************************)
(* The reference count.                                                    *)
(***************************************************************************)

OutsidePlaces == {"out", "check", "swap"}
InsidePlaces  == {"in", "elect", "votes", "join", "leaving"}

\* The handlers between TryAcquireRpcRef and ReleaseRpcRef.
Inside == {h \in Handler : handlerAt[h].at \in InsidePlaces}

BaseDropped == stopperAt \in {"draining", "down", "gaveUp"}

\* The base reference, until WaitForRpcDrain drops it.
Base == IF BaseDropped THEN 0 ELSE 1

HandlersTyped ==
  handlerAt \in [Handler -> [at : OutsidePlaces \cup InsidePlaces, saw : Nat]]

\* rpc_refs_ counts the base reference and the handlers inside.
RefsCounted == refs = Base + Cardinality(Inside)

\* A handler tries to swap only a count it saw above zero.
SwapsPositive == \A h \in Handler : In(h, "swap") => handlerAt[h].saw # 0

\* The drain saw the count at zero, and it stays there.
DownIsZero == stopperAt = "down" => refs = 0

DrainInv == HandlersTyped /\ RefsCounted /\ SwapsPositive /\ DownIsZero

\* What a step does to the count, the handlers and the shutdown.
Same == UNCHANGED <<handlerAt, refs, stopperAt>>

Moves(h, at, saw) ==
  /\ handlerAt' = [handlerAt EXCEPT ![h] = [at |-> at, saw |-> saw]]
  /\ UNCHANGED stopperAt

StaysIn(h) ==
  /\ handlerAt[h].at \in InsidePlaces
  /\ \E a \in InsidePlaces : Moves(h, a, 0)
  /\ UNCHANGED refs

StaysOut(h) ==
  /\ handlerAt[h].at \in OutsidePlaces
  /\ \E a \in OutsidePlaces, n \in Nat : Moves(h, a, n) /\ (a = "swap" => n # 0)
  /\ UNCHANGED refs

Enters(h) ==
  /\ In(h, "swap") /\ refs = handlerAt[h].saw
  /\ Moves(h, "in", 0)
  /\ refs' = refs + 1

Quits(h) ==
  /\ In(h, "leaving")
  /\ Moves(h, "out", 0)
  /\ refs' = refs - 1

StopperMoves ==
  /\ UNCHANGED handlerAt
  /\ \/ ~BaseDropped /\ ~BaseDropped' /\ UNCHANGED refs
     \/ ~BaseDropped /\ stopperAt' = "draining" /\ refs' = refs - 1
     \/ BaseDropped /\ BaseDropped' /\ UNCHANGED refs
        /\ (stopperAt' = "down" => refs = 0)

LEMMA HandlerKinds ==
  ASSUME DrainInv, NEW h \in Handler, Arrives(h) \/ HandlerStep(h)
  PROVE  StaysIn(h) \/ StaysOut(h) \/ Enters(h) \/ Quits(h)
<1> USE DEF In, To, Saw, Moves, OutsidePlaces, InsidePlaces
<1>1. /\ handlerAt[h].saw \in Nat
      /\ refs \in Nat
  <2>1. IsFiniteSet(Inside)
    BY HandlerAssumption, FS_Subset DEF Inside
  <2>2. Cardinality(Inside) \in Nat
    BY <2>1, FS_CardinalityType
  <2> QED BY <2>2 DEF DrainInv, HandlersTyped, RefsCounted, Base
<1>2. CASE Arrives(h)
  BY <1>1, <1>2 DEF Arrives, StaysOut, stopVars
<1>3. CASE Checks(h)
  BY <1>1, <1>3 DEF Checks, MayEnter, StaysOut, stopVars
<1>4. CASE Swaps(h)
  BY <1>1, <1>4 DEF Swaps, Swap, StaysOut, Enters, stopVars
<1>5. CASE Handles(h)
  BY <1>5 DEF Handles, StaysIn, stopVars
<1>6. CASE HandlerElects(h)
  BY <1>6 DEF HandlerElects, StaysIn, stopVars
<1>7. CASE HandlerCounts(h)
  BY <1>7 DEF HandlerCounts, StaysIn, stopVars
<1>8. CASE HandlerJoined(h)
  BY <1>8 DEF HandlerJoined, StaysIn, stopVars
<1>9. CASE Leaves(h)
  BY <1>9 DEF Leaves, Quits, stopVars
<1> QED BY <1>2, <1>3, <1>4, <1>5, <1>6, <1>7, <1>8, <1>9 DEF HandlerStep

LEMMA StepKinds ==
  ASSUME DrainInv, [Next]_vars
  PROVE  \/ Same \/ StopperMoves
         \/ \E h \in Handler : StaysIn(h) \/ StaysOut(h) \/ Enters(h) \/ Quits(h)
<1>1. CASE UNCHANGED vars
  BY <1>1 DEF vars, rpcVars, stopVars, Same
<1>2. CASE TimerStep
  BY <1>2 DEF TimerStep, TimerTop, TimerTest, TimerWakes, TimerFires,
              TimerElects, TimerCounts, rpcVars, stopVars, Same
<1>3. ASSUME NEW f \in Leads, BeatStep(f) PROVE Same
  BY <1>3 DEF BeatStep, BeatBegins, BeatLoops, BeatSends, BeatCounts,
              BeatJoined, rpcVars, stopVars, Same
<1>4. CASE \E h \in Handler : Arrives(h) \/ HandlerStep(h)
  BY <1>4, HandlerKinds
<1>5. CASE SetShutdown
  BY <1>5 DEF SetShutdown, Stopper, StopperMoves, BaseDropped, rpcVars
<1>6. CASE ShutdownStep
  BY <1>6 DEF ShutdownStep, RefuseRpcs, StopHeartbeat, JoinHeartbeat,
              JoinTimer, DropBaseRef, Drained, DrainGivesUp, NoRefsLeft,
              Stopper, StopperMoves, BaseDropped, rpcVars
<1> QED BY <1>1, <1>2, <1>3, <1>4, <1>5, <1>6 DEF Next

\* What a move of one handler does to the set of handlers inside.
LEMMA InsideAfterMove ==
  ASSUME HandlersTyped, NEW h \in Handler,
         NEW a \in OutsidePlaces \cup InsidePlaces, NEW n \in Nat, Moves(h, a, n)
  PROVE  /\ HandlersTyped'
         /\ BaseDropped' <=> BaseDropped
         /\ Inside' = IF a \in InsidePlaces THEN Inside \cup {h} ELSE Inside \ {h}
<1>1. handlerAt' = [handlerAt EXCEPT ![h] = [at |-> a, saw |-> n]]
  BY DEF Moves
<1>2. HandlersTyped'
  BY <1>1 DEF HandlersTyped
<1>3. BaseDropped' <=> BaseDropped
  BY DEF Moves, BaseDropped
<1>4. \A g \in Handler : handlerAt'[g].at = IF g = h THEN a ELSE handlerAt[g].at
  BY <1>1 DEF HandlersTyped
<1>5. Inside' = IF a \in InsidePlaces THEN Inside \cup {h} ELSE Inside \ {h}
  BY <1>4 DEF Inside
<1> QED BY <1>2, <1>3, <1>5

LEMMA DrainInvInit == Init => DrainInv
<1> SUFFICES ASSUME Init PROVE DrainInv
  OBVIOUS
<1>1. HandlersTyped /\ SwapsPositive /\ DownIsZero
  BY DEF Init, HandlersTyped, SwapsPositive, DownIsZero, In, OutsidePlaces
<1>2. Inside = {}
  BY DEF Init, Inside, InsidePlaces
<1>3. RefsCounted
  BY <1>2, FS_EmptySet DEF Init, RefsCounted, Base, BaseDropped
<1> QED BY <1>1, <1>3 DEF DrainInv

LEMMA DrainInvStep == DrainInv /\ [Next]_vars => DrainInv'
<1> SUFFICES ASSUME DrainInv, [Next]_vars PROVE DrainInv'
  OBVIOUS
<1>1. IsFiniteSet(Inside) /\ Cardinality(Inside) \in Nat
  BY HandlerAssumption, FS_Subset, FS_CardinalityType DEF Inside
<1>2. /\ HandlersTyped /\ SwapsPositive /\ DownIsZero
      /\ refs = Base + Cardinality(Inside)
  BY DEF DrainInv, RefsCounted
<1>3. CASE Same
  BY <1>2, <1>3 DEF Same, DrainInv, HandlersTyped, RefsCounted, SwapsPositive,
                    DownIsZero, Inside, Base, BaseDropped, In
<1>4. CASE StopperMoves
  <2>1. HandlersTyped' /\ SwapsPositive' /\ Inside' = Inside
    BY <1>2, <1>4 DEF StopperMoves, HandlersTyped, SwapsPositive, In, Inside
  <2>2. RefsCounted' /\ DownIsZero'
    BY <1>1, <1>2, <1>4, <2>1 DEF StopperMoves, RefsCounted, DownIsZero, Base,
                                  BaseDropped
  <2> QED BY <2>1, <2>2 DEF DrainInv
<1>5. ASSUME NEW h \in Handler, StaysIn(h) PROVE DrainInv'
  <2>1. PICK a \in InsidePlaces : Moves(h, a, 0)
    BY <1>5 DEF StaysIn
  <2>2. HandlersTyped' /\ (BaseDropped' <=> BaseDropped) /\ Inside' = Inside \cup {h}
    BY <1>2, <2>1, InsideAfterMove
  <2>3. h \in Inside /\ refs' = refs
    BY <1>5 DEF StaysIn, Inside
  <2>4. RefsCounted' /\ DownIsZero'
    BY <1>2, <2>1, <2>2, <2>3 DEF RefsCounted, DownIsZero, Base, Moves
  <2>5. SwapsPositive'
    BY <1>2, <2>1 DEF SwapsPositive, Moves, In, InsidePlaces, HandlersTyped
  <2> QED BY <2>2, <2>4, <2>5 DEF DrainInv
<1>6. ASSUME NEW h \in Handler, StaysOut(h) PROVE DrainInv'
  <2>1. PICK a \in OutsidePlaces, n \in Nat : Moves(h, a, n) /\ (a = "swap" => n # 0)
    BY <1>6 DEF StaysOut
  <2>2. a \notin InsidePlaces
    BY DEF OutsidePlaces, InsidePlaces
  <2>3. HandlersTyped' /\ (BaseDropped' <=> BaseDropped) /\ Inside' = Inside \ {h}
    BY <1>2, <2>1, <2>2, InsideAfterMove
  <2>4. h \notin Inside /\ refs' = refs
    BY <1>6 DEF StaysOut, Inside, OutsidePlaces, InsidePlaces
  <2>5. RefsCounted' /\ DownIsZero'
    BY <1>2, <2>1, <2>3, <2>4 DEF RefsCounted, DownIsZero, Base, Moves
  <2>6. SwapsPositive'
    BY <1>2, <2>1 DEF SwapsPositive, Moves, In, HandlersTyped
  <2> QED BY <2>3, <2>5, <2>6 DEF DrainInv
<1>7. ASSUME NEW h \in Handler, Enters(h) PROVE DrainInv'
  <2>1. Moves(h, "in", 0) /\ refs' = refs + 1
    BY <1>7 DEF Enters
  <2>2. "in" \in InsidePlaces
    BY DEF InsidePlaces
  <2>3. HandlersTyped' /\ (BaseDropped' <=> BaseDropped) /\ Inside' = Inside \cup {h}
    BY <1>2, <2>1, <2>2, InsideAfterMove
  <2>4. h \notin Inside
    BY <1>7 DEF Enters, In, Inside, InsidePlaces
  <2>5. Cardinality(Inside') = Cardinality(Inside) + 1
    BY <1>1, <2>3, <2>4, FS_AddElement
  <2>6. RefsCounted'
    BY <1>1, <1>2, <2>1, <2>3, <2>5 DEF RefsCounted, Base
  <2>7. refs # 0
    BY <1>2, <1>7 DEF Enters, SwapsPositive
  <2>8. DownIsZero'
    BY <1>2, <2>1, <2>7 DEF DownIsZero, Moves
  <2>9. SwapsPositive'
    BY <1>2, <2>1 DEF SwapsPositive, Moves, In, HandlersTyped
  <2> QED BY <2>3, <2>6, <2>8, <2>9 DEF DrainInv
<1>8. ASSUME NEW h \in Handler, Quits(h) PROVE DrainInv'
  <2>1. Moves(h, "out", 0) /\ refs' = refs - 1
    BY <1>8 DEF Quits
  <2>2. "out" \in OutsidePlaces /\ "out" \notin InsidePlaces
    BY DEF InsidePlaces, OutsidePlaces
  <2>3. HandlersTyped' /\ (BaseDropped' <=> BaseDropped) /\ Inside' = Inside \ {h}
    BY <1>2, <2>1, <2>2, InsideAfterMove
  <2>4. h \in Inside
    BY <1>8 DEF Quits, In, Inside, InsidePlaces
  <2>5. Cardinality(Inside') = Cardinality(Inside) - 1
    BY <1>1, <2>3, <2>4, FS_RemoveElement
  <2>6. Cardinality(Inside) # 0
    BY <1>1, <2>4, FS_EmptySet
  <2>7. RefsCounted'
    BY <1>1, <1>2, <2>1, <2>3, <2>5 DEF RefsCounted, Base
  <2>8. DownIsZero'
    BY <1>1, <1>2, <2>1, <2>6 DEF DownIsZero, Moves, Base
  <2>9. SwapsPositive'
    BY <1>2, <2>1 DEF SwapsPositive, Moves, In, HandlersTyped
  <2> QED BY <2>3, <2>7, <2>8, <2>9 DEF DrainInv
<1> QED BY <1>3, <1>4, <1>5, <1>6, <1>7, <1>8, StepKinds

\* A node whose drain has seen the count at zero has no handler inside and lets
\* none in (TryAcquireRpcRef, WaitForRpcDrain): the count cannot be raised from
\* zero, because the swap fails unless the count is what was seen.
THEOREM DrainedNodeIsQuiet == Spec => []DrainedIsQuiet
<1>1. DrainInv => DrainedIsQuiet
  <2> SUFFICES ASSUME DrainInv, stopperAt = "down", NEW h \in Handler
               PROVE  handlerAt[h].at \in {"out", "check", "swap"}
    BY DEF DrainedIsQuiet
  <2>1. IsFiniteSet(Inside) /\ Cardinality(Inside) \in Nat
    BY HandlerAssumption, FS_Subset, FS_CardinalityType DEF Inside
  <2>2. Cardinality(Inside) = 0
    BY <2>1 DEF DrainInv, RefsCounted, DownIsZero, Base, BaseDropped
  <2>3. Inside = {}
    BY <2>1, <2>2, FS_EmptySet
  <2> QED BY <2>3 DEF DrainInv, HandlersTyped, Inside, InsidePlaces, OutsidePlaces
<1>2. Spec => []DrainInv
  BY DrainInvInit, DrainInvStep, PTL DEF Spec
<1> QED BY <1>1, <1>2, PTL

(***************************************************************************)
(* The election timer.                                                     *)
(***************************************************************************)

TimerType == [active : BOOLEAN, moved : BOOLEAN, stop : BOOLEAN]

TimerTyped == timer \in TimerType

\* Only a Shutdown call that has set shutdown_ gets as far as stopping the timer.
StopperFlagged == shutdown \in BOOLEAN /\ (stopperAt # "running" => shutdown)

CallInv ==
  TimerTyped /\ StopperFlagged /\ HandlersTyped /\ SomethingWillCallAnElection

LEMMA CallInvInit == Init => CallInv
<1> SUFFICES ASSUME Init PROVE CallInv
  OBVIOUS
<1>1. TimerTyped /\ timer.active
  BY Zenon DEF Init, TimerTyped, TimerType
<1>2. StopperFlagged /\ HandlersTyped
  BY DEF Init, StopperFlagged, HandlersTyped, OutsidePlaces
<1>3. SomethingWillCallAnElection
  BY <1>1 DEF Init, SomethingWillCallAnElection
<1> QED BY <1>1, <1>2, <1>3 DEF CallInv

\* What the operations of the timer make of its flags.
LEMMA TimerOps ==
  ASSUME TimerTyped
  PROVE  /\ Reset \in TimerType /\ Reset.active
         /\ Stop \in TimerType
         /\ Deactivate \in TimerType
         /\ [timer EXCEPT !.moved = FALSE] \in TimerType
         /\ [timer EXCEPT !.moved = FALSE].active <=> timer.active
         /\ [timer EXCEPT !.active = FALSE] \in TimerType
<1>1. Moved \in BOOLEAN
  BY DEF Moved
<1>2. \A b \in BOOLEAN :
        /\ [timer EXCEPT !.active = TRUE, !.moved = b] \in TimerType
        /\ [timer EXCEPT !.active = TRUE, !.moved = b].active
        /\ [timer EXCEPT !.active = FALSE, !.moved = b] \in TimerType
        /\ [timer EXCEPT !.active = FALSE, !.moved = b, !.stop = TRUE] \in TimerType
  BY Zenon DEF TimerTyped, TimerType
<1>3. /\ [timer EXCEPT !.moved = FALSE] \in TimerType
      /\ [timer EXCEPT !.moved = FALSE].active <=> timer.active
      /\ [timer EXCEPT !.active = FALSE] \in TimerType
  BY Zenon DEF TimerTyped, TimerType
<1> QED BY <1>1, <1>2, <1>3, Zenon DEF Reset, Stop, Deactivate

\* Every way to count votes makes the role Follower or Leader, unless the
\* election counted is not the one on its way.
LEMMA CountVotesKinds ==
  ASSUME TimerTyped, shutdown \in BOOLEAN, NEW who, CountVotes(who)
  PROVE  /\ TimerTyped'
         /\ ~shutdown =>
              \/ role' = "Follower" /\ timer'.active
              \/ role' = "Leader"
              \/ campaign # who /\ UNCHANGED <<role, campaign, timer>>
BY TimerOps DEF TimerTyped, CountVotes, Follow, Lead, NoRoleChange, roleVars

LEMMA TimerKeepsCall ==
  ASSUME CallInv, TimerStep PROVE CallInv'
<1> USE DEF CallInv, TimerTyped, StopperFlagged
<1>1. UNCHANGED <<handlerAt, shutdown, stopperAt>>
  BY DEF TimerStep, TimerTop, TimerTest, TimerWakes, TimerFires, TimerElects,
         TimerCounts, rpcVars, stopVars
<1>2. HandlersTyped' /\ StopperFlagged'
  BY <1>1 DEF HandlersTyped
<1>3. CASE TimerTop \/ TimerTest \/ TimerWakes \/ TimerFires
  BY <1>1, <1>2, <1>3, TimerOps DEF TimerTop, TimerTest, TimerWakes, TimerFires,
     roleVars, SomethingWillCallAnElection, In
<1>4. CASE TimerElects
  BY <1>1, <1>2, <1>4, TimerOps DEF TimerElects, MayCampaign, Campaign,
     NoRoleChange, roleVars, SomethingWillCallAnElection, In
<1>5. CASE TimerCounts
  <2>1. CountVotes(Timer) /\ timerAt = "votes"
    BY <1>5 DEF TimerCounts
  <2>2. /\ TimerTyped'
        /\ ~shutdown =>
             \/ role' = "Follower" /\ timer'.active
             \/ role' = "Leader"
             \/ campaign # Timer /\ UNCHANGED <<role, campaign, timer>>
    BY <2>1, CountVotesKinds
  <2> QED BY <1>1, <1>2, <2>1, <2>2 DEF SomethingWillCallAnElection, In
<1> QED BY <1>3, <1>4, <1>5 DEF TimerStep

LEMMA BeatKeepsCall ==
  ASSUME CallInv, NEW f \in Leads, BeatStep(f) PROVE CallInv'
<1> USE DEF CallInv, TimerTyped, StopperFlagged
<1>1. UNCHANGED <<handlerAt, shutdown, stopperAt, timerAt>>
  BY DEF BeatStep, BeatBegins, BeatLoops, BeatSends, BeatCounts, BeatJoined,
         rpcVars, stopVars, timerVars
<1>2. HandlersTyped' /\ StopperFlagged'
  BY <1>1 DEF HandlersTyped
<1>3. CASE UNCHANGED <<role, campaign, timer>>
  BY <1>1, <1>2, <1>3 DEF SomethingWillCallAnElection, In
<1>4. CASE Follow(<<"beat", f>>)
  BY <1>1, <1>2, <1>4, TimerOps DEF Follow, SomethingWillCallAnElection
<1> QED BY <1>3, <1>4 DEF BeatStep, BeatBegins, BeatLoops, BeatSends, BeatCounts,
                         BeatJoined, roleVars, timerVars

LEMMA HandlerKeepsCall ==
  ASSUME CallInv, NEW h \in Handler, Arrives(h) \/ HandlerStep(h),
         HandlersTyped'
  PROVE  CallInv'
<1> USE DEF CallInv, TimerTyped, StopperFlagged
<1>1. UNCHANGED <<shutdown, stopperAt, timerAt>>
  BY DEF Arrives, HandlerStep, Checks, Swaps, Handles, HandlerElects,
         HandlerCounts, HandlerJoined, Leaves, stopVars, timerVars
<1>2. StopperFlagged'
  BY <1>1
<1>3. \A g \in Handler : g # h => handlerAt'[g] = handlerAt[g]
  BY DEF HandlersTyped, Arrives, HandlerStep, Checks, Swaps, Swap, Handles,
         HandlerElects, HandlerCounts, HandlerJoined, Leaves, To, Saw
\* A handler that does not end an election leaves the one on its way alone.
<1>4. CASE ~In(h, "votes") /\ UNCHANGED <<role, campaign>>
           /\ TimerTyped' /\ (timer.active => timer'.active)
  BY <1>1, <1>2, <1>3, <1>4 DEF SomethingWillCallAnElection, In
<1>5. CASE Arrives(h) \/ Checks(h) \/ Swaps(h) \/ HandlerJoined(h) \/ Leaves(h)
  BY <1>4, <1>5 DEF Arrives, Checks, Swaps, HandlerJoined, Leaves, In, roleVars,
                    timerVars
<1>6. CASE Handles(h)
  <2>1. CASE Follow(<<h>>)
    BY <1>1, <1>2, <2>1, TimerOps DEF Follow, SomethingWillCallAnElection
  <2>2. CASE ~Follow(<<h>>)
    BY <1>4, <1>6, <2>2, TimerOps DEF Handles, NoRoleChange, In, roleVars
  <2> QED BY <2>1, <2>2
<1>7. CASE HandlerElects(h)
  <2>1. CASE ~MayCampaign
    BY <1>4, <1>7, <2>1 DEF HandlerElects, NoRoleChange, In, roleVars
  <2>2. CASE MayCampaign
    <3>1. Campaign(h) /\ To(h, "votes")
      BY <1>7, <2>2 DEF HandlerElects
    <3>2. handlerAt'[h].at = "votes"
      BY <3>1 DEF To, HandlersTyped
    <3>3. TimerTyped' /\ role' = "Candidate" /\ campaign' = h
      BY <3>1, TimerOps DEF Campaign
    <3> QED BY <1>2, <3>2, <3>3 DEF SomethingWillCallAnElection, In
  <2> QED BY <2>1, <2>2
<1>8. CASE HandlerCounts(h)
  <2>1. /\ TimerTyped'
        /\ ~shutdown =>
             \/ role' = "Follower" /\ timer'.active
             \/ role' = "Leader"
             \/ campaign # h /\ UNCHANGED <<role, campaign, timer>>
    BY <1>8, CountVotesKinds DEF HandlerCounts
  <2> QED BY <1>1, <1>2, <1>3, <2>1 DEF SomethingWillCallAnElection, In
<1> QED BY <1>5, <1>6, <1>7, <1>8 DEF HandlerStep

LEMMA ShutdownKeepsCall ==
  ASSUME CallInv, SetShutdown \/ ShutdownStep PROVE CallInv'
<1> USE DEF CallInv, TimerTyped, StopperFlagged
<1>1. UNCHANGED <<handlerAt, timerAt, role, campaign>>
  BY DEF SetShutdown, ShutdownStep, RefuseRpcs, StopHeartbeat, JoinHeartbeat,
         JoinTimer, Drained, DrainGivesUp, rpcVars, roleVars, timerVars
<1>2. shutdown' = TRUE
  BY DEF SetShutdown, ShutdownStep, RefuseRpcs, StopHeartbeat, JoinHeartbeat,
         JoinTimer, Drained, DrainGivesUp, Stopper
<1>3. TimerTyped'
  BY TimerOps DEF SetShutdown, ShutdownStep, RefuseRpcs, StopHeartbeat,
         JoinHeartbeat, JoinTimer, Drained, DrainGivesUp, timerVars
<1>4. HandlersTyped'
  BY <1>1 DEF HandlersTyped
<1> QED BY <1>2, <1>3, <1>4 DEF SomethingWillCallAnElection

\* Until the shutdown somebody will call an election: a follower's timer is
\* armed or about to start one, and a candidate's election is on its way
\* (ElectionTimer::Run, SetRoleLocked, StartElection), whatever the order in
\* which the timer, the heartbeat loops and the handlers change the role.
THEOREM SomebodyWillCallAnElection == Spec => []SomethingWillCallAnElection
<1>1. DrainInv /\ CallInv /\ [Next]_vars => CallInv'
  <2> SUFFICES ASSUME DrainInv, CallInv, [Next]_vars PROVE CallInv'
    OBVIOUS
  <2>1. CASE UNCHANGED vars
    BY <2>1 DEF vars, roleVars, timerVars, rpcVars, stopVars, CallInv, TimerTyped,
       StopperFlagged, HandlersTyped, SomethingWillCallAnElection, In
  <2>2. CASE TimerStep
    BY <2>2, TimerKeepsCall
  <2>3. CASE \E f \in Leads : BeatStep(f)
    BY <2>3, BeatKeepsCall
  <2>4. CASE \E h \in Handler : Arrives(h) \/ HandlerStep(h)
    <3>1. HandlersTyped'
      BY DrainInvStep DEF DrainInv
    <3> QED BY <2>4, <3>1, HandlerKeepsCall
  <2>5. CASE SetShutdown \/ ShutdownStep
    BY <2>5, ShutdownKeepsCall
  <2> QED BY <2>1, <2>2, <2>3, <2>4, <2>5 DEF Next
<1>2. Spec => []DrainInv
  BY DrainInvInit, DrainInvStep, PTL DEF Spec
<1>3. Spec => []CallInv
  BY CallInvInit, <1>1, <1>2, PTL DEF Spec
<1>4. CallInv => SomethingWillCallAnElection
  BY DEF CallInv
<1> QED BY <1>3, <1>4, PTL

(***************************************************************************)
(* Types.  The count, and what a handler saw of it, need the reference     *)
(* count's invariant; the rest is closed under every action.               *)
(***************************************************************************)
RoleTyped ==
  /\ role \in {"Follower", "Candidate", "Leader"}
  /\ campaign \in {None, Timer} \cup Handler
  /\ mutex \in {<<>>} \cup {<<h>> : h \in Handler} \cup ({"beat"} \X Leads)

TimerAtTyped ==
  timerAt \in {"top", "test", "sleep", "expired", "elect", "votes", "ended"}

BeatPlaces == {"none", "new", "loop", "tick", "sent", "join", "ended"}

BeatTyped ==
  /\ beat \in [Leads -> [at : BeatPlaces, epoch : 0..MaxLeads]]
  /\ beatStop \in BOOLEAN /\ beatEpoch \in 0..MaxLeads

FlagsTyped ==
  /\ alive \in BOOLEAN /\ shutdown \in BOOLEAN
  /\ stopperAt \in {"running", "flagged", "refusing", "stopping", "joining",
                    "draining", "down", "gaveUp"}

\* No handler saw a count above the handlers and the base reference.
SawBounded == \A h \in Handler : handlerAt[h].saw <= Cardinality(Handler) + 1

LifecycleTypes ==
  RoleTyped /\ TimerTyped /\ TimerAtTyped /\ BeatTyped /\ FlagsTyped /\ SawBounded

LEMMA RefsBounded ==
  ASSUME DrainInv
  PROVE  refs \in 0..(Cardinality(Handler) + 1) /\ Cardinality(Handler) \in Nat
<1>1. /\ IsFiniteSet(Inside) /\ Cardinality(Inside) \in Nat
      /\ Cardinality(Handler) \in Nat /\ Cardinality(Inside) <= Cardinality(Handler)
  BY HandlerAssumption, FS_Subset, FS_CardinalityType DEF Inside
<1> QED BY <1>1 DEF DrainInv, RefsCounted, Base

LEMMA SawStaysBounded ==
  ASSUME DrainInv, SawBounded, [Next]_vars
  PROVE  SawBounded'
<1>1. refs <= Cardinality(Handler) + 1 /\ Cardinality(Handler) \in Nat /\ HandlersTyped
  BY RefsBounded DEF DrainInv
<1>2. ASSUME NEW h \in Handler, Arrives(h) \/ HandlerStep(h)
      PROVE  \E a \in OutsidePlaces \cup InsidePlaces, n \in {0, refs, handlerAt[h].saw} :
               handlerAt' = [handlerAt EXCEPT ![h] = [at |-> a, saw |-> n]]
  BY <1>2 DEF HandlerStep, Arrives, Checks, Swaps, Swap, Handles, HandlerElects, HandlerCounts,
              HandlerJoined, Leaves, To, Saw, OutsidePlaces, InsidePlaces
<1>3. ASSUME NEW h \in Handler, Arrives(h) \/ HandlerStep(h) PROVE SawBounded'
  <2>1. PICK a \in OutsidePlaces \cup InsidePlaces, n \in {0, refs, handlerAt[h].saw} :
          handlerAt' = [handlerAt EXCEPT ![h] = [at |-> a, saw |-> n]]
    BY <1>2, <1>3
  <2>2. n <= Cardinality(Handler) + 1
    BY <1>1 DEF SawBounded
  <2>3. \A g \in Handler : handlerAt'[g].saw = IF g = h THEN n ELSE handlerAt[g].saw
    BY <1>1, <2>1 DEF HandlersTyped
  <2> QED BY <2>2, <2>3 DEF SawBounded
<1>4. CASE UNCHANGED handlerAt
  BY <1>4 DEF SawBounded
<1>5. CASE UNCHANGED vars
  BY <1>4, <1>5 DEF vars, rpcVars
<1>6. CASE TimerStep
  BY <1>4, <1>6 DEF TimerStep, TimerTop, TimerTest, TimerWakes, TimerFires, TimerElects,
                    TimerCounts, rpcVars
<1>7. ASSUME NEW f \in Leads, BeatStep(f) PROVE SawBounded'
  BY <1>4, <1>7 DEF BeatStep, BeatBegins, BeatLoops, BeatSends, BeatCounts, BeatJoined, rpcVars
<1>8. CASE SetShutdown \/ ShutdownStep
  BY <1>4, <1>8 DEF SetShutdown, ShutdownStep, RefuseRpcs, StopHeartbeat, JoinHeartbeat, JoinTimer,
                    Drained, DrainGivesUp, rpcVars
<1> QED BY <1>3, <1>5, <1>6, <1>7, <1>8 DEF Next

\* The role changes keep the role, the timer and the heartbeat fibers typed.
LEMMA FollowTyped ==
  ASSUME RoleTyped, TimerTyped, BeatTyped, shutdown \in BOOLEAN, NEW who,
         who \in {<<h>> : h \in Handler} \cup ({"beat"} \X Leads) \/ who = <<Timer>>,
         Follow(who)
  PROVE  /\ RoleTyped' /\ TimerTyped'
         /\ beatStop' \in BOOLEAN /\ beatEpoch' \in 0..MaxLeads
<1>1. RoleTyped'
  BY DEF RoleTyped, Follow, JoinsTimer
<1>2. TimerTyped'
  BY TimerOps DEF TimerTyped, Follow
<1> QED BY <1>1, <1>2 DEF Follow, BeatTyped

LEMMA CampaignTyped ==
  ASSUME RoleTyped, TimerTyped, BeatTyped, NEW who \in {Timer} \cup Handler, Campaign(who)
  PROVE  RoleTyped' /\ TimerTyped' /\ BeatTyped'
<1>1. TimerTyped'
  BY TimerOps DEF TimerTyped, Campaign
<1> QED BY <1>1 DEF RoleTyped, BeatTyped, Campaign

LEMMA LeadTyped ==
  ASSUME RoleTyped, TimerTyped, BeatTyped, shutdown \in BOOLEAN, Lead
  PROVE  RoleTyped' /\ TimerTyped' /\ BeatTyped'
<1>1. TimerTyped'
  BY TimerOps DEF TimerTyped, Lead
<1>2. RoleTyped' /\ beatStop' \in BOOLEAN
  BY DEF RoleTyped, Lead
<1>3. beatEpoch' \in 0..MaxLeads
  BY LeadsAssumption DEF BeatTyped, Lead
<1>4. [at |-> "new", epoch |-> 0] \in [at : BeatPlaces, epoch : 0..MaxLeads]
  BY LeadsAssumption DEF BeatPlaces
<1>5. beat' \in [Leads -> [at : BeatPlaces, epoch : 0..MaxLeads]]
  BY <1>4 DEF BeatTyped, Lead
<1> QED BY <1>1, <1>2, <1>3, <1>5 DEF BeatTyped

LEMMA CountTyped ==
  ASSUME RoleTyped, TimerTyped, BeatTyped, shutdown \in BOOLEAN,
         NEW who \in {Timer} \cup Handler, CountVotes(who)
  PROVE  RoleTyped' /\ TimerTyped' /\ BeatTyped'
<1>1. CASE Follow(<<who>>) /\ UNCHANGED beat
  <2>1. <<who>> \in {<<h>> : h \in Handler} \/ <<who>> = <<Timer>>
    OBVIOUS
  <2>2. /\ RoleTyped' /\ TimerTyped'
        /\ beatStop' \in BOOLEAN /\ beatEpoch' \in 0..MaxLeads
    BY <1>1, <2>1, FollowTyped
  <2> QED BY <1>1, <2>2 DEF BeatTyped
<1>2. CASE Lead
  BY <1>2, LeadTyped
<1>3. CASE NoRoleChange
  BY <1>3 DEF NoRoleChange, RoleTyped, TimerTyped, BeatTyped, roleVars, beatVars
<1> QED BY <1>1, <1>2, <1>3 DEF CountVotes

LEMMA TimerStepTyped ==
  ASSUME LifecycleTypes, TimerStep
  PROVE  RoleTyped' /\ TimerTyped' /\ TimerAtTyped' /\ BeatTyped' /\ FlagsTyped'
<1>0. RoleTyped /\ TimerTyped /\ TimerAtTyped /\ BeatTyped /\ FlagsTyped /\ shutdown \in BOOLEAN
  BY DEF LifecycleTypes, FlagsTyped
<1>1. FlagsTyped' /\ TimerAtTyped'
  BY <1>0 DEF FlagsTyped, TimerAtTyped, TimerStep, TimerTop, TimerTest, TimerWakes, TimerFires,
              TimerElects, TimerCounts, rpcVars, stopVars
<1>2. CASE TimerTop \/ TimerTest \/ TimerWakes \/ TimerFires
  <2>1. UNCHANGED <<role, campaign, mutex, beat, beatStop, beatEpoch>>
    BY <1>2 DEF TimerTop, TimerTest, TimerWakes, TimerFires, roleVars, beatVars
  <2>2. TimerTyped'
    BY <1>0, <1>2, TimerOps DEF TimerTyped, TimerTop, TimerTest, TimerWakes, TimerFires
  <2> QED BY <1>0, <1>1, <2>1, <2>2 DEF RoleTyped, BeatTyped
<1>3. CASE TimerElects
  <2>1. Campaign(Timer) \/ NoRoleChange
    BY <1>3 DEF TimerElects
  <2>2. CASE NoRoleChange
    BY <1>0, <1>1, <2>2 DEF NoRoleChange, RoleTyped, TimerTyped, BeatTyped, roleVars, beatVars
  <2> QED BY <1>0, <1>1, <2>1, <2>2, CampaignTyped
<1>4. CASE TimerCounts
  BY <1>0, <1>1, <1>4, CountTyped DEF TimerCounts
<1> QED BY <1>2, <1>3, <1>4 DEF TimerStep

LEMMA BeatStepTyped ==
  ASSUME LifecycleTypes, NEW f \in Leads, BeatStep(f)
  PROVE  RoleTyped' /\ TimerTyped' /\ TimerAtTyped' /\ BeatTyped' /\ FlagsTyped'
<1>0. RoleTyped /\ TimerTyped /\ TimerAtTyped /\ BeatTyped /\ FlagsTyped /\ shutdown \in BOOLEAN
  BY DEF LifecycleTypes, FlagsTyped
<1>1. FlagsTyped' /\ TimerAtTyped'
  BY <1>0 DEF FlagsTyped, TimerAtTyped, BeatStep, BeatBegins, BeatLoops, BeatSends, BeatCounts,
              BeatJoined, rpcVars, stopVars, timerVars
<1>2. beat' \in [Leads -> [at : BeatPlaces, epoch : 0..MaxLeads]]
  <2>1. CASE BeatBegins(f)
    BY <1>0, <2>1 DEF BeatBegins, BeatTyped, BeatPlaces
  <2>2. CASE \E a \in BeatPlaces : Go(f, a)
    BY <1>0, <2>2 DEF Go, BeatTyped
  <2> QED BY <2>1, <2>2 DEF BeatStep, BeatLoops, BeatSends, BeatCounts, BeatJoined, BeatPlaces
<1>3. CASE Follow(<<"beat", f>>)
  <2>1. <<"beat", f>> \in {"beat"} \X Leads
    OBVIOUS
  <2>2. /\ RoleTyped' /\ TimerTyped'
        /\ beatStop' \in BOOLEAN /\ beatEpoch' \in 0..MaxLeads
    BY <1>0, <1>3, <2>1, FollowTyped
  <2> QED BY <1>1, <1>2, <2>2 DEF BeatTyped
<1>4. CASE UNCHANGED <<role, campaign, timer, beatStop, beatEpoch>> /\ mutex' \in {mutex, <<>>}
  BY <1>0, <1>1, <1>2, <1>4 DEF RoleTyped, TimerTyped, BeatTyped
<1> QED BY <1>3, <1>4 DEF BeatStep, BeatBegins, BeatLoops, BeatSends, BeatCounts, BeatJoined,
                         roleVars, timerVars

LEMMA HandlerStepTyped ==
  ASSUME LifecycleTypes, NEW h \in Handler, Arrives(h) \/ HandlerStep(h)
  PROVE  RoleTyped' /\ TimerTyped' /\ TimerAtTyped' /\ BeatTyped' /\ FlagsTyped'
<1>0. RoleTyped /\ TimerTyped /\ TimerAtTyped /\ BeatTyped /\ FlagsTyped /\ shutdown \in BOOLEAN
  BY DEF LifecycleTypes, FlagsTyped
<1>1. FlagsTyped' /\ TimerAtTyped'
  BY <1>0 DEF FlagsTyped, TimerAtTyped, Arrives, HandlerStep, Checks, Swaps, Handles, HandlerElects,
              HandlerCounts, HandlerJoined, Leaves, stopVars, timerVars
<1>2. CASE UNCHANGED <<role, campaign, beat, beatStop, beatEpoch>> /\ mutex' \in {mutex, <<>>}
           /\ (timer' = timer \/ timer' = Reset)
  BY <1>0, <1>1, <1>2, TimerOps DEF RoleTyped, TimerTyped, BeatTyped
<1>3. CASE Follow(<<h>>) /\ UNCHANGED beat
  <2>1. <<h>> \in {<<g>> : g \in Handler}
    OBVIOUS
  <2>2. /\ RoleTyped' /\ TimerTyped'
        /\ beatStop' \in BOOLEAN /\ beatEpoch' \in 0..MaxLeads
    BY <1>0, <1>3, <2>1, FollowTyped
  <2> QED BY <1>0, <1>1, <1>3, <2>2 DEF BeatTyped
<1>4. CASE Arrives(h) \/ Checks(h) \/ Swaps(h) \/ HandlerJoined(h) \/ Leaves(h)
  BY <1>2, <1>4 DEF Arrives, Checks, Swaps, HandlerJoined, Leaves, roleVars, timerVars, beatVars
<1>5. CASE Handles(h)
  BY <1>2, <1>3, <1>5 DEF Handles, NoRoleChange, roleVars, beatVars
<1>6. CASE HandlerElects(h)
  <2>1. Campaign(h) \/ NoRoleChange
    BY <1>6 DEF HandlerElects
  <2>2. CASE NoRoleChange
    BY <1>2, <2>2 DEF NoRoleChange, roleVars, beatVars
  <2> QED BY <1>0, <1>1, <2>1, <2>2, CampaignTyped
<1>7. CASE HandlerCounts(h)
  BY <1>0, <1>1, <1>7, CountTyped DEF HandlerCounts
<1> QED BY <1>4, <1>5, <1>6, <1>7 DEF HandlerStep

LEMMA ShutdownStepTyped ==
  ASSUME LifecycleTypes, SetShutdown \/ ShutdownStep
  PROVE  RoleTyped' /\ TimerTyped' /\ TimerAtTyped' /\ BeatTyped' /\ FlagsTyped'
<1>0. RoleTyped /\ TimerTyped /\ TimerAtTyped /\ BeatTyped /\ FlagsTyped
  BY DEF LifecycleTypes
<1> USE DEF SetShutdown, ShutdownStep, RefuseRpcs, StopHeartbeat, JoinHeartbeat, JoinTimer, Drained,
            DrainGivesUp, Stopper, roleVars, timerVars, beatVars, rpcVars
<1>1. UNCHANGED <<role, campaign, mutex, timerAt, beat, beatEpoch>>
  OBVIOUS
<1>2. TimerTyped'
  BY <1>0, TimerOps DEF TimerTyped
<1>3. beatStop' \in BOOLEAN
  BY <1>0 DEF BeatTyped
<1>4. FlagsTyped'
  BY <1>0 DEF FlagsTyped
<1> QED BY <1>0, <1>1, <1>2, <1>3, <1>4 DEF RoleTyped, TimerAtTyped, BeatTyped

LEMMA LifecycleTypesInit == Init => LifecycleTypes
<1> SUFFICES ASSUME Init PROVE LifecycleTypes
  OBVIOUS
<1>1. TimerTyped
  BY CallInvInit DEF CallInv
<1>2. BeatTyped
  BY LeadsAssumption DEF Init, BeatTyped, BeatPlaces
<1>3. SawBounded
  BY DrainInvInit, RefsBounded DEF Init, SawBounded
<1> QED BY <1>1, <1>2, <1>3 DEF Init, LifecycleTypes, RoleTyped, TimerAtTyped, FlagsTyped

LEMMA LifecycleTypesStep == DrainInv /\ LifecycleTypes /\ [Next]_vars => LifecycleTypes'
<1> SUFFICES ASSUME DrainInv, LifecycleTypes, [Next]_vars PROVE LifecycleTypes'
  OBVIOUS
<1>1. SawBounded'
  BY SawStaysBounded DEF LifecycleTypes
<1>2. RoleTyped' /\ TimerTyped' /\ TimerAtTyped' /\ BeatTyped' /\ FlagsTyped'
  <2>1. CASE UNCHANGED vars
    BY <2>1 DEF vars, roleVars, timerVars, beatVars, rpcVars, stopVars, LifecycleTypes, RoleTyped,
                TimerTyped, TimerAtTyped, BeatTyped, FlagsTyped
  <2> QED BY <2>1, TimerStepTyped, BeatStepTyped, HandlerStepTyped, ShutdownStepTyped DEF Next
<1> QED BY <1>1, <1>2 DEF LifecycleTypes

\* The node's fibers keep their types; in particular rpc_refs_ never falls
\* below zero nor rises above the handlers and the base reference.
THEOREM LifecycleTypesKept == Spec => []TypeOK
<1>1. Spec => []DrainInv
  BY DrainInvInit, DrainInvStep, PTL DEF Spec
<1>2. Spec => []LifecycleTypes
  BY <1>1, LifecycleTypesInit, LifecycleTypesStep, PTL DEF Spec
<1>3. ASSUME DrainInv, LifecycleTypes PROVE TypeOK
  <2>1. refs \in 0..(Cardinality(Handler) + 1) /\ Cardinality(Handler) \in Nat
    BY <1>3, RefsBounded
  <2>2. handlerAt \in [Handler -> [at : {"out", "check", "swap", "in", "elect",
                                         "votes", "join", "leaving"},
                                   saw : 0..(Cardinality(Handler) + 1)]]
    <3>1. HandlersTyped /\ SawBounded
      BY <1>3 DEF DrainInv, LifecycleTypes
    <3>2. \A h \in Handler : handlerAt[h].saw \in 0..(Cardinality(Handler) + 1)
      BY <2>1, <3>1 DEF HandlersTyped, SawBounded
    <3> QED BY <3>1, <3>2 DEF HandlersTyped, OutsidePlaces, InsidePlaces
  <2> QED BY <1>3, <2>1, <2>2 DEF TypeOK, LifecycleTypes, RoleTyped, TimerTyped, TimerType,
                                 TimerAtTyped, BeatTyped, BeatPlaces, FlagsTyped
<1> QED BY <1>1, <1>2, <1>3, PTL

=============================================================================
