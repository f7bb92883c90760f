------------------------- MODULE DeferredFrontierProofs -------------------------
(***************************************************************************)
(* For any number of events and cycles and any lengths of the leases: the    *)
(* rows keep their types, and two Thoughts about one conversation overlap    *)
(* only when one of the calls has outlasted the claim it renewed.            *)
(***************************************************************************)
EXTENDS DeferredFrontier, TLAPS

\* The call of d that is not overdue runs under the claim it renewed, which has exactly
\* the rest of its lease left.
Holds(d) ==
  driver[d].stage = "calling" /\ ~Overdue(d) =>
    claim.holder = d /\ claim.left = ClaimLease - driver[d].age

\* The inductive invariant behind OneThinker.
CallsHold == \A d \in Drivers : Holds(d)

EventType ==
  [kind: {"owner", "completion"}, state: EventStates, cycle: Cycles \cup {NoCycle},
   attempts: 0..MaxAttempts]

ClaimType == [holder: Drivers \cup {Gone, Free}, cycle: Cycles \cup {NoCycle}, left: -1..ClaimLease]

FrontierType ==
  [id: Nat, state: FrontierStates, cycle: Cycles \cup {NoCycle},
   next: -1..LongestHint, left: -1..MaxWait, lease: -1..FrontierLease]

TurnType ==
  [stage: Stages, event: Events \cup {NoEvent}, frontier: Nat, cycle: Cycles \cup {NoCycle},
   covers: SUBSET Events, passes: 0..MaxPasses, since: 0..MaxWait + 1, age: 0..ClaimLease + 1,
   outcome: Outcomes, next: 0..LongestHint]

\* What a turn works on: every turn has a cycle, the consumer's an event that came too; a
\* row that was written names its cycle; an event that is pending has attempts left.
TurnKnows ==
  /\ \A d \in Drivers : driver[d].stage # "idle" => driver[d].cycle \in Cycles
  /\ driver[Consumer].stage # "idle" =>
       driver[Consumer].event \in Events /\ event[driver[Consumer].event].state # "absent"

RowsKnow ==
  /\ \A e \in Events : event[e].state # "absent" => event[e].cycle \in Cycles
  /\ \A e \in Events : event[e].state = "pending" => event[e].attempts < MaxAttempts
  /\ Active => frontier.cycle \in Cycles

TInv == TypeOK /\ TurnKnows /\ RowsKnow

\* The bounds are numbers, and the leases, waits and attempts are not 0.
LEMMA Sizes ==
  /\ LastEvent \in Nat /\ LastCycle \in Nat /\ LongestHint \in Nat /\ MaxCrashes \in Nat
  /\ FrontierLease \in Nat \ {0} /\ MaxWait \in Nat \ {0} /\ ClaimLease \in Nat \ {0}
  /\ MaxPasses \in Nat \ {0} /\ MaxAttempts \in Nat \ {0}
  <1>1. LastEvent \in Nat /\ LastCycle \in Nat /\ LongestHint \in Nat /\ MaxCrashes \in Nat
    BY FrontierAssumption
  <1>2. FrontierLease \in Nat \ {0} /\ MaxWait \in Nat \ {0} /\ ClaimLease \in Nat \ {0}
    BY FrontierAssumption
  <1>3. MaxPasses \in Nat \ {0} /\ MaxAttempts \in Nat \ {0}
    BY FrontierAssumption
  <1> QED
    BY <1>1, <1>2, <1>3

USE Sizes DEF NoEvent, NoCycle, Drivers, Consumer, Coordinator, Gone, Free

\* The initial rows are empty.
LEMMA InitTInv == Init => TInv
  BY DEF Init, TInv, TypeOK, TurnKnows, RowsKnow, Active, NoClaim, IdleTurn, EventStates, CycleStates,
         FrontierStates, Stages, Outcomes

\* A new event has its cycle and all its attempts.
LEMMA ArrivesTyped ==
  ASSUME TInv, NEW e \in Events, NEW k \in {"owner", "completion"}, NEW c \in Cycles,
         NEW s \in {"pending", "subsumed"}, Arrives(e, k, c, s)
  PROVE  /\ event' \in [Events -> EventType]
         /\ \A f \in Events : event'[f].state # "absent" => event'[f].cycle \in Cycles
         /\ \A f \in Events : event'[f].state = "pending" => event'[f].attempts < MaxAttempts
         /\ \A f \in Events : event[f].state # "absent" => event'[f].state # "absent"
  <1> DEFINE r == [kind |-> k, state |-> s, cycle |-> c, attempts |-> 0]
  <1>1. event \in [Events -> EventType]
    BY DEF TInv, TypeOK, EventType
  <1>2. r \in EventType
    BY DEF EventType, EventStates
  <1>3. event' = [event EXCEPT ![e] = r]
    BY DEF Arrives
  <1>4. r.state # "absent" /\ r.cycle \in Cycles /\ r.attempts < MaxAttempts
    OBVIOUS
  <1> QED
    BY <1>1, <1>2, <1>3, <1>4 DEF TInv, RowsKnow

\* A message that arrives disturbs no turn.
LEMMA ArrivalTInv ==
  ASSUME TInv, NEW e \in Events, NEW c \in Cycles,
         OwnerSubsumed(e) \/ OwnerComposes(e) \/ OwnerOpens(e, c) \/ CompletionArrives(e, c)
  PROVE  TInv'
  <1>1. PICK k \in {"owner", "completion"}, b \in Cycles, s \in {"pending", "subsumed"} : Arrives(e, k, b, s)
    BY DEF OwnerSubsumed, OwnerComposes, OwnerOpens, CompletionArrives, TInv, RowsKnow, Open, Admitted
  <1>2. /\ event' \in [Events -> EventType]
        /\ RowsKnow'
        /\ \A f \in Events : event[f].state # "absent" => event'[f].state # "absent"
    BY <1>1, ArrivesTyped DEF TInv, RowsKnow, Active, OwnerSubsumed, OwnerComposes, OwnerOpens, CompletionArrives
  <1>3. /\ cycle' \in [Cycles -> CycleStates]
        /\ wake' \in [Cycles -> {"none", "live", "terminal"}]
        /\ UNCHANGED <<answered, frontier, claim, driver, crashes>>
    <2>1. CASE OwnerSubsumed(e) \/ OwnerComposes(e)
      BY <2>1 DEF OwnerSubsumed, OwnerComposes, TInv, TypeOK
    <2>2. CASE OwnerOpens(e, c)
      BY <2>2 DEF OwnerOpens, TInv, TypeOK, CycleStates
    <2>3. CASE CompletionArrives(e, c)
      BY <2>3 DEF CompletionArrives, TInv, TypeOK, CycleStates
    <2> QED
      BY <2>1, <2>2, <2>3
  <1> QED
    BY <1>2, <1>3 DEF TInv, TypeOK, TurnKnows, EventType

\* A turn that opens has its cycle, whether it is refused, replays or goes on.
LEMMA OpensTyped ==
  ASSUME TInv, NEW d \in Drivers, NEW turn \in TurnType, turn.cycle \in Cycles, TurnOpens(d, turn)
  PROVE  /\ cycle' \in [Cycles -> CycleStates]
         /\ claim' \in ClaimType
         /\ driver' \in [Drivers -> TurnType]
         /\ driver'[d].cycle = turn.cycle /\ driver'[d].event = turn.event
         /\ \A b \in Drivers \ {d} : driver'[b] = driver[b]
  <1>1. cycle' \in [Cycles -> CycleStates]
    BY DEF TInv, TypeOK, TurnOpens, CycleStates
  <1>2. claim' \in ClaimType
    <2>1. claim \in ClaimType
      BY DEF TInv, TypeOK, ClaimType
    <2>2. Claimed(d, turn.cycle) \in ClaimType
      BY DEF ClaimType, Claimed
    <2>3. NoClaim \in ClaimType
      BY DEF ClaimType, NoClaim
    <2> QED
      BY <2>1, <2>2, <2>3 DEF TurnOpens
  <1>3. driver \in [Drivers -> TurnType]
    BY DEF TInv, TypeOK, TurnType
  <1>4. PICK s \in {"preparing", "settling"}, o \in {"refused", "published", "open"} :
          driver' = [driver EXCEPT ![d] = [turn EXCEPT !.stage = s, !.outcome = o]]
    <2> DEFINE s == IF MayClaim /\ turn.cycle \notin answered THEN "preparing" ELSE "settling"
               o == IF ~MayClaim THEN "refused" ELSE IF turn.cycle \in answered THEN "published" ELSE "open"
    <2>1. driver' = [driver EXCEPT ![d] = [turn EXCEPT !.stage = s, !.outcome = o]]
      BY DEF TurnOpens
    <2>2. s \in {"preparing", "settling"} /\ o \in {"refused", "published", "open"}
      OBVIOUS
    <2> QED
      BY <2>1, <2>2
  <1>5. [turn EXCEPT !.stage = s, !.outcome = o] \in TurnType
    BY DEF TurnType, Stages, Outcomes
  <1> QED
    BY <1>1, <1>2, <1>3, <1>4, <1>5 DEF TurnType

\* The turn of nobody.
LEMMA IdleTyped == IdleTurn \in TurnType
  BY DEF IdleTurn, TurnType, Stages, Outcomes

\* The consumer's turn opens on the cycle of the event it leased.
LEMMA ConsumerTakesTInv ==
  ASSUME TInv, NEW e \in Events, ConsumerTakes(e)
  PROVE  TInv'
  <1> DEFINE turn == [IdleTurn EXCEPT !.event = e, !.cycle = event[e].cycle,
                                      !.covers = LiveEvents(event[e].cycle) \ {e}]
  <1>1. /\ event[e].state = "pending" /\ event[e].cycle \in Cycles /\ event[e].attempts < MaxAttempts
        /\ event[e].attempts \in 0..MaxAttempts
    BY DEF ConsumerTakes, TInv, RowsKnow, TypeOK
  <1>2. turn \in TurnType /\ turn.cycle = event[e].cycle /\ turn.event = e
    BY <1>1, IdleTyped DEF TurnType, LiveEvents, IdleTurn
  <1>3. TurnOpens(Consumer, turn)
    BY DEF ConsumerTakes
  <1> HIDE DEF turn
  <1>4. /\ cycle' \in [Cycles -> CycleStates]
        /\ claim' \in ClaimType
        /\ driver' \in [Drivers -> TurnType]
        /\ TurnKnows'
    <2>1. event'[e].state # "absent"
      BY <1>1 DEF ConsumerTakes, TInv, TypeOK
    <2> QED
      BY <2>1, <1>1, <1>2, <1>3, OpensTyped DEF TInv, TurnKnows
  <1>5. event' \in [Events -> EventType]
    <2>1. event[e].attempts + 1 \in 0..MaxAttempts
      BY <1>1
    <2> QED
      BY <2>1 DEF ConsumerTakes, TInv, TypeOK, EventType, EventStates
  <1>6. RowsKnow'
    BY <1>1 DEF ConsumerTakes, TInv, TypeOK, RowsKnow, Active
  <1> QED
    BY <1>4, <1>5, <1>6 DEF ConsumerTakes, TInv, TypeOK, EventType, ClaimType, TurnType

\* The coordinator's turn opens on the cycle of the frontier it claimed, or throws.
LEMMA CoordinatorTakesTInv ==
  ASSUME TInv, CoordinatorTakes
  PROVE  TInv'
  <1> DEFINE turn == [IdleTurn EXCEPT !.frontier = frontier.id, !.cycle = frontier.cycle]
             thrown == [turn EXCEPT !.stage = "settling", !.outcome = "failed"]
  <1>1. frontier.cycle \in Cycles /\ frontier.id \in Nat
    BY DEF CoordinatorTakes, Due, TInv, RowsKnow, Active, TypeOK
  <1>2. turn \in TurnType /\ turn.cycle = frontier.cycle
    BY <1>1, IdleTyped DEF TurnType, IdleTurn
  <1>3. thrown \in TurnType /\ thrown.cycle = frontier.cycle
    BY <1>2 DEF TurnType, Stages, Outcomes
  <1>4. /\ cycle' \in [Cycles -> CycleStates]
        /\ claim' \in ClaimType
        /\ driver' \in [Drivers -> TurnType]
        /\ driver'[Coordinator].cycle \in Cycles /\ driver'[Consumer] = driver[Consumer]
    <2>1. CASE TurnOpens(Coordinator, turn)
      <3> HIDE DEF turn
      <3> QED
        BY <1>1, <1>2, <2>1, OpensTyped
    <2>2. CASE driver' = [driver EXCEPT ![Coordinator] = thrown] /\ UNCHANGED <<cycle, claim>>
      <3> HIDE DEF thrown
      <3> QED
        BY <1>1, <1>3, <2>2 DEF TInv, TypeOK, ClaimType, TurnType
    <2> QED
      BY <2>1, <2>2 DEF CoordinatorTakes
  <1>5. TurnKnows'
    BY <1>4 DEF CoordinatorTakes, TInv, TurnKnows
  <1>6. frontier' \in FrontierType /\ RowsKnow'
    <2>1. frontier \in FrontierType
      BY DEF TInv, TypeOK, FrontierType
    <2>2. frontier' \in FrontierType /\ frontier'.cycle = frontier.cycle
      <3>1. FrontierLease \in -1..FrontierLease /\ "running" \in FrontierStates
        BY DEF FrontierStates
      <3>2. frontier' = [frontier EXCEPT !.state = "running", !.lease = FrontierLease]
        BY DEF CoordinatorTakes
      <3> QED
        BY <2>1, <3>1, <3>2 DEF FrontierType
    <2> QED
      BY <1>1, <2>2 DEF CoordinatorTakes, TInv, RowsKnow
  <1> QED
    BY <1>4, <1>5, <1>6 DEF CoordinatorTakes, TInv, TypeOK, FrontierType, ClaimType, TurnType

\* A turn that returns still has its cycle and its event.
LEMMA ReturnsTyped ==
  ASSUME TInv, NEW d \in Drivers, driver[d].stage # "idle", NEW o \in Outcomes,
         NEW hint \in 0..LongestHint, Returns(d, o, hint), UNCHANGED event
  PROVE  /\ driver' \in [Drivers -> TurnType]
         /\ claim' \in ClaimType
         /\ TurnKnows'
  <1>1. driver \in [Drivers -> TurnType]
    BY DEF TInv, TypeOK, TurnType
  <1>2. [driver[d] EXCEPT !.stage = "settling", !.outcome = o, !.next = hint] \in TurnType
    <2>1. driver[d] \in TurnType /\ "settling" \in Stages
      BY <1>1 DEF Stages
    <2> QED
      BY Zenon, <2>1 DEF TurnType
  <1>3. driver' = [driver EXCEPT ![d] =
                     [driver[d] EXCEPT !.stage = "settling", !.outcome = o, !.next = hint]]
    BY <1>1 DEF Returns
  <1>4. driver' \in [Drivers -> TurnType]
    BY <1>1, <1>2, <1>3
  <1>5. \A b \in Drivers : /\ driver'[b].cycle = driver[b].cycle /\ driver'[b].event = driver[b].event
                           /\ driver'[b].stage # "idle" => driver[b].stage # "idle"
    BY <1>1, <1>3 DEF TurnType
  <1>6. claim' \in ClaimType
    BY DEF Returns, Released, NoClaim, TInv, TypeOK, ClaimType
  <1> QED
    <2>1. \A b \in Drivers : driver'[b].stage # "idle" => driver'[b].cycle \in Cycles
      BY <1>5 DEF TInv, TurnKnows
    <2>2. /\ driver'[Consumer].event = driver[Consumer].event
          /\ driver'[Consumer].stage # "idle" => driver[Consumer].stage # "idle"
      BY <1>5
    <2> QED
      BY <1>4, <1>6, <2>1, <2>2 DEF TInv, TurnKnows

\* A turn that fails returns, as stale if it was overtaken.
LEMMA FailsReturns ==
  ASSUME NEW d \in Drivers, Fails(d)
  PROVE  \E o \in Outcomes, hint \in 0..LongestHint : Returns(d, o, hint)
  <1>1. 0 \in 0..LongestHint
    OBVIOUS
  <1>2. CASE Current(driver[d].cycle)
    <2>1. Returns(d, "failed", 0) /\ "failed" \in Outcomes
      BY <1>2 DEF Fails, Outcomes
    <2> QED
      BY <1>1, <2>1
  <1>3. CASE ~Current(driver[d].cycle)
    <2>1. Returns(d, "stale", 0) /\ "stale" \in Outcomes
      BY <1>3 DEF Fails, Outcomes
    <2> QED
      BY <1>1, <2>1
  <1> QED
    BY <1>2, <1>3

\* A turn that fails may silence its cycle.
LEMMA FailsTInv ==
  ASSUME TInv, NEW d \in Drivers, driver[d].stage # "idle", Fails(d)
  PROVE  TInv'
  <1>1. UNCHANGED <<event, wake, answered, frontier, crashes>>
    BY DEF Fails
  <1>2. driver' \in [Drivers -> TurnType] /\ claim' \in ClaimType /\ TurnKnows'
    BY <1>1, FailsReturns, ReturnsTyped
  <1>3. cycle' \in [Cycles -> CycleStates]
    BY DEF Fails, TInv, TypeOK, CycleStates
  <1>4. RowsKnow'
    BY <1>1 DEF TInv, RowsKnow, Active
  <1> QED
    BY <1>1, <1>2, <1>3, <1>4 DEF TInv, TypeOK, TurnType, ClaimType

\* Every step of a running turn but its publication.
LEMMA TurnTInv ==
  ASSUME TInv, NEW d \in Drivers,
         \/ BeginsPass(d) \/ PassesEnd(d) \/ NeedsPass(d) \/ CallFails(d)
         \/ \E hint \in 0..LongestHint : CallDefers(d, hint)
  PROVE  TInv'
  <1>0. driver[d].stage # "idle"
    BY DEF BeginsPass, PassesEnd, NeedsPass, CallFails, CallDefers
  <1> SUFFICES ASSUME ~Fails(d) PROVE TInv'
    BY <1>0, FailsTInv
  <1>1. UNCHANGED <<rows, crashes>> /\ driver[d].stage # "idle"
    BY <1>0 DEF BeginsPass, PassesEnd, NeedsPass, CallFails, CallDefers
  <1>2. driver \in [Drivers -> TurnType] /\ claim \in ClaimType
    BY DEF TInv, TypeOK, TurnType, ClaimType
  <1>3. RowsKnow'
    BY <1>1 DEF TInv, RowsKnow, Active, rows
  <1>4. driver' \in [Drivers -> TurnType] /\ claim' \in ClaimType /\ TurnKnows'
    <2>1. CASE \E o \in Outcomes, hint \in 0..LongestHint : Returns(d, o, hint)
      BY <1>1, <2>1, ReturnsTyped DEF rows
    <2>2. CASE /\ claim' = Claimed(d, driver[d].cycle) /\ driver[d].passes < MaxPasses
               /\ driver' = [driver EXCEPT ![d].stage = "calling", ![d].passes = @ + 1, ![d].age = 0]
      <3>1. claim' \in ClaimType
        <4>1. driver[d].cycle \in Cycles
          BY <1>1 DEF TInv, TurnKnows
        <4> QED
          BY <2>2, <4>1 DEF Claimed, ClaimType
      <3>2. driver[d].passes + 1 \in 0..MaxPasses
        BY <1>2, <2>2 DEF TurnType
      <3>3. [driver[d] EXCEPT !.stage = "calling", !.passes = driver[d].passes + 1, !.age = 0] \in TurnType
        <4>1. driver[d] \in TurnType /\ "calling" \in Stages /\ 0 \in 0..ClaimLease + 1
          BY <1>2 DEF Stages
        <4> QED
          BY Zenon, <3>2, <4>1 DEF TurnType
      <3> QED
        BY <1>1, <1>2, <2>2, <3>1, <3>3 DEF TInv, TurnKnows, TurnType, rows
    <2>3. CASE NeedsPass(d)
      <3>1. [driver[d] EXCEPT !.stage = "preparing"] \in TurnType
        <4>1. driver[d] \in TurnType /\ "preparing" \in Stages
          BY <1>2 DEF Stages
        <4> QED
          BY Zenon, <4>1 DEF TurnType
      <3> QED
        BY <1>1, <1>2, <2>3, <3>1 DEF NeedsPass, TInv, TurnKnows, TurnType, rows
    <2> QED
      BY <2>1, <2>2, <2>3 DEF BeginsPass, PassesEnd, CallFails, CallDefers, Outcomes
  <1> QED
    BY <1>1, <1>3, <1>4 DEF TInv, TypeOK, rows, TurnType, ClaimType

\* Publishing, and resolving the frontier of the conversation.
LEMMA PublishTInv ==
  ASSUME TInv, NEW d \in Drivers, CallPublishes(d) \/ Resolves(d)
  PROVE  TInv'
  <1>1. UNCHANGED <<event, wake, crashes>> /\ driver[d].stage # "idle"
    BY DEF CallPublishes, Resolves
  <1>2. driver \in [Drivers -> TurnType] /\ claim \in ClaimType /\ driver[d].cycle \in Cycles
    BY <1>1 DEF TInv, TypeOK, TurnType, ClaimType, TurnKnows
  <1>3. driver' \in [Drivers -> TurnType] /\ claim' \in ClaimType /\ TurnKnows'
    <2>1. CASE \E o \in Outcomes, hint \in 0..LongestHint : Returns(d, o, hint)
      BY <1>1, <2>1, ReturnsTyped
    <2>2. CASE driver' = [driver EXCEPT ![d].stage = "projecting"] /\ UNCHANGED claim
      <3>1. [driver[d] EXCEPT !.stage = "projecting"] \in TurnType
        BY <1>2 DEF TurnType, Stages
      <3> QED
        BY <1>1, <1>2, <2>2, <3>1 DEF TInv, TurnKnows, TurnType
    <2> QED
      BY <2>1, <2>2 DEF CallPublishes, Resolves, Outcomes
  <1>4. frontier' \in FrontierType /\ RowsKnow'
    BY <1>1 DEF CallPublishes, Resolves, TInv, TypeOK, FrontierType, FrontierStates, RowsKnow, Active
  <1>5. answered' \subseteq Cycles /\ cycle' \in [Cycles -> CycleStates]
    BY <1>2 DEF CallPublishes, Resolves, TInv, TypeOK, CycleStates
  <1> QED
    BY <1>1, <1>3, <1>4, <1>5 DEF TInv, TypeOK, FrontierType, TurnType, ClaimType

\* A driver whose turn is over has none.
LEMMA FreedTyped ==
  ASSUME TInv, NEW d \in Drivers, Freed(d),
         \A e \in Events : event[e].state # "absent" => event'[e].state # "absent"
  PROVE  driver' \in [Drivers -> TurnType] /\ TurnKnows'
  <1>1. driver \in [Drivers -> TurnType]
    BY DEF TInv, TypeOK, TurnType
  <1>2. /\ driver' \in [Drivers -> TurnType]
        /\ driver'[d].stage = "idle"
        /\ \A b \in Drivers \ {d} : driver'[b] = driver[b]
    BY <1>1, IdleTyped DEF Freed, IdleTurn
  <1> QED
    BY <1>2 DEF TInv, TurnKnows

\* Ending an event, or giving it back, leaves the rows well formed.
LEMMA EndsTyped ==
  ASSUME TInv, NEW E \in SUBSET Events, NEW s \in {"done", "failed"}, EventsEnd(E, s),
         \A e \in E : event[e].state # "absent"
  PROVE  /\ event' \in [Events -> EventType]
         /\ wake' \in [Cycles -> {"none", "live", "terminal"}]
         /\ \A e \in Events : event[e].state # "absent" => event'[e].state # "absent"
         /\ \A e \in Events : event'[e].state # "absent" => event'[e].cycle \in Cycles
         /\ \A e \in Events : event'[e].state = "pending" => event'[e].attempts < MaxAttempts
  <1>1. event \in [Events -> EventType]
    BY DEF TInv, TypeOK, EventType
  <1>2. \A e \in Events : /\ [event[e] EXCEPT !.state = s] \in EventType
                         /\ [event[e] EXCEPT !.state = s].state = s
                         /\ [event[e] EXCEPT !.state = s].cycle = event[e].cycle
    BY <1>1 DEF EventType, EventStates
  <1>3. \A e \in Events : event'[e] = IF e \in E THEN [event[e] EXCEPT !.state = s] ELSE event[e]
    BY DEF EventsEnd
  <1>4. event' \in [Events -> EventType]
    BY <1>1, <1>2 DEF EventsEnd
  <1>5. wake' \in [Cycles -> {"none", "live", "terminal"}]
    BY DEF EventsEnd, TInv, TypeOK
  <1> QED
    BY <1>2, <1>3, <1>4, <1>5 DEF TInv, RowsKnow

\* Giving an event back keeps the rows typed.
LEMMA GivenBackTyped ==
  ASSUME TInv, NEW e \in Events, event[e].state # "absent", GivenBack(e)
  PROVE  /\ event' \in [Events -> EventType]
         /\ wake' \in [Cycles -> {"none", "live", "terminal"}]
         /\ \A f \in Events : event[f].state # "absent" => event'[f].state # "absent"
         /\ \A f \in Events : event'[f].state # "absent" => event'[f].cycle \in Cycles
         /\ \A f \in Events : event'[f].state = "pending" => event'[f].attempts < MaxAttempts
  <1>1. CASE Spent(e)
    BY <1>1, EndsTyped DEF GivenBack
  <1>2. CASE ~Spent(e)
    <2>1. event \in [Events -> EventType] /\ wake \in [Cycles -> {"none", "live", "terminal"}]
      BY DEF TInv, TypeOK, EventType
    <2>2. event[e].attempts < MaxAttempts
      BY <1>2, <2>1 DEF Spent, EventType
    <2>3. event' = [event EXCEPT ![e].state = "pending"] /\ UNCHANGED wake
      BY <1>2 DEF GivenBack
    <2>4. [event[e] EXCEPT !.state = "pending"] \in EventType
      BY <2>1 DEF EventType, EventStates
    <2> QED
      BY <2>1, <2>2, <2>3, <2>4 DEF EventType, TInv, RowsKnow
  <1> QED
    BY <1>1, <1>2

\* The consumer settles; the frontier a deferral puts in place of the event is well formed.
LEMMA ConsumerSettlesTInv ==
  ASSUME TInv, ConsumerSettles
  PROVE  TInv'
  <1> DEFINE e == driver[Consumer].event
  <1>1. e \in Events /\ event[e].state # "absent"
    BY DEF ConsumerSettles, TInv, TurnKnows
  <1> DEFINE E == {e} \cup (driver[Consumer].covers \cap LiveEvents(driver[Consumer].cycle))
  <1>2. {e} \in SUBSET Events /\ E \in SUBSET Events /\ \A f \in E : event[f].state # "absent"
    BY <1>1 DEF LiveEvents
  <1>3. \/ EventsEnd(E, "done") \/ EventsEnd({e}, "done") \/ GivenBack(e)
    BY DEF ConsumerSettles
  <1> HIDE DEF E
  <1>4. /\ event' \in [Events -> EventType]
        /\ wake' \in [Cycles -> {"none", "live", "terminal"}]
        /\ \A f \in Events : event[f].state # "absent" => event'[f].state # "absent"
        /\ \A f \in Events : event'[f].state # "absent" => event'[f].cycle \in Cycles
        /\ \A f \in Events : event'[f].state = "pending" => event'[f].attempts < MaxAttempts
    BY <1>1, <1>2, <1>3, EndsTyped, GivenBackTyped
  <1>5. driver' \in [Drivers -> TurnType] /\ TurnKnows'
    BY <1>4, FreedTyped DEF ConsumerSettles
  <1>6. RowsKnow'
    BY <1>4 DEF ConsumerSettles, TInv, RowsKnow, Active
  <1> QED
    BY <1>4, <1>5, <1>6 DEF ConsumerSettles, TInv, TypeOK, TurnType, EventType

\* A frontier put back, or given up, is a frontier.
LEMMA RescheduledTyped ==
  ASSUME TInv, NEW d \in Drivers
  PROVE  /\ Rescheduled(d) \in FrontierType /\ Rescheduled(d).cycle = frontier.cycle
         /\ [frontier EXCEPT !.state = "exhausted"] \in FrontierType
         /\ [frontier EXCEPT !.state = "resolved"] \in FrontierType
  <1>1. frontier \in FrontierType
    BY DEF TInv, TypeOK, FrontierType
  <1>2. driver[d].next \in -1..LongestHint
    BY DEF TInv, TypeOK
  <1>3. \A s \in {"exhausted", "resolved"} : [frontier EXCEPT !.state = s] \in FrontierType
    BY <1>1 DEF FrontierType, FrontierStates
  <1>4. [frontier EXCEPT !.state = "waiting", !.next = driver[d].next] \in FrontierType
    BY <1>1, <1>2 DEF FrontierType, FrontierStates
  <1> QED
    BY <1>1, <1>3, <1>4 DEF Rescheduled, FrontierType

\* Inserting or rescheduling a frontier keeps turns and rows consistent.
LEMMA ConsumerDefersTInv ==
  ASSUME TInv, ConsumerDefers
  PROVE  TInv'
  <1> DEFINE t == driver[Consumer]
  <1>1. t.event \in Events /\ t.cycle \in Cycles /\ event[t.event].state # "absent" /\ t \in TurnType
    BY DEF ConsumerDefers, TInv, TurnKnows, TypeOK, TurnType
  <1>2. /\ event' \in [Events -> EventType]
        /\ \A f \in Events : event[f].state # "absent" => event'[f].state # "absent"
        /\ \A f \in Events : event'[f].state # "absent" => event'[f].cycle \in Cycles
        /\ \A f \in Events : event'[f].state = "pending" => event'[f].attempts < MaxAttempts
    <2>1. event \in [Events -> EventType]
      BY DEF TInv, TypeOK, EventType
    <2>2. [event[t.event] EXCEPT !.state = "deferred"] \in EventType
      BY <1>1, <2>1 DEF EventType, EventStates
    <2> QED
      BY <1>1, <2>1, <2>2 DEF ConsumerDefers, TInv, RowsKnow, EventType
  <1>3. cycle' \in [Cycles -> CycleStates]
    BY DEF ConsumerDefers, TInv, TypeOK, CycleStates
  <1>4. frontier' \in FrontierType /\ (Active' => frontier'.cycle \in Cycles)
    <2>1. CASE Active
      BY <2>1, RescheduledTyped DEF ConsumerDefers, TInv, RowsKnow
    <2>2. CASE ~Active
      <3>1. MaxWait - t.since \in -1..MaxWait /\ t.next \in -1..LongestHint /\ 0 \in -1..FrontierLease
        BY <1>1 DEF TurnType
      <3>2. frontier.id + 1 \in Nat /\ "waiting" \in FrontierStates
        BY DEF TInv, TypeOK, FrontierStates
      <3> QED
        BY <1>1, <2>2, <3>1, <3>2 DEF ConsumerDefers, Inserted, FrontierType
    <2> QED
      BY <2>1, <2>2
  <1>5. driver' \in [Drivers -> TurnType] /\ TurnKnows'
    BY <1>2, FreedTyped DEF ConsumerDefers
  <1>6. RowsKnow'
    BY <1>2, <1>4 DEF RowsKnow
  <1> QED
    BY <1>2, <1>3, <1>4, <1>5, <1>6 DEF ConsumerDefers, TInv, TypeOK, TurnType, EventType, FrontierType

\* The coordinator settles.
LEMMA CoordinatorSettlesTInv ==
  ASSUME TInv, CoordinatorSettles \/ CoordinatorDefers \/ CoordinatorExhausts
  PROVE  TInv'
  <1>1. /\ frontier' \in FrontierType
        /\ Active' => frontier'.cycle \in Cycles
    <2>1. \/ frontier' = frontier
          \/ frontier' = [frontier EXCEPT !.state = "exhausted"]
          \/ frontier' = [frontier EXCEPT !.state = "resolved"]
          \/ frontier' = Rescheduled(Coordinator) /\ Active
      BY DEF CoordinatorSettles, CoordinatorDefers, CoordinatorExhausts, Mine, TInv, TypeOK
    <2>2. frontier \in FrontierType
      BY DEF TInv, TypeOK, FrontierType
    <2> QED
      BY <2>1, <2>2, RescheduledTyped DEF TInv, RowsKnow, Active, FrontierType
  <1>2. driver' \in [Drivers -> TurnType] /\ TurnKnows'
    <2>1. CASE Freed(Coordinator)
      BY <2>1, FreedTyped DEF CoordinatorSettles, CoordinatorDefers, CoordinatorExhausts
    <2>2. CASE UNCHANGED <<driver, event>>
      BY <2>2 DEF TInv, TypeOK, TurnType, TurnKnows
    <2> QED
      BY <2>1, <2>2 DEF CoordinatorSettles, CoordinatorDefers, CoordinatorExhausts
  <1>3. cycle' \in [Cycles -> CycleStates] /\ wake' \in [Cycles -> {"none", "live", "terminal"}]
    BY DEF CoordinatorSettles, CoordinatorDefers, CoordinatorExhausts, TInv, TypeOK, CycleStates
  <1>4. UNCHANGED <<event, answered, claim, crashes>>
    BY DEF CoordinatorSettles, CoordinatorDefers, CoordinatorExhausts
  <1>5. RowsKnow'
    BY <1>1, <1>4 DEF TInv, RowsKnow
  <1> QED
    BY <1>1, <1>2, <1>3, <1>4, <1>5 DEF TInv, TypeOK, TurnType, FrontierType

\* Delivery and retirement touch rows of cycles only.
LEMMA RetiresTInv ==
  ASSUME TInv, NEW c \in Cycles, Delivers(c) \/ Retires(c)
  PROVE  TInv'
  <1>1. UNCHANGED <<event, answered, frontier, claim, driver, crashes>>
    BY DEF Delivers, Retires
  <1>2. cycle' \in [Cycles -> CycleStates] /\ wake' \in [Cycles -> {"none", "live", "terminal"}]
    BY DEF Delivers, Retires, TInv, TypeOK, CycleStates
  <1> QED
    BY <1>1, <1>2 DEF TInv, TypeOK, TurnKnows, RowsKnow, Active

\* A lapsed lease gives its event back.
LEMMA LapseTInv ==
  ASSUME TInv, NEW e \in Events, LeaseLapses(e)
  PROVE  TInv'
  <1>1. UNCHANGED <<cycle, answered, frontier, claim, driver, crashes>>
    BY DEF LeaseLapses
  <1>2. /\ event' \in [Events -> EventType]
        /\ wake' \in [Cycles -> {"none", "live", "terminal"}]
        /\ \A f \in Events : event[f].state # "absent" => event'[f].state # "absent"
        /\ \A f \in Events : event'[f].state # "absent" => event'[f].cycle \in Cycles
        /\ \A f \in Events : event'[f].state = "pending" => event'[f].attempts < MaxAttempts
    BY GivenBackTyped DEF LeaseLapses
  <1> QED
    BY <1>1, <1>2 DEF TInv, TypeOK, TurnKnows, RowsKnow, Active, EventType

\* Time left and ages stay in their ranges.
LEMMA Moves ==
  /\ \A most \in Nat : \A n \in -1..most : Sooner(n) \in -1..most
  /\ \A most \in Nat : \A n \in 0..most : Later(n, most) \in 0..most
  BY DEF Sooner, Later

\* The passing of time keeps turns and rows consistent.
LEMMA TickTInv ==
  ASSUME TInv, Tick
  PROVE  TInv'
  <1>1. frontier' \in FrontierType /\ frontier'.cycle = frontier.cycle /\ frontier'.state = frontier.state
    <2>1. frontier \in FrontierType
      BY DEF TInv, TypeOK, FrontierType
    <2>2. /\ Sooner(frontier.next) \in -1..LongestHint /\ Sooner(frontier.left) \in -1..MaxWait
          /\ Sooner(frontier.lease) \in -1..FrontierLease
      BY <2>1, Moves DEF FrontierType
    <2> QED
      BY <2>1, <2>2 DEF Tick, FrontierType
  <1>2. claim' \in ClaimType
    <2>1. claim \in ClaimType
      BY DEF TInv, TypeOK, ClaimType
    <2>2. Sooner(claim.left) \in -1..ClaimLease
      BY <2>1, Moves DEF ClaimType
    <2> QED
      BY <2>1, <2>2 DEF Tick, ClaimType
  <1>3. driver \in [Drivers -> TurnType]
    BY DEF TInv, TypeOK, TurnType
  <1> DEFINE since(d) == IF driver[d].stage = "idle" THEN driver[d].since
                         ELSE Later(driver[d].since, MaxWait + 1)
             age(d) == IF driver[d].stage = "calling" THEN Later(driver[d].age, ClaimLease + 1)
                       ELSE driver[d].age
  <1>4. \A d \in Drivers : since(d) \in 0..MaxWait + 1 /\ age(d) \in 0..ClaimLease + 1
    <2>1. MaxWait + 1 \in Nat /\ ClaimLease + 1 \in Nat
      OBVIOUS
    <2>2. \A d \in Drivers : driver[d].since \in 0..MaxWait + 1 /\ driver[d].age \in 0..ClaimLease + 1
      BY <1>3 DEF TurnType
    <2> QED
      BY <2>1, <2>2, Moves
  <1>5. driver' = [d \in Drivers |-> [driver[d] EXCEPT !.since = since(d), !.age = age(d)]]
    BY <1>3 DEF Tick
  <1> HIDE DEF since, age
  <1>6. /\ driver' \in [Drivers -> TurnType]
        /\ \A d \in Drivers : /\ driver'[d].stage = driver[d].stage /\ driver'[d].cycle = driver[d].cycle
                              /\ driver'[d].event = driver[d].event
    <2>1. ASSUME NEW d \in Drivers
          PROVE  [driver[d] EXCEPT !.since = since(d), !.age = age(d)] \in TurnType
      <3>1. driver[d] \in TurnType /\ since(d) \in 0..MaxWait + 1 /\ age(d) \in 0..ClaimLease + 1
        BY <1>3, <1>4
      <3> QED
        BY Zenon, <3>1 DEF TurnType
    <2> QED
      BY <1>3, <1>5, <2>1 DEF TurnType
  <1>7. TurnKnows' /\ RowsKnow'
    BY <1>1, <1>6 DEF Tick, TInv, TurnKnows, RowsKnow, Active
  <1> QED
    BY <1>1, <1>2, <1>6, <1>7 DEF Tick, TInv, TypeOK, FrontierType, ClaimType, TurnType

\* A crash leaves the rows and no turn.
LEMMA CrashTInv ==
  ASSUME TInv, Crash
  PROVE  TInv'
  <1>1. claim' \in ClaimType
    BY DEF Crash, TInv, TypeOK, ClaimType
  <1>2. driver' \in [Drivers -> TurnType] /\ TurnKnows'
    BY IdleTyped DEF Crash, TurnKnows, IdleTurn
  <1>3. crashes' \in 0..MaxCrashes
    BY DEF Crash, TInv, TypeOK
  <1> QED
    BY <1>1, <1>2, <1>3 DEF Crash, TInv, TypeOK, RowsKnow, Active, rows, ClaimType, TurnType

\* Every step keeps the rows and the turns well formed.
LEMMA NextTInv ==
  ASSUME TInv, [Next]_vars
  PROVE  TInv'
  <1>1. CASE UNCHANGED vars
    BY <1>1 DEF vars, TInv, TypeOK, TurnKnows, RowsKnow, Active
  <1>2. CASE \E e \in Events, c \in Cycles :
               OwnerSubsumed(e) \/ OwnerComposes(e) \/ OwnerOpens(e, c) \/ CompletionArrives(e, c)
    BY <1>2, ArrivalTInv
  <1>3. CASE \E e \in Events : OwnerSubsumed(e) \/ OwnerComposes(e)
    <2>1. PICK e \in Events : OwnerSubsumed(e) \/ OwnerComposes(e)
      BY <1>3
    <2>2. PICK c \in Cycles : TRUE
      BY <2>1 DEF OwnerSubsumed, OwnerComposes, TInv, RowsKnow, Open, Admitted
    <2> QED
      BY <2>1, <2>2, ArrivalTInv
  <1>4. CASE \E e \in Events : ConsumerTakes(e)
    BY <1>4, ConsumerTakesTInv
  <1>5. CASE \E e \in Events : LeaseLapses(e)
    BY <1>5, LapseTInv
  <1>6. CASE \E d \in Drivers : TurnStep(d)
    BY <1>6, TurnTInv, PublishTInv DEF TurnStep
  <1>7. CASE \E c \in Cycles : Delivers(c) \/ Retires(c)
    BY <1>7, RetiresTInv
  <1>8. CASE ConsumerSettles \/ ConsumerDefers
    BY <1>8, ConsumerSettlesTInv, ConsumerDefersTInv
  <1>9. CASE CoordinatorStep
    BY <1>9, CoordinatorTakesTInv, CoordinatorSettlesTInv DEF CoordinatorStep
  <1>10. CASE Tick \/ Crash
    BY <1>10, TickTInv, CrashTInv
  <1> QED
    BY <1>1, <1>2, <1>3, <1>4, <1>5, <1>6, <1>7, <1>8, <1>9, <1>10 DEF Next

\* The rows, the claim and the turns keep their types for any bounds: in particular no
\* event has more attempts than there are, and no hint, lease or deadline leaves its range.
THEOREM FrontierTyped == Spec => []TypeOK
  <1>1. TInv => TypeOK
    BY DEF TInv
  <1> QED
    BY <1>1, InitTInv, NextTInv, PTL DEF Spec

--------------------------------------------------------------------------------
(* Only one Thought.                                                        *)

\* What the claim says stays true of a call as long as no step touches either.
LEMMA CallKept ==
  ASSUME NEW d \in Drivers, Holds(d), driver'[d] = driver[d],
         UNCHANGED claim \/ driver[d].stage # "calling"
  PROVE  Holds(d)'
  BY DEF Holds, Overdue

\* Whoever opens a turn found the claim free or lapsed, so no call is made under it.
LEMMA OpensHolds ==
  ASSUME TInv, CallsHold, NEW d \in Drivers, NEW turn \in TurnType, turn.cycle \in Cycles, TurnOpens(d, turn)
  PROVE  CallsHold'
  <1> SUFFICES ASSUME NEW b \in Drivers, driver'[b].stage = "calling", ~Overdue(b)'
               PROVE  claim'.holder = b /\ claim'.left = ClaimLease - driver'[b].age
    BY DEF CallsHold, Holds
  <1>1. driver \in [Drivers -> TurnType]
    BY DEF TInv, TypeOK, TurnType
  <1>2. b # d /\ driver'[b] = driver[b]
    BY <1>1, OpensTyped DEF TurnOpens, TurnType
  <1>3. claim.holder = b /\ claim.left = ClaimLease - driver[b].age /\ driver[b].age \in 0..ClaimLease
    BY <1>1, <1>2 DEF CallsHold, Holds, Overdue, TurnType
  <1>4. ~MayClaim
    BY <1>3 DEF MayClaim
  <1> QED
    BY <1>2, <1>3, <1>4 DEF TurnOpens

\* Whoever leaves takes only its own claim along.
LEMMA ReturnsHolds ==
  ASSUME TInv, CallsHold, NEW d \in Drivers, NEW o, NEW hint, Returns(d, o, hint)
  PROVE  CallsHold'
  <1> SUFFICES ASSUME NEW b \in Drivers, driver'[b].stage = "calling", ~Overdue(b)'
               PROVE  claim'.holder = b /\ claim'.left = ClaimLease - driver'[b].age
    BY DEF CallsHold, Holds
  <1>1. driver \in [Drivers -> TurnType]
    BY DEF TInv, TypeOK, TurnType
  <1>2. driver'[d].stage = "settling"
    BY <1>1 DEF Returns, TurnType
  <1>3. b # d /\ driver'[b] = driver[b]
    BY <1>1, <1>2 DEF Returns
  <1>4. claim.holder = b /\ claim.left = ClaimLease - driver[b].age
    BY <1>3 DEF CallsHold, Holds, Overdue
  <1> QED
    BY <1>3, <1>4 DEF Returns, Released

\* Whoever begins a call has just renewed the claim it holds.
LEMMA BeginsHolds ==
  ASSUME TInv, CallsHold, NEW d \in Drivers, BeginsPass(d)
  PROVE  CallsHold'
  <1>1. CASE \E o \in Outcomes, hint \in 0..LongestHint : Returns(d, o, hint)
    BY <1>1, ReturnsHolds
  <1>2. CASE /\ MayRenew(d) /\ claim' = Claimed(d, driver[d].cycle)
             /\ driver' = [driver EXCEPT ![d].stage = "calling", ![d].passes = @ + 1, ![d].age = 0]
    <2> SUFFICES ASSUME NEW b \in Drivers, driver'[b].stage = "calling", ~Overdue(b)'
                 PROVE  claim'.holder = b /\ claim'.left = ClaimLease - driver'[b].age
      BY DEF CallsHold, Holds
    <2>1. driver \in [Drivers -> TurnType]
      BY DEF TInv, TypeOK, TurnType
    <2>2. CASE b = d
      BY <1>2, <2>1, <2>2 DEF Claimed, TurnType
    <2>3. CASE b # d
      BY <1>2, <2>1, <2>3 DEF CallsHold, Holds, Overdue, MayRenew
    <2> QED
      BY <2>2, <2>3
  <1> QED
    BY <1>1, <1>2 DEF BeginsPass, Outcomes

\* A driver that is not calling any more needs no claim.
LEMMA QuitHolds ==
  ASSUME TInv, CallsHold, NEW d \in Drivers, driver'[d].stage # "calling", UNCHANGED claim,
         \A b \in Drivers \ {d} : driver'[b] = driver[b]
  PROVE  CallsHold'
  BY CallKept DEF CallsHold, Holds

\* The turns open, run, end and are settled.
LEMMA TurnHolds ==
  ASSUME TInv, CallsHold, NEW d \in Drivers, TurnStep(d)
  PROVE  CallsHold'
  <1>1. driver \in [Drivers -> TurnType]
    BY DEF TInv, TypeOK, TurnType
  <1>2. CASE BeginsPass(d)
    BY <1>2, BeginsHolds
  <1>3. CASE \E o \in Outcomes, hint \in 0..LongestHint : Returns(d, o, hint)
    BY <1>3, ReturnsHolds
  <1>4. CASE /\ UNCHANGED claim
             /\ \E s \in {"preparing", "projecting"} : driver' = [driver EXCEPT ![d].stage = s]
    <2>1. driver'[d].stage # "calling" /\ \A b \in Drivers \ {d} : driver'[b] = driver[b]
      BY <1>1, <1>4 DEF TurnType
    <2> QED
      BY <1>4, <2>1, QuitHolds
  <1> QED
    BY <1>2, <1>3, <1>4, FailsReturns
    DEF TurnStep, PassesEnd, NeedsPass, CallFails, CallDefers, CallPublishes, Resolves, Outcomes

\* The consumer leases an event.
LEMMA ConsumerTakesHolds ==
  ASSUME TInv, CallsHold, NEW e \in Events, ConsumerTakes(e)
  PROVE  CallsHold'
  <1> DEFINE turn == [IdleTurn EXCEPT !.event = e, !.cycle = event[e].cycle,
                                      !.covers = LiveEvents(event[e].cycle) \ {e}]
  <1>1. event[e].cycle \in Cycles
    BY DEF ConsumerTakes, TInv, RowsKnow
  <1>2. turn \in TurnType /\ turn.cycle = event[e].cycle
    BY <1>1, IdleTyped DEF TurnType, LiveEvents, IdleTurn
  <1>3. TurnOpens(Consumer, turn)
    BY DEF ConsumerTakes
  <1> HIDE DEF turn
  <1> QED
    BY <1>1, <1>2, <1>3, OpensHolds

\* The coordinator claims a frontier.
LEMMA CoordinatorTakesHolds ==
  ASSUME TInv, CallsHold, CoordinatorTakes
  PROVE  CallsHold'
  <1> DEFINE turn == [IdleTurn EXCEPT !.frontier = frontier.id, !.cycle = frontier.cycle]
             thrown == [turn EXCEPT !.stage = "settling", !.outcome = "failed"]
  <1>1. frontier.cycle \in Cycles /\ frontier.id \in Nat
    BY DEF CoordinatorTakes, Due, TInv, RowsKnow, Active, TypeOK
  <1>2. turn \in TurnType /\ turn.cycle = frontier.cycle
    BY <1>1, IdleTyped DEF TurnType, IdleTurn
  <1>3. thrown.stage = "settling"
    BY DEF IdleTurn
  <1>4. CASE TurnOpens(Coordinator, turn)
    <2> HIDE DEF turn
    <2> QED
      BY <1>1, <1>2, <1>4, OpensHolds
  <1>5. CASE driver' = [driver EXCEPT ![Coordinator] = thrown] /\ UNCHANGED <<cycle, claim>>
    <2> HIDE DEF thrown
    <2>1. /\ driver'[Coordinator].stage # "calling"
          /\ \A b \in Drivers \ {Coordinator} : driver'[b] = driver[b]
      BY <1>3, <1>5 DEF TInv, TypeOK
    <2> QED
      BY <1>5, <2>1, QuitHolds
  <1> QED
    BY <1>4, <1>5 DEF CoordinatorTakes

\* A driver settles.
LEMMA SettlesHolds ==
  ASSUME TInv, CallsHold, NEW d \in Drivers, Freed(d), UNCHANGED claim
  PROVE  CallsHold'
  <1>1. driver'[d].stage # "calling" /\ \A b \in Drivers \ {d} : driver'[b] = driver[b]
    BY DEF Freed, IdleTurn, TInv, TypeOK
  <1> QED
    BY <1>1, QuitHolds

\* The age of the call and the rest of its claim move together, until the claim lapses
\* and the call is overdue.
LEMMA TickHolds ==
  ASSUME TInv, CallsHold, Tick
  PROVE  CallsHold'
  <1> SUFFICES ASSUME NEW b \in Drivers, driver'[b].stage = "calling", ~Overdue(b)'
               PROVE  claim'.holder = b /\ claim'.left = ClaimLease - driver'[b].age
    BY DEF CallsHold, Holds
  <1>1. driver \in [Drivers -> TurnType] /\ claim \in ClaimType
    BY DEF TInv, TypeOK, TurnType, ClaimType
  <1>2. /\ driver[b].stage = "calling"
        /\ driver'[b].age = Later(driver[b].age, ClaimLease + 1)
    BY <1>1 DEF Tick, TurnType
  <1>3. driver[b].age \in 0..ClaimLease + 1
    BY <1>1 DEF TurnType
  <1>4. driver[b].age < ClaimLease /\ driver'[b].age = driver[b].age + 1
    BY <1>2, <1>3 DEF Later, Overdue
  <1>5. claim.holder = b /\ claim.left = ClaimLease - driver[b].age
    BY <1>2, <1>3, <1>4 DEF CallsHold, Holds, Overdue
  <1>6. claim'.holder = claim.holder /\ claim'.left = Sooner(claim.left)
    BY <1>1, <1>5 DEF Tick, ClaimType
  <1> QED
    BY <1>3, <1>4, <1>5, <1>6 DEF Sooner

\* Every step keeps what a call knows of the claim it was made under.
LEMMA NextCallsHold ==
  ASSUME TInv, CallsHold, [Next]_vars
  PROVE  CallsHold'
  <1>1. CASE UNCHANGED <<claim, driver>>
    BY <1>1 DEF CallsHold, Holds, Overdue
  <1>2. CASE \E e \in Events : ConsumerTakes(e)
    BY <1>2, ConsumerTakesHolds
  <1>3. CASE \E d \in Drivers : TurnStep(d)
    BY <1>3, TurnHolds
  <1>4. CASE CoordinatorTakes
    BY <1>4, CoordinatorTakesHolds
  <1>5. CASE ConsumerSettles \/ ConsumerDefers \/ CoordinatorSettles \/ CoordinatorDefers
    BY <1>5, SettlesHolds DEF ConsumerSettles, ConsumerDefers, CoordinatorSettles, CoordinatorDefers
  <1>6. CASE Tick
    BY <1>6, TickHolds
  <1>7. CASE Crash
    BY <1>7 DEF Crash, CallsHold, Holds, IdleTurn
  <1> QED
    BY <1>1, <1>2, <1>3, <1>4, <1>5, <1>6, <1>7
    DEF Next, vars, CoordinatorStep, OwnerSubsumed, OwnerComposes, OwnerOpens, CompletionArrives,
        LeaseLapses, Delivers, Retires, CoordinatorExhausts

\* However the claim is taken over, renewed, given up or left behind by a crash, two
\* Thoughts about one conversation overlap only if a call outlasted its claim.
THEOREM OneThinkerHolds == Spec => []OneThinker
  <1>1. Init => TInv /\ CallsHold
    BY InitTInv DEF Init, CallsHold, Holds, IdleTurn
  <1>2. TInv /\ CallsHold /\ [Next]_vars => TInv' /\ CallsHold'
    BY NextTInv, NextCallsHold
  <1>3. CallsHold => OneThinker
    BY DEF CallsHold, Holds, OneThinker
  <1> QED
    BY <1>1, <1>2, <1>3, PTL DEF Spec
================================================================================
