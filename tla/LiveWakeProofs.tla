---------------------------- MODULE LiveWakeProofs ----------------------------
(***************************************************************************)
(* That an Owner message which is still owed keeps a wake that can be       *)
(* claimed, when nothing is deferred: on an Owner's cycle always, and on    *)
(* any cycle unless completions arrive and the model abstains.  A frontier  *)
(* that is exhausted or expires may close the wake of such a message.       *)
(***************************************************************************)
EXTENDS ObligationProofs, SettlementProofs

--------------------------------------------------------------------------------
(* What passes know of Owner messages.                                      *)

\* A completion's pass that abstains closes its wake, whoever else waits on it.
AbstentionsApart == "completion" \notin Kinds \/ "abstain" \notin Disturbances

Guarded(w) == AbstentionsApart \/ cycle[w].trigger = "owner"

OwnerLive ==
  \A e \in Events : Owner(e) /\ event[e].state \in Durable /\ Guarded(event[e].wake)
                      => wake[event[e].wake].state # "terminal"

\* A cycle that sends has an answer to deliver.
SendingQueued == \A w \in Wakes : cycle[w].state = "sending" => speech[w] = "queued"

\* Nobody else closes what a pass has covered as long as the pass holds its claim, and
\* the model is all that makes such a pass abstain.
HolderKnows(k) ==
  /\ \A f \in worker[k].covered : event[f].state # "terminal"
  /\ worker[k].stage # "not_applicable"
  /\ worker[k].stage = "abstained" => "abstain" \in Disturbances

PassKnows ==
  \A k \in Workers : Active(k) =>
    /\ \A f \in worker[k].covered : event[f].wake = WakeOf(k) /\ Owner(f)
    /\ worker[k].ordinal <= event[worker[k].event].attempts
    /\ Held(k) => HolderKnows(k)

\* No two passes hold one claim.
UniqueHolder ==
  \A j, k \in Workers :
    Active(j) /\ Active(k) /\ Held(j) /\ Held(k) /\ worker[j].event = worker[k].event => j = k

\* A process that starts up has no passes.
Booting == phase \notin {"running", "claiming"} => \A k \in Workers : ~Active(k)

LiveInv == OwnerLive /\ SendingQueued /\ PassKnows /\ UniqueHolder /\ Booting

\* No pass is deferred, so no cycle waits for capacity.
Undeferred == NoDeferral /\ \A w \in Wakes : cycle[w].state # "waiting"
--------------------------------------------------------------------------------
(* What a step does to passes, Owner messages and wakes.                    *)

\* A pass goes on with what it has claimed, or ends.
GoesOn(k) ==
  \/ worker'[k] = worker[k]
  \/ worker'[k].stage = "idle"
  \/ /\ Active(k)
     /\ worker'[k].event = worker[k].event /\ worker'[k].ordinal = worker[k].ordinal
     /\ worker'[k].covered = worker[k].covered
     /\ worker'[k].stage = "not_applicable" => AnsweredElsewhere(k)
     /\ worker'[k].stage = "abstained" => "abstain" \in Disturbances \/ ~Held(k)

\* The holder of a claim on w is done.
DoneByHolder(w) == \E j \in Workers : /\ Active(j) /\ Held(j) /\ WakeOf(j) = w
                                      /\ worker'[j].stage = "idle"

\* Who ends an Owner message, and what sends.
Attributed ==
  /\ \A f \in Events : Owner(f) /\ event[f].state # "absent" /\ event'[f].state = "terminal" =>
       \/ event[f].state \in {"terminal", "reconciling"}
       \/ phase = "ownership" \/ DoneByHolder(event[f].wake)
  /\ \A w \in Wakes : cycle'[w].state = "sending" =>
       (cycle[w].state = "sending" /\ speech'[w] = speech[w]) \/ speech'[w] = "queued"
  /\ phase' \in {"running", "claiming"} \/ \A k \in Workers : worker'[k].stage = "idle"

\* What is still owed keeps its wake, and what arrives finds one.
KeptAlive ==
  \A f \in Events : event'[f].state \in Durable =>
    IF event[f].state = "absent" THEN wake'[event'[f].wake].state # "terminal"
    ELSE Owner(f) /\ Guarded(event[f].wake) => wake'[event[f].wake].state # "terminal"

LivesOn == Attributed /\ KeptAlive /\ \A k \in Workers : GoesOn(k)

\* A pass whose claim holds after the step held it before.
LEMMA HoldsBefore ==
  ASSUME IInv, ClaimsNothing, NEW e \in Events, event[e].state # "absent"
  PROVE  /\ event'[e].attempts = event[e].attempts
         /\ event'[e].state = "leased" => event[e].state = "leased"
<1>1. CASE NoNewLease(event, wake, event', wake')
  BY <1>1 DEF NoNewLease
<1>2. CASE UNCHANGED <<event, wake>>
  BY <1>2
<1>3. ASSUME NEW c, NEW f \in Events, NEW w, NEW kind,
             Admits(event, wake, event', wake', c, f, kind, w)
      PROVE  event'[e] = event[e]
  BY <1>3 DEF Admits, IInv, TypeOK
<1> QED
  BY <1>1, <1>2, <1>3 DEF ClaimsNothing

\* Two passes that hold claims on one wake are one pass.
LEMMA OneHolder ==
  ASSUME IInv, UniqueHolder, NEW j \in Workers, NEW k \in Workers,
         Active(j), Active(k), Held(j), Held(k), WakeOf(j) = WakeOf(k)
  PROVE  j = k
<1>1. worker[j].event \in Events /\ worker[k].event \in Events
  BY PassRows DEF Active
<1>2. worker[j].event = worker[k].event
  BY <1>1 DEF Held, WakeOf, IInv, RowsInv, OneInvolved
<1> QED
  BY <1>2 DEF UniqueHolder

\* What a pass has covered are events of its wake.
LEMMA CoveredRows ==
  ASSUME IInv, PassKnows, NEW k \in Workers, Active(k), NEW f \in worker[k].covered
  PROVE  f \in Events /\ event[f].state # "absent" /\ event[f].wake = WakeOf(k)
<1>1. f \in Events /\ WakeOf(k) \in Wakes
  BY PassRows DEF Active, Pass
<1>2. event[f].wake = WakeOf(k)
  BY DEF PassKnows
<1> QED
  BY <1>1, <1>2 DEF IInv, RowsInv, Rooted, AbsentEvent, NoWake, Wakes

\* So what the passes know stays true as they go on.
LEMMA PassesGoOn ==
  ASSUME IInv, StepOfRows, ClaimsNothing, KindsKept, LiveInv, LivesOn
  PROVE  PassKnows' /\ UniqueHolder'
<1>0. PassKnows /\ UniqueHolder /\ Booting
  BY DEF LiveInv
<1>1. ASSUME NEW k \in Workers, Active(k)'
      PROVE  /\ Active(k) /\ worker'[k].event = worker[k].event
             /\ worker'[k].ordinal = worker[k].ordinal /\ worker'[k].covered = worker[k].covered
             /\ WakeOf(k)' = WakeOf(k) /\ WakeOf(k) \in Wakes
             /\ event'[worker[k].event].attempts = event[worker[k].event].attempts
             /\ Held(k)' => Held(k)
  <2>1. /\ Active(k) /\ worker'[k].event = worker[k].event
        /\ worker'[k].ordinal = worker[k].ordinal /\ worker'[k].covered = worker[k].covered
    BY <1>1 DEF LivesOn, GoesOn, Active
  <2>2. worker[k].event \in Events /\ event[worker[k].event].state # "absent"
    BY <2>1, PassRows DEF Active
  <2>3. /\ event'[worker[k].event].wake = event[worker[k].event].wake
        /\ event[worker[k].event].wake \in Wakes
    BY <2>2, WakeStays
  <2>4. /\ event'[worker[k].event].attempts = event[worker[k].event].attempts
        /\ event'[worker[k].event].state = "leased" => event[worker[k].event].state = "leased"
    BY <2>2, HoldsBefore
  <2> QED
    BY <2>1, <2>3, <2>4 DEF WakeOf, Held, Token, ClaimOf
<1>2. ASSUME NEW k \in Workers, Active(k)', NEW f \in worker[k].covered
      PROVE  event'[f].wake = WakeOf(k) /\ Owner(f)'
  <2>1. f \in Events /\ event[f].state # "absent" /\ event[f].wake = WakeOf(k) /\ Owner(f)
    BY <1>0, <1>1, <1>2, CoveredRows DEF PassKnows
  <2> QED
    BY <2>1, WakeStays DEF KindsKept, Owner
<1>3. ASSUME NEW k \in Workers, Active(k)', Held(k)', DoneByHolder(WakeOf(k))
      PROVE  FALSE
  BY <1>0, <1>1, <1>3, OneHolder DEF DoneByHolder, Active
<1>4. ASSUME NEW k \in Workers, Active(k)', Held(k)'
      PROVE  HolderKnows(k)'
  <2>1. Held(k) /\ Active(k) /\ HolderKnows(k)
    BY <1>0, <1>1, <1>4 DEF PassKnows
  <2>2. ASSUME NEW f \in worker[k].covered PROVE event'[f].state # "terminal"
    <3>1. /\ f \in Events /\ event[f].wake = WakeOf(k) /\ event[f].state # "terminal"
          /\ Owner(f) /\ event[f].state # "absent"
      BY <1>0, <2>1, CoveredRows DEF HolderKnows, PassKnows
    <3>2. phase # "ownership"
      BY <1>0, <2>1 DEF Booting
    <3>3. ~DoneByHolder(WakeOf(k))
      BY <1>3, <1>4
    <3>4. event[f].state # "reconciling"
      BY <2>1, <3>1, PassRows DEF Held, Active, WakeOf, IInv, RowsInv, OneInvolved
    <3> QED
      BY <3>1, <3>2, <3>3, <3>4 DEF LivesOn, Attributed
  <2>3. ~AnsweredElsewhere(k)
    BY <2>1 DEF AnsweredElsewhere, HolderKnows
  <2>4. /\ worker'[k].stage # "not_applicable"
        /\ worker'[k].stage = "abstained" => "abstain" \in Disturbances
    BY <1>4, <2>1, <2>3 DEF LivesOn, GoesOn, HolderKnows, Active
  <2> QED
    BY <1>1, <1>4, <2>2, <2>4 DEF HolderKnows
<1>5. PassKnows'
  <2> SUFFICES ASSUME NEW k \in Workers, Active(k)'
               PROVE  /\ \A f \in worker'[k].covered : event'[f].wake = WakeOf(k)' /\ Owner(f)'
                      /\ worker'[k].ordinal <= event'[worker'[k].event].attempts
                      /\ Held(k)' => HolderKnows(k)'
    BY DEF PassKnows
  <2> QED
    BY <1>0, <1>1, <1>2, <1>4 DEF PassKnows
<1>6. UniqueHolder'
  BY <1>0, <1>1 DEF UniqueHolder
<1> QED
  BY <1>5, <1>6

\* What exists keeps what guards it.
LEMMA GuardStays ==
  ASSUME IInv, StepOfRows, KindsKept, NEW f \in Events, event[f].state # "absent"
  PROVE  /\ event[f].wake \in Wakes /\ event'[f].wake = event[f].wake
         /\ Owner(f)' <=> Owner(f)
         /\ Guarded(event[f].wake)' <=> Guarded(event[f].wake)
<1>1. wake[event[f].wake].state # "absent" /\ event[f].wake \in Wakes
  BY DEF IInv, RowsInv, Rooted
<1>2. event'[f].wake = event[f].wake
  BY WakeStays
<1> QED
  BY <1>1, <1>2 DEF KindsKept, Owner, Guarded

\* What is kept alive stays alive.
LEMMA AliveStays ==
  ASSUME IInv, StepOfRows, KindsKept, KeptAlive
  PROVE  OwnerLive'
<1> SUFFICES ASSUME NEW f \in Events, Owner(f)', event'[f].state \in Durable,
                    Guarded(event[f].wake)'
             PROVE  wake'[event'[f].wake].state # "terminal"
  BY DEF OwnerLive, Durable
<1>1. CASE event[f].state = "absent"
  BY <1>1 DEF KeptAlive
<1>2. CASE event[f].state # "absent"
  BY <1>2, GuardStays DEF KeptAlive
<1> QED
  BY <1>1, <1>2

\* And with it the whole invariant.
LEMMA LivingOnKeeps ==
  ASSUME IInv, StepOfRows, ClaimsNothing, KindsKept, LiveInv, LivesOn
  PROVE  LiveInv'
<1>1. PassKnows' /\ UniqueHolder'
  BY PassesGoOn
<1>2. OwnerLive'
  BY AliveStays DEF LivesOn
<1>3. SendingQueued'
  BY DEF LivesOn, Attributed, LiveInv, SendingQueued
<1>4. Booting'
  BY DEF LivesOn, Attributed, Booting, Active
<1> QED
  BY <1>1, <1>2, <1>3, <1>4 DEF LiveInv
--------------------------------------------------------------------------------
(* Without deferrals no cycle waits.                                        *)

NoneComesToWait == \A w \in Wakes : cycle'[w].state = "waiting" => cycle[w].state = "waiting"

\* Retiring an ownerless cycle silences it.
LEMMA RetiredStates ==
  ASSUME IInv, NEW wk, NEW v, NEW w \in Wakes
  PROVE  RetireOwnerless(cycle, wk, v)[w].state \in {cycle[w].state, "silent"}
<1>1. \/ RetireOwnerless(cycle, wk, v)[w] = cycle[w]
      \/ RetireOwnerless(cycle, wk, v)[w] = [cycle[w] EXCEPT !.state = "silent"]
  BY DEF RetireOwnerless, IInv, TypeOK
<1> QED
  BY <1>1 DEF IInv, TypeOK, CycleRow

\* So does normalisation.
LEMMA NormalizedStates ==
  ASSUME IInv, NEW w \in Wakes
  PROVE  CyclesNormalized[w].state \in {cycle[w].state, "silent"}
BY RetiredStates DEF CyclesNormalized

\* Only the settlement of a deferred pass puts a cycle off.
LEMMA PassesDoNotWait ==
  ASSUME IInv, NEW k \in Workers, Think(k) \/ Settle(k), ~SettleDeferred(k)
  PROVE  NoneComesToWait
<1>0. cycle \in [Wakes -> CycleRow]
  BY DEF IInv, TypeOK
<1>1. ASSUME NEW w, NEW st \in {"open", "silent", "sending"},
             cycle' = [cycle EXCEPT ![w].state = st]
      PROVE  NoneComesToWait
  BY <1>0, <1>1 DEF CycleRow, NoneComesToWait
<1>2. CASE cycle' = cycle
  BY <1>2 DEF NoneComesToWait
<1>3. ASSUME NEW said \in {"queued", "silence", "mute"}, Publish(k, said)
      PROVE  NoneComesToWait
  <2>1. CASE said = "queued"
    BY <1>1, <1>3, <2>1 DEF Publish
  <2>2. CASE said # "queued"
    BY <1>1, <1>3, <2>2 DEF Publish
  <2> QED
    BY <2>1, <2>2
<1>4. CASE Begin(k)
  BY <1>1, <1>4 DEF Begin
<1>5. CASE Fail(k) \/ Abstain(k) \/ Transfer(k)
  BY <1>1, <1>5 DEF Fail, Abstain, Transfer
<1>6. ASSUME NEW wk, NEW v, cycle' = RetireOwnerless(cycle, wk, v)
      PROVE  NoneComesToWait
  BY <1>6, RetiredStates DEF NoneComesToWait
<1>7. CASE Think(k)
  BY <1>2, <1>3, <1>4, <1>5, <1>7 DEF Think, ModelReturns, FindsStale, StopsForOwnerAnswer,
     PublishRefused, Defer, Throw, HoldCeiling, DispatchEffect
<1>8. CASE SettleTerminal(k) \/ SettleSuperseded(k)
  BY <1>6, <1>8 DEF SettleTerminal, SettleSuperseded
<1>9. CASE Settle(k)
  BY <1>2, <1>8, <1>9 DEF Settle, SettleLost, SettleCompleted, SettleRetry, SettleUnknown
<1> QED
  BY <1>7, <1>9

\* Nor does any other step, when the coordinator has nothing to do.
LEMMA NextDoesNotWait ==
  ASSUME IInv, [Next]_vars, ~Coordinate, \A k \in Workers : ~SettleDeferred(k)
  PROVE  NoneComesToWait
<1>0. cycle \in [Wakes -> CycleRow]
  BY DEF IInv, TypeOK
<1>1. CASE cycle' = cycle
  BY <1>1 DEF NoneComesToWait
<1>2. CASE cycle' = CyclesNormalized
  BY <1>2, NormalizedStates DEF NoneComesToWait
<1>3. CASE Ingress
  <2>1. PICK c \in Conversations, e \in Events, w \in Wakes :
          \/ OwnerOpens(c, e, w) \/ OwnerComposes(c, e, w)
          \/ \E old \in Wakes : OwnerPreempts(c, e, old, w)
          \/ AdmitCompletion(c, e, w) \/ AdmitOwnTime(c, e, w)
    BY <1>3 DEF Ingress
  <2>2. CASE OwnerOpens(c, e, w) \/ AdmitCompletion(c, e, w) \/ AdmitOwnTime(c, e, w)
    <3>1. PICK kind : cycle' = [cycle EXCEPT ![w] = NewCycle(kind, NoWake)]
      BY <2>2 DEF OwnerOpens, AdmitCompletion, AdmitOwnTime
    <3> QED
      BY <1>0, <3>1 DEF NewCycle, NoneComesToWait
  <2>3. ASSUME NEW old \in Wakes, OwnerPreempts(c, e, old, w)
        PROVE  NoneComesToWait
    <3>1. cycle' = [cycle EXCEPT ![old] = [@ EXCEPT !.state = "silent"], ![w] = NewCycle("owner", old)]
      BY <2>3 DEF OwnerPreempts
    <3> QED
      BY <1>0, <3>1 DEF NewCycle, CycleRow, NoneComesToWait
  <2> QED
    BY <1>1, <2>1, <2>2, <2>3 DEF OwnerComposes
<1>4. CASE OwnTime \/ \E k \in Consumers : Poll(k)
  BY <1>1, <1>2, <1>4 DEF OwnTime, LeaveOwnTime, ClaimOwnTime, Claim, Poll, PollFindsNothing,
     PollThrows, PollClaims, Stops
<1>5. CASE \E w \in Wakes : Deliver(w) \/ ResolveEffect(w)
  BY <1>0, <1>1, <1>5 DEF Deliver, ResolveEffect, CycleRow, NoneComesToWait
<1>6. ASSUME NEW Z, cycle' = CyclesRetired(Z)
      PROVE  NoneComesToWait
  BY <1>0, <1>6 DEF CyclesRetired, CycleRow, NoneComesToWait
<1>7. CASE Reconcile
  <2>1. ASSUME NEW e \in Events, AbandonSpent(e) PROVE NoneComesToWait
    BY <2>1, RetiredStates DEF AbandonSpent, NoneComesToWait
  <2> QED
    BY <1>1, <1>6, <1>7, <2>1 DEF Reconcile, RetireOwnerlessCycle, ReconcileStranded, RetireStale,
       ConvergeOrphan
<1>8. CASE Startup \/ Clock \/ Crash \/ UNCHANGED vars
  BY <1>1, <1>6, <1>8 DEF Startup, RecoverWakes, RecoverEvents, ReconcileOwnership, Clock,
     DeadlineElapses, AgeElapses, Crash, Stops, vars
<1>9. ASSUME NEW k \in Workers, Think(k) \/ Settle(k) PROVE NoneComesToWait
  BY <1>9, PassesDoNotWait
<1> QED
  BY <1>3, <1>4, <1>5, <1>7, <1>8, <1>9 DEF Next

\* Which is all that the theorems below ask.
LEMMA StaysUndeferred ==
  ASSUME "defer" \notin Disturbances
  PROVE  /\ Init => Undeferred
         /\ IInv /\ Undeferred /\ [Next]_vars =>
              Undeferred' /\ ~Coordinate /\ \A k \in Workers : ~SettleDeferred(k)
<1>1. Init => Undeferred
  BY NothingDeferred DEF Init, Undeferred, AbsentCycle
<1>2. ASSUME IInv, Undeferred, [Next]_vars
      PROVE  Undeferred' /\ ~Coordinate /\ \A k \in Workers : ~SettleDeferred(k)
  <2>1. NoDeferral' /\ ~Coordinate /\ \A k \in Workers : ~SettleDeferred(k)
    BY <1>2, NothingDeferred DEF Undeferred
  <2> QED
    BY <1>2, <2>1, NextDoesNotWait DEF Undeferred, NoneComesToWait
<1> QED
  BY <1>1, <1>2
--------------------------------------------------------------------------------
(* Claims.                                                                  *)

\* Normalisation ends a wake only when it leaves nothing open on it.
LEMMA NormalizedLive ==
  ASSUME IInv, OwnerLive, NEW e \in Events, Owner(e), Guarded(event[e].wake),
         EventsNormalized[e].state \in Durable
  PROVE  WakesNormalized[event[e].wake].state # "terminal"
<1>1. e \notin Bounded /\ EventsNormalized[e] = EventsPromoted[e]
  <2>1. EventsPromoted[e] \in EventRow
    <3>1. EventsRecovered(Lapsed)[e] \in EventRow
      BY RecoveryTyped DEF IInv
    <3> QED
      BY <3>1 DEF IInv, TypeOK, EventRow, EventStates, EventsPromoted
  <2>2. e \in Bounded => EventsNormalized[e].state = "quarantined"
    BY <2>1 DEF EventsNormalized, EventRow
  <2> QED
    BY <2>2 DEF EventsNormalized, Durable
<1>2. event[e].state \in Durable
  BY <1>1 DEF IInv, TypeOK, EventRow, EventsPromoted, EventsRecovered, RecoveredEvent, Lapsed, Durable
<1>3. /\ event[e].wake \in Wakes /\ wake[event[e].wake].state # "terminal"
      /\ wake[event[e].wake] \in WakeRow
  BY <1>2, OpenIsRooted DEF OwnerLive, IInv, TypeOK
<1>4. event[e].wake \notin ExhaustedWakes
  BY <1>1 DEF ExhaustedWakes
<1>5. WakesRecovered(Lapsed)[event[e].wake].state # "terminal"
  <2>1. WakesRecovered(Lapsed)[event[e].wake]
          \in {wake[event[e].wake], ToPending(wake[event[e].wake]), ToReconciling(wake[event[e].wake])}
    BY <1>3 DEF WakesRecovered
  <2>2. /\ ToPending(wake[event[e].wake]).state = "pending"
        /\ ToReconciling(wake[event[e].wake]).state = "reconciling"
    BY <1>3 DEF ToPending, ToReconciling, WakeRow
  <2> QED
    BY <1>3, <2>1, <2>2
<1> QED
  BY <1>3, <1>4, <1>5 DEF WakesNormalized

\* It ends no message.
LEMMA NormalizedRows ==
  ASSUME IInv, NEW e \in Events, EventsNormalized[e].state = "terminal"
  PROVE  event[e].state = "terminal"
<1>1. event[e] \in EventRow
  BY DEF IInv, TypeOK
<1>2. e \notin Bounded
  <2>1. EventsPromoted[e] \in EventRow
    <3>1. EventsRecovered(Lapsed)[e] \in EventRow
      BY RecoveryTyped DEF IInv
    <3> QED
      BY <1>1, <3>1 DEF EventRow, EventStates, EventsPromoted
  <2> QED
    BY <2>1 DEF EventsNormalized, EventRow
<1>3. EventsPromoted[e].state = "terminal"
  BY <1>2 DEF EventsNormalized
<1>4. ~(event[e].state = "retry_wait" /\ event[e].elapsed)
  BY <1>1, <1>3 DEF EventsPromoted, EventRow
<1>5. EventsRecovered(Lapsed)[e].state = "terminal"
  BY <1>3, <1>4 DEF EventsPromoted
<1>6. RecoveredEvent(e).state # "terminal"
  BY <1>1 DEF RecoveredEvent, EventRow
<1> QED
  BY <1>5, <1>6 DEF EventsRecovered

\* A cycle that normalisation retires does not send.
LEMMA NormalizedCycles ==
  ASSUME IInv, NEW w \in Wakes, CyclesNormalized[w].state = "sending"
  PROVE  cycle[w].state = "sending"
<1>1. CyclesNormalized[w] = cycle[w] \/ CyclesNormalized[w] = [cycle[w] EXCEPT !.state = "silent"]
  BY DEF CyclesNormalized, RetireOwnerless, IInv, TypeOK
<1> QED
  BY <1>1 DEF IInv, TypeOK, CycleRow

\* A pass that claims knows what it covers, and is the only one that holds the claim.
LEMMA ClaimKnows ==
  ASSUME IInv, StepOfRows, KindsKept, LiveInv, NEW k \in Workers, NEW e \in Events, Claim(k, e),
         event[e].state # "absent", phase' = "running"
  PROVE  LiveInv'
<1> DEFINE ev == EventsNormalized
           n  == event[e].attempts + 1
           w  == event[e].wake
<1>0. /\ ev \in [Events -> EventRow] /\ NoNewLease(event, wake, ev, WakesNormalized)
      /\ WakesNormalized \in [Wakes -> WakeRow]
      /\ worker \in [Workers -> Pass] /\ event \in [Events -> EventRow]
  BY NormalizationTyped, NormalizationLeasesNothing DEF IInv, TypeOK
<1>1. w \in Wakes /\ event[e].attempts \in Nat
  BY <1>0 DEF IInv, RowsInv, Rooted, EventRow
<1>2. /\ event' = [ev EXCEPT ![e].state = "leased", ![e].attempts = n, ![e].elapsed = FALSE]
      /\ wake' = [WakesNormalized EXCEPT ![w].state = "authorized", ![w].holder = <<e, n>>]
      /\ cycle' = CyclesNormalized /\ speech' = speech
      /\ worker' = [worker EXCEPT ![k] =
           [stage |-> "claimed", event |-> e, ordinal |-> n,
            covered |-> WaitingOwners([ev EXCEPT ![e].state = "leased", ![e].attempts = n,
                                                 ![e].elapsed = FALSE], w)
                        \cup (IF Owner(e) THEN {e} ELSE {}),
            read |-> {}, successor |-> NoEvent]]
  BY DEF Claim
<1>3. /\ event'[e].state = "leased" /\ event'[e].attempts = n /\ event'[e].wake = w
      /\ event'[e].kind = event[e].kind
      /\ \A f \in Events : f # e => event'[f] = ev[f]
  <2>1. ev[e].wake = w /\ ev[e].kind = event[e].kind
    BY <1>0, NormalizedKinds DEF NoNewLease, ev, w
  <2> HIDE DEF ev, n, w
  <2> QED
    BY <1>0, <1>2, <2>1 DEF EventRow
<1>4. /\ worker'[k].stage = "claimed" /\ worker'[k].event = e /\ worker'[k].ordinal = n
      /\ worker'[k].covered = WaitingOwners(event', w) \cup (IF Owner(e) THEN {e} ELSE {})
      /\ \A j \in Workers : j # k => worker'[j] = worker[j]
  BY <1>0, <1>2
<1> HIDE DEF ev, n, w
<1>5. ASSUME NEW j \in Workers, j # k, Active(j)'
      PROVE  /\ Active(j) /\ worker'[j] = worker[j] /\ worker[j].event \in Events
             /\ WakeOf(j)' = WakeOf(j)
             /\ worker[j].ordinal <= event'[worker[j].event].attempts
             /\ Held(j)' => Held(j) /\ worker[j].event # e
  <2>1. Active(j) /\ worker'[j] = worker[j]
    BY <1>4, <1>5 DEF Active
  <2>2. worker[j].event \in Events /\ event[worker[j].event].state # "absent" /\ worker[j] \in Pass
    BY <2>1, PassRows DEF Active
  <2>3. event'[worker[j].event].wake = event[worker[j].event].wake
    BY <2>2, WakeStays
  <2>4. worker[j].ordinal <= event[worker[j].event].attempts /\ worker[j].ordinal \in Nat
        /\ event[worker[j].event].attempts \in Nat
    BY <1>0, <2>1, <2>2 DEF LiveInv, PassKnows, Pass, EventRow
  <2>5. CASE worker[j].event = e
    <3>1. worker[j].ordinal < event'[e].attempts
      BY <1>3, <2>4, <2>5 DEF n
    <3>2. ~Held(j)'
      BY <2>1, <2>4, <2>5, <3>1 DEF Held, Token, ClaimOf
    <3> QED
      BY <1>1, <1>3, <2>1, <2>2, <2>3, <2>4, <2>5, <3>1, <3>2 DEF WakeOf, n
  <2>6. CASE worker[j].event # e
    <3>1. /\ event'[worker[j].event].attempts = event[worker[j].event].attempts
          /\ event'[worker[j].event].state = "leased" => event[worker[j].event].state = "leased"
      BY <1>0, <1>3, <2>2, <2>6 DEF NoNewLease
    <3> QED
      BY <2>1, <2>2, <2>3, <2>4, <2>6, <3>1 DEF WakeOf, Held, Token, ClaimOf
  <2> QED
    BY <2>5, <2>6
<1>6. PassKnows'
  <2>1. ASSUME NEW j \in Workers, Active(j)'
        PROVE  /\ \A f \in worker'[j].covered : event'[f].wake = WakeOf(j)' /\ Owner(f)'
               /\ worker'[j].ordinal <= event'[worker'[j].event].attempts
               /\ Held(j)' => HolderKnows(j)'
    <3>1. CASE j = k
      <4>1. WakeOf(k)' = w
        BY <1>3, <1>4 DEF WakeOf
      <4>2. \A f \in worker'[k].covered :
              event'[f].wake = w /\ event'[f].state # "terminal" /\ Owner(f)'
        BY <1>3, <1>4 DEF WaitingOwners, Claimable, Owner
      <4>3. worker'[k].ordinal <= event'[worker'[k].event].attempts
        BY <1>1, <1>3, <1>4 DEF n
      <4> QED
        BY <1>4, <3>1, <4>1, <4>2, <4>3 DEF HolderKnows
    <3>2. CASE j # k
      <4>1. /\ \A f \in worker[j].covered :
                 f \in Events /\ event[f].state # "absent" /\ event[f].wake = WakeOf(j) /\ Owner(f)
            /\ Held(j) => HolderKnows(j)
        BY <1>5, <2>1, <3>2, CoveredRows DEF LiveInv, PassKnows
      <4>2. \A f \in worker[j].covered : event'[f].wake = WakeOf(j) /\ Owner(f)'
        BY <4>1, WakeStays DEF KindsKept, Owner
      <4>3. \A f \in Events : event'[f].state = "terminal" => event[f].state = "terminal"
        BY <1>3, NormalizedRows DEF ev
      <4>4. Held(j)' => HolderKnows(j)'
        BY <1>5, <2>1, <3>2, <4>1, <4>3 DEF HolderKnows
      <4> QED
        BY <1>5, <2>1, <3>2, <4>2, <4>4
    <3> QED
      BY <3>1, <3>2
  <2> QED
    BY <2>1 DEF PassKnows
<1>7. UniqueHolder'
  <2> SUFFICES ASSUME NEW i \in Workers, NEW j \in Workers, Active(i)', Active(j)', Held(i)', Held(j)',
                      worker'[i].event = worker'[j].event
               PROVE  i = j
    BY DEF UniqueHolder
  <2>1. CASE i = k \/ j = k
    BY <1>4, <1>5, <2>1
  <2>2. CASE i # k /\ j # k
    BY <1>5, <2>2 DEF LiveInv, UniqueHolder
  <2> QED
    BY <2>1, <2>2
<1>8. SendingQueued'
  BY <1>2, NormalizedCycles DEF LiveInv, SendingQueued
<1>9. Booting'
  BY DEF Booting
<1>10. OwnerLive'
  <2> SUFFICES ASSUME NEW f \in Events, Owner(f)', event'[f].state \in Durable,
                      Guarded(event[f].wake)'
               PROVE  wake'[event'[f].wake].state # "terminal"
    BY DEF OwnerLive, Durable
  <2>1. wake'[w].state = "authorized" /\ \A v \in Wakes : v # w => wake'[v] = WakesNormalized[v]
    BY <1>0, <1>1, <1>2 DEF WakeRow
  <2>2. CASE f = e
    BY <1>3, <2>1, <2>2
  <2>3. CASE f # e
    <3>1. ev[f].state \in Durable /\ event'[f] = ev[f] /\ ev[f].wake = event[f].wake
      BY <1>0, <1>3, <2>3 DEF NoNewLease
    <3>2. event[f].state # "absent"
      BY <1>0, <3>1 DEF NoNewLease, Durable, AbsentEvent
    <3>3. event[f].wake \in Wakes /\ Owner(f) /\ Guarded(event[f].wake)
      BY <3>2, GuardStays
    <3>4. WakesNormalized[event[f].wake].state # "terminal"
      BY <3>1, <3>3, NormalizedLive DEF LiveInv, ev
    <3> QED
      BY <2>1, <3>1, <3>3, <3>4
  <2> QED
    BY <2>2, <2>3
<1> QED
  BY <1>6, <1>7, <1>8, <1>9, <1>10 DEF LiveInv
--------------------------------------------------------------------------------
(* Passes.                                                                  *)

\* A step that ends no message and makes no cycle send.
LEMMA NothingToAttribute ==
  ASSUME \A f \in Events : event'[f].state = "terminal" => event[f].state = "terminal",
         \A w \in Wakes : cycle'[w].state = "sending" =>
           cycle[w].state = "sending" /\ speech'[w] = speech[w],
         phase' \in {"running", "claiming"} \/ \A k \in Workers : worker'[k].stage = "idle"
  PROVE  Attributed
BY DEF Attributed

\* A step that brings no message and ends no wake.
LEMMA NothingToKeep ==
  ASSUME IInv, LiveInv,
         \A f \in Events : event'[f].state \in Durable =>
           event[f].state \in Durable /\ event'[f].wake = event[f].wake,
         \A w \in Wakes : wake[w].state # "terminal" => wake'[w].state # "terminal"
  PROVE  KeptAlive
<1> SUFFICES ASSUME NEW f \in Events, event'[f].state \in Durable,
                    event[f].state \in Durable, event'[f].wake = event[f].wake,
                    Owner(f), Guarded(event[f].wake)
             PROVE  wake'[event'[f].wake].state # "terminal"
  BY DEF KeptAlive, Durable
<1> QED
  BY OpenIsRooted DEF LiveInv, OwnerLive

\* Recovery ends no wake, and no message.
LEMMA RecoveredRows ==
  ASSUME IInv, LiveInv, NEW L \in SUBSET Events, \A e \in L : event[e].state = "leased",
         event' = EventsRecovered(L), wake' = WakesRecovered(L)
  PROVE  /\ KeptAlive
         /\ \A f \in Events : event'[f].state = "terminal" => event[f].state = "terminal"
<1>1. \A f \in Events :
        /\ event'[f].wake = event[f].wake
        /\ \/ event'[f].state = event[f].state
           \/ event[f].state = "leased" /\ event'[f].state \in {"pending", "reconciling"}
  <2> TAKE f \in Events
  <2>1. event[f] \in EventRow
    BY DEF IInv, TypeOK
  <2>2. CASE f \in L
    <3>1. event'[f] = RecoveredEvent(f)
      BY <2>2 DEF EventsRecovered
    <3> QED
      BY <2>1, <2>2, <3>1 DEF RecoveredEvent, EventRow
  <2>3. CASE f \notin L
    BY <2>3 DEF EventsRecovered
  <2> QED
    BY <2>2, <2>3
<1>2. ASSUME NEW w \in Wakes, wake[w].state # "terminal"
      PROVE  wake'[w].state # "terminal"
  <2>1. wake'[w] \in {wake[w], ToPending(wake[w]), ToReconciling(wake[w])}
    BY DEF WakesRecovered
  <2>2. /\ ToPending(wake[w]).state = "pending" /\ ToReconciling(wake[w]).state = "reconciling"
    BY <1>2 DEF ToPending, ToReconciling, IInv, TypeOK, WakeRow
  <2> QED
    BY <1>2, <2>1, <2>2
<1>3. \A f \in Events : event'[f].state \in Durable => event[f].state \in Durable
  BY <1>1 DEF Durable
<1>4. KeptAlive
  BY <1>1, <1>2, <1>3, NothingToKeep
<1> QED
  BY <1>1, <1>4

\* A pass that thinks ends nothing, and abstains as the holder of its claim only if the
\* model does.
LEMMA ThinkLives ==
  ASSUME IInv, LiveInv, NEW k \in Workers, Think(k)
  PROVE  LivesOn
<1>0. /\ worker \in [Workers -> Pass] /\ speech \in [Wakes -> SpeechStates]
      /\ wake \in [Wakes -> WakeRow] /\ cycle \in [Wakes -> CycleRow]
  BY DEF IInv, TypeOK
<1>1. /\ WakeOf(k) \in Wakes /\ worker[k].event \in Events
      /\ worker[k] \in Pass /\ Active(k) /\ phase' = "running"
  <2>1. worker[k].stage # "idle" /\ phase' = "running"
    BY DEF Think, Begin, ModelReturns, FindsStale, StopsForOwnerAnswer, PublishRefused, Publish,
           Publishing, Fail, Abstain, Transfer, Defer, Throw, HoldCeiling, DispatchEffect, Running
  <2> QED
    BY <2>1, PassRows DEF Active
<1>2. \A s : Stage(k, s) => /\ worker'[k].stage = s /\ worker'[k].event = worker[k].event
                            /\ worker'[k].ordinal = worker[k].ordinal
                            /\ worker'[k].covered = worker[k].covered
                            /\ \A j \in Workers : j # k => worker'[j] = worker[j]
  BY <1>0, <1>1 DEF Stage, Pass
<1>3. ASSUME NEW s, Stage(k, s), s = "not_applicable" => AnsweredElsewhere(k),
             s = "abstained" => "abstain" \in Disturbances \/ ~Held(k)
      PROVE  \A j \in Workers : GoesOn(j)
  BY <1>1, <1>2, <1>3 DEF GoesOn
<1>4. ASSUME UNCHANGED <<event, wake, speech>>, \A j \in Workers : GoesOn(j),
             \A w \in Wakes : cycle'[w].state = "sending" => cycle[w].state = "sending"
      PROVE  LivesOn
  BY <1>1, <1>4, NothingToAttribute, NothingToKeep DEF LivesOn
<1>5. CASE Begin(k)
  <2>1. \A w \in Wakes : cycle'[w].state = "sending" => cycle[w].state = "sending"
    BY <1>0, <1>1, <1>5 DEF Begin, CycleRow
  <2>2. \A j \in Workers : GoesOn(j)
    BY <1>3, <1>5 DEF Begin, Replayed
  <2> QED
    BY <1>4, <1>5, <2>1, <2>2 DEF Begin
<1>6. CASE ModelReturns(k)
  <2>1. /\ worker'[k].stage = "drafted" /\ worker'[k].event = worker[k].event
        /\ worker'[k].ordinal = worker[k].ordinal /\ worker'[k].covered = worker[k].covered
        /\ \A j \in Workers : j # k => worker'[j] = worker[j]
    BY <1>0, <1>1, <1>6 DEF ModelReturns, Pass
  <2>2. \A j \in Workers : GoesOn(j)
    BY <1>1, <2>1 DEF GoesOn
  <2> QED
    BY <1>4, <1>6, <2>2 DEF ModelReturns
<1>7. CASE FindsStale(k)
  <2>1. CASE Stage(k, "stale")
    BY <1>3, <1>4, <1>7, <2>1 DEF FindsStale
  <2>2. ASSUME NEW f, worker' = [worker EXCEPT ![k] = [@ EXCEPT !.stage = "superseded", !.successor = f]]
        PROVE  LivesOn
    <3>1. /\ worker'[k].stage = "superseded" /\ worker'[k].event = worker[k].event
          /\ worker'[k].ordinal = worker[k].ordinal /\ worker'[k].covered = worker[k].covered
          /\ \A j \in Workers : j # k => worker'[j] = worker[j]
      BY <1>0, <1>1, <2>2 DEF Pass
    <3>2. \A j \in Workers : GoesOn(j)
      BY <1>1, <3>1 DEF GoesOn
    <3> QED
      BY <1>4, <1>7, <3>2 DEF FindsStale
  <2> QED
    BY <1>7, <2>1, <2>2 DEF FindsStale
<1>8. CASE StopsForOwnerAnswer(k)
  <2>1. ~AnsweredElsewhere(k) => ~Held(k)
    BY <1>8 DEF StopsForOwnerAnswer, MayAnswer, AttemptLost
  <2>2. \A j \in Workers : GoesOn(j)
    BY <1>3, <1>8, <2>1 DEF StopsForOwnerAnswer
  <2> QED
    BY <1>4, <1>8, <2>2 DEF StopsForOwnerAnswer
<1>9. CASE PublishRefused(k) \/ Defer(k) \/ Throw(k)
  <2>1. PICK s \in {"rejected", "replayed", "deferred", "thrown"} : Stage(k, s)
    BY <1>9 DEF PublishRefused, Defer, Throw, Replayed
  <2>2. \A j \in Workers : GoesOn(j)
    BY <1>3, <2>1
  <2> QED
    BY <1>4, <1>9, <2>2 DEF PublishRefused, Defer, Throw
<1>10. CASE Fail(k) \/ Abstain(k) \/ Transfer(k)
  <2>1. PICK s \in {"failed", "abstained", "transferred"} :
          Stage(k, s) /\ (s = "abstained" => "abstain" \in Disturbances)
    BY <1>10 DEF Fail, Abstain, Transfer
  <2>2. \A j \in Workers : GoesOn(j)
    BY <1>3, <2>1
  <2>3. \A w \in Wakes : cycle'[w].state = "sending" => cycle[w].state = "sending"
    BY <1>0, <1>1, <1>10 DEF Fail, Abstain, Transfer, CycleRow
  <2> QED
    BY <1>4, <1>10, <2>2, <2>3 DEF Fail, Abstain, Transfer
<1>11. ASSUME NEW said \in {"queued", "silence", "mute"}, Publish(k, said)
       PROVE  LivesOn
  <2>1. PICK s \in {"answered", "rejected"} : Stage(k, s)
    BY <1>11 DEF Publish
  <2>2. \A j \in Workers : GoesOn(j)
    BY <1>3, <2>1
  <2>3. \A w \in Wakes : wake[w].state # "terminal" => wake'[w].state # "terminal"
    BY <1>0, <1>1, <1>11 DEF Publish, WakeRow
  <2>4. /\ speech' = [speech EXCEPT ![WakeOf(k)] = said] /\ UNCHANGED <<event, phase>>
        /\ cycle' = [cycle EXCEPT ![WakeOf(k)].state = IF said = "queued" THEN "sending" ELSE "silent"]
    BY <1>11 DEF Publish
  <2>5. \A w \in Wakes : cycle'[w].state = "sending" =>
          (cycle[w].state = "sending" /\ speech'[w] = speech[w]) \/ speech'[w] = "queued"
    BY <1>0, <1>1, <2>4 DEF CycleRow
  <2>6. Attributed
    BY <1>1, <2>4, <2>5 DEF Attributed
  <2>7. KeptAlive
    BY <2>3, <2>4, NothingToKeep
  <2> QED
    BY <2>2, <2>6, <2>7 DEF LivesOn
<1>12. CASE HoldCeiling(k)
  <2> DEFINE L == Lapsed \cup {worker[k].event}
  <2>1. L \in SUBSET Events /\ \A e \in L : event[e].state = "leased"
    BY <1>1, <1>12 DEF HoldCeiling, Held, Lapsed
  <2>2. event' = EventsRecovered(L) /\ wake' = WakesRecovered(L) /\ UNCHANGED <<cycle, speech, worker>>
    BY <1>12 DEF HoldCeiling
  <2> HIDE DEF L
  <2>3. KeptAlive /\ \A f \in Events : event'[f].state = "terminal" => event[f].state = "terminal"
    BY <2>1, <2>2, RecoveredRows
  <2>4. Attributed
    BY <1>1, <2>2, <2>3, NothingToAttribute
  <2> QED
    BY <2>2, <2>3, <2>4 DEF LivesOn, GoesOn
<1>13. CASE DispatchEffect(k)
  BY <1>4, <1>13 DEF DispatchEffect, GoesOn
<1> QED
  BY <1>5, <1>6, <1>7, <1>8, <1>9, <1>10, <1>11, <1>12, <1>13 DEF Think
--------------------------------------------------------------------------------
(* Settlements.                                                             *)

\* What else is open on the wake of a leased row waits to be claimed.
LEMMA SiblingsWait ==
  ASSUME IInv, NEW e \in Events, event[e].state = "leased", NEW f \in Events, f # e,
         event[f].wake = event[e].wake, event[f].state \in Durable
  PROVE  event[f].state \in Claimable
BY DEF IInv, RowsInv, OneInvolved, Durable, Claimable

\* Exhaustion, supersession and completion spare the wake that still has open work.
LEMMA FinishLive ==
  ASSUME IInv, LiveInv, NEW e \in Events, event[e].state = "leased", NEW ev,
         NEW reason \in {"quarantined", "superseded", "completed"},
         \A f \in Events : ev[f] = event[f] \/ ev[f].state \notin Durable,
         ev[e].wake = event[e].wake, ev[e].state \notin Durable \/ ~Owner(e),
         NEW f \in Events, ev[f].state \in Durable, Owner(f), Guarded(event[f].wake)
  PROVE  WakeFinished(ev, e, reason)[ev[f].wake].state # "terminal"
<1>1. ev[f] = event[f] /\ f # e
  OBVIOUS
<1>2. /\ event[f].wake \in Wakes /\ wake[event[f].wake].state # "terminal"
      /\ wake[event[f].wake] \in WakeRow
  BY <1>1, OpenIsRooted DEF LiveInv, OwnerLive, IInv, TypeOK
<1>3. CASE event[f].wake # event[e].wake
  BY <1>1, <1>2, <1>3 DEF WakeFinished, IInv, TypeOK
<1>4. CASE event[f].wake = event[e].wake
  <2>1. Others(ev, e, Durable) /\ Others(ev, e, Claimable)
    BY <1>1, <1>4, SiblingsWait DEF Others
  <2>2. KeepsWakeOpen(ev, e, reason)
    BY <2>1 DEF KeepsWakeOpen
  <2>3. WakeFinished(ev, e, reason)[event[f].wake] = ToPending(wake[event[f].wake])
    BY <1>2, <1>4, <2>2 DEF WakeFinished, IInv, TypeOK
  <2>4. ToPending(wake[event[f].wake]).state = "pending"
    BY <1>2 DEF ToPending, WakeRow
  <2> QED
    BY <1>1, <2>3, <2>4
<1> QED
  BY <1>3, <1>4

\* Retiring an ownerless cycle makes none send.
LEMMA RetiredSends ==
  ASSUME IInv, NEW wk, NEW v, NEW w \in Wakes, RetireOwnerless(cycle, wk, v)[w].state = "sending"
  PROVE  cycle[w].state = "sending"
<1>1. \/ RetireOwnerless(cycle, wk, v)[w] = cycle[w]
      \/ RetireOwnerless(cycle, wk, v)[w] = [cycle[w] EXCEPT !.state = "silent"]
  BY DEF RetireOwnerless, IInv, TypeOK
<1> QED
  BY <1>1 DEF IInv, TypeOK, CycleRow

\* Work that is no longer wanted is not an Owner's, and no Owner waits on its wake.
LEMMA UnwantedApart ==
  ASSUME IInv, HolderInv, OwnTimeApart, LiveInv, NEW k \in Workers, Active(k), Held(k), NoAction(k),
         NEW f \in Events, event[f].state # "absent", event[f].wake = WakeOf(k), Owner(f)
  PROVE  ~Guarded(WakeOf(k)) /\ f # worker[k].event
<1> DEFINE e == worker[k].event
<1>1. worker[k].stage = "abstained" /\ ~Owner(e) /\ "abstain" \in Disturbances
  BY DEF NoAction, LiveInv, PassKnows, HolderKnows
<1>2. e \in Events /\ event[e].state # "absent" /\ event[e].wake = WakeOf(k)
  BY PassRows DEF Active, WakeOf
<1>3. event[e].kind \in Kinds /\ event[e].kind # "own_time"
  BY <1>2 DEF OwnTimeApart, Owner
<1>4. "completion" \in Kinds
  BY <1>1, <1>3, ConstantsAssumption DEF Owner, AllKinds
<1>5. cycle[WakeOf(k)].trigger # "owner"
  BY <1>1, <1>2 DEF HolderInv, OwnersOnTheirCycles
<1> QED
  BY <1>1, <1>4, <1>5 DEF Guarded, AbstentionsApart

\* A pass that settles ends only what it holds.
LEMMA SettleLives ==
  ASSUME IInv, HolderInv, OwnTimeApart, LiveInv, NEW k \in Workers, Settle(k), ~SettleDeferred(k)
  PROVE  LivesOn
<1> DEFINE e == worker[k].event
           w == WakeOf(k)
<1>0. /\ event \in [Events -> EventRow] /\ wake \in [Wakes -> WakeRow] /\ worker \in [Workers -> Pass]
  BY DEF IInv, TypeOK
<1>1. /\ Settling(k) /\ phase' = "running" /\ speech' = speech
      /\ worker' = [worker EXCEPT ![k] = IdleWorker]
  BY DEF Settle, SettleLost, SettleCompleted, SettleRetry, SettleTerminal, SettleSuperseded,
         SettleUnknown, Freed
<1>2. Active(k) /\ e \in Events /\ event[e].wake = w /\ w \in Wakes /\ event[e].state # "absent"
  BY <1>1, PassRows DEF Settling, Active, WakeOf
<1>3. worker'[k].stage = "idle" /\ \A j \in Workers : GoesOn(j)
  BY <1>0, <1>1 DEF GoesOn, IdleWorker
<1>4. \A st, reason : \A f \in Events :
        /\ Closed(event[f], st, reason).state = st
        /\ Closed(event[f], st, reason).wake = event[f].wake
  BY <1>0 DEF Closed, EventRow
<1>5. \A v \in Wakes : cycle'[v].state = "sending" => cycle[v].state = "sending"
  BY RetiredSends DEF Settle, SettleLost, SettleCompleted, SettleRetry, SettleTerminal,
                      SettleSuperseded, SettleUnknown
<1>6. CASE ~Held(k)
  <2>1. UNCHANGED <<event, wake>>
    BY <1>6 DEF Settle, SettleLost, SettleCompleted, SettleRetry, SettleTerminal,
                SettleSuperseded, SettleUnknown
  <2> QED
    BY <1>1, <1>3, <1>5, <2>1, NothingToAttribute, NothingToKeep DEF LivesOn
<1>7. CASE Held(k)
  <2>1. /\ event[e].state = "leased"
        /\ \A f \in worker[k].covered : f \in Events /\ event[f].state # "absent" /\ event[f].wake = w
    BY <1>2, <1>7, CoveredRows DEF LiveInv, Held
  <2>2. DoneByHolder(w)
    BY <1>2, <1>3, <1>7 DEF DoneByHolder
  <2>3. ASSUME \A f \in Events : event'[f] = event[f] \/ event[f].wake = w
        PROVE  Attributed
    BY <1>1, <1>5, <2>2, <2>3 DEF Attributed
  <2>4. ASSUME NEW ev, NEW reason \in {"quarantined", "superseded", "completed"},
               event' = ev, wake' = WakeFinished(ev, e, reason),
               \A f \in Events : \/ ev[f] = event[f]
                                 \/ event[f].wake = w /\ ev[f].state \notin Durable,
               ev[e].wake = event[e].wake, ev[e].state \notin Durable \/ ~Owner(e)
        PROVE  LivesOn
    <3>1. ASSUME NEW f \in Events, event'[f].state \in Durable
          PROVE  /\ event[f].state # "absent"
                 /\ Owner(f) /\ Guarded(event[f].wake) => wake'[event[f].wake].state # "terminal"
      <4>1. event[f].state # "absent"
        BY <2>4, <3>1 DEF Durable
      <4>2. ASSUME Owner(f), Guarded(event[f].wake)
            PROVE  WakeFinished(ev, e, reason)[ev[f].wake].state # "terminal"
        BY <1>2, <2>1, <2>4, <3>1, <4>2, FinishLive
      <4>3. ev[f] = event[f]
        BY <2>4, <3>1
      <4> QED
        BY <2>4, <4>1, <4>2, <4>3
    <3>2. KeptAlive
      BY <3>1 DEF KeptAlive
    <3>3. Attributed
      BY <2>3, <2>4
    <3> QED
      BY <1>3, <3>2, <3>3 DEF LivesOn
  <2>5. CASE SettleCompleted(k)
    <3>1. event' = EventsCompleted(k) /\ wake' = WakeFinished(EventsCompleted(k), e, "completed")
      BY <2>5 DEF SettleCompleted
    <3>2. \A f \in Events : \/ EventsCompleted(k)[f] = event[f]
                            \/ event[f].wake = w /\ EventsCompleted(k)[f].state \notin Durable
      BY <1>2, <1>4 DEF EventsCompleted, Durable
    <3>3. EventsCompleted(k)[e].wake = event[e].wake /\ EventsCompleted(k)[e].state \notin Durable
      BY <1>2, <1>4 DEF EventsCompleted, Durable
    <3> QED
      BY <2>4, <3>1, <3>2, <3>3
  <2>6. CASE SettleRetry(k) \/ SettleUnknown(k)
    <3>1. PICK st \in {"retry_wait", "reconciling"} :
            event' = [event EXCEPT ![e].state = st, ![e].elapsed = FALSE]
      BY <2>6 DEF SettleRetry, SettleUnknown
    <3>2. /\ wake' = [wake EXCEPT ![w] = ToPending(@)] \/ wake' = [wake EXCEPT ![w] = ToReconciling(@)]
      BY <2>6 DEF SettleRetry, SettleUnknown
    <3>3. /\ event'[e].state = st /\ event'[e].wake = event[e].wake
          /\ \A f \in Events : f # e => event'[f] = event[f]
      BY <1>0, <1>2, <3>1 DEF EventRow
    <3>4. Attributed
      BY <1>2, <2>3, <3>3
    <3>5. \A v \in Wakes : wake[v].state # "terminal" => wake'[v].state # "terminal"
      BY <1>0, <1>2, <3>2 DEF WakeRow, ToPending, ToReconciling
    <3>6. KeptAlive
      BY <2>1, <3>3, <3>5, NothingToKeep DEF Durable
    <3> QED
      BY <1>3, <3>4, <3>6 DEF LivesOn
  <2>7. CASE SettleTerminal(k) /\ NeedsRetry(k)
    <3>1. event' = EventsExhausted(k) /\ wake' = WakeFinished(EventsExhausted(k), e, "quarantined")
      BY <2>7 DEF SettleTerminal
    <3>2. /\ EventsExhausted(k)[e].state = "quarantined" /\ EventsExhausted(k)[e].wake = event[e].wake
          /\ \A f \in Events : f # e => EventsExhausted(k)[f] = event[f]
      BY <1>0, <1>2, <1>4 DEF EventsExhausted
    <3>3. \A f \in Events : \/ EventsExhausted(k)[f] = event[f]
                            \/ event[f].wake = w /\ EventsExhausted(k)[f].state \notin Durable
      BY <1>2, <3>2 DEF Durable
    <3> QED
      BY <2>4, <3>1, <3>2, <3>3 DEF Durable
  <2>8. CASE SettleTerminal(k) /\ ~NeedsRetry(k)
    <3>1. /\ event' = EventsStale(k) /\ wake' = WakeFinished(EventsStale(k), e, "no_action")
          /\ NoAction(k)
      BY <2>8 DEF SettleTerminal
    <3>2. /\ event'[e].state = "terminal" /\ \A f \in Events : f # e => event'[f] = event[f]
      BY <1>0, <1>2, <1>4, <3>1 DEF EventsStale
    <3>3. \A v \in Wakes : v # w => wake'[v] = wake[v]
      BY <1>2, <3>1 DEF WakeFinished
    <3>4. ASSUME NEW f \in Events, event'[f].state \in Durable
          PROVE  /\ event[f].state # "absent"
                 /\ Owner(f) /\ Guarded(event[f].wake) => wake'[event[f].wake].state # "terminal"
      <4>1. event'[f] = event[f] /\ event[f].state \in Durable
        BY <3>2, <3>4 DEF Durable
      <4>2. event[f].state # "absent"
        BY <4>1 DEF Durable
      <4>3. ASSUME Owner(f), Guarded(event[f].wake)
            PROVE  event[f].wake # w /\ event[f].wake \in Wakes /\ wake[event[f].wake].state # "terminal"
        <5>1. event[f].wake # w
          BY <1>2, <1>7, <3>1, <4>2, <4>3, UnwantedApart
        <5>2. wake[event[f].wake].state # "terminal"
          BY <4>1, <4>3 DEF LiveInv, OwnerLive
        <5> QED
          BY <4>1, <5>1, <5>2, OpenIsRooted
      <4> QED
        BY <3>3, <4>1, <4>2, <4>3
    <3>5. KeptAlive
      BY <3>4 DEF KeptAlive
    <3>6. Attributed
      BY <1>2, <2>3, <3>2
    <3> QED
      BY <1>3, <3>5, <3>6 DEF LivesOn
  <2>9. CASE SettleSuperseded(k)
    <3>1. event' = EventsSuperseded(k) /\ wake' = WakeFinished(EventsSuperseded(k), e, "superseded")
      BY <2>9 DEF SettleSuperseded
    <3>2. Owner(e) => e \in worker[k].covered
      BY <1>2 DEF HolderInv, OwnerCovered, Active
    <3>3. \A f \in Events :
            IF f \in worker[k].covered
            THEN EventsSuperseded(k)[f].state = "terminal" /\ EventsSuperseded(k)[f].wake = event[f].wake
            ELSE EventsSuperseded(k)[f] = event[f]
      BY <1>4, <2>1 DEF EventsSuperseded
    <3>4. \A f \in Events : \/ EventsSuperseded(k)[f] = event[f]
                            \/ event[f].wake = w /\ EventsSuperseded(k)[f].state \notin Durable
      BY <2>1, <3>3 DEF Durable
    <3>5. /\ EventsSuperseded(k)[e].wake = event[e].wake
          /\ EventsSuperseded(k)[e].state \notin Durable \/ ~Owner(e)
      BY <1>2, <3>2, <3>3 DEF Durable
    <3> QED
      BY <2>4, <3>1, <3>4, <3>5
  <2> QED
    BY <1>7, <2>5, <2>6, <2>7, <2>8, <2>9 DEF Settle, SettleLost
<1> QED
  BY <1>6, <1>7
--------------------------------------------------------------------------------
(* Everything else.                                                         *)

\* A step that ends no message and no wake, and makes no cycle send.
LEMMA EndsNothing ==
  ASSUME IInv, LiveInv,
         \A f \in Events : /\ event'[f].wake = event[f].wake
                           /\ \/ event'[f].state = event[f].state
                              \/ {event[f].state, event'[f].state} \subseteq Durable,
         \A w \in Wakes : /\ wake[w].state # "terminal" => wake'[w].state # "terminal"
                          /\ cycle'[w].state = "sending" =>
                               cycle[w].state = "sending" /\ speech'[w] = speech[w],
         phase' \in {"running", "claiming"} \/ \A k \in Workers : worker'[k].stage = "idle"
  PROVE  Attributed /\ KeptAlive
<1>1. Attributed
  <2>1. \A f \in Events : event'[f].state = "terminal" => event[f].state = "terminal"
    BY DEF Durable
  <2> QED
    BY <2>1, NothingToAttribute
<1>2. KeptAlive
  <2>1. \A f \in Events : event'[f].state \in Durable => event[f].state \in Durable
    OBVIOUS
  <2> QED
    BY <2>1, NothingToKeep
<1> QED
  BY <1>1, <1>2

\* Passes that are left alone go on.
LEMMA PassesStay ==
  ASSUME LiveInv, worker' = worker
  PROVE  /\ \A k \in Workers : GoesOn(k)
         /\ phase' = phase =>
              phase' \in {"running", "claiming"} \/ \A k \in Workers : worker'[k].stage = "idle"
BY DEF GoesOn, LiveInv, Booting, Active

\* The clock changes no state.
LEMMA ClockLives ==
  ASSUME IInv, LiveInv, Clock
  PROVE  LivesOn
<1>1. PICK e \in Events : DeadlineElapses(e) \/ AgeElapses(e)
  BY DEF Clock
<1>2. UNCHANGED <<wake, cycle, speech, worker, phase>>
  BY <1>1 DEF DeadlineElapses, AgeElapses
<1>3. \A f \in Events : event'[f].wake = event[f].wake /\ event'[f].state = event[f].state
  BY <1>1 DEF DeadlineElapses, AgeElapses, IInv, TypeOK, EventRow
<1> QED
  BY <1>2, <1>3, EndsNothing, PassesStay DEF LivesOn

\* A process that stops loses its passes.
LEMMA StopLives ==
  ASSUME IInv, LiveInv, Stops
  PROVE  LivesOn
<1>1. \A k \in Workers : worker'[k].stage = "idle"
  BY DEF Stops, IdleWorker
<1>2. UNCHANGED <<event, wake, cycle, speech>>
  BY DEF Stops
<1> QED
  BY <1>1, <1>2, EndsNothing DEF LivesOn, GoesOn

\* A cycle without an owner is one whose wake has ended.
LEMMA OwnerlessIsOver ==
  ASSUME IInv, LiveInv, Undeferred, NEW w \in Ownerless
  PROVE  w \in Wakes /\ wake[w].state = "terminal" /\ cycle[w].state = "open"
BY DEF Undeferred, Ownerless, ValidOwner, Occupying, LiveInv, SendingQueued

\* So to retire it ends no wake.
LEMMA WakesAreOver ==
  ASSUME IInv, LiveInv, Undeferred, NEW Z \in SUBSET Ownerless, NEW w \in Wakes
  PROVE  /\ WakesRetired(Z)[w] = wake[w]
         /\ CyclesRetired(Z)[w].state = "sending" =>
              cycle[w].state = "sending" /\ SpeechRetired(Z)[w] = speech[w]
<1>1. WakesRetired(Z)[w] = wake[w]
  BY OwnerlessIsOver DEF WakesRetired
<1>2. CyclesRetired(Z)[w].state = "sending" =>
        cycle[w].state = "sending" /\ SpeechRetired(Z)[w] = speech[w]
  BY DEF SpeechRetired, CyclesRetired, IInv, TypeOK, CycleRow
<1> QED
  BY <1>1, <1>2

\* Delivery, the receipt of an effect and the steady-state reconciliation, which gives up
\* own time, what has long been unknown, and wakes that nobody waits on.
LEMMA ReconcileLives ==
  ASSUME IInv, OwnTimeApart, LiveInv, Undeferred,
         Reconcile \/ \E w \in Wakes : Deliver(w) \/ ResolveEffect(w)
  PROVE  LivesOn
<1>0. /\ event \in [Events -> EventRow] /\ wake \in [Wakes -> WakeRow] /\ cycle \in [Wakes -> CycleRow]
      /\ speech \in [Wakes -> SpeechStates]
  BY DEF IInv, TypeOK
<1>1. ASSUME NEW w \in Wakes, Deliver(w) \/ ResolveEffect(w)
      PROVE  LivesOn
  <2>1. UNCHANGED <<event, wake, worker, phase>>
    BY <1>1 DEF Deliver, ResolveEffect
  <2>2. \A v \in Wakes : cycle'[v].state = "sending" =>
          cycle[v].state = "sending" /\ speech'[v] = speech[v]
    BY <1>0, <1>1 DEF Deliver, ResolveEffect, CycleRow
  <2> QED
    BY <2>1, <2>2, EndsNothing, PassesStay DEF LivesOn
<1>2. ASSUME NEW w \in Wakes, RetireOwnerlessCycle(w)
      PROVE  LivesOn
  <2>1. /\ UNCHANGED <<event, worker, phase>> /\ wake' = WakesRetired({w})
        /\ speech' = SpeechRetired({w}) /\ cycle' = CyclesRetired({w}) /\ {w} \in SUBSET Ownerless
    BY <1>2 DEF RetireOwnerlessCycle
  <2>2. \A v \in Wakes : /\ wake'[v] = wake[v]
                         /\ cycle'[v].state = "sending" =>
                              cycle[v].state = "sending" /\ speech'[v] = speech[v]
    BY <2>1, WakesAreOver
  <2> QED
    BY <2>1, <2>2, EndsNothing, PassesStay DEF LivesOn
<1>3. ASSUME NEW e \in Events, ReconcileStranded(e)
      PROVE  LivesOn
  <2>1. /\ event[e].state = "reconciling" /\ event' = [event EXCEPT ![e].state = "pending"]
        /\ wake' = [wake EXCEPT ![event[e].wake] = ToPending(@)]
        /\ UNCHANGED <<cycle, speech, worker, phase>>
    BY <1>3 DEF ReconcileStranded
  <2>2. \A f \in Events : /\ event'[f].wake = event[f].wake
                          /\ \/ event'[f].state = event[f].state
                             \/ {event[f].state, event'[f].state} \subseteq Durable
    BY <1>0, <2>1 DEF EventRow, Durable
  <2>3. \A v \in Wakes : wake[v].state # "terminal" => wake'[v].state # "terminal"
    BY <1>0, <2>1 DEF ToPending, WakeRow
  <2> QED
    BY <2>1, <2>2, <2>3, EndsNothing, PassesStay DEF LivesOn
<1>4. ASSUME NEW e \in Events, AbandonSpent(e)
      PROVE  LivesOn
  <2> DEFINE w == event[e].wake
             wk == [wake EXCEPT ![w] = ToTerminal(@, "quarantined")]
  <2>1. /\ event[e].state # "absent" /\ event[e].kind = "own_time"
        /\ event' = [event EXCEPT ![e] = Closed(@, "terminal", "permanent_failure")]
        /\ wake' = wk /\ cycle' = RetireOwnerless(cycle, wk, w)
        /\ UNCHANGED <<speech, worker, phase>>
    BY <1>4 DEF AbandonSpent
  <2>2. /\ event'[e].state = "terminal" /\ ~Owner(e)
        /\ \A f \in Events : f # e => event'[f] = event[f]
    BY <1>0, <2>1 DEF Closed, EventRow, Owner
  <2>3. \A v \in Wakes : v # w => wake'[v] = wake[v]
    BY <2>1
  <2>4. ASSUME NEW f \in Events, event'[f].state \in Durable
        PROVE  /\ event[f].state # "absent"
               /\ Owner(f) /\ Guarded(event[f].wake) => wake'[event[f].wake].state # "terminal"
    <3>1. event[f].state \in Durable
      BY <2>2, <2>4 DEF Durable
    <3>2. Owner(f) => event[f].wake # w
      BY <2>1, <3>1 DEF OwnTimeApart, Owner, Durable
    <3> QED
      BY <2>3, <3>1, <3>2, OpenIsRooted DEF LiveInv, OwnerLive, Durable
  <2>5. KeptAlive
    BY <2>4 DEF KeptAlive
  <2>6. \A v \in Wakes : cycle'[v].state = "sending" => cycle[v].state = "sending"
    BY <2>1, RetiredSends
  <2>7. Attributed
    BY <2>1, <2>2, <2>6, PassesStay DEF Attributed
  <2> QED
    BY <2>1, <2>5, <2>7, PassesStay DEF LivesOn
<1>5. ASSUME NEW e \in Events, RetireStale(e)
      PROVE  LivesOn
  <2>1. /\ event[e].state = "reconciling" /\ UNCHANGED <<wake, cycle, speech, worker, phase>>
        /\ event' = [event EXCEPT ![e] = Closed(@, "terminal", "stale")]
    BY <1>5 DEF RetireStale
  <2>2. /\ event'[e].state = "terminal"
        /\ \A f \in Events : f # e => event'[f] = event[f]
    BY <1>0, <2>1 DEF Closed, EventRow
  <2>3. KeptAlive
    BY <2>1, <2>2, NothingToKeep DEF Durable
  <2>4. Attributed
    BY <2>1, <2>2, PassesStay DEF Attributed
  <2> QED
    BY <2>1, <2>3, <2>4, PassesStay DEF LivesOn
<1>6. ASSUME NEW w \in Wakes, ConvergeOrphan(w)
      PROVE  LivesOn
  <2>1. /\ \A f \in Events : event[f].wake = w => event[f].state \notin Durable
        /\ \A v \in Wakes : v # w => wake'[v] = wake[v]
        /\ UNCHANGED <<event, cycle, speech, worker, phase>>
    BY <1>0, <1>6 DEF ConvergeOrphan
  <2>2. ASSUME NEW f \in Events, event[f].state \in Durable, Owner(f), Guarded(event[f].wake)
        PROVE  wake'[event[f].wake].state # "terminal"
    BY <2>1, <2>2, OpenIsRooted DEF LiveInv, OwnerLive
  <2>3. KeptAlive
    BY <2>1, <2>2 DEF KeptAlive, Durable
  <2>4. Attributed
    BY <2>1, NothingToAttribute, PassesStay
  <2> QED
    BY <2>1, <2>3, <2>4, PassesStay DEF LivesOn
<1> QED
  BY <1>1, <1>2, <1>3, <1>4, <1>5, <1>6 DEF Reconcile

\* Startup ends messages that a settlement before the crash had answered.
LEMMA StartupLives ==
  ASSUME IInv, LiveInv, Undeferred, Startup
  PROVE  LivesOn
<1>0. /\ event \in [Events -> EventRow] /\ wake \in [Wakes -> WakeRow]
      /\ worker' = worker /\ \A k \in Workers : worker[k].stage = "idle"
  BY DEF IInv, TypeOK, LiveInv, Booting, Active, Startup, RecoverWakes, RecoverEvents,
         ReconcileOwnership
<1>1. CASE RecoverWakes
  <2>1. UNCHANGED <<event, cycle, speech>>
    BY <1>1 DEF RecoverWakes
  <2>2. ASSUME NEW w \in Wakes, wake[w].state # "terminal"
        PROVE  wake'[w].state # "terminal"
    <3>1. \/ wake'[w] = wake[w] \/ wake'[w] = [wake[w] EXCEPT !.state = "reconciling"]
          \/ wake'[w] = ToPending(wake[w])
      BY <1>1 DEF RecoverWakes
    <3> QED
      BY <1>0, <2>2, <3>1 DEF ToPending, WakeRow
  <2> QED
    BY <1>0, <2>1, <2>2, EndsNothing, PassesStay DEF LivesOn
<1>2. CASE RecoverEvents
  <2>1. /\ UNCHANGED <<cycle, speech>> /\ event' = EventsRecovered(Lapsed)
        /\ wake' = WakesRecovered(Lapsed)
    BY <1>2 DEF RecoverEvents
  <2>2. Lapsed \in SUBSET Events /\ \A e \in Lapsed : event[e].state = "leased"
    BY DEF Lapsed
  <2>3. KeptAlive /\ \A f \in Events : event'[f].state = "terminal" => event[f].state = "terminal"
    BY <2>1, <2>2, RecoveredRows
  <2>4. Attributed
    BY <1>0, <2>1, <2>3, NothingToAttribute
  <2> QED
    BY <1>0, <2>3, <2>4, PassesStay DEF LivesOn
<1>3. CASE ReconcileOwnership
  <2>1. /\ wake' = WakesRetired(Ownerless) /\ speech' = SpeechRetired(Ownerless)
        /\ cycle' = CyclesRetired(Ownerless) /\ phase = "ownership"
        /\ event' = [e \in Events |-> IF e \in LeftBehind
                                      THEN Closed(event[e], "terminal", "completed") ELSE event[e]]
    BY <1>3 DEF ReconcileOwnership
  <2>2. \A v \in Wakes : /\ wake'[v] = wake[v]
                         /\ cycle'[v].state = "sending" =>
                              cycle[v].state = "sending" /\ speech'[v] = speech[v]
    BY <2>1, WakesAreOver
  <2>3. ASSUME NEW f \in Events, event'[f].state \in Durable
        PROVE  event'[f] = event[f]
    <3>1. Closed(event[f], "terminal", "completed").state = "terminal"
      BY <1>0 DEF Closed, EventRow
    <3> QED
      BY <2>1, <2>3, <3>1 DEF Durable
  <2>4. Attributed
    BY <1>0, <2>1, <2>2 DEF Attributed
  <2>5. KeptAlive
    BY <2>2, <2>3, NothingToKeep
  <2> QED
    BY <1>0, <2>4, <2>5, PassesStay DEF LivesOn
<1> QED
  BY <1>1, <1>2, <1>3 DEF Startup
--------------------------------------------------------------------------------
(* Ingress.                                                                 *)

\* A wake that a message preempts ends only if nothing is owed to an Owner on it.
LEMMA PreemptedLive ==
  ASSUME IInv, LiveInv, Undeferred, NEW w \in Wakes, cycle[w].state \in Occupying,
         wake[w].state # "terminal", PreemptedWake(w).state = "terminal",
         NEW f \in Events, Owner(f), event[f].state \in Durable, event[f].wake = w
  PROVE  FALSE
<1> DEFINE owned == ValidOwner(cycle, wake, speech, w)
<1>1. owned
  BY DEF Undeferred, ValidOwner, Occupying, LiveInv, SendingQueued
<1>2. wake[w] \in WakeRow /\ wake[w].state # "absent" /\ event[f] \in EventRow
  BY OpenIsRooted DEF IInv, TypeOK
<1>3. /\ wake[w].state \in {"pending", "authorized"} /\ ~HasLiveOwner(w)
      /\ ~(owned /\ effect[w] = "unresolved")
  <2> DEFINE r == [wake[w] EXCEPT !.cancelled = TRUE]
  <2>1. /\ r.state = wake[w].state /\ ToReconciling(r).state = "reconciling"
        /\ ToPending(r).state = "pending"
    BY <1>2 DEF WakeRow, ToReconciling, ToPending
  <2>2. wake[w].state \in {"pending", "authorized", "consequence_pending", "reconciling"}
    BY <1>2 DEF WakeRow, WakeStates
  <2> QED
    BY <1>1, <2>1, <2>2 DEF PreemptedWake
<1>4. event[f].state = "reconciling"
  BY <1>3 DEF HasLiveOwner, Durable, Claimable
<1> QED
  BY <1>3, <1>4 DEF IInv, RowsInv, Fenced

\* What arrives ends nothing that is owed to an Owner, and finds a wake.
LEMMA IngressLives ==
  ASSUME IInv, LiveInv, Undeferred, Ingress
  PROVE  LivesOn
<1>0. /\ event \in [Events -> EventRow] /\ wake \in [Wakes -> WakeRow] /\ cycle \in [Wakes -> CycleRow]
      /\ speech \in [Wakes -> SpeechStates]
  BY DEF IInv, TypeOK
<1>1. PICK c \in Conversations, e \in Events, w \in Wakes :
        \/ OwnerOpens(c, e, w) \/ OwnerComposes(c, e, w)
        \/ \E old \in Wakes : OwnerPreempts(c, e, old, w)
        \/ AdmitCompletion(c, e, w) \/ AdmitOwnTime(c, e, w)
  BY DEF Ingress
<1>2. /\ event[e].state = "absent" /\ worker' = worker /\ phase' \in {"running", "claiming"}
      /\ \E kind \in AllKinds : event' = [event EXCEPT ![e] = NewEvent(kind, w)]
  BY <1>1 DEF OwnerOpens, OwnerComposes, OwnerPreempts, AdmitCompletion, AdmitOwnTime, NextEvent,
              AllKinds
<1>3. /\ event'[e].state = "pending" /\ event'[e].wake = w
      /\ \A f \in Events : f # e => event'[f] = event[f]
  <2>1. PICK kind \in AllKinds : event' = [event EXCEPT ![e] = NewEvent(kind, w)]
    BY <1>2
  <2>2. NewEvent(kind, w).state = "pending" /\ NewEvent(kind, w).wake = w
    BY DEF NewEvent, AbsentEvent
  <2> QED
    BY <1>0, <2>1, <2>2
<1>4. \A f \in Events : event[f].state \in Durable /\ Owner(f) /\ Guarded(event[f].wake) =>
        event[f].wake \in Wakes /\ wake[event[f].wake].state # "terminal"
  BY OpenIsRooted DEF LiveInv, OwnerLive
<1>5. ASSUME \A v \in Wakes : cycle'[v].state = "sending" =>
               cycle[v].state = "sending" /\ speech'[v] = speech[v],
             wake'[w].state # "terminal",
             \A f \in Events : event[f].state \in Durable /\ Owner(f) /\ Guarded(event[f].wake) =>
               wake'[event[f].wake].state # "terminal"
      PROVE  LivesOn
  <2>1. \A f \in Events : event'[f].state = "terminal" => event[f].state = "terminal"
    BY <1>3
  <2>2. Attributed
    BY <1>2, <1>5, <2>1, NothingToAttribute
  <2>3. ASSUME NEW f \in Events, event'[f].state \in Durable
        PROVE  IF event[f].state = "absent" THEN wake'[event'[f].wake].state # "terminal"
               ELSE Owner(f) /\ Guarded(event[f].wake) => wake'[event[f].wake].state # "terminal"
    <3>1. CASE f = e
      BY <1>2, <1>3, <1>5, <3>1
    <3>2. CASE f # e
      <4>1. event[f].state \in Durable
        BY <1>3, <2>3, <3>2
      <4> QED
        BY <1>5, <4>1 DEF Durable
    <3> QED
      BY <3>1, <3>2
  <2>4. KeptAlive
    BY <2>3 DEF KeptAlive
  <2> QED
    BY <1>2, <2>2, <2>4, PassesStay DEF LivesOn
<1>6. CASE OwnerOpens(c, e, w) \/ AdmitCompletion(c, e, w) \/ AdmitOwnTime(c, e, w)
  <2>1. PICK kind : /\ wake' = [wake EXCEPT ![w] = NewWake(c)] /\ speech' = speech
                    /\ cycle' = [cycle EXCEPT ![w] = NewCycle(kind, NoWake)]
    BY <1>6 DEF OwnerOpens, AdmitCompletion, AdmitOwnTime
  <2>2. \A v \in Wakes : cycle'[v].state = "sending" => cycle[v].state = "sending"
    BY <1>0, <2>1 DEF NewCycle
  <2>3. \A v \in Wakes : wake[v].state # "terminal" \/ v = w => wake'[v].state # "terminal"
    BY <1>0, <2>1 DEF NewWake, AbsentWake
  <2> QED
    BY <1>4, <1>5, <2>1, <2>2, <2>3
<1>7. CASE OwnerComposes(c, e, w)
  <2>1. /\ wake' = [wake EXCEPT ![w].cancelled = TRUE] /\ UNCHANGED <<cycle, speech>>
        /\ wake[w].state \in {"pending", "authorized"}
    BY <1>7 DEF OwnerComposes, Composes
  <2>2. \A v \in Wakes : wake'[v].state = wake[v].state
    BY <1>0, <2>1 DEF WakeRow
  <2> QED
    BY <1>4, <1>5, <2>1, <2>2
<1>8. ASSUME NEW old \in Wakes, OwnerPreempts(c, e, old, w)
      PROVE  LivesOn
  <2>1. /\ wake' = [wake EXCEPT ![old] = PreemptedWake(old), ![w] = NewWake(c)]
        /\ cycle' = [cycle EXCEPT ![old] = [@ EXCEPT !.state = "silent"], ![w] = NewCycle("owner", old)]
        /\ speech' = Suppressed(old)
        /\ cycle[old].state \in Occupying /\ old # w
    BY <1>8 DEF OwnerPreempts, IsCurrentCycle, Occupants, WakesOf, NextWake
  <2>2. \A v \in Wakes : cycle'[v].state = "sending" =>
          cycle[v].state = "sending" /\ speech'[v] = speech[v]
    BY <1>0, <2>1 DEF Suppressed, NewCycle, CycleRow
  <2>3. wake'[w].state = "pending" /\ wake'[old] = PreemptedWake(old)
        /\ \A v \in Wakes : v \notin {w, old} => wake'[v] = wake[v]
    BY <1>0, <2>1 DEF NewWake, AbsentWake
  <2>4. ASSUME NEW f \in Events, event[f].state \in Durable, Owner(f), Guarded(event[f].wake)
        PROVE  wake'[event[f].wake].state # "terminal"
    BY <1>4, <2>1, <2>3, <2>4, PreemptedLive
  <2> QED
    BY <1>5, <2>2, <2>3, <2>4
<1> QED
  BY <1>1, <1>6, <1>7, <1>8
--------------------------------------------------------------------------------
(* Every step.                                                              *)

\* A poll that finds nothing to claim.
LEMMA PollLives ==
  ASSUME IInv, LiveInv, NEW k \in Consumers, PollFindsNothing(k)
  PROVE  LivesOn
<1>1. /\ event' = EventsNormalized /\ wake' = WakesNormalized /\ cycle' = CyclesNormalized
      /\ UNCHANGED <<speech, worker, phase>>
  BY DEF PollFindsNothing
<1>2. \A f \in Events : /\ event'[f].state = "terminal" => event[f].state = "terminal"
                        /\ event'[f].wake = event[f].wake
                        /\ event'[f].state # "absent" => event[f].state # "absent"
  BY <1>1, NormalizedRows, NormalizationLeasesNothing DEF IInv, NoNewLease
<1>3. Attributed
  BY <1>1, <1>2, NothingToAttribute, NormalizedCycles, PassesStay
<1>4. KeptAlive
  BY <1>1, <1>2, NormalizedLive DEF LiveInv, KeptAlive, Durable
<1> QED
  BY <1>1, <1>3, <1>4, PassesStay DEF LivesOn

\* The empty sidecar satisfies the invariant.
LEMMA InitLive == Init => LiveInv
<1> SUFFICES ASSUME Init PROVE LiveInv
  OBVIOUS
<1> QED
  BY DEF Init, LiveInv, OwnerLive, SendingQueued, PassKnows, UniqueHolder, Booting,
         Active, Durable, AbsentEvent, AbsentWake, AbsentCycle, IdleWorker

\* Every step keeps it.
LEMMA NextLive ==
  ASSUME IInv, HolderInv, OwnTimeApart, LiveInv, Undeferred, [Next]_vars, ~Coordinate,
         \A k \in Workers : ~SettleDeferred(k)
  PROVE  LiveInv'
<1>0. StepOfRows /\ KindsKept
  BY NextIInv, NextMoves
<1>1. ASSUME ClaimsNothing, LivesOn
      PROVE  LiveInv'
  BY <1>0, <1>1, LivingOnKeeps
<1>2. Quiet => ClaimsNothing
  BY DEF Quiet, ClaimsNothing
<1>3. CASE Ingress
  BY <1>1, <1>3, IngressStep, IngressLives DEF ClaimsNothing
<1>4. CASE Clock
  <2>1. ClaimsNothing
    BY <1>4, ClockStep DEF Sweeps, ClaimsNothing
  <2> QED
    BY <1>1, <1>4, <2>1, ClockLives
<1>5. CASE LeaveOwnTime
  <2>1. UNCHANGED <<event, wake, cycle, speech, worker>> /\ phase' = "running"
    BY <1>5 DEF LeaveOwnTime
  <2>2. ClaimsNothing
    BY <2>1 DEF ClaimsNothing
  <2>3. LivesOn
    BY <2>1, EndsNothing, PassesStay DEF LivesOn
  <2> QED
    BY <1>1, <2>2, <2>3
<1>6. ASSUME NEW k \in Consumers, Poll(k)
      PROVE  LiveInv'
  <2>1. CASE PollFindsNothing(k)
    <3>1. ClaimsNothing
      BY <2>1, NormalizationLeasesNothing DEF PollFindsNothing, ClaimsNothing, IInv
    <3> QED
      BY <1>1, <2>1, <3>1, PollLives
  <2>2. CASE PollThrows(k)
    <3>1. Stops
      BY <2>2 DEF PollThrows
    <3> QED
      BY <1>1, <1>2, <3>1, StopStep, StopLives
  <2>3. ASSUME NEW e \in Events, PollClaims(k, e)
        PROVE  LiveInv'
    <3>1. Claim(k, e) /\ EventsNormalized[e].state = "pending" /\ phase' = "running"
      BY <2>3 DEF PollClaims, IsFairHead, Candidates
    <3>2. event[e].state # "absent"
      BY <3>1, NormalizationLeasesNothing DEF NoNewLease, IInv
    <3> QED
      BY <1>0, <3>1, <3>2, ClaimKnows, WorkersKnown
  <2> QED
    BY <1>6, <2>1, <2>2, <2>3 DEF Poll
<1>7. ASSUME NEW k \in Workers, Think(k) \/ Settle(k)
      PROVE  LiveInv'
  BY <1>1, <1>2, <1>7, ThinkStep, SettleStep, ThinkLives, SettleLives
<1>8. CASE Reconcile \/ \E w \in Wakes : Deliver(w) \/ ResolveEffect(w)
  <2>1. ClaimsNothing
    BY <1>2, <1>8, ReconcileStep, ResolveStep DEF ClaimsNothing
  <2> QED
    BY <1>1, <1>8, <2>1, ReconcileLives
<1>9. CASE Crash
  BY <1>1, <1>2, <1>9, StopStep, StopLives DEF Crash
<1>10. CASE Startup
  BY <1>1, <1>2, <1>10, StartupStep, StartupLives
<1>11. CASE UNCHANGED vars
  <2>1. UNCHANGED <<event, wake, cycle, speech, worker, phase>>
    BY <1>11 DEF vars
  <2>2. ClaimsNothing
    BY <2>1 DEF ClaimsNothing
  <2>3. LivesOn
    BY <2>1, EndsNothing, PassesStay DEF LivesOn
  <2> QED
    BY <1>1, <2>2, <2>3
<1>12. ASSUME NEW e \in Events, ClaimOwnTime(e) PROVE LiveInv'
  <2>1. event[e].state # "absent" /\ Claim(IdlePath, e) /\ phase' = "running"
    BY <1>12, NewestAdmitted
  <2> QED
    BY <1>0, <2>1, ClaimKnows, WorkersKnown
<1> QED
  BY <1>3, <1>4, <1>5, <1>6, <1>7, <1>8, <1>9, <1>10, <1>11, <1>12 DEF Next, OwnTime
--------------------------------------------------------------------------------
(* Theorems.                                                                *)

\* Every step carries what these theorems rest on.
LEMMA NextLiving ==
  ASSUME "defer" \notin Disturbances
  PROVE  IInv /\ FrontierRows /\ HolderInv /\ OwnTimeApart /\ LiveInv /\ Undeferred /\ [Next]_vars
           => FrontierRows' /\ HolderInv' /\ OwnTimeApart' /\ LiveInv' /\ Undeferred'
<1> SUFFICES ASSUME IInv, FrontierRows, HolderInv, OwnTimeApart, LiveInv, Undeferred, [Next]_vars
             PROVE  FrontierRows' /\ HolderInv' /\ OwnTimeApart' /\ LiveInv' /\ Undeferred'
  OBVIOUS
<1>1. Undeferred' /\ ~Coordinate /\ \A k \in Workers : ~SettleDeferred(k)
  BY StaysUndeferred
<1>2. FrontierRows' /\ HolderInv' /\ StepOfRows
  BY NextIInv, NextHolder, FrontierInvariance
<1>3. OwnTimeApart'
  BY <1>1, <1>2, NextMoves, ApartKeeps
<1> QED
  BY <1>1, <1>2, <1>3, NextLive

LEMMA InitLiving ==
  ASSUME "defer" \notin Disturbances
  PROVE  Init => FrontierRows /\ HolderInv /\ OwnTimeApart /\ LiveInv /\ Undeferred
<1>1. Init => HolderInv
  BY DEF Init, HolderInv, OwnersOnTheirCycles, OwnerCovered, AbsentEvent, IdleWorker
<1> QED
  BY <1>1, InitHand, InitLive, StaysUndeferred, FrontierInvariance DEF HandInv

\* An Owner message that is still owed on a cycle which an Owner opened: a wake that can
\* still be claimed.
OwnersCycleLives ==
  \A e \in Events : Owner(e) /\ event[e].state \in Durable /\ cycle[event[e].wake].trigger = "owner"
                      => wake[event[e].wake].state # "terminal"

\* On a cycle that an Owner opened, a message that is still owed belongs to a wake that can
\* still be claimed, whatever else arrives and whatever goes wrong short of a deferral: no
\* ending of a sibling, no exhaustion, no supersession and no preemption closes the wake
\* under it.
THEOREM OwnersCycleKeepsItsWake ==
  ASSUME "defer" \notin Disturbances
  PROVE  Spec => []OwnersCycleLives
<1>1. LiveInv => OwnersCycleLives
  BY DEF LiveInv, OwnerLive, Guarded, OwnersCycleLives
<1> QED
  BY <1>1, InitLiving, NextLiving, Invariance, PTL DEF Spec

\* On any cycle, an Owner message that is still owed belongs to a wake that can still be
\* claimed, if nothing is deferred, unless completions arrive and the model abstains: a completion's pass that
\* abstains is the only one that closes the wake of a message it does not answer.
THEOREM OwnerWorkKeepsItsWake ==
  ASSUME AbstentionsApart, "defer" \notin Disturbances
  PROVE  Spec => []OwnerKeepsWake
<1>1. LiveInv => OwnerKeepsWake
  BY DEF LiveInv, OwnerLive, Guarded, OwnerKeepsWake, Durable, Claimable
<1> QED
  BY <1>1, InitLiving, NextLiving, Invariance, PTL DEF Spec

\* Where Owner messages are all that arrives and nothing is deferred, all work that is still owed belongs to a wake
\* that can still be claimed.
THEOREM LiveWorkKeepsItsWake ==
  ASSUME Kinds = {"owner"}, "defer" \notin Disturbances
  PROVE  Spec => []LiveObligationHasLiveWake
<1>1. OwnTimeApart /\ LiveInv => LiveObligationHasLiveWake
  BY DEF LiveInv, OwnerLive, Guarded, AbstentionsApart, OwnTimeApart, Owner, Durable,
         LiveObligationHasLiveWake
<1> QED
  BY <1>1, InitLiving, NextLiving, Invariance, PTL DEF Spec
================================================================================
