--------------------------- MODULE SettlementProofs ---------------------------
(***************************************************************************)
(* What settlements mean for Owner messages: one is completed on the account *)
(* of a settlement only, none is settled by a pass that lost its claim, and  *)
(* what a generation hands on it has not settled.                            *)
(***************************************************************************)
EXTENDS DurableWorkProofs, WellFoundedInduction

--------------------------------------------------------------------------------
(* What a completion rests on.                                              *)

Settled(w)       == speech[w] # "none"
CompletedOwner(row) == row.reason = "completed" /\ row.kind = "owner"
Answers(s)       == s \in {"answered", "replayed"}

\* A pass that has answered, itself or by a replay, has a settlement to show.
PassesSettled ==
  \A k \in Workers : /\ worker[k].stage # "transferred"
                     /\ Answers(worker[k].stage) => Settled(WakeOf(k))

SettledInv == CompletedHasSettlement /\ PassesSettled

\* A step completes no message and ends no pass but on the account of a settlement, and
\* a settlement stays.
Accounts ==
  /\ \A w \in Wakes : Settled(w) => Settled(w)'
  /\ \A e \in Events : CompletedOwner(event'[e]) =>
       CompletedOwner(event[e]) \/ speech'[event'[e].wake] # "none"
  /\ \A k \in Workers :
       /\ worker'[k].stage # "transferred"
       /\ Answers(worker'[k].stage) =>
            \/ Answers(worker[k].stage) /\ worker'[k].event = worker[k].event
            \/ speech'[event'[worker'[k].event].wake] # "none"

\* An event stays with its wake.
LEMMA WakeStays ==
  ASSUME IInv, StepOfRows, NEW e \in Events, event[e].state # "absent"
  PROVE  event[e].wake \in Wakes /\ event'[e].wake = event[e].wake
<1>1. event[e].wake \in Wakes
  BY DEF IInv, RowsInv, Rooted
<1>2. CASE NoNewLease(event, wake, event', wake') \/ UNCHANGED <<event, wake>>
  BY <1>1, <1>2 DEF NoNewLease
<1>3. ASSUME NEW f \in Events, Takes(f) PROVE event'[e].wake = event[e].wake
  BY <1>3 DEF Takes, NoNewLease
<1>4. ASSUME NEW c, NEW f \in Events, NEW w, NEW kind,
             Admits(event, wake, event', wake', c, f, kind, w)
      PROVE  event'[e].wake = event[e].wake
  BY <1>4 DEF Admits, IInv, TypeOK
<1> QED
  BY <1>1, <1>2, <1>3, <1>4 DEF StepOfRows, Sweeps

\* Which is what keeps every completion accounted for.
LEMMA AccountsKeep ==
  ASSUME IInv, StepOfRows, SettledInv, Accounts
  PROVE  SettledInv'
<1>1. ASSUME NEW e \in Events, CompletedOwner(event'[e])
      PROVE  speech'[event'[e].wake] # "none"
  <2>1. CASE CompletedOwner(event[e])
    <3>1. event[e].state # "absent"
      BY <2>1 DEF CompletedOwner, IInv, RowsInv, Rooted, AbsentEvent
    <3>2. Settled(event[e].wake)
      BY <2>1 DEF CompletedOwner, SettledInv, CompletedHasSettlement, Owner, Settled
    <3> QED
      BY <3>1, <3>2, WakeStays DEF Accounts, Settled
  <2> QED
    BY <1>1, <2>1 DEF Accounts
<1>2. ASSUME NEW k \in Workers, Answers(worker'[k].stage)
      PROVE  speech'[event'[worker'[k].event].wake] # "none"
  <2>1. CASE Answers(worker[k].stage) /\ worker'[k].event = worker[k].event
    <3>1. /\ worker[k].event \in Events /\ event[worker[k].event].state # "absent"
      BY <2>1, PassRows DEF Answers
    <3>2. Settled(event[worker[k].event].wake)
      BY <2>1 DEF SettledInv, PassesSettled, WakeOf
    <3> QED
      BY <2>1, <3>1, <3>2, WakeStays DEF Accounts, Settled
  <2> QED
    BY <1>2, <2>1 DEF Accounts
<1>3. CompletedHasSettlement'
  BY <1>1 DEF CompletedOwner, CompletedHasSettlement, Owner
<1>4. PassesSettled'
  BY <1>2 DEF PassesSettled, Accounts, Answers, Settled, WakeOf
<1> QED
  BY <1>3, <1>4 DEF SettledInv

\* A step that completes nothing and lets no pass answer.
LEMMA NothingCompletes ==
  ASSUME SettledInv,
         \A w \in Wakes : Settled(w) => Settled(w)',
         \A e \in Events :
           \/ event'[e].kind = event[e].kind /\ event'[e].reason = event[e].reason
           \/ event'[e].reason # "completed",
         \A k \in Workers : worker'[k] = worker[k]
                            \/ worker'[k].stage \notin {"answered", "replayed", "transferred"}
  PROVE  Accounts
BY DEF SettledInv, PassesSettled, Accounts, CompletedOwner, Answers
--------------------------------------------------------------------------------
(* The steps.                                                               *)

\* Recovery and normalisation complete nothing.
LEMMA RecoveryCompletesNothing ==
  ASSUME IInv, NEW L, NEW e \in Events
  PROVE  /\ EventsRecovered(L)[e].kind = event[e].kind
         /\ EventsRecovered(L)[e].reason = event[e].reason
BY DEF IInv, TypeOK, EventRow, EventsRecovered, RecoveredEvent

LEMMA NormalizationCompletesNothing ==
  ASSUME IInv, NEW e \in Events
  PROVE  \/ /\ EventsNormalized[e].kind = event[e].kind
            /\ EventsNormalized[e].reason = event[e].reason
         \/ EventsNormalized[e].reason # "completed"
<1>1. EventsPromoted[e].kind = event[e].kind /\ EventsPromoted[e].reason = event[e].reason
  BY RecoveryCompletesNothing DEF IInv, TypeOK, EventRow, EventsPromoted
<1>2. EventsPromoted[e] \in EventRow
  <2>1. EventsRecovered(Lapsed)[e] \in EventRow
    BY RecoveryTyped DEF IInv
  <2> QED
    BY <2>1 DEF IInv, TypeOK, EventRow, EventStates, EventsPromoted
<1> QED
  BY <1>1, <1>2 DEF EventsNormalized, EventRow

LEMMA ClaimAccounts ==
  ASSUME IInv, SettledInv, NEW k \in Workers, NEW e \in Events, Claim(k, e)
  PROVE  Accounts
<1> DEFINE ev == EventsNormalized
<1>1. ev \in [Events -> EventRow]
  BY NormalizationTyped DEF IInv
<1>2. event' = [ev EXCEPT ![e].state = "leased", ![e].attempts = event[e].attempts + 1,
                          ![e].elapsed = FALSE]
  BY DEF Claim
<1>3. \A f \in Events : \/ ev[f].kind = event[f].kind /\ ev[f].reason = event[f].reason
                        \/ ev[f].reason # "completed"
  BY NormalizationCompletesNothing
<1> HIDE DEF ev
<1>4. \A f \in Events : event'[f].kind = ev[f].kind /\ event'[f].reason = ev[f].reason
  BY <1>1, <1>2 DEF EventRow
<1>5. speech' = speech
  BY DEF Claim
<1>6. \A j \in Workers : worker'[j] = worker[j] \/ worker'[j].stage = "claimed"
  <2>1. PICK C : worker' = [worker EXCEPT ![k] = [stage |-> "claimed", event |-> e,
                   ordinal |-> event[e].attempts + 1, covered |-> C, read |-> {},
                   successor |-> NoEvent]]
    BY DEF Claim
  <2> QED
    BY <2>1 DEF IInv, TypeOK
<1> QED
  BY <1>3, <1>4, <1>5, <1>6, NothingCompletes DEF Settled

\* A pass answers only with a settlement, its own or the one it found.
LEMMA ThinkAccounts ==
  ASSUME IInv, SettledInv, "transfer" \notin Disturbances, NEW k \in Workers, Think(k)
  PROVE  Accounts
<1>0. /\ worker \in [Workers -> Pass] /\ speech \in [Wakes -> SpeechStates]
      /\ event \in [Events -> EventRow]
  BY DEF IInv, TypeOK
<1>1. /\ WakeOf(k) \in Wakes /\ worker[k].event \in Events /\ worker[k].stage # "idle"
      /\ worker[k] \in Pass
  <2>1. worker[k].stage # "idle"
    BY DEF Think, Begin, ModelReturns, FindsStale, StopsForOwnerAnswer, PublishRefused, Publish,
           Publishing, Fail, Abstain, Transfer, Defer, Throw, HoldCeiling, DispatchEffect, Running
  <2> QED
    BY <2>1, PassRows
<1>2. \A s : Stage(k, s) => /\ worker'[k].stage = s /\ worker'[k].event = worker[k].event
                            /\ \A j \in Workers : j # k => worker'[j] = worker[j]
  BY <1>0, <1>1 DEF Stage, Pass
<1>3. ASSUME NEW s, Stage(k, s), s \notin {"answered", "replayed", "transferred"},
             event' = event, speech' = speech
      PROVE  Accounts
  BY <1>2, <1>3, NothingCompletes DEF Settled
<1>4. ASSUME NEW s, Stage(k, s), s # "transferred",
             speech'[WakeOf(k)] # "none", event' = event,
             \A w \in Wakes : Settled(w) => Settled(w)'
      PROVE  Accounts
  <2>1. \A j \in Workers : j # k => worker'[j] = worker[j]
    BY <1>2, <1>4
  <2>2. worker'[k].stage # "transferred" /\ event'[worker'[k].event].wake = WakeOf(k)
    BY <1>2, <1>4 DEF WakeOf
  <2>3. \A e \in Events : CompletedOwner(event'[e]) => CompletedOwner(event[e])
    BY <1>4
  <2> QED
    BY <1>4, <2>1, <2>2, <2>3 DEF Accounts, SettledInv, PassesSettled
<1>5. CASE Begin(k)
  <2>1. CASE speech[WakeOf(k)] # "none"
    BY <1>4, <1>5, <2>1 DEF Begin, Replayed, Settled
  <2>2. CASE speech[WakeOf(k)] = "none"
    BY <1>3, <1>5, <2>2 DEF Begin
  <2> QED
    BY <2>1, <2>2
<1>6. CASE PublishRefused(k)
  <2>1. CASE speech[WakeOf(k)] # "none" /\ Stage(k, Replayed(k))
    BY <1>4, <1>6, <2>1 DEF PublishRefused, Replayed, Settled
  <2>2. CASE Stage(k, "rejected") \/ Stage(k, "thrown")
    BY <1>3, <1>6, <2>2 DEF PublishRefused
  <2> QED
    BY <1>6, <2>1, <2>2 DEF PublishRefused
<1>7. ASSUME NEW said \in {"queued", "silence", "mute"}, Publish(k, said)
      PROVE  Accounts
  <2>1. /\ event' = event /\ speech' = [speech EXCEPT ![WakeOf(k)] = said]
        /\ Stage(k, IF said = "mute" /\ Owner(worker[k].event) THEN "rejected" ELSE "answered")
    BY <1>7 DEF Publish
  <2>2. speech'[WakeOf(k)] # "none" /\ \A w \in Wakes : Settled(w) => Settled(w)'
    BY <1>0, <1>1, <2>1 DEF Settled
  <2> QED
    BY <1>4, <2>1, <2>2
<1>8. CASE ModelReturns(k)
  <2>1. worker'[k].stage = "drafted" /\ \A j \in Workers : j # k => worker'[j] = worker[j]
    BY <1>0, <1>1, <1>8 DEF ModelReturns, Pass
  <2> QED
    BY <1>8, <2>1, NothingCompletes DEF ModelReturns, Settled
<1>9. CASE FindsStale(k)
  <2>1. CASE Stage(k, "stale")
    BY <1>3, <1>9, <2>1 DEF FindsStale
  <2>2. CASE \E f \in Successors(k) :
               worker' = [worker EXCEPT ![k] = [@ EXCEPT !.stage = "superseded", !.successor = f]]
    <3>1. worker'[k].stage = "superseded" /\ \A j \in Workers : j # k => worker'[j] = worker[j]
      BY <1>0, <1>1, <2>2 DEF Pass
    <3> QED
      BY <1>9, <3>1, NothingCompletes DEF FindsStale, Settled
  <2> QED
    BY <1>9, <2>1, <2>2 DEF FindsStale
<1>10. CASE StopsForOwnerAnswer(k) \/ Fail(k) \/ Abstain(k) \/ Defer(k) \/ Throw(k)
  <2>1. PICK s \in {"not_applicable", "abstained", "failed", "deferred", "thrown"} : Stage(k, s)
    BY <1>10 DEF StopsForOwnerAnswer, Fail, Abstain, Defer, Throw
  <2> QED
    BY <1>3, <1>10, <2>1 DEF StopsForOwnerAnswer, Fail, Abstain, Defer, Throw
<1>11. CASE HoldCeiling(k)
  <2>1. \E L : event' = EventsRecovered(L)
    BY <1>11 DEF HoldCeiling
  <2> QED
    BY <1>11, <2>1, RecoveryCompletesNothing, NothingCompletes DEF HoldCeiling, Settled
<1>12. CASE DispatchEffect(k)
  BY <1>12, NothingCompletes DEF DispatchEffect, Settled
<1> QED
  BY <1>5, <1>6, <1>7, <1>8, <1>9, <1>10, <1>11, <1>12 DEF Think, Transfer

\* A settlement completes an Owner message only for a pass that has answered: its own,
\* and those the pass has covered on its wake.
LEMMA SettleAccounts ==
  ASSUME IInv, SettledInv, NEW k \in Workers, Settle(k)
  PROVE  Accounts
<1> DEFINE e == worker[k].event
<1>1. /\ e \in Events /\ event[e].wake = WakeOf(k) /\ WakeOf(k) \in Wakes
  <2>1. worker[k].stage # "idle"
    BY DEF Settle, SettleLost, SettleCompleted, SettleDeferred, SettleRetry, SettleTerminal,
           SettleSuperseded, SettleUnknown, Settling
  <2> QED
    BY <2>1, PassRows DEF WakeOf
<1>2. event \in [Events -> EventRow]
  BY DEF IInv, TypeOK
<1>3. /\ speech' = speech /\ \A j \in Workers : worker'[j] = worker[j] \/ worker'[j].stage = "idle"
  BY DEF Settle, SettleLost, SettleCompleted, SettleDeferred, SettleRetry, SettleTerminal,
         SettleSuperseded, SettleUnknown, Freed, IInv, TypeOK, IdleWorker
<1>4. \A st, reason : \A f \in Events :
        /\ Closed(event[f], st, reason).reason = reason
        /\ Closed(event[f], st, reason).kind = event[f].kind
        /\ Closed(event[f], st, reason).wake = event[f].wake
  BY <1>2 DEF Closed, EventRow
<1> HIDE DEF e
<1>5. CASE SettleCompleted(k)
  <2>1. event' = EventsCompleted(k) /\ Completes(k)
    BY <1>5 DEF SettleCompleted
  <2>2. ASSUME NEW f \in Events, CompletedOwner(event'[f])
        PROVE  CompletedOwner(event[f]) \/ speech'[event'[f].wake] # "none"
    <3>1. CASE event'[f] = event[f]
      BY <2>2, <3>1
    <3>2. CASE Answers(worker[k].stage) /\ event'[f].wake = WakeOf(k)
      BY <1>3, <3>2 DEF SettledInv, PassesSettled, Settled
    <3>3. CASE ~Answers(worker[k].stage) /\ f = e
      <4>1. event'[f].kind = event[f].kind
        BY <1>4, <2>1, <3>3 DEF EventsCompleted, e
      <4>2. ~Owner(e)
        BY <2>1, <3>3 DEF Completes, Answers, SettledInv, PassesSettled, e
      <4> QED
        BY <2>2, <3>3, <4>1, <4>2 DEF CompletedOwner, Owner
    <3>4. f = e => event'[f].wake = WakeOf(k)
      BY <1>1, <1>4, <2>1 DEF EventsCompleted, e
    <3>5. f # e /\ event'[f] # event[f] => Answers(worker[k].stage) /\ event'[f].wake = WakeOf(k)
      BY <1>4, <2>1 DEF EventsCompleted, Answered, Answers, e
    <3> QED
      BY <3>1, <3>2, <3>3, <3>4, <3>5
  <2> QED
    BY <1>3, <2>2 DEF Accounts, SettledInv, PassesSettled, Answers, Settled
<1>6. CASE ~SettleCompleted(k)
  <2>1. \A f \in Events :
        \/ event'[f].kind = event[f].kind /\ event'[f].reason = event[f].reason
        \/ event'[f].reason # "completed"
    <3>1. CASE SettleLost(k)
      BY <3>1 DEF SettleLost
    <3>2. CASE SettleSuperseded(k)
      <4>1. event' = EventsSuperseded(k)
        BY <3>2 DEF SettleSuperseded
      <4> QED
        BY <1>4, <4>1 DEF EventsSuperseded
    <3>3. CASE SettleTerminal(k)
      <4>1. event' \in {EventsExhausted(k), EventsStale(k)}
        BY <3>3 DEF SettleTerminal
      <4>2. \E reason \in {"attempts_exhausted", "stale"} :
              /\ event'[e].reason = reason
              /\ \A f \in Events : f # e => event'[f] = event[f]
        BY <1>1, <1>2, <1>4, <4>1 DEF EventsExhausted, EventsStale, e
      <4> QED
        BY <4>2
    <3>4. CASE SettleRetry(k) \/ SettleUnknown(k)
      <4>1. \E st \in {"retry_wait", "reconciling"} :
              event' = [event EXCEPT ![e].state = st, ![e].elapsed = FALSE]
        BY <3>4 DEF SettleRetry, SettleUnknown, e
      <4> QED
        BY <1>1, <1>2, <4>1 DEF EventRow
    <3>5. CASE SettleDeferred(k)
      <4>1. event' = [event EXCEPT ![e] = Closed(@, "terminal", "deferred")]
        BY <3>5 DEF SettleDeferred, e
      <4> QED
        BY <1>1, <1>2, <1>4, <4>1
    <3> QED
      BY <1>6, <3>1, <3>2, <3>3, <3>4, <3>5 DEF Settle
  <2> QED
    BY <1>3, <2>1, NothingCompletes DEF Settled
<1> QED
  BY <1>5, <1>6

\* The startup sequence completes what a settlement left behind.
LEMMA StartupAccounts ==
  ASSUME IInv, SettledInv, Startup
  PROVE  Accounts
<1>1. CASE RecoverWakes
  BY <1>1, NothingCompletes DEF RecoverWakes, Settled
<1>2. CASE RecoverEvents
  BY <1>2, RecoveryCompletesNothing, NothingCompletes DEF RecoverEvents, Settled
<1>3. CASE ReconcileOwnership
  <2>1. \A w \in Wakes : Settled(w) => Settled(w)'
    BY <1>3 DEF ReconcileOwnership, SpeechRetired, Settled
  <2>2. ASSUME NEW e \in Events, e \in LeftBehind
        PROVE  speech'[event'[e].wake] # "none"
    <3>1. event[e].wake \in Wakes /\ speech[event[e].wake] # "none"
      BY <2>2 DEF LeftBehind, Claimable, IInv, RowsInv, Rooted
    <3>2. event'[e].wake = event[e].wake
      BY <1>3, <2>2 DEF ReconcileOwnership, Closed, IInv, TypeOK, EventRow
    <3> QED
      BY <2>1, <3>1, <3>2 DEF Settled
  <2>3. \A e \in Events : e \notin LeftBehind => event'[e] = event[e]
    BY <1>3 DEF ReconcileOwnership
  <2> QED
    BY <1>3, <2>1, <2>2, <2>3 DEF ReconcileOwnership, Accounts, SettledInv, PassesSettled
<1> QED
  BY <1>1, <1>2, <1>3 DEF Startup

\* Ingress, deadlines, reconciliation and crashes complete nothing.
LEMMA RestAccounts ==
  ASSUME IInv, SettledInv,
         \/ Ingress \/ Clock \/ Reconcile \/ Coordinate \/ Crash
         \/ \E w \in Wakes : Deliver(w) \/ ResolveEffect(w)
  PROVE  Accounts
<1>0. event \in [Events -> EventRow] /\ worker \in [Workers -> Pass] /\ speech \in [Wakes -> SpeechStates]
  BY DEF IInv, TypeOK
<1>1. CASE Ingress
  <2>1. PICK c \in Conversations, e \in Events, w \in Wakes :
          \/ OwnerOpens(c, e, w) \/ OwnerComposes(c, e, w)
          \/ \E old \in Wakes : OwnerPreempts(c, e, old, w)
          \/ AdmitCompletion(c, e, w) \/ AdmitOwnTime(c, e, w)
    BY <1>1 DEF Ingress
  <2>2. \E kind \in AllKinds : event' = [event EXCEPT ![e] = NewEvent(kind, w)]
    BY <2>1 DEF OwnerOpens, OwnerComposes, OwnerPreempts, AdmitCompletion, AdmitOwnTime, AllKinds
  <2>3. event'[e].reason = "none" /\ \A f \in Events : f # e => event'[f] = event[f]
    BY <1>0, <2>2 DEF NewEvent, AbsentEvent
  <2>4. worker' = worker
    BY <2>1 DEF OwnerOpens, OwnerComposes, OwnerPreempts, AdmitCompletion, AdmitOwnTime
  <2>5. \A v \in Wakes : Settled(v) => Settled(v)'
    <3>1. speech' = speech \/ \E old \in Wakes : speech' = Suppressed(old)
      BY <2>1 DEF OwnerOpens, OwnerComposes, OwnerPreempts, AdmitCompletion, AdmitOwnTime
    <3> QED
      BY <1>0, <3>1 DEF Suppressed, Settled
  <2> QED
    BY <2>3, <2>4, <2>5, NothingCompletes
<1>2. CASE Clock
  <2>1. \A e \in Events : event'[e].kind = event[e].kind /\ event'[e].reason = event[e].reason
    BY <1>0, <1>2 DEF Clock, DeadlineElapses, AgeElapses, EventRow
  <2>2. UNCHANGED <<worker, speech>>
    BY <1>2 DEF Clock, DeadlineElapses, AgeElapses
  <2> QED
    BY <2>1, <2>2, NothingCompletes DEF Settled
<1>3. CASE Reconcile
  <2>1. \A e \in Events :
        \/ event'[e].kind = event[e].kind /\ event'[e].reason = event[e].reason
        \/ event'[e].reason # "completed"
    <3>1. CASE \E w \in Wakes : RetireOwnerlessCycle(w)
      BY <3>1 DEF RetireOwnerlessCycle
    <3>2. ASSUME NEW f \in Events, ReconcileStranded(f)
          PROVE  \A e \in Events : event'[e].kind = event[e].kind /\ event'[e].reason = event[e].reason
      <4>1. event' = [event EXCEPT ![f].state = "pending"]
        BY <3>2 DEF ReconcileStranded
      <4> QED
        BY <1>0, <4>1 DEF EventRow
    <3>3. ASSUME NEW f \in Events, AbandonSpent(f)
          PROVE  \A e \in Events : event'[e] = event[e] \/ event'[e].reason = "permanent_failure"
      <4>1. event' = [event EXCEPT ![f] = Closed(@, "terminal", "permanent_failure")]
        BY <3>3 DEF AbandonSpent
      <4> QED
        BY <1>0, <4>1 DEF Closed, EventRow
    <3>4. ASSUME NEW f \in Events, RetireStale(f)
          PROVE  \A e \in Events : event'[e] = event[e] \/ event'[e].reason = "stale"
      <4>1. event' = [event EXCEPT ![f] = Closed(@, "terminal", "stale")]
        BY <3>4 DEF RetireStale
      <4> QED
        BY <1>0, <4>1 DEF Closed, EventRow
    <3>5. CASE \E w \in Wakes : ConvergeOrphan(w)
      BY <3>5 DEF ConvergeOrphan
    <3> QED
      BY <1>3, <3>1, <3>2, <3>3, <3>4, <3>5 DEF Reconcile
  <2>2. worker' = worker /\ \A v \in Wakes : Settled(v) => Settled(v)'
    BY <1>3 DEF Reconcile, RetireOwnerlessCycle, ReconcileStranded, AbandonSpent, RetireStale,
                ConvergeOrphan, SpeechRetired, Settled
  <2> QED
    BY <2>1, <2>2, NothingCompletes
<1>4. CASE Crash
  BY <1>4, NothingCompletes DEF Crash, Stops, IdleWorker, Settled
<1>5. ASSUME NEW w \in Wakes, Deliver(w) \/ ResolveEffect(w) PROVE Accounts
  <2>1. UNCHANGED <<event, worker>> /\ \A v \in Wakes : Settled(v) => Settled(v)'
    BY <1>0, <1>5 DEF Deliver, ResolveEffect, Settled
  <2> QED
    BY <2>1, NothingCompletes
<1>6. CASE Coordinate
  <2>1. UNCHANGED <<event, worker>>
    BY <1>6 DEF Coordinate, FrontierExhausts, TurnOpens, TurnReturns, TurnPublishes, TurnReplays,
                TurnFails, TurnDefers, TurnDispatches
  <2>2. speech' = speech \/ \E said \in {"queued", "silence", "mute"} :
                             speech' = [speech EXCEPT ![TurnWake] = said]
    BY <1>6 DEF Coordinate, FrontierExhausts, TurnOpens, TurnReturns, TurnPublishes, TurnReplays,
                TurnFails, TurnDefers, TurnDispatches
  <2>3. \A v \in Wakes : Settled(v) => Settled(v)'
    BY <1>0, <2>2 DEF Settled
  <2> QED
    BY <2>1, <2>3, NothingCompletes
<1> QED
  BY <1>1, <1>2, <1>3, <1>4, <1>5, <1>6
--------------------------------------------------------------------------------
(* The theorem.                                                             *)

LEMMA NextSettled ==
  ASSUME "transfer" \notin Disturbances
  PROVE  IInv /\ SettledInv /\ [Next]_vars => SettledInv'
<1> SUFFICES ASSUME IInv, SettledInv, [Next]_vars PROVE SettledInv'
  OBVIOUS
<1>1. StepOfRows
  BY NextIInv
<1>2. SUFFICES Accounts
  BY <1>1, AccountsKeep
<1>3. CASE OwnTime
  <2>1. CASE LeaveOwnTime
    BY <2>1, NothingCompletes DEF LeaveOwnTime, Settled
  <2>2. CASE \E e \in Events : ClaimOwnTime(e)
    BY <2>2, ClaimAccounts, WorkersKnown DEF ClaimOwnTime
  <2> QED
    BY <1>3, <2>1, <2>2 DEF OwnTime
<1>4. ASSUME NEW k \in Consumers, Poll(k) PROVE Accounts
  <2>1. CASE PollFindsNothing(k)
    BY <2>1, NormalizationCompletesNothing, NothingCompletes DEF PollFindsNothing, Settled
  <2>2. CASE PollThrows(k)
    BY <2>2, NothingCompletes DEF PollThrows, Stops, IdleWorker, Settled
  <2>3. CASE \E e \in Events : PollClaims(k, e)
    BY <2>3, ClaimAccounts, WorkersKnown DEF PollClaims
  <2> QED
    BY <1>4, <2>1, <2>2, <2>3 DEF Poll
<1>5. ASSUME NEW k \in Workers, Think(k) \/ Settle(k) PROVE Accounts
  BY <1>5, ThinkAccounts, SettleAccounts
<1>6. CASE Startup
  BY <1>6, StartupAccounts
<1>7. CASE \/ Ingress \/ Clock \/ Reconcile \/ Coordinate \/ Crash
           \/ \E w \in Wakes : Deliver(w) \/ ResolveEffect(w)
  BY <1>7, RestAccounts
<1>8. CASE UNCHANGED vars
  BY <1>8, NothingCompletes DEF vars, Settled
<1> QED
  BY <1>3, <1>4, <1>5, <1>6, <1>7, <1>8 DEF Next

\* An Owner message is completed only on a wake whose cycle settled, through siblings,
\* replays and restarts, as long as no obligation is transferred to other work.
THEOREM CompletedIsSettled ==
  ASSUME "transfer" \notin Disturbances
  PROVE  Spec => []CompletedHasSettlement
<1>1. Init => SettledInv
  BY DEF Init, SettledInv, CompletedHasSettlement, PassesSettled, Answers, AbsentEvent, IdleWorker
<1>2. SettledInv => CompletedHasSettlement
  BY DEF SettledInv
<1> QED
  BY <1>1, <1>2, NextSettled, Invariance, PTL DEF Spec
--------------------------------------------------------------------------------
(* Who settles.                                                             *)

\* On a cycle that an Owner opened there are Owner messages only, and a pass on an Owner
\* message covers it, so that the fence of the publication looks at its claim.
OwnersOnTheirCycles ==
  \A e \in Events : event[e].state # "absent" /\ cycle[event[e].wake].trigger = "owner" => Owner(e)

OwnerCovered ==
  \A k \in Workers : worker[k].stage # "idle" /\ Owner(worker[k].event)
                       => worker[k].event \in worker[k].covered

HolderInv == OwnersOnTheirCycles /\ OwnerCovered

\* What exists keeps its kind.
KindsKept ==
  /\ \A e \in Events : event[e].state # "absent" => event'[e].kind = event[e].kind
  /\ \A w \in Wakes : wake[w].state # "absent" => cycle'[w].trigger = cycle[w].trigger

\* A pass ends, keeps what it has claimed, or claims an event and covers it.
PassKept(k) ==
  \/ worker'[k].stage = "idle"
  \/ /\ worker[k].stage # "idle"
     /\ worker'[k].event = worker[k].event /\ worker'[k].covered = worker[k].covered
  \/ event'[worker'[k].event].kind = "owner" => worker'[k].event \in worker'[k].covered

\* A message that arrives on an Owner's cycle is an Owner's.
ArrivesAtHome ==
  \A e \in Events : event[e].state = "absent" /\ event'[e].state # "absent" =>
    (cycle'[event'[e].wake].trigger = "owner" => event'[e].kind = "owner")

HolderSettles ==
  \A w \in Wakes : cycle[w].trigger = "owner" /\ speech[w] = "none" /\ speech'[w] # "none" =>
    \E e \in Events :
      /\ event[e].wake = w
      /\ \/ event[e].state = "leased" /\ \E k \in Workers : ClaimOf(k) = Token(e)
         \/ event[e].reason = "deferred" /\ turn.frontier = e

LEMMA KindsKeep ==
  ASSUME IInv, StepOfRows, HolderInv, KindsKept, ArrivesAtHome, \A k \in Workers : PassKept(k)
  PROVE  HolderInv'
<1>1. ASSUME NEW e \in Events, event'[e].state # "absent",
             cycle'[event'[e].wake].trigger = "owner"
      PROVE  event'[e].kind = "owner"
  <2>1. CASE event[e].state = "absent"
    BY <1>1, <2>1 DEF ArrivesAtHome
  <2>2. CASE event[e].state # "absent"
    <3>1. event[e].wake \in Wakes /\ event'[e].wake = event[e].wake
      BY <2>2, WakeStays
    <3>2. wake[event[e].wake].state # "absent"
      BY <2>2 DEF IInv, RowsInv, Rooted
    <3> QED
      BY <1>1, <2>2, <3>1, <3>2 DEF HolderInv, OwnersOnTheirCycles, KindsKept, Owner
  <2> QED
    BY <2>1, <2>2
<1>2. ASSUME NEW k \in Workers, worker'[k].stage # "idle", event'[worker'[k].event].kind = "owner"
      PROVE  worker'[k].event \in worker'[k].covered
  <2>1. CASE /\ worker[k].stage # "idle"
             /\ worker'[k].event = worker[k].event /\ worker'[k].covered = worker[k].covered
    <3>1. worker[k].event \in Events /\ event[worker[k].event].state # "absent"
      BY <2>1, PassRows
    <3> QED
      BY <1>2, <2>1, <3>1 DEF HolderInv, OwnerCovered, KindsKept, Owner
  <2> QED
    BY <1>2, <2>1 DEF PassKept
<1> QED
  BY <1>1, <1>2 DEF HolderInv, OwnersOnTheirCycles, OwnerCovered, Owner

\* Nothing but ingress brings a message.
LEMMA NobodyArrives ==
  ASSUME IInv,
         \/ NoNewLease(event, wake, event', wake') \/ UNCHANGED <<event, wake>>
         \/ \E f \in Events : Takes(f)
  PROVE  ArrivesAtHome
<1>1. ASSUME NEW e \in Events, event[e].state = "absent", event'[e].state # "absent"
      PROVE  FALSE
  <2>1. CASE NoNewLease(event, wake, event', wake') \/ UNCHANGED <<event, wake>>
    BY <1>1, <2>1 DEF NoNewLease
  <2>2. ASSUME NEW f \in Events, Takes(f) PROVE FALSE
    <3>1. EventsNormalized[e] = event[e] /\ EventsNormalized[f].state = "pending"
      BY <1>1, <2>2 DEF Takes, NoNewLease
    <3> QED
      BY <1>1, <2>2, <3>1 DEF Takes
  <2> QED
    BY <2>1, <2>2
<1> QED
  BY <1>1 DEF ArrivesAtHome

\* A cycle that is retired keeps its trigger.
LEMMA RetiredTrigger ==
  ASSUME IInv, NEW wk, NEW v, NEW w \in Wakes
  PROVE  RetireOwnerless(cycle, wk, v)[w].trigger = cycle[w].trigger
BY DEF RetireOwnerless, IInv, TypeOK, CycleRow

LEMMA NormalizedKinds ==
  ASSUME IInv
  PROVE  /\ \A e \in Events : EventsNormalized[e].kind = event[e].kind
         /\ \A w \in Wakes : CyclesNormalized[w].trigger = cycle[w].trigger
<1>1. ASSUME NEW e \in Events PROVE EventsNormalized[e].kind = event[e].kind
  <2>1. EventsPromoted[e].kind = event[e].kind
    BY RecoveryCompletesNothing DEF IInv, TypeOK, EventRow, EventsPromoted
  <2>2. EventsPromoted[e] \in EventRow
    <3>1. EventsRecovered(Lapsed)[e] \in EventRow
      BY RecoveryTyped DEF IInv
    <3> QED
      BY <3>1 DEF IInv, TypeOK, EventRow, EventStates, EventsPromoted
  <2> QED
    BY <2>1, <2>2 DEF EventsNormalized, EventRow
<1>2. ASSUME NEW w \in Wakes PROVE CyclesNormalized[w].trigger = cycle[w].trigger
  BY RetiredTrigger DEF CyclesNormalized
<1> QED
  BY <1>1, <1>2

\* A claim covers the Owner message it takes.
LEMMA ClaimHolds ==
  ASSUME IInv, NEW k \in Workers, NEW e \in Events, Claim(k, e)
  PROVE  KindsKept /\ (\A j \in Workers : PassKept(j)) /\ HolderSettles
<1> DEFINE ev == EventsNormalized
<1>1. ev \in [Events -> EventRow] /\ worker \in [Workers -> Pass]
  BY NormalizationTyped DEF IInv, TypeOK
<1>2. /\ event' = [ev EXCEPT ![e].state = "leased", ![e].attempts = event[e].attempts + 1,
                             ![e].elapsed = FALSE]
      /\ cycle' = CyclesNormalized /\ speech' = speech
  BY DEF Claim
<1>3. \A f \in Events : ev[f].kind = event[f].kind
  BY NormalizedKinds
<1> HIDE DEF ev
<1>4. \A f \in Events : event'[f].kind = event[f].kind
  BY <1>1, <1>2, <1>3 DEF EventRow
<1>5. KindsKept
  BY <1>2, <1>4, NormalizedKinds DEF KindsKept
<1>6. ASSUME NEW j \in Workers PROVE PassKept(j)
  <2>1. PICK C : worker' = [worker EXCEPT ![k] = [stage |-> "claimed", event |-> e,
                   ordinal |-> event[e].attempts + 1, covered |-> C \cup (IF Owner(e) THEN {e} ELSE {}),
                   read |-> {}, successor |-> NoEvent]]
    BY DEF Claim
  <2>2. CASE j = k
    <3>1. worker'[k].event = e /\ (Owner(e) => e \in worker'[k].covered)
      BY <1>1, <2>1
    <3> QED
      BY <1>4, <2>2, <3>1 DEF PassKept, Owner
  <2>3. CASE j # k
    <3>1. worker'[j] = worker[j]
      BY <1>1, <2>1, <2>3
    <3> QED
      BY <3>1 DEF PassKept
  <2> QED
    BY <2>2, <2>3
<1> QED
  BY <1>2, <1>5, <1>6 DEF HolderSettles

\* A pass that thinks settles its cycle only if it holds its claim.
LEMMA ThinkHolds ==
  ASSUME IInv, HolderInv, NEW k \in Workers, Think(k)
  PROVE  KindsKept /\ (\A j \in Workers : PassKept(j)) /\ HolderSettles
<1>0. /\ worker \in [Workers -> Pass] /\ cycle \in [Wakes -> CycleRow]
      /\ speech \in [Wakes -> SpeechStates]
  BY DEF IInv, TypeOK
<1>1. /\ WakeOf(k) \in Wakes /\ worker[k].event \in Events /\ worker[k].stage # "idle"
      /\ worker[k] \in Pass /\ event[worker[k].event].state # "absent"
  <2>1. worker[k].stage # "idle"
    BY DEF Think, Begin, ModelReturns, FindsStale, StopsForOwnerAnswer, PublishRefused, Publish,
           Publishing, Fail, Abstain, Transfer, Defer, Throw, HoldCeiling, DispatchEffect, Running
  <2> QED
    BY <2>1, PassRows
<1>2. \A e \in Events : event'[e].kind = event[e].kind
  <2>1. event' = event \/ \E L : event' = EventsRecovered(L)
    BY DEF Think, Begin, ModelReturns, FindsStale, StopsForOwnerAnswer, PublishRefused, Publish,
           Fail, Abstain, Transfer, Defer, Throw, HoldCeiling, DispatchEffect
  <2> QED
    BY <2>1, RecoveryCompletesNothing
<1>3. \A w \in Wakes : cycle'[w].trigger = cycle[w].trigger
  <2>1. cycle' = cycle \/ \E st : cycle' = [cycle EXCEPT ![WakeOf(k)].state = st]
    BY DEF Think, Begin, ModelReturns, FindsStale, StopsForOwnerAnswer, PublishRefused, Publish,
           Fail, Abstain, Transfer, Defer, Throw, HoldCeiling, DispatchEffect
  <2> QED
    BY <1>0, <2>1 DEF CycleRow
<1>4. KindsKept
  BY <1>2, <1>3 DEF KindsKept
<1>5. ASSUME NEW j \in Workers PROVE PassKept(j)
  <2>1. \/ worker' = worker
        \/ \E s : worker' = [worker EXCEPT ![k] = [@ EXCEPT !.stage = s]]
        \/ \E s, R : worker' = [worker EXCEPT ![k] = [@ EXCEPT !.stage = s, !.read = R]]
        \/ \E s, f : worker' = [worker EXCEPT ![k] = [@ EXCEPT !.stage = s, !.successor = f]]
    BY DEF Think, Begin, ModelReturns, FindsStale, StopsForOwnerAnswer, PublishRefused, Publish,
           Fail, Abstain, Transfer, Defer, Throw, HoldCeiling, DispatchEffect, Stage
  <2>2. \/ worker'[j] = worker[j]
        \/ j = k /\ worker'[k].event = worker[k].event /\ worker'[k].covered = worker[k].covered
    BY <1>0, <1>1, <2>1 DEF Pass
  <2> QED
    BY <1>1, <2>2 DEF PassKept
<1>6. HolderSettles
  <2>1. SUFFICES ASSUME NEW w \in Wakes, cycle[w].trigger = "owner", speech[w] = "none",
                        speech'[w] # "none"
                 PROVE  \E e \in Events : /\ event[e].wake = w /\ event[e].state = "leased"
                                          /\ \E j \in Workers : ClaimOf(j) = Token(e)
    BY DEF HolderSettles
  <2>2. PICK said \in {"queued", "silence", "mute"} : Publish(k, said)
    BY <2>1 DEF Think, Begin, ModelReturns, FindsStale, StopsForOwnerAnswer, PublishRefused,
                Fail, Abstain, Transfer, Defer, Throw, HoldCeiling, DispatchEffect
  <2>3. w = WakeOf(k)
    BY <1>0, <1>1, <2>1, <2>2 DEF Publish
  <2>4. Owner(worker[k].event)
    BY <1>1, <2>1, <2>3 DEF HolderInv, OwnersOnTheirCycles, WakeOf
  <2>5. Held(k)
    BY <1>1, <2>2, <2>4 DEF HolderInv, OwnerCovered, Publish, Publishing, MayAnswer, AttemptLost
  <2> QED
    BY <1>1, <2>3, <2>5 DEF Held, WakeOf
<1> QED
  BY <1>4, <1>5, <1>6

\* A settlement of an attempt keeps every kind, and settles no cycle.
LEMMA SettleHolds ==
  ASSUME IInv, NEW k \in Workers, Settle(k)
  PROVE  KindsKept /\ (\A j \in Workers : PassKept(j)) /\ HolderSettles
<1> DEFINE e == worker[k].event
<1>1. /\ speech' = speech /\ worker' = [worker EXCEPT ![k] = IdleWorker]
  BY DEF Settle, SettleLost, SettleCompleted, SettleDeferred, SettleRetry, SettleTerminal,
         SettleSuperseded, SettleUnknown, Freed
<1>2. event \in [Events -> EventRow] /\ worker \in [Workers -> Pass]
  BY DEF IInv, TypeOK
<1>3. \A st, reason : \A f \in Events : Closed(event[f], st, reason).kind = event[f].kind
  BY <1>2 DEF Closed, EventRow
<1>4. ASSUME NEW f \in Events PROVE event'[f].kind = event[f].kind
  <2>1. \/ event' = event
        \/ event' \in {EventsCompleted(k), EventsSuperseded(k), EventsExhausted(k), EventsStale(k)}
        \/ event' = [event EXCEPT ![e] = Closed(@, "terminal", "deferred")]
        \/ \E st : event' = [event EXCEPT ![e].state = st, ![e].elapsed = FALSE]
    BY DEF Settle, SettleLost, SettleCompleted, SettleDeferred, SettleRetry, SettleTerminal,
           SettleSuperseded, SettleUnknown
  <2>2. CASE event' \in {EventsCompleted(k), EventsSuperseded(k)}
    BY <1>3, <2>2 DEF EventsCompleted, EventsSuperseded
  <2>3. CASE event' \in {EventsExhausted(k), EventsStale(k)}
    BY <1>2, <1>3, <2>3 DEF EventsExhausted, EventsStale
  <2>4. CASE \E st : event' = [event EXCEPT ![e].state = st, ![e].elapsed = FALSE]
    BY <1>2, <2>4 DEF EventRow
  <2>5. CASE event' = [event EXCEPT ![e] = Closed(@, "terminal", "deferred")]
    BY <1>2, <1>3, <2>5
  <2> QED
    BY <2>1, <2>2, <2>3, <2>4, <2>5
<1>5. \A w \in Wakes : cycle'[w].trigger = cycle[w].trigger
  <2>1. CASE SettleDeferred(k)
    BY <2>1 DEF SettleDeferred, IInv, TypeOK, CycleRow
  <2>2. CASE ~SettleDeferred(k)
    BY <2>2, RetiredTrigger DEF Settle, SettleLost, SettleCompleted, SettleRetry, SettleTerminal,
                                SettleSuperseded, SettleUnknown
  <2> QED
    BY <2>1, <2>2
<1>6. \A j \in Workers : worker'[j] = worker[j] \/ worker'[j].stage = "idle"
  BY <1>1, <1>2 DEF IdleWorker
<1> QED
  BY <1>1, <1>4, <1>5, <1>6 DEF KindsKept, PassKept, HolderSettles

\* Ingress, deadlines, reconciliation, crashes and startup settle no cycle.
LEMMA RestHolds ==
  ASSUME IInv,
         \/ Ingress \/ Clock \/ Reconcile \/ Crash \/ Startup
         \/ \E w \in Wakes : Deliver(w) \/ ResolveEffect(w)
  PROVE  KindsKept /\ (\A j \in Workers : PassKept(j)) /\ HolderSettles
<1>0. /\ event \in [Events -> EventRow] /\ cycle \in [Wakes -> CycleRow]
      /\ speech \in [Wakes -> SpeechStates]
  BY DEF IInv, TypeOK
<1>1. ASSUME worker' = worker \/ \A j \in Workers : worker'[j].stage = "idle"
      PROVE  \A j \in Workers : PassKept(j)
  BY <1>1 DEF PassKept
<1>2. ASSUME \A w \in Wakes : speech[w] = "none" => speech'[w] = "none"
      PROVE  HolderSettles
  BY <1>2 DEF HolderSettles
<1>3. CASE Ingress
  <2>1. PICK c \in Conversations, e \in Events, w \in Wakes :
          \/ OwnerOpens(c, e, w) \/ OwnerComposes(c, e, w)
          \/ \E old \in Wakes : OwnerPreempts(c, e, old, w)
          \/ AdmitCompletion(c, e, w) \/ AdmitOwnTime(c, e, w)
    BY <1>3 DEF Ingress
  <2>2. event[e].state = "absent" /\ \E row : event' = [event EXCEPT ![e] = row]
    BY <2>1 DEF OwnerOpens, OwnerComposes, OwnerPreempts, AdmitCompletion, AdmitOwnTime, NextEvent
  <2>3. \A f \in Events : event[f].state # "absent" => event'[f] = event[f]
    BY <1>0, <2>2
  <2>4. \A v \in Wakes : wake[v].state # "absent" => cycle'[v].trigger = cycle[v].trigger
    <3>1. CASE \E old \in Wakes : OwnerPreempts(c, e, old, w)
      <4>1. PICK old \in Wakes :
              /\ cycle' = [cycle EXCEPT ![old] = [@ EXCEPT !.state = "silent"],
                                        ![w] = NewCycle("owner", old)]
              /\ wake[w].state = "absent"
        BY <3>1 DEF OwnerPreempts, NextWake
      <4> QED
        BY <1>0, <4>1 DEF CycleRow
    <3>2. CASE \/ OwnerOpens(c, e, w) \/ AdmitCompletion(c, e, w) \/ AdmitOwnTime(c, e, w)
      <4>1. wake[w].state = "absent" /\ \E row : cycle' = [cycle EXCEPT ![w] = row]
        BY <3>2 DEF OwnerOpens, AdmitCompletion, AdmitOwnTime, NextWake
      <4> QED
        BY <1>0, <4>1
    <3> QED
      BY <2>1, <3>1, <3>2 DEF OwnerComposes
  <2>5. \A v \in Wakes : speech[v] = "none" => speech'[v] = "none"
    <3>1. speech' = speech \/ \E old \in Wakes : speech' = Suppressed(old)
      BY <2>1 DEF OwnerOpens, OwnerComposes, OwnerPreempts, AdmitCompletion, AdmitOwnTime
    <3> QED
      BY <1>0, <3>1 DEF Suppressed
  <2>6. worker' = worker
    BY <2>1 DEF OwnerOpens, OwnerComposes, OwnerPreempts, AdmitCompletion, AdmitOwnTime
  <2> QED
    BY <1>1, <1>2, <2>3, <2>4, <2>5, <2>6 DEF KindsKept
<1>4. CASE Clock
  <2>1. \A f \in Events : event'[f].kind = event[f].kind
    BY <1>0, <1>4 DEF Clock, DeadlineElapses, AgeElapses, EventRow
  <2>2. UNCHANGED <<cycle, speech, worker>>
    BY <1>4 DEF Clock, DeadlineElapses, AgeElapses
  <2> QED
    BY <1>1, <1>2, <2>1, <2>2 DEF KindsKept
<1>5. CASE Reconcile
  <2>1. ASSUME NEW f \in Events PROVE event'[f].kind = event[f].kind
    <3>1. CASE event' = event
      BY <3>1
    <3>2. ASSUME NEW g \in Events, ReconcileStranded(g) \/ AbandonSpent(g)
          PROVE  event'[f].kind = event[f].kind
      <4>1. CASE event' = [event EXCEPT ![g].state = "pending"]
        BY <1>0, <4>1 DEF EventRow
      <4>2. CASE event' = [event EXCEPT ![g] = Closed(@, "terminal", "permanent_failure")]
        BY <1>0, <4>2 DEF Closed, EventRow
      <4> QED
        BY <3>2, <4>1, <4>2 DEF ReconcileStranded, AbandonSpent
    <3>3. ASSUME NEW g \in Events, RetireStale(g) PROVE event'[f].kind = event[f].kind
      BY <1>0, <3>3 DEF RetireStale, Closed, EventRow
    <3> QED
      BY <1>5, <3>1, <3>2, <3>3 DEF Reconcile, RetireOwnerlessCycle, ConvergeOrphan
  <2>2. ASSUME NEW v \in Wakes PROVE cycle'[v].trigger = cycle[v].trigger
    <3>1. \/ cycle' = cycle \/ \E Z : cycle' = CyclesRetired(Z)
          \/ \E wk, w : cycle' = RetireOwnerless(cycle, wk, w)
      BY <1>5 DEF Reconcile, RetireOwnerlessCycle, ReconcileStranded, AbandonSpent, RetireStale,
                  ConvergeOrphan
    <3> QED
      BY <1>0, <3>1, RetiredTrigger DEF CyclesRetired, CycleRow
  <2>3. worker' = worker /\ \A v \in Wakes : speech[v] = "none" => speech'[v] = "none"
    BY <1>5 DEF Reconcile, RetireOwnerlessCycle, ReconcileStranded, AbandonSpent, RetireStale,
                ConvergeOrphan, SpeechRetired
  <2> QED
    BY <1>1, <1>2, <2>1, <2>2, <2>3 DEF KindsKept
<1>6. CASE Crash
  BY <1>1, <1>2, <1>6 DEF Crash, Stops, IdleWorker, KindsKept
<1>7. CASE Startup
  <2>1. \A f \in Events : event'[f].kind = event[f].kind
    <3>1. CASE RecoverWakes \/ RecoverEvents
      BY <3>1, RecoveryCompletesNothing DEF RecoverWakes, RecoverEvents
    <3>2. CASE ReconcileOwnership
      BY <1>0, <3>2 DEF ReconcileOwnership, Closed, EventRow
    <3> QED
      BY <1>7, <3>1, <3>2 DEF Startup
  <2>2. \A v \in Wakes : cycle'[v].trigger = cycle[v].trigger
    BY <1>0, <1>7 DEF Startup, RecoverWakes, RecoverEvents, ReconcileOwnership, CyclesRetired, CycleRow
  <2>3. worker' = worker /\ \A v \in Wakes : speech[v] = "none" => speech'[v] = "none"
    BY <1>7 DEF Startup, RecoverWakes, RecoverEvents, ReconcileOwnership, SpeechRetired
  <2> QED
    BY <1>1, <1>2, <2>1, <2>2, <2>3 DEF KindsKept
<1>8. ASSUME NEW w \in Wakes, Deliver(w) \/ ResolveEffect(w)
      PROVE  KindsKept /\ (\A j \in Workers : PassKept(j)) /\ HolderSettles
  <2>1. /\ UNCHANGED <<event, worker>> /\ \A v \in Wakes : cycle'[v].trigger = cycle[v].trigger
        /\ \A v \in Wakes : speech[v] = "none" => speech'[v] = "none"
    BY <1>0, <1>8 DEF Deliver, ResolveEffect, CycleRow
  <2> QED
    BY <1>1, <1>2, <2>1 DEF KindsKept
<1> QED
  BY <1>3, <1>4, <1>5, <1>6, <1>7, <1>8

\* The turn of a frontier settles the cycle of the deferred message it was opened on.
LEMMA CoordinateHolds ==
  ASSUME IInv, FrontierRows, Coordinate
  PROVE  KindsKept /\ (\A k \in Workers : PassKept(k)) /\ HolderSettles
<1>1. UNCHANGED <<event, worker>>
  BY DEF Coordinate, FrontierExhausts, TurnOpens, TurnReturns, TurnPublishes, TurnReplays,
         TurnFails, TurnDefers, TurnDispatches
<1>2. \A w \in Wakes : cycle'[w].trigger = cycle[w].trigger
  <2>0. cycle \in [Wakes -> CycleRow]
    BY DEF IInv, TypeOK
  <2>1. ASSUME NEW f \in Events, TurnOpens(f)
        PROVE  \A w \in Wakes : cycle'[w].trigger = cycle[w].trigger
    <3>1. cycle' = [cycle EXCEPT ![event[f].wake].state = "open"]
      BY <2>1 DEF TurnOpens
    <3> QED
      BY <2>0, <3>1 DEF CycleRow
  <2>2. ASSUME NEW said, TurnPublishes(said)
        PROVE  \A w \in Wakes : cycle'[w].trigger = cycle[w].trigger
    BY <2>0, <2>2 DEF TurnPublishes, CycleRow
  <2>3. CASE TurnFails \/ TurnDefers
    <3>1. cycle' = cycle \/ cycle' = [cycle EXCEPT ![TurnWake].state = "silent"]
      BY <2>3 DEF TurnFails, TurnDefers
    <3> QED
      BY <2>0, <3>1 DEF CycleRow
  <2>4. ASSUME NEW f \in Events, FrontierExhausts(f) PROVE cycle' = cycle
    BY <2>4 DEF FrontierExhausts
  <2>5. CASE TurnReturns \/ TurnReplays \/ TurnDispatches
    BY <2>5 DEF TurnReturns, TurnReplays, TurnDispatches
  <2> QED
    BY <2>1, <2>2, <2>3, <2>4, <2>5 DEF Coordinate
<1>3. HolderSettles
  <2>1. SUFFICES ASSUME NEW w \in Wakes, speech[w] = "none", speech'[w] # "none"
                 PROVE  \E e \in Events : /\ event[e].wake = w
                                          /\ event[e].reason = "deferred" /\ turn.frontier = e
    BY DEF HolderSettles
  <2>2. PICK said \in {"queued", "silence", "mute"} : TurnPublishes(said)
    BY <2>1 DEF Coordinate, FrontierExhausts, TurnOpens, TurnReturns, TurnReplays, TurnFails,
                TurnDefers, TurnDispatches
  <2>3. w = TurnWake
    BY <2>1, <2>2 DEF TurnPublishes, IInv, TypeOK
  <2>4. turn.frontier \in Events /\ event[turn.frontier].reason = "deferred"
    BY <2>2 DEF TurnPublishes, FrontierRows
  <2> QED
    BY <2>3, <2>4 DEF TurnWake
<1> QED
  BY <1>1, <1>2, <1>3 DEF KindsKept, PassKept

LEMMA NextHolder ==
  IInv /\ FrontierRows /\ HolderInv /\ [Next]_vars => HolderInv' /\ HolderSettles
<1> SUFFICES ASSUME IInv, FrontierRows, HolderInv, [Next]_vars PROVE HolderInv' /\ HolderSettles
  OBVIOUS
<1>1. StepOfRows
  BY NextIInv
<1>2. ASSUME KindsKept, \A k \in Workers : PassKept(k), HolderSettles, ArrivesAtHome
      PROVE  HolderInv' /\ HolderSettles
  BY <1>1, <1>2, KindsKeep
<1>3. CASE Ingress
  <2>1. PICK c \in Conversations, e \in Events, w \in Wakes :
          \/ OwnerOpens(c, e, w) \/ OwnerComposes(c, e, w)
          \/ \E old \in Wakes : OwnerPreempts(c, e, old, w)
          \/ AdmitCompletion(c, e, w) \/ AdmitOwnTime(c, e, w)
    BY <1>3 DEF Ingress
  <2>2. event \in [Events -> EventRow] /\ cycle \in [Wakes -> CycleRow]
    BY DEF IInv, TypeOK
  <2>3. PICK kind \in AllKinds :
          /\ event' = [event EXCEPT ![e] = NewEvent(kind, w)]
          /\ kind = "owner" \/ cycle' = [cycle EXCEPT ![w] = NewCycle(kind, NoWake)]
    BY <2>1 DEF OwnerOpens, OwnerComposes, OwnerPreempts, AdmitCompletion, AdmitOwnTime, AllKinds
  <2>4. /\ event'[e].kind = kind /\ event'[e].wake = w
        /\ \A f \in Events : f # e => event'[f] = event[f]
    BY <2>2, <2>3 DEF NewEvent, AbsentEvent
  <2>5. kind = "owner" \/ cycle'[w].trigger = kind
    BY <2>2, <2>3 DEF NewCycle
  <2>6. ArrivesAtHome
    BY <2>4, <2>5 DEF ArrivesAtHome
  <2> QED
    BY <1>2, <1>3, <2>6, RestHolds
<1>4. CASE Clock \/ Reconcile \/ Crash \/ Startup \/ \E w \in Wakes : Deliver(w) \/ ResolveEffect(w)
  <2>1. NoNewLease(event, wake, event', wake') \/ UNCHANGED <<event, wake>>
    BY <1>4, ClockStep, ReconcileStep, StopStep, StartupStep, ResolveStep DEF Sweeps, Quiet, Crash
  <2> QED
    BY <1>2, <1>4, <2>1, NobodyArrives, RestHolds
<1>5. ASSUME UNCHANGED <<speech, worker>> \/ Stops,
             \/ UNCHANGED <<event, cycle>>
             \/ event' = EventsNormalized /\ cycle' = CyclesNormalized
      PROVE  KindsKept /\ (\A k \in Workers : PassKept(k)) /\ HolderSettles
  BY <1>5, NormalizedKinds DEF KindsKept, PassKept, HolderSettles, Stops, IdleWorker
<1>6. CASE OwnTime
  <2>1. ArrivesAtHome
    BY <1>6, OwnTimeStep, NobodyArrives DEF Sweeps
  <2>2. CASE LeaveOwnTime
    BY <1>2, <1>5, <2>1, <2>2 DEF LeaveOwnTime
  <2>3. CASE \E e \in Events : ClaimOwnTime(e)
    BY <1>2, <2>1, <2>3, ClaimHolds, WorkersKnown DEF ClaimOwnTime
  <2> QED
    BY <1>6, <2>2, <2>3 DEF OwnTime
<1>7. ASSUME NEW k \in Consumers, Poll(k) PROVE HolderInv' /\ HolderSettles
  <2>1. ArrivesAtHome
    BY <1>7, PollStep, NobodyArrives DEF Sweeps
  <2>2. CASE PollFindsNothing(k) \/ PollThrows(k)
    BY <1>2, <1>5, <2>1, <2>2 DEF PollFindsNothing, PollThrows, Stops
  <2>3. CASE \E e \in Events : PollClaims(k, e)
    BY <1>2, <2>1, <2>3, ClaimHolds, WorkersKnown DEF PollClaims
  <2> QED
    BY <1>7, <2>2, <2>3 DEF Poll
<1>8. ASSUME NEW k \in Workers, Think(k) \/ Settle(k) PROVE HolderInv' /\ HolderSettles
  <2>1. ArrivesAtHome
    BY <1>8, ThinkStep, SettleStep, NobodyArrives DEF Quiet
  <2> QED
    BY <1>2, <1>8, <2>1, ThinkHolds, SettleHolds
<1>9. CASE UNCHANGED vars
  <2>1. ArrivesAtHome
    BY <1>9, NobodyArrives DEF vars
  <2> QED
    BY <1>2, <1>5, <1>9, <2>1 DEF vars
<1>10. CASE Coordinate
  <2>1. ArrivesAtHome
    BY <1>10, CoordinateStep, NobodyArrives DEF Quiet
  <2> QED
    BY <1>2, <1>10, <2>1, CoordinateHolds
<1> QED
  BY <1>3, <1>4, <1>6, <1>7, <1>8, <1>9, <1>10 DEF Next

\* A pass on an Owner message settles only while it holds the claim on that message,
\* whatever else arrives and whatever goes wrong: one whose lease was recovered under it
\* does not speak.  Nor does anyone else, but the turn of a frontier for a deferred one.
THEOREM HolderAloneSettles == Spec => OnlyHolderSettles
<1>1. Init => HolderInv
  BY DEF Init, HolderInv, OwnersOnTheirCycles, OwnerCovered, AbsentEvent, IdleWorker
<1>2. IInv /\ FrontierRows /\ HolderInv /\ [Next]_vars
        => [\A w \in Wakes : cycle[w].trigger = "owner" /\ speech[w] = "none" /\ speech'[w] # "none" =>
              \E e \in Events :
                /\ event[e].wake = w
                /\ \/ event[e].state = "leased" /\ \E k \in Workers : ClaimOf(k) = Token(e)
                   \/ event[e].reason = "deferred" /\ turn.frontier = e]_vars
  BY NextHolder DEF HolderSettles
<1> QED
  BY <1>1, <1>2, NextHolder, FrontierInvariance, Invariance, PTL DEF Spec, OnlyHolderSettles
--------------------------------------------------------------------------------
(* What is handed on.                                                       *)

\* startInboxConsumer is called once for each set of conversations: no two consumers
\* poll for one conversation.
OneConsumerEach == \A j, k \in Consumers : j # k => Serves[j] \cap Serves[k] = {}

Active(k)    == worker[k].stage # "idle"
Undecided(s) == s \in {"thinking", "drafted", "superseded"}

\* A generation has been displaced once another one was opened in its place.
Displaced(w) == \E v \in Wakes : cycle[v].parent = w

\* What arrives is of the kinds that do.  Own time is thought in cycles of its own, and
\* the idle path runs nothing else.
OwnTimeApart ==
  /\ \A e \in Events : event[e].state # "absent" =>
       /\ event[e].kind \in Kinds
       /\ event[e].kind = "own_time" <=> cycle[event[e].wake].trigger = "own_time"
  /\ Active(IdlePath) => event[worker[IdlePath].event].kind = "own_time"
  /\ phase = "claiming" => \A e \in Events : FreshOwnTime(e) => event[e].kind = "own_time"

ConsumersAtHome == \A k \in Consumers : Active(k) => Conv(worker[k].event) \in Serves[k]

ParentsExist == \A w \in Wakes : wake[w].state = "absent" => cycle[w].parent = NoWake

\* A pass on an Owner message that has yet to settle its cycle, or that is about to hand
\* it on, finds it unsettled.
UndecidedUnsettled ==
  \A k \in Workers : Active(k) /\ Owner(worker[k].event) /\ Undecided(worker[k].stage)
                       => ~Settled(WakeOf(k))

HandsToSuccessor ==
  \A k \in Workers : worker[k].stage = "superseded" =>
    Owner(worker[k].event) /\ Displaced(WakeOf(k))

\* What was handed on left a cycle that nobody can settle any more.
HandedOver ==
  \A e \in Events : event[e].reason = "superseded" =>
    /\ ~Settled(event[e].wake) /\ Displaced(event[e].wake)
    /\ \A k \in Workers : Active(k) /\ WakeOf(k) = event[e].wake => worker[k].stage # "drafted"

HandInv ==
  /\ OwnTimeApart /\ ConsumersAtHome /\ ParentsExist
  /\ UndecidedUnsettled /\ HandsToSuccessor /\ HandedOver

\* What a step does to a pass, to the parents of cycles, to settlements and to messages.
PassMoves(k) ==
  \/ worker'[k].stage = "idle"
  \/ /\ Active(k) /\ worker'[k].event = worker[k].event
     /\ Undecided(worker'[k].stage) => Undecided(worker[k].stage) \/ ~Settled(WakeOf(k))
     /\ worker'[k].stage = "superseded" =>
          worker[k].stage = "superseded" \/ (Owner(worker[k].event) /\ Displaced(WakeOf(k)))
     /\ worker'[k].stage = "drafted" => worker[k].stage = "drafted" \/ ~Displaced(WakeOf(k))
  \/ /\ worker'[k].stage = "claimed" /\ worker'[k].event \in Events
     /\ event[worker'[k].event].state # "absent"
     /\ k \in Consumers => Conv(worker'[k].event) \in Serves[k]
     /\ k = IdlePath => event[worker'[k].event].kind = "own_time"

ParentsKept ==
  \A w \in Wakes :
    /\ wake[w].state # "absent" => cycle'[w].parent = cycle[w].parent
    /\ wake'[w].state = "absent" =>
         wake[w].state = "absent" /\ cycle'[w].parent = cycle[w].parent

SettledByDraft ==
  \A w \in Wakes : Settled(w)' =>
    \/ Settled(w)
    \/ \E k \in Workers : /\ worker[k].stage = "drafted" /\ WakeOf(k) = w
                          /\ ~Undecided(worker'[k].stage)

HandedByPass ==
  \A e \in Events : event'[e].reason = "superseded" =>
    \/ event[e].reason = "superseded"
    \/ \E k \in Workers : /\ worker[k].stage = "superseded" /\ worker'[k].stage = "idle"
                          /\ event[e].state # "absent" /\ event[e].wake = WakeOf(k)
                          /\ speech' = speech

ArrivesApart ==
  /\ \A e \in Events : event[e].state = "absent" /\ event'[e].state # "absent" =>
       /\ event'[e].kind \in Kinds
       /\ event'[e].kind = "own_time" <=> cycle'[event'[e].wake].trigger = "own_time"
  /\ phase' = "claiming" => \A e \in Events : FreshOwnTime(e)' => event'[e].kind = "own_time"

Moves == /\ \A k \in Workers : PassMoves(k)
         /\ ParentsKept /\ SettledByDraft /\ HandedByPass

\* A wake stays in its conversation.
LEMMA ConversationStays ==
  ASSUME IInv, StepOfRows, NEW w \in Wakes, wake[w].state # "absent"
  PROVE  wake'[w].conv = wake[w].conv
<1>1. ASSUME NEW c, NEW f, NEW v \in Wakes, NEW kind,
             Admits(event, wake, event', wake', c, f, kind, v)
      PROVE  wake'[w].conv = wake[w].conv
  BY <1>1 DEF Admits
<1>2. CASE NoNewLease(event, wake, event', wake') \/ UNCHANGED <<event, wake>>
  BY <1>2 DEF NoNewLease
<1>3. ASSUME NEW f \in Events, Takes(f) PROVE wake'[w].conv = wake[w].conv
  BY <1>3 DEF Takes
<1> QED
  BY <1>1, <1>2, <1>3 DEF StepOfRows, Sweeps

\* A step that takes no claim.
ClaimsNothing ==
  \/ NoNewLease(event, wake, event', wake')
  \/ \E c \in Conversations, e \in Events, w \in Wakes, kind \in AllKinds :
       Admits(event, wake, event', wake', c, e, kind, w)
  \/ UNCHANGED <<event, wake>>

\* A wake that exists goes on existing.
LEMMA AbsentStays ==
  ASSUME ClaimsNothing, NEW w \in Wakes, wake'[w].state = "absent"
  PROVE  wake[w].state = "absent"
BY DEF ClaimsNothing, NoNewLease, Admits

\* Two passes on one wake with an Owner message are one pass.
LEMMA OnePassPerWake ==
  ASSUME OneConsumerEach, IInv, OwnTimeApart, ConsumersAtHome,
         NEW j \in Workers, NEW k \in Workers, Active(j), Active(k),
         WakeOf(j) = WakeOf(k), Owner(worker[k].event)
  PROVE  j = k
<1>1. /\ worker[j].event \in Events /\ event[worker[j].event].state # "absent"
      /\ worker[k].event \in Events /\ event[worker[k].event].state # "absent"
  BY PassRows DEF Active
<1>2. cycle[WakeOf(k)].trigger # "own_time"
  BY <1>1 DEF OwnTimeApart, Owner, WakeOf
<1>3. /\ event[worker[j].event].kind # "own_time" /\ event[worker[k].event].kind # "own_time"
  BY <1>1, <1>2 DEF OwnTimeApart, WakeOf
<1>4. j \in Consumers /\ k \in Consumers
  BY <1>3 DEF OwnTimeApart, Workers
<1>5. Conv(worker[j].event) = Conv(worker[k].event)
  BY DEF Conv, WakeOf
<1> QED
  BY <1>4, <1>5 DEF ConsumersAtHome, OneConsumerEach

\* A displaced generation stays displaced.
LEMMA DisplacedStays ==
  ASSUME ParentsExist, ParentsKept, NEW w \in Wakes, Displaced(w)
  PROVE  Displaced(w)'
<1>1. PICK v \in Wakes : cycle[v].parent = w
  BY DEF Displaced
<1>2. w # NoWake
  BY ConstantsAssumption DEF Wakes, NoWake
<1>3. cycle'[v].parent = w
  BY <1>1, <1>2 DEF ParentsExist, ParentsKept
<1> QED
  BY <1>3 DEF Displaced

\* Such moves keep own time apart.
LEMMA ApartKeeps ==
  ASSUME IInv, StepOfRows, OwnTimeApart, KindsKept, Moves, ArrivesApart
  PROVE  OwnTimeApart'
<1>1. ASSUME NEW e \in Events, event[e].state # "absent"
      PROVE  /\ event'[e].wake = event[e].wake /\ event'[e].kind = event[e].kind
             /\ cycle'[event[e].wake].trigger = cycle[event[e].wake].trigger
  <2>1. wake[event[e].wake].state # "absent" /\ event[e].wake \in Wakes
    BY <1>1 DEF IInv, RowsInv, Rooted
  <2> QED
    BY <1>1, <2>1, WakeStays DEF KindsKept
<1>2. ASSUME NEW e \in Events, event'[e].state # "absent"
      PROVE  /\ event'[e].kind \in Kinds
             /\ event'[e].kind = "own_time" <=> cycle'[event'[e].wake].trigger = "own_time"
  BY <1>1, <1>2 DEF ArrivesApart, OwnTimeApart
<1>3. ASSUME Active(IdlePath)' PROVE event'[worker'[IdlePath].event].kind = "own_time"
  <2>1. \/ Active(IdlePath) /\ worker'[IdlePath].event = worker[IdlePath].event
        \/ /\ worker'[IdlePath].event \in Events
           /\ event[worker'[IdlePath].event].state # "absent"
           /\ event[worker'[IdlePath].event].kind = "own_time"
    BY <1>3, WorkersKnown DEF Moves, PassMoves, Active
  <2>2. /\ worker'[IdlePath].event \in Events /\ event[worker'[IdlePath].event].state # "absent"
        /\ event[worker'[IdlePath].event].kind = "own_time"
    BY <2>1, PassRows, WorkersKnown DEF OwnTimeApart, Active
  <2> QED
    BY <1>1, <2>2
<1> QED
  BY <1>2, <1>3 DEF OwnTimeApart, ArrivesApart

\* Such moves keep what is handed on unsettled.
LEMMA MovesKeepHands ==
  ASSUME OneConsumerEach, IInv, IInv', StepOfRows, HandInv, KindsKept, Moves, ArrivesApart
  PROVE  HandInv'
<1>1. ASSUME NEW e \in Events, event[e].state # "absent"
      PROVE  /\ event[e].wake \in Wakes /\ event'[e].wake = event[e].wake
             /\ event'[e].kind = event[e].kind /\ wake[event[e].wake].state # "absent"
             /\ wake'[event[e].wake].conv = wake[event[e].wake].conv
             /\ cycle'[event[e].wake].trigger = cycle[event[e].wake].trigger
  <2>1. wake[event[e].wake].state # "absent" /\ event[e].wake \in Wakes
    BY <1>1 DEF IInv, RowsInv, Rooted
  <2> QED
    BY <1>1, <2>1, WakeStays, ConversationStays DEF KindsKept
<1>2. ASSUME NEW k \in Workers, Active(k)', worker'[k].stage # "claimed"
      PROVE  /\ Active(k) /\ worker'[k].event = worker[k].event
             /\ worker[k].event \in Events /\ event[worker[k].event].state # "absent"
             /\ WakeOf(k)' = WakeOf(k) /\ WakeOf(k) \in Wakes
             /\ Undecided(worker'[k].stage) => Undecided(worker[k].stage) \/ ~Settled(WakeOf(k))
             /\ worker'[k].stage = "superseded" =>
                  worker[k].stage = "superseded" \/ (Owner(worker[k].event) /\ Displaced(WakeOf(k)))
             /\ worker'[k].stage = "drafted" => worker[k].stage = "drafted" \/ ~Displaced(WakeOf(k))
  <2>1. /\ Active(k) /\ worker'[k].event = worker[k].event
        /\ Undecided(worker'[k].stage) => Undecided(worker[k].stage) \/ ~Settled(WakeOf(k))
        /\ worker'[k].stage = "superseded" =>
             worker[k].stage = "superseded" \/ (Owner(worker[k].event) /\ Displaced(WakeOf(k)))
        /\ worker'[k].stage = "drafted" => worker[k].stage = "drafted" \/ ~Displaced(WakeOf(k))
    BY <1>2 DEF Moves, PassMoves, Active
  <2>2. worker[k].event \in Events /\ event[worker[k].event].state # "absent"
    BY <2>1, PassRows DEF Active
  <2>3. /\ event[worker[k].event].wake \in Wakes
        /\ event'[worker[k].event].wake = event[worker[k].event].wake
    BY <1>1, <2>2
  <2> QED
    BY <2>1, <2>2, <2>3 DEF WakeOf
<1>3. \A k \in Workers : worker'[k].stage = "claimed" =>
        \/ Active(k) /\ worker'[k].event = worker[k].event
        \/ /\ worker'[k].event \in Events /\ event[worker'[k].event].state # "absent"
           /\ k \in Consumers => Conv(worker'[k].event) \in Serves[k]
           /\ k = IdlePath => event[worker'[k].event].kind = "own_time"
  BY DEF Moves, PassMoves
<1>4. OwnTimeApart'
  BY ApartKeeps DEF HandInv
<1>5. ConsumersAtHome'
  <2> SUFFICES ASSUME NEW k \in Consumers, Active(k)'
               PROVE  wake'[event'[worker'[k].event].wake].conv \in Serves[k]
    BY DEF ConsumersAtHome, Conv
  <2>1. /\ worker'[k].event \in Events /\ event[worker'[k].event].state # "absent"
        /\ Conv(worker'[k].event) \in Serves[k]
    <3>1. CASE worker'[k].stage = "claimed"
      BY <1>3, <3>1, PassRows, WorkersKnown DEF HandInv, ConsumersAtHome, Active
    <3>2. CASE worker'[k].stage # "claimed"
      BY <1>2, <3>2, WorkersKnown DEF HandInv, ConsumersAtHome
    <3> QED
      BY <3>1, <3>2
  <2> QED
    BY <1>1, <2>1 DEF Conv
<1>6. ParentsExist'
  BY DEF Moves, ParentsKept, HandInv, ParentsExist
<1>7. ASSUME NEW k \in Workers, Active(k)', worker'[k].stage # "claimed", Displaced(WakeOf(k))
      PROVE  Displaced(WakeOf(k))'
  BY <1>2, <1>7, DisplacedStays DEF HandInv, Moves, Displaced
<1>8. UndecidedUnsettled'
  <2> SUFFICES ASSUME NEW k \in Workers, Active(k)', Owner(worker[k].event)',
                      Undecided(worker'[k].stage)
               PROVE  ~Settled(WakeOf(k))'
    BY DEF UndecidedUnsettled, Undecided
  <2>1. worker'[k].stage # "claimed"
    BY DEF Undecided
  <2>2. Owner(worker[k].event) /\ Active(k) /\ WakeOf(k) \in Wakes /\ ~Settled(WakeOf(k))
    BY <1>1, <1>2, <2>1 DEF HandInv, UndecidedUnsettled, Owner
  <2>3. ASSUME NEW j \in Workers, worker[j].stage = "drafted", WakeOf(j) = WakeOf(k)
        PROVE  j = k
    BY <2>2, <2>3, OnePassPerWake DEF HandInv, Active
  <2>4. WakeOf(k)' = WakeOf(k) /\ speech'[WakeOf(k)] = "none"
    BY <1>2, <2>1, <2>2, <2>3 DEF Moves, SettledByDraft, Settled
  <2> QED
    BY <2>4 DEF Settled
<1>9. HandsToSuccessor'
  <2> SUFFICES ASSUME NEW k \in Workers, worker'[k].stage = "superseded"
               PROVE  Owner(worker[k].event)' /\ Displaced(WakeOf(k))'
    BY DEF HandsToSuccessor
  <2>1. Active(k)' /\ worker'[k].stage # "claimed"
    BY DEF Active
  <2>2. Owner(worker[k].event) /\ Displaced(WakeOf(k))
    BY <1>2, <2>1 DEF HandInv, HandsToSuccessor
  <2> QED
    BY <1>1, <1>2, <1>7, <2>1, <2>2 DEF Owner
<1>10. HandedOver'
  <2> SUFFICES ASSUME NEW e \in Events, event'[e].reason = "superseded"
               PROVE  /\ speech'[event'[e].wake] = "none" /\ Displaced(event[e].wake)'
                      /\ \A k \in Workers : Active(k)' /\ WakeOf(k)' = event'[e].wake
                                              => worker'[k].stage # "drafted"
    BY DEF HandedOver, Settled
  <2> DEFINE w == event[e].wake
  <2>1. /\ event[e].state # "absent" /\ ~Settled(w) /\ Displaced(w) /\ ~Settled(w)'
        /\ \A k \in Workers : Active(k) /\ WakeOf(k) = w /\ worker[k].stage = "drafted"
                                => worker'[k].stage = "idle"
    <3>1. CASE event[e].reason = "superseded"
      <4>1. event[e].state # "absent"
        BY <3>1 DEF IInv, RowsInv, Rooted, AbsentEvent
      <4>2. /\ ~Settled(w) /\ Displaced(w)
            /\ \A k \in Workers : Active(k) /\ WakeOf(k) = w => worker[k].stage # "drafted"
        BY <3>1 DEF HandInv, HandedOver
      <4>3. ~Settled(w)'
        BY <1>1, <4>1, <4>2 DEF Moves, SettledByDraft, Active, Settled
      <4> QED
        BY <4>1, <4>2, <4>3
    <3>2. ASSUME NEW k \in Workers, worker[k].stage = "superseded", worker'[k].stage = "idle",
                 event[e].state # "absent", w = WakeOf(k), speech' = speech
          PROVE  /\ ~Settled(w) /\ Displaced(w) /\ ~Settled(w)'
                 /\ \A j \in Workers : Active(j) /\ WakeOf(j) = w => j = k
      <4>1. Owner(worker[k].event) /\ Displaced(w) /\ Active(k)
        BY <3>2 DEF HandInv, HandsToSuccessor, Active
      <4>2. ~Settled(w)
        BY <3>2, <4>1 DEF HandInv, UndecidedUnsettled, Undecided
      <4>3. \A j \in Workers : Active(j) /\ WakeOf(j) = w => j = k
        BY <3>2, <4>1, OnePassPerWake DEF HandInv
      <4> QED
        BY <1>1, <3>2, <4>1, <4>2, <4>3 DEF Settled
    <3> QED
      BY <3>1, <3>2 DEF Moves, HandedByPass
  <2>2. w \in Wakes /\ event'[e].wake = w
    BY <1>1, <2>1
  <2>3. Displaced(w)'
    BY <2>1, <2>2, DisplacedStays DEF HandInv, Moves
  <2>4. ASSUME NEW k \in Workers, Active(k)', WakeOf(k)' = w, worker'[k].stage = "drafted"
        PROVE  FALSE
    <3>1. Active(k) /\ WakeOf(k) = w /\ (worker[k].stage = "drafted" \/ ~Displaced(w))
      BY <1>2, <2>4
    <3> QED
      BY <2>1, <2>4, <3>1
  <2> QED
    BY <2>1, <2>2, <2>3, <2>4 DEF Settled
<1> QED
  BY <1>4, <1>5, <1>6, <1>8, <1>9, <1>10 DEF HandInv

--------------------------------------------------------------------------------
(* The steps.                                                               *)

\* Normalisation hands nothing on and gives no cycle another parent.
LEMMA NormalizationHandsNothing ==
  ASSUME IInv
  PROVE  /\ \A e \in Events : EventsNormalized[e].reason = "superseded" => event[e].reason = "superseded"
         /\ \A w \in Wakes : CyclesNormalized[w].parent = cycle[w].parent
<1>1. ASSUME NEW e \in Events, EventsNormalized[e].reason = "superseded"
      PROVE  event[e].reason = "superseded"
  <2>1. EventsPromoted[e].reason = event[e].reason
    BY RecoveryCompletesNothing DEF IInv, TypeOK, EventRow, EventsPromoted
  <2>2. EventsPromoted[e] \in EventRow
    <3>1. EventsRecovered(Lapsed)[e] \in EventRow
      BY RecoveryTyped DEF IInv
    <3> QED
      BY <3>1 DEF IInv, TypeOK, EventRow, EventStates, EventsPromoted
  <2> QED
    BY <1>1, <2>1, <2>2 DEF EventsNormalized, EventRow
<1>2. ASSUME NEW w \in Wakes PROVE CyclesNormalized[w].parent = cycle[w].parent
  BY DEF CyclesNormalized, RetireOwnerless, IInv, TypeOK, CycleRow
<1> QED
  BY <1>1, <1>2

\* A claim starts a pass at home.
LEMMA ClaimMoves ==
  ASSUME IInv, NEW k \in Workers, NEW e \in Events, Claim(k, e), event[e].state # "absent",
         k \in Consumers => Conv(e) \in Serves[k],
         k = IdlePath => event[e].kind = "own_time"
  PROVE  Moves
<1> DEFINE ev == EventsNormalized
           wk == WakesNormalized
           n  == event[e].attempts + 1
<1>1. /\ ev \in [Events -> EventRow] /\ worker \in [Workers -> Pass] /\ wk \in [Wakes -> WakeRow]
      /\ NoNewLease(event, wake, ev, wk)
  BY NormalizationTyped, NormalizationLeasesNothing DEF IInv, TypeOK
<1>2. /\ event' = [ev EXCEPT ![e].state = "leased", ![e].attempts = n, ![e].elapsed = FALSE]
      /\ wake' = [wk EXCEPT ![event[e].wake].state = "authorized", ![event[e].wake].holder = <<e, n>>]
      /\ cycle' = CyclesNormalized /\ speech' = speech
  BY DEF Claim
<1>3. PICK C : worker' = [worker EXCEPT ![k] = [stage |-> "claimed", event |-> e, ordinal |-> n,
                            covered |-> C, read |-> {}, successor |-> NoEvent]]
  BY DEF Claim
<1> HIDE DEF ev, wk, n
<1>4. ASSUME NEW j \in Workers PROVE PassMoves(j)
  <2>1. CASE j = k
    BY <1>1, <1>3, <2>1 DEF PassMoves
  <2>2. CASE j # k
    <3>1. worker'[j] = worker[j]
      BY <1>1, <1>3, <2>2
    <3> QED
      BY <3>1 DEF PassMoves, Active
  <2> QED
    BY <2>1, <2>2
<1>5. ParentsKept
  <2>1. \A w \in Wakes : wake'[w].state = "absent" => wk[w].state = "absent"
    BY <1>1, <1>2 DEF WakeRow
  <2>2. \A w \in Wakes : wk[w].state = "absent" => wake[w].state = "absent"
    BY <1>1 DEF NoNewLease
  <2> QED
    BY <1>2, <2>1, <2>2, NormalizationHandsNothing DEF ParentsKept
<1>6. SettledByDraft
  BY <1>2 DEF SettledByDraft, Settled
<1>7. HandedByPass
  <2>1. \A f \in Events : event'[f].reason = ev[f].reason
    BY <1>1, <1>2 DEF EventRow
  <2> QED
    BY <2>1, NormalizationHandsNothing DEF HandedByPass, ev
<1> QED
  BY <1>4, <1>5, <1>6, <1>7 DEF Moves

\* A step that settles no cycle, hands nothing on and leaves the passes alone or ends them.
LEMMA PassesRest ==
  ASSUME worker' = worker \/ \A k \in Workers : worker'[k].stage = "idle",
         ParentsKept,
         \A w \in Wakes : Settled(w)' => Settled(w),
         \A e \in Events : event'[e].reason = "superseded" => event[e].reason = "superseded"
  PROVE  Moves
BY DEF Moves, PassMoves, Active, SettledByDraft, HandedByPass

\* A set of bounded numbers that is not empty has a greatest member.
LEMMA GreatestExists ==
  ASSUME NEW n \in Nat, NEW S \in SUBSET (1..n), S # {}
  PROVE  \E x \in S : \A y \in S : x >= y
<1> DEFINE R == OpToRel(<, Nat)
           T == {m \in Nat : m < n /\ n - m \in S}
<1>1. IsWellFoundedOn(R, Nat)
  BY NatLessThanWellFounded
<1>2. \A x \in S : x \in Nat /\ n - x \in T /\ n - (n - x) = x
  <2> TAKE x \in S
  <2>1. x \in Nat /\ 1 <= x /\ x <= n
    OBVIOUS
  <2> QED
    BY <2>1
<1>3. T \subseteq Nat /\ T # {}
  BY <1>2
<1>4. \A x, y \in Nat : y < x => <<y, x>> \in R
  BY DEF OpToRel
<1> HIDE DEF R
<1>5. PICK m \in T : \A y \in T : ~ (<<y, m>> \in R)
  BY <1>1, <1>3, WFMin
<1>6. \A y \in T : ~(y < m)
  BY <1>3, <1>4, <1>5
<1>7. \A y \in S : n - m >= y
  <2> TAKE y \in S
  <2>1. y \in Nat /\ n - y \in T /\ y <= n /\ ~(n - y < m)
    BY <1>2, <1>6
  <2> QED
    BY <2>1
<1> QED
  BY <1>7

\* The newest generation of a conversation, where it is a successor, displaces the pass.
LEMMA SuccessorDisplaces ==
  ASSUME IInv, NEW k \in Workers, Active(k), NEW f \in Successors(k)
  PROVE  Owner(worker[k].event) /\ Displaced(WakeOf(k))
<1> DEFINE v == NewestCycle(Conv(worker[k].event))
<1>1. /\ Owner(worker[k].event) /\ cycle[v].parent = WakeOf(k) /\ wake[v].state # "terminal"
      /\ v # WakeOf(k)
  BY DEF Successors
<1>2. v \in Wakes
  <2> DEFINE S == WakesOf(Conv(worker[k].event))
  <2>1. v = CHOOSE x \in S : \A y \in S : x >= y
    BY DEF NewestCycle, Max
  <2>2. WakeOf(k) \in S
    BY PassRows DEF WakesOf, Conv, WakeOf, Active
  <2>3. S \subseteq 1..LastWake /\ S # {}
    BY <2>2 DEF WakesOf, Wakes
  <2> HIDE DEF S
  <2>4. \E x \in S : \A y \in S : x >= y
    BY <2>3, ConstantsAssumption, GreatestExists
  <2> QED
    BY <2>1, <2>3, <2>4 DEF Wakes
<1> QED
  BY <1>1, <1>2 DEF Displaced

\* A pass that thinks settles its cycle with a draft, and is displaced before it hands on.
LEMMA ThinkMoves ==
  ASSUME IInv, NEW k \in Workers, Think(k)
  PROVE  Moves
<1>0. /\ worker \in [Workers -> Pass] /\ cycle \in [Wakes -> CycleRow]
      /\ speech \in [Wakes -> SpeechStates] /\ event \in [Events -> EventRow]
  BY DEF IInv, TypeOK
<1>1. /\ WakeOf(k) \in Wakes /\ worker[k].event \in Events /\ Active(k) /\ worker[k] \in Pass
  <2>1. worker[k].stage # "idle"
    BY DEF Think, Begin, ModelReturns, FindsStale, StopsForOwnerAnswer, PublishRefused, Publish,
           Publishing, Fail, Abstain, Transfer, Defer, Throw, HoldCeiling, DispatchEffect, Running
  <2> QED
    BY <2>1, PassRows DEF Active
<1>2. ParentsKept
  <2>1. \A w \in Wakes : wake'[w].state = "absent" => wake[w].state = "absent"
    BY ThinkStep, AbsentStays DEF Quiet, ClaimsNothing
  <2>2. cycle' = cycle \/ \E st : cycle' = [cycle EXCEPT ![WakeOf(k)].state = st]
    BY DEF Think, Begin, ModelReturns, FindsStale, StopsForOwnerAnswer, PublishRefused, Publish,
           Fail, Abstain, Transfer, Defer, Throw, HoldCeiling, DispatchEffect
  <2>3. \A w \in Wakes : cycle'[w].parent = cycle[w].parent
    BY <1>0, <2>2 DEF CycleRow
  <2> QED
    BY <2>1, <2>3 DEF ParentsKept
<1>3. HandedByPass
  <2>1. event' = event \/ \E L : event' = EventsRecovered(L)
    BY DEF Think, Begin, ModelReturns, FindsStale, StopsForOwnerAnswer, PublishRefused, Publish,
           Fail, Abstain, Transfer, Defer, Throw, HoldCeiling, DispatchEffect
  <2> QED
    BY <2>1, RecoveryCompletesNothing DEF HandedByPass
<1>4. \A s : Stage(k, s) => /\ worker'[k].stage = s /\ worker'[k].event = worker[k].event
                            /\ \A j \in Workers : j # k => worker'[j] = worker[j]
  BY <1>0, <1>1 DEF Stage, Pass
<1>5. ASSUME \A j \in Workers : j # k => worker'[j] = worker[j], PassMoves(k)
      PROVE  \A j \in Workers : PassMoves(j)
  BY <1>5 DEF PassMoves, Active
<1>6. ASSUME NEW s, Stage(k, s), s \notin {"drafted", "superseded"},
             s = "thinking" => ~Settled(WakeOf(k))
      PROVE  \A j \in Workers : PassMoves(j)
  <2>1. PassMoves(k)
    BY <1>1, <1>4, <1>6 DEF PassMoves, Undecided
  <2> QED
    BY <1>4, <1>5, <1>6, <2>1
<1>7. ASSUME speech' = speech, \A j \in Workers : PassMoves(j)
      PROVE  Moves
  BY <1>2, <1>3, <1>7 DEF Moves, SettledByDraft, Settled
<1>8. CASE Begin(k)
  <2>1. CASE speech[WakeOf(k)] = "none"
    BY <1>6, <1>7, <1>8, <2>1 DEF Begin, Settled
  <2>2. CASE speech[WakeOf(k)] # "none"
    BY <1>6, <1>7, <1>8, <2>2 DEF Begin, Replayed
  <2> QED
    BY <2>1, <2>2
<1>9. CASE ModelReturns(k)
  <2>1. /\ worker'[k].stage = "drafted" /\ worker'[k].event = worker[k].event
        /\ \A j \in Workers : j # k => worker'[j] = worker[j]
    BY <1>0, <1>1, <1>9 DEF ModelReturns, Pass
  <2>2. worker[k].stage = "thinking" /\ ~Displaced(WakeOf(k))
    BY <1>9 DEF ModelReturns, Aborted, Displaced
  <2>3. PassMoves(k)
    BY <1>1, <2>1, <2>2 DEF PassMoves, Undecided
  <2> QED
    BY <1>5, <1>7, <1>9, <2>1, <2>3 DEF ModelReturns
<1>10. CASE FindsStale(k)
  <2>1. CASE Stage(k, "stale")
    BY <1>6, <1>7, <1>10, <2>1 DEF FindsStale
  <2>2. ASSUME NEW f \in Successors(k),
               worker' = [worker EXCEPT ![k] = [@ EXCEPT !.stage = "superseded", !.successor = f]]
        PROVE  Moves
    <3>1. /\ worker'[k].stage = "superseded" /\ worker'[k].event = worker[k].event
          /\ \A j \in Workers : j # k => worker'[j] = worker[j]
      BY <1>0, <1>1, <2>2 DEF Pass
    <3>2. Owner(worker[k].event) /\ Displaced(WakeOf(k))
      BY <1>1, SuccessorDisplaces
    <3>3. Undecided(worker[k].stage)
      BY <1>10 DEF FindsStale, Running, Undecided
    <3>4. PassMoves(k)
      BY <1>1, <3>1, <3>2, <3>3 DEF PassMoves
    <3> QED
      BY <1>5, <1>7, <1>10, <3>1, <3>4 DEF FindsStale
  <2> QED
    BY <1>10, <2>1, <2>2 DEF FindsStale
<1>11. CASE \/ StopsForOwnerAnswer(k) \/ PublishRefused(k) \/ Fail(k) \/ Abstain(k) \/ Transfer(k)
            \/ Defer(k) \/ Throw(k)
  <2>1. PICK s : Stage(k, s) /\ s \notin {"drafted", "superseded", "thinking"}
    BY <1>11 DEF StopsForOwnerAnswer, PublishRefused, Replayed, Fail, Abstain, Transfer, Defer,
           Throw
  <2> QED
    BY <1>6, <1>7, <1>11, <2>1 DEF StopsForOwnerAnswer, PublishRefused, Fail, Abstain, Transfer,
                                     Defer, Throw
<1>12. ASSUME NEW said \in {"queued", "silence", "mute"}, Publish(k, said)
       PROVE  Moves
  <2>1. PICK s \in {"answered", "rejected"} : Stage(k, s)
    BY <1>12 DEF Publish
  <2>2. \A w \in Wakes : Settled(w)' => Settled(w) \/ w = WakeOf(k)
    BY <1>0, <1>1, <1>12 DEF Publish, Settled
  <2>3. worker[k].stage = "drafted" /\ ~Undecided(worker'[k].stage)
    BY <1>4, <1>12, <2>1 DEF Publish, Publishing, Undecided
  <2>4. SettledByDraft
    BY <2>2, <2>3 DEF SettledByDraft
  <2>5. \A j \in Workers : PassMoves(j)
    BY <1>6, <2>1
  <2> QED
    BY <1>2, <1>3, <2>4, <2>5 DEF Moves
<1>13. CASE HoldCeiling(k) \/ DispatchEffect(k)
  BY <1>7, <1>13 DEF HoldCeiling, DispatchEffect, PassMoves, Active
<1> QED
  BY <1>8, <1>9, <1>10, <1>11, <1>12, <1>13 DEF Think

\* A settlement hands on what its pass has covered, and frees the pass.
LEMMA SettleMoves ==
  ASSUME IInv, NEW k \in Workers, Settle(k)
  PROVE  Moves
<1> DEFINE e == worker[k].event
<1>1. /\ Settling(k) /\ speech' = speech /\ worker' = [worker EXCEPT ![k] = IdleWorker]
  BY DEF Settle, SettleLost, SettleCompleted, SettleDeferred, SettleRetry, SettleTerminal,
         SettleSuperseded, SettleUnknown, Freed
<1>2. /\ event \in [Events -> EventRow] /\ worker \in [Workers -> Pass] /\ cycle \in [Wakes -> CycleRow]
      /\ WakeOf(k) \in Wakes /\ e \in Events
  BY <1>1, PassRows DEF IInv, TypeOK, Settling
<1>3. worker'[k].stage = "idle" /\ \A j \in Workers : PassMoves(j)
  BY <1>1, <1>2 DEF IdleWorker, PassMoves, Active
<1>4. ParentsKept
  <2>1. \A w \in Wakes : wake'[w].state = "absent" => wake[w].state = "absent"
    BY SettleStep, AbsentStays DEF Quiet, ClaimsNothing
  <2>2. \/ cycle' = cycle \/ \E wk : cycle' = RetireOwnerless(cycle, wk, WakeOf(k))
        \/ cycle' = [cycle EXCEPT ![WakeOf(k)].state = "waiting"]
    BY DEF Settle, SettleLost, SettleCompleted, SettleDeferred, SettleRetry, SettleTerminal,
           SettleSuperseded, SettleUnknown
  <2>3. \A w \in Wakes : cycle'[w].parent = cycle[w].parent
    BY <1>2, <2>2 DEF RetireOwnerless, CycleRow
  <2> QED
    BY <2>1, <2>3 DEF ParentsKept
<1>5. \A st, reason : \A f \in Events : Closed(event[f], st, reason).reason = reason
  BY <1>2 DEF Closed, EventRow
<1>6. ASSUME NEW f \in Events, event'[f].reason = "superseded", event[f].reason # "superseded"
      PROVE  worker[k].stage = "superseded" /\ event[f].state # "absent" /\ event[f].wake = WakeOf(k)
  <2>1. event' \notin {EventsCompleted(k), EventsExhausted(k), EventsStale(k)}
    BY <1>2, <1>5, <1>6 DEF EventsCompleted, EventsExhausted, EventsStale
  <2>2. ASSUME NEW st, event' = [event EXCEPT ![e].state = st, ![e].elapsed = FALSE]
        PROVE  FALSE
    BY <1>2, <1>6, <2>2 DEF EventRow
  <2>3. event' = EventsSuperseded(k) /\ worker[k].stage = "superseded"
    <3>1. event' # event
      BY <1>6
    <3>2. ~SettleLost(k) /\ ~SettleCompleted(k)
      BY <2>1, <3>1 DEF SettleLost, SettleCompleted
    <3>3. ~SettleTerminal(k)
      BY <2>1 DEF SettleTerminal
    <3>4. ~SettleRetry(k)
      BY <2>2 DEF SettleRetry
    <3>5. ~SettleUnknown(k)
      BY <2>2 DEF SettleUnknown
    <3>6. ~SettleDeferred(k)
      BY <1>2, <1>5, <1>6 DEF SettleDeferred
    <3> QED
      BY <3>2, <3>3, <3>4, <3>5, <3>6 DEF Settle, SettleSuperseded
  <2>4. event[f].wake = WakeOf(k)
    BY <1>6, <2>3 DEF EventsSuperseded
  <2>5. event[f].state # "absent"
    BY <1>2, <2>4, ConstantsAssumption DEF IInv, RowsInv, Rooted, AbsentEvent, NoWake, Wakes
  <2> QED
    BY <2>3, <2>4, <2>5
<1>7. HandedByPass
  BY <1>1, <1>3, <1>6 DEF HandedByPass
<1> QED
  BY <1>1, <1>3, <1>4, <1>7 DEF Moves, SettledByDraft, Settled

\* Ingress brings a message on a cycle of its own kind, or of another but own time.
LEMMA IngressMoves ==
  ASSUME IInv, Ingress
  PROVE  Moves /\ ArrivesApart
<1>0. /\ event \in [Events -> EventRow] /\ cycle \in [Wakes -> CycleRow]
      /\ wake \in [Wakes -> WakeRow] /\ speech \in [Wakes -> SpeechStates]
  BY DEF IInv, TypeOK
<1>1. PICK c \in Conversations, e \in Events, w \in Wakes :
        \/ OwnerOpens(c, e, w) \/ OwnerComposes(c, e, w)
        \/ \E old \in Wakes : OwnerPreempts(c, e, old, w)
        \/ AdmitCompletion(c, e, w) \/ AdmitOwnTime(c, e, w)
  BY DEF Ingress
<1>2. /\ worker' = worker /\ NextEvent(e) /\ phase = "running"
      /\ phase' # "running" => AdmitOwnTime(c, e, w)
  BY <1>1 DEF OwnerOpens, OwnerComposes, OwnerPreempts, AdmitCompletion, AdmitOwnTime
<1>3. \A v \in Wakes : Settled(v)' => Settled(v)
  <2>1. speech' = speech \/ \E old \in Wakes : speech' = Suppressed(old)
    BY <1>1 DEF OwnerOpens, OwnerComposes, OwnerPreempts, AdmitCompletion, AdmitOwnTime
  <2> QED
    BY <1>0, <2>1 DEF Suppressed, Settled
<1>4. \A v \in Wakes : wake'[v].state = "absent" => wake[v].state = "absent"
  BY IngressStep, AbsentStays DEF ClaimsNothing
<1>5. PICK kind \in AllKinds :
        /\ event' = [event EXCEPT ![e] = NewEvent(kind, w)] /\ kind \in Kinds
        /\ AdmitOwnTime(c, e, w) => kind = "own_time"
        /\ \/ OwnerComposes(c, e, w) /\ kind = "owner"
           \/ /\ wake[w].state = "absent" /\ wake'[w].state # "absent"
              /\ cycle'[w].trigger = kind
              /\ \A v \in Wakes : v # w => cycle'[v].parent = cycle[v].parent
  <2>1. CASE OwnerComposes(c, e, w)
    <3>1. ~AdmitOwnTime(c, e, w)
      BY <2>1 DEF OwnerComposes, AdmitOwnTime
    <3> QED
      BY <2>1, <3>1 DEF OwnerComposes, AllKinds
  <2>2. ASSUME NEW k \in AllKinds, event' = [event EXCEPT ![e] = NewEvent(k, w)],
               wake' = [wake EXCEPT ![w] = NewWake(c)], NextWake(w),
               cycle' = [cycle EXCEPT ![w] = NewCycle(k, NoWake)]
        PROVE  /\ wake[w].state = "absent" /\ wake'[w].state # "absent"
               /\ cycle'[w].trigger = k
               /\ \A v \in Wakes : v # w => cycle'[v].parent = cycle[v].parent
    BY <1>0, <2>2 DEF NextWake, NewWake, AbsentWake, NewCycle
  <2>3. CASE OwnerOpens(c, e, w)
    BY <2>2, <2>3 DEF OwnerOpens, AdmitOwnTime, AllKinds
  <2>4. CASE AdmitCompletion(c, e, w)
    BY <2>2, <2>4 DEF AdmitCompletion, AdmitOwnTime, AllKinds
  <2>5. CASE AdmitOwnTime(c, e, w)
    BY <2>2, <2>5 DEF AdmitOwnTime, AllKinds
  <2>6. ASSUME NEW old \in Wakes, OwnerPreempts(c, e, old, w)
        PROVE  /\ event' = [event EXCEPT ![e] = NewEvent("owner", w)] /\ "owner" \in Kinds
               /\ wake[w].state = "absent" /\ wake'[w].state # "absent"
               /\ cycle'[w].trigger = "owner" /\ phase' = "running"
               /\ \A v \in Wakes : v # w => cycle'[v].parent = cycle[v].parent
    <3>1. /\ event' = [event EXCEPT ![e] = NewEvent("owner", w)]
          /\ wake' = [wake EXCEPT ![old] = PreemptedWake(old), ![w] = NewWake(c)]
          /\ cycle' = [cycle EXCEPT ![old] = [@ EXCEPT !.state = "silent"],
                                    ![w] = NewCycle("owner", old)]
          /\ wake[w].state = "absent" /\ phase' = "running" /\ "owner" \in Kinds
      BY <2>6 DEF OwnerPreempts, NextWake
    <3>2. wake'[w] = NewWake(c)
      BY <1>0, <3>1
    <3>3. cycle'[w] = NewCycle("owner", old)
      BY <1>0, <3>1
    <3>4. \A v \in Wakes : v # w => cycle'[v].parent = cycle[v].parent
      BY <1>0, <3>1 DEF CycleRow
    <3>5. wake'[w].state # "absent" /\ cycle'[w].trigger = "owner"
      BY <3>2, <3>3 DEF NewWake, AbsentWake, NewCycle
    <3> QED
      BY <3>1, <3>4, <3>5
  <2>7. "owner" \in AllKinds
    BY DEF AllKinds
  <2>8. CASE \E old \in Wakes : OwnerPreempts(c, e, old, w)
    <3>1. phase' = "running" /\ (AdmitOwnTime(c, e, w) => phase' = "claiming")
      BY <2>6, <2>8 DEF AdmitOwnTime
    <3> QED
      BY <2>6, <2>7, <2>8, <3>1
  <2> QED
    BY <1>1, <2>1, <2>3, <2>4, <2>5, <2>8
<1>6. /\ event[e].state = "absent" /\ event'[e].state # "absent" /\ event'[e].kind = kind
      /\ event'[e].wake = w /\ event'[e].reason = "none"
      /\ \A f \in Events : f # e => event'[f] = event[f]
  BY <1>0, <1>2, <1>5 DEF NewEvent, AbsentEvent, NextEvent
<1>7. kind = "own_time" <=> cycle'[w].trigger = "own_time"
  BY <1>5 DEF OwnerComposes, Composes
<1>8. ParentsKept
  <2>1. CASE OwnerComposes(c, e, w)
    BY <1>4, <2>1 DEF OwnerComposes, ParentsKept
  <2>2. CASE ~OwnerComposes(c, e, w)
    BY <1>4, <1>5, <2>2 DEF ParentsKept
  <2> QED
    BY <2>1, <2>2
<1>9. ASSUME phase' = "claiming", NEW f \in Events, FreshOwnTime(f)'
      PROVE  event'[f].kind = "own_time"
  <2>1. f <= e
    <3>1. event'[f].state # "absent"
      BY <1>9 DEF FreshOwnTime
    <3> QED
      BY <1>2, <1>6, <3>1, ConstantsAssumption DEF IInv, InOrder, NextEvent, Events
  <2>2. e <= f
    BY <1>6, <1>9 DEF FreshOwnTime
  <2>3. e = f
    BY <2>1, <2>2, ConstantsAssumption DEF Events
  <2> QED
    BY <1>2, <1>5, <1>6, <1>9, <2>3
<1>10. ArrivesApart
  BY <1>5, <1>6, <1>7, <1>9 DEF ArrivesApart
<1>11. Moves
  BY <1>2, <1>3, <1>6, <1>8, PassesRest
<1> QED
  BY <1>10, <1>11

\* Deadlines, delivery, reconciliation, crashes and startup.
LEMMA RestMoves ==
  ASSUME IInv,
         \/ Clock \/ Reconcile \/ Crash \/ Startup
         \/ \E w \in Wakes : Deliver(w) \/ ResolveEffect(w)
  PROVE  Moves
<1>0. /\ event \in [Events -> EventRow] /\ cycle \in [Wakes -> CycleRow]
      /\ speech \in [Wakes -> SpeechStates]
  BY DEF IInv, TypeOK
<1>1. \A w \in Wakes : wake'[w].state = "absent" => wake[w].state = "absent"
  BY ClockStep, ReconcileStep, StopStep, StartupStep, ResolveStep, AbsentStays
     DEF Sweeps, Quiet, ClaimsNothing, Crash
<1>2. ASSUME worker' = worker \/ \A k \in Workers : worker'[k].stage = "idle",
             \A w \in Wakes : cycle'[w].parent = cycle[w].parent,
             \A w \in Wakes : Settled(w)' => Settled(w),
             \A e \in Events : event'[e].reason = "superseded" => event[e].reason = "superseded"
      PROVE  Moves
  BY <1>1, <1>2, PassesRest DEF ParentsKept
<1>3. \A f \in Events : /\ Closed(event[f], "terminal", "permanent_failure").reason # "superseded"
                        /\ Closed(event[f], "terminal", "completed").reason # "superseded"
                        /\ Closed(event[f], "terminal", "stale").reason # "superseded"
  BY <1>0 DEF Closed, EventRow
<1>4. \A Z : \A w \in Wakes : /\ SpeechRetired(Z)[w] # "none" => speech[w] # "none"
                              /\ CyclesRetired(Z)[w].parent = cycle[w].parent
  BY <1>0 DEF SpeechRetired, CyclesRetired, CycleRow
<1>5. CASE Clock
  <2>1. \A f \in Events : event'[f].reason = event[f].reason
    BY <1>0, <1>5 DEF Clock, DeadlineElapses, AgeElapses, EventRow
  <2>2. UNCHANGED <<cycle, speech, worker>>
    BY <1>5 DEF Clock, DeadlineElapses, AgeElapses
  <2> QED
    BY <1>2, <2>1, <2>2 DEF Settled
<1>6. ASSUME NEW w \in Wakes, RetireOwnerlessCycle(w) PROVE Moves
  BY <1>2, <1>4, <1>6 DEF RetireOwnerlessCycle, Settled
<1>7. ASSUME NEW e \in Events, ReconcileStranded(e) PROVE Moves
  <2>1. \A f \in Events : event'[f].reason = event[f].reason
    BY <1>0, <1>7 DEF ReconcileStranded, EventRow
  <2> QED
    BY <1>2, <1>7, <2>1 DEF ReconcileStranded, Settled
<1>8. ASSUME NEW e \in Events, AbandonSpent(e) PROVE Moves
  <2>1. \A f \in Events : event'[f].reason = "superseded" => event[f].reason = "superseded"
    BY <1>0, <1>3, <1>8 DEF AbandonSpent
  <2>2. \A w \in Wakes : cycle'[w].parent = cycle[w].parent
    BY <1>0, <1>8 DEF AbandonSpent, RetireOwnerless, CycleRow
  <2> QED
    BY <1>2, <1>8, <2>1, <2>2 DEF AbandonSpent, Settled
<1>9. CASE Crash
  BY <1>2, <1>9 DEF Crash, Stops, IdleWorker, Settled
<1>10. CASE RecoverWakes \/ RecoverEvents
  BY <1>2, <1>10, RecoveryCompletesNothing DEF RecoverWakes, RecoverEvents, Settled
<1>11. CASE ReconcileOwnership
  <2>1. \A f \in Events : event'[f].reason = "superseded" => event[f].reason = "superseded"
    BY <1>3, <1>11 DEF ReconcileOwnership
  <2> QED
    BY <1>2, <1>4, <1>11, <2>1 DEF ReconcileOwnership, Settled
<1>12. ASSUME NEW w \in Wakes, Deliver(w) \/ ResolveEffect(w) PROVE Moves
  <2>1. \A v \in Wakes : cycle'[v].parent = cycle[v].parent
    BY <1>0, <1>12 DEF Deliver, ResolveEffect, CycleRow
  <2>2. \A v \in Wakes : speech'[v] # "none" => speech[v] # "none"
    BY <1>0, <1>12 DEF Deliver, ResolveEffect
  <2> QED
    BY <1>2, <1>12, <2>1, <2>2 DEF Deliver, ResolveEffect, Settled
<1>13. ASSUME NEW e \in Events, RetireStale(e) PROVE Moves
  <2>1. \A f \in Events : event'[f].reason = "superseded" => event[f].reason = "superseded"
    BY <1>0, <1>3, <1>13 DEF RetireStale
  <2> QED
    BY <1>2, <1>13, <2>1 DEF RetireStale, Settled
<1>14. ASSUME NEW w \in Wakes, ConvergeOrphan(w) PROVE Moves
  BY <1>2, <1>14 DEF ConvergeOrphan, Settled
<1> QED
  BY <1>5, <1>6, <1>7, <1>8, <1>9, <1>10, <1>11, <1>12, <1>13, <1>14 DEF Reconcile, Startup

\* Where nobody arrives, what is about to be claimed is what it was.
LEMMA NobodyComes ==
  ASSUME IInv, OwnTimeApart,
         \/ NoNewLease(event, wake, event', wake') \/ UNCHANGED <<event, wake>>
         \/ \E f \in Events : Takes(f),
         phase' = "claiming" => phase = "claiming" /\ \A e \in Events :
           event'[e].kind = event[e].kind /\ (FreshOwnTime(e)' => FreshOwnTime(e))
  PROVE  ArrivesApart
<1>1. ASSUME NEW e \in Events, event[e].state = "absent", event'[e].state # "absent"
      PROVE  FALSE
  <2>1. CASE NoNewLease(event, wake, event', wake') \/ UNCHANGED <<event, wake>>
    BY <1>1, <2>1 DEF NoNewLease
  <2>2. ASSUME NEW f \in Events, Takes(f) PROVE FALSE
    <3>1. EventsNormalized[e] = event[e] /\ EventsNormalized[f].state = "pending"
      BY <1>1, <2>2 DEF Takes, NoNewLease
    <3> QED
      BY <1>1, <2>2, <3>1 DEF Takes
  <2> QED
    BY <2>1, <2>2
<1> QED
  BY <1>1 DEF ArrivesApart, OwnTimeApart

\* The empty sidecar hands nothing on.
LEMMA InitHand == Init => HandInv
<1> SUFFICES ASSUME Init PROVE HandInv
  OBVIOUS
<1>1. /\ \A e \in Events : event[e].state = "absent" /\ event[e].reason = "none"
      /\ \A w \in Wakes : cycle[w].parent = NoWake
      /\ \A k \in Workers : worker[k].stage = "idle"
      /\ phase = "running"
  BY DEF Init, AbsentEvent, AbsentCycle, IdleWorker
<1> QED
  BY <1>1, WorkersKnown
     DEF HandInv, OwnTimeApart, ConsumersAtHome, ParentsExist, UndecidedUnsettled,
         HandsToSuccessor, HandedOver, Active

\* What the idle path claims is the own time that has just been admitted.
LEMMA NewestAdmitted ==
  ASSUME IInv, OwnTimeApart, NEW e \in Events, ClaimOwnTime(e)
  PROVE  /\ event[e].state # "absent" /\ event[e].kind = "own_time"
         /\ phase' = "running" /\ Claim(IdlePath, e)
<1>1. PICK f \in Events : FreshOwnTime(f)
  BY DEF IInv, OwnTimeIsFresh, ClaimOwnTime
<1>2. e = f
  <2> DEFINE S == {x \in Events : event[x].state # "absent"}
  <2>1. f \in S /\ \A x \in S : f >= x
    BY <1>1, ConstantsAssumption DEF FreshOwnTime, Events
  <2>2. e = CHOOSE x \in S : \A y \in S : x >= y
    BY DEF ClaimOwnTime, JustAdmitted, Max
  <2>3. e \in S /\ \A y \in S : e >= y
    BY <2>1, <2>2
  <2> QED
    BY <2>1, <2>3, ConstantsAssumption DEF Events
<1> QED
  BY <1>1, <1>2 DEF OwnTimeApart, ClaimOwnTime, FreshOwnTime

\* Every step moves so, but the turn of a frontier, which settles without a claim.
LEMMA NextMoves ==
  ASSUME IInv, HolderInv, OwnTimeApart, [Next]_vars, ~Coordinate
  PROVE  KindsKept /\ Moves /\ ArrivesApart
<1>0. event \in [Events -> EventRow] /\ cycle \in [Wakes -> CycleRow]
  BY DEF IInv, TypeOK
<1>2. ASSUME KindsKept, Moves, phase' # "claiming",
             \/ NoNewLease(event, wake, event', wake') \/ UNCHANGED <<event, wake>>
             \/ \E f \in Events : Takes(f)
      PROVE  KindsKept /\ Moves /\ ArrivesApart
  BY <1>2, NobodyComes
<1>3. CASE Ingress
  BY <1>3, IngressMoves, RestHolds
<1>4. CASE Clock
  <2>1. /\ phase' = phase
        /\ \A e \in Events : event'[e].kind = event[e].kind /\ (FreshOwnTime(e)' => FreshOwnTime(e))
    BY <1>0, <1>4 DEF Clock, DeadlineElapses, AgeElapses, FreshOwnTime, EventRow
  <2> QED
    BY <1>4, <2>1, ClockStep, NobodyComes, RestMoves, RestHolds DEF Sweeps
<1>5. CASE Reconcile \/ Crash \/ Startup \/ \E w \in Wakes : Deliver(w)
  <2>1. NoNewLease(event, wake, event', wake') /\ phase' # "claiming"
    BY <1>5, ReconcileStep, StopStep, StartupStep DEF Quiet, Crash
  <2> QED
    BY <1>2, <1>5, <2>1, RestMoves, RestHolds
<1>6. ASSUME NEW w \in Wakes, ResolveEffect(w) PROVE KindsKept /\ Moves /\ ArrivesApart
  <2>1. UNCHANGED <<event, wake, phase>>
    BY <1>6 DEF ResolveEffect
  <2>2. ArrivesApart
    BY <2>1, NobodyComes DEF FreshOwnTime
  <2> QED
    BY <1>6, <2>2, RestMoves, RestHolds
<1>7. ASSUME UNCHANGED <<speech, worker>> \/ Stops,
             \/ UNCHANGED <<event, cycle>>
             \/ event' = EventsNormalized /\ cycle' = CyclesNormalized,
             NoNewLease(event, wake, event', wake') \/ UNCHANGED <<event, wake>>
      PROVE  KindsKept /\ Moves
  <2>1. KindsKept
    BY <1>7, NormalizedKinds DEF KindsKept
  <2>2. \A w \in Wakes : wake'[w].state = "absent" => wake[w].state = "absent"
    BY <1>7, AbsentStays DEF ClaimsNothing
  <2>3. ParentsKept
    BY <1>7, <2>2, NormalizationHandsNothing DEF ParentsKept
  <2>4. Moves
    BY <1>7, <2>3, NormalizationHandsNothing, PassesRest DEF Stops, IdleWorker, Settled
  <2> QED
    BY <2>1, <2>4
<1>8. CASE LeaveOwnTime
  BY <1>2, <1>7, <1>8, Unmoved DEF LeaveOwnTime
<1>9. ASSUME NEW e \in Events, ClaimOwnTime(e) PROVE KindsKept /\ Moves /\ ArrivesApart
  <2>1. /\ event[e].state # "absent" /\ event[e].kind = "own_time" /\ phase' = "running"
        /\ Claim(IdlePath, e)
    BY <1>9, NewestAdmitted
  <2>2. Moves /\ KindsKept
    BY <2>1, ClaimMoves, ClaimHolds, WorkersKnown, ConstantsAssumption
  <2>3. NoNewLease(event, wake, event', wake') \/ \E g \in Events : Takes(g)
    BY <1>9, OwnTimeStep DEF OwnTime, Sweeps
  <2> QED
    BY <1>2, <2>1, <2>2, <2>3
<1>10. ASSUME NEW k \in Consumers, Poll(k) PROVE KindsKept /\ Moves /\ ArrivesApart
  <2>1. NoNewLease(event, wake, event', wake') \/ \E g \in Events : Takes(g)
    BY <1>10, PollStep DEF Sweeps
  <2>2. CASE PollFindsNothing(k) \/ PollThrows(k)
    <3>1. phase' # "claiming" /\ NoNewLease(event, wake, event', wake')
      BY <2>2, NormalizationLeasesNothing, Unmoved DEF PollFindsNothing, PollThrows, Stops, IInv
    <3>2. /\ UNCHANGED <<speech, worker>> \/ Stops
          /\ UNCHANGED <<event, cycle>> \/ (event' = EventsNormalized /\ cycle' = CyclesNormalized)
      BY <2>2 DEF PollFindsNothing, PollThrows, Stops
    <3> QED
      BY <1>2, <1>7, <3>1, <3>2
  <2>3. ASSUME NEW e \in Events, PollClaims(k, e) PROVE KindsKept /\ Moves /\ ArrivesApart
    <3>1. /\ EventsNormalized[e].state = "pending" /\ Conv(e) \in Serves[k] /\ Claim(k, e)
          /\ phase' # "claiming" /\ k \in Workers /\ k # IdlePath
      BY <2>3, WorkersKnown, ConstantsAssumption DEF PollClaims, IsFairHead, Candidates
    <3>2. event[e].state # "absent"
      BY <3>1, NormalizationLeasesNothing DEF NoNewLease, IInv
    <3>3. Moves /\ KindsKept
      BY <3>1, <3>2, ClaimMoves, ClaimHolds
    <3> QED
      BY <1>2, <2>1, <3>1, <3>3
  <2> QED
    BY <1>10, <2>2, <2>3 DEF Poll
<1>11. ASSUME NEW k \in Workers, Think(k) \/ Settle(k) PROVE KindsKept /\ Moves /\ ArrivesApart
  <2>1. NoNewLease(event, wake, event', wake') /\ phase' # "claiming"
    BY <1>11, ThinkStep, SettleStep DEF Quiet
  <2>2. KindsKept /\ Moves
    BY <1>11, ThinkMoves, SettleMoves, ThinkHolds, SettleHolds
  <2> QED
    BY <1>2, <2>1, <2>2
<1>12. CASE UNCHANGED vars
  <2>1. KindsKept /\ Moves
    BY <1>7, <1>12 DEF vars
  <2>2. ArrivesApart
    BY <1>12, NobodyComes DEF vars, FreshOwnTime
  <2> QED
    BY <2>1, <2>2
<1> QED
  BY <1>3, <1>4, <1>5, <1>6, <1>8, <1>9, <1>10, <1>11, <1>12 DEF Next, OwnTime

\* So what is handed on stays unsettled.
LEMMA NextHand ==
  ASSUME OneConsumerEach, IInv, HolderInv, HandInv, [Next]_vars, ~Coordinate
  PROVE  HandInv'
<1>1. IInv' /\ StepOfRows /\ KindsKept /\ Moves /\ ArrivesApart
  BY NextIInv, NextMoves DEF HandInv
<1> QED
  BY <1>1, MovesKeepHands

\* A generation hands its Owner obligations on only if it settled nothing itself, with any
\* number of consumers, whatever else arrives and whatever goes wrong short of a deferral,
\* whose turn settles without a claim: a settlement that exists is replayed, never thought
\* again.
THEOREM HandedOnIsUnsettled ==
  ASSUME OneConsumerEach, "defer" \notin Disturbances
  PROVE  Spec => []SupersededUnsettled
<1>1. Init => HolderInv /\ NoDeferral
  BY NothingDeferred
     DEF Init, HolderInv, OwnersOnTheirCycles, OwnerCovered, AbsentEvent, IdleWorker
<1>2. IInv /\ FrontierRows /\ NoDeferral /\ HolderInv /\ HandInv /\ [Next]_vars
        => NoDeferral' /\ HolderInv' /\ HandInv'
  BY NothingDeferred, NextHolder, NextHand
<1>3. HandInv => SupersededUnsettled
  BY DEF HandInv, HandedOver, SupersededUnsettled, Settled
<1> QED
  BY <1>1, <1>2, <1>3, InitHand, FrontierInvariance, Invariance, PTL DEF Spec
================================================================================
