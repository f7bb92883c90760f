--------------------------- MODULE ObligationProofs ---------------------------
(***************************************************************************)
(* Which wakes outlive the obligations that would end them: those whose     *)
(* last obligation was deferred, or retired while its outcome was unknown,  *)
(* and no others.                                                           *)
(***************************************************************************)
EXTENDS DurableWorkProofs

--------------------------------------------------------------------------------
(* Wakes that are owed to somebody.                                         *)

Over == {"absent", "terminal"}

\* A closed row of the wake r that leaves it behind.
Left(row, r) ==
  /\ row.state = "terminal"
  /\ \/ row.reason = "deferred"
     \/ row.reason = "stale" /\ r.state = "reconciling"

\* Some event of the wake is not closed, or closed by leaving the wake behind.
Owed(ev, wk, w) ==
  \E e \in Events : ev[e].wake = w /\ (ev[e].state \in Durable \/ Left(ev[e], wk[w]))

EveryWakeOwed(ev, wk) == \A w \in Wakes : wk[w].state \notin Over => Owed(ev, wk, w)

\* The wake does not come to life, and if its outcome was unknown it stays so.
Calm(wk, wk2, w) ==
  wk2[w].state \notin Over =>
    /\ wk[w].state \notin Over
    /\ wk[w].state = "reconciling" => wk2[w].state = "reconciling"

\* No wake comes to life, or becomes known, unless it is owed, and an event that closes
\* leaves another open, or its wake ends with it, or it leaves its wake behind.
Spares(ev, wk, ev2, wk2) ==
  /\ \A w \in Wakes : Calm(wk, wk2, w) \/ Owed(ev2, wk2, w)
  /\ \A e \in Events : ev[e].state \in Durable =>
       \/ ev2[e].wake = ev[e].wake /\ ev2[e].state \in Durable
       \/ wk2[ev[e].wake].state = "terminal"
       \/ Owed(ev2, wk2, ev[e].wake)

\* Which is what keeps every wake owed, when closed rows stay as they are.
LEMMA SparingKeepsOwed ==
  ASSUME NEW ev, NEW wk, NEW ev2, NEW wk2, EveryWakeOwed(ev, wk), Spares(ev, wk, ev2, wk2),
         \A e \in Events : ev[e].state = "terminal" => ev2[e] = ev[e]
  PROVE  EveryWakeOwed(ev2, wk2)
<1> SUFFICES ASSUME NEW w \in Wakes, wk2[w].state \notin Over, ~Owed(ev2, wk2, w) PROVE FALSE
  BY DEF EveryWakeOwed
<1>1. wk[w].state \notin Over /\ (wk[w].state = "reconciling" => wk2[w].state = "reconciling")
  BY DEF Spares, Calm
<1>2. PICK e \in Events : ev[e].wake = w /\ (ev[e].state \in Durable \/ Left(ev[e], wk[w]))
  BY <1>1 DEF EveryWakeOwed, Owed
<1>3. CASE ev[e].state \in Durable
  BY <1>2, <1>3 DEF Spares, Owed, Over
<1>4. CASE Left(ev[e], wk[w])
  BY <1>1, <1>2, <1>4 DEF Left, Owed
<1> QED
  BY <1>2, <1>3, <1>4

\* A step that keeps what is open open, and brings no wake to life.
LEMMA OpenStaysOpen ==
  ASSUME NEW ev2, NEW wk2,
         \A e \in Events : event[e].state \in Durable =>
           ev2[e].wake = event[e].wake /\ ev2[e].state \in Durable,
         \A w \in Wakes : Calm(wake, wk2, w) \/ Owed(ev2, wk2, w)
  PROVE  Spares(event, wake, ev2, wk2)
BY DEF Spares

\* An open event has a wake.
LEMMA OpenIsRooted ==
  ASSUME IInv, NEW e \in Events, event[e].state \in Durable
  PROVE  event[e].wake \in Wakes /\ wake[event[e].wake].state # "absent"
BY DEF IInv, RowsInv, Rooted, Durable
--------------------------------------------------------------------------------
(* Recovery and normalisation.                                              *)

\* Recovery closes nothing, and a wake it moves has the event it recovers.
LEMMA RecoverySpares ==
  ASSUME IInv, NEW L \in SUBSET Events, \A e \in L : event[e].state = "leased"
  PROVE  /\ \A e \in Events : /\ EventsRecovered(L)[e].wake = event[e].wake
                              /\ event[e].state \in Durable => EventsRecovered(L)[e].state \in Durable
         /\ \A w \in Wakes : \/ Calm(wake, WakesRecovered(L), w)
                            \/ Owed(EventsRecovered(L), WakesRecovered(L), w)
<1>1. ASSUME NEW e \in Events
      PROVE  /\ EventsRecovered(L)[e].wake = event[e].wake
             /\ event[e].state \in Durable => EventsRecovered(L)[e].state \in Durable
  BY DEF IInv, TypeOK, EventRow, EventsRecovered, RecoveredEvent, Durable
<1>2. ASSUME NEW w \in Wakes
      PROVE  Calm(wake, WakesRecovered(L), w) \/ Owed(EventsRecovered(L), WakesRecovered(L), w)
  <2>1. CASE \E e \in L : event[e].wake = w
    BY <1>1, <2>1 DEF Owed, Durable
  <2>2. CASE ~\E e \in L : event[e].wake = w
    BY <2>2 DEF WakesRecovered, Calm
  <2> QED
    BY <2>1, <2>2
<1> QED
  BY <1>1, <1>2

\* Normalisation quarantines the last open event of a wake only together with the wake.
LEMMA NormalizationSpares ==
  ASSUME IInv
  PROVE  Spares(event, wake, EventsNormalized, WakesNormalized)
<1>1. \A e \in Events : /\ EventsRecovered(Lapsed)[e].wake = event[e].wake
                        /\ event[e].state \in Durable => EventsRecovered(Lapsed)[e].state \in Durable
  BY RecoverySpares DEF Lapsed
<1>2. \A e \in Events : /\ EventsPromoted[e].wake = event[e].wake
                        /\ event[e].state \in Durable => EventsPromoted[e].state \in Durable
  BY <1>1 DEF IInv, TypeOK, EventRow, EventsPromoted, Durable
<1>3. \A e \in Events \ Bounded : EventsNormalized[e] = EventsPromoted[e]
  BY DEF EventsNormalized
<1>4. ASSUME NEW w \in Wakes, w \in ExhaustedWakes PROVE WakesNormalized[w].state = "terminal"
  <2>1. WakesNormalized[w] = ToTerminal(WakesRecovered(Lapsed)[w], "quarantined")
    BY <1>4 DEF WakesNormalized
  <2>2. WakesRecovered(Lapsed)[w] \in WakeRow
    BY RecoveryTyped DEF IInv
  <2> QED
    BY <2>1, <2>2, MovedWake DEF WakeReasons
<1>5. ASSUME NEW e \in Events, event[e].state \in Durable, event[e].wake \notin ExhaustedWakes
      PROVE  Owed(EventsNormalized, WakesNormalized, event[e].wake)
  <2>1. CASE e \notin Bounded
    BY <1>2, <1>3, <1>5, <2>1 DEF Owed
  <2>2. CASE e \in Bounded
    <3>1. PICK f \in Events \ Bounded :
            event[f].wake = event[e].wake /\ EventsPromoted[f].state \in Durable
      BY <1>5, <2>2, OpenIsRooted DEF ExhaustedWakes
    <3> QED
      BY <1>2, <1>3, <3>1 DEF Owed
  <2> QED
    BY <2>1, <2>2
<1>6. ASSUME NEW w \in Wakes
      PROVE  Calm(wake, WakesNormalized, w) \/ Owed(EventsNormalized, WakesNormalized, w)
  <2>1. CASE w \in ExhaustedWakes
    BY <1>4, <2>1 DEF Calm, Over
  <2>2. CASE w \notin ExhaustedWakes /\ \E e \in Lapsed : event[e].wake = w
    BY <1>5, <2>2 DEF Lapsed, Durable
  <2>3. CASE w \notin ExhaustedWakes /\ ~\E e \in Lapsed : event[e].wake = w
    BY <2>3 DEF WakesNormalized, WakesRecovered, Calm
  <2> QED
    BY <2>1, <2>2, <2>3
<1>7. ASSUME NEW e \in Events, event[e].state \in Durable
      PROVE  \/ WakesNormalized[event[e].wake].state = "terminal"
             \/ Owed(EventsNormalized, WakesNormalized, event[e].wake)
  BY <1>4, <1>5, <1>7, OpenIsRooted
<1> QED
  BY <1>6, <1>7 DEF Spares

\* A claim opens nothing and closes nothing beyond its normalisation.
LEMMA ClaimSpares ==
  ASSUME IInv, EveryWakeOwed(event, wake), NEW k, NEW e \in Events, Claim(k, e),
         event[e].wake \in Wakes
  PROVE  EveryWakeOwed(event, wake)'
<1> DEFINE ev == EventsNormalized
           wk == WakesNormalized
<1>1. EveryWakeOwed(ev, wk)
  BY NormalizationSpares, NormalizationLeasesNothing, SparingKeepsOwed DEF IInv, NoNewLease
<1>2. ev \in [Events -> EventRow] /\ wk \in [Wakes -> WakeRow] /\ ev[e].wake = event[e].wake
  BY NormalizationTyped, NormalizationLeasesNothing DEF IInv, NoNewLease
<1>3. /\ event' = [ev EXCEPT ![e].state = "leased", ![e].attempts = event[e].attempts + 1,
                             ![e].elapsed = FALSE]
      /\ wake' = [wk EXCEPT ![event[e].wake].state = "authorized",
                           ![event[e].wake].holder = <<e, event[e].attempts + 1>>]
  BY DEF Claim
<1> HIDE DEF ev, wk
<1>4. \A w \in Wakes : w # event[e].wake => wake'[w] = wk[w]
  BY <1>2, <1>3
<1>5. /\ event'[e].wake = event[e].wake /\ event'[e].state = "leased"
      /\ \A f \in Events : f # e => event'[f] = ev[f]
  BY <1>2, <1>3 DEF EventRow
<1>6. Owed(event', wake', event[e].wake)
  BY <1>5 DEF Owed, Durable
<1>7. ASSUME NEW w \in Wakes, w # event[e].wake, wake'[w].state \notin Over
      PROVE  Owed(event', wake', w)
  <2>1. PICK f \in Events : ev[f].wake = w /\ (ev[f].state \in Durable \/ Left(ev[f], wk[w]))
    BY <1>1, <1>4, <1>7 DEF EveryWakeOwed, Owed
  <2>2. event'[f] = ev[f] /\ wake'[w] = wk[w]
    BY <1>2, <1>4, <1>5, <1>7, <2>1
  <2> QED
    BY <2>1, <2>2 DEF Owed
<1> QED
  <2>1. ASSUME NEW w \in Wakes, wake'[w].state \notin Over PROVE Owed(event', wake', w)
    BY <1>6, <1>7, <2>1
  <2> QED
    BY <2>1 DEF EveryWakeOwed, Owed, Left, Over
--------------------------------------------------------------------------------
(* Passes.                                                                  *)

\* A step that moves no row spares all.
LEMMA NothingMoves ==
  ASSUME UNCHANGED <<event, wake>>
  PROVE  Spares(event, wake, event', wake')
BY DEF Spares, Calm

\* A pass that thinks closes nothing.
LEMMA ThinkSpares ==
  ASSUME IInv, NEW k \in Workers, Think(k)
  PROVE  Spares(event, wake, event', wake')
<1>1. CASE UNCHANGED <<event, wake>>
  BY <1>1, NothingMoves
<1>2. ASSUME NEW said \in {"queued", "silence", "mute"}, Publish(k, said)
      PROVE  Spares(event, wake, event', wake')
  <2>1. event' = event
    BY <1>2 DEF Publish
  <2>2. CASE wake' = wake
    BY <2>1, <2>2, NothingMoves
  <2>3. CASE /\ wake[WakeOf(k)].state = "authorized"
             /\ wake' = [wake EXCEPT ![WakeOf(k)].state = "consequence_pending"]
    <3>1. \A w \in Wakes : Calm(wake, wake', w)
      BY <2>3 DEF IInv, TypeOK, Over, Calm
    <3> QED
      BY <2>1, <3>1, OpenStaysOpen
  <2> QED
    BY <1>2, <2>2, <2>3 DEF Publish
<1>3. CASE HoldCeiling(k)
  <2> DEFINE L == Lapsed \cup {worker[k].event}
  <2>1. worker[k].event \in Events
    BY <1>3, PassRows DEF HoldCeiling, Running
  <2>2. L \in SUBSET Events /\ \A e \in L : event[e].state = "leased"
    BY <1>3, <2>1 DEF HoldCeiling, Held, Lapsed
  <2>3. event' = EventsRecovered(L) /\ wake' = WakesRecovered(L)
    BY <1>3 DEF HoldCeiling
  <2> HIDE DEF L
  <2> QED
    BY <2>2, <2>3, RecoverySpares, OpenStaysOpen
<1> QED
  BY <1>1, <1>2, <1>3 DEF Think, Begin, ModelReturns, FindsStale, StopsForOwnerAnswer,
     PublishRefused, Fail, Abstain, Transfer, Defer, Throw, DispatchEffect

\* What ends an attempt on e leaves its wake ended, or another event of it open.
LEMMA EndingSpares ==
  ASSUME IInv, NEW e \in Events, event[e].wake \in Wakes, wake[event[e].wake].state # "absent",
         NEW ev2, NEW wk2,
         EndedWake(wk2, e),
         \A f \in Events : ev2[f].wake = event[f].wake
                           /\ (event[f].wake # event[e].wake => ev2[f] = event[f]),
         \/ wk2[event[e].wake].state = "terminal"
         \/ Owed(ev2, wk2, event[e].wake)
  PROVE  Spares(event, wake, ev2, wk2)
<1>1. \A w \in Wakes : Calm(wake, wk2, w) \/ Owed(ev2, wk2, w)
  BY DEF EndedWake, Over, Calm
<1> QED
  BY <1>1 DEF Spares

\* Whoever keeps a wake open has found an event that is open too.
LEMMA OthersOwe ==
  ASSUME NEW ev, NEW wk, NEW e \in Events, NEW states \in SUBSET Durable, Others(ev, e, states)
  PROVE  Owed(ev, wk, ev[e].wake)
BY DEF Others, Owed

\* A settlement that finishes the wake of its event ends it, or leaves it to another event.
LEMMA FinishSpares ==
  ASSUME IInv, NEW e \in Events, event[e].wake \in Wakes, wake[event[e].wake].state # "absent",
         NEW ev, NEW reason \in WakeReasons,
         \A f \in Events : ev[f].wake = event[f].wake
                           /\ (event[f].wake # event[e].wake => ev[f] = event[f])
  PROVE  Spares(event, wake, ev, WakeFinished(ev, e, reason))
<1>1. EndedWake(WakeFinished(ev, e, reason), e)
  BY FinishedWake DEF IInv
<1>2. CASE KeepsWakeOpen(ev, e, reason)
  <2>1. Others(ev, e, Durable) \/ Others(ev, e, Claimable)
    BY <1>2 DEF KeepsWakeOpen
  <2>2. Owed(ev, WakeFinished(ev, e, reason), event[e].wake)
    BY <2>1, OthersOwe DEF Durable, Claimable
  <2> QED
    BY <1>1, <2>2, EndingSpares
<1>3. CASE ~KeepsWakeOpen(ev, e, reason)
  <2>1. wake[event[e].wake] \in WakeRow
    BY DEF IInv, TypeOK
  <2>2. WakeFinished(ev, e, reason)[event[e].wake].state = "terminal"
    BY <1>3, <2>1, MovedWake DEF WakeFinished, IInv, TypeOK
  <2> QED
    BY <1>1, <2>2, EndingSpares
<1> QED
  BY <1>2, <1>3

\* A settlement hands a wake that stays alive to an event that stays open.
LEMMA SettleSpares ==
  ASSUME IInv, NEW k \in Workers, Settle(k)
  PROVE  Spares(event, wake, event', wake')
<1> DEFINE e == worker[k].event
<1>1. /\ e \in Events /\ event[e].wake = WakeOf(k) /\ WakeOf(k) \in Wakes
      /\ wake[WakeOf(k)].state # "absent"
  <2>1. worker[k].stage # "idle"
    BY DEF Settle, SettleLost, SettleCompleted, SettleDeferred, SettleRetry, SettleTerminal, SettleSuperseded,
           SettleUnknown, Settling
  <2> QED
    BY <2>1, PassRows DEF WakeOf
<1>2. /\ event \in [Events -> EventRow] /\ wake \in [Wakes -> WakeRow]
      /\ wake[WakeOf(k)] \in WakeRow
  BY <1>1 DEF IInv, TypeOK
<1>3. \A f \in Events, st \in EventStates, reason \in EventReasons :
        Closed(event[f], st, reason).wake = event[f].wake
  BY <1>2, ClosedRow
<1> HIDE DEF e
<1>4. CASE SettleLost(k)
  BY <1>4, NothingMoves DEF SettleLost
<1>5. CASE SettleCompleted(k)
  <2> DEFINE ev == EventsCompleted(k)
  <2>1. \A f \in Events : ev[f].wake = event[f].wake
                          /\ (event[f].wake # event[e].wake => ev[f] = event[f])
    BY <1>1, <1>3 DEF EventsCompleted, EventStates, EventReasons, e
  <2>2. event' = ev /\ wake' = WakeFinished(ev, e, "completed")
    BY <1>5 DEF SettleCompleted, e
  <2> HIDE DEF ev
  <2> QED
    BY <1>1, <2>1, <2>2, FinishSpares DEF WakeReasons
<1>6. CASE SettleSuperseded(k)
  <2> DEFINE ev == EventsSuperseded(k)
  <2>1. \A f \in Events : ev[f].wake = event[f].wake
                          /\ (event[f].wake # event[e].wake => ev[f] = event[f])
    BY <1>1, <1>3 DEF EventsSuperseded, EventStates, EventReasons, e
  <2>2. event' = ev /\ wake' = WakeFinished(ev, e, "superseded")
    BY <1>6 DEF SettleSuperseded, e
  <2> HIDE DEF ev
  <2> QED
    BY <1>1, <2>1, <2>2, FinishSpares DEF WakeReasons
<1>7. CASE SettleTerminal(k)
  <2>1. PICK ev \in {EventsExhausted(k), EventsStale(k)}, reason \in {"quarantined", "no_action"} :
          event' = ev /\ wake' = WakeFinished(ev, e, reason)
    BY <1>7 DEF SettleTerminal, e
  <2>2. \A f \in Events : ev[f].wake = event[f].wake
                          /\ (event[f].wake # event[e].wake => ev[f] = event[f])
    BY <1>1, <1>2, <1>3 DEF EventsExhausted, EventsStale, EventStates, EventReasons, e
  <2> QED
    BY <1>1, <2>1, <2>2, FinishSpares DEF WakeReasons
<1>8. CASE SettleRetry(k) \/ SettleUnknown(k)
  <2>1. \E st \in {"retry_wait", "reconciling"} :
          event' = [event EXCEPT ![e].state = st, ![e].elapsed = FALSE]
    BY <1>8 DEF SettleRetry, SettleUnknown, e
  <2>2. /\ \A f \in Events : f # e => event'[f] = event[f]
        /\ event'[e].wake = event[e].wake /\ event'[e].state \in Durable
    BY <1>1, <1>2, <2>1 DEF EventRow, Durable
  <2>3. /\ wake'[WakeOf(k)] \in {ToPending(wake[WakeOf(k)]), ToReconciling(wake[WakeOf(k)])}
        /\ \A w \in Wakes : w # WakeOf(k) => wake'[w] = wake[w]
    BY <1>1, <1>2, <1>8 DEF SettleRetry, SettleUnknown
  <2>4. EndedWake(wake', e)
    BY <1>1, <1>2, <2>3, MovedWake DEF EndedWake, WakeReasons
  <2>5. Owed(event', wake', event[e].wake)
    BY <1>1, <2>2 DEF Owed
  <2> QED
    BY <1>1, <2>2, <2>4, <2>5, EndingSpares
<1>9. CASE SettleDeferred(k)
  <2>1. event' = [event EXCEPT ![e] = Closed(@, "terminal", "deferred")]
    BY <1>9 DEF SettleDeferred, e
  <2>2. /\ \A f \in Events : f # e => event'[f] = event[f]
        /\ event'[e].wake = event[e].wake
        /\ event'[e].state = "terminal" /\ event'[e].reason = "deferred"
    <3>1. event[e] \in EventRow
      BY <1>1, <1>2
    <3>2. event'[e] = Closed(event[e], "terminal", "deferred")
      BY <1>1, <1>2, <2>1
    <3>3. event'[e].reason = "deferred"
      BY <3>1, <3>2, Zenon DEF Closed, EventRow
    <3> QED
      BY <1>1, <1>2, <2>1, <3>1, <3>2, <3>3, ClosedRow DEF EventStates, EventReasons
  <2>3. /\ wake'[WakeOf(k)] = ToPending(wake[WakeOf(k)])
        /\ \A w \in Wakes : w # WakeOf(k) => wake'[w] = wake[w]
    BY <1>1, <1>2, <1>9 DEF SettleDeferred
  <2>4. EndedWake(wake', e)
    BY <1>1, <1>2, <2>3, MovedWake DEF EndedWake, WakeReasons
  <2>5. Owed(event', wake', event[e].wake)
    BY <1>1, <2>2 DEF Owed, Left
  <2> QED
    BY <1>1, <2>2, <2>4, <2>5, EndingSpares
<1> QED
  BY <1>4, <1>5, <1>6, <1>7, <1>8, <1>9 DEF Settle
--------------------------------------------------------------------------------
(* Every other step.                                                        *)

\* What arrives is owed by its own event.
LEMMA IngressSpares ==
  ASSUME IInv, Ingress
  PROVE  Spares(event, wake, event', wake')
<1>1. PICK c \in Conversations, e \in Events, w \in Wakes :
        \/ OwnerOpens(c, e, w) \/ OwnerComposes(c, e, w)
        \/ \E old \in Wakes : OwnerPreempts(c, e, old, w)
        \/ AdmitCompletion(c, e, w) \/ AdmitOwnTime(c, e, w)
  BY DEF Ingress
<1>2. event \in [Events -> EventRow] /\ wake \in [Wakes -> WakeRow]
  BY DEF IInv, TypeOK
<1>3. event[e].state = "absent"
  BY <1>1 DEF OwnerOpens, OwnerComposes, OwnerPreempts, AdmitCompletion, AdmitOwnTime, NextEvent
<1>4. \E kind \in AllKinds : event' = [event EXCEPT ![e] = NewEvent(kind, w)]
  BY <1>1 DEF OwnerOpens, OwnerComposes, OwnerPreempts, AdmitCompletion, AdmitOwnTime, AllKinds
<1>5. /\ event'[e].wake = w /\ event'[e].state \in Durable
      /\ \A f \in Events : f # e => event'[f] = event[f]
  BY <1>2, <1>4 DEF NewEvent, AbsentEvent, Durable
<1>6. ASSUME NEW v \in Wakes, v # w, wake'[v].state \notin Over
      PROVE  /\ wake[v].state \notin Over
             /\ wake[v].state = "reconciling" => wake'[v].state = "reconciling"
  <2>1. ASSUME NEW old \in Wakes, OwnerPreempts(c, e, old, w)
        PROVE  /\ wake[v].state \notin Over
               /\ wake[v].state = "reconciling" => wake'[v].state = "reconciling"
    <3>1. wake[old].state # "absent"
      BY <2>1 DEF OwnerPreempts, IsCurrentCycle, Occupants, WakesOf
    <3>2. v # old => wake'[v] = wake[v]
      BY <1>2, <1>6, <2>1 DEF OwnerPreempts
    <3>3. v = old => wake'[v] = PreemptedWake(old)
      <4>1. NextWake(w) /\ wake[w].state = "absent"
        BY <2>1 DEF OwnerPreempts, NextWake
      <4> QED
        BY <1>2, <1>6, <2>1, <3>1, <4>1 DEF OwnerPreempts
    <3> QED
      BY <1>6, <3>1, <3>2, <3>3, PreemptedRow DEF IInv, Over
  <2>2. CASE OwnerComposes(c, e, w)
    BY <1>2, <1>6, <2>2 DEF OwnerComposes
  <2>3. CASE OwnerOpens(c, e, w) \/ AdmitCompletion(c, e, w) \/ AdmitOwnTime(c, e, w)
    BY <1>2, <1>6, <2>3 DEF OwnerOpens, AdmitCompletion, AdmitOwnTime
  <2> QED
    BY <1>1, <2>1, <2>2, <2>3
<1>7. Owed(event', wake', w)
  BY <1>5 DEF Owed
<1>8. \A f \in Events : event[f].state \in Durable => event'[f] = event[f]
  BY <1>3, <1>5 DEF Durable
<1> QED
  BY <1>6, <1>7, <1>8 DEF Spares, Calm

\* A deadline that passes opens and closes nothing.
LEMMA ClockSpares ==
  ASSUME IInv, Clock
  PROVE  Spares(event, wake, event', wake')
<1>1. PICK e \in Events : DeadlineElapses(e) \/ AgeElapses(e)
  BY DEF Clock
<1>2. wake' = wake /\ \A f \in Events : event'[f].wake = event[f].wake
                                       /\ event'[f].state = event[f].state
  BY <1>1 DEF IInv, TypeOK, EventRow, DeadlineElapses, AgeElapses
<1> QED
  BY <1>2, OpenStaysOpen DEF Calm

\* Retiring cycles revives no wake.
LEMMA RetiredWakes ==
  ASSUME IInv, NEW Z, NEW w \in Wakes
  PROVE  Calm(wake, WakesRetired(Z), w)
<1> DEFINE r == [wake[w] EXCEPT !.cancelled = TRUE]
<1>1. wake[w] \in WakeRow /\ r \in WakeRow /\ r.state = wake[w].state
  BY TypedWake DEF IInv, TypeOK
<1>2. ToTerminal(r, "cancelled").state = "terminal"
  BY <1>1, MovedWake DEF WakeReasons
<1>3. WakesRetired(Z)[w] \in {wake[w], r, ToTerminal(r, "cancelled")}
  BY DEF WakesRetired
<1> HIDE DEF r
<1> QED
  BY <1>1, <1>2, <1>3 DEF Over, Calm

\* Reconciliation ends wakes, and closes an event only with its wake.
LEMMA ReconcileSpares ==
  ASSUME IInv, Reconcile
  PROVE  Spares(event, wake, event', wake')
<1>1. ASSUME NEW w \in Wakes, RetireOwnerlessCycle(w)
      PROVE  Spares(event, wake, event', wake')
  <2>1. \A v \in Wakes : Calm(wake, wake', v)
    BY <1>1, RetiredWakes DEF RetireOwnerlessCycle
  <2> QED
    BY <1>1, <2>1, OpenStaysOpen DEF RetireOwnerlessCycle
<1>2. ASSUME NEW e \in Events, ReconcileStranded(e) \/ AbandonSpent(e)
      PROVE  Spares(event, wake, event', wake')
  <2>1. /\ event[e].state = "reconciling" /\ event[e].wake \in Wakes
        /\ wake[event[e].wake].state # "absent" /\ wake[event[e].wake] \in WakeRow
        /\ event[e] \in EventRow /\ wake \in [Wakes -> WakeRow] /\ event \in [Events -> EventRow]
    BY <1>2, OpenIsRooted DEF ReconcileStranded, AbandonSpent, IInv, TypeOK, Durable
  <2>2. CASE ReconcileStranded(e)
    <3>1. /\ wake'[event[e].wake] = ToPending(wake[event[e].wake])
          /\ \A v \in Wakes : v # event[e].wake => wake'[v] = wake[v]
      BY <2>1, <2>2 DEF ReconcileStranded
    <3>2. EndedWake(wake', e)
      BY <2>1, <3>1, MovedWake DEF EndedWake, WakeReasons
    <3>3. /\ event'[e].wake = event[e].wake /\ event'[e].state \in Durable
          /\ \A f \in Events : f # e => event'[f] = event[f]
      BY <2>1, <2>2 DEF ReconcileStranded, EventRow, Durable
    <3>4. Owed(event', wake', event[e].wake)
      BY <3>3 DEF Owed
    <3> QED
      BY <2>1, <3>2, <3>3, <3>4, EndingSpares
  <2>3. CASE AbandonSpent(e)
    <3>1. /\ wake'[event[e].wake] = ToTerminal(wake[event[e].wake], "quarantined")
          /\ \A v \in Wakes : v # event[e].wake => wake'[v] = wake[v]
      BY <2>1, <2>3 DEF AbandonSpent
    <3>2. EndedWake(wake', e) /\ wake'[event[e].wake].state = "terminal"
      BY <2>1, <3>1, MovedWake DEF EndedWake, WakeReasons
    <3>3. /\ event'[e].wake = event[e].wake
          /\ \A f \in Events : f # e => event'[f] = event[f]
      BY <2>1, <2>3, ClosedRow DEF AbandonSpent, EventStates, EventReasons
    <3> QED
      BY <2>1, <3>2, <3>3, EndingSpares
  <2> QED
    BY <1>2, <2>2, <2>3
<1>3. ASSUME NEW e \in Events, RetireStale(e)
      PROVE  Spares(event, wake, event', wake')
  <2>1. /\ event[e].state = "reconciling" /\ event[e].wake \in Wakes
        /\ event[e] \in EventRow /\ event \in [Events -> EventRow] /\ wake' = wake
    BY <1>3, OpenIsRooted DEF RetireStale, IInv, TypeOK, Durable
  <2>2. wake'[event[e].wake].state \in {"reconciling", "terminal"}
    BY <2>1 DEF IInv, RowsInv, Fenced
  <2>3. /\ event'[e].wake = event[e].wake
        /\ event'[e].state = "terminal" /\ event'[e].reason = "stale"
        /\ \A f \in Events : f # e => event'[f] = event[f]
    BY <1>3, <2>1 DEF RetireStale, Closed, EventRow
  <2>4. wake'[event[e].wake].state = "terminal" \/ Owed(event', wake', event[e].wake)
    BY <2>2, <2>3 DEF Owed, Left
  <2> QED
    BY <2>1, <2>3, <2>4 DEF Spares, Calm
<1>4. ASSUME NEW w \in Wakes, ConvergeOrphan(w)
      PROVE  Spares(event, wake, event', wake')
  <2>1. wake \in [Wakes -> WakeRow] /\ event' = event
    BY <1>4 DEF ConvergeOrphan, IInv, TypeOK
  <2>2. ToTerminal(wake[w], "no_action").state = "terminal"
    BY <2>1, MovedWake DEF WakeReasons
  <2>3. \A v \in Wakes : wake'[v] = wake[v] \/ wake'[v].state = "terminal"
    BY <1>4, <2>1, <2>2 DEF ConvergeOrphan
  <2> QED
    BY <2>1, <2>3 DEF Spares, Calm, Over
<1> QED
  BY <1>1, <1>2, <1>3, <1>4 DEF Reconcile

\* A turn of the coordinator touches no event, and a wake only to end it.
LEMMA CoordinateSpares ==
  ASSUME IInv, Coordinate
  PROVE  Spares(event, wake, event', wake')
<1>1. CASE TurnDefers
  <2>1. wake \in [Wakes -> WakeRow] /\ event' = event
    BY <1>1 DEF TurnDefers, IInv, TypeOK
  <2>2. \A v \in Wakes : wake'[v] = wake[v] \/ wake'[v] = Expired(wake[v])
    BY <1>1, <2>1 DEF TurnDefers
  <2>3. \A v \in Wakes : Expired(wake[v]) = wake[v] \/ Expired(wake[v]).state = "terminal"
    BY <2>1, MovedWake DEF Expired, WakeReasons
  <2> QED
    BY <2>1, <2>2, <2>3 DEF Spares, Calm, Over
<1>2. CASE UNCHANGED <<event, wake>>
  BY <1>2, NothingMoves
<1> QED
  BY <1>1, <1>2 DEF Coordinate, FrontierExhausts, TurnOpens, TurnReturns, TurnPublishes,
     TurnReplays, TurnFails, TurnDispatches

\* Nor does the startup sequence forget a wake.
LEMMA StartupSpares ==
  ASSUME IInv, Startup
  PROVE  Spares(event, wake, event', wake')
<1>1. CASE RecoverWakes
  <2>1. \A w \in Wakes : Calm(wake, wake', w)
    <3>1. ASSUME NEW w \in Wakes
          PROVE  \/ wake'[w] = wake[w]
                 \/ wake[w].state \in {"consequence_pending", "authorized"}
      BY <1>1 DEF RecoverWakes
    <3> QED
      BY <3>1 DEF Calm, Over
  <2> QED
    BY <1>1, <2>1, OpenStaysOpen DEF RecoverWakes
<1>2. CASE RecoverEvents
  BY <1>2, RecoverySpares, OpenStaysOpen DEF RecoverEvents, Lapsed
<1>3. CASE ReconcileOwnership
  <2>1. \A w \in Wakes : Calm(wake, wake', w)
    BY <1>3, RetiredWakes DEF ReconcileOwnership
  <2>2. \A e \in Events : event'[e] = event[e] \/ wake'[event[e].wake].state = "terminal"
    BY <1>3 DEF ReconcileOwnership, LeftBehind
  <2> QED
    BY <2>1, <2>2 DEF Spares
<1> QED
  BY <1>1, <1>2, <1>3 DEF Startup
--------------------------------------------------------------------------------
(* The theorem.                                                             *)

LEMMA NextKeepsOwed ==
  IInv /\ EveryWakeOwed(event, wake) /\ [Next]_vars => EveryWakeOwed(event, wake)'
<1> SUFFICES ASSUME IInv, EveryWakeOwed(event, wake), [Next]_vars
             PROVE  EveryWakeOwed(event, wake)'
  OBVIOUS
<1>0. Spares(event, wake, event', wake') => EveryWakeOwed(event, wake)'
  <2>1. \A e \in Events : event[e].state = "terminal" => event'[e] = event[e]
    BY NextIInv, ClosedStep
  <2>2. Spares(event, wake, event', wake') => EveryWakeOwed(event', wake')
    BY <2>1, SparingKeepsOwed
  <2> QED
    BY <2>2 DEF EveryWakeOwed, Owed, Left, Over
<1>1. CASE Ingress
  BY <1>0, <1>1, IngressSpares
<1>2. CASE Clock
  BY <1>0, <1>2, ClockSpares
<1>3. CASE OwnTime
  <2>1. CASE LeaveOwnTime
    BY <1>0, <2>1, NothingMoves DEF LeaveOwnTime
  <2>2. ASSUME NEW e \in Events, ClaimOwnTime(e) PROVE EveryWakeOwed(event, wake)'
    <3>1. PICK f \in Events : FreshOwnTime(f)
      BY <2>2 DEF IInv, OwnTimeIsFresh, ClaimOwnTime
    <3>2. event[e].state # "absent"
      <4> DEFINE S == {x \in Events : event[x].state # "absent"}
      <4>1. f \in S /\ \A x \in S : f >= x
        BY <3>1, ConstantsAssumption DEF FreshOwnTime, Events
      <4>2. e = CHOOSE x \in S : \A y \in S : x >= y
        BY <2>2 DEF ClaimOwnTime, JustAdmitted, Max
      <4> QED
        BY <4>1, <4>2
    <3> QED
      BY <2>2, <3>2, ClaimSpares DEF ClaimOwnTime, IInv, RowsInv, Rooted
  <2> QED
    BY <1>3, <2>1, <2>2 DEF OwnTime
<1>4. ASSUME NEW k \in Consumers, Poll(k) PROVE EveryWakeOwed(event, wake)'
  <2>1. CASE PollFindsNothing(k)
    BY <1>0, <2>1, NormalizationSpares DEF PollFindsNothing
  <2>2. CASE PollThrows(k)
    BY <1>0, <2>2, NothingMoves DEF PollThrows, Stops
  <2>3. ASSUME NEW e \in Events, PollClaims(k, e) PROVE EveryWakeOwed(event, wake)'
    <3>1. EventsNormalized[e].state = "pending" /\ Claim(k, e)
      BY <2>3 DEF PollClaims, IsFairHead, Candidates
    <3>2. event[e].state # "absent"
      BY <3>1, NormalizationLeasesNothing DEF IInv, NoNewLease, RowsInv, Rooted, AbsentEvent
    <3> QED
      BY <3>1, <3>2, ClaimSpares DEF IInv, RowsInv, Rooted
  <2> QED
    BY <1>4, <2>1, <2>2, <2>3 DEF Poll
<1>5. ASSUME NEW k \in Workers, Think(k) \/ Settle(k) PROVE EveryWakeOwed(event, wake)'
  BY <1>0, <1>5, ThinkSpares, SettleSpares
<1>6. ASSUME NEW w \in Wakes, Deliver(w) \/ ResolveEffect(w) PROVE EveryWakeOwed(event, wake)'
  BY <1>0, <1>6, NothingMoves DEF Deliver, ResolveEffect
<1>7. CASE Reconcile
  BY <1>0, <1>7, ReconcileSpares
<1>8. CASE Crash \/ UNCHANGED vars
  BY <1>0, <1>8, NothingMoves DEF Crash, Stops, vars
<1>9. CASE Startup
  BY <1>0, <1>9, StartupSpares
<1>10. CASE Coordinate
  BY <1>0, <1>10, CoordinateSpares
<1> QED
  BY <1>1, <1>2, <1>3, <1>4, <1>5, <1>6, <1>7, <1>8, <1>9, <1>10 DEF Next

\* A wake that has not ended has an event that is not closed, one that was deferred to a
\* frontier, or one retired while the outcome of the wake was unknown: whatever is
\* composed, preempted, exhausted, superseded, settled late, recovered or retired, the
\* orphans left to convergeOrphanPendingWakes are those the frontier makes.
THEOREM OnlyDeferralOrphansWakes == Spec => []OnlyDeferralOrphans
<1>1. Init => EveryWakeOwed(event, wake)
  BY DEF Init, EveryWakeOwed, AbsentWake, Over
<1>2. EveryWakeOwed(event, wake) => OnlyDeferralOrphans
  BY DEF EveryWakeOwed, Owed, Left, Over, OnlyDeferralOrphans
<1> QED
  BY <1>1, <1>2, NextKeepsOwed, Invariance, PTL DEF Spec
================================================================================
