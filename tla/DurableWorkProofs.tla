--------------------------- MODULE DurableWorkProofs ---------------------------
(***************************************************************************)
(* That the rows of the durable inbox stay fenced, for any number of        *)
(* events, wakes, conversations and consumers.                              *)
(***************************************************************************)
EXTENDS DurableWork, TLAPS

--------------------------------------------------------------------------------
(* The inductive invariant.  HeldWake, OneLeasePerConversation and           *)
(* UnknownFenced are stated here of rows given as arguments, because what    *)
(* precedes every claim is the normalisation of all rows: the claim is a     *)
(* step from rows that no state of a behaviour shows.                        *)

\* An absent row holds nothing, and a row that exists belongs to a wake that exists.
Rooted(ev, wk) ==
  \A e \in Events :
    IF ev[e].state = "absent" THEN ev[e] = AbsentEvent
    ELSE ev[e].wake \in Wakes /\ wk[ev[e].wake].state # "absent"

\* A live wake lease is backed by the leased row whose token it carries.
Backed(ev, wk) ==
  \A w \in Wakes : wk[w].state \in {"authorized", "consequence_pending"} =>
    \E e \in Events : /\ ev[e].state = "leased" /\ ev[e].wake = w
                      /\ wk[w].holder = <<e, ev[e].attempts>>

\* Two leased rows belong to two conversations.
Exclusive(ev, wk) ==
  \A e, f \in Events : ev[e].state = "leased" /\ ev[f].state = "leased" /\ e # f
                         => wk[ev[e].wake].conv # wk[ev[f].wake].conv

\* The wake of an unknown outcome cannot be claimed.
Fenced(ev, wk) ==
  \A e \in Events : ev[e].state = "reconciling" =>
    wk[ev[e].wake].state \in {"reconciling", "terminal"}

\* At most one row of a wake is leased or reconciling.
OneInvolved(ev) ==
  \A e, f \in Events :
    {ev[e].state, ev[f].state} \subseteq {"leased", "reconciling"} /\ ev[e].wake = ev[f].wake
      => e = f

RowsInv(ev, wk) ==
  /\ Rooted(ev, wk) /\ Backed(ev, wk) /\ Exclusive(ev, wk) /\ Fenced(ev, wk)
  /\ OneInvolved(ev)

\* Rows are appended in order.
InOrder == \A e, f \in Events : e < f /\ event[f].state # "absent" => event[e].state # "absent"

\* A pass that is running has an event.
PassHasEvent ==
  \A k \in Workers : worker[k].stage # "idle" =>
    worker[k].event \in Events /\ event[worker[k].event].state # "absent"

\* The own time that is about to be claimed: the newest row, alone on a fresh wake.
FreshOwnTime(e) ==
  /\ \A f \in Events : event[f].state # "absent" => f <= e
  /\ event[e].state = "pending" /\ event[e].attempts = 0 /\ ~event[e].aged
  /\ wake[event[e].wake].state = "pending"
  /\ wake[event[e].wake].conv \in Conversations
  /\ \A f \in Events : event[f].wake = event[e].wake => f = e

OwnTimeIsFresh == phase = "claiming" => \E e \in Events : FreshOwnTime(e)

IInv ==
  /\ TypeOK
  /\ RowsInv(event, wake)
  /\ InOrder
  /\ PassHasEvent
  /\ OwnTimeIsFresh
--------------------------------------------------------------------------------
(* How the rows change.                                                     *)

\* No row is admitted and none is leased: rows are given back, closed or found unknown,
\* what is closed stays closed, and a wake that stays leased keeps its leased rows.
NoNewLease(ev, wk, ev2, wk2) ==
  /\ \A e \in Events :
       /\ ev2[e].wake = ev[e].wake /\ ev2[e].attempts = ev[e].attempts
       /\ ev[e].state = "absent" => ev2[e] = ev[e]
       /\ ev2[e].state = "absent" => ev[e].state = "absent"
       /\ ev[e].state \in {"terminal", "quarantined"} => ev2[e] = ev[e]
       /\ ev2[e].state = "leased" => ev[e].state = "leased"
       /\ ev2[e].state = "reconciling" => /\ ev[e].state \in {"leased", "reconciling"}
                                          /\ wk2[ev[e].wake].state \in {"reconciling", "terminal"}
  /\ \A w \in Wakes :
       /\ wk2[w].conv = wk[w].conv
       /\ wk2[w].state = "absent" => wk[w].state = "absent"
       /\ wk[w].state = "terminal" => wk2[w].state = "terminal" /\ wk2[w].reason = wk[w].reason
       /\ wk2[w].state \in {"authorized", "consequence_pending"} =>
            /\ wk[w].state \in {"authorized", "consequence_pending"}
            /\ wk2[w].holder = wk[w].holder
            /\ \A e \in Events : ev[e].wake = w /\ ev[e].state = "leased" => ev2[e].state = "leased"

\* No unknown outcome becomes known.
KeepsUnknown(ev2) ==
  \A e \in Events : event[e].state = "reconciling" => ev2[e].state = "reconciling"

\* A step that leases nothing keeps the rows fenced: recovery, settlement, delivery,
\* reconciliation and startup.
LEMMA NoNewLeaseKeepsRows ==
  ASSUME NEW ev, NEW wk, NEW ev2, NEW wk2,
         RowsInv(ev, wk), NoNewLease(ev, wk, ev2, wk2)
  PROVE  RowsInv(ev2, wk2)
<1>1. Rooted(ev2, wk2)
  BY DEF RowsInv, Rooted, NoNewLease
<1>2. Backed(ev2, wk2)
  <2> SUFFICES ASSUME NEW w \in Wakes, wk2[w].state \in {"authorized", "consequence_pending"}
               PROVE  \E e \in Events : /\ ev2[e].state = "leased" /\ ev2[e].wake = w
                                        /\ wk2[w].holder = <<e, ev2[e].attempts>>
    BY DEF Backed
  <2>1. PICK e \in Events : /\ ev[e].state = "leased" /\ ev[e].wake = w
                            /\ wk[w].holder = <<e, ev[e].attempts>>
    BY DEF RowsInv, Backed, NoNewLease
  <2> QED
    BY <2>1 DEF NoNewLease
<1>3. Exclusive(ev2, wk2)
  <2> SUFFICES ASSUME NEW e \in Events, NEW f \in Events, e # f,
                      ev2[e].state = "leased", ev2[f].state = "leased"
               PROVE  wk2[ev2[e].wake].conv # wk2[ev2[f].wake].conv
    BY DEF Exclusive
  <2>1. /\ ev[e].state = "leased" /\ ev[f].state = "leased"
        /\ ev2[e].wake = ev[e].wake /\ ev2[f].wake = ev[f].wake
    BY DEF NoNewLease
  <2>2. ev[e].wake \in Wakes /\ ev[f].wake \in Wakes
    BY <2>1 DEF RowsInv, Rooted
  <2> QED
    BY <2>1, <2>2 DEF RowsInv, Exclusive, NoNewLease
<1>4. Fenced(ev2, wk2)
  BY DEF Fenced, NoNewLease
<1>5. OneInvolved(ev2)
  BY DEF RowsInv, OneInvolved, NoNewLease
<1> QED
  BY <1>1, <1>2, <1>3, <1>4, <1>5 DEF RowsInv

\* A row is admitted to a wake of conversation c, new or not, and nothing is leased.
Admits(ev, wk, ev2, wk2, c, e, kind, w) ==
  /\ ev[e].state = "absent"
  /\ ev2 = [ev EXCEPT ![e] = NewEvent(kind, w)]
  /\ wk2[w].state # "absent" /\ wk2[w].conv = c
  /\ wk[w].state # "absent" => wk[w].conv = c
  /\ \A v \in Wakes :
       /\ v # w => wk2[v].conv = wk[v].conv
       /\ wk[v].state = "terminal" => wk2[v].state = "terminal" /\ wk2[v].reason = wk[v].reason
       /\ wk[v].state # "absent" => wk2[v].conv = wk[v].conv /\ wk2[v].state # "absent"
       /\ wk[v].state \in {"reconciling", "terminal"} => wk2[v].state \in {"reconciling", "terminal"}
       /\ wk2[v].state \in {"authorized", "consequence_pending"} =>
            /\ wk[v].state \in {"authorized", "consequence_pending"}
            /\ wk2[v].holder = wk[v].holder

\* Ingress keeps the rows fenced: it may silence a wake, never lease one.
LEMMA AdmitKeepsRows ==
  ASSUME NEW ev \in [Events -> EventRow], NEW wk, NEW ev2, NEW wk2,
         NEW c, NEW e \in Events, NEW kind, NEW w \in Wakes,
         RowsInv(ev, wk), Admits(ev, wk, ev2, wk2, c, e, kind, w)
  PROVE  RowsInv(ev2, wk2)
<1>0. /\ ev2[e].state = "pending" /\ ev2[e].wake = w
      /\ \A f \in Events : f # e => ev2[f] = ev[f]
  BY DEF Admits, NewEvent, AbsentEvent
<1>1. Rooted(ev2, wk2)
  BY <1>0 DEF RowsInv, Rooted, Admits
<1>2. Backed(ev2, wk2)
  BY <1>0 DEF RowsInv, Backed, Admits
<1>3. Exclusive(ev2, wk2)
  <2> SUFFICES ASSUME NEW f \in Events, NEW g \in Events, f # g,
                      ev2[f].state = "leased", ev2[g].state = "leased"
               PROVE  wk2[ev2[f].wake].conv # wk2[ev2[g].wake].conv
    BY DEF Exclusive
  <2>1. ev2[f] = ev[f] /\ ev2[g] = ev[g]
    BY <1>0
  <2>2. /\ ev[f].wake \in Wakes /\ wk[ev[f].wake].state # "absent"
        /\ ev[g].wake \in Wakes /\ wk[ev[g].wake].state # "absent"
    BY <2>1 DEF RowsInv, Rooted
  <2> QED
    BY <2>1, <2>2 DEF RowsInv, Exclusive, Admits
<1>4. Fenced(ev2, wk2)
  <2> SUFFICES ASSUME NEW f \in Events, ev2[f].state = "reconciling"
               PROVE  wk2[ev2[f].wake].state \in {"reconciling", "terminal"}
    BY DEF Fenced
  <2>1. ev2[f] = ev[f] /\ ev[f].wake \in Wakes
    BY <1>0 DEF RowsInv, Rooted
  <2> QED
    BY <2>1 DEF RowsInv, Fenced, Admits
<1>5. OneInvolved(ev2)
  BY <1>0 DEF RowsInv, OneInvolved
<1> QED
  BY <1>1, <1>2, <1>3, <1>4, <1>5 DEF RowsInv

\* A pending row is leased with its pending wake, in a conversation without a lease.
LEMMA ClaimKeepsRows ==
  ASSUME NEW ev \in [Events -> EventRow], NEW wk \in [Wakes -> WakeRow], NEW e \in Events,
         NEW n, RowsInv(ev, wk), ev[e].state = "pending", wk[ev[e].wake].state = "pending",
         \A f \in Events : ev[f].state = "leased" => wk[ev[f].wake].conv # wk[ev[e].wake].conv,
         NEW ev2, NEW wk2,
         ev2 = [ev EXCEPT ![e].state = "leased", ![e].attempts = n, ![e].elapsed = FALSE],
         wk2 = [wk EXCEPT ![ev[e].wake].state = "authorized", ![ev[e].wake].holder = <<e, n>>]
  PROVE  RowsInv(ev2, wk2)
<1> DEFINE w == ev[e].wake
<1>0. /\ w \in Wakes
      /\ \A f \in Events : ev2[f].wake = ev[f].wake /\ (f # e => ev2[f] = ev[f])
      /\ ev2[e].state = "leased" /\ ev2[e].attempts = n
      /\ wk2[w].state = "authorized" /\ wk2[w].holder = <<e, n>>
      /\ \A v \in Wakes : wk2[v].conv = wk[v].conv /\ (v # w => wk2[v] = wk[v])
  BY DEF RowsInv, Rooted, EventRow, WakeRow
<1> HIDE DEF w
<1>1. Rooted(ev2, wk2)
  BY <1>0 DEF RowsInv, Rooted, w
<1>2. Backed(ev2, wk2)
  <2> SUFFICES ASSUME NEW v \in Wakes, wk2[v].state \in {"authorized", "consequence_pending"}
               PROVE  \E f \in Events : /\ ev2[f].state = "leased" /\ ev2[f].wake = v
                                        /\ wk2[v].holder = <<f, ev2[f].attempts>>
    BY DEF Backed
  <2>1. CASE v = w
    BY <2>1, <1>0 DEF w
  <2>2. CASE v # w
    <3>1. PICK f \in Events : /\ ev[f].state = "leased" /\ ev[f].wake = v
                              /\ wk[v].holder = <<f, ev[f].attempts>>
      BY <2>2, <1>0 DEF RowsInv, Backed
    <3> QED
      BY <3>1, <2>2, <1>0
  <2> QED
    BY <2>1, <2>2
<1>3. Exclusive(ev2, wk2)
  <2> SUFFICES ASSUME NEW f \in Events, NEW g \in Events, f # g,
                      ev2[f].state = "leased", ev2[g].state = "leased"
               PROVE  wk2[ev2[f].wake].conv # wk2[ev2[g].wake].conv
    BY DEF Exclusive
  <2>1. /\ f = e \/ ev[f].state = "leased"
        /\ g = e \/ ev[g].state = "leased"
    BY <1>0
  <2>2. ev[f].wake \in Wakes /\ ev[g].wake \in Wakes
    BY <2>1 DEF RowsInv, Rooted
  <2>3. CASE f = e
    BY <2>1, <2>2, <2>3, <1>0
  <2>4. CASE g = e
    BY <2>1, <2>2, <2>4, <1>0
  <2>5. CASE f # e /\ g # e
    BY <2>1, <2>2, <2>5, <1>0 DEF RowsInv, Exclusive
  <2> QED
    BY <2>3, <2>4, <2>5
<1>4. Fenced(ev2, wk2)
  <2> SUFFICES ASSUME NEW f \in Events, ev2[f].state = "reconciling"
               PROVE  wk2[ev2[f].wake].state \in {"reconciling", "terminal"}
    BY DEF Fenced
  <2>1. ev[f].state = "reconciling" /\ ev2[f].wake = ev[f].wake /\ ev[f].wake \in Wakes
    BY <1>0 DEF RowsInv, Rooted
  <2>2. ev[f].wake # w
    BY <2>1 DEF RowsInv, Fenced, w
  <2> QED
    BY <2>1, <2>2, <1>0 DEF RowsInv, Fenced
<1>5. OneInvolved(ev2)
  <2>1. \A f \in Events : ev[f].state \in {"leased", "reconciling"} => ev[f].wake # w
    BY DEF RowsInv, Fenced, Exclusive, w
  <2> QED
    BY <2>1, <1>0 DEF RowsInv, OneInvolved, w
<1> QED
  BY <1>1, <1>2, <1>3, <1>4, <1>5 DEF RowsInv
--------------------------------------------------------------------------------
(* What recovery and normalisation do to the rows.                          *)

\* Changing one field of a wake keeps its type.
LEMMA TypedWake ==
  ASSUME NEW r \in WakeRow
  PROVE  /\ \A st \in WakeStates : /\ [r EXCEPT !.state = st] \in WakeRow
                                  /\ [r EXCEPT !.state = st].state = st
                                  /\ [r EXCEPT !.state = st].conv = r.conv
                                  /\ [r EXCEPT !.state = st].holder = r.holder
         /\ [r EXCEPT !.cancelled = TRUE] \in WakeRow
         /\ [r EXCEPT !.cancelled = TRUE].state = r.state
         /\ [r EXCEPT !.cancelled = TRUE].conv = r.conv
         /\ [r EXCEPT !.cancelled = TRUE].holder = r.holder
BY DEF WakeRow

\* A wake that is moved keeps its type, its conversation and its existence.
LEMMA MovedWake ==
  ASSUME NEW r \in WakeRow, NEW reason \in WakeReasons
  PROVE  /\ ToPending(r) \in WakeRow /\ ToReconciling(r) \in WakeRow
         /\ ToTerminal(r, reason) \in WakeRow
         /\ ToPending(r).conv = r.conv /\ ToPending(r).state \in {"pending", "terminal"}
         /\ ToReconciling(r).conv = r.conv
         /\ ToReconciling(r).state \in {"reconciling", "terminal"}
         /\ ToTerminal(r, reason).conv = r.conv /\ ToTerminal(r, reason).state = "terminal"
         /\ r.state = "terminal" =>
              ToPending(r) = r /\ ToReconciling(r) = r /\ ToTerminal(r, reason) = r
<1>1. NoToken \in (Events \cup {NoEvent}) \X (0..MaxAttempts)
  BY ConstantsAssumption DEF NoToken, NoEvent
<1>2. CASE r.state = "terminal"
  BY <1>2 DEF ToPending, ToReconciling, ToTerminal
<1>3. CASE r.state # "terminal"
  <2>1. ToPending(r) \in WakeRow /\ ToPending(r).conv = r.conv
        /\ ToPending(r).state \in {"pending", "terminal"}
    BY <1>1, <1>3 DEF WakeRow, WakeStates, ToPending
  <2>2. ToReconciling(r) \in WakeRow /\ ToReconciling(r).conv = r.conv
        /\ ToReconciling(r).state \in {"reconciling", "terminal"}
    BY <1>1, <1>3 DEF WakeRow, WakeStates, ToReconciling
  <2>3. ToTerminal(r, reason) \in WakeRow /\ ToTerminal(r, reason).conv = r.conv
        /\ ToTerminal(r, reason).state = "terminal"
    BY <1>1, <1>3 DEF WakeRow, WakeStates, WakeReasons, ToTerminal
  <2> QED
    BY <1>3, <2>1, <2>2, <2>3
<1> QED
  BY <1>2, <1>3

\* An event that is moved keeps its type, its wake and its attempts.
LEMMA MovedEvent ==
  ASSUME NEW row \in EventRow, NEW st \in EventStates
  PROVE  /\ [row EXCEPT !.state = st, !.elapsed = FALSE] \in EventRow
         /\ [row EXCEPT !.state = st, !.elapsed = FALSE].state = st
         /\ [row EXCEPT !.state = st, !.elapsed = FALSE].wake = row.wake
         /\ [row EXCEPT !.state = st, !.elapsed = FALSE].attempts = row.attempts
BY Zenon DEF EventRow

\* So does an event that is recovered, claimed or given up.
LEMMA HandledEvent ==
  ASSUME NEW row \in EventRow, NEW st \in EventStates, NEW n \in 0..MaxAttempts,
         NEW reason \in EventReasons
  PROVE  /\ [row EXCEPT !.elapsed = FALSE, !.state = st] \in EventRow
         /\ [row EXCEPT !.state = st, !.attempts = n, !.elapsed = FALSE] \in EventRow
         /\ [row EXCEPT !.state = st, !.elapsed = FALSE, !.aged = FALSE, !.reason = reason]
              \in EventRow
<1>1. [row EXCEPT !.elapsed = FALSE, !.state = st] \in EventRow
  BY Zenon DEF EventRow
<1>2. [row EXCEPT !.state = st, !.attempts = n, !.elapsed = FALSE] \in EventRow
  BY Zenon DEF EventRow
<1>3. [row EXCEPT !.state = st, !.elapsed = FALSE, !.aged = FALSE, !.reason = reason] \in EventRow
  BY Zenon DEF EventRow
<1> QED
  BY <1>1, <1>2, <1>3

\* An event that waits keeps all it is but what has elapsed.
LEMMA WaitedEvent ==
  ASSUME NEW row \in EventRow
  PROVE  /\ [row EXCEPT !.elapsed = TRUE] \in EventRow /\ [row EXCEPT !.aged = TRUE] \in EventRow
         /\ [row EXCEPT !.elapsed = TRUE].state = row.state
         /\ [row EXCEPT !.elapsed = TRUE].wake = row.wake
         /\ [row EXCEPT !.elapsed = TRUE].attempts = row.attempts
         /\ [row EXCEPT !.aged = TRUE].state = row.state
         /\ [row EXCEPT !.aged = TRUE].wake = row.wake
         /\ [row EXCEPT !.aged = TRUE].attempts = row.attempts
<1>1. [row EXCEPT !.elapsed = TRUE] \in EventRow /\ [row EXCEPT !.aged = TRUE] \in EventRow
  BY Zenon DEF EventRow
<1>2. /\ [row EXCEPT !.elapsed = TRUE].state = row.state
      /\ [row EXCEPT !.elapsed = TRUE].wake = row.wake
      /\ [row EXCEPT !.elapsed = TRUE].attempts = row.attempts
  BY Zenon DEF EventRow
<1>3. /\ [row EXCEPT !.aged = TRUE].state = row.state
      /\ [row EXCEPT !.aged = TRUE].wake = row.wake
      /\ [row EXCEPT !.aged = TRUE].attempts = row.attempts
  BY Zenon DEF EventRow
<1> QED
  BY <1>1, <1>2, <1>3

\* A cycle that is moved keeps its type.
LEMMA MovedCycle ==
  ASSUME NEW cy \in [Wakes -> CycleRow], NEW w, NEW st \in CycleStates
  PROVE  [cy EXCEPT ![w].state = st] \in [Wakes -> CycleRow]
<1>1. \A row \in CycleRow : [row EXCEPT !.state = st] \in CycleRow
  BY Zenon DEF CycleRow
<1> QED
  BY <1>1

\* Recovering claims keeps every row typed.
LEMMA RecoveryTyped ==
  ASSUME TypeOK, NEW L
  PROVE  /\ EventsRecovered(L) \in [Events -> EventRow]
         /\ WakesRecovered(L) \in [Wakes -> WakeRow]
<1>1. \A e \in Events : RecoveredEvent(e) \in EventRow
  <2> SUFFICES ASSUME NEW e \in Events PROVE RecoveredEvent(e) \in EventRow
    OBVIOUS
  <2> DEFINE st == IF effect[event[e].wake] = "unresolved" THEN "reconciling" ELSE "pending"
  <2>1. event[e] \in EventRow /\ st \in EventStates
    BY DEF TypeOK, EventStates
  <2>2. 0 \in 0..MaxAttempts /\ "none" \in EventReasons
    BY ConstantsAssumption DEF EventReasons
  <2> HIDE DEF st
  <2>3. [event[e] EXCEPT !.elapsed = FALSE, !.state = st] \in EventRow
    BY <2>1, <2>2, HandledEvent
  <2> QED
    BY <2>3 DEF RecoveredEvent, st
<1>2. \A w \in Wakes : ToPending(wake[w]) \in WakeRow /\ ToReconciling(wake[w]) \in WakeRow
  BY MovedWake DEF TypeOK, WakeReasons
<1> QED
  BY <1>1, <1>2 DEF TypeOK, EventsRecovered, WakesRecovered

\* Recovering leased rows, with their wakes, leases nothing.
LEMMA RecoveryLeasesNothing ==
  ASSUME TypeOK, RowsInv(event, wake), NEW L \in SUBSET Events,
         \A e \in L : event[e].state = "leased"
  PROVE  /\ NoNewLease(event, wake, EventsRecovered(L), WakesRecovered(L))
         /\ KeepsUnknown(EventsRecovered(L))
<1> DEFINE ev == EventsRecovered(L)
           wk == WakesRecovered(L)
<1>1. \A e \in Events : /\ e \in L => /\ ev[e].wake = event[e].wake
                                      /\ ev[e].attempts = event[e].attempts
                                      /\ ev[e].state \in {"pending", "reconciling"}
                                      /\ effect[event[e].wake] # "unresolved"
                                           => ev[e].state = "pending"
                        /\ e \notin L => ev[e] = event[e]
  BY DEF EventsRecovered, RecoveredEvent, TypeOK, EventRow
<1>2. \A w \in Wakes :
        /\ (\E e \in L : event[e].wake = w) =>
             IF effect[w] = "unresolved" THEN wk[w] = ToReconciling(wake[w])
             ELSE wk[w] = ToPending(wake[w])
        /\ ~(\E e \in L : event[e].wake = w) => wk[w] = wake[w]
  BY DEF WakesRecovered
<1>3. \A w \in Wakes : /\ ToPending(wake[w]).conv = wake[w].conv
                       /\ ToPending(wake[w]).state \in {"pending", "terminal"}
                       /\ ToReconciling(wake[w]).conv = wake[w].conv
                       /\ ToReconciling(wake[w]).state \in {"reconciling", "terminal"}
                       /\ wake[w].state = "terminal" =>
                            ToPending(wake[w]) = wake[w] /\ ToReconciling(wake[w]) = wake[w]
  BY MovedWake DEF TypeOK, WakeReasons
<1>4. \A e \in Events : event[e].state # "absent" =>
                          event[e].wake \in Wakes /\ wake[event[e].wake].state # "absent"
  BY DEF RowsInv, Rooted
<1>5. \A e \in Events : e \notin L /\ event[e].state = "reconciling" =>
                          wk[event[e].wake] = wake[event[e].wake]
  BY <1>2, <1>4 DEF RowsInv, OneInvolved
<1> HIDE DEF ev, wk
<1>6. ASSUME NEW e \in Events
      PROVE  /\ ev[e].wake = event[e].wake /\ ev[e].attempts = event[e].attempts
             /\ event[e].state \in {"absent", "terminal", "quarantined"} => ev[e] = event[e]
             /\ ev[e].state = "absent" => event[e].state = "absent"
             /\ ev[e].state = "leased" => event[e].state = "leased"
             /\ ev[e].state = "reconciling" =>
                  /\ event[e].state \in {"leased", "reconciling"}
                  /\ wk[event[e].wake].state \in {"reconciling", "terminal"}
  <2>1. CASE e \in L
    BY <2>1, <1>1, <1>2, <1>3, <1>4
  <2>2. CASE e \notin L
    BY <2>2, <1>1, <1>5 DEF RowsInv, Fenced
  <2> QED
    BY <2>1, <2>2
<1>7. ASSUME NEW w \in Wakes
      PROVE  /\ wk[w].conv = wake[w].conv
             /\ wk[w].state = "absent" => wake[w].state = "absent"
             /\ wake[w].state = "terminal" => wk[w] = wake[w]
             /\ wk[w].state \in {"authorized", "consequence_pending"} =>
                  /\ wake[w].state \in {"authorized", "consequence_pending"}
                  /\ wk[w].holder = wake[w].holder
                  /\ \A e \in Events : event[e].wake = w /\ event[e].state = "leased"
                                         => ev[e].state = "leased"
  BY <1>1, <1>2, <1>3, <1>4
<1>8. KeepsUnknown(ev)
  BY <1>1 DEF KeepsUnknown
<1> QED
  BY <1>6, <1>7, <1>8 DEF NoNewLease, ev, wk

\* Normalisation keeps every row typed.
LEMMA NormalizationTyped ==
  ASSUME TypeOK
  PROVE  /\ EventsNormalized \in [Events -> EventRow]
         /\ WakesNormalized \in [Wakes -> WakeRow]
         /\ CyclesNormalized \in [Wakes -> CycleRow]
<1>1. EventsRecovered(Lapsed) \in [Events -> EventRow] /\ WakesRecovered(Lapsed) \in [Wakes -> WakeRow]
  BY RecoveryTyped
<1>2. EventsPromoted \in [Events -> EventRow]
  <2>1. \A e \in Events : [event[e] EXCEPT !.state = "pending", !.elapsed = FALSE] \in EventRow
    BY MovedEvent DEF TypeOK, EventStates
  <2> QED
    BY <1>1, <2>1 DEF EventsPromoted
<1>3. EventsNormalized \in [Events -> EventRow]
  <2>1. \A e \in Events, why \in {"attempts_exhausted", "age_exhausted"} :
          [EventsPromoted[e] EXCEPT !.state = "quarantined", !.elapsed = FALSE, !.aged = FALSE,
                                    !.reason = why] \in EventRow
    <3>1. /\ "quarantined" \in EventStates /\ {"attempts_exhausted", "age_exhausted"} \subseteq EventReasons
          /\ 0 \in 0..MaxAttempts
      BY ConstantsAssumption DEF EventStates, EventReasons
    <3> QED
      BY <1>2, <3>1, HandledEvent
  <2> QED
    BY <1>2, <2>1 DEF EventsNormalized
<1>4. \A w \in Wakes : ToTerminal(WakesRecovered(Lapsed)[w], "quarantined") \in WakeRow
  BY <1>1, MovedWake DEF WakeReasons
<1>5. WakesNormalized \in [Wakes -> WakeRow]
  BY <1>1, <1>4 DEF WakesNormalized
<1>6. \A w \in Wakes : RetireOwnerless(cycle, WakesNormalized, w) \in [Wakes -> CycleRow]
  BY MovedCycle DEF RetireOwnerless, TypeOK, CycleStates
<1>7. CyclesNormalized \in [Wakes -> CycleRow]
  BY <1>6 DEF CyclesNormalized, TypeOK
<1> QED
  BY <1>3, <1>5, <1>7

\* Normalisation leases nothing.
LEMMA NormalizationLeasesNothing ==
  ASSUME TypeOK, RowsInv(event, wake)
  PROVE  /\ NoNewLease(event, wake, EventsNormalized, WakesNormalized)
         /\ KeepsUnknown(EventsNormalized)
<1> DEFINE ev == EventsRecovered(Lapsed)
           wk == WakesRecovered(Lapsed)
<1>1. NoNewLease(event, wake, ev, wk) /\ KeepsUnknown(ev)
  BY RecoveryLeasesNothing DEF Lapsed
<1>2. \A e \in Events : /\ EventsNormalized[e].wake = ev[e].wake
                        /\ EventsNormalized[e].attempts = ev[e].attempts
                        /\ \/ EventsNormalized[e] = ev[e]
                           \/ /\ EventsNormalized[e].state \in {"pending", "quarantined"}
                              /\ ev[e].state \in {"pending", "retry_wait"}
  <2>1. ASSUME NEW e \in Events
        PROVE  /\ EventsPromoted[e].wake = ev[e].wake /\ EventsPromoted[e].attempts = ev[e].attempts
               /\ EventsPromoted[e] \in EventRow
               /\ \/ EventsPromoted[e] = ev[e]
                  \/ EventsPromoted[e].state = "pending" /\ ev[e].state = "retry_wait"
    <3>1. ev[e] \in EventRow
      BY RecoveryTyped
    <3>2. CASE event[e].state = "retry_wait" /\ event[e].elapsed
      <4>1. ev[e] = event[e]
        BY <3>2 DEF EventsRecovered, Lapsed
      <4> QED
        BY <3>1, <3>2, <4>1 DEF EventsPromoted, EventRow, EventStates
    <3>3. CASE ~(event[e].state = "retry_wait" /\ event[e].elapsed)
      BY <3>1, <3>3 DEF EventsPromoted
    <3> QED
      BY <3>2, <3>3
  <2> QED
    BY <2>1 DEF EventsNormalized, Bounded, Claimable, EventRow
<1>3. \A w \in Wakes : \/ WakesNormalized[w] = wk[w]
                       \/ /\ WakesNormalized[w].state = "terminal"
                          /\ WakesNormalized[w].conv = wk[w].conv
                          /\ wk[w].state # "terminal"
                          /\ wake[w].state # "absent"
  <2>1. ASSUME NEW w \in ExhaustedWakes
        PROVE  wake[w].state # "absent"
    <3>1. PICK e \in Events : e \in Bounded /\ event[e].wake = w
      BY DEF ExhaustedWakes, Bounded
    <3>2. EventsPromoted[e].state \in {"pending", "retry_wait"}
      BY <3>1 DEF Bounded, Claimable
    <3>3. event[e].state # "absent"
      BY <3>2, <1>1 DEF EventsPromoted, NoNewLease, RowsInv, Rooted, AbsentEvent
    <3> QED
      BY <3>1, <3>3 DEF RowsInv, Rooted
  <2> QED
    BY <2>1, RecoveryTyped, MovedWake DEF WakesNormalized, WakeReasons
<1>4. \A e \in Events : event[e].state # "absent" => event[e].wake \in Wakes
  BY DEF RowsInv, Rooted
<1> HIDE DEF ev, wk
<1>5. ASSUME NEW e \in Events
      PROVE  /\ EventsNormalized[e].wake = event[e].wake
             /\ EventsNormalized[e].attempts = event[e].attempts
             /\ event[e].state \in {"absent", "terminal", "quarantined"} => EventsNormalized[e] = event[e]
             /\ EventsNormalized[e].state = "absent" => event[e].state = "absent"
             /\ EventsNormalized[e].state = "leased" => event[e].state = "leased"
             /\ EventsNormalized[e].state = "reconciling" =>
                  /\ event[e].state \in {"leased", "reconciling"}
                  /\ WakesNormalized[event[e].wake].state \in {"reconciling", "terminal"}
  BY <1>1, <1>2, <1>3, <1>4 DEF NoNewLease
<1>6. ASSUME NEW w \in Wakes
      PROVE  /\ WakesNormalized[w].conv = wake[w].conv
             /\ WakesNormalized[w].state = "absent" => wake[w].state = "absent"
             /\ wake[w].state = "terminal" =>
                  WakesNormalized[w].state = "terminal" /\ WakesNormalized[w].reason = wake[w].reason
             /\ WakesNormalized[w].state \in {"authorized", "consequence_pending"} =>
                  /\ wake[w].state \in {"authorized", "consequence_pending"}
                  /\ WakesNormalized[w].holder = wake[w].holder
                  /\ \A e \in Events : event[e].wake = w /\ event[e].state = "leased"
                                         => EventsNormalized[e].state = "leased"
  BY <1>1, <1>2, <1>3 DEF NoNewLease
<1>7. KeepsUnknown(EventsNormalized)
  BY <1>1, <1>2 DEF KeepsUnknown
<1> QED
  BY <1>5, <1>6, <1>7 DEF NoNewLease
--------------------------------------------------------------------------------
(* Steps that admit and lease nothing.                                      *)

\* What such a step does to the rows, the passes and the phase.
Quiet ==
  /\ NoNewLease(event, wake, event', wake')
  /\ \A k \in Workers : worker'[k].stage # "idle" =>
       worker[k].stage # "idle" /\ worker'[k].event = worker[k].event
  /\ phase' # "claiming"

\* One does, and no other row changes.
Resolves(e) ==
  /\ event[e].state = "reconciling" /\ event'[e].state \in {"pending", "terminal"}
  /\ \A f \in Events : f # e => event'[f] = event[f]

\* The whole step gives rows back, closes them or finds them unknown.
Sweeps == NoNewLease(event, wake, event', wake') /\ KeepsUnknown(event')

\* The rows are normalised, and then e is claimed in a conversation without a lease, on
\* a wake without an unknown outcome.
Takes(e) ==
  /\ NoNewLease(event, wake, EventsNormalized, WakesNormalized)
  /\ EventsNormalized \in [Events -> EventRow] /\ KeepsUnknown(EventsNormalized)
  /\ EventsNormalized[e].state = "pending"
  /\ \A f \in Events :
       /\ EventsNormalized[f].state = "leased" => Conv(f) # Conv(e)
       /\ EventsNormalized[f].state = "reconciling" => event[f].wake # event[e].wake
       /\ f # e => event'[f] = EventsNormalized[f]
  /\ event'[e].state = "leased" /\ event'[e].wake = event[e].wake
  /\ \A w \in Wakes :
       /\ wake'[w].conv = wake[w].conv
       /\ wake[w].state = "terminal" =>
            wake'[w].state = "terminal" /\ wake'[w].reason = wake[w].reason

\* A quiet step keeps the invariant if it keeps the types.
LEMMA QuietStep ==
  ASSUME IInv, Quiet, TypeOK'
  PROVE  IInv' /\ (KeepsUnknown(event') => Sweeps)
<1>1. RowsInv(event, wake)'
  BY NoNewLeaseKeepsRows DEF IInv, Quiet
<1>2. InOrder'
  BY DEF IInv, Quiet, InOrder, NoNewLease
<1>3. PassHasEvent'
  BY DEF IInv, Quiet, PassHasEvent, NoNewLease
<1>4. OwnTimeIsFresh'
  BY DEF Quiet, OwnTimeIsFresh
<1> QED
  BY <1>1, <1>2, <1>3, <1>4 DEF IInv, Quiet, Sweeps

\* The rows as they are.
LEMMA Unmoved ==
  ASSUME IInv
  PROVE  NoNewLease(event, wake, event, wake)
BY DEF IInv, RowsInv, Fenced, NoNewLease

\* The rows of a pass that is under way.
LEMMA PassRows ==
  ASSUME IInv, NEW k \in Workers, worker[k].stage # "idle"
  PROVE  /\ worker[k] \in Pass /\ worker[k].event \in Events /\ WakeOf(k) \in Wakes
         /\ event[worker[k].event].state # "absent" /\ wake[WakeOf(k)].state # "absent"
BY DEF IInv, PassHasEvent, RowsInv, Rooted, WakeOf, TypeOK

\* Resolving the frontier of a conversation keeps every frontier typed.
LEMMA ResolvedFrontiers ==
  ASSUME TypeOK, NEW c
  PROVE  FrontiersResolved(c) \in [Events -> FrontierStates]
BY DEF TypeOK, FrontiersResolved, FrontierStates

\* A pass that thinks changes its stage and its cycle, and at most moves its own wake
\* from authorized to consequence pending, or gives its claim back.
LEMMA ThinkStep ==
  ASSUME IInv, NEW k \in Workers, Think(k)
  PROVE  TypeOK' /\ Quiet /\ KeepsUnknown(event')
<1>0. worker[k].stage # "idle" /\ phase = "running"
  BY DEF Think, Begin, ModelReturns, FindsStale, StopsForOwnerAnswer, PublishRefused, Publish,
         Publishing, Fail, Abstain, Transfer, Defer, Throw, HoldCeiling, DispatchEffect, Running
<1>1. /\ worker[k] \in Pass /\ worker[k].event \in Events /\ WakeOf(k) \in Wakes
      /\ event[worker[k].event].state # "absent" /\ wake[WakeOf(k)].state # "absent"
  BY <1>0, PassRows
<1>2. NoNewLease(event, wake, event, wake)
  BY Unmoved
<1>3. TypeOK
  BY DEF IInv
<1>4. \A s \in Stages : Stage(k, s) =>
        /\ worker' \in [Workers -> Pass]
        /\ \A j \in Workers : worker'[j].stage # "idle" =>
             worker[j].stage # "idle" /\ worker'[j].event = worker[j].event
  BY <1>0, <1>3 DEF Stage, TypeOK, Pass
<1>5. ASSUME NEW s \in CycleStates
      PROVE  [cycle EXCEPT ![WakeOf(k)].state = s] \in [Wakes -> CycleRow]
  BY <1>3, MovedCycle DEF TypeOK
<1>6. CASE Begin(k)
  <2>1. Replayed(k) \in Stages
    BY DEF Replayed, Stages
  <2>2. PICK s \in Stages : Stage(k, s)
    BY <2>1, <1>6 DEF Begin, Stages
  <2>3. cycle' \in [Wakes -> CycleRow]
    BY <1>5, <1>6 DEF Begin, CycleStates
  <2>4. TypeOK' /\ Quiet /\ KeepsUnknown(event')
    BY <1>0, <1>2, <1>3, <1>4, <1>6, <2>2, <2>3 DEF Begin, TypeOK, Quiet, KeepsUnknown
  <2> QED
    BY <2>4
<1>7. CASE ModelReturns(k)
  <2>1. /\ worker' \in [Workers -> Pass]
        /\ \A j \in Workers : worker'[j].stage # "idle" =>
             worker[j].stage # "idle" /\ worker'[j].event = worker[j].event
    <3> DEFINE r == {f \in Events : event[f].wake = WakeOf(k) /\ Owner(f)}
    <3>1. r \in SUBSET Events
      OBVIOUS
    <3>2. worker' = [worker EXCEPT ![k] = [@ EXCEPT !.stage = "drafted", !.read = r]]
      BY <1>7 DEF ModelReturns
    <3> HIDE DEF r
    <3>3. [worker[k] EXCEPT !.stage = "drafted", !.read = r] \in Pass
      BY <3>1, <1>1 DEF Pass, Stages
    <3> QED
      BY <3>2, <3>3, <1>0, <1>3 DEF TypeOK, Pass
  <2>2. TypeOK' /\ Quiet /\ KeepsUnknown(event')
    BY <1>0, <1>2, <1>3, <1>7, <2>1 DEF ModelReturns, TypeOK, Quiet, KeepsUnknown
  <2> QED
    BY <2>2
<1>8. CASE FindsStale(k)
  <2>1. Successors(k) \subseteq Events
    BY DEF Successors, LiveOwnersOn
  <2>2. /\ worker' \in [Workers -> Pass]
        /\ \A j \in Workers : worker'[j].stage # "idle" =>
             worker[j].stage # "idle" /\ worker'[j].event = worker[j].event
    <3>1. CASE Stage(k, "stale")
      BY <3>1, <1>4 DEF Stages
    <3>2. CASE \E f \in Successors(k) :
                 worker' = [worker EXCEPT ![k] = [@ EXCEPT !.stage = "superseded", !.successor = f]]
      <4>1. PICK f \in Events :
              worker' = [worker EXCEPT ![k] = [@ EXCEPT !.stage = "superseded", !.successor = f]]
        BY <2>1, <3>2
      <4>2. [worker[k] EXCEPT !.stage = "superseded", !.successor = f] \in Pass
        BY <1>1 DEF Pass, Stages
      <4> QED
        BY <4>1, <4>2, <1>0, <1>3 DEF TypeOK, Pass
    <3> QED
      BY <3>1, <3>2, <1>8 DEF FindsStale
  <2>3. TypeOK' /\ Quiet /\ KeepsUnknown(event')
    BY <1>0, <1>2, <1>3, <1>8, <2>2 DEF FindsStale, TypeOK, Quiet, KeepsUnknown
  <2> QED
    BY <2>3
<1>9. CASE StopsForOwnerAnswer(k)
  <2>1. PICK s \in Stages : Stage(k, s)
    BY <1>9 DEF StopsForOwnerAnswer, Stages
  <2>2. TypeOK' /\ Quiet /\ KeepsUnknown(event')
    BY <1>0, <1>2, <1>3, <1>4, <1>9, <2>1 DEF StopsForOwnerAnswer, TypeOK, Quiet, KeepsUnknown
  <2> QED
    BY <2>2
<1>10. CASE PublishRefused(k)
  <2>1. PICK s \in Stages : Stage(k, s)
    BY <1>10 DEF PublishRefused, Replayed, Stages
  <2>2. frontier' \in [Events -> FrontierStates]
    BY <1>3, <1>10, ResolvedFrontiers DEF PublishRefused, TypeOK
  <2>3. TypeOK' /\ Quiet /\ KeepsUnknown(event')
    BY <1>0, <1>2, <1>3, <1>4, <1>10, <2>1, <2>2 DEF PublishRefused, TypeOK, Quiet, KeepsUnknown
  <2> QED
    BY <2>3
<1>11. ASSUME NEW said \in {"queued", "silence", "mute"}, Publish(k, said)
       PROVE  TypeOK' /\ Quiet /\ KeepsUnknown(event')
  <2>1. PICK s \in Stages : Stage(k, s)
    BY <1>11 DEF Publish, Stages
  <2>2. cycle' \in [Wakes -> CycleRow]
    BY <1>5, <1>11 DEF Publish, CycleStates
  <2>3. speech' \in [Wakes -> SpeechStates] /\ seen' \in [Wakes -> SUBSET Events]
    BY <1>1, <1>3, <1>11 DEF Publish, TypeOK, SpeechStates, Pass
  <2>4. wake' \in [Wakes -> WakeRow] /\ NoNewLease(event, wake, event, wake')
    <3>1. CASE wake' = wake
      BY <3>1, <1>2, <1>3 DEF TypeOK
    <3>2. CASE /\ wake[WakeOf(k)].state = "authorized"
               /\ wake' = [wake EXCEPT ![WakeOf(k)].state = "consequence_pending"]
      <4>1. wake' \in [Wakes -> WakeRow]
        <5>1. [wake[WakeOf(k)] EXCEPT !.state = "consequence_pending"] \in WakeRow
          BY <1>1, <1>3, TypedWake DEF TypeOK, WakeStates
        <5> QED
          BY <3>2, <5>1, <1>1, <1>3 DEF TypeOK
      <4>2. /\ wake'[WakeOf(k)].state = "consequence_pending"
            /\ wake'[WakeOf(k)].conv = wake[WakeOf(k)].conv
            /\ wake'[WakeOf(k)].holder = wake[WakeOf(k)].holder
            /\ \A w \in Wakes \ {WakeOf(k)} : wake'[w] = wake[w]
        BY <3>2, <1>1, <1>3 DEF TypeOK, WakeRow
      <4>3. \A e \in Events : event[e].state = "reconciling" =>
              event[e].wake \in Wakes /\ event[e].wake # WakeOf(k)
        BY <3>2 DEF IInv, RowsInv, Fenced, Rooted
      <4> QED
        BY <1>2, <3>2, <4>1, <4>2, <4>3 DEF NoNewLease
    <3> QED
      BY <3>1, <3>2, <1>11 DEF Publish
  <2>5. frontier' \in [Events -> FrontierStates]
    BY <1>3, <1>11, ResolvedFrontiers DEF Publish
  <2>6. TypeOK' /\ Quiet /\ KeepsUnknown(event')
    BY <1>0, <1>3, <1>4, <1>11, <2>1, <2>2, <2>3, <2>4, <2>5 DEF Publish, TypeOK, Quiet, KeepsUnknown
  <2> QED
    BY <2>6
<1>12. CASE Fail(k) \/ Abstain(k) \/ Transfer(k)
  <2>1. PICK s \in Stages : Stage(k, s)
    BY <1>12 DEF Fail, Abstain, Transfer, Stages
  <2>2. cycle' \in [Wakes -> CycleRow]
    BY <1>5, <1>12 DEF Fail, Abstain, Transfer, CycleStates
  <2>3. TypeOK' /\ Quiet /\ KeepsUnknown(event')
    BY <1>0, <1>2, <1>3, <1>4, <1>12, <2>1, <2>2 DEF Fail, Abstain, Transfer, TypeOK, Quiet, KeepsUnknown
  <2> QED
    BY <2>3
<1>13. CASE Throw(k) \/ Defer(k)
  <2>1. TypeOK' /\ Quiet /\ KeepsUnknown(event')
    BY <1>0, <1>2, <1>3, <1>4, <1>13 DEF Throw, Defer, Stages, TypeOK, Quiet, KeepsUnknown
  <2> QED
    BY <2>1
<1>14. CASE HoldCeiling(k)
  <2> DEFINE L == Lapsed \cup {worker[k].event}
  <2>1. L \in SUBSET Events /\ \A e \in L : event[e].state = "leased"
    BY <1>1, <1>14 DEF HoldCeiling, Held, Lapsed
  <2>2. /\ NoNewLease(event, wake, EventsRecovered(L), WakesRecovered(L))
        /\ KeepsUnknown(EventsRecovered(L))
    BY <2>1, <1>3, RecoveryLeasesNothing DEF IInv
  <2>3. EventsRecovered(L) \in [Events -> EventRow] /\ WakesRecovered(L) \in [Wakes -> WakeRow]
    BY <1>3, RecoveryTyped
  <2>4. event' = EventsRecovered(L) /\ wake' = WakesRecovered(L)
    BY <1>14 DEF HoldCeiling
  <2> HIDE DEF L
  <2>5. TypeOK' /\ Quiet /\ KeepsUnknown(event')
    BY <1>0, <1>3, <1>14, <2>2, <2>3, <2>4 DEF HoldCeiling, TypeOK, Quiet
  <2> QED
    BY <2>5
<1>15. CASE DispatchEffect(k)
  <2>1. TypeOK' /\ Quiet /\ KeepsUnknown(event')
    BY <1>0, <1>2, <1>3, <1>15 DEF DispatchEffect, TypeOK, Quiet, KeepsUnknown, EffectStates
  <2> QED
    BY <2>1
<1> QED
  BY <1>6, <1>7, <1>8, <1>9, <1>10, <1>11, <1>12, <1>13, <1>14, <1>15 DEF Think

\* The transaction that ends the attempt on a row e, or resolves its unknown outcome,
\* changes rows of its wake only, opens none of them again, and moves that wake.
EndedEvents(ev2, wk2, e) ==
  \A f \in Events :
    /\ ev2[f].wake = event[f].wake /\ ev2[f].attempts = event[f].attempts
    /\ \/ ev2[f] = event[f] /\ (f = e => event[e].state = "leased")
       \/ /\ event[f].wake = event[e].wake /\ event[f].state \in Durable
          /\ ev2[f].state \in {"pending", "retry_wait", "terminal", "quarantined"}
       \/ /\ f = e /\ ev2[f].state = "reconciling"
          /\ wk2[event[e].wake].state \in {"reconciling", "terminal"}

EndedWake(wk2, e) ==
  /\ \A v \in Wakes : v # event[e].wake => wk2[v] = wake[v]
  /\ wk2[event[e].wake].conv = wake[event[e].wake].conv
  /\ wk2[event[e].wake].state \in {"pending", "reconciling", "terminal"}
  /\ wake[event[e].wake].state = "terminal" => wk2[event[e].wake] = wake[event[e].wake]

\* It leases nothing, and leaves the unknown outcomes of other wakes alone.
LEMMA EndedRows ==
  ASSUME IInv, NEW e \in Events, event[e].state \in {"leased", "reconciling"},
         NEW ev2, NEW wk2, EndedEvents(ev2, wk2, e), EndedWake(wk2, e)
  PROVE  /\ NoNewLease(event, wake, ev2, wk2)
         /\ \A f \in Events : f # e /\ event[f].state = "reconciling" => ev2[f] = event[f]
<1>1. /\ event[e].wake \in Wakes /\ wake[event[e].wake].state # "absent"
      /\ \A f \in Events : event[f].wake = event[e].wake => event[f].state # "absent"
      /\ \A f \in Events : event[f].state # "absent" => event[f].wake \in Wakes
  BY DEF IInv, RowsInv, Rooted, AbsentEvent, NoWake, Wakes
<1>2. \A f \in Events : /\ event[f].state \in {"leased", "reconciling"}
                        /\ event[f].wake = event[e].wake
                        => f = e
  BY DEF IInv, RowsInv, OneInvolved
<1>3. \A f \in Events : event[f].state = "reconciling" =>
        wake[event[f].wake].state \in {"reconciling", "terminal"}
  BY DEF IInv, RowsInv, Fenced
<1>4. \A f \in Events : f # e /\ event[f].state = "reconciling" =>
        ev2[f] = event[f] /\ event[f].wake # event[e].wake
  BY <1>2 DEF Durable, EndedEvents
<1>5. ASSUME NEW f \in Events
      PROVE  /\ event[f].state \in {"absent", "terminal", "quarantined"} => ev2[f] = event[f]
             /\ ev2[f].state = "absent" => event[f].state = "absent"
             /\ ev2[f].state = "leased" => event[f].state = "leased"
             /\ ev2[f].state = "reconciling" =>
                  /\ event[f].state \in {"leased", "reconciling"}
                  /\ wk2[event[f].wake].state \in {"reconciling", "terminal"}
  <2>1. CASE ev2[f] = event[f] /\ (f = e => event[e].state = "leased")
    <3>1. ev2[f].state = "reconciling" => wk2[event[f].wake].state \in {"reconciling", "terminal"}
      BY <2>1, <1>1, <1>3, <1>4 DEF EndedWake
    <3> QED
      BY <2>1, <3>1
  <2>2. CASE /\ event[f].wake = event[e].wake /\ event[f].state \in Durable
             /\ ev2[f].state \in {"pending", "retry_wait", "terminal", "quarantined"}
    BY <2>2 DEF Durable
  <2>3. CASE /\ f = e /\ ev2[f].state = "reconciling"
             /\ wk2[event[e].wake].state \in {"reconciling", "terminal"}
    BY <2>3
  <2> QED
    BY <2>1, <2>2, <2>3 DEF EndedEvents
<1>6. ASSUME NEW v \in Wakes
      PROVE  /\ wk2[v].conv = wake[v].conv
             /\ wk2[v].state = "absent" => wake[v].state = "absent"
             /\ wake[v].state = "terminal" => wk2[v] = wake[v]
             /\ wk2[v].state \in {"authorized", "consequence_pending"} =>
                  v # event[e].wake /\ wk2[v] = wake[v]
  BY <1>1 DEF EndedWake
<1>7. \A f \in Events : event[f].wake # event[e].wake => ev2[f] = event[f]
  BY DEF EndedEvents
<1>8. \A f \in Events : ev2[f].wake = event[f].wake /\ ev2[f].attempts = event[f].attempts
  BY DEF EndedEvents
<1> QED
  BY <1>4, <1>5, <1>6, <1>7, <1>8 DEF NoNewLease

\* Closing a row keeps its type, its wake and its attempts.
LEMMA ClosedRow ==
  ASSUME NEW row \in EventRow, NEW st \in EventStates, NEW reason \in EventReasons
  PROVE  /\ Closed(row, st, reason) \in EventRow /\ Closed(row, st, reason).state = st
         /\ Closed(row, st, reason).wake = row.wake
         /\ Closed(row, st, reason).attempts = row.attempts
<1>1. Closed(row, st, reason) \in EventRow
  BY Zenon DEF Closed, EventRow
<1>2. /\ Closed(row, st, reason).state = st /\ Closed(row, st, reason).wake = row.wake
      /\ Closed(row, st, reason).attempts = row.attempts
  BY Zenon DEF Closed, EventRow
<1> QED
  BY <1>1, <1>2

\* finishWakeForEvent moves the wake of the event and no other.
LEMMA FinishedWake ==
  ASSUME TypeOK, NEW e, event[e].wake \in Wakes, NEW ev, NEW reason \in WakeReasons
  PROVE  /\ WakeFinished(ev, e, reason) \in [Wakes -> WakeRow]
         /\ EndedWake(WakeFinished(ev, e, reason), e)
<1>1. wake[event[e].wake] \in WakeRow
  BY DEF TypeOK
<1> QED
  BY <1>1, MovedWake DEF TypeOK, WakeFinished, EndedWake

\* Retiring a cycle keeps every cycle typed.
LEMMA RetiredCycle ==
  ASSUME TypeOK, NEW wk, NEW w
  PROVE  RetireOwnerless(cycle, wk, w) \in [Wakes -> CycleRow]
BY MovedCycle DEF RetireOwnerless, TypeOK, CycleStates

\* A settlement ends the attempt its pass holds, or changes no row at all.
LEMMA SettleStep ==
  ASSUME IInv, NEW k \in Workers, Settle(k)
  PROVE  TypeOK' /\ Quiet /\ KeepsUnknown(event')
<1> DEFINE e == worker[k].event
<1>1. /\ worker[k].stage # "idle" /\ phase = "running" /\ phase' = phase
      /\ worker' = [worker EXCEPT ![k] = IdleWorker]
      /\ UNCHANGED <<speech, effect, seen, served, turn>>
  BY DEF Settle, SettleLost, SettleCompleted, SettleDeferred, SettleRetry, SettleTerminal, SettleSuperseded,
         SettleUnknown, Settling, Freed
<1>2. /\ e \in Events /\ event[e].wake = WakeOf(k) /\ WakeOf(k) \in Wakes
  BY <1>1, PassRows DEF WakeOf
<1>3. TypeOK
  BY DEF IInv
<1>4. /\ worker' \in [Workers -> Pass]
      /\ \A j \in Workers : worker'[j].stage # "idle" =>
           worker[j].stage # "idle" /\ worker'[j].event = worker[j].event
  <2>1. IdleWorker \in Pass /\ IdleWorker.stage = "idle"
    BY ConstantsAssumption DEF IdleWorker, Pass, Stages
  <2> QED
    BY <2>1, <1>1, <1>3 DEF TypeOK
<1>5. \A f \in Events, st \in EventStates, reason \in EventReasons :
        /\ Closed(event[f], st, reason) \in EventRow /\ Closed(event[f], st, reason).state = st
        /\ Closed(event[f], st, reason).wake = event[f].wake
        /\ Closed(event[f], st, reason).attempts = event[f].attempts
  BY <1>3, ClosedRow DEF TypeOK
<1> HIDE DEF e
<1>6. SUFFICES /\ event' \in [Events -> EventRow] /\ wake' \in [Wakes -> WakeRow]
               /\ cycle' \in [Wakes -> CycleRow] /\ NoNewLease(event, wake, event', wake')
               /\ KeepsUnknown(event')
  <2>1. frontier' \in [Events -> FrontierStates]
    BY <1>3 DEF Settle, SettleLost, SettleCompleted, SettleDeferred, SettleRetry, SettleTerminal,
                SettleSuperseded, SettleUnknown, TypeOK, FrontierStates
  <2>2. TypeOK' /\ Quiet /\ KeepsUnknown(event')
    BY <1>1, <1>3, <1>4, <1>6, <2>1 DEF TypeOK, Quiet
  <2> QED
    BY <2>2
<1>7. CASE SettleLost(k)
  BY <1>3, <1>7, Unmoved DEF SettleLost, TypeOK, KeepsUnknown
<1>8. CASE SettleCompleted(k)
  <2> DEFINE ev == EventsCompleted(k)
  <2>1. /\ event' = ev /\ wake' = WakeFinished(ev, e, "completed") /\ cycle' = cycle
        /\ event[e].state = "leased"
    BY <1>8 DEF SettleCompleted, Held, e
  <2>2. \A f \in Events :
          /\ ev[f] \in EventRow
          /\ ev[f].wake = event[f].wake /\ ev[f].attempts = event[f].attempts
          /\ \/ ev[f] = event[f] /\ f # e
             \/ /\ ev[f].state = "terminal" /\ event[f].wake = event[e].wake
                /\ event[f].state \in Durable
    BY <2>1, <1>2, <1>3, <1>5
       DEF EventsCompleted, EventStates, EventReasons, TypeOK, Durable, Claimable, e
  <2>3. ev \in [Events -> EventRow]
    BY <2>2 DEF EventsCompleted
  <2> HIDE DEF ev
  <2>4. wake' \in [Wakes -> WakeRow] /\ EndedWake(wake', e)
    BY <2>1, <1>2, <1>3, FinishedWake DEF WakeReasons
  <2>5. EndedEvents(event', wake', e)
    BY <2>1, <2>2 DEF EndedEvents, Durable
  <2>6. /\ NoNewLease(event, wake, event', wake')
        /\ \A f \in Events : f # e /\ event[f].state = "reconciling" => event'[f] = event[f]
    BY <2>1, <2>4, <2>5, <1>2, EndedRows
  <2> QED
    BY <2>1, <2>3, <2>4, <2>6, <1>3 DEF TypeOK, KeepsUnknown
<1>9. CASE SettleRetry(k)
  <2>1. /\ event' = [event EXCEPT ![e] = [@ EXCEPT !.state = "retry_wait", !.elapsed = FALSE]]
        /\ wake' = [wake EXCEPT ![WakeOf(k)] = ToPending(@)] /\ cycle' = cycle
        /\ event[e].state = "leased"
    BY <1>9 DEF SettleRetry, Held, e
  <2>2. /\ [event[e] EXCEPT !.state = "retry_wait", !.elapsed = FALSE] \in EventRow
        /\ [event[e] EXCEPT !.state = "retry_wait", !.elapsed = FALSE].wake = event[e].wake
        /\ [event[e] EXCEPT !.state = "retry_wait", !.elapsed = FALSE].attempts = event[e].attempts
        /\ [event[e] EXCEPT !.state = "retry_wait", !.elapsed = FALSE].state = "retry_wait"
    BY <1>2, <1>3, MovedEvent DEF TypeOK, EventStates
  <2>3. wake' \in [Wakes -> WakeRow] /\ wake'[WakeOf(k)] = ToPending(wake[WakeOf(k)])
    BY <2>1, <1>2, <1>3, MovedWake DEF TypeOK, WakeReasons
  <2>4. /\ EndedWake(wake', e)
    BY <2>1, <2>3, <1>2, <1>3, MovedWake DEF TypeOK, WakeReasons, EndedWake
  <2>5. EndedEvents(event', wake', e)
    BY <2>1, <2>2, <2>4, <1>2, <1>3 DEF TypeOK, EndedEvents, Durable
  <2>6. /\ NoNewLease(event, wake, event', wake')
        /\ \A f \in Events : f # e /\ event[f].state = "reconciling" => event'[f] = event[f]
    BY <2>1, <2>4, <2>5, <1>2, EndedRows
  <2> QED
    BY <2>1, <2>2, <2>3, <2>6, <1>2, <1>3 DEF TypeOK, KeepsUnknown
<1>10. CASE SettleTerminal(k)
  <2>1. PICK ev \in {EventsExhausted(k), EventsStale(k)}, reason \in {"quarantined", "no_action"} :
          /\ event' = ev /\ wake' = WakeFinished(ev, e, reason)
          /\ cycle' = RetireOwnerless(cycle, WakeFinished(ev, e, reason), WakeOf(k))
          /\ event[e].state = "leased"
    BY <1>10 DEF SettleTerminal, Held, e
  <2>2. \A f \in Events :
          /\ ev[f] \in EventRow
          /\ ev[f].wake = event[f].wake /\ ev[f].attempts = event[f].attempts
          /\ \/ ev[f] = event[f] /\ f # e
             \/ ev[f].state \in {"terminal", "quarantined"} /\ f = e
    BY <1>2, <1>3, <1>5 DEF EventsExhausted, EventsStale, EventStates, EventReasons, TypeOK, e
  <2>3. ev \in [Events -> EventRow]
    BY <2>2, <1>3 DEF EventsExhausted, EventsStale, TypeOK
  <2>4. wake' \in [Wakes -> WakeRow] /\ EndedWake(wake', e)
    BY <2>1, <1>2, <1>3, FinishedWake DEF WakeReasons
  <2>5. EndedEvents(event', wake', e)
    BY <2>1, <2>2 DEF EndedEvents, Durable
  <2>6. /\ NoNewLease(event, wake, event', wake')
        /\ \A f \in Events : f # e /\ event[f].state = "reconciling" => event'[f] = event[f]
    BY <2>1, <2>4, <2>5, <1>2, EndedRows
  <2> QED
    BY <2>1, <2>3, <2>4, <2>6, <1>3, RetiredCycle DEF KeepsUnknown
<1>11. CASE SettleSuperseded(k)
  <2> DEFINE ev == EventsSuperseded(k)
  <2>1. /\ event' = ev /\ wake' = WakeFinished(ev, e, "superseded")
        /\ cycle' = RetireOwnerless(cycle, WakeFinished(ev, e, "superseded"), WakeOf(k))
        /\ event[e].state = "leased" /\ SupersessionValid(k)
    BY <1>11 DEF SettleSuperseded, Held, e
  <2>2. \A f \in Events :
          /\ ev[f] \in EventRow
          /\ ev[f].wake = event[f].wake /\ ev[f].attempts = event[f].attempts
          /\ \/ ev[f] = event[f]
             \/ /\ ev[f].state = "terminal" /\ event[f].wake = event[e].wake
                /\ event[f].state \in Durable
    BY <2>1, <1>2, <1>3, <1>5
       DEF EventsSuperseded, SupersessionValid, EventStates, EventReasons, TypeOK, Durable,
           Claimable, e
  <2>3. ev \in [Events -> EventRow]
    BY <2>2 DEF EventsSuperseded
  <2> HIDE DEF ev
  <2>4. wake' \in [Wakes -> WakeRow] /\ EndedWake(wake', e)
    BY <2>1, <1>2, <1>3, FinishedWake DEF WakeReasons
  <2>5. EndedEvents(event', wake', e)
    BY <2>1, <2>2 DEF EndedEvents, Durable
  <2>6. /\ NoNewLease(event, wake, event', wake')
        /\ \A f \in Events : f # e /\ event[f].state = "reconciling" => event'[f] = event[f]
    BY <2>1, <2>4, <2>5, <1>2, EndedRows
  <2> QED
    BY <2>1, <2>3, <2>4, <2>6, <1>3, RetiredCycle DEF KeepsUnknown
<1>12. CASE SettleUnknown(k)
  <2>1. /\ event' = [event EXCEPT ![e] = [@ EXCEPT !.state = "reconciling", !.elapsed = FALSE]]
        /\ wake' = [wake EXCEPT ![WakeOf(k)] = ToReconciling(@)] /\ cycle' = cycle
        /\ event[e].state = "leased"
    BY <1>12 DEF SettleUnknown, Held, e
  <2>2. /\ [event[e] EXCEPT !.state = "reconciling", !.elapsed = FALSE] \in EventRow
        /\ [event[e] EXCEPT !.state = "reconciling", !.elapsed = FALSE].wake = event[e].wake
        /\ [event[e] EXCEPT !.state = "reconciling", !.elapsed = FALSE].attempts = event[e].attempts
        /\ [event[e] EXCEPT !.state = "reconciling", !.elapsed = FALSE].state = "reconciling"
    BY <1>2, <1>3, MovedEvent DEF TypeOK, EventStates
  <2>3. wake' \in [Wakes -> WakeRow] /\ wake'[WakeOf(k)] = ToReconciling(wake[WakeOf(k)])
    BY <2>1, <1>2, <1>3, MovedWake DEF TypeOK, WakeReasons
  <2>4. /\ EndedWake(wake', e)
        /\ wake'[event[e].wake].state \in {"reconciling", "terminal"}
    BY <2>1, <2>3, <1>2, <1>3, MovedWake DEF TypeOK, WakeReasons, EndedWake
  <2>5. EndedEvents(event', wake', e)
    BY <2>1, <2>2, <2>4, <1>2, <1>3 DEF TypeOK, EndedEvents, Durable
  <2>6. /\ NoNewLease(event, wake, event', wake')
        /\ \A f \in Events : f # e /\ event[f].state = "reconciling" => event'[f] = event[f]
    BY <2>1, <2>4, <2>5, <1>2, EndedRows
  <2> QED
    BY <2>1, <2>2, <2>3, <2>6, <1>2, <1>3 DEF TypeOK, KeepsUnknown
<1>13. CASE SettleDeferred(k)
  <2>1. /\ event' = [event EXCEPT ![e] = Closed(@, "terminal", "deferred")]
        /\ wake' = [wake EXCEPT ![WakeOf(k)] = ToPending(@)]
        /\ cycle' = [cycle EXCEPT ![WakeOf(k)].state = "waiting"]
        /\ event[e].state = "leased"
    BY <1>13 DEF SettleDeferred, Held, e
  <2>2. /\ Closed(event[e], "terminal", "deferred") \in EventRow
        /\ Closed(event[e], "terminal", "deferred").wake = event[e].wake
        /\ Closed(event[e], "terminal", "deferred").attempts = event[e].attempts
        /\ Closed(event[e], "terminal", "deferred").state = "terminal"
    BY <1>2, <1>5 DEF EventStates, EventReasons
  <2>3. wake' \in [Wakes -> WakeRow] /\ wake'[WakeOf(k)] = ToPending(wake[WakeOf(k)])
    BY <2>1, <1>2, <1>3, MovedWake DEF TypeOK, WakeReasons
  <2>4. EndedWake(wake', e)
    BY <2>1, <2>3, <1>2, <1>3, MovedWake DEF TypeOK, WakeReasons, EndedWake
  <2>5. EndedEvents(event', wake', e)
    BY <2>1, <2>2, <2>4, <1>2, <1>3 DEF TypeOK, EndedEvents, Durable
  <2>6. /\ NoNewLease(event, wake, event', wake')
        /\ \A f \in Events : f # e /\ event[f].state = "reconciling" => event'[f] = event[f]
    BY <2>1, <2>4, <2>5, <1>2, EndedRows
  <2>7. cycle' \in [Wakes -> CycleRow]
    BY <2>1, <1>3, MovedCycle DEF TypeOK, CycleStates
  <2> QED
    BY <2>1, <2>2, <2>3, <2>6, <2>7, <1>2, <1>3 DEF TypeOK, KeepsUnknown
<1> QED
  BY <1>6, <1>7, <1>8, <1>9, <1>10, <1>11, <1>12, <1>13 DEF Settle
--------------------------------------------------------------------------------
(* Claims.                                                                  *)

\* A claim is normalisation, which leases nothing, and then one lease more.
LEMMA ClaimStep ==
  ASSUME IInv, NEW k \in Workers, NEW e \in Events, Claim(k, e), phase' = "running",
         EventsNormalized[e].state = "pending",
         WakesNormalized[event[e].wake].state = "pending",
         ~LeaseTaken(Conv(e)), Conv(e) \in Conversations
  PROVE  IInv' /\ Takes(e)
<1> DEFINE w == event[e].wake
           n == event[e].attempts + 1
           ev == EventsNormalized
           wk == WakesNormalized
<1>1. TypeOK /\ RowsInv(event, wake)
  BY DEF IInv
<1>2. /\ ev \in [Events -> EventRow] /\ wk \in [Wakes -> WakeRow]
      /\ CyclesNormalized \in [Wakes -> CycleRow]
  BY <1>1, NormalizationTyped
<1>3. NoNewLease(event, wake, ev, wk) /\ KeepsUnknown(ev)
  BY <1>1, NormalizationLeasesNothing
<1>4. RowsInv(ev, wk)
  BY <1>1, <1>3, NoNewLeaseKeepsRows
<1>5. n \in 0..MaxAttempts
  <2>1. e \notin Bounded
    <3>1. SUFFICES ASSUME e \in Bounded PROVE FALSE
      OBVIOUS
    <3>2. EventsNormalized[e] = [EventsPromoted[e] EXCEPT !.state = "quarantined", !.elapsed = FALSE, !.aged = FALSE,
                                   !.reason = IF event[e].attempts >= MaxAttempts
                                              THEN "attempts_exhausted" ELSE "age_exhausted"]
      BY <3>1 DEF EventsNormalized
    <3> DEFINE r == IF event[e].attempts >= MaxAttempts THEN "attempts_exhausted" ELSE "age_exhausted"
               row == EventsPromoted[e]
    <3> HIDE DEF r, row
    <3>3. EventsNormalized[e] = [row EXCEPT !.state = "quarantined", !.elapsed = FALSE, !.aged = FALSE, !.reason = r]
      BY <3>2 DEF r, row
    <3>4. EventsNormalized[e] \in EventRow
      BY <1>2
    <3> QED
      BY <3>3, <3>4 DEF EventRow
  <2>2. EventsPromoted[e].state \in Claimable
    BY <2>1 DEF EventsNormalized, Claimable
  <2>3. ~(event[e].attempts >= MaxAttempts)
    BY <2>1, <2>2 DEF Bounded
  <2>4. event[e].attempts \in 0..MaxAttempts
    BY <1>1 DEF TypeOK, EventRow
  <2> QED
    BY <2>3, <2>4, ConstantsAssumption
<1>6. w \in Wakes /\ ev[e].wake = w /\ event[e].state # "absent" /\ wk[w] \in WakeRow
  BY <1>1, <1>2, <1>3 DEF NoNewLease, RowsInv, Rooted, AbsentEvent
<1>7. /\ event' = [ev EXCEPT ![e].state = "leased", ![e].attempts = n, ![e].elapsed = FALSE]
      /\ wake' = [wk EXCEPT ![ev[e].wake].state = "authorized", ![ev[e].wake].holder = <<e, n>>]
      /\ cycle' = CyclesNormalized /\ served' = Serving(Conv(e))
      /\ UNCHANGED <<speech, effect, seen, frontier, turn>>
  BY <1>6 DEF Claim
<1>8. worker' \in [Workers -> Pass] /\ worker'[k].event = e
      /\ \A j \in Workers \ {k} : worker'[j] = worker[j]
  <2>1. PICK C \in SUBSET Events :
          worker' = [worker EXCEPT ![k] = [stage |-> "claimed", event |-> e, ordinal |-> n,
                       covered |-> C, read |-> {}, successor |-> NoEvent]]
    BY DEF Claim, WaitingOwners
  <2>2. [stage |-> "claimed", event |-> e, ordinal |-> n,
         covered |-> C, read |-> {}, successor |-> NoEvent] \in Pass
    BY <1>5 DEF Pass, Stages
  <2> HIDE DEF n
  <2> QED
    BY <2>1, <2>2, <1>1 DEF TypeOK
<1>9. \A f \in Events : ev[f].state = "leased" => wk[ev[f].wake].conv # wk[ev[e].wake].conv
  <2> SUFFICES ASSUME NEW f \in Events, ev[f].state = "leased"
               PROVE  wk[ev[f].wake].conv # wk[ev[e].wake].conv
    OBVIOUS
  <2>1. Conv(f) # Conv(e)
    BY DEF LeaseTaken
  <2>2. ev[f].wake = event[f].wake /\ event[f].wake \in Wakes
    BY <1>1, <1>3 DEF NoNewLease, RowsInv, Rooted
  <2> QED
    BY <2>1, <2>2, <1>3, <1>6 DEF NoNewLease, Conv
<1> HIDE DEF n, ev, wk, w
<1>10. RowsInv(event', wake')
  BY <1>2, <1>4, <1>6, <1>7, <1>9, ClaimKeepsRows DEF ev, wk, w
<1>11. event' \in [Events -> EventRow]
  <2>1. [ev[e] EXCEPT !.state = "leased", !.attempts = n, !.elapsed = FALSE] \in EventRow
    BY <1>2, <1>5, HandledEvent DEF EventStates, EventReasons
  <2>2. event' = [ev EXCEPT ![e] = [@ EXCEPT !.state = "leased", !.attempts = n, !.elapsed = FALSE]]
    BY <1>7
  <2> QED
    BY <2>1, <2>2, <1>2
<1>12. wake' \in [Wakes -> WakeRow]
  <2>1. <<e, n>> \in (Events \cup {NoEvent}) \X (0..MaxAttempts)
    BY <1>5
  <2>2. [wk[w] EXCEPT !.state = "authorized", !.holder = <<e, n>>] \in WakeRow
    BY <2>1, <1>6 DEF WakeRow, WakeStates
  <2>3. wake' = [wk EXCEPT ![w] = [@ EXCEPT !.state = "authorized", !.holder = <<e, n>>]]
    BY <1>6, <1>7
  <2> QED
    BY <2>2, <2>3, <1>2
<1>13. served' \subseteq Conversations \X Conversations
  BY <1>1, <1>7 DEF Serving, TypeOK
<1>14. TypeOK'
  BY <1>1, <1>2, <1>7, <1>8, <1>11, <1>12, <1>13 DEF TypeOK, Phases
<1>15. \A f \in Events : event[f].state # "absent" <=> event'[f].state # "absent"
  <2>1. \A f \in Events : f # e => event'[f] = ev[f]
    BY <1>2, <1>7
  <2>2. event'[e].state = "leased"
    BY <1>7, <1>2
  <2> QED
    BY <2>1, <2>2, <1>3, <1>6 DEF NoNewLease
<1>16. InOrder' /\ PassHasEvent' /\ OwnTimeIsFresh'
  BY <1>6, <1>8, <1>15 DEF IInv, InOrder, PassHasEvent, OwnTimeIsFresh
<1>17. Takes(e)
  <2>1. \A f \in Events : ev[f].state = "leased" => Conv(f) # Conv(e)
    BY DEF LeaseTaken, ev
  <2>2. \A f \in Events : ev[f].state = "reconciling" => event[f].wake # event[e].wake
    BY <1>3, <1>4, <1>6 DEF RowsInv, Fenced, NoNewLease, wk, w
  <2>3. /\ event'[e].state = "leased" /\ event'[e].wake = event[e].wake
        /\ \A f \in Events : f # e => event'[f] = ev[f]
    BY <1>2, <1>6, <1>7 DEF EventRow, w
  <2>4. /\ \A v \in Wakes : v # w => wake'[v] = wk[v]
        /\ wake'[w].conv = wk[w].conv /\ wake[w].state # "terminal"
    BY <1>2, <1>3, <1>6, <1>7 DEF WakeRow, NoNewLease, wk, w
  <2>5. \A v \in Wakes : /\ wake'[v].conv = wake[v].conv
                         /\ wake[v].state = "terminal" =>
                              wake'[v].state = "terminal" /\ wake'[v].reason = wake[v].reason
    BY <1>3, <1>6, <2>4 DEF NoNewLease
  <2> QED
    BY <1>2, <1>3, <2>1, <2>2, <2>3, <2>5 DEF Takes, ev, wk
<1> QED
  BY <1>10, <1>14, <1>16, <1>17 DEF IInv

\* Consumers are workers, and the idle path is one.
LEMMA WorkersKnown == Consumers \subseteq Workers /\ IdlePath \in Workers
BY DEF Workers

\* A process that stops keeps its rows and loses its passes.
LEMMA StopStep ==
  ASSUME IInv, Stops
  PROVE  TypeOK' /\ Quiet /\ KeepsUnknown(event')
<1>1. IdleWorker \in Pass /\ IdleWorker.stage = "idle"
  BY ConstantsAssumption DEF IdleWorker, Pass, Stages
<1>2. IdleTurn \in Turn
  BY DEF IdleTurn, Turn
<1>3. TypeOK' /\ Quiet /\ KeepsUnknown(event')
  BY <1>1, <1>2, Unmoved DEF IInv, Stops, TypeOK, Phases, Quiet, KeepsUnknown
<1> QED
  BY <1>3

\* A poll normalises the rows, and claims the fair head or nothing.
LEMMA PollStep ==
  ASSUME IInv, NEW k \in Consumers, Poll(k)
  PROVE  IInv' /\ (Sweeps \/ \E e \in Events : Takes(e))
<1>1. CASE PollFindsNothing(k)
  <2>1. TypeOK' /\ Quiet /\ KeepsUnknown(event')
    BY <1>1, NormalizationTyped, NormalizationLeasesNothing
       DEF IInv, PollFindsNothing, TypeOK, Quiet
  <2> QED
    BY <2>1, QuietStep
<1>2. CASE PollThrows(k)
  BY <1>2, StopStep, QuietStep DEF PollThrows
<1>3. ASSUME NEW e \in Events, PollClaims(k, e)
      PROVE  IInv' /\ Takes(e)
  <2>1. /\ EventsNormalized[e].state = "pending" /\ Conv(e) \in Serves[k] /\ ~LeaseTaken(Conv(e))
        /\ WakesNormalized[event[e].wake].state = "pending" /\ Claim(k, e) /\ phase' = "running"
    BY <1>3 DEF PollClaims, IsFairHead, Candidates, ClaimableNow
  <2>2. Conv(e) \in Conversations
    BY <2>1, ConstantsAssumption
  <2> QED
    BY <2>1, <2>2, ClaimStep, WorkersKnown
<1> QED
  BY <1>1, <1>2, <1>3 DEF Poll

\* The idle path claims the own time it has just admitted: normalisation leaves it alone.
LEMMA OwnTimeStep ==
  ASSUME IInv, OwnTime
  PROVE  IInv' /\ (Sweeps \/ \E e \in Events : Takes(e))
<1>1. CASE LeaveOwnTime
  <2>1. TypeOK' /\ Quiet /\ KeepsUnknown(event')
    BY <1>1, Unmoved DEF IInv, LeaveOwnTime, TypeOK, Phases, Quiet, KeepsUnknown
  <2> QED
    BY <2>1, QuietStep
<1>2. ASSUME NEW e \in Events, ClaimOwnTime(e)
      PROVE  IInv' /\ Takes(e)
  <2>0. TypeOK /\ RowsInv(event, wake)
    BY DEF IInv
  <2>1. PICK f \in Events : FreshOwnTime(f)
    BY <1>2 DEF IInv, OwnTimeIsFresh, ClaimOwnTime
  <2>2. e = f
    <3> DEFINE S == {x \in Events : event[x].state # "absent"}
    <3>1. f \in S /\ \A x \in S : f >= x
      BY <2>1, ConstantsAssumption DEF FreshOwnTime, Events
    <3>2. e = CHOOSE x \in S : \A y \in S : x >= y
      BY <1>2 DEF ClaimOwnTime, JustAdmitted, Max
    <3>3. e \in S /\ \A y \in S : e >= y
      BY <3>1, <3>2
    <3> QED
      BY <3>1, <3>3, ConstantsAssumption DEF Events
  <2> DEFINE w == event[e].wake
  <2>3. /\ event[e].state = "pending" /\ event[e].attempts = 0 /\ ~event[e].aged
        /\ wake[w].state = "pending" /\ wake[w].conv \in Conversations
        /\ \A g \in Events : event[g].wake = w => g = e
    BY <2>1, <2>2 DEF FreshOwnTime
  <2>4. w \in Wakes
    BY <2>0, <2>3 DEF RowsInv, Rooted
  <2>5. e \notin Bounded
    BY <2>3, ConstantsAssumption DEF Bounded
  <2>6. EventsNormalized[e] = event[e]
    BY <2>3, <2>5 DEF EventsNormalized, EventsPromoted, EventsRecovered, Lapsed
  <2>7. w \notin ExhaustedWakes
    BY <2>3, <2>5 DEF ExhaustedWakes, Bounded
  <2>8. WakesNormalized[w] = wake[w]
    BY <2>3, <2>4, <2>7 DEF WakesNormalized, WakesRecovered, Lapsed
  <2>9. ~LeaseTaken(Conv(e))
    BY <1>2 DEF ClaimOwnTime, OwnTimeRefused
  <2> QED
    BY <1>2, <2>3, <2>6, <2>8, <2>9, ClaimStep, WorkersKnown DEF ClaimOwnTime, Conv
<1> QED
  BY <1>1, <1>2 DEF OwnTime
--------------------------------------------------------------------------------
(* Delivery, reconciliation and startup.                                    *)

\* Retiring cycles cancels or keeps wakes, and closes or keeps speech.
LEMMA RetiredRows ==
  ASSUME IInv, NEW Z
  PROVE  /\ SpeechRetired(Z) \in [Wakes -> SpeechStates]
         /\ CyclesRetired(Z) \in [Wakes -> CycleRow]
         /\ WakesRetired(Z) \in [Wakes -> WakeRow]
         /\ NoNewLease(event, wake, event, WakesRetired(Z))
<1>1. SpeechRetired(Z) \in [Wakes -> SpeechStates]
  BY DEF IInv, TypeOK, SpeechRetired, SpeechStates
<1>2. CyclesRetired(Z) \in [Wakes -> CycleRow]
  BY DEF IInv, TypeOK, CyclesRetired, CycleRow, CycleStates
<1>3. ASSUME NEW w \in Wakes
      PROVE  /\ WakesRetired(Z)[w] \in WakeRow
             /\ WakesRetired(Z)[w].conv = wake[w].conv
             /\ \/ /\ WakesRetired(Z)[w].state = wake[w].state
                   /\ WakesRetired(Z)[w].holder = wake[w].holder
                \/ WakesRetired(Z)[w].state = "terminal"
             /\ wake[w].state = "terminal" => WakesRetired(Z)[w] = wake[w]
  <2> DEFINE r == [wake[w] EXCEPT !.cancelled = TRUE]
  <2>1. /\ wake[w] \in WakeRow /\ r \in WakeRow /\ r.state = wake[w].state
        /\ r.conv = wake[w].conv /\ r.holder = wake[w].holder
    BY TypedWake DEF IInv, TypeOK
  <2>2. /\ ToTerminal(r, "cancelled") \in WakeRow /\ ToTerminal(r, "cancelled").conv = r.conv
        /\ ToTerminal(r, "cancelled").state = "terminal"
    BY <2>1, MovedWake DEF WakeReasons
  <2>3. /\ WakesRetired(Z)[w] \in {wake[w], r, ToTerminal(r, "cancelled")}
        /\ wake[w].state = "terminal" => WakesRetired(Z)[w] = wake[w]
    BY DEF WakesRetired
  <2> HIDE DEF r
  <2> QED
    BY <2>1, <2>2, <2>3
<1>4. WakesRetired(Z) \in [Wakes -> WakeRow]
  BY <1>3 DEF WakesRetired
<1>5. NoNewLease(event, wake, event, WakesRetired(Z))
  <2>1. \A e \in Events : event[e].state = "reconciling" =>
          event[e].wake \in Wakes /\ wake[event[e].wake].state \in {"reconciling", "terminal"}
    BY DEF IInv, RowsInv, Rooted, Fenced
  <2> QED
    BY <1>3, <2>1 DEF NoNewLease
<1> QED
  BY <1>1, <1>2, <1>4, <1>5

\* Ending wakes, whoever holds them, leases nothing.
LEMMA MovedWakesLeaseNothing ==
  ASSUME IInv, NEW wk2,
         \A v \in Wakes : /\ wk2[v].conv = wake[v].conv
                          /\ wk2[v] = wake[v] \/ wk2[v].state = "terminal"
                          /\ wake[v].state = "terminal" => wk2[v] = wake[v]
  PROVE  NoNewLease(event, wake, event, wk2)
<1>1. \A e \in Events : event[e].state = "reconciling" =>
        event[e].wake \in Wakes /\ wake[event[e].wake].state \in {"reconciling", "terminal"}
  BY DEF IInv, RowsInv, Rooted, Fenced
<1> QED
  BY <1>1 DEF NoNewLease

\* Delivery and the steady-state reconciliation.
LEMMA ReconcileStep ==
  ASSUME IInv, (\E w \in Wakes : Deliver(w)) \/ Reconcile
  PROVE  TypeOK' /\ Quiet /\ (KeepsUnknown(event') \/ \E e \in Events : Resolves(e))
<1>0. TypeOK
  BY DEF IInv
<1>1. ASSUME NEW w \in Wakes, Deliver(w)
      PROVE  TypeOK' /\ Quiet /\ KeepsUnknown(event')
  <2>1. speech' \in [Wakes -> SpeechStates] /\ cycle' \in [Wakes -> CycleRow]
    BY <1>0, <1>1 DEF Deliver, TypeOK, SpeechStates, CycleRow, CycleStates
  <2>2. TypeOK' /\ Quiet /\ KeepsUnknown(event')
    BY <1>0, <1>1, <2>1, Unmoved DEF Deliver, TypeOK, Quiet, KeepsUnknown
  <2> QED
    BY <2>2
<1>2. ASSUME NEW w \in Wakes, RetireOwnerlessCycle(w)
      PROVE  TypeOK' /\ Quiet /\ KeepsUnknown(event')
  <2>1. TypeOK' /\ Quiet /\ KeepsUnknown(event')
    BY <1>0, <1>2, RetiredRows DEF RetireOwnerlessCycle, TypeOK, Quiet, KeepsUnknown
  <2> QED
    BY <2>1
<1>3. ASSUME NEW e \in Events, ReconcileStranded(e)
      PROVE  TypeOK' /\ Quiet /\ Resolves(e)
  <2>1. /\ event[e].state = "reconciling" /\ event[e].wake \in Wakes
        /\ event' = [event EXCEPT ![e] = [@ EXCEPT !.state = "pending"]]
        /\ wake' = [wake EXCEPT ![event[e].wake] = ToPending(@)]
    BY <1>3 DEF ReconcileStranded, IInv, RowsInv, Rooted
  <2>2. /\ [event[e] EXCEPT !.state = "pending"] \in EventRow
        /\ [event[e] EXCEPT !.state = "pending"].wake = event[e].wake
        /\ [event[e] EXCEPT !.state = "pending"].attempts = event[e].attempts
        /\ [event[e] EXCEPT !.state = "pending"].state = "pending"
    BY <1>0 DEF TypeOK, EventRow, EventStates
  <2>3. /\ wake' \in [Wakes -> WakeRow]
        /\ EndedWake(wake', e)
    BY <2>1, <1>0, MovedWake DEF TypeOK, WakeReasons, EndedWake
  <2>4. NoNewLease(event, wake, event', wake')
    <3>1. EndedEvents(event', wake', e)
      BY <2>1, <2>2, <1>0 DEF TypeOK, EndedEvents, Durable
    <3> QED
      BY <2>1, <2>3, <3>1, EndedRows
  <2>5. TypeOK' /\ Quiet
    BY <1>0, <1>3, <2>1, <2>2, <2>3, <2>4 DEF ReconcileStranded, TypeOK, Quiet
  <2>6. Resolves(e)
    BY <1>0, <2>1, <2>2 DEF Resolves, TypeOK
  <2> QED
    BY <2>5, <2>6
<1>4. ASSUME NEW e \in Events, AbandonSpent(e)
      PROVE  TypeOK' /\ Quiet /\ Resolves(e)
  <2> DEFINE wk == [wake EXCEPT ![event[e].wake] = ToTerminal(@, "quarantined")]
  <2>1. /\ event[e].state = "reconciling" /\ event[e].wake \in Wakes
        /\ event' = [event EXCEPT ![e] = Closed(@, "terminal", "permanent_failure")]
        /\ wake' = wk /\ cycle' = RetireOwnerless(cycle, wk, event[e].wake)
    BY <1>4 DEF AbandonSpent, IInv, RowsInv, Rooted
  <2>2. /\ Closed(event[e], "terminal", "permanent_failure") \in EventRow
        /\ Closed(event[e], "terminal", "permanent_failure").wake = event[e].wake
        /\ Closed(event[e], "terminal", "permanent_failure").attempts = event[e].attempts
        /\ Closed(event[e], "terminal", "permanent_failure").state = "terminal"
    BY <1>0, ClosedRow DEF TypeOK, EventStates, EventReasons
  <2>3. /\ wk \in [Wakes -> WakeRow]
        /\ EndedWake(wk, e)
    BY <2>1, <1>0, MovedWake DEF TypeOK, WakeReasons, EndedWake
  <2> HIDE DEF wk
  <2>4. NoNewLease(event, wake, event', wake')
    <3>1. EndedEvents(event', wake', e)
      BY <2>1, <2>2, <1>0 DEF TypeOK, EndedEvents, Durable
    <3> QED
      BY <2>1, <2>3, <3>1, EndedRows
  <2>5. TypeOK' /\ Quiet
    BY <1>0, <1>4, <2>1, <2>2, <2>3, <2>4, RetiredCycle DEF AbandonSpent, TypeOK, Quiet
  <2>6. Resolves(e)
    BY <1>0, <2>1, <2>2 DEF Resolves, TypeOK
  <2> QED
    BY <2>5, <2>6
<1>5. ASSUME NEW e \in Events, RetireStale(e)
      PROVE  TypeOK' /\ Quiet /\ Resolves(e)
  <2>1. /\ event[e].state = "reconciling"
        /\ event' = [event EXCEPT ![e] = Closed(@, "terminal", "stale")]
        /\ UNCHANGED <<wake, cycle, speech, effect, seen, worker, served, frontier, turn, phase>>
        /\ phase = "running"
    BY <1>5 DEF RetireStale
  <2>2. /\ Closed(event[e], "terminal", "stale") \in EventRow
        /\ Closed(event[e], "terminal", "stale").wake = event[e].wake
        /\ Closed(event[e], "terminal", "stale").attempts = event[e].attempts
        /\ Closed(event[e], "terminal", "stale").state = "terminal"
    BY <1>0, ClosedRow DEF TypeOK, EventStates, EventReasons
  <2>3. NoNewLease(event, wake, event', wake')
    BY <1>0, <2>1, <2>2, Unmoved DEF NoNewLease, TypeOK
  <2>4. TypeOK' /\ Quiet
    BY <1>0, <2>1, <2>2, <2>3 DEF TypeOK, Quiet
  <2>5. Resolves(e)
    BY <1>0, <2>1, <2>2 DEF Resolves, TypeOK
  <2> QED
    BY <2>4, <2>5
<1>6. ASSUME NEW w \in Wakes, ConvergeOrphan(w)
      PROVE  TypeOK' /\ Quiet /\ KeepsUnknown(event')
  <2>1. /\ wake' = [wake EXCEPT ![w] = ToTerminal(@, "no_action")]
        /\ UNCHANGED <<event, cycle, speech, effect, seen, worker, served, frontier, turn, phase>>
        /\ phase = "running"
    BY <1>6 DEF ConvergeOrphan
  <2>2. wake' \in [Wakes -> WakeRow] /\ NoNewLease(event, wake, event, wake')
    <3>1. \A v \in Wakes : /\ wake'[v] \in WakeRow /\ wake'[v].conv = wake[v].conv
                           /\ wake'[v] = wake[v] \/ wake'[v].state = "terminal"
                           /\ wake[v].state = "terminal" => wake'[v] = wake[v]
      BY <1>0, <2>1, MovedWake DEF TypeOK, WakeReasons
    <3> QED
      BY <2>1, <3>1, <1>0, MovedWakesLeaseNothing DEF TypeOK
  <2>3. TypeOK' /\ Quiet /\ KeepsUnknown(event')
    BY <1>0, <2>1, <2>2 DEF TypeOK, Quiet, KeepsUnknown
  <2> QED
    BY <2>3
<1> QED
  BY <1>1, <1>2, <1>3, <1>4, <1>5, <1>6 DEF Reconcile

\* The three transactions of the startup sequence.
LEMMA StartupStep ==
  ASSUME IInv, Startup
  PROVE  TypeOK' /\ Quiet /\ KeepsUnknown(event')
<1>0. TypeOK /\ RowsInv(event, wake)
  BY DEF IInv
<1>1. CASE RecoverWakes
  <2>1. ASSUME NEW w \in Wakes
        PROVE  /\ wake'[w] \in WakeRow /\ wake'[w].conv = wake[w].conv
               /\ \/ wake'[w] = wake[w]
                  \/ /\ wake[w].state \in {"authorized", "consequence_pending"}
                     /\ wake'[w].state \in {"pending", "reconciling"}
    <3>1. wake'[w] \in {wake[w], [wake[w] EXCEPT !.state = "reconciling"], ToPending(wake[w])}
      BY <1>1 DEF RecoverWakes
    <3>2. wake'[w] # wake[w] => wake[w].state \in {"authorized", "consequence_pending"}
      BY <1>1 DEF RecoverWakes
    <3>3. wake[w] \in WakeRow
      BY <1>0 DEF TypeOK
    <3>4. /\ [wake[w] EXCEPT !.state = "reconciling"] \in WakeRow
          /\ [wake[w] EXCEPT !.state = "reconciling"].state = "reconciling"
          /\ [wake[w] EXCEPT !.state = "reconciling"].conv = wake[w].conv
      BY <3>3, TypedWake DEF WakeStates
    <3>5. /\ ToPending(wake[w]) \in WakeRow /\ ToPending(wake[w]).conv = wake[w].conv
          /\ wake[w].state # "terminal" => ToPending(wake[w]).state = "pending"
      <4>1. wake[w].state # "terminal" => ToPending(wake[w]).state = "pending"
        BY <3>3 DEF WakeRow, ToPending
      <4> QED
        BY <3>3, <4>1, MovedWake DEF WakeReasons
    <3> QED
      BY <3>1, <3>2, <3>3, <3>4, <3>5
  <2>2. wake' \in [Wakes -> WakeRow]
    BY <1>1, <2>1 DEF RecoverWakes
  <2>3. NoNewLease(event, wake, event, wake')
    <3>1. \A e \in Events : event[e].state = "reconciling" =>
            event[e].wake \in Wakes /\ wake[event[e].wake].state \in {"reconciling", "terminal"}
      BY <1>0 DEF RowsInv, Rooted, Fenced
    <3> QED
      BY <2>1, <3>1 DEF NoNewLease
  <2>4. TypeOK' /\ Quiet /\ KeepsUnknown(event')
    BY <1>0, <1>1, <2>2, <2>3 DEF RecoverWakes, TypeOK, Phases, Quiet, KeepsUnknown
  <2> QED
    BY <2>4
<1>2. CASE RecoverEvents
  <2>1. Lapsed \in SUBSET Events /\ \A e \in Lapsed : event[e].state = "leased"
    BY DEF Lapsed
  <2>2. /\ NoNewLease(event, wake, EventsRecovered(Lapsed), WakesRecovered(Lapsed))
        /\ KeepsUnknown(EventsRecovered(Lapsed))
    BY <1>0, <2>1, RecoveryLeasesNothing
  <2>3. TypeOK' /\ Quiet /\ KeepsUnknown(event')
    BY <1>0, <1>2, <2>2, RecoveryTyped DEF RecoverEvents, TypeOK, Phases, Quiet
  <2> QED
    BY <2>3
<1>3. CASE ReconcileOwnership
  <2>1. \A e \in Events : /\ event'[e] \in EventRow
                          /\ event'[e].wake = event[e].wake /\ event'[e].attempts = event[e].attempts
                          /\ \/ event'[e] = event[e]
                             \/ /\ event'[e].state = "terminal"
                                /\ event[e].state \in Claimable
                                /\ wake'[event[e].wake].state = "terminal"
    BY <1>0, <1>3, ClosedRow
       DEF ReconcileOwnership, LeftBehind, TypeOK, EventStates, EventReasons
  <2>2. event' \in [Events -> EventRow]
    BY <1>3, <2>1 DEF ReconcileOwnership
  <2>3. NoNewLease(event, wake, event', wake')
    <3>1. NoNewLease(event, wake, event, wake')
      BY <1>3, RetiredRows DEF ReconcileOwnership
    <3> QED
      BY <2>1, <3>1 DEF NoNewLease, Claimable
  <2>4. TypeOK' /\ Quiet /\ KeepsUnknown(event')
    BY <1>0, <1>3, <2>1, <2>2, <2>3, RetiredRows
       DEF ReconcileOwnership, TypeOK, Phases, Quiet, KeepsUnknown, Claimable
  <2> QED
    BY <2>4
<1> QED
  BY <1>1, <1>2, <1>3 DEF Startup
--------------------------------------------------------------------------------
(* The deferred frontier.                                                   *)

\* The coordinator runs a turn beside the inbox: it leases nothing, and of the rows it
\* touches at most the wake it lets expire.
LEMMA CoordinateStep ==
  ASSUME IInv, Coordinate
  PROVE  TypeOK' /\ Quiet /\ KeepsUnknown(event')
<1>1. TypeOK
  BY DEF IInv
<1>2. /\ UNCHANGED <<event, worker, served, phase>> /\ phase = "running"
      /\ effect' \in [Wakes -> EffectStates] /\ seen' \in [Wakes -> SUBSET Events]
      /\ speech' \in [Wakes -> SpeechStates]
  <2>1. ASSUME NEW said \in {"queued", "silence", "mute"}, TurnPublishes(said)
        PROVE  /\ UNCHANGED <<event, worker, served, phase>> /\ phase = "running"
               /\ effect' \in [Wakes -> EffectStates] /\ seen' \in [Wakes -> SUBSET Events]
               /\ speech' \in [Wakes -> SpeechStates]
    <3>1. said \in SpeechStates /\ turn.read \in SUBSET Events
      BY <1>1 DEF TypeOK, Turn, SpeechStates
    <3> QED
      BY <2>1, <3>1, <1>1 DEF TurnPublishes, TypeOK
  <2>2. CASE TurnDispatches
    BY <2>2, <1>1 DEF TurnDispatches, TypeOK, EffectStates
  <2>3. CASE \/ \E f \in Events : FrontierExhausts(f) \/ TurnOpens(f)
             \/ TurnReturns \/ TurnReplays \/ TurnFails \/ TurnDefers
    BY <2>3, <1>1 DEF FrontierExhausts, TurnOpens, TurnReturns, TurnReplays, TurnFails, TurnDefers, TypeOK
  <2> QED
    BY <2>1, <2>2, <2>3 DEF Coordinate
<1>3. cycle' \in [Wakes -> CycleRow]
  <2>1. cycle \in [Wakes -> CycleRow] /\ {"open", "sending", "silent"} \subseteq CycleStates
    BY <1>1 DEF TypeOK, CycleStates
  <2>2. ASSUME NEW f \in Events, TurnOpens(f) PROVE cycle' \in [Wakes -> CycleRow]
    BY <2>1, <2>2, MovedCycle DEF TurnOpens
  <2>3. ASSUME NEW said \in {"queued", "silence", "mute"}, TurnPublishes(said)
        PROVE  cycle' \in [Wakes -> CycleRow]
    <3> DEFINE s == IF said = "queued" THEN "sending" ELSE "silent"
    <3>1. s \in CycleStates /\ cycle' = [cycle EXCEPT ![TurnWake].state = s]
      BY <2>1, <2>3 DEF TurnPublishes
    <3> HIDE DEF s
    <3> QED
      BY <2>1, <3>1, MovedCycle
  <2>4. CASE TurnFails \/ TurnDefers
    <3>1. cycle' = cycle \/ cycle' = [cycle EXCEPT ![TurnWake].state = "silent"]
      BY <2>4 DEF TurnFails, TurnDefers
    <3> QED
      BY <2>1, <3>1, MovedCycle
  <2>5. CASE (\E f \in Events : FrontierExhausts(f)) \/ TurnReturns \/ TurnReplays \/ TurnDispatches
    BY <2>1, <2>5 DEF FrontierExhausts, TurnReturns, TurnReplays, TurnDispatches
  <2> QED
    BY <2>2, <2>3, <2>4, <2>5 DEF Coordinate
<1>4. frontier' \in [Events -> FrontierStates]
  <2>1. \/ frontier' = frontier
        \/ \E c : frontier' = FrontiersResolved(c)
        \/ \E f : \E s \in FrontierStates : frontier' = [frontier EXCEPT ![f] = s]
    BY DEF Coordinate, FrontierExhausts, TurnOpens, TurnReturns, TurnPublishes, TurnReplays,
           TurnFails, TurnDefers, TurnDispatches, TurnOver, FrontierStates
  <2> QED
    BY <2>1, <1>1, ResolvedFrontiers DEF TypeOK
<1>5. turn' \in Turn
  <2>1. IdleTurn \in Turn /\ \A f \in Events : [IdleTurn EXCEPT !.stage = "thinking", !.frontier = f] \in Turn
    BY DEF IdleTurn, Turn
  <2>2. \A r \in SUBSET Events : [turn EXCEPT !.stage = "drafted", !.read = r] \in Turn
    BY <1>1 DEF TypeOK, Turn
  <2>3. \/ turn' \in {turn, IdleTurn}
        \/ \E f \in Events : turn' = [IdleTurn EXCEPT !.stage = "thinking", !.frontier = f]
        \/ TurnReturns
    BY DEF Coordinate, FrontierExhausts, TurnOpens, TurnPublishes, TurnReplays,
           TurnFails, TurnDefers, TurnDispatches, TurnOver
  <2>4. {f \in Events : event[f].wake = TurnWake /\ Owner(f)} \in SUBSET Events
    OBVIOUS
  <2> QED
    BY <2>1, <2>2, <2>3, <2>4, <1>1 DEF TypeOK, TurnReturns
<1>6. wake' \in [Wakes -> WakeRow] /\ NoNewLease(event, wake, event, wake')
  <2>1. wake' = wake \/ \E w : wake' = [wake EXCEPT ![w] = Expired(@)]
    BY DEF Coordinate, FrontierExhausts, TurnOpens, TurnReturns, TurnPublishes, TurnReplays,
           TurnFails, TurnDefers, TurnDispatches
  <2>2. \A v \in Wakes : /\ Expired(wake[v]) \in WakeRow /\ Expired(wake[v]).conv = wake[v].conv
                         /\ Expired(wake[v]) = wake[v] \/ Expired(wake[v]).state = "terminal"
                         /\ wake[v].state = "terminal" => Expired(wake[v]) = wake[v]
    BY <1>1, MovedWake DEF TypeOK, Expired, WakeReasons
  <2>3. /\ wake' \in [Wakes -> WakeRow]
        /\ \A v \in Wakes : wake'[v] \in {wake[v], Expired(wake[v])}
    BY <2>1, <2>2, <1>1 DEF TypeOK
  <2> QED
    BY <2>2, <2>3, MovedWakesLeaseNothing
<1>7. TypeOK' /\ Quiet /\ KeepsUnknown(event')
  BY <1>1, <1>2, <1>3, <1>4, <1>5, <1>6 DEF TypeOK, Quiet, KeepsUnknown
<1> QED
  BY <1>7
--------------------------------------------------------------------------------
(* Time, effects and ingress.                                               *)

\* A deadline that passes changes no state, and no row that was just admitted.
LEMMA ClockStep ==
  ASSUME IInv, Clock
  PROVE  IInv' /\ Sweeps
<1>0. TypeOK
  BY DEF IInv
<1>1. PICK e \in Events : DeadlineElapses(e) \/ AgeElapses(e)
  BY DEF Clock
<1>2. /\ event[e].state \in Durable /\ (event[e].state = "pending" => event[e].attempts > 0)
      /\ event' \in [Events -> EventRow]
      /\ event'[e].state = event[e].state /\ event'[e].wake = event[e].wake
      /\ event'[e].attempts = event[e].attempts
      /\ \A f \in Events : f # e => event'[f] = event[f]
      /\ UNCHANGED <<wake, cycle, speech, effect, seen, worker, served, frontier, turn, phase>>
  <2>1. CASE DeadlineElapses(e)
    <3>1. /\ event[e].state \in {"leased", "retry_wait"}
          /\ event' = [event EXCEPT ![e] = [@ EXCEPT !.elapsed = TRUE]]
      BY <2>1 DEF DeadlineElapses
    <3>2. /\ [event[e] EXCEPT !.elapsed = TRUE] \in EventRow
          /\ [event[e] EXCEPT !.elapsed = TRUE].state = event[e].state
          /\ [event[e] EXCEPT !.elapsed = TRUE].wake = event[e].wake
          /\ [event[e] EXCEPT !.elapsed = TRUE].attempts = event[e].attempts
      BY <1>0, WaitedEvent DEF TypeOK
    <3> QED
      BY <1>0, <2>1, <3>1, <3>2 DEF DeadlineElapses, TypeOK, Durable
  <2>2. CASE AgeElapses(e)
    <3>1. /\ event[e].state \in Durable /\ event[e].attempts > 0
          /\ event' = [event EXCEPT ![e] = [@ EXCEPT !.aged = TRUE]]
      BY <2>2, ConstantsAssumption DEF AgeElapses, Durable, Claimable
    <3>2. /\ [event[e] EXCEPT !.aged = TRUE] \in EventRow
          /\ [event[e] EXCEPT !.aged = TRUE].state = event[e].state
          /\ [event[e] EXCEPT !.aged = TRUE].wake = event[e].wake
          /\ [event[e] EXCEPT !.aged = TRUE].attempts = event[e].attempts
      BY <1>0, WaitedEvent DEF TypeOK
    <3> QED
      BY <1>0, <2>2, <3>1, <3>2 DEF AgeElapses, TypeOK, Durable
  <2> QED
    BY <1>1, <2>1, <2>2
<1>3. TypeOK'
  BY <1>0, <1>2 DEF TypeOK
<1>4. NoNewLease(event, wake, event', wake')
  BY <1>2, Unmoved DEF NoNewLease, Durable
<1>5. RowsInv(event, wake)'
  BY <1>4, NoNewLeaseKeepsRows DEF IInv
<1>6. InOrder' /\ PassHasEvent'
  BY <1>2 DEF IInv, InOrder, PassHasEvent
<1>7. OwnTimeIsFresh'
  <2> SUFFICES ASSUME phase' = "claiming"
               PROVE  \E f \in Events : FreshOwnTime(f)'
    BY DEF OwnTimeIsFresh
  <2>1. PICK f \in Events : FreshOwnTime(f)
    BY <1>2 DEF IInv, OwnTimeIsFresh
  <2>2. f # e
    BY <2>1, <1>2 DEF FreshOwnTime
  <2>3. FreshOwnTime(f)'
    BY <2>1, <2>2, <1>2 DEF FreshOwnTime
  <2> QED
    BY <2>3
<1>8. KeepsUnknown(event')
  BY <1>2 DEF KeepsUnknown
<1> QED
  BY <1>3, <1>4, <1>5, <1>6, <1>7, <1>8 DEF IInv, Sweeps

\* The receipt of an effect changes no row.
LEMMA ResolveStep ==
  ASSUME IInv, NEW w \in Wakes, ResolveEffect(w)
  PROVE  IInv' /\ UNCHANGED <<event, wake>>
BY DEF IInv, ResolveEffect, TypeOK, EffectStates, RowsInv, Rooted, Backed, Exclusive, Fenced,
       OneInvolved, InOrder, PassHasEvent, OwnTimeIsFresh, FreshOwnTime

\* An admitted row is the newest, and the passes keep theirs.
LEMMA AdmittedRow ==
  ASSUME IInv, NEW c, NEW e \in Events, NextEvent(e), NEW kind, NEW w \in Wakes,
         Admits(event, wake, event', wake', c, e, kind, w), worker' = worker
  PROVE  /\ RowsInv(event, wake)' /\ InOrder' /\ PassHasEvent'
         /\ \A f \in Events : event'[f].state # "absent" => f <= e
         /\ event'[e] = NewEvent(kind, w)
         /\ \A f \in Events : f # e => event'[f] = event[f]
<1>1. RowsInv(event, wake)'
  BY AdmitKeepsRows DEF IInv, TypeOK
<1>2. /\ event'[e] = NewEvent(kind, w) /\ NewEvent(kind, w).state = "pending"
      /\ \A f \in Events : f # e => event'[f] = event[f]
  BY DEF IInv, TypeOK, Admits, NewEvent, AbsentEvent
<1>3. \A f \in Events : event'[f].state # "absent" => f <= e
  BY <1>2, ConstantsAssumption DEF IInv, InOrder, NextEvent, Events
<1>4. InOrder'
  BY <1>2, <1>3, ConstantsAssumption DEF NextEvent, InOrder, Events
<1>5. PassHasEvent'
  BY <1>2 DEF IInv, PassHasEvent, NextEvent
<1> QED
  BY <1>1, <1>2, <1>3, <1>4, <1>5

\* New rows have their types.
LEMMA NewRows ==
  ASSUME NEW kind \in AllKinds, NEW w \in Wakes, NEW c \in Conversations,
         NEW parent \in Wakes \cup {NoWake}
  PROVE  /\ NewEvent(kind, w) \in EventRow /\ NewCycle(kind, parent) \in CycleRow
         /\ NewWake(c) \in WakeRow /\ NewWake(c).state = "pending" /\ NewWake(c).conv = c
         /\ NewEvent(kind, w).state = "pending" /\ NewEvent(kind, w).attempts = 0
         /\ ~NewEvent(kind, w).aged /\ NewEvent(kind, w).wake = w
<1>1. 0 \in 0..MaxAttempts /\ NoToken \in (Events \cup {NoEvent}) \X (0..MaxAttempts)
  BY ConstantsAssumption DEF NoToken, NoEvent
<1>2. NewEvent(kind, w) \in EventRow
  BY <1>1 DEF NewEvent, AbsentEvent, EventRow, EventStates, EventReasons
<1>3. NewWake(c) \in WakeRow
  BY <1>1 DEF NewWake, AbsentWake, WakeRow, WakeStates, WakeReasons
<1>4. NewCycle(kind, parent) \in CycleRow
  BY DEF NewCycle, CycleRow, CycleStates
<1> QED
  BY <1>2, <1>3, <1>4 DEF NewEvent, AbsentEvent, NewWake, AbsentWake

\* A preempted wake is cancelled, given back or left to reconciliation.
LEMMA PreemptedRow ==
  ASSUME TypeOK, NEW w \in Wakes, wake[w].state # "absent"
  PROVE  /\ PreemptedWake(w) \in WakeRow
         /\ PreemptedWake(w).conv = wake[w].conv /\ PreemptedWake(w).state # "absent"
         /\ wake[w].state = "terminal" => PreemptedWake(w) = wake[w]
         /\ wake[w].state = "reconciling" => PreemptedWake(w).state \in {"reconciling", "terminal"}
         /\ PreemptedWake(w).state \in {"authorized", "consequence_pending"} =>
              /\ wake[w].state \in {"authorized", "consequence_pending"}
              /\ PreemptedWake(w).holder = wake[w].holder
<1> DEFINE r == [wake[w] EXCEPT !.cancelled = TRUE]
<1>1. /\ wake[w] \in WakeRow /\ r \in WakeRow /\ r.state = wake[w].state
      /\ r.conv = wake[w].conv /\ r.holder = wake[w].holder
  BY TypedWake DEF TypeOK
<1>2. wake[w].state \in {"pending", "authorized", "consequence_pending", "reconciling", "terminal"}
  BY <1>1 DEF WakeRow, WakeStates
<1>3. /\ PreemptedWake(w) \in {wake[w], r, ToReconciling(r), ToPending(r), ToTerminal(r, "cancelled")}
      /\ wake[w].state = "terminal" => PreemptedWake(w) = wake[w]
  BY <1>2 DEF PreemptedWake
<1>4. PreemptedWake(w) \in {ToPending(r), ToTerminal(r, "cancelled")}
        => wake[w].state \in {"pending", "authorized"} \/ PreemptedWake(w) \in {wake[w], r, ToReconciling(r)}
  BY <1>2 DEF PreemptedWake
<1> HIDE DEF r
<1>5. /\ ToPending(r) \in WakeRow /\ ToReconciling(r) \in WakeRow
      /\ ToTerminal(r, "cancelled") \in WakeRow
      /\ ToPending(r).conv = r.conv /\ ToPending(r).state \in {"pending", "terminal"}
      /\ ToReconciling(r).conv = r.conv /\ ToReconciling(r).state \in {"reconciling", "terminal"}
      /\ ToTerminal(r, "cancelled").conv = r.conv /\ ToTerminal(r, "cancelled").state = "terminal"
  BY <1>1, MovedWake DEF WakeReasons
<1> QED
  BY <1>1, <1>2, <1>3, <1>4, <1>5

\* An Owner message, a completion or own time is admitted.
LEMMA IngressStep ==
  ASSUME IInv, Ingress
  PROVE  IInv' /\ \E c \in Conversations, e \in Events, w \in Wakes, kind \in AllKinds :
                     Admits(event, wake, event', wake', c, e, kind, w)
<1>0. /\ TypeOK /\ "owner" \in AllKinds /\ "completion" \in AllKinds /\ "own_time" \in AllKinds
      /\ NoWake \in Wakes \cup {NoWake}
  BY DEF IInv, AllKinds
<1>1. PICK c \in Conversations, e \in Events, w \in Wakes :
        \/ OwnerOpens(c, e, w) \/ OwnerComposes(c, e, w)
        \/ \E old \in Wakes : OwnerPreempts(c, e, old, w)
        \/ AdmitCompletion(c, e, w) \/ AdmitOwnTime(c, e, w)
  BY DEF Ingress
<1>2. NextEvent(e) /\ event[e].state = "absent"
  BY <1>1 DEF OwnerOpens, OwnerComposes, OwnerPreempts, AdmitCompletion, AdmitOwnTime, NextEvent
<1>3. ASSUME NEW kind \in AllKinds, event' = [event EXCEPT ![e] = NewEvent(kind, w)]
      PROVE  event' \in [Events -> EventRow]
  BY <1>0, <1>3, NewRows DEF TypeOK
<1>4. ASSUME NextWake(w), NEW kind \in AllKinds, NEW parent \in Wakes \cup {NoWake},
             wake' = [wake EXCEPT ![w] = NewWake(c)],
             cycle' = [cycle EXCEPT ![w] = NewCycle(kind, parent)],
             event' = [event EXCEPT ![e] = NewEvent(kind, w)],
             UNCHANGED <<speech, effect, seen, worker, served, frontier, turn>>, phase' \in Phases
      PROVE  TypeOK' /\ Admits(event, wake, event', wake', c, e, kind, w)
  <2>1. wake' \in [Wakes -> WakeRow] /\ cycle' \in [Wakes -> CycleRow]
    BY <1>0, <1>4, NewRows DEF TypeOK
  <2>2. TypeOK'
    BY <1>0, <1>3, <1>4, <2>1 DEF TypeOK
  <2>3. /\ wake'[w].state = "pending" /\ wake[w].state = "absent"
        /\ \A v \in Wakes : v # w => wake'[v] = wake[v]
    BY <1>0, <1>4, NewRows DEF TypeOK, NextWake
  <2> QED
    BY <2>2, <2>3, <1>2, <1>4, NewRows DEF Admits
<1>5. CASE OwnerOpens(c, e, w) \/ AdmitCompletion(c, e, w)
  <2>1. PICK kind \in AllKinds : TypeOK' /\ Admits(event, wake, event', wake', c, e, kind, w)
    BY <1>0, <1>4, <1>5 DEF OwnerOpens, AdmitCompletion, TypeOK
  <2>2. worker' = worker /\ phase' = "running"
    BY <1>5 DEF OwnerOpens, AdmitCompletion
  <2> QED
    BY <1>2, <2>1, <2>2, AdmittedRow DEF IInv, OwnTimeIsFresh
<1>6. CASE OwnerComposes(c, e, w)
  <2>1. /\ event' = [event EXCEPT ![e] = NewEvent("owner", w)]
        /\ wake' = [wake EXCEPT ![w] = [@ EXCEPT !.cancelled = TRUE]]
        /\ UNCHANGED <<cycle, speech, effect, seen, worker, served, frontier, turn, phase>>
        /\ phase = "running"
        /\ wake[w].state \in {"pending", "authorized"} /\ wake[w].conv = c
    BY <1>6 DEF OwnerComposes, Composes, IsCurrentCycle, Occupants, WakesOf
  <2>2. /\ wake' \in [Wakes -> WakeRow] /\ wake'[w].state = wake[w].state
        /\ wake'[w].conv = wake[w].conv /\ wake'[w].holder = wake[w].holder
        /\ \A v \in Wakes : v # w => wake'[v] = wake[v]
    BY <1>0, <2>1, TypedWake DEF TypeOK
  <2>3. TypeOK'
    BY <1>0, <1>3, <2>1, <2>2 DEF TypeOK
  <2>4. Admits(event, wake, event', wake', c, e, "owner", w)
    BY <1>2, <2>1, <2>2 DEF Admits
  <2> QED
    BY <1>0, <1>2, <2>1, <2>3, <2>4, AdmittedRow DEF IInv, OwnTimeIsFresh
<1>7. ASSUME NEW old \in Wakes, OwnerPreempts(c, e, old, w)
      PROVE  IInv' /\ Admits(event, wake, event', wake', c, e, "owner", w)
  <2>1. /\ event' = [event EXCEPT ![e] = NewEvent("owner", w)]
        /\ wake' = [wake EXCEPT ![old] = PreemptedWake(old), ![w] = NewWake(c)]
        /\ cycle' = [cycle EXCEPT ![old] = [@ EXCEPT !.state = "silent"], ![w] = NewCycle("owner", old)]
        /\ speech' = Suppressed(old)
        /\ UNCHANGED <<effect, seen, worker, served, frontier, turn, phase>> /\ phase = "running"
        /\ wake[old].state # "absent" /\ wake[w].state = "absent" /\ old # w
    BY <1>7 DEF OwnerPreempts, IsCurrentCycle, Occupants, WakesOf, NextWake
  <2>2. wake' \in [Wakes -> WakeRow]
    BY <1>0, <2>1, NewRows, PreemptedRow DEF TypeOK
  <2>3. cycle' \in [Wakes -> CycleRow]
    <3>1. [cycle[old] EXCEPT !.state = "silent"] \in CycleRow
      BY <1>0 DEF TypeOK, CycleRow, CycleStates
    <3> QED
      BY <1>0, <2>1, <3>1, NewRows DEF TypeOK
  <2>4. speech' \in [Wakes -> SpeechStates]
    BY <1>0, <2>1 DEF Suppressed, TypeOK, SpeechStates
  <2>5. TypeOK'
    BY <1>0, <1>3, <2>1, <2>2, <2>3, <2>4 DEF TypeOK
  <2>6. /\ wake'[w] = NewWake(c) /\ wake'[old] = PreemptedWake(old)
        /\ \A v \in Wakes : v \notin {w, old} => wake'[v] = wake[v]
    BY <1>0, <2>1 DEF TypeOK
  <2>7. Admits(event, wake, event', wake', c, e, "owner", w)
    <3>1. wake'[w].state = "pending" /\ wake'[w].conv = c
      BY <1>0, <2>6, NewRows
    <3>2. ASSUME NEW v \in Wakes
          PROVE  /\ v # w => wake'[v].conv = wake[v].conv
                 /\ wake[v].state = "terminal" =>
                      wake'[v].state = "terminal" /\ wake'[v].reason = wake[v].reason
                 /\ wake[v].state # "absent" => wake'[v].conv = wake[v].conv /\ wake'[v].state # "absent"
                 /\ wake[v].state \in {"reconciling", "terminal"} =>
                      wake'[v].state \in {"reconciling", "terminal"}
                 /\ wake'[v].state \in {"authorized", "consequence_pending"} =>
                      /\ wake[v].state \in {"authorized", "consequence_pending"}
                      /\ wake'[v].holder = wake[v].holder
      <4>1. CASE v = old
        BY <4>1, <1>0, <2>1, <2>6, PreemptedRow
      <4>2. CASE v # old
        BY <4>2, <2>1, <2>6, <3>1
      <4> QED
        BY <4>1, <4>2
    <3> QED
      BY <1>2, <2>1, <3>1, <3>2 DEF Admits
  <2> QED
    BY <1>2, <2>1, <2>5, <2>7, AdmittedRow DEF IInv, OwnTimeIsFresh
<1>8. CASE AdmitOwnTime(c, e, w)
  <2>1. /\ TypeOK' /\ Admits(event, wake, event', wake', c, e, "own_time", w)
        /\ worker' = worker /\ wake' = [wake EXCEPT ![w] = NewWake(c)] /\ wake[w].state = "absent"
    BY <1>0, <1>4, <1>8 DEF AdmitOwnTime, Phases, NextWake
  <2>2. /\ RowsInv(event, wake)' /\ InOrder' /\ PassHasEvent'
        /\ \A f \in Events : event'[f].state # "absent" => f <= e
        /\ event'[e] = NewEvent("own_time", w)
        /\ \A f \in Events : f # e => event'[f] = event[f]
    BY <1>2, <2>1, AdmittedRow
  <2>3. \A f \in Events : event[f].wake # w
    BY <2>1 DEF IInv, RowsInv, Rooted, AbsentEvent, NoWake, Wakes
  <2>4. wake'[w] = NewWake(c)
    BY <1>0, <2>1 DEF TypeOK
  <2>5. FreshOwnTime(e)'
    BY <1>0, <2>2, <2>3, <2>4, NewRows DEF FreshOwnTime
  <2> QED
    BY <1>0, <2>1, <2>2, <2>5 DEF IInv, OwnTimeIsFresh
<1> QED
  BY <1>0, <1>1, <1>5, <1>6, <1>7, <1>8
--------------------------------------------------------------------------------
(* Every step.                                                              *)

\* The empty sidecar satisfies the invariant.
LEMMA InitIInv == Init => IInv
<1> SUFFICES ASSUME Init PROVE IInv
  OBVIOUS
<1>1. AbsentEvent \in EventRow /\ AbsentWake \in WakeRow /\ AbsentCycle \in CycleRow
      /\ IdleWorker \in Pass /\ IdleTurn \in Turn
  BY ConstantsAssumption
     DEF AbsentEvent, EventRow, EventStates, EventReasons, NoWake, AbsentWake, WakeRow,
         WakeStates, WakeReasons, NoToken, NoEvent, AbsentCycle, CycleRow, CycleStates,
         IdleWorker, Pass, Stages, IdleTurn, Turn
<1>2. TypeOK
  BY <1>1 DEF Init, TypeOK, SpeechStates, EffectStates, FrontierStates, Phases
<1>3. RowsInv(event, wake)
  BY DEF Init, RowsInv, Rooted, Backed, Exclusive, Fenced, OneInvolved, AbsentEvent, AbsentWake
<1>4. InOrder /\ PassHasEvent /\ OwnTimeIsFresh
  BY DEF Init, InOrder, PassHasEvent, OwnTimeIsFresh, IdleWorker, AbsentEvent
<1> QED
  BY <1>2, <1>3, <1>4 DEF IInv

\* What a step does to the rows: one of the steps of the abstract fence.
StepOfRows ==
  \/ Sweeps
  \/ NoNewLease(event, wake, event', wake') /\ \E e \in Events : Resolves(e)
  \/ \E e \in Events : Takes(e)
  \/ \E c \in Conversations, e \in Events, w \in Wakes, kind \in AllKinds :
       Admits(event, wake, event', wake', c, e, kind, w)
  \/ UNCHANGED <<event, wake>>

\* Every transaction, every step of a pass and every tick of a clock keeps the invariant.
LEMMA NextIInv == IInv /\ [Next]_vars => IInv' /\ StepOfRows
<1> SUFFICES ASSUME IInv, [Next]_vars PROVE IInv' /\ StepOfRows
  OBVIOUS
<1> USE DEF StepOfRows
<1>1. CASE Ingress
  BY <1>1, IngressStep
<1>2. CASE Clock
  BY <1>2, ClockStep
<1>3. CASE OwnTime
  BY <1>3, OwnTimeStep
<1>4. ASSUME NEW k \in Consumers, Poll(k) PROVE IInv' /\ StepOfRows
  BY <1>4, PollStep
<1>5. ASSUME NEW k \in Workers, Think(k) \/ Settle(k) PROVE IInv' /\ StepOfRows
  BY <1>5, ThinkStep, SettleStep, QuietStep
<1>6. ASSUME NEW w \in Wakes, ResolveEffect(w) PROVE IInv' /\ StepOfRows
  BY <1>6, ResolveStep
<1>7. CASE Reconcile \/ \E w \in Wakes : Deliver(w)
  BY <1>7, ReconcileStep, QuietStep DEF Quiet
<1>8. CASE Crash
  BY <1>8, StopStep, QuietStep DEF Crash
<1>9. CASE Startup
  BY <1>9, StartupStep, QuietStep
<1>10. CASE Coordinate
  BY <1>10, CoordinateStep, QuietStep
<1>11. CASE UNCHANGED vars
  BY <1>11 DEF vars, IInv, TypeOK, RowsInv, Rooted, Backed, Exclusive, Fenced, OneInvolved,
               InOrder, PassHasEvent, OwnTimeIsFresh, FreshOwnTime
<1> QED
  BY <1>1, <1>2, <1>3, <1>4, <1>5, <1>6, <1>7, <1>8, <1>9, <1>10, <1>11 DEF Next
--------------------------------------------------------------------------------
(* The abstract fence.                                                      *)

\* The status a row has.
LEMMA StatusValue ==
  ASSUME NEW ev \in [Events -> EventRow], NEW e \in Events
  PROVE  /\ ev[e].state = "absent" => StatusOf(ev)[e] = "unborn"
         /\ ev[e].state \in Claimable => StatusOf(ev)[e] = "waiting"
         /\ ev[e].state = "leased" => StatusOf(ev)[e] = "held"
         /\ ev[e].state = "reconciling" => StatusOf(ev)[e] = "unknown"
         /\ ev[e].state \in {"terminal", "quarantined"} => StatusOf(ev)[e] = "closed"
BY DEF StatusOf, Claimable

\* Every row has a status, and nothing else has.
LEMMA StatusIsFunction ==
  ASSUME NEW ev
  PROVE  StatusOf(ev) = [e \in Events |-> StatusOf(ev)[e]]
BY DEF StatusOf

\* A row is in one of the states.
LEMMA StateKinds ==
  ASSUME NEW ev \in [Events -> EventRow], NEW e \in Events
  PROVE  \/ ev[e].state \in {"absent", "leased", "reconciling", "terminal", "quarantined"}
         \/ ev[e].state \in Claimable
BY DEF EventRow, EventStates, Claimable

\* Rows that are given back, closed or found unknown are swept.
LEMMA SweptStatus ==
  ASSUME TypeOK, NEW ev2 \in [Events -> EventRow], NEW wk2,
         NoNewLease(event, wake, ev2, wk2), KeepsUnknown(ev2)
  PROVE  \E back \in SUBSET Fence!Held, lost \in SUBSET Fence!Held,
            closed \in SUBSET (Fence!Held \cup Fence!Waiting) :
              StatusOf(ev2) = Fence!Swept(back, lost, closed)
<1> DEFINE back   == {e \in Events : event[e].state = "leased" /\ ev2[e].state \in Claimable}
           lost   == {e \in Events : event[e].state = "leased" /\ ev2[e].state = "reconciling"}
           closed == {e \in Events : /\ event[e].state = "leased" \/ event[e].state \in Claimable
                                     /\ ev2[e].state \in {"terminal", "quarantined"}}
<1>1. event \in [Events -> EventRow]
  BY DEF TypeOK
<1>2. /\ back \in SUBSET Fence!Held /\ lost \in SUBSET Fence!Held
      /\ closed \in SUBSET (Fence!Held \cup Fence!Waiting)
  BY <1>1, StatusValue DEF Fence!Held, Fence!Waiting
<1>3. ASSUME NEW e \in Events
      PROVE  StatusOf(ev2)[e] = IF e \in closed THEN "closed"
                                ELSE IF e \in lost THEN "unknown"
                                ELSE IF e \in back THEN "waiting" ELSE StatusOf(event)[e]
  <2>1. CASE event[e].state \in {"absent", "terminal", "quarantined"}
    <3>1. ev2[e] = event[e]
      BY <2>1 DEF NoNewLease
    <3> QED
      BY <2>1, <3>1, <1>1, StatusValue DEF Claimable
  <2>2. CASE event[e].state = "reconciling"
    BY <2>2, <1>1, StatusValue DEF KeepsUnknown, Claimable
  <2>3. CASE event[e].state = "leased"
    <3>1. ev2[e].state # "absent"
      BY <2>3 DEF NoNewLease
    <3> QED
      BY <2>3, <3>1, <1>1, StatusValue, StateKinds DEF Claimable
  <2>4. CASE event[e].state \in Claimable
    <3>1. ev2[e].state \notin {"absent", "leased", "reconciling"}
      BY <2>4 DEF NoNewLease, Claimable
    <3> QED
      BY <2>4, <3>1, <1>1, StatusValue, StateKinds DEF Claimable
  <2> QED
    BY <2>1, <2>2, <2>3, <2>4, <1>1, StateKinds
<1>4. StatusOf(ev2) = Fence!Swept(back, lost, closed)
  BY <1>3 DEF StatusOf, Fence!Swept
<1> QED
  BY <1>2, <1>4

\* Every step of the rows is a step of the fence, or none.
LEMMA FenceStep ==
  ASSUME IInv, IInv', StepOfRows
  PROVE  [Fence!Next]_(Fence!vars)
<1>1. event \in [Events -> EventRow] /\ event' \in [Events -> EventRow]
  BY DEF IInv, TypeOK
<1>2. ASSUME NoNewLease(event, wake, event', wake')
      PROVE  UNCHANGED <<[e \in Events |-> event[e].wake], [w \in Wakes |-> wake[w].conv]>>
  BY <1>2 DEF NoNewLease
<1>3. CASE Sweeps
  <2>1. PICK back \in SUBSET Fence!Held, lost \in SUBSET Fence!Held,
             closed \in SUBSET (Fence!Held \cup Fence!Waiting) :
               StatusOf(event') = Fence!Swept(back, lost, closed)
    BY <1>1, <1>3, SweptStatus DEF IInv, Sweeps
  <2>2. Fence!Sweep(back, lost, closed)
    BY <1>2, <1>3, <2>1 DEF Fence!Sweep, Sweeps, StatusOf
  <2> QED
    BY <2>2 DEF Fence!Next
<1>4. ASSUME NoNewLease(event, wake, event', wake'), NEW e \in Events, Resolves(e)
      PROVE  Fence!Next
  <2>1. StatusOf(event)[e] = "unknown"
    BY <1>1, <1>4, StatusValue DEF Resolves
  <2>2. PICK st \in {"waiting", "closed"} : StatusOf(event')[e] = st
    BY <1>1, <1>4, StatusValue DEF Resolves, Claimable
  <2>3. StatusOf(event') = [StatusOf(event) EXCEPT ![e] = st]
    <3>1. ASSUME NEW f \in Events
          PROVE  StatusOf(event')[f] = IF f = e THEN st ELSE StatusOf(event)[f]
      BY <1>4, <2>2 DEF Resolves, StatusOf
    <3> DEFINE old == StatusOf(event)
               new == StatusOf(event')
    <3>2. /\ old = [f \in Events |-> old[f]] /\ new = [f \in Events |-> new[f]]
          /\ \A f \in Events : new[f] = IF f = e THEN st ELSE old[f]
      BY <3>1, StatusIsFunction
    <3> HIDE DEF old, new
    <3>3. new = [old EXCEPT ![e] = st]
      BY <3>2
    <3> QED
      BY <3>3 DEF old, new
  <2>4. Fence!Resolve(e)
    BY <1>2, <1>4, <2>1, <2>3 DEF Fence!Resolve, StatusOf
  <2> QED
    BY <2>4 DEF Fence!Next
<1>5. ASSUME NEW e \in Events, Takes(e)
      PROVE  Fence!Next
  <2> DEFINE ev == EventsNormalized
  <2>1. PICK back \in SUBSET Fence!Held, lost \in SUBSET Fence!Held,
             closed \in SUBSET (Fence!Held \cup Fence!Waiting) :
               StatusOf(ev) = Fence!Swept(back, lost, closed)
    BY <1>5, SweptStatus DEF IInv, Takes
  <2>2. StatusOf(ev)[e] = "waiting"
    BY <1>5, StatusValue DEF Takes, Claimable
  <2>3. ASSUME NEW f \in Events
        PROVE  /\ StatusOf(ev)[f] = "held" => Conv(f) # Conv(e)
               /\ StatusOf(ev)[f] = "unknown" => event[f].wake # event[e].wake
    BY <1>5, StatusValue, StateKinds DEF Takes
  <2>4. StatusOf(event') = [StatusOf(ev) EXCEPT ![e] = "held"]
    BY <1>5 DEF Takes, StatusOf, Claimable
  <2>5. UNCHANGED <<[f \in Events |-> event[f].wake], [w \in Wakes |-> wake[w].conv]>>
    BY <1>5 DEF Takes, NoNewLease
  <2>6. \A f \in Events : StatusOf(ev)[f] = "held" => event[f].wake \in Wakes
    BY <1>5, StatusValue, StateKinds DEF Takes, NoNewLease, IInv, RowsInv, Rooted
  <2>7. event[e].wake \in Wakes
    BY <1>5 DEF Takes, NoNewLease, IInv, RowsInv, Rooted
  <2>8. Fence!Take(e, back, lost, closed)
    BY <2>1, <2>2, <2>3, <2>4, <2>5, <2>6, <2>7 DEF Fence!Take, Fence!LaneOf, Conv, StatusOf
  <2> QED
    BY <2>1, <2>8 DEF Fence!Next
<1>6. ASSUME NEW c \in Conversations, NEW e \in Events, NEW w \in Wakes, NEW kind \in AllKinds,
             Admits(event, wake, event', wake', c, e, kind, w)
      PROVE  Fence!Next
  <2>1. /\ event[e].state = "absent" /\ event'[e].state = "pending" /\ event'[e].wake = w
        /\ \A f \in Events : f # e => event'[f] = event[f]
    BY <1>1, <1>6 DEF Admits, NewEvent, AbsentEvent
  <2>2. StatusOf(event)[e] = "unborn"
    BY <1>1, <2>1, StatusValue
  <2>3. StatusOf(event') = [StatusOf(event) EXCEPT ![e] = "waiting"]
    BY <2>1 DEF StatusOf, Claimable
  <2>4. [f \in Events |-> event'[f].wake] = [[f \in Events |-> event[f].wake] EXCEPT ![e] = w]
    BY <2>1
  <2>5. [v \in Wakes |-> wake'[v].conv] = [[v \in Wakes |-> wake[v].conv] EXCEPT ![w] = c]
    BY <1>6 DEF Admits
  <2>6. \/ wake[w].conv = c
        \/ \A f \in Events : StatusOf(event)[f] # "unborn" => event[f].wake # w
    BY <1>1, <1>6, StatusValue DEF Admits, IInv, RowsInv, Rooted
  <2>7. Fence!Admit(e, w, c)
    BY <2>2, <2>3, <2>4, <2>5, <2>6 DEF Fence!Admit, StatusOf
  <2> QED
    BY <2>7 DEF Fence!Next
<1>7. CASE UNCHANGED <<event, wake>>
  BY <1>7 DEF Fence!vars, StatusOf
<1> QED
  BY <1>3, <1>4, <1>5, <1>6, <1>7 DEF StepOfRows

\* What is over stays over in every step of the rows.
LEMMA ClosedStep ==
  ASSUME IInv, IInv', StepOfRows
  PROVE  /\ \A e \in Events : event[e].state \in {"terminal", "quarantined"} => event'[e] = event[e]
         /\ \A w \in Wakes : wake[w].state = "terminal" =>
              wake'[w].state = "terminal" /\ wake'[w].reason = wake[w].reason
<1>1. CASE NoNewLease(event, wake, event', wake')
  BY <1>1 DEF NoNewLease
<1>2. ASSUME NEW e \in Events, Takes(e)
      PROVE  /\ \A f \in Events : event[f].state \in {"terminal", "quarantined"} => event'[f] = event[f]
             /\ \A w \in Wakes : wake[w].state = "terminal" =>
                  wake'[w].state = "terminal" /\ wake'[w].reason = wake[w].reason
  BY <1>2 DEF Takes, NoNewLease
<1>3. ASSUME NEW c, NEW e \in Events, NEW w, NEW kind,
             Admits(event, wake, event', wake', c, e, kind, w)
      PROVE  /\ \A f \in Events : event[f].state \in {"terminal", "quarantined"} => event'[f] = event[f]
             /\ \A v \in Wakes : wake[v].state = "terminal" =>
                  wake'[v].state = "terminal" /\ wake'[v].reason = wake[v].reason
  BY <1>3 DEF Admits, IInv, TypeOK
<1> QED
  BY <1>1, <1>2, <1>3 DEF StepOfRows, Sweeps
--------------------------------------------------------------------------------
(* Which frontiers there are, and whose turn runs.                          *)

\* A frontier stands for an event that was deferred, and so does the turn that runs one.
FrontierRows ==
  /\ \A f \in Events : frontier[f] # "none" =>
       event[f].state = "terminal" /\ event[f].reason = "deferred"
  /\ turn.stage # "idle" => /\ turn.frontier \in Events
                            /\ event[turn.frontier].state = "terminal"
                            /\ event[turn.frontier].reason = "deferred"

\* Where nothing is deferred there is no frontier, no turn and no pass that defers.
NoDeferral ==
  /\ \A f \in Events : frontier[f] = "none"
  /\ turn.stage = "idle"
  /\ \A k \in Workers : worker[k].stage # "deferred"

\* A frontier comes of a deferral and a turn of a frontier.
FrontierStep ==
  /\ \A f \in Events : frontier'[f] # "none" =>
       \/ frontier[f] # "none"
       \/ /\ event'[f].state = "terminal" /\ event'[f].reason = "deferred"
          /\ \E k \in Workers : worker[k].stage = "deferred"
  /\ turn'.stage # "idle" =>
       \/ turn.stage # "idle" /\ turn'.frontier = turn.frontier
       \/ turn'.frontier \in Events /\ frontier[turn'.frontier] # "none"
  /\ \A k \in Workers : worker'[k].stage = "deferred" =>
       worker[k].stage = "deferred" \/ "defer" \in Disturbances

LEMMA ThinkDefers ==
  ASSUME IInv, NEW k \in Workers, Think(k)
  PROVE  FrontierStep
<1>1. frontier \in [Events -> FrontierStates] /\ worker \in [Workers -> Pass]
  BY DEF IInv, TypeOK
<1>2. turn' = turn /\ (frontier' = frontier \/ \E c : frontier' = FrontiersResolved(c))
  BY DEF Think, Begin, ModelReturns, FindsStale, StopsForOwnerAnswer, PublishRefused, Publish,
         Fail, Abstain, Transfer, Defer, Throw, HoldCeiling, DispatchEffect
<1>3. \A f \in Events : frontier'[f] # "none" => frontier[f] # "none"
  BY <1>1, <1>2 DEF FrontiersResolved
<1>4. ASSUME NEW j \in Workers, worker'[j].stage = "deferred", "defer" \notin Disturbances
      PROVE  worker[j].stage = "deferred"
  <2>1. \/ worker' = worker
        \/ \E s : s # "deferred" /\ worker' = [worker EXCEPT ![k] = [@ EXCEPT !.stage = s]]
        \/ \E s, R : s # "deferred" /\ worker' = [worker EXCEPT ![k] = [@ EXCEPT !.stage = s, !.read = R]]
        \/ \E s, f : s # "deferred"
                      /\ worker' = [worker EXCEPT ![k] = [@ EXCEPT !.stage = s, !.successor = f]]
    BY <1>4 DEF Think, Begin, ModelReturns, FindsStale, StopsForOwnerAnswer, PublishRefused, Publish,
         Fail, Abstain, Transfer, Defer, Throw, HoldCeiling, DispatchEffect, Stage, Replayed
  <2> QED
    BY <1>1, <1>4, <2>1 DEF Pass
<1> QED
  BY <1>2, <1>3, <1>4 DEF FrontierStep

LEMMA SettleDefers ==
  ASSUME IInv, NEW k \in Workers, Settle(k)
  PROVE  FrontierStep
<1>1. event \in [Events -> EventRow] /\ frontier \in [Events -> FrontierStates]
      /\ worker \in [Workers -> Pass]
  BY DEF IInv, TypeOK
<1>2. turn' = turn /\ worker' = [worker EXCEPT ![k] = IdleWorker]
  BY DEF Settle, SettleLost, SettleCompleted, SettleDeferred, SettleRetry, SettleTerminal,
         SettleSuperseded, SettleUnknown, Freed
<1>3. \A j \in Workers : worker'[j].stage = "deferred" => worker[j].stage = "deferred"
  BY <1>1, <1>2 DEF IdleWorker
<1>4. CASE SettleDeferred(k)
  <2> DEFINE e == worker[k].event
  <2>1. /\ event' = [event EXCEPT ![e] = Closed(@, "terminal", "deferred")]
        /\ \/ frontier' = [frontier EXCEPT ![e] = "waiting"]
           \/ \E f \in FrontiersOf(Conv(e)) : \E s : frontier' = [frontier EXCEPT ![f] = s]
        /\ worker[k].stage = "deferred"
    BY <1>4 DEF SettleDeferred
  <2>2. \A f \in FrontiersOf(Conv(e)) : f \in Events /\ frontier[f] # "none"
    BY DEF FrontiersOf
  <2>3. e \in Events => event'[e].state = "terminal" /\ event'[e].reason = "deferred"
    BY <1>1, <2>1 DEF Closed, EventRow
  <2> HIDE DEF e
  <2>4. \A f \in Events : frontier'[f] # "none" => frontier[f] # "none" \/ f = e
    BY <1>1, <2>1, <2>2
  <2> QED
    BY <1>2, <1>3, <2>1, <2>3, <2>4 DEF FrontierStep
<1>5. CASE ~SettleDeferred(k)
  <2>1. frontier' = frontier
    BY <1>5 DEF Settle, SettleLost, SettleCompleted, SettleRetry, SettleTerminal, SettleSuperseded,
                SettleUnknown
  <2> QED
    BY <1>2, <1>3, <2>1 DEF FrontierStep
<1> QED
  BY <1>4, <1>5

LEMMA CoordinateDefers ==
  ASSUME IInv, Coordinate
  PROVE  FrontierStep
<1>1. frontier \in [Events -> FrontierStates] /\ turn \in Turn
  BY DEF IInv, TypeOK
<1>2. worker' = worker
  BY DEF Coordinate, FrontierExhausts, TurnOpens, TurnReturns, TurnPublishes, TurnReplays,
         TurnFails, TurnDefers, TurnDispatches
<1>3. ASSUME NEW f \in Events, frontier'[f] # "none" PROVE frontier[f] # "none"
  <2>1. ASSUME NEW g \in Events, FrontierExhausts(g) \/ TurnOpens(g) PROVE frontier[f] # "none"
    BY <1>1, <1>3, <2>1 DEF FrontierExhausts, TurnOpens
  <2>2. ASSUME NEW c, frontier' = FrontiersResolved(c) PROVE frontier[f] # "none"
    BY <1>3, <2>2 DEF FrontiersResolved
  <2>3. CASE TurnFails \/ TurnDefers
    BY <1>1, <1>3, <2>3 DEF TurnFails, TurnDefers, TurnOver
  <2> QED
    BY <1>3, <2>1, <2>2, <2>3
       DEF Coordinate, TurnReturns, TurnPublishes, TurnReplays, TurnDispatches
<1>4. turn'.stage # "idle" =>
        \/ turn.stage # "idle" /\ turn'.frontier = turn.frontier
        \/ turn'.frontier \in Events /\ frontier[turn'.frontier] # "none"
  <2>1. ASSUME NEW f \in Events, TurnOpens(f)
        PROVE  turn' = turn \/ (turn'.frontier \in Events /\ frontier[turn'.frontier] # "none")
    <3>1. frontier[f] # "none" /\ (turn' = turn \/ turn' = [IdleTurn EXCEPT !.stage = "thinking", !.frontier = f])
      BY <2>1 DEF TurnOpens
    <3>2. [IdleTurn EXCEPT !.stage = "thinking", !.frontier = f].frontier = f
      BY DEF IdleTurn
    <3> QED
      BY <3>1, <3>2
  <2>2. TurnReturns => turn'.frontier = turn.frontier /\ turn.stage # "idle"
    BY <1>1 DEF TurnReturns, Turn
  <2>3. turn' \in {turn, IdleTurn} \/ TurnReturns \/ \E f \in Events : TurnOpens(f)
    BY DEF Coordinate, FrontierExhausts, TurnPublishes, TurnReplays, TurnFails, TurnDefers,
           TurnDispatches, TurnOver
  <2>4. IdleTurn.stage = "idle"
    BY DEF IdleTurn
  <2> QED
    BY <2>1, <2>2, <2>3, <2>4
<1> QED
  BY <1>2, <1>3, <1>4 DEF FrontierStep

LEMMA NextDefers == IInv /\ [Next]_vars => FrontierStep
<1> SUFFICES ASSUME IInv, [Next]_vars PROVE FrontierStep
  OBVIOUS
<1>1. worker \in [Workers -> Pass]
  BY DEF IInv, TypeOK
<1>2. ASSUME UNCHANGED <<worker, frontier, turn>> \/ Stops PROVE FrontierStep
  BY <1>2 DEF FrontierStep, Stops, IdleWorker, IdleTurn
<1>3. ASSUME NEW k \in Workers, NEW e \in Events, Claim(k, e) PROVE FrontierStep
  <2>1. PICK C : worker' = [worker EXCEPT ![k] = [stage |-> "claimed", event |-> e,
                   ordinal |-> event[e].attempts + 1, covered |-> C, read |-> {},
                   successor |-> NoEvent]]
    BY <1>3 DEF Claim
  <2> QED
    BY <1>1, <1>3, <2>1 DEF Claim, FrontierStep
<1>4. CASE Ingress
  BY <1>2, <1>4 DEF Ingress, OwnerOpens, OwnerComposes, OwnerPreempts, AdmitCompletion, AdmitOwnTime
<1>5. CASE Clock
  BY <1>2, <1>5 DEF Clock, DeadlineElapses, AgeElapses
<1>6. CASE OwnTime
  BY <1>2, <1>3, <1>6, WorkersKnown DEF OwnTime, LeaveOwnTime, ClaimOwnTime
<1>7. ASSUME NEW k \in Consumers, Poll(k) PROVE FrontierStep
  BY <1>2, <1>3, <1>7, WorkersKnown DEF Poll, PollFindsNothing, PollThrows, PollClaims
<1>8. ASSUME NEW k \in Workers, Think(k) \/ Settle(k) PROVE FrontierStep
  BY <1>8, ThinkDefers, SettleDefers
<1>9. CASE Reconcile \/ \E w \in Wakes : Deliver(w) \/ ResolveEffect(w)
  BY <1>2, <1>9 DEF Reconcile, RetireOwnerlessCycle, ReconcileStranded, AbandonSpent, RetireStale,
                    ConvergeOrphan, Deliver, ResolveEffect
<1>10. CASE Coordinate
  BY <1>10, CoordinateDefers
<1>11. CASE Crash \/ Startup
  BY <1>2, <1>11 DEF Crash, Startup, RecoverWakes, RecoverEvents, ReconcileOwnership
<1>12. CASE UNCHANGED vars
  BY <1>2, <1>12 DEF vars
<1> QED
  BY <1>4, <1>5, <1>6, <1>7, <1>8, <1>9, <1>10, <1>11, <1>12 DEF Next

\* Every frontier and every turn stands for a deferred event.
LEMMA FrontierInvariance ==
  /\ Init => FrontierRows
  /\ IInv /\ FrontierRows /\ [Next]_vars => FrontierRows'
<1>1. Init => FrontierRows
  BY DEF Init, FrontierRows, IdleTurn
<1>2. ASSUME IInv, FrontierRows, [Next]_vars PROVE FrontierRows'
  <2>1. \A e \in Events : event[e].state \in {"terminal", "quarantined"} => event'[e] = event[e]
    BY <1>2, NextIInv, ClosedStep
  <2> QED
    BY <1>2, <2>1, NextDefers DEF FrontierRows, FrontierStep
<1> QED
  BY <1>1, <1>2

\* Without deferrals there are no frontiers, and the coordinator has nothing to do.
LEMMA NothingDeferred ==
  ASSUME "defer" \notin Disturbances
  PROVE  /\ Init => NoDeferral
         /\ IInv /\ NoDeferral /\ [Next]_vars => NoDeferral'
         /\ NoDeferral => ~Coordinate /\ \A k \in Workers : ~Defer(k) /\ ~SettleDeferred(k)
<1>1. Init => NoDeferral
  BY DEF Init, NoDeferral, IdleTurn, IdleWorker
<1>2. IInv /\ NoDeferral /\ [Next]_vars => NoDeferral'
  BY NextDefers DEF NoDeferral, FrontierStep
<1>3. NoDeferral => ~Coordinate
  BY DEF NoDeferral, Coordinate, FrontierExhausts, TurnOpens, TurnReturns, TurnPublishes,
         TurnReplays, TurnFails, TurnDefers, TurnDispatches
<1>4. NoDeferral => \A k \in Workers : ~Defer(k) /\ ~SettleDeferred(k)
  BY DEF NoDeferral, Defer, SettleDeferred
<1> QED
  BY <1>1, <1>2, <1>3, <1>4
--------------------------------------------------------------------------------
(* The theorems.                                                            *)

\* The inductive invariant holds in every reachable state.
THEOREM Invariance == Spec => []IInv
BY InitIInv, NextIInv, PTL DEF Spec

\* Every row keeps its type: in particular no row is ever claimed more than MaxAttempts
\* times, whatever is recovered, retried or restarted in between.
THEOREM TypeCorrect == Spec => []TypeOK
<1>1. IInv => TypeOK
  BY DEF IInv
<1> QED
  BY <1>1, Invariance, PTL

\* A live wake lease is backed by the leased row that its token names.
THEOREM LiveWakesAreHeld == Spec => []HeldWake
<1>1. IInv => HeldWake
  BY DEF IInv, RowsInv, Backed, HeldWake, Token
<1> QED
  BY <1>1, Invariance, PTL

\* No two rows of one conversation are leased at once, whoever claims them.
THEOREM OneThoughtPerConversation == Spec => []OneLeasePerConversation
<1>1. IInv => OneLeasePerConversation
  BY DEF IInv, RowsInv, Exclusive, OneLeasePerConversation, Conv
<1> QED
  BY <1>1, Invariance, PTL

\* The wake of an event whose outcome is unknown cannot be claimed until it is known.
THEOREM UnknownStaysFenced == Spec => []UnknownFenced
<1>1. IInv => UnknownFenced
  BY DEF IInv, RowsInv, Fenced, UnknownFenced
<1> QED
  BY <1>1, Invariance, PTL

\* A closed event is never reopened, and a terminal wake never changes why it ended.
THEOREM ClosedStaysClosed == Spec => ClosedForGood
<1>1. IInv /\ IInv' /\ [Next]_vars
        => [/\ \A e \in Events : event[e].state \in {"terminal", "quarantined"} => event'[e] = event[e]
            /\ \A w \in Wakes : wake[w].state = "terminal" =>
                 wake'[w].state = "terminal" /\ wake'[w].reason = wake[w].reason]_vars
  BY NextIInv, ClosedStep
<1> QED
  BY <1>1, Invariance, PTL DEF Spec, ClosedForGood

\* The empty sidecar is the empty fence.
LEMMA FenceInit == Init => Fence!Init
<1> SUFFICES ASSUME Init PROVE Fence!Init
  OBVIOUS
<1>1. /\ \A e \in Events : event[e].state = "absent" /\ event[e].wake = NoWake
      /\ \A w \in Wakes : wake[w].conv = NoConversation
  BY DEF Init, AbsentEvent, AbsentWake
<1>2. StatusOf(event) = [e \in Events |-> "unborn"]
  <2>1. \A e \in Events : StatusOf(event)[e] = "unborn"
    BY <1>1, InitIInv, StatusValue DEF IInv, TypeOK
  <2> DEFINE st == StatusOf(event)
  <2>2. st = [e \in Events |-> st[e]] /\ \A e \in Events : st[e] = "unborn"
    BY <2>1, StatusIsFunction
  <2> HIDE DEF st
  <2>3. st = [e \in Events |-> "unborn"]
    BY <2>2
  <2> QED
    BY <2>3 DEF st
<1>3. /\ [e \in Events |-> event[e].wake] = [e \in Events |-> NoWake]
      /\ [w \in Wakes |-> wake[w].conv] = [w \in Wakes |-> NoConversation]
  BY <1>1
<1> QED
  BY <1>2, <1>3 DEF Fence!Init

\* The inbox is a lock service that fences what it does not know the outcome of.
THEOREM InboxIsAFence == Spec => ImplementsFence
<1>1. IInv /\ IInv' /\ [Next]_vars => [Fence!Next]_(Fence!vars)
  BY NextIInv, FenceStep
<1> QED
  BY <1>1, FenceInit, Invariance, PTL DEF Spec, ImplementsFence, Fence!Spec
================================================================================
