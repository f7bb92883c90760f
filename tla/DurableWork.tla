------------------------------ MODULE DurableWork ------------------------------
(***************************************************************************)
(* The durable inbox of Ashley's cognitive kernel.  An inbox event is an    *)
(* obligation to think; a wake is the lease-bearing occurrence it belongs   *)
(* to; a cycle is the generation of Thought bound to that wake; the outbox  *)
(* row is the speech a settlement licensed.  Rows live in one SQLite        *)
(* sidecar and every ledger call is one BEGIN IMMEDIATE transaction, so a   *)
(* ledger call is one step here, while the passes that await a model        *)
(* between two calls are split at each await.                               *)
(*                                                                          *)
(* Time is abstracted to three flags: the deadline of a row (its lease or   *)
(* its retry delay) has elapsed, or the retry age of an event has run out;  *)
(* no row that is closed keeps one, since nothing reads them there.         *)
(* Renewing a lease is therefore a stutter: a lapsed lease is never renewed.*)
(***************************************************************************)
EXTENDS Naturals, FiniteSets, FiniteSetsExt

CONSTANTS
  Conversations,   \* conversations served by this host
  LastEvent,       \* bound: inbox events admitted in a behaviour
  LastWake,        \* bound: wakes (hence cycles and generations) admitted
  Kinds,           \* kinds of inbox event that arrive
  Consumers,       \* the inbox consumers, which poll
  Serves,          \* the conversations each consumer claims from
  MaxAttempts,     \* DURABLE_RETRY_POLICY.maxAttempts
  Disturbances     \* what may go wrong or be decided besides the plain answer

Events  == 1..LastEvent
Wakes   == 1..LastWake
NoEvent == 0
NoWake  == 0
NoToken == <<0, 0>>
NoConversation == "none"

\* Whoever runs a pass: a consumer, or the idle path with the own time it admitted.
IdlePath == "idle_path"
Workers  == Consumers \cup {IdlePath}

AllKinds == {"owner", "completion", "own_time"}
AllDisturbances ==
  {"lapse", "age", "crash", "throw", "reject", "fail", "abstain", "transfer", "effect", "defer"}

ASSUME ConstantsAssumption ==
  /\ LastEvent \in Nat
  /\ LastWake \in Nat
  /\ MaxAttempts \in Nat \ {0}
  /\ Kinds \subseteq AllKinds
  /\ IdlePath \notin Consumers
  /\ Serves \in [Consumers -> SUBSET Conversations]
  /\ Disturbances \subseteq AllDisturbances
  /\ NoConversation \notin Conversations

VARIABLES
  event,      \* inbox_events: one row per obligation
  wake,       \* wakes: one row per occurrence, numbered in order of generation
  cycle,      \* cycle_records: the cycle bound to each wake
  speech,     \* settlements and speech_outbox: what each cycle said
  effect,     \* in_flight_effects: whether a cycle has an unresolved effect
  seen,       \* the Owner events whose text the settled pass had read
  worker,     \* the pass each claimer is running, in process memory
  served,     \* retry_lane_fairness: <<c, d>> when c was served less recently than d
  frontier,   \* deferred_reactive_frontiers: by the event whose deferral opened each row
  turn,       \* the turn the frontier coordinator is running, in process memory
  phase       \* "running"; "claiming" while own time is admitted; or a startup step

vars == <<event, wake, cycle, speech, effect, seen, worker, served, frontier, turn, phase>>
--------------------------------------------------------------------------------
(* Rows.                                                                    *)

EventStates == {"absent", "pending", "leased", "retry_wait", "reconciling",
                "terminal", "quarantined"}
EventReasons == {"none", "completed", "superseded", "stale", "permanent_failure",
                 "attempts_exhausted", "age_exhausted", "deferred"}
WakeStates == {"absent", "pending", "authorized", "consequence_pending",
               "reconciling", "terminal"}
WakeReasons == {"none", "completed", "no_action", "cancelled", "quarantined",
                "superseded", "expired"}
\* "waiting" is capacity_wait.
CycleStates == {"absent", "open", "sending", "waiting", "silent"}
\* "silence" and "mute" settle without speech; only silence answers an Owner.
SpeechStates == {"none", "silence", "mute", "queued", "delivered", "suppressed"}
EffectStates == {"none", "unresolved", "resolved"}
Stages == {"idle", "claimed", "thinking", "drafted",
           "answered", "replayed", "transferred", "failed", "rejected",
           "abstained", "not_applicable", "stale", "superseded", "deferred", "thrown"}
FrontierStates == {"none", "waiting", "running"}
Phases == {"running", "claiming", "recover_wakes", "recover_events", "ownership"}

EventRow == [state : EventStates, kind : AllKinds \cup {"none"}, wake : Wakes \cup {NoWake},
             attempts : 0..MaxAttempts, elapsed : BOOLEAN, aged : BOOLEAN,
             reason : EventReasons]
WakeRow  == [state : WakeStates, conv : Conversations \cup {NoConversation},
             holder : (Events \cup {NoEvent}) \X (0..MaxAttempts),
             reason : WakeReasons, cancelled : BOOLEAN]
CycleRow == [state : CycleStates, trigger : AllKinds \cup {"none"}, parent : Wakes \cup {NoWake}]
Pass     == [stage : Stages, event : Events \cup {NoEvent}, ordinal : 0..MaxAttempts,
             covered : SUBSET Events, read : SUBSET Events, successor : Events \cup {NoEvent}]
Turn     == [stage : {"idle", "thinking", "drafted"}, frontier : Events \cup {NoEvent},
             read : SUBSET Events]

Durable   == {"pending", "retry_wait", "leased", "reconciling"}
Claimable == {"pending", "retry_wait"}
Occupying == {"open", "sending", "waiting"}

AbsentEvent == [state |-> "absent", kind |-> "none", wake |-> NoWake, attempts |-> 0,
                elapsed |-> FALSE, aged |-> FALSE, reason |-> "none"]
AbsentWake  == [state |-> "absent", conv |-> NoConversation, holder |-> NoToken,
                reason |-> "none", cancelled |-> FALSE]
AbsentCycle == [state |-> "absent", trigger |-> "none", parent |-> NoWake]
IdleWorker  == [stage |-> "idle", event |-> NoEvent, ordinal |-> 0,
                covered |-> {}, read |-> {}, successor |-> NoEvent]
IdleTurn    == [stage |-> "idle", frontier |-> NoEvent, read |-> {}]

Conv(e)  == wake[event[e].wake].conv
Owner(e) == event[e].kind = "owner"

\* A claim mints one token for the event row and the wake row alike.
Token(e) == <<e, event[e].attempts>>

\* wakeToPending, wakeToReconciling and wakeToTerminal leave a terminal wake alone.
ToPending(r)  == IF r.state = "terminal" THEN r
                 ELSE [r EXCEPT !.state = "pending", !.holder = NoToken]
ToReconciling(r) == IF r.state = "terminal" THEN r
                    ELSE [r EXCEPT !.state = "reconciling", !.holder = NoToken]
ToTerminal(r, reason) ==
  IF r.state = "terminal" THEN r
  ELSE [r EXCEPT !.state = "terminal", !.reason = reason, !.holder = NoToken]

\* A late ending that converges onto the cancellation of its wake.
LateResultAfterCancellation(r, reason) ==
  r.reason = "cancelled" /\ r.cancelled /\ reason \in {"completed", "no_action"}

\* wake_terminal_conflict
TerminalConflict(r, reason) ==
  r.state = "terminal" /\ r.reason # reason /\ ~LateResultAfterCancellation(r, reason)

\* hasOtherDurableContinuationForWake, hasOtherClaimableContinuationForWake
Others(ev, e, states) ==
  \E f \in Events \ {e} : ev[f].wake = ev[e].wake /\ ev[f].state \in states

\* hasValidDurableContinuationOwner, for a cycle that still occupies.  An undertaking of
\* the Owner's that a worker still runs keeps its cycle too; undertakings are not rows here.
ValidOwner(cy, wk, sp, w) ==
  CASE cy[w].state = "open"    -> wk[w].state # "terminal"
    [] cy[w].state = "sending" -> sp[w] = "queued"
    [] cy[w].state = "waiting" -> \E e \in Events : event[e].wake = w /\ frontier[e] # "none"
    [] OTHER                   -> FALSE

\* retireOwnerlessCycleForTerminalEvent
RetireOwnerless(cy, wk, w) ==
  IF cy[w].state \in Occupying /\ ~ValidOwner(cy, wk, speech, w)
  THEN [cy EXCEPT ![w].state = "silent"] ELSE cy
--------------------------------------------------------------------------------
(* Cycles of a conversation.  Generations rise with the wake number.        *)

WakesOf(c)     == {w \in Wakes : wake[w].state # "absent" /\ wake[w].conv = c}
Occupants(c)   == {w \in WakesOf(c) : cycle[w].state \in Occupying}

\* getCurrentCycle without and with includeIdle.
IsCurrentCycle(c, w) == w \in Occupants(c) /\ w = Max(Occupants(c))
NewestCycle(c)       == Max(WakesOf(c))

\* getActiveDeferredFrontier: while it finds a row, an Owner message is consumed as it
\* arrives, its text joins the cycle of the frontier, and nothing else is admitted.
FrontiersOf(c) == {e \in Events : frontier[e] # "none" /\ Conv(e) = c}

NextEvent(e) == event[e].state = "absent" /\ \A f \in Events : f < e => event[f].state # "absent"
NextWake(w)  == wake[w].state = "absent" /\ \A v \in Wakes : v < w => wake[v].state # "absent"

NewEvent(kind, w) == [AbsentEvent EXCEPT !.state = "pending", !.kind = kind, !.wake = w]
NewWake(c)        == [AbsentWake EXCEPT !.state = "pending", !.conv = c]
NewCycle(kind, parent) == [state |-> "open", trigger |-> kind, parent |-> parent]

Init ==
  /\ event  = [e \in Events |-> AbsentEvent]
  /\ wake   = [w \in Wakes |-> AbsentWake]
  /\ cycle  = [w \in Wakes |-> AbsentCycle]
  /\ speech = [w \in Wakes |-> "none"]
  /\ effect = [w \in Wakes |-> "none"]
  /\ seen   = [w \in Wakes |-> {}]
  /\ worker = [k \in Workers |-> IdleWorker]
  /\ served = {}
  /\ frontier = [e \in Events |-> "none"]
  /\ turn   = IdleTurn
  /\ phase  = "running"

--------------------------------------------------------------------------------
(* Ingress: composeOrPreemptInTransaction and the append of the event.      *)

HasLiveOwner(w) ==
  \E e \in Events : event[e].wake = w /\ Owner(e) /\ event[e].state \in Claimable \cup {"leased"}

HasPublishedOutbox(w) == speech[w] \in {"queued", "delivered", "suppressed"}

Composes(w) ==
  /\ wake[w].state \in {"pending", "authorized"}
  /\ cycle[w].trigger # "own_time"
  /\ ValidOwner(cycle, wake, speech, w)
  /\ effect[w] # "unresolved"
  /\ ~HasPublishedOutbox(w)

\* Fault: preemption cancels the wake of the cycle it displaces, ended or not.
CancelsAnyway(w) == [wake[w] EXCEPT !.state = "terminal", !.reason = "cancelled",
                                    !.holder = NoToken, !.cancelled = TRUE]

\* What the predecessor's wake becomes when an Owner message preempts its cycle.
PreemptedWake(w) ==
  LET r == [wake[w] EXCEPT !.cancelled = TRUE]
      owned == ValidOwner(cycle, wake, speech, w)
  IN CASE wake[w].state = "terminal" -> wake[w]
       [] wake[w].state # "terminal" /\ owned /\ effect[w] = "unresolved" -> ToReconciling(r)
       [] wake[w].state \in {"reconciling", "consequence_pending"}
            /\ ~(owned /\ effect[w] = "unresolved") -> r
       [] wake[w].state \in {"pending", "authorized"}
            /\ ~(owned /\ effect[w] = "unresolved") ->
              IF owned /\ HasLiveOwner(w) THEN ToPending(r) ELSE ToTerminal(r, "cancelled")

Suppressed(w) == [speech EXCEPT ![w] = IF @ = "queued" THEN "suppressed" ELSE @]

\* No cycle occupies the conversation: the message opens one of its own.
OwnerOpens(c, e, w) ==
  /\ phase = "running" /\ "owner" \in Kinds /\ FrontiersOf(c) = {}
  /\ Occupants(c) = {}
  /\ NextEvent(e) /\ NextWake(w)
  /\ event' = [event EXCEPT ![e] = NewEvent("owner", w)]
  /\ wake'  = [wake EXCEPT ![w] = NewWake(c)]
  /\ cycle' = [cycle EXCEPT ![w] = NewCycle("owner", NoWake)]
  /\ UNCHANGED <<speech, effect, seen, worker, served, frontier, turn, phase>>

\* The message joins the current cycle.  A provider call in flight is aborted and
\* restarted with the merged evidence, so it stays "thinking".
OwnerComposes(c, e, w) ==
  /\ phase = "running" /\ "owner" \in Kinds /\ FrontiersOf(c) = {}
  /\ IsCurrentCycle(c, w) /\ Composes(w)
  /\ NextEvent(e)
  /\ event' = [event EXCEPT ![e] = NewEvent("owner", w)]
  /\ wake'  = [wake EXCEPT ![w].cancelled = TRUE]
  /\ UNCHANGED <<cycle, speech, effect, seen, worker, served, frontier, turn, phase>>

\* The message silences the current cycle and opens its successor.
OwnerPreempts(c, e, old, w) ==
  /\ phase = "running" /\ "owner" \in Kinds /\ FrontiersOf(c) = {}
  /\ IsCurrentCycle(c, old) /\ ~Composes(old)
  /\ NextEvent(e) /\ NextWake(w)
  /\ event'  = [event EXCEPT ![e] = NewEvent("owner", w)]
  /\ wake'   = [wake EXCEPT ![old] = PreemptedWake(old), ![w] = NewWake(c)]
  /\ cycle'  = [cycle EXCEPT ![old].state = "silent", ![w] = NewCycle("owner", old)]
  /\ speech' = Suppressed(old)
  /\ UNCHANGED <<effect, seen, worker, served, frontier, turn, phase>>

\* A detached operation reports back: always a wake and a generation of its own.
AdmitCompletion(c, e, w) ==
  /\ phase = "running" /\ "completion" \in Kinds /\ FrontiersOf(c) = {}
  /\ WakesOf(c) # {}
  /\ NextEvent(e) /\ NextWake(w)
  /\ event' = [event EXCEPT ![e] = NewEvent("completion", w)]
  /\ wake'  = [wake EXCEPT ![w] = NewWake(c)]
  /\ cycle' = [cycle EXCEPT ![w] = NewCycle("completion", NoWake)]
  /\ UNCHANGED <<speech, effect, seen, worker, served, frontier, turn, phase>>

\* Ashley's own time starts only while no cycle occupies the conversation.  The idle
\* path claims the event it appends before it first awaits, hence "claiming".
AdmitOwnTime(c, e, w) ==
  /\ phase = "running" /\ "own_time" \in Kinds /\ FrontiersOf(c) = {}
  /\ worker[IdlePath].stage = "idle"
  /\ Occupants(c) = {}
  /\ NextEvent(e) /\ NextWake(w)
  /\ event' = [event EXCEPT ![e] = NewEvent("own_time", w)]
  /\ wake'  = [wake EXCEPT ![w] = NewWake(c)]
  /\ cycle' = [cycle EXCEPT ![w] = NewCycle("own_time", NoWake)]
  /\ phase' = "claiming"
  /\ UNCHANGED <<speech, effect, seen, worker, served, frontier, turn>>
--------------------------------------------------------------------------------
(* Deadlines.                                                               *)

\* The lease of a claimed row, or the delay of a waiting one, runs out.
\* A pass renews its lease, so only a disturbed one lapses while its worker lives.
DeadlineElapses(e) ==
  /\ \/ event[e].state = "leased"
          /\ \/ "lapse" \in Disturbances
             \/ \A k \in Workers : <<worker[k].event, worker[k].ordinal>> # Token(e)
     \/ event[e].state = "retry_wait"
  /\ ~event[e].elapsed
  /\ event' = [event EXCEPT ![e].elapsed = TRUE]
  /\ UNCHANGED <<wake, cycle, speech, effect, seen, worker, served, frontier, turn, phase>>

\* maxRetryAgeMs has passed since the first attempt.  The age of a row is read only when
\* a claim finds it waiting or lapsed with attempts left: until then it may run out later.
AgeElapses(e) ==
  /\ "age" \in Disturbances
  /\ event[e].state \in Claimable \/ (event[e].state = "leased" /\ event[e].elapsed)
  /\ event[e].attempts \in 1..MaxAttempts - 1 /\ ~event[e].aged
  /\ event' = [event EXCEPT ![e].aged = TRUE]
  /\ UNCHANGED <<wake, cycle, speech, effect, seen, worker, served, frontier, turn, phase>>

--------------------------------------------------------------------------------
(* What every claim does first, in the same transaction: recover lapsed     *)
(* claims, promote the retries that are due, and quarantine what has used   *)
(* up its attempts or its age.                                              *)

Lapsed == {e \in Events : event[e].state = "leased" /\ event[e].elapsed}

RecoveredEvent(e) ==
  [event[e] EXCEPT !.elapsed = FALSE,
     !.state = IF effect[event[e].wake] = "unresolved" THEN "reconciling" ELSE "pending"]

\* Fault: the row is recovered and its wake is not.
WakesForgotten(L) == wake

\* Fault: the wake is claimable again whatever its effects.
WakesReopened(L) ==
  [w \in Wakes |-> IF \E e \in L : event[e].wake = w THEN ToPending(wake[w]) ELSE wake[w]]

\* recoverExpiredDurableWorkInTransaction, over the lapsed claims L.
EventsRecovered(L) == [e \in Events |-> IF e \in L THEN RecoveredEvent(e) ELSE event[e]]

WakesRecovered(L) ==
  [w \in Wakes |->
     IF \E e \in L : event[e].wake = w
     THEN IF effect[w] = "unresolved" THEN ToReconciling(wake[w]) ELSE ToPending(wake[w])
     ELSE wake[w]]

EventsPromoted ==
  [e \in Events |->
     IF event[e].state = "retry_wait" /\ event[e].elapsed
     THEN [event[e] EXCEPT !.state = "pending", !.elapsed = FALSE]
     ELSE EventsRecovered(Lapsed)[e]]

\* Fault: one attempt too many.
BoundedLate ==
  {e \in Events : EventsPromoted[e].state \in Claimable
                    /\ (event[e].attempts > MaxAttempts \/ event[e].aged)}

Bounded ==
  {e \in Events : EventsPromoted[e].state \in Claimable
                    /\ (event[e].attempts >= MaxAttempts \/ event[e].aged)}

ExhaustedWakes ==
  {w \in Wakes : /\ \E e \in Bounded : event[e].wake = w
                 /\ \A f \in Events \ Bounded :
                      event[f].wake = w => EventsPromoted[f].state \notin Durable}

EventsNormalized ==
  [e \in Events |->
     IF e \in Bounded
     THEN [EventsPromoted[e] EXCEPT !.state = "quarantined", !.elapsed = FALSE, !.aged = FALSE,
             !.reason = IF event[e].attempts >= MaxAttempts
                        THEN "attempts_exhausted" ELSE "age_exhausted"]
     ELSE EventsPromoted[e]]

WakesNormalized ==
  [w \in Wakes |-> IF w \in ExhaustedWakes THEN ToTerminal(WakesRecovered(Lapsed)[w], "quarantined")
                   ELSE WakesRecovered(Lapsed)[w]]

CyclesNormalized ==
  [w \in Wakes |->
     IF \E e \in Bounded : event[e].wake = w
     THEN RetireOwnerless(cycle, WakesNormalized, w)[w]
     ELSE cycle[w]]

\* quarantineEvent throws wake_terminal_conflict, which no caller absorbs.
NormalizationThrows ==
  \E w \in ExhaustedWakes : TerminalConflict(WakesRecovered(Lapsed)[w], "quarantined")

--------------------------------------------------------------------------------
(* The fair eligible head: least recently served conversation, then oldest. *)

\* Fault: the claim filter forgets the leased rows.
LeaseIgnored(c) == FALSE

LeaseTaken(c) == \E f \in Events : EventsNormalized[f].state = "leased" /\ Conv(f) = c

Candidates(k) ==
  {e \in Events :
     /\ EventsNormalized[e].state = "pending"
     /\ Conv(e) \in Serves[k]
     /\ ~LeaseTaken(Conv(e))}

\* A conversation never served comes before every one that was.
IsFairHead(k, e) ==
  /\ e \in Candidates(k)
  /\ \A f \in Candidates(k) :
       \/ <<Conv(e), Conv(f)>> \in served
       \/ <<Conv(f), Conv(e)>> \notin served /\ e <= f

Serving(c) == {p \in served : p[1] # c} \cup (Conversations \ {c}) \X {c}

\* captureOwnerDispatchCoverage, taken before the first await of the pass.
WaitingOwners(ev, w) ==
  {f \in Events : ev[f].wake = w /\ ev[f].kind = "owner" /\ ev[f].state \in Claimable}

\* Fault: only terminal wakes are refused.
ClaimableUnlessTerminal(e) == WakesNormalized[event[e].wake].state # "terminal"

\* isComposableWake and claimWakeInTransaction.  An authorized wake is live: HeldWake
\* leases its holder's row, and then no row of that conversation is a candidate.
ClaimableNow(e) == WakesNormalized[event[e].wake].state = "pending"

\* claimNextDurableWork finds nothing to claim; its normalisation commits.
PollFindsNothing(k) ==
  /\ phase = "running" /\ worker[k].stage = "idle"
  /\ ~NormalizationThrows
  /\ Candidates(k) = {}
  /\ event' = EventsNormalized
  /\ wake'  = WakesNormalized
  /\ cycle' = CyclesNormalized
  /\ UNCHANGED <<speech, effect, seen, worker, served, frontier, turn, phase>>

\* claimCandidateInTransaction: the wake is leased and authorized, the row is leased
\* under the same token.
Claim(k, e) ==
  LET w == event[e].wake
      n == event[e].attempts + 1
      ev == [EventsNormalized EXCEPT ![e].state = "leased", ![e].attempts = n,
                                     ![e].elapsed = FALSE]
  IN /\ event' = ev
     /\ wake'  = [WakesNormalized EXCEPT ![w].state = "authorized", ![w].holder = <<e, n>>]
     /\ cycle' = CyclesNormalized
     /\ served' = Serving(Conv(e))
     /\ worker' = [worker EXCEPT ![k] =
          [stage |-> "claimed", event |-> e, ordinal |-> n,
           covered |-> WaitingOwners(ev, w) \cup (IF Owner(e) THEN {e} ELSE {}),
           read |-> {}, successor |-> NoEvent]]
     /\ UNCHANGED <<speech, effect, seen, frontier, turn>>

\* A head whose wake cannot be claimed rolls the whole transaction back: no step.
PollClaims(k, e) ==
  /\ phase = "running" /\ worker[k].stage = "idle"
  /\ ~NormalizationThrows
  /\ IsFairHead(k, e) /\ ClaimableNow(e)
  /\ Claim(k, e)
  /\ UNCHANGED phase

\* privateThoughtRunner claims exactly the event it admitted, the newest one.
JustAdmitted == Max({e \in Events : event[e].state # "absent"})

OwnTimeRefused == NormalizationThrows \/ LeaseTaken(Conv(JustAdmitted))

ClaimOwnTime(e) ==
  /\ phase = "claiming" /\ phase' = "running"
  /\ e = JustAdmitted /\ ~OwnTimeRefused
  /\ Claim(IdlePath, e)

\* idle_inbox_claim_failed: the event stays behind for a consumer.
LeaveOwnTime ==
  /\ phase = "claiming" /\ phase' = "running"
  /\ OwnTimeRefused
  /\ UNCHANGED <<event, wake, cycle, speech, effect, seen, worker, served, frontier, turn>>
--------------------------------------------------------------------------------
(* The pass: consumeInboxEvent around runCognitiveCycleAttempt.             *)

Running(k) == worker[k].stage \in {"thinking", "drafted"}
WakeOf(k)  == event[worker[k].event].wake
ClaimOf(k) == <<worker[k].event, worker[k].ordinal>>

\* getOpenDurableAttempt still names this pass's attempt.
Held(k) == event[worker[k].event].state = "leased" /\ Token(worker[k].event) = ClaimOf(k)

\* assessOwnerAnswerHold: another pass answered, or the claim is gone.
AnsweredElsewhere(k) ==
  \E f \in worker[k].covered :
    /\ event[f].state = "terminal" /\ event[f].reason \in {"completed", "superseded", "stale"}
    /\ f # worker[k].event \/ ~Held(k)
AttemptLost(k)  == worker[k].covered # {} /\ ~Held(k)
\* Fault: the answer fence does not look at the claim.
AnswersAnyway(k) == ~AnsweredElsewhere(k)
MayAnswer(k)    == ~AnsweredElsewhere(k) /\ ~AttemptLost(k)

\* activeThoughtMayFinishWhileDetachedCompletionQueued.  It also asks for an unexpired claim
\* on the cognition of the older cycle; the claims are rows of DeferredFrontier, and a pass
\* that reaches this point here is one that holds its own.
CompletionQueued(v) ==
  /\ cycle[v].trigger = "completion"
  /\ \E e \in Events : event[e].wake = v /\ event[e].kind = "completion"
                         /\ event[e].state \in Durable

\* currentLifecycleIs, and the generation fence of the publication.
Current(k) ==
  LET newest == NewestCycle(Conv(worker[k].event))
  IN newest = WakeOf(k) \/ CompletionQueued(newest)

\* cancelActiveThought(preempt) aborts the provider call of a preempted generation.
Aborted(k) == worker[k].stage = "thinking" /\ \E v \in Wakes : cycle[v].parent = WakeOf(k)

Stage(k, s) == worker' = [worker EXCEPT ![k].stage = s]

\* What a settlement that exists makes of a pass on its cycle.
Replayed(k) == IF speech[WakeOf(k)] = "mute" /\ Owner(worker[k].event) THEN "rejected" ELSE "replayed"

\* Fault: a settlement that exists is thought again.
BeginAfresh(k) ==
  /\ worker[k].stage = "claimed"
  /\ cycle' = [cycle EXCEPT ![WakeOf(k)].state = "open"]
  /\ Stage(k, "thinking")
  /\ UNCHANGED <<event, wake, speech, effect, seen, served, frontier, turn, phase>>

\* The attempt marks its cycle assembling, then replays a settlement that exists.
Begin(k) ==
  /\ worker[k].stage = "claimed"
  /\ cycle' = [cycle EXCEPT ![WakeOf(k)].state = "open"]
  /\ Stage(k, IF speech[WakeOf(k)] # "none" THEN Replayed(k) ELSE "thinking")
  /\ UNCHANGED <<event, wake, speech, effect, seen, served, frontier, turn, phase>>

\* The provider answers; what it read is the evidence composed into the cycle so far.
ModelReturns(k) ==
  /\ worker[k].stage = "thinking" /\ ~Aborted(k)
  /\ worker' = [worker EXCEPT ![k] = [@ EXCEPT !.stage = "drafted",
                  !.read = {f \in Events : event[f].wake = WakeOf(k) /\ Owner(f)}]]
  /\ UNCHANGED <<event, wake, cycle, speech, effect, seen, served, frontier, turn, phase>>

\* proveExactOwnerSupersession
LiveOwnersOn(v) == {f \in Events : event[f].wake = v /\ Owner(f) /\ event[f].state \in Durable}

Successors(k) ==
  LET v == NewestCycle(Conv(worker[k].event)) IN
  IF /\ Owner(worker[k].event)
     /\ v # WakeOf(k) /\ cycle[v].parent = WakeOf(k)
     /\ wake[WakeOf(k)].state # "terminal" /\ wake[v].state # "terminal"
     /\ Cardinality(LiveOwnersOn(v)) = 1
  THEN LiveOwnersOn(v) ELSE {}

\* The lifecycle check finds a newer generation.
FindsStale(k) ==
  /\ Running(k) /\ (~Current(k) \/ Aborted(k))
  /\ \/ Successors(k) = {} /\ Stage(k, "stale")
     \/ \E f \in Successors(k) :
          worker' = [worker EXCEPT ![k] = [@ EXCEPT !.stage = "superseded", !.successor = f]]
  /\ UNCHANGED <<event, wake, cycle, speech, effect, seen, served, frontier, turn, phase>>

\* stopForOwnerAnswer
StopsForOwnerAnswer(k) ==
  /\ Running(k) /\ Current(k) /\ ~Aborted(k) /\ ~MayAnswer(k)
  /\ Stage(k, IF AnsweredElsewhere(k) THEN "not_applicable" ELSE "abstained")
  /\ UNCHANGED <<event, wake, cycle, speech, effect, seen, served, frontier, turn, phase>>

\* Once its answer has been handed to the projector, a pass resolves the frontier of its
\* conversation, if a turn is running it.  The await between is not split here.
FrontiersResolved(c) ==
  [f \in Events |-> IF frontier[f] = "running" /\ Conv(f) = c THEN "none" ELSE frontier[f]]

\* publishSemanticTransaction, before it writes anything.
Publishing(k) == worker[k].stage = "drafted" /\ Current(k) /\ MayAnswer(k)

PublishRefused(k) ==
  /\ Publishing(k)
  /\ LET w == WakeOf(k) IN
       \/ /\ wake[w].state \in {"terminal", "reconciling"} \/ "reject" \in Disturbances
          /\ Stage(k, "rejected")
          /\ UNCHANGED frontier
       \/ /\ wake[w].state \in {"pending", "authorized", "consequence_pending"}
          /\ speech[w] # "none"
          /\ Stage(k, Replayed(k))
          /\ frontier' = FrontiersResolved(Conv(worker[k].event))
       \/ /\ wake[w].state = "authorized" /\ speech[w] = "none"
          /\ wake[w].holder # ClaimOf(k)
          /\ Stage(k, "thrown")
          /\ UNCHANGED frontier
  /\ UNCHANGED <<event, wake, cycle, speech, effect, seen, served, turn, phase>>

\* The settlement commits with its speech: a draft is queued for delivery, silence is
\* not, and settling mute while a consequence is pending leaves an Owner unanswered.
Publish(k, said) ==
  /\ Publishing(k)
  /\ LET w == WakeOf(k) IN
       /\ speech[w] = "none"
       /\ (said = "mute") <=> (effect[w] = "unresolved" /\ said # "queued")
       /\ \/ wake[w].state = "pending" /\ wake' = wake
          \/ /\ wake[w].state = "authorized" /\ wake[w].holder = ClaimOf(k)
             /\ wake' = [wake EXCEPT ![w].state = "consequence_pending"]
          \/ wake[w].state = "consequence_pending" /\ wake' = wake
       /\ speech' = [speech EXCEPT ![w] = said]
       /\ seen'   = [seen EXCEPT ![w] = worker[k].read]
       /\ cycle'  = [cycle EXCEPT ![w].state = IF said = "queued" THEN "sending" ELSE "silent"]
       /\ Stage(k, IF said = "mute" /\ Owner(worker[k].event) THEN "rejected" ELSE "answered")
  /\ frontier' = FrontiersResolved(Conv(worker[k].event))
  /\ UNCHANGED <<event, effect, served, turn, phase>>

\* emitFailure: the cycle is silenced and the pass reports a failure.
Fail(k) ==
  /\ "fail" \in Disturbances /\ Running(k) /\ Current(k)
  /\ cycle' = [cycle EXCEPT ![WakeOf(k)].state = "silent"]
  /\ Stage(k, "failed")
  /\ UNCHANGED <<event, wake, speech, effect, seen, served, frontier, turn, phase>>

\* The model declines to answer.
Abstain(k) ==
  /\ "abstain" \in Disturbances /\ worker[k].stage = "thinking" /\ ~Aborted(k)
  /\ cycle' = [cycle EXCEPT ![WakeOf(k)].state = "silent"]
  /\ Stage(k, "abstained")
  /\ UNCHANGED <<event, wake, speech, effect, seen, served, frontier, turn, phase>>

\* The obligation moves to a worker undertaking or to a detached effect.
Transfer(k) ==
  /\ "transfer" \in Disturbances /\ worker[k].stage = "thinking" /\ ~Aborted(k)
  /\ cycle' = [cycle EXCEPT ![WakeOf(k)].state = "silent"]
  /\ Stage(k, "transferred")
  /\ UNCHANGED <<event, wake, speech, effect, seen, served, frontier, turn, phase>>

\* No capacity before the deadline of the call: the provider hints when to come back.
Defer(k) ==
  /\ "defer" \in Disturbances /\ worker[k].stage = "thinking" /\ ~Aborted(k)
  /\ Stage(k, "deferred")
  /\ UNCHANGED <<event, wake, cycle, speech, effect, seen, served, frontier, turn, phase>>

\* The handler throws.
Throw(k) ==
  /\ "throw" \in Disturbances /\ Running(k)
  /\ Stage(k, "thrown")
  /\ UNCHANGED <<event, wake, cycle, speech, effect, seen, served, frontier, turn, phase>>

\* The hold of a pass that has run too long is given up: releaseThoughtHold.
HoldCeiling(k) ==
  LET L == Lapsed \cup {worker[k].event} IN
  /\ "lapse" \in Disturbances /\ Running(k)
  /\ Held(k) /\ MayAnswer(k)
  /\ event' = EventsRecovered(L)
  /\ wake'  = WakesRecovered(L)
  /\ UNCHANGED <<cycle, speech, effect, seen, worker, served, frontier, turn, phase>>

\* dispatchEffect persists the intent before it executes the effect.
DispatchEffect(k) ==
  /\ "effect" \in Disturbances /\ worker[k].stage = "thinking" /\ ~Aborted(k) /\ Current(k)
  /\ effect[WakeOf(k)] = "none"
  /\ effect' = [effect EXCEPT ![WakeOf(k)] = "unresolved"]
  /\ UNCHANGED <<event, wake, cycle, speech, seen, worker, served, frontier, turn, phase>>

\* recordEffectReceipt
ResolveEffect(w) ==
  /\ effect[w] = "unresolved"
  /\ effect' = [effect EXCEPT ![w] = "resolved"]
  /\ UNCHANGED <<event, wake, cycle, speech, seen, worker, served, frontier, turn, phase>>
--------------------------------------------------------------------------------
(* settleDurableAttempt.  It does not look at the lease deadline: the       *)
(* consumer settles with the clock value it read when it claimed.           *)

Settling(k) == worker[k].stage \notin {"idle", "claimed"} \cup {"thinking", "drafted"}
Freed(k)    == worker' = [worker EXCEPT ![k] = IdleWorker]

Closed(row, state, reason) == [row EXCEPT !.state = state, !.reason = reason,
                                           !.elapsed = FALSE, !.aged = FALSE]

\* Fault: a completed event takes its wake along, siblings or not.
ForgetsSiblings(ev, e, reason) ==
  reason \in {"quarantined", "superseded"} /\ Others(ev, e, Durable)

\* Fault: an exhausted event leaves its wake open, siblings or not.
KeepsExhaustedOpen(ev, e, reason) ==
  \/ reason = "quarantined"
  \/ reason = "superseded" /\ Others(ev, e, Durable)
  \/ reason = "completed" /\ Others(ev, e, Claimable)

\* finishWakeForEvent, over the event rows ev the settlement leaves behind.
KeepsWakeOpen(ev, e, reason) ==
  \/ reason \in {"quarantined", "superseded"} /\ Others(ev, e, Durable)
  \/ reason = "completed" /\ Others(ev, e, Claimable)

HeldByAnother(r, e) == r.state \in {"authorized", "consequence_pending"} /\ r.holder # Token(e)

FinishThrows(ev, e, reason) ==
  LET r == wake[event[e].wake] IN
  ~KeepsWakeOpen(ev, e, reason) /\ (TerminalConflict(r, reason) \/ HeldByAnother(r, e))

WakeFinished(ev, e, reason) ==
  [wake EXCEPT ![event[e].wake] =
     IF KeepsWakeOpen(ev, e, reason) THEN ToPending(@) ELSE ToTerminal(@, reason)]

\* toHandlerResult and isSuccessfulCognitiveDispatch
Unanswered(k) == worker[k].stage \in {"failed", "abstained", "stale"} /\ Owner(worker[k].event)

Completes(k) == \/ worker[k].stage \in {"answered", "replayed", "transferred"}
                \/ worker[k].stage \in {"failed", "stale"} /\ ~Owner(worker[k].event)
NeedsRetry(k) == worker[k].stage = "rejected" \/ Unanswered(k)
NoAction(k)   == \/ worker[k].stage = "not_applicable"
                 \/ worker[k].stage = "abstained" /\ ~Owner(worker[k].event)

\* convergeCoveredSiblingEvents, for a pass that published.
Answered(k) == IF worker[k].stage = "answered" THEN worker[k].covered ELSE {}

EventsCompleted(k) ==
  [f \in Events |->
     IF \/ f = worker[k].event
        \/ /\ f \in Answered(k) /\ event[f].wake = WakeOf(k)
           /\ event[f].state \in Claimable \cup {"leased"}
     THEN Closed(event[f], "terminal", "completed") ELSE event[f]]

EventsExhausted(k) ==
  [event EXCEPT ![worker[k].event] = Closed(@, "quarantined", "attempts_exhausted")]
EventsStale(k) == [event EXCEPT ![worker[k].event] = Closed(@, "terminal", "stale")]

\* Fault: what is handed to the next generation is recorded as answered.
EventsHandedOver(k) ==
  [f \in Events |->
     IF f \in worker[k].covered /\ event[f].wake = WakeOf(k)
     THEN Closed(event[f], "terminal", "completed") ELSE event[f]]

EventsSuperseded(k) ==
  [f \in Events |->
     IF f \in worker[k].covered /\ event[f].wake = WakeOf(k)
     THEN Closed(event[f], "terminal", "superseded") ELSE event[f]]

\* validateSupersession
SupersessionValid(k) ==
  LET e == worker[k].event
      s == worker[k].successor
  IN /\ wake[event[e].wake].state # "terminal"
     /\ event[s].state \notin {"terminal", "quarantined"}
     /\ wake[event[s].wake].state # "terminal"
     /\ \A f \in worker[k].covered \ {e} : event[f].state \in Claimable
     /\ WaitingOwners(event, event[e].wake) \subseteq worker[k].covered

\* The attempt is no longer this pass's to settle: the row stays as it is.
SettleLost(k) ==
  /\ Settling(k) /\ ~Held(k)
  /\ Freed(k)
  /\ UNCHANGED <<event, wake, cycle, speech, effect, seen, served, frontier, turn, phase>>

SettleCompleted(k) ==
  LET ev == EventsCompleted(k) IN
  /\ Settling(k) /\ Held(k) /\ Completes(k)
  /\ ~FinishThrows(ev, worker[k].event, "completed")
  /\ event' = ev
  /\ wake'  = WakeFinished(ev, worker[k].event, "completed")
  /\ Freed(k)
  /\ UNCHANGED <<cycle, speech, effect, seen, served, frontier, turn, phase>>

\* The event is consumed and a frontier stands for it, the one the conversation has or a
\* new one; the wake stays open with no event to claim it by.  A frontier past its
\* deadline is exhausted instead of put off.
SettleDeferred(k) ==
  LET e == worker[k].event
      active == FrontiersOf(Conv(e))
  IN /\ Settling(k) /\ Held(k) /\ worker[k].stage = "deferred"
     /\ event' = [event EXCEPT ![e] = Closed(@, "terminal", "deferred")]
     /\ wake'  = [wake EXCEPT ![WakeOf(k)] = ToPending(@)]
     /\ cycle' = [cycle EXCEPT ![WakeOf(k)].state = "waiting"]
     /\ \/ active = {} /\ frontier' = [frontier EXCEPT ![e] = "waiting"]
        \/ \E f \in active, s \in {"waiting", "none"} : frontier' = [frontier EXCEPT ![f] = s]
     /\ Freed(k)
     /\ UNCHANGED <<speech, effect, seen, served, turn, phase>>

\* nextRetryAt answers retry_wait: the row waits and its wake is pending again.
SettleRetry(k) ==
  /\ Settling(k) /\ Held(k) /\ NeedsRetry(k)
  /\ worker[k].ordinal < MaxAttempts
  /\ event' = [event EXCEPT ![worker[k].event].state = "retry_wait",
                            ![worker[k].event].elapsed = FALSE]
  /\ wake'  = [wake EXCEPT ![WakeOf(k)] = ToPending(@)]
  /\ Freed(k)
  /\ UNCHANGED <<cycle, speech, effect, seen, served, frontier, turn, phase>>

\* The last attempt is spent, or the work is no longer wanted.
SettleTerminal(k) ==
  LET e == worker[k].event
      spent == NeedsRetry(k)
      ev == IF spent THEN EventsExhausted(k) ELSE EventsStale(k)
      reason == IF spent THEN "quarantined" ELSE "no_action"
      wk == WakeFinished(ev, e, reason)
  IN /\ Settling(k) /\ Held(k)
     /\ \/ spent /\ worker[k].ordinal >= MaxAttempts
        \/ NoAction(k)
     /\ ~FinishThrows(ev, e, reason)
     /\ event' = ev
     /\ wake'  = wk
     /\ cycle' = RetireOwnerless(cycle, wk, WakeOf(k))
     /\ Freed(k)
     /\ UNCHANGED <<speech, effect, seen, served, frontier, turn, phase>>

\* A newer generation inherits exactly the covered Owner obligations.
SettleSuperseded(k) ==
  LET ev == EventsSuperseded(k)
      wk == WakeFinished(ev, worker[k].event, "superseded")
  IN /\ Settling(k) /\ Held(k) /\ worker[k].stage = "superseded"
     /\ SupersessionValid(k)
     /\ ~FinishThrows(ev, worker[k].event, "superseded")
     /\ event' = ev
     /\ wake'  = wk
     /\ cycle' = RetireOwnerless(cycle, wk, WakeOf(k))
     /\ Freed(k)
     /\ UNCHANGED <<speech, effect, seen, served, frontier, turn, phase>>

\* Every exception, the settlement's own included, is an unknown outcome.
SettleUnknown(k) ==
  LET e == worker[k].event IN
  /\ Settling(k) /\ Held(k)
  /\ \/ worker[k].stage = "thrown"
     \/ Completes(k) /\ FinishThrows(EventsCompleted(k), e, "completed")
     \/ /\ NeedsRetry(k) /\ worker[k].ordinal >= MaxAttempts
        /\ FinishThrows(EventsExhausted(k), e, "quarantined")
     \/ NoAction(k) /\ FinishThrows(EventsStale(k), e, "no_action")
     \/ /\ worker[k].stage = "superseded"
        /\ ~SupersessionValid(k) \/ FinishThrows(EventsSuperseded(k), e, "superseded")
  /\ event' = [event EXCEPT ![e].state = "reconciling", ![e].elapsed = FALSE]
  /\ wake'  = [wake EXCEPT ![WakeOf(k)] = ToReconciling(@)]
  /\ Freed(k)
  /\ UNCHANGED <<cycle, speech, effect, seen, served, frontier, turn, phase>>
--------------------------------------------------------------------------------
(* Delivery, the steady-state reconciliation and the recovery of wakes.     *)

\* The projector confirms the last send; convergeTerminalSendingCycle.
Deliver(w) ==
  /\ phase = "running" /\ speech[w] = "queued"
  /\ speech' = [speech EXCEPT ![w] = "delivered"]
  /\ cycle'  = [cycle EXCEPT ![w].state = IF @ = "sending" THEN "silent" ELSE @]
  /\ UNCHANGED <<event, wake, effect, seen, worker, served, frontier, turn, phase>>

\* Fault: nobody retires ownerless cycles.
OwnerlessNever == {}

Ownerless == {w \in Wakes : cycle[w].state \in Occupying /\ ~ValidOwner(cycle, wake, speech, w)}

\* retireZombieCycleInTransaction on every cycle of Z.
SpeechRetired(Z) ==
  [w \in Wakes |-> IF w \in Z /\ speech[w] = "queued" THEN "suppressed" ELSE speech[w]]
CyclesRetired(Z) == [w \in Wakes |-> IF w \in Z THEN [cycle[w] EXCEPT !.state = "silent"] ELSE cycle[w]]
WakesRetired(Z) ==
  [w \in Wakes |->
     IF w \notin Z \/ wake[w].state = "terminal" THEN wake[w]
     ELSE LET r == [wake[w] EXCEPT !.cancelled = TRUE]
          IN IF wake[w].state \in {"reconciling", "consequence_pending"} THEN r
             ELSE ToTerminal(r, "cancelled")]

\* retireOwnerlessCycles: one cycle per transaction, once its grace has passed.
RetireOwnerlessCycle(w) ==
  /\ phase = "running" /\ w \in Ownerless
  /\ speech' = SpeechRetired({w})
  /\ cycle'  = CyclesRetired({w})
  /\ wake'   = WakesRetired({w})
  /\ UNCHANGED <<event, effect, seen, worker, served, frontier, turn, phase>>

\* proveNoExternalDispatch
NoExternalDispatch(w) == effect[w] = "none" /\ speech[w] = "none"

\* reconcileOutcomeUnknown: the work is retryable again.
ReconcileStranded(e) ==
  LET w == event[e].wake IN
  /\ phase = "running"
  /\ event[e].state = "reconciling" /\ NoExternalDispatch(w)
  /\ event' = [event EXCEPT ![e].state = "pending"]
  /\ wake'  = [wake EXCEPT ![w] = ToPending(@)]
  /\ UNCHANGED <<cycle, speech, effect, seen, worker, served, frontier, turn, phase>>

\* reconcileOutcomeUnknown: a private pass whose budget is spent is not thought again.
\* wake_terminal_conflict leaves the row reconciling.
AbandonSpent(e) ==
  LET w == event[e].wake
      wk == [wake EXCEPT ![w] = ToTerminal(@, "quarantined")]
  IN /\ phase = "running"
     /\ event[e].state = "reconciling" /\ event[e].kind = "own_time" /\ NoExternalDispatch(w)
     /\ ~TerminalConflict(wake[w], "quarantined")
     /\ event' = [event EXCEPT ![e] = Closed(@, "terminal", "permanent_failure")]
     /\ wake'  = wk
     /\ cycle' = RetireOwnerless(cycle, wk, w)
     /\ UNCHANGED <<speech, effect, seen, worker, served, frontier, turn, phase>>

\* retireStaleReconcilingOwnerRows: a day has passed, and she has answered since.  The
\* wake of the row stays as it is.
RetireStale(e) ==
  /\ phase = "running"
  /\ Owner(e) /\ event[e].state = "reconciling"
  /\ \E w \in WakesOf(Conv(e)) : speech[w] = "delivered"
  /\ event' = [event EXCEPT ![e] = Closed(@, "terminal", "stale")]
  /\ UNCHANGED <<wake, cycle, speech, effect, seen, worker, served, frontier, turn, phase>>

\* convergeOrphanPendingWakes.  What else protects a wake (a notice, a detached
\* operation, an undertaking, a repair of its conversation) only delays the step.
ConvergeOrphan(w) ==
  /\ phase = "running" /\ wake[w].state = "pending"
  /\ \A e \in Events : event[e].wake = w => event[e].state \notin Durable
  /\ ~ValidOwner(cycle, wake, speech, w) /\ effect[w] # "unresolved"
  /\ wake' = [wake EXCEPT ![w] = ToTerminal(@, "no_action")]
  /\ UNCHANGED <<event, cycle, speech, effect, seen, worker, served, frontier, turn, phase>>
--------------------------------------------------------------------------------
(* The deferred frontier, as the rows see it: the coordinator runs one turn *)
(* at a time, on the cycle of a frontier that is due or whose turn died.    *)
(* The turn holds neither the event nor the wake; what it says commits as a *)
(* pass's does.  Its claims and deadlines are those of DeferredFrontier.    *)

TurnWake == event[turn.frontier].wake

TurnAborted == turn.stage = "thinking" /\ \E v \in Wakes : cycle[v].parent = TurnWake

TurnCurrent ==
  LET newest == NewestCycle(Conv(turn.frontier))
  IN newest = TurnWake \/ CompletionQueued(newest)

\* exhaustDeferredFrontier, also of a row that was put off under its turn.
TurnOver == turn' = IdleTurn /\ frontier' = [frontier EXCEPT ![turn.frontier] = "none"]

\* The cycle or the wake has ended, or the turn throws as it opens: another pass holds
\* the claim of the conversation.
FrontierExhausts(f) ==
  /\ phase = "running" /\ turn.stage = "idle" /\ frontier[f] # "none"
  /\ frontier' = [frontier EXCEPT ![f] = "none"]
  /\ UNCHANGED <<event, wake, cycle, speech, effect, seen, worker, served, turn, phase>>

\* A cycle that has a settlement replays it, and the frontier is resolved.
TurnOpens(f) ==
  LET w == event[f].wake IN
  /\ phase = "running" /\ turn.stage = "idle" /\ frontier[f] # "none"
  /\ cycle[w].state \notin {"silent", "sending"}
  /\ wake[w].state \notin {"terminal", "reconciling"}
  /\ cycle' = [cycle EXCEPT ![w].state = "open"]
  /\ \/ speech[w] = "none"
          /\ frontier' = [frontier EXCEPT ![f] = "running"]
          /\ turn' = [IdleTurn EXCEPT !.stage = "thinking", !.frontier = f]
     \/ speech[w] # "none"
          /\ frontier' = [frontier EXCEPT ![f] = "none"]
          /\ UNCHANGED turn
  /\ UNCHANGED <<event, wake, speech, effect, seen, worker, served, phase>>

TurnReturns ==
  /\ phase = "running" /\ turn.stage = "thinking" /\ ~TurnAborted
  /\ turn' = [turn EXCEPT !.stage = "drafted",
                          !.read = {f \in Events : event[f].wake = TurnWake /\ Owner(f)}]
  /\ UNCHANGED <<event, wake, cycle, speech, effect, seen, worker, served, frontier, phase>>

TurnPublishes(said) ==
  LET w == TurnWake IN
  /\ phase = "running" /\ turn.stage = "drafted" /\ TurnCurrent
  /\ wake[w].state \in {"pending", "consequence_pending"} /\ speech[w] = "none"
  /\ (said = "mute") <=> (effect[w] = "unresolved" /\ said # "queued")
  /\ speech' = [speech EXCEPT ![w] = said]
  /\ seen'   = [seen EXCEPT ![w] = turn.read]
  /\ cycle'  = [cycle EXCEPT ![w].state = IF said = "queued" THEN "sending" ELSE "silent"]
  /\ frontier' = FrontiersResolved(Conv(turn.frontier))
  /\ turn' = IdleTurn
  /\ UNCHANGED <<event, wake, effect, worker, served, phase>>

\* A settlement another pass made meanwhile is replayed by the publication.
TurnReplays ==
  /\ phase = "running" /\ turn.stage = "drafted" /\ TurnCurrent
  /\ wake[TurnWake].state \in {"pending", "authorized", "consequence_pending"}
  /\ speech[TurnWake] # "none"
  /\ frontier' = FrontiersResolved(Conv(turn.frontier))
  /\ turn' = IdleTurn
  /\ UNCHANGED <<event, wake, cycle, speech, effect, seen, worker, served, phase>>

\* The turn fails, abstains or hands its work to a worker, and its cycle is silenced; or
\* it is overtaken, refused or throws, and the cycle stays as it is.
TurnFails ==
  /\ phase = "running" /\ turn.stage # "idle"
  /\ \/ TurnCurrent /\ cycle' = [cycle EXCEPT ![TurnWake].state = "silent"]
     \/ UNCHANGED cycle
  /\ TurnOver
  /\ UNCHANGED <<event, wake, speech, effect, seen, worker, served, phase>>

\* finishWakeInTransaction with the token the wake has: a fenced wake refuses it.
Expired(r) == IF r.state = "reconciling" THEN r ELSE ToTerminal(r, "expired")

\* The turn is deferred again: the row waits, unless its deadline has passed or the hint
\* does not lie ahead.
TurnDefers ==
  LET w == TurnWake IN
  /\ "defer" \in Disturbances
  /\ phase = "running" /\ turn.stage = "thinking" /\ ~TurnAborted
  /\ frontier[turn.frontier] # "none"
  /\ \/ /\ turn' = IdleTurn /\ frontier' = [frontier EXCEPT ![turn.frontier] = "waiting"]
        /\ UNCHANGED <<wake, cycle>>
     \/ /\ TurnOver
        /\ cycle' = [cycle EXCEPT ![w].state = "silent"]
        /\ wake' = wake \/ wake' = [wake EXCEPT ![w] = Expired(@)]
  /\ UNCHANGED <<event, speech, effect, seen, worker, served, phase>>

TurnDispatches ==
  /\ "effect" \in Disturbances
  /\ phase = "running" /\ turn.stage = "thinking" /\ ~TurnAborted /\ TurnCurrent
  /\ effect[TurnWake] = "none"
  /\ effect' = [effect EXCEPT ![TurnWake] = "unresolved"]
  /\ UNCHANGED <<event, wake, cycle, speech, seen, worker, served, frontier, turn, phase>>
--------------------------------------------------------------------------------
(* Crash and startup.  The rows survive; the passes do not.                 *)

Stops ==
  /\ worker' = [k \in Workers |-> IdleWorker]
  /\ turn'   = IdleTurn
  /\ phase'  = "recover_wakes"
  /\ UNCHANGED <<event, wake, cycle, speech, effect, seen, served, frontier>>

Crash == "crash" \in Disturbances /\ phase \in {"running", "claiming"} /\ Stops

\* The rejected consumer loop takes the process down.
PollThrows(k) ==
  /\ phase = "running" /\ worker[k].stage = "idle"
  /\ NormalizationThrows
  /\ Stops

\* recoverWakes
RecoverWakes ==
  /\ phase = "recover_wakes" /\ phase' = "recover_events"
  /\ wake' = [w \in Wakes |->
       CASE wake[w].state = "consequence_pending" -> [wake[w] EXCEPT !.state = "reconciling"]
         [] wake[w].state = "authorized" /\ event[wake[w].holder[1]].elapsed ->
              IF effect[w] = "unresolved" THEN [wake[w] EXCEPT !.state = "reconciling"]
              ELSE ToPending(wake[w])
         [] OTHER -> wake[w]]
  /\ UNCHANGED <<event, cycle, speech, effect, seen, worker, served, frontier, turn>>

\* recoverDurableWork
RecoverEvents ==
  /\ phase = "recover_events" /\ phase' = "ownership"
  /\ event' = EventsRecovered(Lapsed)
  /\ wake'  = WakesRecovered(Lapsed)
  /\ UNCHANGED <<cycle, speech, effect, seen, worker, served, frontier, turn>>

\* convergedCoveredSiblingEvents
LeftBehind ==
  {e \in Events : /\ Owner(e) /\ event[e].state \in Claimable
                  /\ LET w == event[e].wake
                     IN /\ WakesRetired(Ownerless)[w].state = "terminal"
                        /\ WakesRetired(Ownerless)[w].reason = "completed"
                        /\ speech[w] # "none"}

\* reconcileStartupOwnership, one transaction; then the consumers start.
ReconcileOwnership ==
  /\ phase = "ownership" /\ phase' = "running"
  /\ speech' = SpeechRetired(Ownerless)
  /\ cycle'  = CyclesRetired(Ownerless)
  /\ wake'   = WakesRetired(Ownerless)
  /\ event'  = [e \in Events |-> IF e \in LeftBehind THEN Closed(event[e], "terminal", "completed")
                                 ELSE event[e]]
  /\ UNCHANGED <<effect, seen, worker, served, frontier, turn>>
--------------------------------------------------------------------------------
Ingress ==
  \E c \in Conversations, e \in Events :
    \E w \in Wakes : \/ OwnerOpens(c, e, w) \/ OwnerComposes(c, e, w)
                     \/ \E old \in Wakes : OwnerPreempts(c, e, old, w)
                     \/ AdmitCompletion(c, e, w) \/ AdmitOwnTime(c, e, w)

Clock == \E e \in Events : DeadlineElapses(e) \/ AgeElapses(e)

OwnTime == LeaveOwnTime \/ \E e \in Events : ClaimOwnTime(e)

Poll(k) == \/ PollFindsNothing(k) \/ PollThrows(k) \/ \E e \in Events : PollClaims(k, e)

\* Passes interleave with one another and with everything else at their awaits, and the
\* admission of own time has none.
Settle(k) ==
  /\ phase = "running"
  /\ \/ SettleLost(k) \/ SettleCompleted(k) \/ SettleDeferred(k) \/ SettleRetry(k)
     \/ SettleTerminal(k) \/ SettleSuperseded(k) \/ SettleUnknown(k)

Think(k) ==
  /\ phase = "running"
  /\ \/ Begin(k) \/ ModelReturns(k) \/ FindsStale(k) \/ StopsForOwnerAnswer(k)
     \/ PublishRefused(k) \/ \E said \in {"queued", "silence", "mute"} : Publish(k, said)
     \/ Fail(k) \/ Abstain(k) \/ Transfer(k) \/ Defer(k) \/ Throw(k) \/ HoldCeiling(k) \/ DispatchEffect(k)

Reconcile ==
  \/ \E w \in Wakes : RetireOwnerlessCycle(w)
  \/ \E e \in Events : ReconcileStranded(e) \/ AbandonSpent(e) \/ RetireStale(e)
  \/ \E w \in Wakes : ConvergeOrphan(w)

Coordinate ==
  \/ \E f \in Events : FrontierExhausts(f) \/ TurnOpens(f)
  \/ TurnReturns \/ \E said \in {"queued", "silence", "mute"} : TurnPublishes(said)
  \/ TurnReplays \/ TurnFails \/ TurnDefers \/ TurnDispatches

Startup == RecoverWakes \/ RecoverEvents \/ ReconcileOwnership

Next ==
  \/ Ingress
  \/ Clock
  \/ OwnTime
  \/ \E k \in Consumers : Poll(k)
  \/ \E k \in Workers : Think(k) \/ Settle(k)
  \/ \E w \in Wakes : Deliver(w) \/ ResolveEffect(w)
  \/ Reconcile
  \/ Coordinate
  \/ Crash
  \/ Startup

\* Fairness: the poll loop and a started pass run on (setTimeout and awaited calls
\* return), clocks advance, the projector and the periodic reconciliation are timers,
\* and the startup sequence runs to its end.
Fairness ==
  /\ WF_vars(OwnTime)
  /\ \A k \in Consumers : WF_vars(Poll(k))
  /\ \A k \in Workers : WF_vars(Think(k)) /\ WF_vars(Settle(k))
  /\ \A e \in Events : WF_vars(DeadlineElapses(e)) /\ WF_vars(event[e].kind # "own_time" /\ ReconcileStranded(e))
  /\ \A w \in Wakes : WF_vars(Deliver(w)) /\ WF_vars(RetireOwnerlessCycle(w))
  /\ WF_vars(Startup) /\ WF_vars(Coordinate)

Spec == Init /\ [][Next]_vars
\* The host does not crash forever.
StaysUp  == <>[][~Crash]_vars
FairSpec == Spec /\ Fairness /\ StaysUp
--------------------------------------------------------------------------------
(* Properties.                                                              *)

\* Every row has its type.
TypeOK ==
  /\ event \in [Events -> EventRow]
  /\ wake \in [Wakes -> WakeRow]
  /\ cycle \in [Wakes -> CycleRow]
  /\ speech \in [Wakes -> SpeechStates]
  /\ effect \in [Wakes -> EffectStates]
  /\ seen \in [Wakes -> SUBSET Events]
  /\ worker \in [Workers -> Pass]
  /\ served \subseteq Conversations \X Conversations
  /\ frontier \in [Events -> FrontierStates]
  /\ turn \in Turn
  /\ phase \in Phases

\* A wake is authorized or consequence-pending only while the row its lease token names
\* is leased: claims, recovery and settlement move the event and the wake together.
HeldWake ==
  \A w \in Wakes : wake[w].state \in {"authorized", "consequence_pending"} =>
    \E e \in Events : /\ event[e].state = "leased" /\ event[e].wake = w
                      /\ Token(e) = wake[w].holder

\* One Thought per conversation: the consumers and the idle path, which claim through
\* different filters, never hold two rows of one conversation.
OneLeasePerConversation ==
  \A e, f \in Events : event[e].state = "leased" /\ event[f].state = "leased" /\ e # f
                         => Conv(e) # Conv(f)

\* While the outcome of an event is unknown, its wake cannot be claimed: neither the
\* recovery of a sibling nor a late settlement makes it pending again.
UnknownFenced ==
  \A e \in Events : event[e].state = "reconciling" =>
    wake[event[e].wake].state \in {"reconciling", "terminal"}

\* Work that is still owed belongs to a wake that can still be claimed.  The settlement
\* of one event, its exhaustion and its supersession all spare the siblings of the wake.
LiveObligationHasLiveWake ==
  \A e \in Events : event[e].state \in Durable => wake[event[e].wake].state # "terminal"

\* A wake that has not ended has an obligation that will end it, unless its last one was
\* deferred, or was retired while its outcome was unknown: those are all the orphans that
\* convergeOrphanPendingWakes and the operator are left with, and no completion,
\* exhaustion, supersession, preemption or recovery makes another.
OnlyDeferralOrphans ==
  \A w \in Wakes : wake[w].state \notin {"absent", "terminal"} =>
    \E e \in Events : /\ event[e].wake = w
                      /\ \/ event[e].state \in Durable
                         \/ event[e].reason = "deferred"
                         \/ event[e].reason = "stale" /\ wake[w].state = "reconciling"

\* An Owner message is completed only on a wake whose cycle settled, by its own pass, by
\* a sibling's, by a replay after a crash or by the startup convergence.
CompletedHasSettlement ==
  \A e \in Events : event[e].reason = "completed" /\ Owner(e) => speech[event[e].wake] # "none"

\* A generation hands its Owner obligations to its successor only if it settled nothing
\* itself: a settlement that exists is replayed, never thought again.
SupersededUnsettled ==
  \A e \in Events : event[e].reason = "superseded" => speech[event[e].wake] = "none"

\* A pass on an Owner message settles only while it holds the claim on that message: one
\* whose lease was recovered under it must not speak.  The turn of a frontier, whose
\* message is consumed, speaks for the cycle it was opened on.
OnlyHolderSettles ==
  [][\A w \in Wakes : cycle[w].trigger = "owner" /\ speech[w] = "none" /\ speech'[w] # "none" =>
       \E e \in Events : /\ event[e].wake = w
                         /\ \/ event[e].state = "leased" /\ \E k \in Workers : ClaimOf(k) = Token(e)
                            \/ event[e].reason = "deferred" /\ turn.frontier = e]_vars

\* What is over stays over: no recovery, late settlement or reconciliation reopens a
\* closed event or a terminal wake, or rewrites why it ended.
ClosedForGood ==
  [][/\ \A e \in Events : event[e].state \in {"terminal", "quarantined"} => event'[e] = event[e]
     /\ \A w \in Wakes : wake[w].state = "terminal" =>
          wake'[w].state = "terminal" /\ wake'[w].reason = wake[w].reason]_vars

\* How the rows read as statuses of obligations.
StatusOf(ev) ==
  [e \in Events |->
    CASE ev[e].state = "absent"      -> "unborn"
      [] ev[e].state \in Claimable   -> "waiting"
      [] ev[e].state = "leased"      -> "held"
      [] ev[e].state = "reconciling" -> "unknown"
      [] OTHER                       -> "closed"]

Fence == INSTANCE ObligationFence WITH
  Obligations  <- Events, Occurrences <- Wakes, Lanes <- Conversations,
  NoOccurrence <- NoWake, NoLane <- NoConversation,
  status <- StatusOf(event),
  occurrence <- [e \in Events |-> event[e].wake],
  lane <- [w \in Wakes |-> wake[w].conv]

\* The inbox is a fenced lock service: conversations are its lanes, wakes its
\* occurrences, and every ledger transaction is one of its steps.
ImplementsFence == Fence!Spec

\* Every Owner message comes to an end, through failures, retries and crashes: it is
\* answered, handed on or given up, or its outcome is known to be unknown.
OwnerAnswered ==
  \A e \in Events :
    (event[e].state \in {"pending", "retry_wait", "leased"} /\ Owner(e))
      ~> event[e].state \in {"reconciling", "terminal", "quarantined"}

\* A cycle does not occupy its conversation for ever, unless its wake awaits the truth
\* about an effect: delivery, settlement or the retirement of ownerless cycles ends it.
LaneReleased ==
  \A w \in Wakes : (cycle[w].state \in Occupying)
                     ~> (cycle[w].state = "silent" \/ wake[w].state = "reconciling")

\* Every wake reaches an end, or the state that says its outcome must be established.
WakeFinishes ==
  \A w \in Wakes : (wake[w].state # "absent") ~> (wake[w].state \in {"terminal", "reconciling"})

\* A cycle is retired only when it has no undelivered speech: an answer that waits for
\* delivery is suppressed by a newer generation of its conversation and nothing else.
AnswerNotDiscarded ==
  \A w \in Wakes : speech[w] = "suppressed" => \E v \in Wakes : cycle[v].parent = w

\* A sibling that no cognition covered keeps its claim to one: an Owner message that is
\* completed was read by the Thought that settled its cycle.
CompletedWasRead ==
  \A e \in Events : event[e].reason = "completed" /\ Owner(e) => e \in seen[event[e].wake]

\* No ending of one event closes a wake under an Owner message that still waits to be
\* claimed on it: exhaustion, supersession and success each leave such a wake pending.
OwnerKeepsWake ==
  \A e \in Events : Owner(e) /\ event[e].state \in Claimable
                       => wake[event[e].wake].state # "terminal"
================================================================================
