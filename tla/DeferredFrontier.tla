---------------------------- MODULE DeferredFrontier ----------------------------
(***************************************************************************)
(* One conversation, two drivers of Thought and the claim between them.      *)
(* The inbox consumer thinks about the message it leased.  When the provider *)
(* has no capacity, the message is consumed and a frontier row takes its     *)
(* place, which the frontier coordinator polls and thinks about without any  *)
(* inbox lease.  A row of cognition_claims, renewed before every provider    *)
(* call, is what keeps the two from thinking at once; it is a row, and so    *)
(* outlives the process that wrote it.                                       *)
(*                                                                          *)
(* A date is kept as the time left until it, -1 for any date in the past,    *)
(* and an age as the time since, up to the point where it no longer matters: *)
(* Tick moves all of them.  Cycles are numbered by generation.  Attempts at  *)
(* an event and the ledger around it are in DurableWork; here a turn that    *)
(* throws gives its event back until its attempts are used up.               *)
(***************************************************************************)
EXTENDS Integers

CONSTANTS
  LastEvent,      \* bound: events 1..LastEvent arrive, in this order
  LastCycle,      \* bound: cycles 1..LastCycle are admitted
  FrontierLease,  \* the 30 s of claimDueDeferredFrontier
  MaxWait,        \* CAPACITY_WAIT_MAX_DURATION_MS
  LongestHint,    \* bound: the farthest capacity a provider announces
  ClaimLease,     \* COGNITION_CLAIM_LEASE_MS
  MaxPasses,      \* MAX_THOUGHT_PASSES
  MaxAttempts,    \* attempts at an event
  MaxCrashes      \* bound: crashes in a behaviour

ASSUME FrontierAssumption ==
  /\ {LastEvent, LastCycle, LongestHint, MaxCrashes} \subseteq Nat
  /\ {FrontierLease, MaxWait, ClaimLease, MaxPasses, MaxAttempts} \subseteq Nat \ {0}

Events  == 1..LastEvent
Cycles  == 1..LastCycle
NoEvent == 0
NoCycle == 0

Consumer    == "consumer"
Coordinator == "coordinator"
Drivers     == {Consumer, Coordinator}
Gone        == "gone"    \* the holder of a claim that a crash left behind
Free        == "free"

VARIABLES
  event,     \* inbox_events: kind, state, cycle, attempts
  cycle,     \* cycle_records.state
  wake,      \* whether the wake of a cycle is live or terminal
  answered,  \* cycles with a published settlement
  frontier,  \* the latest row of deferred_reactive_frontiers
  claim,     \* the conversation's row of cognition_claims
  driver,    \* the turn each driver is in
  crashes    \* crashes so far

vars == <<event, cycle, wake, answered, frontier, claim, driver, crashes>>
rows == <<event, cycle, wake, answered, frontier>>

EventStates    == {"absent", "pending", "leased", "deferred", "subsumed", "done", "failed"}
CycleStates    == {"absent", "admitted", "thinking", "capacity_wait", "sending", "silent"}
FrontierStates == {"none", "waiting", "running", "resolved", "exhausted"}
Stages         == {"idle", "preparing", "calling", "projecting", "settling"}
Outcomes       == {"open", "published", "deferred", "stale", "refused", "failed"}

TypeOK ==
  /\ event \in [Events -> [kind: {"owner", "completion"}, state: EventStates,
                       cycle: Cycles \cup {NoCycle}, attempts: 0..MaxAttempts]]
  /\ cycle \in [Cycles -> CycleStates]
  /\ wake \in [Cycles -> {"none", "live", "terminal"}]
  /\ answered \subseteq Cycles
  /\ frontier \in [id: Nat, state: FrontierStates, cycle: Cycles \cup {NoCycle},
                   next: -1..LongestHint, left: -1..MaxWait, lease: -1..FrontierLease]
  /\ claim \in [holder: Drivers \cup {Gone, Free}, cycle: Cycles \cup {NoCycle}, left: -1..ClaimLease]
  /\ driver \in [Drivers -> [stage: Stages, event: Events \cup {NoEvent}, frontier: Nat,
                             cycle: Cycles \cup {NoCycle}, covers: SUBSET Events,
                             passes: 0..MaxPasses, since: 0..MaxWait + 1, age: 0..ClaimLease + 1,
                             outcome: Outcomes, next: 0..LongestHint]]
  /\ crashes \in 0..MaxCrashes

NoClaim == [holder |-> Free, cycle |-> NoCycle, left |-> 0]

IdleTurn ==
  [stage |-> "idle", event |-> NoEvent, frontier |-> 0, cycle |-> NoCycle, covers |-> {},
   passes |-> 0, since |-> 0, age |-> 0, outcome |-> "open", next |-> 0]

Init ==
  /\ event = [e \in Events |->
                [kind |-> "owner", state |-> "absent", cycle |-> NoCycle, attempts |-> 0]]
  /\ cycle = [c \in Cycles |-> "absent"]
  /\ wake = [c \in Cycles |-> "none"]
  /\ answered = {}
  /\ frontier = [id |-> 0, state |-> "none", cycle |-> NoCycle, next |-> 0, left |-> 0, lease |-> 0]
  /\ claim = NoClaim
  /\ driver = [d \in Drivers |-> IdleTurn]
  /\ crashes = 0

--------------------------------------------------------------------------------
(* What the code asks of its rows.                                          *)

Admitted == {c \in Cycles : cycle[c] # "absent"}
Open     == {c \in Admitted : cycle[c] # "silent"}
IsNewest(c, C) == c \in C /\ \A b \in C : b <= c

\* getActiveDeferredFrontier
Active == frontier.state \in {"waiting", "running"}

LiveEvents(c) == {e \in Events : event[e].cycle = c /\ event[e].state \in {"pending", "leased"}}

\* hasValidDurableContinuationOwner
HasOwner(c) ==
  CASE cycle[c] = "capacity_wait"           -> Active /\ frontier.cycle = c
    [] cycle[c] = "sending"                 -> TRUE
    [] cycle[c] \in {"admitted", "thinking"} -> wake[c] = "live"
    [] cycle[c] \in {"absent", "silent"}     -> FALSE

\* composeOrPreemptInTransaction: the message joins the current cycle.
Composes(c) == HasOwner(c) /\ cycle[c] # "sending" /\ wake[c] = "live"

--------------------------------------------------------------------------------
(* Arrivals.                                                                *)

NextEvent(e) == event[e].state = "absent" /\ \A f \in Events : f < e => event[f].state # "absent"
NextCycle(c) == cycle[c] = "absent" /\ \A b \in Cycles : b < c => cycle[b] # "absent"

Arrives(e, k, c, s) ==
  event' = [event EXCEPT ![e] = [kind |-> k, state |-> s, cycle |-> c, attempts |-> 0]]

\* While a frontier is active, an Owner message is consumed at once: its text joins
\* the cycle of the frontier.
OwnerSubsumed(e) ==
  /\ NextEvent(e) /\ Active
  /\ Arrives(e, "owner", frontier.cycle, "subsumed")
  /\ UNCHANGED <<cycle, wake, answered, frontier, claim, driver, crashes>>

OwnerComposes(e) ==
  /\ NextEvent(e) /\ ~Active
  /\ \E c \in Open : IsNewest(c, Open) /\ Composes(c) /\ Arrives(e, "owner", c, "pending")
  /\ UNCHANGED <<cycle, wake, answered, frontier, claim, driver, crashes>>

\* Nothing to compose with: the message silences the current cycle, if there is one,
\* and opens its own.
OwnerOpens(e, c) ==
  /\ NextEvent(e) /\ NextCycle(c) /\ ~Active
  /\ \A b \in Open : IsNewest(b, Open) => ~Composes(b)
  /\ Arrives(e, "owner", c, "pending")
  /\ cycle' = [b \in Cycles |-> IF b = c THEN "admitted"
                                ELSE IF IsNewest(b, Open) THEN "silent" ELSE cycle[b]]
  /\ wake'  = [b \in Cycles |-> IF b = c THEN "live"
                                ELSE IF IsNewest(b, Open) /\ ~(HasOwner(b) /\ LiveEvents(b) # {})
                                     THEN "terminal" ELSE wake[b]]
  /\ UNCHANGED <<answered, frontier, claim, driver, crashes>>

\* A detached operation reports back in a cycle of its own, which admitCycle refuses
\* while a frontier occupies the conversation.
CompletionArrives(e, c) ==
  /\ NextEvent(e) /\ NextCycle(c) /\ ~Active
  /\ Admitted # {}
  /\ Arrives(e, "completion", c, "pending")
  /\ cycle' = [cycle EXCEPT ![c] = "admitted"]
  /\ wake' = [wake EXCEPT ![c] = "live"]
  /\ UNCHANGED <<answered, frontier, claim, driver, crashes>>

--------------------------------------------------------------------------------
(* The claim of the conversation.                                           *)

\* claimConversationCognition: an absent row, or one that has expired.
MayClaim == claim.holder = Free \/ claim.left < 0

\* renewConversationCognition
MayRenew(d) == claim.holder = d /\ claim.left > 0

\* Fault: whoever leaves opens the gate.
Vacated(d) == NoClaim

\* releaseConversationCognition, of one's own claim only.
Released(d) == IF claim.holder = d THEN NoClaim ELSE claim

Claimed(d, c) == [holder |-> d, cycle |-> c, left |-> ClaimLease]

\* activeThoughtMayFinishWhileDetachedCompletionQueued: an unexpired claim names the
\* cycle, and the newest one is that of a completion that waits.
MayFinish(c) ==
  /\ claim.cycle = c /\ claim.left > 0
  /\ \E b \in Cycles : /\ IsNewest(b, Admitted)
                     /\ \E e \in LiveEvents(b) : event[e].kind = "completion"

\* currentLifecycleIs
Current(c) == IsNewest(c, Admitted) \/ MayFinish(c)

--------------------------------------------------------------------------------
(* A turn: runLiveCognitiveTurn and runCognitiveCycle.                      *)

\* The turn of driver d opens on cycle c.  It is refused if another holds the claim, and
\* replays the publication if the cycle already has one.
TurnOpens(d, turn) ==
  /\ driver' = [driver EXCEPT ![d] =
                  [turn EXCEPT
                     !.stage = IF MayClaim /\ turn.cycle \notin answered THEN "preparing" ELSE "settling",
                     !.outcome = IF ~MayClaim THEN "refused"
                                 ELSE IF turn.cycle \in answered THEN "published" ELSE "open"]]
  /\ cycle' = [cycle EXCEPT ![turn.cycle] = IF MayClaim THEN "thinking" ELSE @]
  /\ claim' = IF MayClaim /\ turn.cycle \notin answered THEN Claimed(d, turn.cycle)
              ELSE IF MayClaim THEN NoClaim ELSE claim

\* The consumer leases the head of the conversation and thinks about it.
ConsumerTakes(e) ==
  /\ driver[Consumer].stage = "idle"
  /\ event[e].state = "pending" /\ wake[event[e].cycle] = "live"
  /\ \A f \in Events : event[f].state = "pending" => e <= f
  /\ event' = [event EXCEPT ![e].state = "leased", ![e].attempts = @ + 1]
  /\ TurnOpens(Consumer, [IdleTurn EXCEPT !.event = e, !.cycle = event[e].cycle,
                                          !.covers = LiveEvents(event[e].cycle) \ {e}])
  /\ UNCHANGED <<wake, answered, frontier, crashes>>

\* listDueDeferredFrontiers and claimDueDeferredFrontier
Due == \/ frontier.state = "waiting" /\ frontier.next <= 0
       \/ frontier.state = "running" /\ frontier.lease <= 0

\* The cycle of the frontier has ended meanwhile: there is nothing to think about.
CoordinatorExhausts ==
  /\ driver[Coordinator].stage = "idle" /\ Due
  /\ cycle[frontier.cycle] \in {"silent", "sending"}
  /\ frontier' = [frontier EXCEPT !.state = "exhausted"]
  /\ UNCHANGED <<event, cycle, wake, answered, claim, driver, crashes>>

\* A wake that has ended makes the turn throw before it asks for the claim.
CoordinatorTakes ==
  /\ driver[Coordinator].stage = "idle" /\ Due
  /\ cycle[frontier.cycle] \notin {"silent", "sending"}
  /\ frontier' = [frontier EXCEPT !.state = "running", !.lease = FrontierLease]
  /\ LET turn == [IdleTurn EXCEPT !.frontier = frontier.id, !.cycle = frontier.cycle]
     IN IF wake[frontier.cycle] = "live" THEN TurnOpens(Coordinator, turn)
        ELSE /\ driver' = [driver EXCEPT ![Coordinator] =
                             [turn EXCEPT !.stage = "settling", !.outcome = "failed"]]
             /\ UNCHANGED <<cycle, claim>>
  /\ UNCHANGED <<event, wake, answered, crashes>>

\* The turn returns or throws; its claim is released in either case.
Returns(d, outcome, hint) ==
  /\ driver' = [driver EXCEPT ![d].stage = "settling", ![d].outcome = outcome, ![d].next = hint]
  /\ claim' = Released(d)

\* Before each provider call: renew the claim or throw, and go on only while current.
BeginsPass(d) ==
  /\ driver[d].stage = "preparing"
  /\ \/ /\ MayRenew(d) /\ Current(driver[d].cycle) /\ driver[d].passes < MaxPasses
        /\ claim' = Claimed(d, driver[d].cycle)
        /\ driver' = [driver EXCEPT ![d].stage = "calling", ![d].passes = @ + 1, ![d].age = 0]
     \/ MayRenew(d) /\ ~Current(driver[d].cycle) /\ Returns(d, "stale", 0)
     \/ ~MayRenew(d) /\ Returns(d, "failed", 0)
  /\ UNCHANGED <<rows, crashes>>

\* emitFailure: the cycle falls silent, unless it was overtaken.
Fails(d) ==
  LET c == driver[d].cycle IN
  /\ Returns(d, IF Current(c) THEN "failed" ELSE "stale", 0)
  /\ cycle' = IF Current(c) THEN [cycle EXCEPT ![c] = "silent"] ELSE cycle
  /\ UNCHANGED <<event, wake, answered, frontier, crashes>>

\* The time of the turn, or its passes, are used up.
PassesEnd(d) ==
  /\ driver[d].stage = "preparing"
  /\ MayRenew(d) /\ Current(driver[d].cycle)
  /\ Fails(d)

\* The provider answered something another pass has to follow.
NeedsPass(d) ==
  /\ driver[d].stage = "calling"
  /\ driver' = [driver EXCEPT ![d].stage = "preparing"]
  /\ UNCHANGED <<rows, claim, crashes>>

\* The call was refused for good; or it throws, and its cycle stays as it is.
CallFails(d) ==
  /\ driver[d].stage = "calling"
  /\ \/ Fails(d)
     \/ Returns(d, "failed", 0) /\ UNCHANGED <<rows, crashes>>

\* No capacity before the deadline of the call: the provider's hint comes back.
CallDefers(d, hint) ==
  /\ driver[d].stage = "calling"
  /\ Returns(d, "deferred", hint)
  /\ UNCHANGED <<rows, crashes>>

\* publishSemanticTransaction: a cycle that was overtaken publishes nothing, one whose wake
\* has ended is refused, and one that has a settlement replays it.
CallPublishes(d) ==
  LET c == driver[d].cycle
  IN /\ driver[d].stage = "calling"
     /\ \/ /\ Current(c) /\ wake[c] = "live"
           /\ answered' = answered \cup {c}
           /\ cycle' = [cycle EXCEPT ![c] = IF c \in answered THEN @ ELSE "sending"]
           /\ driver' = [driver EXCEPT ![d].stage = "projecting"]
           /\ UNCHANGED claim
        \/ /\ Current(c) /\ wake[c] # "live"
           /\ Returns(d, "failed", 0)
           /\ UNCHANGED <<answered, cycle>>
        \/ /\ ~Current(c)
           /\ Returns(d, "stale", 0)
           /\ UNCHANGED <<answered, cycle>>
     /\ UNCHANGED <<event, wake, frontier, crashes>>

\* After the answer was handed to the projector: the frontier the conversation has is
\* resolved, if somebody is running it.
Resolves(d) ==
  /\ driver[d].stage = "projecting"
  /\ frontier' = [frontier EXCEPT !.state = IF @ = "running" THEN "resolved" ELSE @]
  /\ Returns(d, "published", 0)
  /\ UNCHANGED <<event, cycle, wake, answered, crashes>>

--------------------------------------------------------------------------------
(* Settlement.  No timer lies between a turn's return and its settlement.   *)

\* Fault: a row put back is due again, however late.
NeverLate(d) == FALSE

\* rescheduleDeferredFrontier: past its deadline, or asked to wait until after it.  The
\* consumer settles with the time it took its event at.
TooLate(d) ==
  \/ frontier.left <= (IF d = Consumer THEN -driver[d].since ELSE 0)
  \/ driver[d].next > frontier.left

\* The consumer's time lies before any hint; the coordinator's may have reached it.
NotForward(d) == d = Coordinator /\ driver[d].next <= 0

Rescheduled(d) ==
  IF TooLate(d) \/ NotForward(d) THEN [frontier EXCEPT !.state = "exhausted"]
  ELSE [frontier EXCEPT !.state = "waiting", !.next = driver[d].next]

\* insertDeferredFrontierRecord, with the deadline counted from the time of the claim.
Inserted(d) ==
  [id |-> frontier.id + 1, state |-> "waiting", cycle |-> driver[d].cycle,
   next |-> driver[d].next, left |-> MaxWait - driver[d].since, lease |-> 0]

Freed(d) == driver' = [driver EXCEPT ![d] = IdleTurn]

\* An event ends, and with it the wake that no live event is left for.
EventsEnd(E, s) ==
  /\ event' = [e \in Events |-> IF e \in E THEN [event[e] EXCEPT !.state = s] ELSE event[e]]
  /\ wake' = [c \in Cycles |-> IF LiveEvents(c) # {} /\ LiveEvents(c) \subseteq E
                               THEN "terminal" ELSE wake[c]]

\* Fault: one attempt more than there are.
SpentLate(e) == event[e].attempts > MaxAttempts

Spent(e) == event[e].attempts >= MaxAttempts

\* The event is given back, to be claimed again if it may be.
GivenBack(e) ==
  IF Spent(e) THEN EventsEnd({e}, "failed")
  ELSE event' = [event EXCEPT ![e].state = "pending"] /\ UNCHANGED wake

\* settleDurableAttempt: completed, superseded, or thrown and given back.
ConsumerSettles ==
  LET t == driver[Consumer]
      e == t.event
  IN /\ t.stage = "settling" /\ t.outcome # "deferred"
     /\ \/ t.outcome = "published" /\ EventsEnd({e} \cup (t.covers \cap LiveEvents(t.cycle)), "done")
        \/ t.outcome = "stale" /\ EventsEnd({e}, "done")
        \/ t.outcome \in {"refused", "failed"} /\ GivenBack(e)
     /\ Freed(Consumer)
     /\ UNCHANGED <<cycle, answered, frontier, claim, crashes>>

\* settleDurableAttempt: the event is consumed and the frontier stands for it.
ConsumerDefers ==
  LET t == driver[Consumer]
  IN /\ t.stage = "settling" /\ t.outcome = "deferred"
     /\ event' = [event EXCEPT ![t.event].state = "deferred"]
     /\ cycle' = [cycle EXCEPT ![t.cycle] = "capacity_wait"]
     /\ frontier' = IF Active THEN Rescheduled(Consumer) ELSE Inserted(Consumer)
     /\ Freed(Consumer)
     /\ UNCHANGED <<wake, answered, claim, crashes>>

Mine == frontier.id = driver[Coordinator].frontier /\ Active

\* processDueFrontiers: published, thrown, or returned without a word.
CoordinatorSettles ==
  LET t == driver[Coordinator]
  IN /\ t.stage = "settling" /\ t.outcome # "deferred"
     /\ frontier' = IF ~Mine THEN frontier
                    ELSE IF t.outcome # "published" THEN [frontier EXCEPT !.state = "exhausted"]
                    ELSE [frontier EXCEPT !.state = IF @ = "running" THEN "resolved" ELSE @]
     /\ Freed(Coordinator)
     /\ UNCHANGED <<event, cycle, wake, answered, claim, crashes>>

\* processDueFrontiers: deferred again.  Past the deadline the cycle and its wake end; a
\* row that has ended meanwhile makes the settlement throw, and stays as it is.
CoordinatorDefers ==
  LET t == driver[Coordinator]
  IN /\ t.stage = "settling" /\ t.outcome = "deferred"
     /\ frontier' = IF Mine THEN Rescheduled(Coordinator) ELSE frontier
     /\ cycle' = [cycle EXCEPT ![t.cycle] = IF Mine /\ Rescheduled(Coordinator).state = "exhausted"
                                            THEN "silent" ELSE @]
     /\ wake' = [wake EXCEPT ![t.cycle] = IF Mine /\ TooLate(Coordinator) THEN "terminal" ELSE @]
     /\ Freed(Coordinator)
     /\ UNCHANGED <<event, answered, claim, crashes>>

--------------------------------------------------------------------------------
(* Maintenance, time and crashes.                                           *)

\* Delivery of the answer ends its cycle.
Delivers(c) ==
  /\ cycle[c] = "sending"
  /\ cycle' = [cycle EXCEPT ![c] = "silent"]
  /\ UNCHANGED <<event, wake, answered, frontier, claim, driver, crashes>>

\* retireOwnerlessCycles
Retires(c) ==
  /\ cycle[c] \in {"admitted", "thinking", "capacity_wait"} /\ ~HasOwner(c)
  /\ cycle' = [cycle EXCEPT ![c] = "silent"]
  /\ wake' = [wake EXCEPT ![c] = "terminal"]
  /\ UNCHANGED <<event, answered, frontier, claim, driver, crashes>>

\* recoverDurableWork: the lease of a dead consumer has lapsed.
LeaseLapses(e) ==
  /\ event[e].state = "leased" /\ driver[Consumer].event # e
  /\ GivenBack(e)
  /\ UNCHANGED <<cycle, answered, frontier, claim, driver, crashes>>

Sooner(n) == IF n < 0 THEN n ELSE n - 1
Later(n, most) == IF n < most THEN n + 1 ELSE n

Tick ==
  /\ \A d \in Drivers : driver[d].stage # "settling"
  /\ frontier' = [frontier EXCEPT !.next = Sooner(@), !.left = Sooner(@), !.lease = Sooner(@)]
  /\ claim' = [claim EXCEPT !.left = IF claim.holder = Free THEN @ ELSE Sooner(@)]
  /\ driver' = [d \in Drivers |->
                  [driver[d] EXCEPT
                     !.since = IF driver[d].stage = "idle" THEN @ ELSE Later(@, MaxWait + 1),
                     !.age = IF driver[d].stage = "calling" THEN Later(@, ClaimLease + 1) ELSE @]]
  /\ UNCHANGED <<event, cycle, wake, answered, crashes>>

\* The process dies and starts again.  The claim stays, with nobody left to release it.
Crash ==
  /\ crashes < MaxCrashes
  /\ crashes' = crashes + 1
  /\ driver' = [d \in Drivers |-> IdleTurn]
  /\ claim' = IF claim.holder = Free THEN claim ELSE [claim EXCEPT !.holder = Gone]
  /\ UNCHANGED rows

--------------------------------------------------------------------------------
TurnStep(d) ==
  \/ BeginsPass(d) \/ PassesEnd(d) \/ NeedsPass(d) \/ CallFails(d)
  \/ CallPublishes(d) \/ Resolves(d)
  \/ \E hint \in 0..LongestHint : CallDefers(d, hint)

CoordinatorStep == CoordinatorExhausts \/ CoordinatorTakes \/ CoordinatorSettles \/ CoordinatorDefers

Next ==
  \/ \E e \in Events :
       \/ OwnerSubsumed(e) \/ OwnerComposes(e) \/ ConsumerTakes(e) \/ LeaseLapses(e)
       \/ \E c \in Cycles : OwnerOpens(e, c) \/ CompletionArrives(e, c)
  \/ \E d \in Drivers : TurnStep(d)
  \/ \E c \in Cycles : Delivers(c) \/ Retires(c)
  \/ ConsumerSettles \/ ConsumerDefers \/ CoordinatorStep
  \/ Tick \/ Crash

Spec == Init /\ [][Next]_vars

\* The coordinator's timer is armed again after every poll, provider calls end, a turn
\* that has begun runs on, and time passes.
FairSpec ==
  /\ Spec
  /\ WF_vars(CoordinatorStep) /\ WF_vars(ConsumerSettles \/ ConsumerDefers)
  /\ \A d \in Drivers : WF_vars(TurnStep(d))
  /\ WF_vars(Tick)

--------------------------------------------------------------------------------
(* Properties.                                                              *)

\* The call of d has outlasted the lease it was made under.
Overdue(d) == driver[d].age > ClaimLease

\* Two Thoughts about one conversation run at once only if one of the calls has outlasted
\* the claim it renewed, whatever happens to the claim between takeover, release, crash
\* and restart (cognition-claim.ts: "at most one live cognition execution").
OneThinker ==
  (\A d \in Drivers : driver[d].stage = "calling") => \E d \in Drivers : Overdue(d)

\* A frontier does not wait for ever: it is resolved or exhausted, though providers keep
\* naming new dates and the host crashes while somebody runs it.
FrontierEnds ==
  \A n \in 1..LastEvent : (Active /\ frontier.id = n) ~> ~(Active /\ frontier.id = n)

\* What a refused turn was about is due again, or waits to be (live.ts: "its event retries
\* naturally"), unless its attempts are used up.
RefusedRetries ==
  [][\A d \in Drivers :
       /\ driver[d].outcome = "refused" /\ driver'[d].stage = "idle"
       /\ driver[d].event # NoEvent => ~Spent(driver[d].event)
       /\ crashes' = crashes
       => IF d = Consumer THEN event'[driver[d].event].state = "pending"
          ELSE Active' /\ frontier'.id = driver[d].frontier]_vars
================================================================================
