# Verification of Ashley's cognitive kernel

Ashley is a companion agent. Its core, `apps/agent-service/src/core/cognitive-v021/` (the
*kernel*, paths below are relative to it), receives messages of its Owner, results of
detached operations and occasions of its own, thinks about each in a *pass* that awaits a
language model, and commits what the pass decided: speech to deliver, effects to execute,
memory to keep. Everything that must survive a crash lives in one SQLite database, the
*sidecar*. This directory holds TLA+ models of that durable core, TLC configurations that
check them on small instances, and TLAPS proofs of the properties that matter most.

## 1. The system

| component | state it keeps | operations | hard behaviour |
|---|---|---|---|
| durable work ledger (`retry/ledger.ts`, `policy.ts`, `scheduler.ts`) | `inbox_events` durability columns, `durable_attempts`, `retry_lane_fairness` | claim, renew, settle, recover lapsed claims, promote due retries, quarantine exhausted work, supersede, reconcile unknown outcomes | leases against living passes, several rows of one wake, normalisation that runs inside every claim |
| wake ledger (`wake/ledger.ts`) | `wakes`: state, reason, lease token | admit, claim, authorize, begin consequence, finish, cancel, recover | the wake and its events must move together |
| inbox and consumer loop (`cycle/inbox.ts`, `inbox-consumer.ts`) | `inbox_events`; the poll loop and the hold of a pass in memory | append, claim, consume, hold, release at the ceiling | two claimers with different filters; renewal races the end of a pass |
| Owner ingress fence (`cycle/fence.ts`, `cycle/active.ts`) | `cycle_records`, generations | open, compose into, or preempt the current cycle | a message that arrives at any await of a running pass |
| Owner coverage (`cycle/owner-coverage.ts`, `owner-obligation.ts`) | the obligations a pass covers | capture at dispatch, hold before an answer, proof of supersession | captured before an await, used after it |
| cognitive pass (`thought/run.ts`) | an attempt on a cycle, in memory | replay, call the model, check its lifecycle, publish, fail, abstain, transfer | the longest chain of awaits of the system |
| publication (`settlement/publish.ts`) | settlements, `speech_outbox` | fence and commit the semantic transaction | commits before the attempt itself is settled |
| delivery (`speech/outbox.ts`, `delivery/*`) | outbox rows, delivery receipts | project, confirm bubbles, report partial delivery | crash between bubbles; transport away |
| effect ledger (`effect/in-flight.ts`, `proposal.ts`, `recovery.ts`) | `in_flight_effects`, receipts | put in flight, record a receipt, mark unknown, resolve | dispatched and never receipted; late receipts |
| outcome-unknown recovery (`retry/startup-outcome-recovery.ts`) | – | prove that nothing left the process, make work retryable | runs beside live passes |
| ownership reconciliation (`cycle/reconcile.ts`) | – | retire cycles nobody owns, startup convergence | must not retire what somebody still owns |
| Owner recovery (`retry/owner-recovery.ts`) | repair events and their lineage | repair unanswered messages, notify | repairs that fail themselves |
| capacity frontier (`frontier/*`) and conversation claim (`cycle/cognition-claim.ts`) | `deferred_reactive_frontiers`, `cognition_claims` | defer, subsume, claim, renew, reschedule, resolve, exhaust | two drivers of Thought; 30 s lease under a longer pass; claims that outlive their process |
| private budget (`private-budget/*`) | reservations, further attempts, the policy clock | reserve, bind, commit, record, continue, release, expire, recover | wall clock steps back; a call of unknown outcome; revisions of the policy |
| worker queue (`operation/*`) | undertakings, the execution slot, detached operations | enqueue, select, dispatch, cancel, complete, repair | three rows that must agree after a crash |
| periodic schedule, future triggers (`initiative/*`) | schedules and occurrences | mint, freeze, clear, fire | epochs and clock jumps between transactions |
| idle path (`initiative/idle.ts`, `agent.ts` `privateThoughtRunner`) | – | admit own time and claim it | claims without the consumer's filter |
| startup (`serve.ts`, `sidecar/recovery.ts`) | – | recover wakes, recover events, reconcile ownership, start consumers | crash between two of these |

Every ledger call is one `BEGIN IMMEDIATE` transaction of SQLite, so callers interleave at
ledger calls only, and the one JavaScript thread interleaves at `await` only. What makes the
system hard is therefore not memory but *time between two transactions*: a pass captures
rows, awaits a model for seconds or minutes, and comes back to rows that an Owner message, a
lapsed lease, another pass, the reconciliation timer or a restart has changed.

`PROJECT.json` lists every component, modelled or not, and the hazards with their lines.

Correctness, per component, is:

* *ledger and wakes*: one leased row per conversation; the wake and the row under one token;
  work still owed never loses its wake; what is closed stays closed; attempts are bounded;
  nothing whose outcome is unknown is repeated;
* *ingress and coverage*: an Owner message is never consumed without an answer, a successor
  or a verdict; a generation never answers for its successor;
* *pass and publication*: at most one settlement per cycle, by the holder of the claim;
* *delivery*: what was settled is delivered or superseded, and nothing else;
* *everything*: every message, cycle and wake comes to an end if the host stays up.

## 2. Plan

1. `ObligationFence` (abstract: a fenced lock service) and `DurableWork` (the durable inbox
   with wakes, cycles, passes, reconciliation, crash and startup) – **done**;
   `DurableWorkProofs`, `ObligationProofs`, `SettlementProofs`, `LiveWakeProofs` – **done**.
2. `OneWorker` (abstract: a service with one worker), `WorkerQueue` (undertakings, detached
   operations, the execution slot, the service pass, crash and startup) and `WorkerTurns` (its
   calendar, watched) – **done**; `WorkerQueueProofs`, `WorkerTurnsProofs` – **done**. Left: the reader of detached
   operations in `retry/owner-recovery.ts`, with `OwnerRecovery`.
3. `RateLimit` (abstract: so many grants in any window), `PrivateBudget` (reservations, further
   attempts, the policy clock, startup recovery) and `PrivateBudgetProofs` – **done**.
4. `DeferredFrontier` (the consumer, the coordinator and the conversation's claim between them)
   and `DeferredFrontierProofs` – **done**.
5. Not begun, in this order: `EffectLedger` (receipts, the occupancy of a wake, the idempotency
   key; `DurableWork` keeps its flag of it), `Delivery` (bubbles, receipts, a crash between
   bubbles), `OwnerRecovery` (repairs and their lineage), `PeriodicSchedule`.

## 3. The modules

### DurableWork

One module for the ledger, the wakes, the cycles and the passes, because the code's hazards
lie between them: almost every transaction of `retry/ledger.ts` also calls `wake/ledger.ts`
and `cycle/*`, and the interesting bugs are rows of different tables that disagree.

| variable | rows |
|---|---|
| `event` | `inbox_events` with the durability columns: `state`, `attempts`, `elapsed` (lease or retry delay is over), `aged` (retry age is over, noticed at the latest when a claim reads it), `reason` |
| `wake` | `wakes`; `holder` is the lease token, `<<event, attempt>>`, the same one in both rows |
| `cycle` | `cycle_records`: `open` stands for intake, assembling and thinking |
| `speech` | settlement and outbox of the cycle: nothing, `silence`, `mute` (settled without speech while a consequence is pending), `queued`, `delivered`, `suppressed` |
| `effect` | whether the cycle has an unresolved row in `in_flight_effects` |
| `seen` | which Owner messages the settled Thought had read (a history variable) |
| `worker` | the pass each claimer is running: its stage, claim and captured coverage |
| `served` | `retry_lane_fairness`, as the order it induces |
| `frontier` | `deferred_reactive_frontiers`, by the event whose deferral opened the row: none (also resolved or exhausted), waiting, running |
| `turn` | the turn the frontier coordinator is running: where it is, for which frontier, and what it has read |
| `phase` | running, claiming own time, or one of the startup transactions |

Actions follow the code: `OwnerOpens`, `OwnerComposes`, `OwnerPreempts` are the three
outcomes of `composeOrPreemptInTransaction`; `PollFindsNothing`, `PollClaims`, `PollThrows`
are the outcomes of `claimNextDurableWork` with the whole normalisation
(`EventsNormalized`, `WakesNormalized`, `CyclesNormalized`) inside the same step; `Begin`,
`ModelReturns`, `FindsStale`, `StopsForOwnerAnswer`, `PublishRefused`, `Publish`, `Fail`,
`Abstain`, `Transfer`, `Defer`, `Throw`, `HoldCeiling`, `DispatchEffect` are the steps of a
pass between its awaits; `Settle*` are the branches of `settleDurableAttempt`; `Deliver`,
`RetireOwnerlessCycle`, `ReconcileStranded`, `AbandonSpent`, `RetireStale`, `ConvergeOrphan`,
`ResolveEffect` run beside them; `Crash` forgets `worker` and `turn` and enters the startup
sequence `RecoverWakes`, `RecoverEvents`, `ReconcileOwnership`.

A deferral (`SettleDeferred`) consumes the event and leaves its wake pending with a frontier
instead of an event. `Coordinate` is what `processDueFrontiers` then does to the rows of this
module: `TurnOpens`, `TurnReturns`, `TurnPublishes`, `TurnReplays`, `TurnDispatches`, `TurnDefers`,
`TurnFails` and `FrontierExhausts`. Such a turn leases neither the event nor the wake, so it runs
beside the consumer's passes on the same cycle. `DeferredFrontier` is the same machine seen from
the other side, with its dates and claims and without the siblings of a wake.

Abstractions, all of them deliberate:

* *Time* is three flags. A lease that is renewed does not change; `lapse` in `Disturbances`
  lets one lapse under a living pass, as `renewCoupledThoughtHold` allows. The grace of five
  minutes before a cycle is retired is dropped: it may be retired as soon as it is ownerless.
* *What a disturbance is.* `Disturbances` selects what may go wrong or be decided in a run
  besides the plain answer: `lapse`, `age`, `crash`, `throw`, `reject` (validation rejects the
  settlement), `fail`, `abstain`, `transfer`, `effect`, `defer`. Everything else is always enabled.
* *Dates of a frontier.* Here a frontier may come due, be refused, be put off or be past its
  deadline at any time; `DeferredFrontier` says when. The conversation's cognition claim is there
  too: `CompletionQueued` drops the condition that the active Thought holds an unexpired one, so
  a pass may go on here where the code might stop it. The await of the projection between a
  publication and the resolution of the frontier is not split here but there (`Resolves`).
* *The recovery of wakes and rows.* `RetireStale` drops the 24 hours and asks for any delivered
  answer in the conversation; `ConvergeOrphan` drops what only protects a wake for a while
  (a notice, a detached operation, an undertaking, an active repair).
* *Owner undertakings.* `ValidOwner` leaves out `hasActiveOwnerWorkerUndertaking`, one more reason
  for which a cycle is owned; undertakings are rows of `WorkerQueue` only.
* *Budget of a private pass.* Whether an own-time pass with an unknown outcome has spent its
  budget is a free choice between `ReconcileStranded` and `AbandonSpent`.
* *Claim by event id.* The idle path's claim does not filter the leased rows of the
  conversation; the unique index `idx_one_active_conversation_lane` refuses it and rolls the
  normalisation back. That is `LeaveOwnTime`. A refused claim of a consumer is no step.
* *Left out*: repair events of Owner recovery, recovery events for unknown effects, batch limits
  of the timers, the social variants of the fence, and the content of everything. An Owner message
  that arrives under an active frontier is consumed at once and changes no row of this module.

### ObligationFence

What the inbox promises, in five statuses: an obligation is unborn, waiting, held, unknown
or closed. Per lane at most one is held; while one of an occurrence is unknown none of that
occurrence is taken; closed is for good. `DurableWork` is mapped onto it (`Fence`): each
transaction, normalisation and claim included, is one `Admit`, `Sweep`, `Take`, `Resolve`
or a stutter.

### WorkerQueue

A Thought that wants a project inspected *admits* an undertaking; the service pass *selects* one
at a time, *binds* it to a detached operation and awaits the worker; the end of the operation is
*projected* back onto the undertaking and *completed* by an inbox event that wakes Thought (in
`DurableWork` that event is the arrival of a completion).

| variable | rows |
|---|---|
| `state`, `queued_at`, `selected`, `asked`, `later` | `worker_undertakings`: state, order of arrival, calendar index, cancellation asked for, next probe still ahead |
| `op` | `detached_operations.state`; `none` while there is no row. The operation's id is a function of the undertaking's, so one function serves both keys |
| `slot` | `worker_execution_slot.undertaking_id` |
| `cursor` | `worker_undertaking_scheduler.cursor`, counted from one |
| `woken` | operations with a `completion_event_ref` |
| `overdue`, `outlived` | the clock has passed the operation's deadline, the curiosity's time to live |
| `pass` | where the service pass, or the startup sequence, is; whom it serves; and whether that one's deadline had passed when the pass read the clock |
| `runs`, `faults` | history: calls of the worker; crashes and lost projections |

The pass (`serviceWorkerUndertakingsOnce` and what it calls) goes through `idle`, `expire`,
`recover`, `settle`, `converge`, `probe`, `current`, `bind`, `start` or `cancel`, `started`,
`worker`, `complete` and `project`. It is single-flight, and it awaits at `probe`, `current`,
`start` and `worker` only: there, and between two passes, work is admitted, cancelled and time
advances (`Awaiting`). A crash may fall before any stage, that is between any two transactions.
The slot transactions are operators shared by their callers: `Project`, `Requeue`,
`MarkRunning`, `Repair`, `Released`, `Reconciled`.

Abstractions:

* *Time.* A pass reads the clock once. The flags therefore change at its awaits but are acted
  upon by the next pass; the one value of the past that survives an await is `pass.late`.
  Claims of 120 s may lapse before any pass (`PassRecovers` chooses which).
* *Disturbances*: `cancel`, `probe_waits`, `probe_denies`, `worker_fails`, `stale` (the
  commitment is no longer current), `invalid` (a stored request that cannot be dispatched),
  `ttl`, `deadline`, `crash`, `lost` (a callback or the completion of an operation throws; the
  dispatcher swallows it). `MaxFaults` bounds crashes and losses.
* *Cancellation* has an API and no caller in production; it is modelled because every later
  transaction provides for it.
* *Left out*: repeated admissions (they find the row), `supersedeDetachedOperation` and the
  state `stopped` (no caller), `blocked_reason`, rows of schema 21, and the branch of the
  convergence loop that dispatches again: the repair that precedes it requeues every slot holder
  that has not started, so only `SlotBusy` is left of it.

`WorkerTurns` adds two history variables, `ready` (which origins had work at the selection) and
`passed` (starts of others each of them has watched since), and states `ServedInTurn` on them.

### OneWorker

What the queue promises: a job is absent, waiting, working or over; one job is working at a
time; none returns from working to waiting, and none leaves over. `Status` reads it off the
undertaking and the operation.

### PrivateBudget

A thought of her own costs one reservation in a rolling window. The turn that thinks it *binds*
the reservation to an invocation, is admitted by the attention gate, *commits* just before the
adapter is called and *records* the response; repairs and continuations are further attempts in
rows of their own (`child`, ordinals from two). Every ledger call is one transaction, so a crash
or another conversation comes between any two.

| variable | rows |
|---|---|
| `clock`, `current` | `private_budget_policy_clock.last_policy_now_ms`; the current row of `private_budget_policies` |
| `state`, `time`, `revision`, `truth`, `proof` | `private_budget_reservations`: state, `policy_time_ms`, policy fingerprint, `dispatch_truth`, whether a release proof is recorded |
| `child` | `private_budget_attempt_bindings`: `dispatch_truth`, or `released` with its proof |
| `owned` | whether the wake has a durable continuation owner (`cycle/inbox.ts`), which the settlements ask |
| `turn` | the turn under each reservation, in memory: where it is and with which attempt |
| `host` | up, or the stage of startup: expiry, recovery, configuration |
| `sent`, `answered` | history: attempts with which the provider was called, and was seen to answer |

`CallsProvider` lies between `Commits` and `ResponseRecorded` or `ResponseLost`, so a crash may
fall on either side of the call. Wall-clock readings are inputs: `ReservePrivateThought` and
`RecoveryExpires` take any reading of `Time`, forwards or back. The error paths of
`mistral-client.ts` are `NotSent` (proof recorded, parent released or kept for a compose),
`CommitRefused` and `FailsUnresolved`.

Abstractions: one policy id, because each has rows and a clock of its own. Recovery asks a
receipt resolver that production never passes (`recoverPrivateBudget` is called without
`resolveReceipt`), so only the branches without a receipt are there. A failover between credentials
is disabled under a private binding (`thought/run.ts:1665`), so an invocation makes one attempt.

### RateLimit

What the budget promises: grants in the order of a clock that never runs back, never more in a
window than the terms they were given under allow, used grants never refunded.

### DeferredFrontier

One conversation and the two drivers that think about it: the inbox consumer, which holds a
lease on a message, and the frontier coordinator, which holds the 30 s lease of a frontier and no
inbox lease. `cognition_claims` is what keeps them from thinking at once.

| variable | rows |
|---|---|
| `event` | `inbox_events`: kind, state, cycle, attempts; `deferred` and `subsumed` are the two reasons of consumption this module is about |
| `cycle`, `wake`, `answered` | `cycle_records.state`, whether the wake is live, and whether the cycle has a settlement |
| `frontier` | the latest row of `deferred_reactive_frontiers` (at most one is active), with the time left until its next date, deadline and lease |
| `claim` | the conversation's row of `cognition_claims`; `Gone` is a holder that died |
| `driver` | the turn of each driver: `preparing`, `calling`, `projecting`, `settling` |

`ConsumerTakes` and `CoordinatorTakes` include the opening of the turn (no await lies between);
`BeginsPass` renews the claim and checks that the cycle is current; `CallFails`, `CallDefers`,
`CallPublishes`, `NeedsPass` are the ends of a provider call, of which a failure silences its cycle
(`Fails`, after `emitFailure`) and an exception leaves it as it is; `Resolves` follows the projection
of the answer; `ConsumerSettles`, `ConsumerDefers`, `CoordinatorSettles`, `CoordinatorDefers`
are the settlements. `Tick` moves every date; it does not pass between the return of a turn and
its settlement, where the code does not yield to a timer.

Abstractions: what happens to an event that a turn gives back is `DurableWork`; here it is
claimable again until its attempts are used up. The idle path, the budget gate of a frontier turn and the passes of other
conversations, which the coordinator takes one after the other, are left out. The hint of a provider
is any date up to `LongestHint`.

### The proof modules

`DurableWorkProofs` and, on top of it, `ObligationProofs`, `SettlementProofs` and
`LiveWakeProofs`; `WorkerQueueProofs`, `WorkerTurnsProofs`, `PrivateBudgetProofs`,
`DeferredFrontierProofs` (section 6).

## 4. The runs

| run | instance | states | shows |
|---|---|---|---|
| `lanes` | a consumer, the idle path and the frontier coordinator on 1 conversation, 2 events of any kind, 2 wakes; lapse, throw, effects, deferral | 1.5 M | the lock: `HeldWake`, `OneLeasePerConversation`, `OnlyHolderSettles`, `UnknownFenced`, the refinement `ImplementsFence`; `CompletedHasSettlement`; what may leave a wake without work: `OnlyDeferralOrphans` |
| `live` | 2 conversations under one consumer, 2 Owner messages, 2 wakes; lapse, crash, throw, age, fail, reject, abstain, transfer | 198 k | `HeldWake` through lapses and restarts; with nothing deferred: `LiveObligationHasLiveWake`, `SupersededUnsettled`, `ClosedForGood`, `TypeOK`; liveness: `OwnerAnswered`, `LaneReleased`, `WakeFinishes` |
| `answer`, `unread`, `abstained` | one to three messages | < 100 k | three findings of section 5 |
| `worker_slot` | a commitment and a curiosity, every disturbance, 2 faults | 1.05 M | the three rows agree: `SlotHeld`, `WorkedOnce`, `VerdictAgrees`, `WakesAfterTruth`, `TypeOK`, and the refinement `ImplementsOneWorker` |
| `worker_ends` | the same, waits, deadlines, a crash or a loss, fair | 12 k | liveness: `UndertakingEnds` |
| `worker_turns` | three Owner requests, a commitment, two curiosities; room for three, one of them a curiosity; a crash or a loss | 0.45 M | `ServedInTurn`, `WithinBounds` |
| `worker_untold` | one commitment, a deadline and a crash, fair | < 200 | a finding of section 5 |
| `rate` | 2 thoughts, 3 attempts each, a limit of one revised to two, a window of 2 in 4 readings of the clock; crashes anywhere, any number of them | 1.7 M | `WithinRate`, `CalledKeepsCapacity`, `NoBlindRedispatch`, `ProofsAreTrue`, `TypeOK`, and the refinement `ImplementsRateLimit` |
| `frontier` | 2 events (Owner messages or a completion), 2 cycles, calls of any length, hints past the deadline, a crash, fair | 0.7 M | `OneThinker`, `TypeOK`; liveness: `FrontierEnds` |
| `refused` | one message, one crash | 1 k | a finding of section 5 |

The MC modules only give model constants (`Serves`, `OriginKind`, `Limit`) a value and state the
symmetries of interchangeable requests and admissions.

*Bounds of `DurableWork`.* `LastEvent` and `LastWake` bound what arrives; `MaxAttempts` is 2 or 3 instead of
5. Two messages give composition, preemption and a sibling on one wake. Two
attempts give a first, a retried and an exhausted one; apart from the length of the retry
delay, nothing in the code looks at an attempt number other than by comparison with the
maximum or with the attempt of a claim. Two wakes give a generation and
its successor. `lanes` leaves transfers out, because the invariant
`CompletedHasSettlement` is about what is completed by an answer: a transfer completes a message
on a successor's account; the age of work and the crash are in `live` and in the theorems (`lanes` with
a crash besides has 2.9 M states, and its properties hold there too). `live` has Owner
messages only, because `LiveObligationHasLiveWake` is false of events of other kinds (`abstained`),
and no deferral, under which it, `OwnerAnswered`, `LaneReleased` and `WakeFinishes` are false too
(section 5); that every frontier ends is the subject of `frontier`. All runs of `DurableWork` turn deadlock checking
off: arrivals are bounded, so the system comes to rest.

*Bounds of `WorkerQueue`.* Two undertakings contend for one slot, and a third would find it
taken in the same way; commitment and curiosity are the two origins the code treats specially,
an Owner request having a subset of the steps of a commitment. `ScanLimit` 1 stands for the
100 rows the expiry reads, so that one curiosity is inside and one may lie beyond. Two faults
give a crash during the recovery from a crash. In `worker_turns` six undertakings pass through
a queue of three, and two curiosities contend for one place, so that both bounds refuse work.
The start that `ServedInTurn` allows for each fault is really taken: a crash between a start and
the move of the calendar leaves the class where it was, and it is selected again. Waits for
capacity are left to `worker_slot` and to the theorem. The bound of the Owner (one start of another class) is reached, those of commitments (three) and
of curiosity (six) need more undertakings than can be checked; selecting the oldest regardless
of the calendar breaks the Owner's.

*Bounds of `PrivateBudget`.* Two thoughts and a window shorter than the clock's range give a
full window, a row that expires under a turn that has bound it, and a revision while the other
policy's row still counts. Three attempts give a continuation whose predecessor is itself one.
The bound on attempts is in the code; crashes are not bounded. `Tolerance` 1 lets a reading fall
back by an accepted and by a refused step.

*Bounds of `DeferredFrontier`.* `FrontierLease` < `MaxWait` < `ClaimLease` keep the order of
30 s, 120 s and 600 s, and `LongestHint` lies past the deadline. Two cycles give a frontier, its
successor, and a completion behind either. `MaxPasses` is 1 instead of 6: the second pass of a
turn renews the same claim in the same way, and the proofs hold for any number.

*Fairness of `DurableWork`* (`FairSpec`). Weak fairness of the poll loop (`setTimeout` re-arms it
unconditionally), of a started pass and its settlement (awaited calls return or are aborted
by a deadline), of deadlines (clocks advance), of delivery (the projector's timer), of the
retirement of ownerless cycles and of outcome-unknown recovery (one timer), and of the
startup sequence. `StaysUp` says that the host does not crash for ever. No fairness is
assumed of ingress, lapses under a living pass, age, failures or effects: an effect whose
receipt never comes stays unresolved, which is why `LaneReleased` and `WakeFinishes` accept
a reconciling wake as an end.

*Fairness of `WorkerQueue`* (`FairSpec`). Weak fairness of the pass (maintenance calls it on an
interval and its awaits return: the probe is a bounded request and the worker runs under a
deadline of its own) and of the startup sequence. Strong fairness of `DeadlinePasses` and
`ProbeDue`, because the clock advances whatever the pass is doing, while the model ticks only
where the pass yields. Strong fairness of `ProbeAvailable` and of the start, because a worker
that stays unavailable for ever rightly keeps the queue waiting. None of admission,
cancellation, crashes or losses.

*Fairness of `DeferredFrontier`* (`FairSpec`). Weak fairness of the coordinator (its timer is
armed again in a `finally`), of the settlements and of the steps of a turn that has begun
(provider calls run under a deadline), and of time. None of arrivals, of the consumer's polls,
of delivery or of crashes. `PrivateBudget` has safety properties only: nothing obliges her to think.

## 5. Findings

Five runs end in a violation of something the repository says; each was followed step by
step in the code.

* `answer` – a pass repeated after a crash marks the cycle "assembling" before it replays
  the settlement. The queued outbox row then no longer counts as an owner of the cycle, and
  once the replay has completed the wake, `retireOwnerlessCycles` suppresses the answer,
  against `cycle/reconcile.ts:281-283`.
  The crash is not needed: a message that is composed after the claim is claimed once the first
  has been completed, and its own pass marks the cycle "assembling" in the same way.
* `unread` – an Owner message composed between the draft and its settlement is completed by
  a replay of a settlement that never read it, against `retry/ledger.ts:366-367`.
* `abstained` – an Owner message composes into the open cycle of a completion, and Thought
  abstains on the completion. The ledger ends the wake as `no_action`, a reason for which
  `finishWakeForEvent` does not look for siblings; the Owner's message stays pending on a
  terminal wake, heads its conversation and is never claimed, against
  `retry/ledger.ts:354-355` and `owner-obligation.ts:159`. Two relatives have no run of
  their own: own time that is preempted while pending keeps its event and loses its wake
  (against `cycle/fence.ts:457-459`), and when that event ages out, the normalisation of every
  claim throws `wake_terminal_conflict`.
* `worker_untold` – after a crash in the middle of a worker, the pass of the restarted host
  itself finds the operation unknown when its deadline comes (`operation/dispatch.ts:607`); the
  repair of the next line projects it and frees the slot, so the loop after it has nothing to
  announce, and the backfill runs at startup only (`serve.ts:658`). Thought learns of that
  outcome after the next restart, against `operation/completion.ts:271-272`.
* `refused` – after a crash during the pass of a frontier, the restarted coordinator claims
  the frontier when its 30 s have lapsed, is refused by the dead process's claim of 600 s, and
  its `catch` exhausts the frontier. The messages it stood for are consumed, so nobody takes
  them up again, against `cycle/cognition-claim.ts:11-13` and `dispatch/live.ts:319-320`. With two
  cycles in the conversation the claim of a living pass on the other cycle refuses in the same way.

Other behaviours of the model that a maintainer may want to know, without a line of the
repository that they contradict:

* a row whose outcome is unknown is retired as stale without its wake
  (`retry/owner-recovery.ts:752-770`), which stays `reconciling` for good: recovery needs the row, and
  `convergeOrphanPendingWakes` looks at pending wakes only;
* a second deferral that is settled while another cycle's frontier is active reschedules or
  exhausts *that* frontier (`retry/ledger.ts:1013-1015`) and leaves its own cycle in
  `capacity_wait` without one, its event consumed;
* the coordinator lists what is due with one reading of the clock and awaits a whole turn per
  frontier, so a later one is claimed with a lease that may already have expired;
* a publication resolves whatever frontier of the conversation is running, also another cycle's
  (`thought/run.ts:5269-5272`);
* an Owner message that arrives while the frontier's pass is running is consumed at once
  (`ingress/http.ts:228-267`) though the running Thought may not have read it;
* a message that was composed into a cycle before its deferral stays pending beside the frontier.
  If it is not claimed first, it can lose its wake to the frontier: the frontier is exhausted while
  its cycle waits, the cycle is then ownerless and its retirement cancels the wake
  (`cycle/reconcile.ts:252-272`), or the frontier expires and ends the wake itself
  (`frontier/coordinator.ts:137-144`). The message then heads its conversation and cannot be claimed,
  as in the run `abstained`;
* when the turn of a frontier throws, its frontier is exhausted while the cycle stays in `thinking`
  and the wake pending without an event. The two keep each other alive (`cycle/inbox.ts:388-390`,
  `retry/owner-recovery.ts:619`), and the conversation stays occupied until the Owner writes again;
* the wake of a frontier that publishes is left to `convergeOrphanPendingWakes`, which ends it as
  `no_action` although its cycle answered;
* `cycle/cognition-claim.ts` says that any Owner successor ends the exemption of a Thought with a
  completion behind it; only the newest cycle is looked at.

## 6. Proofs

`DurableWorkProofs` proves, for any number of events, wakes, conversations, consumers,
attempts and any set of disturbances, from `ConstantsAssumption` alone:

* `Invariance`: `Spec => []IInv`;
* `TypeCorrect`: `Spec => []TypeOK`, which bounds the attempts of every row;
* `LiveWakesAreHeld`, `OneThoughtPerConversation`, `UnknownStaysFenced`:
  `Spec => []HeldWake`, `[]OneLeasePerConversation`, `[]UnknownFenced`;
* `ClosedStaysClosed`: `Spec => ClosedForGood`, an action property;
* `InboxIsAFence`: `Spec => ImplementsFence`, the refinement of `ObligationFence`.

*Why an inductive invariant.* None of these is inductive alone. Recovering one lapsed claim
makes its wake pending again, which would break `UnknownFenced` if a sibling on that wake
were reconciling, so `OneInvolved` (at most one row of a wake is leased or reconciling) is
needed; that in turn holds at a claim only because a claimable wake has no reconciling row
(`Fenced`) and its conversation no leased one (`Exclusive`). The idle path claims without
looking at the state of the row, so `OwnTimeIsFresh` says that what it has just admitted is
pending, alone on a pending wake, and the newest row (`InOrder`).

*How the proof is laid out.* The row invariants take the rows as arguments, because a claim
is a step from normalised rows that no state shows. Three lemmas say that they survive the
three ways rows change: `NoNewLeaseKeepsRows` (recovery, settlement, delivery,
reconciliation, startup), `AdmitKeepsRows` (ingress) and `ClaimKeepsRows`. The remaining
lemmas, one per group of actions, show which of the three each action is and that it keeps
the types. `IInv` was also checked by TLC as an invariant of
the instance of `lanes` with a crash.

`NextIInv` keeps that classification as `StepOfRows`: a step of the program either gives
rows back, closes them or finds them unknown (`Sweeps`), makes one unknown outcome known
(`Resolves`), normalises and claims (`Takes`), admits (`Admits`), or leaves the rows alone.
`FenceStep` maps these one by one to the steps of the fence, and `ClosedStep` shows that none
of them reopens what is closed; both refinement and action property follow with `Invariance`.

`ObligationProofs` proves `OnlyDeferralOrphansWakes`, `Spec => []OnlyDeferralOrphans`, for every set
of disturbances and under no further assumption. A wake is *owed* if one of its events is open, or
was closed by one of the two transactions that leave a wake behind (`Left`: a deferral, and the
retirement of a row whose outcome is unknown). A step `Spares` the wakes: each of them stays as
`Calm` as it was or is owed, and an event that closes leaves another open, ends its wake in the same
transaction, or leaves it behind. The lemmas say why for each way an event closes; that a closed row
keeps its reason is `ClosedStep`. Before a deferral every wake that lives has an open event. After
one it need not, which is what `convergeOrphanPendingWakes` is for.

`SettlementProofs` proves three theorems about answers. `CompletedIsSettled`
(`CompletedHasSettlement`) assumes that nothing is transferred (`"transfer" \notin Disturbances`),
as the run `lanes` does: a pass that has answered or replays an answer has a settlement on its wake
(`PassesSettled`), and a step completes a message only on such an account (`Accounts`).
`HolderAloneSettles` (`OnlyHolderSettles`) assumes nothing further. The fence of the publication
lets a pass without coverage through whether it holds its claim or not, so what has to be shown is
that no such pass ever settles a cycle that an Owner opened: on these cycles there are Owner
messages only (`OwnersOnTheirCycles`), and a pass on an Owner message covers it (`OwnerCovered`).

`HandedOnIsUnsettled` (`SupersededUnsettled`) assumes that nothing is deferred, since the turn of a
frontier is one more pass on the wake (TLC found no violation with deferral on the instance of
`lanes` either), and `OneConsumerEach`: no two consumers poll for one conversation, which
`serve.ts:768-783` provides for by giving the lane one conversation and the main consumer all
others. With two consumers on one conversation it is false: one pass may settle
the cycle between the supersession check of the other and its settlement. What makes it hard is
that a pass decides to hand on and hands on in two transactions. `HandInv` says what survives in
between: passes stay in their consumers' conversations and own time in cycles of its own
(`ConsumersAtHome`, `OwnTimeApart`), so that at most one pass runs on the wake of an Owner message
(`OnePassPerWake`); one that is undecided finds its cycle unsettled (`UndecidedUnsettled`); one that
hands on has been displaced by a successor (`HandsToSuccessor`), and a displaced generation stays
displaced and drafts no more (`DisplacedStays`, `HandedOver`). That the successor has displaced it is
read off the newest cycle of the conversation, for which `GreatestExists` proves that a bounded set
of naturals has a greatest member. `Moves` is what each step owes in return.

`LiveWakeProofs` is about the wakes of Owner messages that are still owed, where nothing is deferred
(`"defer" \notin Disturbances`; section 5 says how a frontier takes a wake from its sibling). On a
cycle that an Owner opened such a message keeps a wake that can be claimed, under no other
assumption (`OwnersCycleKeepsItsWake`); on any cycle it does unless completions arrive and the model abstains
(`OwnerWorkKeepsItsWake`, `OwnerKeepsWake`), so the run `abstained` shows the only other way to lose one;
and where Owner messages are all that arrives, as in the run `live`, the same holds of all work
(`LiveWorkKeepsItsWake`, `LiveObligationHasLiveWake`). Of other work it is false: an Owner message
that preempts a cycle ends its wake under a completion or own time that waits on it. Here, too, the
decision of a pass and its settlement are separate transactions, and `LiveInv` says what survives
in between: as long as a pass holds its claim, the messages it covered are Owner messages of its
wake, nobody has ended them, and it abstains only if the model did (`HolderKnows`); no two passes
hold one claim (`UniqueHolder`, because every claim raises the attempt). `Attributed` and
`KeptAlive` are what each step owes in return: a message is ended by the holder of a claim on its
wake, or before the consumers start, and no step ends the wake of what it leaves open. Whatever
closes one message keeps the wake open for a sibling (`FinishLive`) except an ending as unwanted,
which only a completion or own time comes to (`UnwantedApart`). A preempted wake ends only if
nothing is owed to an Owner on it (`PreemptedLive`), and a cycle that is retired has a wake that is
over (`OwnerlessIsOver`).

`WorkerQueueProofs` proves, for any number of undertakings, any bounds, disturbances and
faults, from `QueueAssumption` alone: `Invariance`, `TypeCorrect`, `SlotIsHeld`,
`WorkedAtMostOnce`, `VerdictStands`, `WokenByTruth` and `QueueIsOneWorker` (the refinement of
`OneWorker`). `SlotHeld` is not inductive: that the slot may be taken, released or repaired
depends on what the operation of its holder has done, which `Entangled` says (an undertaking
that holds the slot has an operation, one that runs has a started one, what is started is
held, and a worker was called for nothing else), and on what the pass may rely on when it comes
back from an await, which `StageKnows` says (until it binds the slot is free; from then on its
undertaking holds the slot, with an operation in the state that the stage implies; after a
repair only started work holds it). A crash takes the pass but not the rows, so `Entangled`
speaks of rows alone. The proof has one lemma per group of actions for the
invariant (`...Keeps`) and one for the refinement (`...Moves`), where a step of the queue is
shown to end or begin at most one job or to leave every status as it is. `BoundsHold` proves
`WithinBounds`: every step is an arrival, which admission checks, or lets nothing in; a requeue
counts the same before and after, and a wait for capacity leaves the inner bound alone because
dispatching curiosity is inside it.

`WorkerTurnsProofs` proves `TurnsAreKept`, `TurnsSpec => []ServedInTurn`, from `QueueAssumption`
alone. What `passed` counts is tied to the calendar by a free stretch: the entries before the
cursor that are not of a class are at least as many as the starts of others while that class had
work, less one for each fault; such a stretch is shorter than the distance between two entries of
the class. A crash or a lost callback between a start and `MarkRunning` leaves the calendar where it
was, so the same class may start twice on one entry; a wait for capacity does not, because nothing
has started then.

`PrivateBudgetProofs` proves, for any number of reservations, any limits, window, tolerance and
number of attempts, from `BudgetAssumption` alone: `BudgetTyped`, `CapacityIsSpent`, `NeverBlind`,
`ProofsHold`, `RateHolds` and `LedgerIsRateLimit` (the refinement of `RateLimit`). Two
inductive invariants carry them. `AInv` is about attempts: which of them may have been sent is
read off the stage of the turn and the dispatch truths (what is sent was committed first, what is
released or proven was not sent, and every earlier ordinal has its evidence). `RInv` is about the
window: `WithinRate`, and `ClockKnows`, that no granted row lies ahead of the clock and that what has
expired lies a window behind it. Without the second the count that the code makes at the time of
the clock would say nothing of the windows that `WithinRate` speaks of, which end at each grant:
rows that count are of the current revision when one is granted, so the window that ends with the
new grant is within its limit, and every other window only loses members.

`DeferredFrontierProofs` proves, for any leases, waits, numbers of passes and crashes, from
`FrontierAssumption` alone, `FrontierTyped` and `OneThinkerHolds`. `OneThinker` is not inductive:
`CallsHold` says that a driver in a call that is not overdue holds the claim, with exactly that
part of the lease left that the call has not used; a takeover needs an expired claim, and a release
frees one's own only.

*Only model-checked*: everything about liveness (`OwnerAnswered`, `LaneReleased`, `WakeFinishes`,
`UndertakingEnds`, `FrontierEnds`), which is outside what the prover can treat. Every safety
property of a passing run is also a theorem; three of them under an assumption on the constants that
their run satisfies and the text above gives: `CompletedIsSettled` (no transfers; with them it is
false), `LiveWorkKeepsItsWake` (Owner messages only and nothing deferred; otherwise it is false) and
`HandedOnIsUnsettled` (`OneConsumerEach`, which the code provides for, and nothing deferred). The properties that a run refutes are in section 5.

## 7. Not modelled

See the components with status `not_modelled` in `PROJECT.json`: those of the plan above,
pure functions without protocol state (quiet window, authority verdicts, retrieval), the
older host around the kernel, transports and user interfaces, sandboxes and deployment. Of the
kernel itself these carry protocol state and are not modelled: receipts and continuations of effects
(`effect/*`), bubbles of a delivery (`delivery/outbox-projector.ts`), repairs of unanswered
messages (`retry/owner-recovery.ts`, but for its two repairs of rows), the periodic schedule and future triggers
(`initiative/*`), and the social variants of the fence. Their hazards are listed in
`PROJECT.json`. The map covers a small share of the repository's lines, most of which are schema,
projection, wording, wire formats, user interfaces and tests of capability.
