------------------------------ MODULE WorkerQueue ------------------------------
(***************************************************************************)
(* The worker queue of Ashley's cognitive kernel.  An undertaking is a       *)
(* project inspection that somebody wants; a detached operation is its one   *)
(* execution, in a row of its own; one slot row lets one worker run at a     *)
(* time; a calendar of seven entries divides the slot between the Owner,     *)
(* commitments and curiosity.  Undertaking, operation and slot are written   *)
(* by different transactions, which a crash may separate.                    *)
(*                                                                          *)
(* A single-flight service pass moves them.  It is split where it awaits     *)
(* (the capacity probes, the check of a commitment, the worker), so that     *)
(* admissions and cancellations interleave there, and between transactions,  *)
(* so that a crash can fall there.  The operation id is a function of the    *)
(* undertaking, and the transaction that selects it also inserts its row, so *)
(* selected_operation_id is set exactly when op[u] is not "none".            *)
(* Each deadline is one flag: it has passed.                                 *)
(***************************************************************************)
EXTENDS Naturals, FiniteSets

CONSTANTS
  Undertakings,        \* undertakings that may be admitted, one per admission key
  OriginKind,          \* who wants each of them
  MaxNonterminal,      \* MAX_NONTERMINAL_WORKER_UNDERTAKINGS
  MaxPendingCuriosity, \* MAX_PENDING_CURIOSITY
  ScanLimit,           \* rows read by the expiry of bound curiosity
  Disturbances,        \* what may happen besides the plain run
  MaxFaults            \* bound: crashes and lost projections in a behaviour

NoUndertaking == "none"
NoIndex       == 0

AllDisturbances ==
  {"cancel", "probe_waits", "probe_denies", "worker_fails", "stale", "invalid", "ttl",
   "deadline", "crash", "lost"}

Origins == {"OWNER_REQUEST", "ASHLEY_COMMITMENT", "ASHLEY_CURIOSITY"}

WORKER_SERVICE_CALENDAR ==
  <<"OWNER_REQUEST", "ASHLEY_COMMITMENT", "OWNER_REQUEST", "ASHLEY_CURIOSITY",
    "OWNER_REQUEST", "ASHLEY_COMMITMENT", "OWNER_REQUEST">>
Indices == 1..7

ASSUME QueueAssumption ==
  /\ NoUndertaking \notin Undertakings
  /\ IsFiniteSet(Undertakings)
  /\ OriginKind \in [Undertakings -> Origins]
  /\ MaxNonterminal \in Nat
  /\ MaxPendingCuriosity \in Nat
  /\ ScanLimit \in Nat
  /\ Disturbances \subseteq AllDisturbances
  /\ MaxFaults \in Nat

VARIABLES
  state,       \* worker_undertakings.state
  queued_at,   \* worker_undertakings.queued_at_ms, as an order of arrival
  selected,    \* worker_undertakings.selected_calendar_index
  asked,       \* undertakings with cancel_requested_at_ms
  later,       \* undertakings whose capacity_next_probe_at_ms lies ahead
  op,          \* detached_operations.state
  overdue,     \* operations whose operation_deadline_at_ms has passed
  outlived,    \* undertakings whose curiosity_expires_at_ms has passed
  slot,        \* worker_execution_slot.undertaking_id
  cursor,      \* worker_undertaking_scheduler.cursor
  woken,       \* operations whose completion event is in the inbox
  pass,        \* the service pass or the startup sequence, in process memory
  runs,        \* how often the worker was called for each undertaking
  faults       \* crashes and lost projections so far

rows == <<state, queued_at, selected, asked, later, op, slot, cursor, woken>>
vars == <<rows, overdue, outlived, pass, runs, faults>>
--------------------------------------------------------------------------------
Held       == {"dispatching", "running"}
Live       == {"queued"} \cup Held
Ended      == {"succeeded", "failed", "outcome_unknown", "cancelled", "superseded", "expired"}
Unstarted  == {"admitted", "waiting_capacity"}
OpEnded    == {"succeeded", "failed", "outcome_unknown", "cancelled"}

\* Where a pass awaits, other callbacks run; everywhere else it does not yield.
Awaiting   == {"idle", "probe", "current", "start", "worker"}
Startup    == {"boot", "boot_repair", "backfill"}
Stages     == Awaiting \cup Startup \cup
              {"expire", "recover", "settle", "converge", "bind", "cancel", "started",
               "complete", "project"}

Pass == [at : Stages, who : Undertakings \cup {NoUndertaking}, index : Indices \cup {NoIndex},
         late : BOOLEAN]

Idle == [at |-> "idle", who |-> NoUndertaking, index |-> NoIndex, late |-> FALSE]
At(stage) == [Idle EXCEPT !.at = stage]
Goes(stage) == pass' = [pass EXCEPT !.at = stage]
Returns == pass' = Idle

Allowed(d) == d \in Disturbances

Init ==
  /\ state = [u \in Undertakings |-> "absent"]
  /\ queued_at = [u \in Undertakings |-> 0]
  /\ selected = [u \in Undertakings |-> NoIndex]
  /\ op = [u \in Undertakings |-> "none"]
  /\ asked = {} /\ later = {} /\ overdue = {} /\ outlived = {} /\ woken = {}
  /\ slot = NoUndertaking
  /\ cursor = 1
  /\ pass = Idle
  /\ runs = [u \in Undertakings |-> 0]
  /\ faults = 0
--------------------------------------------------------------------------------
(* Admission, cancellation and the clock.                                   *)

Admitted    == {u \in Undertakings : state[u] # "absent"}
Nonterminal == {u \in Undertakings : state[u] \in Live}
Curious(u)  == OriginKind[u] = "ASHLEY_CURIOSITY"
PendingCuriosity == {u \in Undertakings : Curious(u) /\ state[u] \in {"queued", "dispatching"}}

\* Fault: work that holds the slot is not counted.
HasRoomInQueue(u) ==
  Cardinality({v \in Undertakings : state[v] = "queued"}) < MaxNonterminal

HasRoom(u) ==
  /\ Cardinality(Nonterminal) < MaxNonterminal
  /\ Curious(u) => Cardinality(PendingCuriosity) < MaxPendingCuriosity

\* A repeated admission finds the row and changes nothing.
Enqueue(u) ==
  /\ pass.at \in Awaiting
  /\ state[u] = "absent"
  /\ HasRoom(u)
  /\ state' = [state EXCEPT ![u] = "queued"]
  /\ queued_at' = [queued_at EXCEPT ![u] = Cardinality(Admitted) + 1]
  /\ UNCHANGED <<selected, asked, later, op, slot, cursor, woken, overdue, outlived, pass,
                 runs, faults>>

\* Work that is queued is cancelled; work that holds the slot is only asked to stop.
RequestCancel(u) ==
  /\ Allowed("cancel")
  /\ pass.at \in Awaiting
  /\ \/ /\ state[u] = "queued"
        /\ state' = [state EXCEPT ![u] = "cancelled"]
     \/ /\ state[u] \in Held
        /\ u \notin asked
        /\ UNCHANGED state
  /\ asked' = asked \cup {u}
  /\ UNCHANGED <<queued_at, selected, later, op, slot, cursor, woken, overdue, outlived, pass,
                 runs, faults>>

\* The clock: a pass reads it once, when it begins, and time also passes while the host is down.
Ticks == pass.at \in Awaiting \cup {"boot"}

TtlPasses(u) ==
  /\ Allowed("ttl") /\ Ticks
  /\ Curious(u) /\ state[u] \in Live /\ u \notin outlived
  /\ outlived' = outlived \cup {u}
  /\ UNCHANGED <<rows, overdue, pass, runs, faults>>

DeadlinePasses(u) ==
  /\ Allowed("deadline") /\ Ticks
  /\ op[u] \in Unstarted \cup {"started"} /\ u \notin overdue
  /\ overdue' = overdue \cup {u}
  /\ UNCHANGED <<rows, outlived, pass, runs, faults>>

ProbeDue(u) ==
  /\ Ticks
  /\ u \in later
  /\ later' = later \ {u}
  /\ UNCHANGED <<state, queued_at, selected, asked, op, slot, cursor, woken, overdue, outlived,
                 pass, runs, faults>>
--------------------------------------------------------------------------------
(* The transactions on undertaking and slot.                                *)

\* Fault: the terminal projection keeps the slot.
Kept(u) == slot

Released(u) == IF slot = u THEN NoUndertaking ELSE slot

\* Fault: the detached row is copied although it is not terminal.
Copied(u, proposed) == op[u]

\* projectWorkerUndertakingTerminal: the detached row is the truth, except about expiry.
Verdict(u, proposed) ==
  IF proposed # "expired" /\ op[u] \in OpEnded THEN op[u] ELSE proposed

Project(u, proposed) ==
  IF state[u] \in Live
  THEN /\ state' = [state EXCEPT ![u] = Verdict(u, proposed)]
       /\ slot' = Released(u)
       /\ later' = later \ {u}
  ELSE UNCHANGED <<state, slot, later>>

\* requeueWorkerUndertakingAfterCapacity
Requeue(u, ahead) ==
  IF state[u] = "dispatching"
  THEN /\ state' = [state EXCEPT ![u] = "queued"]
       /\ selected' = [selected EXCEPT ![u] = NoIndex]
       /\ slot' = Released(u)
       /\ later' = IF ahead THEN later \cup {u} ELSE later \ {u}
  ELSE UNCHANGED <<state, selected, slot, later>>

Following(i) == (i % 7) + 1

\* markWorkerUndertakingRunning: only a start moves the calendar.
MarkRunning(u) ==
  IF state[u] = "dispatching" /\ slot = u
  THEN /\ state' = [state EXCEPT ![u] = "running"]
       /\ later' = later \ {u}
       /\ cursor' = IF selected[u] # NoIndex THEN Following(selected[u]) ELSE cursor
  ELSE UNCHANGED <<state, later, cursor>>

\* repairWorkerExecutionSlot
Repair ==
  IF slot = NoUndertaking THEN UNCHANGED <<state, selected, slot, later>>
  ELSE IF state[slot] \in Ended
       THEN slot' = NoUndertaking /\ UNCHANGED <<state, selected, later>>
  ELSE IF op[slot] \in OpEnded THEN Project(slot, op[slot]) /\ UNCHANGED selected
  ELSE IF op[slot] \in Unstarted THEN Requeue(slot, FALSE)
  ELSE UNCHANGED <<state, selected, slot, later>>

\* Fault: a worker that does not answer may be started again.
Readmitted ==
  [u \in Undertakings |-> IF op[u] = "started" /\ u \in overdue THEN "admitted" ELSE op[u]]

\* Fault: nobody gives up on a worker that does not answer.
Unreconciled == op

\* reconcileDetachedOperations
Reconciled ==
  [u \in Undertakings |->
     IF op[u] = "started" /\ u \in overdue THEN "outcome_unknown" ELSE op[u]]
--------------------------------------------------------------------------------
(* The service pass, up to its selection.                                   *)

PassBegins ==
  /\ pass.at = "idle"
  /\ Repair
  /\ pass' = At("expire")
  /\ UNCHANGED <<queued_at, asked, op, cursor, woken, overdue, outlived, runs, faults>>

Expired == {u \in outlived : state[u] \in {"queued", "dispatching"}}

\* expirePreStartCuriosity reads the oldest rows of the table, whatever their state.
Scanned == {u \in Admitted :
              Cardinality({v \in Admitted : queued_at[v] < queued_at[u]}) < ScanLimit}

ExpiryCancels(u) ==
  /\ pass.at = "expire"
  /\ u \in Expired \cap Scanned
  /\ op[u] \in Unstarted
  /\ op' = [op EXCEPT ![u] = "cancelled"]
  /\ UNCHANGED <<state, queued_at, selected, asked, later, slot, cursor, woken, overdue,
                 outlived, pass, runs, faults>>

ExpiryFindsStarted(u) ==
  /\ pass.at = "expire"
  /\ u \in Expired \cap Scanned
  /\ op[u] = "started"
  /\ MarkRunning(u)
  /\ UNCHANGED <<queued_at, selected, asked, op, slot, woken, overdue, outlived,
                 pass, runs, faults>>

\* Fault: the expiry does not ask whether the worker has started.
ExpiresStarted(u) ==
  \/ u \in Scanned /\ op[u] \notin Unstarted
  \/ u \notin Scanned /\ state[u] = "queued"

\* What the scan leaves, expireQueuedCuriosity takes; it does not look at the operation.
MayExpire(u) ==
  \/ u \in Scanned /\ op[u] \notin Unstarted \cup {"started"}
  \/ u \notin Scanned /\ state[u] = "queued"

ExpiryProjects(u) ==
  /\ pass.at = "expire"
  /\ u \in Expired
  /\ MayExpire(u)
  /\ Project(u, "expired")
  /\ UNCHANGED <<queued_at, selected, asked, op, cursor, woken, overdue, outlived,
                 pass, runs, faults>>

ExpiryEnds ==
  /\ pass.at = "expire"
  /\ Expired \subseteq {u \in Expired : u \notin Scanned /\ state[u] # "queued"}
  /\ Goes("recover")
  /\ UNCHANGED <<rows, overdue, outlived, runs, faults>>

\* recoverExpiredDispatchClaims keeps what started or ended; then overdue work is unknown.
Unclaimed == {u \in Undertakings : state[u] = "dispatching" /\ op[u] \in Unstarted}

PassRecovers ==
  /\ pass.at = "recover"
  /\ \E lapsed \in SUBSET Unclaimed :
       /\ state' = [u \in Undertakings |-> IF u \in lapsed THEN "queued" ELSE state[u]]
       /\ selected' = [u \in Undertakings |-> IF u \in lapsed THEN NoIndex ELSE selected[u]]
       /\ later' = later \ lapsed
       /\ slot' = IF slot \in lapsed THEN NoUndertaking ELSE slot
  /\ op' = Reconciled
  /\ Goes("settle")
  /\ UNCHANGED <<queued_at, asked, cursor, woken, overdue, outlived, runs, faults>>

PassRepairsAgain ==
  /\ pass.at = "settle"
  /\ Repair
  /\ Goes("converge")
  /\ UNCHANGED <<queued_at, asked, op, cursor, woken, overdue, outlived, runs, faults>>

\* After the repair, whoever holds the slot has started: nothing is dispatched again.
SlotBusy ==
  /\ pass.at = "converge"
  /\ slot # NoUndertaking
  /\ MarkRunning(slot)
  /\ Returns
  /\ UNCHANGED <<queued_at, selected, asked, op, slot, woken, overdue, outlived, runs,
                 faults>>

Ready(u) == state[u] = "queued" /\ u \notin outlived /\ u \notin later
ReadyOrigins == {OriginKind[u] : u \in {v \in Undertakings : Ready(v)}}
Entry(offset) == WORKER_SERVICE_CALENDAR[((cursor + offset - 1) % 7) + 1]

\* Fault: the oldest of all, whatever the calendar says.
SelectsOldest(u, offset) ==
  /\ Ready(u)
  /\ Entry(offset) = OriginKind[u]
  /\ \A v \in Undertakings : Ready(v) => queued_at[u] <= queued_at[v]

\* selectNextWorkerUndertaking: the oldest of the first class of the calendar that has work.
Selects(u, offset) ==
  /\ Ready(u)
  /\ Entry(offset) = OriginKind[u]
  /\ \A k \in 0..6 : k < offset => Entry(k) \notin ReadyOrigins
  /\ \A v \in Undertakings :
       Ready(v) /\ OriginKind[v] = OriginKind[u] => queued_at[u] <= queued_at[v]

PassSelects(u) ==
  /\ pass.at = "converge"
  /\ slot = NoUndertaking
  /\ \E offset \in 0..6 :
       /\ Selects(u, offset)
       /\ pass' = [at |-> "probe", who |-> u, index |-> ((cursor + offset - 1) % 7) + 1,
                   late |-> u \in overdue]
  /\ UNCHANGED <<rows, overdue, outlived, runs, faults>>

NothingToSelect ==
  /\ pass.at = "converge"
  /\ slot = NoUndertaking
  /\ ReadyOrigins = {}
  /\ Returns
  /\ UNCHANGED <<rows, overdue, outlived, runs, faults>>
--------------------------------------------------------------------------------
(* The selected undertaking, until it is bound.                             *)

ProbeAvailable ==
  /\ pass.at = "probe"
  /\ Goes(IF OriginKind[pass.who] = "ASHLEY_COMMITMENT" THEN "current" ELSE "bind")
  /\ UNCHANGED <<rows, overdue, outlived, runs, faults>>

\* markWorkerUndertakingCapacity
ProbeWaits ==
  /\ Allowed("probe_waits")
  /\ pass.at = "probe"
  /\ \E ahead \in BOOLEAN :
       later' = IF state[pass.who] \notin {"queued", "dispatching"} THEN later
                ELSE IF ahead THEN later \cup {pass.who} ELSE later \ {pass.who}
  /\ Returns
  /\ UNCHANGED <<state, queued_at, selected, asked, op, slot, cursor, woken, overdue, outlived,
                 runs, faults>>

ProbeDenies ==
  /\ Allowed("probe_denies")
  /\ pass.at = "probe"
  /\ Project(pass.who, "failed")
  /\ Returns
  /\ UNCHANGED <<queued_at, selected, asked, op, cursor, woken, overdue, outlived, runs,
                 faults>>

CommitmentHolds ==
  /\ pass.at = "current"
  /\ Goes("bind")
  /\ UNCHANGED <<rows, overdue, outlived, runs, faults>>

\* supersedeWorkerUndertaking
CommitmentStale ==
  /\ Allowed("stale")
  /\ pass.at = "current"
  /\ state' = IF state[pass.who] = "queued" THEN [state EXCEPT ![pass.who] = "superseded"]
              ELSE state
  /\ Returns
  /\ UNCHANGED <<queued_at, selected, asked, later, op, slot, cursor, woken, overdue, outlived,
                 runs, faults>>

\* An undertaking without a conversation or with a request that is no object.
RequestInvalid ==
  /\ Allowed("invalid")
  /\ pass.at = "bind"
  /\ Project(pass.who, "failed")
  /\ Returns
  /\ UNCHANGED <<queued_at, selected, asked, op, cursor, woken, overdue, outlived, runs, faults>>

\* bindWorkerUndertakingToOperation and admitDetachedOperation: an operation that exists is kept.
Binds ==
  /\ pass.at = "bind"
  /\ state[pass.who] = "queued"
  /\ slot = NoUndertaking
  /\ state' = [state EXCEPT ![pass.who] = "dispatching"]
  /\ selected' = [selected EXCEPT ![pass.who] = pass.index]
  /\ op' = [op EXCEPT ![pass.who] = IF @ = "none" THEN "admitted" ELSE @]
  /\ slot' = pass.who
  /\ Goes(IF pass.who \in asked THEN "cancel" ELSE "start")
  /\ UNCHANGED <<queued_at, asked, later, cursor, woken, overdue, outlived, runs, faults>>

BindRefused ==
  /\ pass.at = "bind"
  /\ state[pass.who] # "queued" \/ slot # NoUndertaking
  /\ Returns
  /\ UNCHANGED <<rows, overdue, outlived, runs, faults>>
--------------------------------------------------------------------------------
(* dispatchDetachedOperation.                                               *)

EndsOperation(u, outcome) == op' = [op EXCEPT ![u] = outcome]

CancelsBeforeStart ==
  /\ pass.at = "cancel"
  /\ op[pass.who] \in Unstarted
  /\ EndsOperation(pass.who, "cancelled")
  /\ Goes("complete")
  /\ UNCHANGED <<state, queued_at, selected, asked, later, slot, cursor, woken, overdue,
                 outlived, runs, faults>>

StartDenied ==
  /\ Allowed("probe_denies")
  /\ pass.at = "start"
  /\ op[pass.who] \in Unstarted
  /\ EndsOperation(pass.who, "failed")
  /\ Goes("complete")
  /\ UNCHANGED <<state, queued_at, selected, asked, later, slot, cursor, woken, overdue,
                 outlived, runs, faults>>

\* A callback of the dispatcher may throw or lose its transaction; the dispatcher goes on.
Loses == Allowed("lost") /\ faults < MaxFaults /\ faults' = faults + 1

StartWaits ==
  /\ Allowed("probe_waits")
  /\ pass.at = "start"
  /\ op[pass.who] \in Unstarted
  /\ op' = [op EXCEPT ![pass.who] = "waiting_capacity"]
  /\ \/ /\ \E ahead \in BOOLEAN : Requeue(pass.who, ahead)
        /\ UNCHANGED faults
     \/ /\ Loses
        /\ UNCHANGED <<state, selected, slot, later>>
  /\ Returns
  /\ UNCHANGED <<queued_at, asked, cursor, woken, overdue, outlived, runs>>

\* markDetachedOperationStarted compares the deadline with the clock the pass began with.
StartTooLate ==
  /\ pass.at = "start"
  /\ op[pass.who] \in Unstarted
  /\ pass.late
  /\ EndsOperation(pass.who, "failed")
  /\ Goes("complete")
  /\ UNCHANGED <<state, queued_at, selected, asked, later, slot, cursor, woken, overdue,
                 outlived, runs, faults>>

OperationStarts ==
  /\ pass.at = "start"
  /\ op[pass.who] \in Unstarted
  /\ ~pass.late
  /\ op' = [op EXCEPT ![pass.who] = "started"]
  /\ Goes("started")
  /\ UNCHANGED <<state, queued_at, selected, asked, later, slot, cursor, woken, overdue,
                 outlived, runs, faults>>

WorkerCalled ==
  /\ pass.at = "started"
  /\ runs' = [runs EXCEPT ![pass.who] = @ + 1]
  /\ \/ MarkRunning(pass.who) /\ UNCHANGED faults
     \/ Loses /\ UNCHANGED <<state, later, cursor>>
  /\ Goes("worker")
  /\ UNCHANGED <<queued_at, selected, asked, op, slot, woken, overdue, outlived>>

\* It succeeds, reports a failure, or throws.
Outcomes ==
  {"succeeded"} \cup (IF Allowed("worker_fails") THEN {"failed", "outcome_unknown"} ELSE {})

WorkerReturns ==
  /\ pass.at = "worker"
  /\ op[pass.who] = "started"
  /\ \E outcome \in Outcomes : EndsOperation(pass.who, outcome)
  /\ Goes("complete")
  /\ UNCHANGED <<state, queued_at, selected, asked, later, slot, cursor, woken, overdue,
                 outlived, runs, faults>>

\* completeAfterTerminal
CompletionProduced ==
  /\ pass.at = "complete"
  /\ \/ woken' = woken \cup {pass.who} /\ UNCHANGED faults
     \/ Loses /\ UNCHANGED woken
  /\ Goes("project")
  /\ UNCHANGED <<state, queued_at, selected, asked, later, op, slot, cursor, overdue, outlived,
                 runs>>

TerminalProjected ==
  /\ pass.at = "project"
  /\ \/ Project(pass.who, op[pass.who]) /\ UNCHANGED faults
     \/ Loses /\ UNCHANGED <<state, slot, later>>
  /\ Returns
  /\ UNCHANGED <<queued_at, selected, asked, op, cursor, woken, overdue, outlived, runs>>
--------------------------------------------------------------------------------
(* A crash and the startup sequence.                                        *)

Crash ==
  /\ Allowed("crash")
  /\ pass.at # "boot"
  /\ faults < MaxFaults
  /\ faults' = faults + 1
  /\ pass' = At("boot")
  /\ UNCHANGED <<rows, overdue, outlived, runs>>

BootReconciles ==
  /\ pass.at = "boot"
  /\ op' = Reconciled
  /\ pass' = At("boot_repair")
  /\ UNCHANGED <<state, queued_at, selected, asked, later, slot, cursor, woken, overdue,
                 outlived, runs, faults>>

BootRepairs ==
  /\ pass.at = "boot_repair"
  /\ Repair
  /\ pass' = At("backfill")
  /\ UNCHANGED <<queued_at, asked, op, cursor, woken, overdue, outlived, runs, faults>>

\* Fault: the backfill does not ask whether the operation is over.
BackfillsAdmitted ==
  /\ pass.at = "backfill"
  /\ woken' = woken \cup {u \in Undertakings : op[u] # "none"}
  /\ Returns
  /\ UNCHANGED <<state, queued_at, selected, asked, later, op, slot, cursor, overdue, outlived,
                 runs, faults>>

\* reconcileMissingCompletions
BootBackfills ==
  /\ pass.at = "backfill"
  /\ woken' = woken \cup {u \in Undertakings : op[u] \in OpEnded}
  /\ Returns
  /\ UNCHANGED <<state, queued_at, selected, asked, later, op, slot, cursor, overdue, outlived,
                 runs, faults>>
--------------------------------------------------------------------------------
Expiry ==
  \/ \E u \in Undertakings : ExpiryCancels(u) \/ ExpiryFindsStarted(u) \/ ExpiryProjects(u)
  \/ ExpiryEnds

PassStep ==
  \/ PassBegins \/ Expiry \/ PassRecovers \/ PassRepairsAgain \/ SlotBusy
  \/ (\E u \in Undertakings : PassSelects(u)) \/ NothingToSelect
  \/ ProbeAvailable \/ ProbeWaits \/ ProbeDenies \/ CommitmentHolds \/ CommitmentStale
  \/ RequestInvalid \/ Binds \/ BindRefused \/ CancelsBeforeStart
  \/ StartDenied \/ StartWaits \/ StartTooLate \/ OperationStarts
  \/ WorkerCalled \/ WorkerReturns \/ CompletionProduced \/ TerminalProjected

Boot == BootReconciles \/ BootRepairs \/ BootBackfills

Environment ==
  \E u \in Undertakings :
    Enqueue(u) \/ RequestCancel(u) \/ TtlPasses(u) \/ DeadlinePasses(u) \/ ProbeDue(u)

Next == PassStep \/ Boot \/ Environment \/ Crash

Spec == Init /\ [][Next]_vars

\* Fairness: maintenance calls the service again and again and each of its awaits returns;
\* clocks advance; and the probe does not for ever find the worker unavailable.
Fairness ==
  /\ WF_vars(PassStep)
  /\ WF_vars(Boot)
  /\ \A u \in Undertakings :
       /\ SF_vars(DeadlinePasses(u))
       /\ SF_vars(ProbeDue(u))
       /\ SF_vars(ProbeAvailable /\ pass.who = u)
       /\ SF_vars((OperationStarts \/ StartTooLate) /\ pass.who = u)

FairSpec == Spec /\ Fairness
--------------------------------------------------------------------------------
(* Properties.                                                              *)

\* Every row and the pass have their type.
TypeOK ==
  /\ state \in [Undertakings -> {"absent"} \cup Live \cup Ended]
  /\ queued_at \in [Undertakings -> Nat]
  /\ selected \in [Undertakings -> Indices \cup {NoIndex}]
  /\ asked \subseteq Undertakings
  /\ later \subseteq Undertakings
  /\ op \in [Undertakings -> {"none", "started"} \cup Unstarted \cup OpEnded]
  /\ overdue \subseteq Undertakings
  /\ outlived \subseteq Undertakings
  /\ slot \in Undertakings \cup {NoUndertaking}
  /\ cursor \in Indices
  /\ woken \subseteq Undertakings
  /\ pass \in Pass
  /\ runs \in [Undertakings -> Nat]
  /\ faults \in Nat

\* The slot row and the undertakings agree: whoever is dispatching or running holds the slot,
\* and the slot is never left to work that is queued or over, wherever a crash falls.
SlotHeld == \A u \in Undertakings : state[u] \in Held <=> slot = u

\* The worker is called at most once for an undertaking, through capacity races, lost
\* projections and restarts, and only while its operation is started.
WorkedOnce ==
  \A u \in Undertakings : /\ runs[u] <= 1
                          /\ runs[u] = 1 => op[u] \in {"started"} \cup OpEnded

\* The queue does not end work whose worker may be running, and the end it records for work
\* that ran is the one of the detached row, expiry and cancellation notwithstanding.
VerdictAgrees ==
  \A u \in Undertakings :
    /\ op[u] = "started" => state[u] \in Held
    /\ runs[u] = 1 /\ state[u] \in Ended => state[u] = op[u]
    /\ state[u] = "succeeded" => op[u] = "succeeded" /\ runs[u] = 1

\* The completion that wakes Thought is appended only after the operation is over.
WakesAfterTruth == \A u \in woken : op[u] \in OpEnded

\* Admission keeps the bounds of the queue although work is requeued behind its back.
WithinBounds ==
  /\ Cardinality(Nonterminal) <= MaxNonterminal
  /\ Cardinality(PendingCuriosity) <= MaxPendingCuriosity

\* Every admitted undertaking comes to an end.
UndertakingEnds == \A u \in Undertakings : state[u] = "queued" ~> state[u] \in Ended

\* "every terminal operation lacking a completion reference gets its exactly-one completion
\* opportunity" (operation/completion.ts:271): every outcome eventually wakes Thought.
OutcomeIsTold == \A u \in Undertakings : op[u] \in OpEnded ~> u \in woken
--------------------------------------------------------------------------------
(* What the queue promises, whatever its rows look like.                    *)

Status ==
  [u \in Undertakings |->
     IF state[u] = "absent" THEN "absent"
     ELSE IF op[u] = "started" THEN "working"
     ELSE IF op[u] \in OpEnded \/ state[u] \in Ended THEN "over"
     ELSE "waiting"]

Service == INSTANCE OneWorker WITH Jobs <- Undertakings, status <- Status

\* The rows implement a single worker that takes each job at most once.
ImplementsOneWorker == Service!Spec
================================================================================
