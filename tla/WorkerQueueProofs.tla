--------------------------- MODULE WorkerQueueProofs ---------------------------
(***************************************************************************)
(* That undertaking, operation and slot stay in agreement, for any number   *)
(* of undertakings and any disturbances.                                    *)
(***************************************************************************)
EXTENDS WorkerQueue, FiniteSetTheorems, TLAPS

--------------------------------------------------------------------------------
(* The inductive invariant.                                                 *)

\* How far an undertaking can be without its operation, and the reverse.
Entangled ==
  \A u \in Undertakings :
    /\ state[u] = "absent" => op[u] = "none"
    /\ state[u] \in Held => op[u] # "none"
    /\ state[u] = "running" => op[u] \notin Unstarted
    /\ op[u] = "started" => state[u] \in Held
    /\ op[u] = "succeeded" => runs[u] = 1
    /\ runs[u] \in {0, 1}
    /\ runs[u] = 1 => /\ op[u] \in {"started"} \cup OpEnded
                      /\ state[u] \in Held \cup Ended
    /\ state[u] \in Ended /\ runs[u] = 1 => state[u] = op[u]
    /\ state[u] = "succeeded" => op[u] = "succeeded"

\* What the pass knows of the rows at each of its stages.
SlotIsLive(ops) == slot = NoUndertaking \/ op[slot] \in ops
PassHolds == pass.who \in Undertakings /\ slot = pass.who
StageKnows ==
  /\ pass.at \in {"expire", "recover", "converge"} => SlotIsLive({"started"})
  /\ pass.at = "settle" => SlotIsLive({"started", "outcome_unknown"})
  /\ pass.at \in {"probe", "current", "bind"} =>
       slot = NoUndertaking /\ pass.who \in Undertakings /\ pass.index \in Indices
  /\ pass.at \in {"cancel", "start"} => PassHolds /\ state[pass.who] = "dispatching"
  /\ pass.at = "started" => PassHolds /\ op[pass.who] = "started" /\ runs[pass.who] = 0
  /\ pass.at = "worker" => PassHolds /\ op[pass.who] = "started" /\ runs[pass.who] = 1
  /\ pass.at \in {"complete", "project"} => PassHolds /\ op[pass.who] \in OpEnded

IInv == TypeOK /\ SlotHeld /\ Entangled /\ WakesAfterTruth /\ StageKnows
--------------------------------------------------------------------------------
(* It is inductive.  Each action is one step; the row operators it is built  *)
(* from are expanded with it.                                                *)

\* The number of rows is a number.
LEMMA AdmittedIsFinite ==
  ASSUME TypeOK
  PROVE  Cardinality(Admitted) \in Nat
  BY QueueAssumption, FS_Subset, FS_CardinalityType DEF Admitted

\* What a stage without an undertaking looks like.
LEMMA StageAlone ==
  ASSUME NEW stage \in Stages
  PROVE  At(stage) \in Pass /\ At(stage).at = stage
  BY QueueAssumption DEF At, Idle, Pass, Stages, Awaiting, Startup

\* Nothing is admitted at first.
LEMMA InitIInv == Init => IInv
  BY QueueAssumption
     DEF Init, Idle, Pass, Stages, Awaiting, Indices, Live, Held, Ended, IInv, TypeOK, SlotHeld,
         Entangled, WakesAfterTruth, StageKnows

\* The steps of a pass before and after it has bound an undertaking.
Selecting ==
  \/ PassRecovers \/ SlotBusy \/ (\E u \in Undertakings : PassSelects(u)) \/ NothingToSelect
  \/ ProbeAvailable \/ ProbeWaits \/ ProbeDenies \/ CommitmentHolds \/ CommitmentStale
  \/ RequestInvalid \/ Binds \/ BindRefused
Dispatch ==
  \/ CancelsBeforeStart \/ StartDenied \/ StartWaits \/ StartTooLate \/ OperationStarts
  \/ WorkerCalled \/ WorkerReturns \/ CompletionProduced \/ TerminalProjected

\* Arrivals, cancellations and the clock.
LEMMA EnvironmentKeeps ==
  ASSUME IInv, Environment
  PROVE  IInv'
<1> USE QueueAssumption
    DEF IInv, TypeOK, SlotHeld, Entangled, WakesAfterTruth, StageKnows, SlotIsLive, PassHolds,
        Pass, Stages, Awaiting, Startup, Live, Held, Ended, Unstarted, OpEnded, Indices
<1> PICK u \in Undertakings : Enqueue(u) \/ RequestCancel(u) \/ TtlPasses(u) \/ DeadlinePasses(u)
                               \/ ProbeDue(u)
  BY DEF Environment
<1>1. CASE Enqueue(u)
  BY <1>1, AdmittedIsFinite DEF Enqueue
<1>2. CASE RequestCancel(u)
  BY <1>2 DEF RequestCancel
<1>3. CASE TtlPasses(u)
  BY <1>3 DEF TtlPasses, rows
<1>4. CASE DeadlinePasses(u)
  BY <1>4 DEF DeadlinePasses, rows
<1>5. CASE ProbeDue(u)
  BY <1>5 DEF ProbeDue
<1> QED
  BY <1>1, <1>2, <1>3, <1>4, <1>5

\* The repair of the slot, wherever the code calls it.
LEMMA RepairKeeps ==
  ASSUME IInv, PassBegins \/ PassRepairsAgain \/ BootRepairs
  PROVE  IInv'
<1> USE QueueAssumption
    DEF IInv, TypeOK, SlotHeld, Entangled, WakesAfterTruth, StageKnows, SlotIsLive, PassHolds,
        Pass, Stages, Awaiting, Startup, Live, Held, Ended, Unstarted, OpEnded, Indices
<1>1. CASE PassBegins
  <2>1. pass' \in Pass /\ pass'.at = "expire"
    BY <1>1, StageAlone DEF PassBegins
  <2> QED
    BY <1>1, <2>1 DEF PassBegins, Repair, Project, Verdict, Requeue, Released
<1>2. CASE PassRepairsAgain
  BY <1>2 DEF PassRepairsAgain, Repair, Project, Verdict, Requeue, Released, Goes
<1>3. CASE BootRepairs
  <2>1. pass' \in Pass /\ pass'.at = "backfill"
    BY <1>3, StageAlone DEF BootRepairs
  <2> QED
    BY <1>3, <2>1 DEF BootRepairs, Repair, Project, Verdict, Requeue, Released
<1> QED
  BY <1>1, <1>2, <1>3

\* The expiry of curiosity never meets work that holds the slot unstarted.
LEMMA ExpiryKeeps ==
  ASSUME IInv, Expiry
  PROVE  IInv'
<1> USE QueueAssumption
    DEF IInv, TypeOK, SlotHeld, Entangled, WakesAfterTruth, StageKnows, SlotIsLive, PassHolds,
        Pass, Stages, Awaiting, Startup, Live, Held, Ended, Unstarted, OpEnded, Indices
<1>1. CASE \E u \in Undertakings : ExpiryCancels(u)
  BY <1>1 DEF ExpiryCancels
<1>2. CASE \E u \in Undertakings : ExpiryFindsStarted(u)
  BY <1>2 DEF ExpiryFindsStarted, MarkRunning, Following
<1>3. CASE \E u \in Undertakings : ExpiryProjects(u)
  BY <1>3 DEF ExpiryProjects, MayExpire, Expired, Project, Verdict, Released
<1>4. CASE ExpiryEnds
  BY <1>4 DEF ExpiryEnds, Goes, rows
<1> QED
  BY <1>1, <1>2, <1>3, <1>4 DEF Expiry

\* The pass from its recovery to the moment it binds.
LEMMA SelectionKeeps ==
  ASSUME IInv, Selecting
  PROVE  IInv'
<1> USE QueueAssumption
    DEF IInv, TypeOK, SlotHeld, Entangled, WakesAfterTruth, StageKnows, SlotIsLive, PassHolds,
        Pass, Stages, Awaiting, Startup, Live, Held, Ended, Unstarted, OpEnded, Indices
<1>1. CASE PassRecovers
  BY <1>1 DEF PassRecovers, Unclaimed, Reconciled, Goes
<1>2. CASE SlotBusy
  BY <1>2 DEF SlotBusy, MarkRunning, Following, Returns, Idle
<1>3. CASE \E u \in Undertakings : PassSelects(u)
  BY <1>3 DEF PassSelects, rows
<1>4. CASE NothingToSelect
  BY <1>4 DEF NothingToSelect, Returns, Idle, rows
<1>5. CASE ProbeAvailable
  BY <1>5 DEF ProbeAvailable, Goes, rows
<1>6. CASE ProbeWaits
  BY <1>6 DEF ProbeWaits, Returns, Idle
<1>7. CASE ProbeDenies
  BY <1>7 DEF ProbeDenies, Project, Verdict, Released, Returns, Idle
<1>8. CASE CommitmentHolds
  BY <1>8 DEF CommitmentHolds, Goes, rows
<1>9. CASE CommitmentStale
  BY <1>9 DEF CommitmentStale, Returns, Idle
<1>10. CASE Binds
  BY <1>10 DEF Binds, Goes
<1>11. CASE BindRefused
  BY <1>11 DEF BindRefused, Returns, Idle, rows
<1>12. CASE RequestInvalid
  BY <1>12 DEF RequestInvalid, Project, Verdict, Released, Returns, Idle
<1> QED
  BY <1>1, <1>2, <1>3, <1>4, <1>5, <1>6, <1>7, <1>8, <1>9, <1>10, <1>11, <1>12 DEF Selecting

\* The dispatch of what was bound.
LEMMA DispatchKeeps ==
  ASSUME IInv, Dispatch
  PROVE  IInv'
<1> USE QueueAssumption
    DEF IInv, TypeOK, SlotHeld, Entangled, WakesAfterTruth, StageKnows, SlotIsLive, PassHolds,
        Pass, Stages, Awaiting, Startup, Live, Held, Ended, Unstarted, OpEnded, Indices
<1>1. CASE CancelsBeforeStart
  BY <1>1 DEF CancelsBeforeStart, EndsOperation, Goes
<1>2. CASE StartDenied
  BY <1>2 DEF StartDenied, EndsOperation, Goes
<1>3. CASE StartWaits
  BY <1>3 DEF StartWaits, Requeue, Released, Loses, Returns, Idle
<1>4. CASE StartTooLate
  BY <1>4 DEF StartTooLate, EndsOperation, Goes
<1>5. CASE OperationStarts
  BY <1>5 DEF OperationStarts, Goes
<1>6. CASE WorkerCalled
  BY <1>6 DEF WorkerCalled, MarkRunning, Following, Loses, Goes
<1>7. CASE WorkerReturns
  BY <1>7 DEF WorkerReturns, Outcomes, EndsOperation, Goes
<1>8. CASE CompletionProduced
  BY <1>8 DEF CompletionProduced, Loses, Goes
<1>9. CASE TerminalProjected
  BY <1>9 DEF TerminalProjected, Project, Verdict, Released, Loses, Returns, Idle
<1> QED
  BY <1>1, <1>2, <1>3, <1>4, <1>5, <1>6, <1>7, <1>8, <1>9 DEF Dispatch

\* A crash and the startup sequence.
LEMMA RestartKeeps ==
  ASSUME IInv, Crash \/ BootReconciles \/ BootBackfills
  PROVE  IInv'
<1> USE QueueAssumption
    DEF IInv, TypeOK, SlotHeld, Entangled, WakesAfterTruth, StageKnows, SlotIsLive, PassHolds,
        Pass, Stages, Awaiting, Startup, Live, Held, Ended, Unstarted, OpEnded, Indices
<1>1. CASE Crash
  BY <1>1, StageAlone DEF Crash, rows
<1>2. CASE BootReconciles
  BY <1>2, StageAlone DEF BootReconciles, Reconciled
<1>3. CASE BootBackfills
  BY <1>3 DEF BootBackfills, Returns, Idle
<1> QED
  BY <1>1, <1>2, <1>3

\* Every step keeps the invariant.
LEMMA NextIInv == IInv /\ [Next]_vars => IInv'
<1> SUFFICES ASSUME IInv, [Next]_vars PROVE IInv'
  OBVIOUS
<1>1. CASE UNCHANGED vars
  BY <1>1
     DEF vars, rows, IInv, TypeOK, SlotHeld, Entangled, WakesAfterTruth, StageKnows, SlotIsLive,
         PassHolds
<1>2. CASE PassStep
  BY <1>2, RepairKeeps, ExpiryKeeps, SelectionKeeps, DispatchKeeps
     DEF PassStep, Selecting, Dispatch
<1>3. CASE Boot
  BY <1>3, RepairKeeps, RestartKeeps DEF Boot
<1> QED
  BY <1>1, <1>2, <1>3, EnvironmentKeeps, RestartKeeps DEF Next

\* Undertaking, operation, slot and pass agree in every reachable state.
THEOREM Invariance == Spec => []IInv
<1> QED
  BY InitIInv, NextIInv, PTL DEF Spec
--------------------------------------------------------------------------------
(* What follows from it.                                                    *)

\* The rows and the pass keep their types.
THEOREM TypeCorrect == Spec => []TypeOK
<1>1. IInv => TypeOK
  BY DEF IInv
<1> QED
  BY <1>1, Invariance, PTL

\* Whoever is dispatching or running holds the slot, and nobody else does.
THEOREM SlotIsHeld == Spec => []SlotHeld
<1>1. IInv => SlotHeld
  BY DEF IInv
<1> QED
  BY <1>1, Invariance, PTL

\* No undertaking is worked on twice, however the pass and the crashes fall.
THEOREM WorkedAtMostOnce == Spec => []WorkedOnce
<1>1. IInv => WorkedOnce
  BY DEF IInv, Entangled, WorkedOnce
<1> QED
  BY <1>1, Invariance, PTL

\* The end the queue records is the end of the detached row.
THEOREM VerdictStands == Spec => []VerdictAgrees
<1>1. IInv => VerdictAgrees
  BY DEF IInv, Entangled, VerdictAgrees
<1> QED
  BY <1>1, Invariance, PTL

\* No completion is told of an operation that is not over.
THEOREM WokenByTruth == Spec => []WakesAfterTruth
<1>1. IInv => WakesAfterTruth
  BY DEF IInv
<1> QED
  BY <1>1, Invariance, PTL
--------------------------------------------------------------------------------
(* The queue implements OneWorker.                                          *)

\* The status of an undertaking is a function of its two rows.
StatusOf(s, o) ==
  IF s = "absent" THEN "absent"
  ELSE IF o = "started" THEN "working"
  ELSE IF o \in OpEnded \/ s \in Ended THEN "over"
  ELSE "waiting"

Before(u) == StatusOf(state[u], op[u])
After(u)  == StatusOf(state'[u], op'[u])

\* The three things that happen to a status, everything else being as before.
Stays(u)   == After(u) = Before(u)
Alone(u)   == \A v \in Undertakings \ {u} : Stays(v)
Submits(u) == Before(u) = "absent" /\ After(u) = "waiting" /\ Alone(u)
Begins(u)  ==
  /\ Before(u) = "waiting" /\ After(u) = "working" /\ Alone(u)
  /\ \A v \in Undertakings : Before(v) # "working"
Ends(u)    == Before(u) \in {"waiting", "working"} /\ After(u) = "over" /\ Alone(u)

Moves ==
  \/ \A u \in Undertakings : Stays(u)
  \/ \E u \in Undertakings : Submits(u) \/ Begins(u) \/ Ends(u)

\* Those are the steps of the abstract service.
LEMMA MovesAreSteps == Moves => [Service!Next]_Status
<1> SUFFICES ASSUME Moves PROVE Service!Next \/ Status' = Status
  OBVIOUS
<1>1. /\ Status = [u \in Undertakings |-> Before(u)]
      /\ Status' = [u \in Undertakings |-> After(u)]
  BY DEF Status, Before, After, StatusOf
<1>2. CASE \A u \in Undertakings : Stays(u)
  BY <1>1, <1>2 DEF Stays
<1>3. ASSUME NEW u \in Undertakings, Submits(u)
      PROVE  Service!Submit(u)
  BY <1>1, <1>3 DEF Submits, Alone, Stays, Service!Submit
<1>4. ASSUME NEW u \in Undertakings, Begins(u)
      PROVE  Service!Begin(u)
  BY <1>1, <1>4 DEF Begins, Alone, Stays, Service!Begin
<1>5. ASSUME NEW u \in Undertakings, Ends(u)
      PROVE  Service!Finish(u)
  BY <1>1, <1>5 DEF Ends, Alone, Stays, Service!Finish
<1> QED
  BY <1>2, <1>3, <1>4, <1>5 DEF Moves, Service!Next

\* Arrivals submit, cancellations end, the clock does nothing.
LEMMA ArrivalMoves ==
  ASSUME IInv, Environment
  PROVE  Moves
<1> USE DEF Moves, Stays, Alone, Before, After, StatusOf, Live, Held, Ended, Unstarted, OpEnded
<1>1. CASE \E u \in Undertakings : Enqueue(u)
  BY <1>1 DEF Enqueue, Submits, IInv, TypeOK, Entangled
<1>2. CASE \E u \in Undertakings : RequestCancel(u)
  BY <1>2 DEF RequestCancel, Ends, IInv, TypeOK, Entangled
<1>3. CASE \E u \in Undertakings : TtlPasses(u) \/ DeadlinePasses(u) \/ ProbeDue(u)
  BY <1>3 DEF TtlPasses, DeadlinePasses, ProbeDue, rows
<1> QED
  BY <1>1, <1>2, <1>3 DEF Environment

\* The repair of the slot tells the service nothing.
LEMMA RepairMoves ==
  ASSUME IInv, PassBegins \/ PassRepairsAgain \/ BootRepairs
  PROVE  Moves
<1> USE DEF Moves, Stays, Alone, Before, After, StatusOf, Live, Held, Ended, Unstarted, OpEnded,
            IInv, TypeOK, SlotHeld, Entangled
<1>1. CASE PassBegins \/ PassRepairsAgain \/ BootRepairs
  BY <1>1, QueueAssumption DEF PassBegins, PassRepairsAgain, BootRepairs, Repair, Project,
                              Verdict, Requeue, Released
<1> QED
  BY <1>1

\* Expiry ends an undertaking once, in one of its two rows.
LEMMA ExpiryMoves ==
  ASSUME IInv, Expiry
  PROVE  Moves
<1> USE DEF Moves, Stays, Alone, Before, After, StatusOf, Live, Held, Ended, Unstarted, OpEnded,
            IInv, TypeOK, SlotHeld, Entangled
<1>1. CASE \E u \in Undertakings : ExpiryCancels(u)
  BY <1>1, QueueAssumption DEF ExpiryCancels, Expired, Ends
<1>2. CASE \E u \in Undertakings : ExpiryFindsStarted(u)
  BY <1>2, QueueAssumption DEF ExpiryFindsStarted, MarkRunning
<1>3. CASE \E u \in Undertakings : ExpiryProjects(u)
  BY <1>3, QueueAssumption DEF ExpiryProjects, MayExpire, Expired, Project, Verdict, Ends
<1>4. CASE ExpiryEnds
  BY <1>4, QueueAssumption DEF ExpiryEnds, rows
<1> QED
  BY <1>1, <1>2, <1>3, <1>4 DEF Expiry

\* Until it is bound an undertaking waits or is withdrawn.
LEMMA SelectionMoves ==
  ASSUME IInv, Selecting
  PROVE  Moves
<1> USE DEF Moves, Stays, Alone, Before, After, StatusOf, Live, Held, Ended, Unstarted, OpEnded,
            IInv, TypeOK, SlotHeld, Entangled
<1>1. CASE PassRecovers
  BY <1>1, QueueAssumption DEF PassRecovers, Unclaimed, Reconciled, Ends
<1>2. CASE SlotBusy
  BY <1>2, QueueAssumption DEF SlotBusy, MarkRunning
<1>3. CASE \/ \E u \in Undertakings : PassSelects(u)
           \/ NothingToSelect \/ ProbeAvailable \/ ProbeWaits \/ CommitmentHolds \/ BindRefused
  BY <1>3, QueueAssumption DEF PassSelects, NothingToSelect, ProbeAvailable, ProbeWaits,
                              CommitmentHolds, BindRefused, rows
<1>4. CASE ProbeDenies \/ RequestInvalid
  BY <1>4, QueueAssumption DEF ProbeDenies, RequestInvalid, StageKnows, Project, Verdict, Ends
<1>5. CASE CommitmentStale
  BY <1>5, QueueAssumption DEF CommitmentStale, StageKnows, Ends
<1>6. CASE Binds
  BY <1>6, QueueAssumption DEF Binds, StageKnows
<1> QED
  BY <1>1, <1>2, <1>3, <1>4, <1>5, <1>6 DEF Selecting

\* A dispatch begins once and ends once.
LEMMA DispatchMoves ==
  ASSUME IInv, Dispatch
  PROVE  Moves
<1> USE DEF Moves, Stays, Alone, Before, After, StatusOf, Live, Held, Ended, Unstarted, OpEnded,
            IInv, TypeOK, SlotHeld, Entangled
<1>1. CASE CancelsBeforeStart \/ StartDenied \/ StartTooLate
  BY <1>1, QueueAssumption DEF CancelsBeforeStart, StartDenied, StartTooLate, StageKnows, PassHolds,
                              EndsOperation, Ends
<1>2. CASE StartWaits
  BY <1>2, QueueAssumption DEF StartWaits, StageKnows, PassHolds, Requeue
<1>3. CASE OperationStarts
  BY <1>3, QueueAssumption DEF OperationStarts, StageKnows, PassHolds, Begins
<1>4. CASE WorkerCalled
  BY <1>4, QueueAssumption DEF WorkerCalled, MarkRunning
<1>5. CASE WorkerReturns
  BY <1>5, QueueAssumption DEF WorkerReturns, StageKnows, PassHolds, Outcomes, EndsOperation, Ends
<1>6. CASE CompletionProduced
  BY <1>6, QueueAssumption DEF CompletionProduced
<1>7. CASE TerminalProjected
  BY <1>7, QueueAssumption DEF TerminalProjected, StageKnows, PassHolds, Project, Verdict
<1> QED
  BY <1>1, <1>2, <1>3, <1>4, <1>5, <1>6, <1>7 DEF Dispatch

\* A restart gives up on the one worker that may have been working.
LEMMA RestartMoves ==
  ASSUME IInv, Crash \/ BootReconciles \/ BootBackfills
  PROVE  Moves
<1> USE DEF Moves, Stays, Alone, Before, After, StatusOf, Live, Held, Ended, Unstarted, OpEnded,
            IInv, TypeOK, SlotHeld, Entangled
<1>1. CASE Crash \/ BootBackfills
  BY <1>1, QueueAssumption DEF Crash, BootBackfills, rows
<1>2. CASE BootReconciles
  BY <1>2, QueueAssumption DEF BootReconciles, Reconciled, Ends
<1> QED
  BY <1>1, <1>2

\* Every step of the program is a step of the service or a stutter.
LEMMA ServiceStep == IInv /\ [Next]_vars => [Service!Next]_Status
<1> SUFFICES ASSUME IInv, [Next]_vars PROVE Moves
  BY MovesAreSteps
<1>1. CASE UNCHANGED vars
  BY <1>1 DEF vars, rows, Moves, Stays, Before, After
<1>2. CASE PassStep
  BY <1>2, RepairMoves, ExpiryMoves, SelectionMoves, DispatchMoves
     DEF PassStep, Selecting, Dispatch
<1>3. CASE Boot
  BY <1>3, RepairMoves, RestartMoves DEF Boot
<1> QED
  BY <1>1, <1>2, <1>3, ArrivalMoves, RestartMoves DEF Next

\* The rows implement one worker that takes each job at most once.
THEOREM QueueIsOneWorker == Spec => ImplementsOneWorker
<1>1. Init => Service!Init
  BY DEF Init, Service!Init, Status
<1>2. IInv /\ [Next]_vars => [Service!Next]_Status
  BY ServiceStep
<1> QED
  BY <1>1, <1>2, Invariance, PTL DEF Spec, ImplementsOneWorker, Service!Spec
--------------------------------------------------------------------------------
(* The bounds of the queue.                                                 *)

Pending == {"queued", "dispatching"}

\* Work leaves the queue and returns to it from its dispatch, and never from its end.
NoArrival ==
  \A u \in Undertakings : /\ state'[u] \in Live => state[u] \in Live
                          /\ state'[u] \in Pending => state[u] \in Pending

\* A repair takes work back from its dispatch or ends it.
LEMMA RepairAdmitsNothing ==
  ASSUME IInv, PassBegins \/ PassRepairsAgain \/ BootRepairs
  PROVE  NoArrival
  BY QueueAssumption
     DEF PassBegins, PassRepairsAgain, BootRepairs, Repair, Project, Verdict, Requeue, Released,
         NoArrival, Pending, Live, Held, Ended, OpEnded, Unstarted, IInv, TypeOK

\* Expiry ends work, or notes that it runs.
LEMMA ExpiryAdmitsNothing ==
  ASSUME IInv, Expiry
  PROVE  NoArrival
<1> USE DEF NoArrival, Pending, Live, Held, Ended, OpEnded, Unstarted, IInv, TypeOK
<1>1. CASE \E u \in Undertakings : ExpiryCancels(u) \/ ExpiryFindsStarted(u)
  BY <1>1 DEF ExpiryCancels, ExpiryFindsStarted, MarkRunning
<1>2. CASE \E u \in Undertakings : ExpiryProjects(u)
  BY <1>2 DEF ExpiryProjects, Project, Verdict
<1>3. CASE ExpiryEnds
  BY <1>3 DEF ExpiryEnds, rows
<1> QED
  BY <1>1, <1>2, <1>3 DEF Expiry

\* A pass selects among what waits.
LEMMA SelectionAdmitsNothing ==
  ASSUME IInv, Selecting
  PROVE  NoArrival
<1> USE DEF NoArrival, Pending, Live, Held, Ended, OpEnded, Unstarted, IInv, TypeOK
<1>1. CASE PassRecovers
  BY <1>1 DEF PassRecovers, Unclaimed
<1>2. CASE SlotBusy
  BY <1>2 DEF SlotBusy, MarkRunning
<1>3. CASE (\E u \in Undertakings : PassSelects(u)) \/ NothingToSelect \/ ProbeAvailable
             \/ CommitmentHolds \/ BindRefused
  BY <1>3 DEF PassSelects, NothingToSelect, ProbeAvailable, CommitmentHolds, BindRefused, rows
<1>4. CASE ProbeWaits \/ CommitmentStale \/ Binds
  BY <1>4 DEF ProbeWaits, CommitmentStale, Binds
<1>5. CASE ProbeDenies \/ RequestInvalid
  BY <1>5 DEF ProbeDenies, RequestInvalid, Project, Verdict
<1> QED
  BY <1>1, <1>2, <1>3, <1>4, <1>5 DEF Selecting

\* A dispatch that finds no capacity puts back what it took.
LEMMA DispatchAdmitsNothing ==
  ASSUME IInv, Dispatch
  PROVE  NoArrival
<1> USE DEF NoArrival, Pending, Live, Held, Ended, OpEnded, Unstarted, IInv, TypeOK
<1>1. CASE CancelsBeforeStart \/ StartDenied \/ StartTooLate \/ OperationStarts
             \/ WorkerReturns \/ CompletionProduced
  BY <1>1 DEF CancelsBeforeStart, StartDenied, StartTooLate, OperationStarts, WorkerReturns,
              CompletionProduced
<1>2. CASE StartWaits
  BY <1>2 DEF StartWaits, Requeue
<1>3. CASE WorkerCalled
  BY <1>3 DEF WorkerCalled, MarkRunning
<1>4. CASE TerminalProjected
  BY <1>4 DEF TerminalProjected, Project, Verdict, StageKnows
<1> QED
  BY <1>1, <1>2, <1>3, <1>4 DEF Dispatch

\* What the bounds count is finite.
LEMMA QueueIsFinite ==
  /\ IsFiniteSet(Nonterminal) /\ Cardinality(Nonterminal) \in Nat
  /\ IsFiniteSet(PendingCuriosity) /\ Cardinality(PendingCuriosity) \in Nat
  BY QueueAssumption, FS_Subset, FS_CardinalityType DEF Nonterminal, PendingCuriosity

\* Where nothing arrives, nothing is counted that was not counted before.
LEMMA NoArrivalKeepsBounds ==
  ASSUME NoArrival, WithinBounds
  PROVE  WithinBounds'
<1>1. Nonterminal' \subseteq Nonterminal /\ PendingCuriosity' \subseteq PendingCuriosity
  BY DEF NoArrival, Nonterminal, PendingCuriosity, Pending, Curious
<1>2. /\ Cardinality(Nonterminal') <= Cardinality(Nonterminal)
      /\ Cardinality(Nonterminal') \in Nat
  BY <1>1, QueueIsFinite, FS_Subset, FS_CardinalityType
<1>3. /\ Cardinality(PendingCuriosity') <= Cardinality(PendingCuriosity)
      /\ Cardinality(PendingCuriosity') \in Nat
  BY <1>1, QueueIsFinite, FS_Subset, FS_CardinalityType
<1> QED
  BY <1>2, <1>3, QueueIsFinite, QueueAssumption DEF WithinBounds

\* An arrival takes one place, and one of curiosity's if it is curious.
LEMMA EnqueueKeepsBounds ==
  ASSUME IInv, WithinBounds, NEW u \in Undertakings, Enqueue(u)
  PROVE  WithinBounds'
<1>1. Nonterminal' = Nonterminal \cup {u} /\ u \notin Nonterminal
  BY DEF Enqueue, Nonterminal, Live, Held, IInv, TypeOK
<1>2. Cardinality(Nonterminal') = Cardinality(Nonterminal) + 1
  BY <1>1, QueueIsFinite, FS_AddElement
<1>3. CASE Curious(u)
  <2>1. PendingCuriosity' = PendingCuriosity \cup {u} /\ u \notin PendingCuriosity
    BY <1>3 DEF Enqueue, PendingCuriosity, Curious, IInv, TypeOK
  <2>2. Cardinality(PendingCuriosity') = Cardinality(PendingCuriosity) + 1
    BY <2>1, QueueIsFinite, FS_AddElement
  <2> QED
    BY <1>2, <1>3, <2>2, QueueIsFinite, QueueAssumption DEF Enqueue, HasRoom, WithinBounds
<1>4. CASE ~Curious(u)
  <2>1. PendingCuriosity' = PendingCuriosity
    BY <1>4 DEF Enqueue, PendingCuriosity, Curious, IInv, TypeOK
  <2> QED
    BY <1>2, <2>1, QueueIsFinite, QueueAssumption DEF Enqueue, HasRoom, WithinBounds
<1> QED
  BY <1>3, <1>4

\* Every step either is an arrival or lets nothing in.
LEMMA NextKeepsBounds == IInv /\ WithinBounds /\ [Next]_vars => WithinBounds'
<1> SUFFICES ASSUME IInv, WithinBounds, [Next]_vars PROVE WithinBounds'
  OBVIOUS
<1>1. CASE \E u \in Undertakings : Enqueue(u)
  BY <1>1, EnqueueKeepsBounds
<1>2. CASE \E u \in Undertakings : RequestCancel(u) \/ TtlPasses(u) \/ DeadlinePasses(u) \/ ProbeDue(u)
  <2>1. NoArrival
    BY <1>2 DEF RequestCancel, TtlPasses, DeadlinePasses, ProbeDue, rows, NoArrival, Pending,
                Live, Held, IInv, TypeOK
  <2> QED
    BY <2>1, NoArrivalKeepsBounds
<1>3. CASE PassStep
  BY <1>3, RepairAdmitsNothing, ExpiryAdmitsNothing, SelectionAdmitsNothing,
     DispatchAdmitsNothing, NoArrivalKeepsBounds DEF PassStep, Selecting, Dispatch
<1>4. CASE BootRepairs
  BY <1>4, RepairAdmitsNothing, NoArrivalKeepsBounds
<1>5. CASE BootReconciles \/ BootBackfills \/ Crash \/ UNCHANGED vars
  <2>1. NoArrival
    BY <1>5 DEF BootReconciles, BootBackfills, Crash, vars, rows, NoArrival
  <2> QED
    BY <2>1, NoArrivalKeepsBounds
<1> QED
  BY <1>1, <1>2, <1>3, <1>4, <1>5 DEF Next, Boot, Environment

\* The bounds hold in every reachable state: of the nonterminal work, and of the curiosity
\* that waits or is being dispatched.
THEOREM BoundsHold == Spec => []WithinBounds
<1>1. Init => WithinBounds
  <2> SUFFICES ASSUME Init PROVE WithinBounds
    OBVIOUS
  <2>1. Nonterminal = {} /\ PendingCuriosity = {}
    BY DEF Init, Nonterminal, PendingCuriosity, Live, Held
  <2> QED
    BY <2>1, FS_EmptySet, QueueAssumption DEF WithinBounds
<1>2. IInv /\ WithinBounds /\ [Next]_vars => WithinBounds'
  BY NextKeepsBounds
<1> QED
  BY <1>1, <1>2, Invariance, PTL DEF Spec
================================================================================
