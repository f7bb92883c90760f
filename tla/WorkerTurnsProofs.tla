-------------------------- MODULE WorkerTurnsProofs --------------------------
(***************************************************************************)
(* That the calendar serves each class in its turn, and what a crash or a   *)
(* lost callback between a start and the move of the calendar costs.        *)
(***************************************************************************)
EXTENDS WorkerTurns, WorkerQueueProofs

--------------------------------------------------------------------------------
(* The calendar.                                                            *)

Cal(i)   == WORKER_SERVICE_CALENDAR[i]
Pos(a)   == (a % 7) + 1

\* The n entries before p are not of class k.
Free(p, k, n) ==
  \E i \in Indices : Pos(i + n) = p /\ \A j \in 1..n : Cal(Pos(i + j - 1)) # k

\* Positions are indices, and a step from a position is a step of its argument.
LEMMA Positions ==
  ASSUME NEW a \in Nat, NEW m \in Nat
  PROVE  /\ Pos(a) \in Indices
         /\ Pos(Pos(a) + m - 1) = Pos(a + m)
         /\ Following(Pos(a)) = Pos(a + 1)
  BY DEF Pos, Indices, Following

\* Every class occurs in the calendar.
LEMMA EveryClassOccurs ==
  ASSUME NEW k \in Origins, NEW i \in Indices
  PROVE  \E j \in 1..7 : Cal(Pos(i + j - 1)) = k
<1>1. \A j \in 1..7 : Pos(j) = IF j = 7 THEN 1 ELSE j + 1
  BY DEF Pos
<1>2. /\ Cal(1) = "OWNER_REQUEST" /\ Cal(2) = "ASHLEY_COMMITMENT" /\ Cal(4) = "ASHLEY_CURIOSITY"
  BY DEF Cal, WORKER_SERVICE_CALENDAR
<1>3. PICK p \in {1, 2, 4} : Cal(p) = k
  BY <1>2 DEF Origins
<1>4. \E j \in 1..7 : Pos(i + j - 1) = p
  BY <1>3 DEF Pos, Indices
<1> QED
  BY <1>3, <1>4

\* So no stretch without a class is as long as the calendar.
LEMMA FreeIsShort ==
  ASSUME NEW p, NEW k \in Origins, NEW n \in Nat, Free(p, k, n)
  PROVE  n \in 0..6
<1>1. PICK i \in Indices : \A j \in 1..n : Cal(Pos(i + j - 1)) # k
  BY DEF Free
<1>2. PICK j \in 1..7 : Cal(Pos(i + j - 1)) = k
  BY EveryClassOccurs
<1> QED
  BY <1>1, <1>2

\* A free stretch grows over free entries.
LEMMA FreeGrows ==
  ASSUME NEW c \in Indices, NEW k, NEW n \in Nat, Free(c, k, n),
         NEW d \in Nat, \A m \in 0..d : Cal(Pos(c + m - 1)) # k
  PROVE  Free(Following(Pos(c + d - 1)), k, n + d + 1)
<1>1. PICK i \in Indices : Pos(i + n) = c /\ \A j \in 1..n : Cal(Pos(i + j - 1)) # k
  BY DEF Free
<1>2. i \in Nat /\ c \in Nat /\ i + n \in Nat
  BY DEF Indices
<1>3. ASSUME NEW m \in 0..d PROVE Pos(c + m - 1) = Pos(i + n + m)
  <2>1. Pos(Pos(i + n) + m - 1) = Pos(i + n + m)
    BY <1>2, Positions, m \in Nat
  <2> QED
    BY <1>1, <2>1
<1>4. Following(Pos(c + d - 1)) = Pos(i + (n + d + 1))
  <2>1. Pos(c + d - 1) = Pos(i + n + d)
    BY <1>3
  <2>2. Following(Pos(i + n + d)) = Pos(i + n + d + 1)
    BY <1>2, Positions, i + n + d \in Nat
  <2> QED
    BY <1>2, <2>1, <2>2
<1>5. ASSUME NEW j \in 1..(n + d + 1)
      PROVE  Cal(Pos(i + j - 1)) # k
  <2>1. CASE j <= n
    BY <1>1, <2>1
  <2>2. CASE j > n
    <3>1. j - n - 1 \in 0..d /\ i + n + (j - n - 1) = i + j - 1
      BY <1>2, <2>2
    <3> QED
      BY <1>3, <3>1
  <2> QED
    BY <2>1, <2>2
<1> QED
  BY <1>4, <1>5 DEF Free

\* Nothing need be free before a position.
LEMMA NothingFree ==
  ASSUME NEW p \in Indices, NEW k
  PROVE  Free(p, k, 0)
<1>1. \E i \in Indices : Pos(i + 0) = p
  BY DEF Pos, Indices
<1> QED
  BY <1>1 DEF Free

\* A set of small numbers has a largest one.
LEMMA MaxIsUpperBound ==
  ASSUME NEW S, S \subseteq 0..7, NEW n \in S
  PROVE  n <= Max(S) /\ Max(S) \in Nat
<1>1. \E x \in S : \A y \in S : x >= y
  <2>1. CASE 7 \in S
    BY <2>1
  <2>2. CASE 7 \notin S /\ 6 \in S
    BY <2>2
  <2>3. CASE 7 \notin S /\ 6 \notin S /\ 5 \in S
    BY <2>3
  <2>4. CASE S \subseteq 0..4 /\ 4 \in S
    BY <2>4
  <2>5. CASE S \subseteq 0..3 /\ 3 \in S
    BY <2>5
  <2>6. CASE S \subseteq 0..2 /\ 2 \in S
    BY <2>6
  <2>7. CASE S \subseteq 0..1
    BY <2>7
  <2> QED
    BY <2>1, <2>2, <2>3, <2>4, <2>5, <2>6, <2>7
<1>2. Max(S) \in S /\ \A y \in S : Max(S) >= y
  BY <1>1 DEF Max
<1> DEFINE m == Max(S)
<1>3. m \in S /\ m >= n
  BY <1>2
<1> HIDE DEF m
<1>4. m \in Nat /\ n <= m
  BY <1>3
<1> QED
  BY <1>4 DEF m

\* What Stretch measures.
LEMMA StretchBounds ==
  ASSUME NEW p, NEW k \in Origins, NEW n \in Nat, Free(p, k, n)
  PROVE  n <= Stretch(k) /\ Stretch(k) \in Nat
<1> DEFINE S == {m \in 0..7 : \E i \in Indices :
                   \A j \in 1..m : WORKER_SERVICE_CALENDAR[((i + j - 1) % 7) + 1] # k}
<1>1. n \in S
  BY FreeIsShort DEF Free, Cal, Pos
<1>2. Stretch(k) = Max(S)
  BY DEF Stretch
<1>3. S \subseteq 0..7
  OBVIOUS
<1> HIDE DEF S
<1>4. n <= Max(S) /\ Max(S) \in Nat
  BY <1>1, <1>3, MaxIsUpperBound
<1> QED
  BY <1>2, <1>4, Zenon
--------------------------------------------------------------------------------
(* What the pass carries from its selection to the move of the calendar.    *)

Chosen == {"probe", "current", "bind", "cancel", "start"}
Bound  == {"cancel", "start", "started"}

\* Whoever is dispatching carries the entry of the calendar it was selected for.
Carried ==
  /\ \A u \in Undertakings : state[u] = "dispatching" => selected[u] \in Indices
  /\ pass.at \in Chosen \cup Bound => pass.index \in Indices /\ pass.who \in Undertakings
  /\ pass.at \in Bound => state[pass.who] = "dispatching" /\ selected[pass.who] = pass.index

\* A start that has not moved the calendar, and may still do so.
InFlight == slot # NoUndertaking /\ state[slot] = "dispatching" /\ op[slot] = "started"

\* What a step does as far as turns are concerned: it leaves the choice and the calendar
\* alone, and if it ends a start it is a fault; ...
SameChoice == pass'.who = pass.who /\ pass'.index = pass.index
LeavesTurns ==
  /\ cursor' = cursor
  /\ faults' \in {faults, faults + 1}
  /\ ~SelectsNow /\ ~Start
  /\ pass.at = "started" => pass'.at = "started" \/ faults' = faults + 1
  /\ pass'.at = "started" => pass.at = "started"
  /\ pass'.at \in Chosen => pass.at \in Chosen /\ SameChoice
  /\ InFlight' => InFlight /\ slot' = slot /\ selected'[slot] = selected[slot]

\* ... or it moves the calendar past the entry of the start in flight; ...
MovesCalendar ==
  /\ InFlight /\ cursor' = Following(selected[slot]) /\ faults' = faults
  /\ ~SelectsNow /\ ~Start
  /\ pass'.at \notin Chosen \cup {"started"}
  /\ ~InFlight'

\* ... or it selects, or starts.
TurnsGoOn == Carried' /\ (LeavesTurns \/ MovesCalendar)

\* Environment steps leave the pass alone.
LEMMA EnvironmentGoesOn ==
  ASSUME IInv, Carried, Environment
  PROVE  TurnsGoOn
<1> USE DEF Carried, TurnsGoOn, LeavesTurns, InFlight, SelectsNow, Start, SameChoice, Chosen,
            Bound, Held, IInv, TypeOK, Entangled
<1> PICK u \in Undertakings : Enqueue(u) \/ RequestCancel(u) \/ TtlPasses(u) \/ DeadlinePasses(u)
                               \/ ProbeDue(u)
  BY DEF Environment
<1>1. CASE Enqueue(u)
  BY <1>1 DEF Enqueue
<1>2. CASE RequestCancel(u)
  BY <1>2 DEF RequestCancel
<1>3. CASE TtlPasses(u) \/ DeadlinePasses(u) \/ ProbeDue(u)
  BY <1>3 DEF TtlPasses, DeadlinePasses, ProbeDue, rows
<1> QED
  BY <1>1, <1>2, <1>3

\* A repair frees the slot, if anything; it starts nothing.
LEMMA RepairGoesOn ==
  ASSUME IInv, Carried, PassBegins \/ PassRepairsAgain \/ BootRepairs
  PROVE  TurnsGoOn
<1> USE QueueAssumption
    DEF Carried, TurnsGoOn, LeavesTurns, InFlight, SelectsNow, Start, SameChoice, Chosen, Bound,
        IInv, TypeOK, At, Idle, Goes, Pass
<1>1. Repair /\ cursor' = cursor /\ faults' = faults /\ op' = op
  BY DEF PassBegins, PassRepairsAgain, BootRepairs
<1>2. /\ \A u \in Undertakings : state'[u] = "dispatching" =>
            state[u] = "dispatching" /\ selected'[u] = selected[u]
      /\ InFlight' => InFlight /\ slot' = slot /\ selected'[slot] = selected[slot]
  BY <1>1 DEF Repair, Project, Verdict, Requeue, Released, Ended, Live, OpEnded
<1>3. pass.at \notin Chosen \cup Bound /\ pass'.at \in {"expire", "converge", "backfill"}
      /\ pass.at # "converge"
  BY DEF PassBegins, PassRepairsAgain, BootRepairs
<1> QED
  BY <1>1, <1>2, <1>3

\* The expiry may find a start that nobody marked, and then moves the calendar.
LEMMA ExpiryGoesOn ==
  ASSUME IInv, Carried, Expiry
  PROVE  TurnsGoOn
<1> USE QueueAssumption
    DEF Carried, TurnsGoOn, LeavesTurns, InFlight, SelectsNow, Start, SameChoice, Chosen, Bound,
        IInv, TypeOK
<1>1. CASE \E u \in Undertakings : ExpiryCancels(u)
  BY <1>1 DEF ExpiryCancels
<1>2. CASE \E u \in Undertakings : ExpiryFindsStarted(u)
  <2>1. PICK u \in Undertakings : ExpiryFindsStarted(u)
    BY <1>2
  <2>2. CASE state[u] = "dispatching" /\ slot = u
    BY <2>1, <2>2 DEF ExpiryFindsStarted, MarkRunning, MovesCalendar, Indices, NoIndex
  <2>3. CASE ~(state[u] = "dispatching" /\ slot = u)
    BY <2>1, <2>3 DEF ExpiryFindsStarted, MarkRunning
  <2> QED
    BY <2>2, <2>3
<1>3. CASE \E u \in Undertakings : ExpiryProjects(u)
  BY <1>3 DEF ExpiryProjects, Project, Released, Verdict, OpEnded
<1>4. CASE ExpiryEnds
  BY <1>4 DEF ExpiryEnds, rows, Pass, Goes
<1> QED
  BY <1>1, <1>2, <1>3, <1>4 DEF Expiry

\* So may the pass that finds the slot busy; otherwise a pass only binds what it selected.
LEMMA SelectingGoesOn ==
  ASSUME IInv, Carried, Selecting, ~\E u \in Undertakings : PassSelects(u)
  PROVE  TurnsGoOn
<1> USE QueueAssumption
    DEF Carried, TurnsGoOn, LeavesTurns, InFlight, SelectsNow, Start, SameChoice, Chosen, Bound,
        IInv, TypeOK, Goes, Returns, Idle
<1>1. CASE PassRecovers
  BY <1>1 DEF PassRecovers, Pass, Unclaimed, Reconciled, Unstarted
<1>2. CASE SlotBusy
  <2>1. slot \in Undertakings /\ op[slot] = "started"
    BY <1>2 DEF SlotBusy, StageKnows, SlotIsLive
  <2>2. CASE state[slot] = "dispatching"
    BY <1>2, <2>1, <2>2 DEF SlotBusy, MarkRunning, MovesCalendar, Indices, NoIndex
  <2>3. CASE state[slot] # "dispatching"
    BY <1>2, <2>1, <2>3 DEF SlotBusy, MarkRunning
  <2> QED
    BY <2>2, <2>3
<1>3. CASE NothingToSelect
  BY <1>3 DEF NothingToSelect, rows
<1>4. CASE ProbeAvailable
  BY <1>4 DEF ProbeAvailable, rows, Pass
<1>5. CASE ProbeWaits \/ CommitmentStale
  BY <1>5 DEF ProbeWaits, CommitmentStale
<1>6. CASE ProbeDenies \/ RequestInvalid
  BY <1>6 DEF ProbeDenies, RequestInvalid, Project, Released, Verdict, OpEnded
<1>7. CASE CommitmentHolds
  BY <1>7 DEF CommitmentHolds, rows, Pass
<1>8. CASE Binds
  BY <1>8 DEF Binds, Pass, Entangled, Held
<1>9. CASE BindRefused
  BY <1>9 DEF BindRefused, rows
<1> QED
  BY <1>1, <1>2, <1>3, <1>4, <1>5, <1>6, <1>7, <1>8, <1>9 DEF Selecting

\* A pass that has started its undertaking calls the worker and moves the calendar, or loses
\* the callback that would.
LEMMA DispatchGoesOn ==
  ASSUME IInv, Carried, Dispatch, ~OperationStarts
  PROVE  TurnsGoOn
<1> USE QueueAssumption
    DEF Carried, TurnsGoOn, LeavesTurns, InFlight, SelectsNow, Start, SameChoice, Chosen, Bound,
        IInv, TypeOK, StageKnows, PassHolds, Goes, Returns, Idle, Pass, Loses
<1>1. CASE CancelsBeforeStart \/ StartDenied \/ StartTooLate
  BY <1>1 DEF CancelsBeforeStart, StartDenied, StartTooLate, EndsOperation
<1>2. CASE StartWaits
  BY <1>2 DEF StartWaits, Requeue, Released
<1>3. CASE WorkerCalled
  <2>1. /\ pass.at = "started" /\ pass'.at = "worker" /\ InFlight /\ slot = pass.who
        /\ slot \in Undertakings /\ selected[slot] \in Indices
    BY <1>3 DEF WorkerCalled
  <2>2. CASE MarkRunning(pass.who) /\ UNCHANGED faults
    BY <1>3, <2>1, <2>2 DEF WorkerCalled, MarkRunning, MovesCalendar, Indices, NoIndex
  <2>3. CASE Loses /\ UNCHANGED <<state, later, cursor>>
    BY <1>3, <2>1, <2>3 DEF WorkerCalled
  <2> QED
    BY <1>3, <2>2, <2>3 DEF WorkerCalled
<1>4. CASE WorkerReturns
  BY <1>4 DEF WorkerReturns, EndsOperation, Outcomes
<1>5. CASE CompletionProduced
  BY <1>5 DEF CompletionProduced
<1>6. CASE TerminalProjected
  BY <1>6 DEF TerminalProjected, Project, Released, Verdict, OpEnded
<1> QED
  BY <1>1, <1>2, <1>3, <1>4, <1>5, <1>6 DEF Dispatch

\* A crash forgets the pass; the rows keep the start in flight, if there is one.
LEMMA CrashGoesOn ==
  ASSUME IInv, Carried, Crash \/ BootReconciles \/ BootBackfills
  PROVE  TurnsGoOn
<1> USE QueueAssumption
    DEF Carried, TurnsGoOn, LeavesTurns, InFlight, SelectsNow, Start, SameChoice, Chosen, Bound,
        IInv, TypeOK, At, Idle, Returns
<1>1. CASE Crash
  BY <1>1 DEF Crash, rows
<1>2. CASE BootReconciles
  BY <1>2 DEF BootReconciles, Reconciled
<1>3. CASE BootBackfills
  BY <1>3 DEF BootBackfills
<1> QED
  BY <1>1, <1>2, <1>3

\* A selection and a start keep what the pass carries.
LEMMA TurnCarries ==
  ASSUME IInv, Carried, (\E u \in Undertakings : PassSelects(u)) \/ OperationStarts
  PROVE  Carried'
<1> USE QueueAssumption
    DEF Carried, Chosen, Bound, IInv, TypeOK, Goes, Pass
<1>1. CASE \E u \in Undertakings : PassSelects(u)
  <2>1. PICK u \in Undertakings, d \in 0..6 :
           /\ pass' = [at |-> "probe", who |-> u, index |-> Pos(cursor + d - 1),
                       late |-> u \in overdue]
           /\ UNCHANGED rows
    BY <1>1 DEF PassSelects, Pos
  <2>2. Pos(cursor + d - 1) \in Indices
    BY DEF Pos, Indices
  <2> QED
    BY <2>1, <2>2 DEF rows
<1>2. CASE OperationStarts
  BY <1>2 DEF OperationStarts
<1> QED
  BY <1>1, <1>2
--------------------------------------------------------------------------------
(* The turns.                                                               *)

\* The entry that was chosen lies ahead of the calendar, past no class that had work.
Ahead ==
  \E d \in 0..6 : /\ pass.index = Pos(cursor + d - 1)
                  /\ Cal(pass.index) = OriginKind[pass.who]
                  /\ \A m \in 0..6 : m < d => Cal(Pos(cursor + m - 1)) \notin ready

\* The starts that one fault each may have kept from moving the calendar, the one under way
\* included.
Slack == IF pass.at = "started" THEN faults + 1 ELSE faults

\* A class that was passed over n times, but for the slack, is absent from the last n entries
\* before p at least.
Waits(k, p, slack) == \E n \in Nat : passed[k] <= n + slack /\ Free(p, k, n)

\* So it is where the calendar stands, and where it will stand once the start in flight, if
\* there is one, has moved it.
Turns ==
  /\ ready \subseteq Origins
  /\ passed \in [Origins -> Nat]
  /\ pass.at \in Chosen => Ahead
  /\ \A k \in Origins : /\ Waits(k, cursor, Slack)
                        /\ InFlight => Waits(k, Following(selected[slot]), faults)

\* More slack does no harm.
LEMMA SlackGrows ==
  ASSUME NEW k, passed[k] \in Nat, NEW p, NEW a \in Nat, NEW b \in Nat, a <= b, Waits(k, p, a)
  PROVE  Waits(k, p, b)
  BY DEF Waits

\* A count that may have grown by one.
LEMMA OneMore ==
  ASSUME NEW a \in Nat, NEW b \in {a, a + 1}
  PROVE  /\ b \in Nat /\ b + 1 \in Nat /\ a + 1 \in Nat
         /\ a <= b /\ a + 1 <= b + 1 /\ a + 1 <= a + 1
  OBVIOUS

\* A step that leaves the turns alone keeps what is known of them.
LEMMA LeavingKeepsTurns ==
  ASSUME IInv, Turns, LeavesTurns, UNCHANGED <<ready, passed>>
  PROVE  Turns'
<1>1. pass'.at \in Chosen => Ahead'
  BY DEF Turns, LeavesTurns, SameChoice, Ahead
<1>2. Slack \in Nat /\ Slack' \in Nat /\ Slack <= Slack' /\ faults \in Nat /\ faults' \in Nat
      /\ faults <= faults'
  <2>1. faults \in Nat /\ faults' \in {faults, faults + 1}
    BY DEF IInv, TypeOK, LeavesTurns
  <2>2. /\ faults' \in Nat /\ faults' + 1 \in Nat /\ faults + 1 \in Nat
        /\ faults <= faults' /\ faults + 1 <= faults' + 1 /\ faults + 1 <= faults + 1
    BY <2>1, OneMore
  <2>3. CASE pass.at = "started" /\ pass'.at # "started"
    <3>1. faults' = faults + 1
      BY <2>3 DEF LeavesTurns
    <3>2. Slack = faults + 1 /\ Slack' = faults'
      BY <2>3 DEF Slack
    <3> QED
      BY <2>1, <2>2, <3>1, <3>2
  <2>4. CASE pass.at = "started" /\ pass'.at = "started"
    <3>1. Slack = faults + 1 /\ Slack' = faults' + 1
      BY <2>4 DEF Slack
    <3> QED
      BY <2>1, <2>2, <3>1, Zenon
  <2>5. CASE pass.at # "started"
    <3>1. Slack = faults /\ Slack' = faults'
      BY <2>5 DEF Slack, LeavesTurns
    <3> QED
      BY <2>1, <2>2, <3>1, Zenon
  <2> QED
    BY <2>3, <2>4, <2>5
<1>3. ASSUME NEW k \in Origins
      PROVE  /\ Waits(k, cursor, Slack')
             /\ InFlight' => Waits(k, Following(selected'[slot']), faults')
  <2>1. passed[k] \in Nat
    BY DEF Turns
  <2>2. Waits(k, cursor, Slack')
    <3>1. Waits(k, cursor, Slack)
      BY DEF Turns
    <3> QED
      BY <1>2, <2>1, <3>1, SlackGrows
  <2>3. ASSUME InFlight' PROVE Waits(k, Following(selected'[slot']), faults')
    <3>1. InFlight /\ slot' = slot /\ selected'[slot] = selected[slot]
      BY <2>3 DEF LeavesTurns
    <3>2. Waits(k, Following(selected[slot]), faults)
      BY <3>1 DEF Turns
    <3>3. Waits(k, Following(selected[slot]), faults')
      BY <1>2, <2>1, <3>2, SlackGrows
    <3> QED
      BY <3>1, <3>3
  <2> QED
    BY <2>2, <2>3
<1>4. ASSUME NEW k \in Origins
      PROVE  Waits(k, cursor, Slack)' /\ (InFlight' => Waits(k, Following(selected[slot]), faults)')
  BY <1>3 DEF Waits, LeavesTurns
<1> QED
  BY <1>1, <1>4 DEF Turns

\* The calendar moves to where the start in flight pointed.
LEMMA MovingKeepsTurns ==
  ASSUME IInv, Turns, MovesCalendar, UNCHANGED <<ready, passed>>
  PROVE  Turns'
<1>1. Slack' = faults
  BY DEF MovesCalendar, Slack
<1>2. ASSUME NEW k \in Origins PROVE Waits(k, cursor, Slack)'
  <2>1. Waits(k, Following(selected[slot]), faults)
    BY DEF Turns, MovesCalendar
  <2> QED
    BY <1>1, <2>1 DEF Waits, MovesCalendar
<1> QED
  BY <1>2 DEF Turns, MovesCalendar

\* A selection chooses the first entry whose class has work.
LEMMA SelectingKeepsTurns ==
  ASSUME IInv, Turns, NEW u \in Undertakings, PassSelects(u),
         ready' = ReadyOrigins, passed' = passed
  PROVE  Turns'
<1>1. PICK d \in 0..6 :
        /\ Selects(u, d)
        /\ pass' = [at |-> "probe", who |-> u, index |-> Pos(cursor + d - 1),
                    late |-> u \in overdue]
  BY DEF PassSelects, Pos
<1>2. /\ cursor' = cursor /\ faults' = faults /\ pass.at = "converge" /\ slot = NoUndertaking
      /\ slot' = slot
  BY DEF PassSelects, rows
<1>3. Ahead'
  <2>1. Entry(d) = Cal(Pos(cursor + d - 1)) /\ \A m \in 0..6 : Entry(m) = Cal(Pos(cursor + m - 1))
    BY DEF Entry, Cal, Pos
  <2> QED
    BY <1>1, <1>2, <2>1 DEF Ahead, Selects
<1>4. Slack' = Slack /\ ~InFlight'
  BY <1>1, <1>2 DEF Slack, InFlight
<1>5. \A k \in Origins : Waits(k, cursor, Slack)'
  BY <1>2, <1>4 DEF Turns, Waits
<1>6. ready' \subseteq Origins
  BY QueueAssumption DEF ReadyOrigins
<1> QED
  BY <1>3, <1>4, <1>5, <1>6 DEF Turns

\* A start ends the wait of its class and of those that had no work; for the others the
\* entries it passed over and its own lengthen the stretch they will be absent from once the
\* calendar has moved, and until then it is one more start without a move.
LEMMA StartKeepsTurns ==
  ASSUME IInv, Carried, Turns, OperationStarts,
         ready' = {}, passed' = [k \in Origins |-> Watched(k)]
  PROVE  Turns'
<1>1. /\ pass.at = "start" /\ pass'.at = "started" /\ cursor' = cursor /\ faults' = faults
      /\ pass.index \in Indices /\ pass.who \in Undertakings /\ cursor \in Indices
      /\ slot' = pass.who /\ selected'[pass.who] = pass.index /\ faults \in Nat
  BY DEF OperationStarts, Goes, Carried, Chosen, Bound, IInv, TypeOK, Pass, StageKnows, PassHolds
<1>2. Slack = faults /\ Slack' = faults + 1
  BY <1>1 DEF Slack
<1>3. PICK d \in 0..6 : /\ pass.index = Pos(cursor + d - 1)
                        /\ Cal(pass.index) = OriginKind[pass.who]
                        /\ \A m \in 0..6 : m < d => Cal(Pos(cursor + m - 1)) \notin ready
  BY <1>1 DEF Turns, Chosen, Ahead
<1>4. ASSUME NEW k \in Origins
      PROVE  /\ passed'[k] \in Nat
             /\ \E n \in Nat : passed'[k] <= n + faults + 1 /\ Free(cursor, k, n)
             /\ \E n \in Nat : passed'[k] <= n + faults /\ Free(Following(pass.index), k, n)
  <2>1. passed'[k] = Watched(k) /\ passed[k] \in Nat
    BY DEF Turns
  <2>2. CASE k = OriginKind[pass.who] \/ k \notin ready
    <3>1. passed'[k] = 0
      BY <2>1, <2>2 DEF Watched
    <3>2. Free(Following(pass.index), k, 0) /\ Free(cursor, k, 0)
      BY <1>1, NothingFree DEF Following, Indices
    <3> QED
      BY <1>1, <3>1, <3>2
  <2>3. CASE k # OriginKind[pass.who] /\ k \in ready
    <3>1. passed'[k] = passed[k] + 1
      BY <2>1, <2>3 DEF Watched
    <3>2. PICK n \in Nat : passed[k] <= n + faults /\ Free(cursor, k, n)
      BY <1>2 DEF Turns, Waits
    <3>3. \A m \in 0..d : Cal(Pos(cursor + m - 1)) # k
      BY <1>3, <2>3
    <3>4. Free(Following(Pos(cursor + d - 1)), k, n + d + 1)
      BY <1>1, <3>2, <3>3, FreeGrows
    <3>5. /\ n + d + 1 \in Nat /\ passed'[k] \in Nat
          /\ passed'[k] <= (n + d + 1) + faults /\ passed'[k] <= n + faults + 1
      BY <1>1, <2>1, <3>1, <3>2
    <3> QED
      BY <1>3, <3>2, <3>4, <3>5
  <2> QED
    BY <2>2, <2>3
<1>5. passed' \in [Origins -> Nat]
  BY <1>4
<1>6. ASSUME NEW k \in Origins
      PROVE  Waits(k, cursor, Slack)' /\ Waits(k, Following(selected[slot]), faults)'
  BY <1>1, <1>2, <1>4 DEF Waits
<1> QED
  BY <1>1, <1>5, <1>6 DEF Turns, Chosen

\* Every step of the watched queue keeps the turns.
LEMMA NextTurns ==
  IInv /\ Carried /\ Turns /\ [TurnsNext]_<<vars, ready, passed>> => Carried' /\ Turns'
<1> SUFFICES ASSUME IInv, Carried, Turns, [TurnsNext]_<<vars, ready, passed>>
             PROVE  Carried' /\ Turns'
  OBVIOUS
<1>1. CASE UNCHANGED <<vars, ready, passed>>
  <2>1. Carried' = Carried
    BY <1>1 DEF vars, rows, Carried
  <2>2. LeavesTurns
    BY <1>1 DEF vars, rows, LeavesTurns, InFlight, SelectsNow, Start, SameChoice
  <2> QED
    BY <1>1, <2>1, <2>2, LeavingKeepsTurns
<1>2. CASE TurnsNext /\ TurnsGoOn
  <2>1. UNCHANGED <<ready, passed>>
    BY <1>2 DEF TurnsNext, TurnsGoOn, LeavesTurns, MovesCalendar
  <2> QED
    BY <1>2, <2>1, LeavingKeepsTurns, MovingKeepsTurns DEF TurnsGoOn
<1>3. CASE TurnsNext /\ \E u \in Undertakings : PassSelects(u)
  <2>1. PICK u \in Undertakings : PassSelects(u)
    BY <1>3
  <2>2. SelectsNow /\ ~Start
    BY <2>1 DEF PassSelects, SelectsNow, Start
  <2>3. Carried'
    BY <2>1, TurnCarries
  <2> QED
    BY <1>3, <2>1, <2>2, <2>3, SelectingKeepsTurns DEF TurnsNext
<1>4. CASE TurnsNext /\ OperationStarts
  <2>1. Start /\ ~SelectsNow
    BY <1>4 DEF OperationStarts, Goes, SelectsNow, Start, IInv, TypeOK, Pass
  <2>2. Carried'
    BY <1>4, TurnCarries
  <2> QED
    BY <1>4, <2>1, <2>2, StartKeepsTurns DEF TurnsNext
<1>5. CASE TurnsNext /\ PassStep
  <2>1. CASE PassBegins \/ PassRepairsAgain
    BY <1>2, <1>5, <2>1, RepairGoesOn
  <2>2. CASE Expiry
    BY <1>2, <1>5, <2>2, ExpiryGoesOn
  <2>3. CASE Selecting /\ ~\E u \in Undertakings : PassSelects(u)
    BY <1>2, <1>5, <2>3, SelectingGoesOn
  <2>4. CASE Dispatch /\ ~OperationStarts
    BY <1>2, <1>5, <2>4, DispatchGoesOn
  <2> QED
    BY <1>3, <1>4, <1>5, <2>1, <2>2, <2>3, <2>4 DEF PassStep, Selecting, Dispatch
<1>6. CASE TurnsNext /\ Environment
  BY <1>2, <1>6, EnvironmentGoesOn
<1>7. CASE TurnsNext /\ (Boot \/ Crash)
  BY <1>2, <1>7, RepairGoesOn, CrashGoesOn DEF Boot
<1> QED
  BY <1>1, <1>5, <1>6, <1>7 DEF TurnsNext, Next

\* A class that keeps having work is passed over for no longer than its stretch of the
\* calendar, whatever arrives, waits for capacity or is requeued, and once more for each crash
\* or lost callback.
THEOREM TurnsAreKept == TurnsSpec => []ServedInTurn
<1>1. TurnsSpec => Spec
  <2>1. TurnsInit => Init
    BY DEF TurnsInit
  <2>2. [TurnsNext]_<<vars, ready, passed>> => [Next]_vars
    BY DEF TurnsNext
  <2> QED
    BY <2>1, <2>2, PTL DEF TurnsSpec, Spec
<1>2. TurnsInit => Carried /\ Turns
  <2> SUFFICES ASSUME TurnsInit PROVE Carried /\ Turns
    OBVIOUS
  <2>1. Carried
    BY DEF TurnsInit, Init, Carried, Idle, Chosen, Bound
  <2>2. Slack = 0 /\ cursor = 1 /\ pass.at \notin Chosen /\ ~InFlight
    BY DEF TurnsInit, Init, Idle, Slack, Chosen, InFlight
  <2>3. \A k \in Origins : Free(1, k, 0)
    BY NothingFree DEF Indices
  <2> QED
    BY <2>1, <2>2, <2>3 DEF TurnsInit, Turns, Waits
<1>3. IInv /\ Carried /\ Turns /\ [TurnsNext]_<<vars, ready, passed>> => Carried' /\ Turns'
  BY NextTurns
<1>4. IInv /\ Carried /\ Turns => ServedInTurn
  <2> SUFFICES ASSUME IInv, Carried, Turns, NEW k \in Origins PROVE passed[k] <= Stretch(k) + faults
    BY DEF ServedInTurn
  <2>1. CASE pass.at # "started"
    <3>1. PICK n \in Nat : passed[k] <= n + faults /\ Free(cursor, k, n)
      BY <2>1 DEF Turns, Waits, Slack
    <3>2. n <= Stretch(k) /\ Stretch(k) \in Nat /\ passed[k] \in Nat /\ faults \in Nat
      BY <3>1, StretchBounds DEF Turns, IInv, TypeOK
    <3> QED
      BY <3>1, <3>2
  <2>2. CASE pass.at = "started"
    <3>1. InFlight
      BY <2>2, QueueAssumption DEF InFlight, Carried, Bound, IInv, TypeOK, StageKnows, PassHolds, Pass
    <3>2. PICK n \in Nat : passed[k] <= n + faults /\ Free(Following(selected[slot]), k, n)
      BY <3>1 DEF Turns, Waits
    <3>3. n <= Stretch(k) /\ Stretch(k) \in Nat /\ passed[k] \in Nat /\ faults \in Nat
      BY <3>2, StretchBounds DEF Turns, IInv, TypeOK
    <3> QED
      BY <3>2, <3>3
  <2> QED
    BY <2>1, <2>2
<1> QED
  BY <1>1, <1>2, <1>3, <1>4, Invariance, PTL DEF TurnsSpec
===============================================================================
