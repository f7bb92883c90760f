----------------------------- MODULE PrivateBudget -----------------------------
(***************************************************************************)
(* The private budget of Ashley's cognitive kernel.  Ashley may think for     *)
(* herself so many times in a rolling window.  A reservation holds one such   *)
(* thought; its dispatch is bound to an invocation, committed just before the *)
(* provider is called, and its answer recorded.  Repairs and continuations of *)
(* the same thought are further attempts in rows of their own, and cost       *)
(* nothing more.  A reservation is released only on proof that the provider   *)
(* was never called, and the window is measured on a clock that never runs   *)
(* back, whatever the wall clock does: its readings are inputs here.         *)
(*                                                                          *)
(* Each ledger call is one transaction; a turn that thinks makes several, and *)
(* a crash or another conversation may come between any two.  The model has   *)
(* one policy id; each has rows and a clock of its own.                      *)
(***************************************************************************)
EXTENDS Integers, Sequences, FiniteSets

CONSTANTS
  Reservations,  \* admissions that may be asked for, one wake each
  Limit,         \* capacity_limit of each revision of the policy, in order
  Window,        \* window_ms
  Tolerance,     \* clock_discontinuity_ms
  MaxTime,       \* bound: readings of the wall clock
  MaxAttempts    \* MAX_THOUGHT_MODEL_ATTEMPTS

Revisions == DOMAIN Limit
Time      == 0..MaxTime
NoTime    == -1
NoAttempt == 0
Ordinals  == 2..MaxAttempts
Attempts  == {1} \cup Ordinals

ASSUME BudgetAssumption ==
  /\ IsFiniteSet(Reservations)
  /\ Limit \in Seq(Nat \ {0}) /\ Limit # <<>>
  /\ Window \in Nat \ {0}
  /\ Tolerance \in Nat
  /\ MaxTime \in Nat
  /\ MaxAttempts \in Nat \ {0}

VARIABLES
  clock,     \* private_budget_policy_clock.last_policy_now_ms
  current,   \* private_budget_policies: the revision with is_current
  state,     \* private_budget_reservations.state
  time,      \* private_budget_reservations.policy_time_ms
  revision,  \* private_budget_reservations.policy_fingerprint
  truth,     \* private_budget_reservations.dispatch_truth
  proof,     \* reservations with a release_proof_ref
  child,     \* private_budget_attempt_bindings.dispatch_truth; "released" has its proof
  owned,     \* reservations whose wake has a durable continuation owner
  turn,      \* the turn that thinks under each reservation, in process memory
  host,      \* stage of the process: startup recovery, configuration, or up
  sent,      \* attempts with which the provider was called
  answered   \* attempts the provider was seen to answer

ledger == <<clock, current, state, time, revision, truth, proof, child>>
vars   == <<ledger, owned, turn, host, sent, answered>>
--------------------------------------------------------------------------------
Consuming == {"held", "committed", "reconcile_required"}

Idle == [at |-> "idle", k |-> NoAttempt]
Goes(r, stage) == turn' = [turn EXCEPT ![r].at = stage]
Up == host = "up"

\* activeBudgetRows: the reservations that count at a time.
Active(t) == {r \in Reservations : state[r] \in Consuming /\ time[r] > t - Window}

Init ==
  /\ clock = NoTime
  /\ current = 1
  /\ state = [r \in Reservations |-> "absent"]
  /\ time = [r \in Reservations |-> 0]
  /\ revision = [r \in Reservations |-> 1]
  /\ truth = [r \in Reservations |-> "not_bound"]
  /\ proof = {}
  /\ child = [r \in Reservations |-> [k \in Ordinals |-> "none"]]
  /\ owned = {}
  /\ turn = [r \in Reservations |-> Idle]
  /\ host = "up"
  /\ sent = {} /\ answered = {}
--------------------------------------------------------------------------------
(* Admission.                                                               *)

\* Fault: the clock follows the wall back.
FollowsWall(wall) == wall

PolicyTime(wall) == IF clock < wall THEN wall ELSE clock
Stable(wall) == clock - wall <= Tolerance

\* Fault: whatever counts is compatible with the policy in force.
AnyRevision(t) == TRUE

CompatibleAt(t) == \A r \in Active(t) : revision[r] = current
ExpireAt(t) == [r \in Reservations |->
  IF state[r] \in Consuming /\ time[r] <= t - Window THEN "expired" ELSE state[r]]

HasRoom(t) == Cardinality(Active(t)) < Limit[current]

\* A repeated admission finds its row; a clock set back too far, or rows of another
\* revision, refuse it and change nothing.
ReservePrivateThought(r, wall) ==
  LET t == PolicyTime(wall) IN
  /\ Up
  /\ state[r] = "absent"
  /\ Stable(wall) /\ CompatibleAt(t)
  /\ clock' = t
  /\ \/ /\ HasRoom(t)
        /\ state' = [ExpireAt(t) EXCEPT ![r] = "held"]
        /\ time' = [time EXCEPT ![r] = t]
        /\ revision' = [revision EXCEPT ![r] = current]
        /\ owned' = owned \cup {r}
     \/ /\ ~HasRoom(t)
        /\ state' = ExpireAt(t)
        /\ UNCHANGED <<time, revision, owned>>
  /\ UNCHANGED <<current, truth, proof, child, turn, host, sent, answered>>

\* The Host raises the version of the policy when it starts.
ConfigureBudgetPolicy ==
  /\ host = "configure"
  /\ \E v \in Revisions : v > current /\ current' = v
  /\ host' = "up"
  /\ UNCHANGED <<clock, state, time, revision, truth, proof, child, owned, turn, sent, answered>>

KeepsBudgetPolicy ==
  /\ host = "configure"
  /\ host' = "up"
  /\ UNCHANGED <<ledger, owned, turn, sent, answered>>
--------------------------------------------------------------------------------
(* A turn.  It binds, is admitted to the provider, commits, calls and is     *)
(* answered, and may then make a further attempt.                            *)

ProvenHeld(r) == state[r] = "held" /\ truth[r] = "not_started" /\ r \in proof

\* The gate of the live turn: committed work is dispatched only by a continuation that is owned.
TurnBegins(r) ==
  /\ Up
  /\ turn[r].at = "idle"
  /\ r \in owned
  /\ state[r] \in {"held", "committed"}
  /\ Goes(r, "thinking")
  /\ UNCHANGED <<ledger, owned, host, sent, answered>>

BindsParent(r) ==
  /\ turn[r].at = "thinking"
  /\ state[r] = "held" /\ truth[r] = "not_bound"
  /\ truth' = [truth EXCEPT ![r] = "not_started"]
  /\ turn' = [turn EXCEPT ![r] = [at |-> "bound", k |-> 1]]
  /\ UNCHANGED <<clock, current, state, time, revision, proof, child, owned, host, sent, answered>>

\* nextPrivateRepairOrdinal: the one after the last.
IsNextOrdinal(r, k) ==
  /\ \A j \in Ordinals : j >= k => child[r][j] = "none"
  /\ \A j \in Ordinals : j < k => child[r][j] # "none"

\* Fault: an attempt whose outcome is unknown is as good as one without an outcome.
AnyEvidence(r, k) == TRUE

\* The attempt before this one was answered, or provably never happened.
Evidence(r, k) ==
  IF k = 2 THEN truth[r] = "responded" \/ (truth[r] = "not_started" /\ r \in proof)
           ELSE child[r][k - 1] \in {"responded", "released"}

\* Fault: nothing bounds the attempts.
ContinuesForEver(r, k) == (state[r] = "committed" \/ ProvenHeld(r)) /\ Evidence(r, k)

MayContinue(r, k) ==
  /\ state[r] = "committed" \/ ProvenHeld(r)
  /\ k <= MaxAttempts
  /\ Evidence(r, k)

BindsChild(r) ==
  /\ turn[r].at = "thinking"
  /\ \E k \in 2..MaxAttempts + 1 :
       /\ IsNextOrdinal(r, k)
       /\ MayContinue(r, k)
       /\ child' = [child EXCEPT ![r][k] = "not_started"]
       /\ turn' = [turn EXCEPT ![r] = [at |-> "bound", k |-> k]]
  /\ UNCHANGED <<clock, current, state, time, revision, truth, proof, owned, host, sent, answered>>

\* The turn is over: it needs no further attempt, was refused one, or failed before it.
TurnEnds(r) ==
  /\ turn[r].at = "thinking"
  /\ turn' = [turn EXCEPT ![r] = [at |-> "ended", k |-> NoAttempt]]
  /\ UNCHANGED <<ledger, owned, host, sent, answered>>

\* The dispatch fails before an attempt is made, and a reservation that is held is released.
FailsUnresolved(r) ==
  /\ turn[r].at = "thinking"
  /\ state[r] = "held"
  /\ state' = [state EXCEPT ![r] = "released"]
  /\ truth' = [truth EXCEPT ![r] = "not_started"]
  /\ proof' = proof \cup {r}
  /\ turn' = [turn EXCEPT ![r] = [at |-> "ended", k |-> NoAttempt]]
  /\ UNCHANGED <<clock, current, time, revision, child, owned, host, sent, answered>>

\* The attempt is refused by a deadline or by a new message before the provider is called.
NotSent(r) ==
  LET k == turn[r].k IN
  /\ turn[r].at = "bound"
  /\ turn' = [turn EXCEPT ![r] = [at |-> "ended", k |-> NoAttempt]]
  /\ \/ /\ k = 1 /\ state[r] = "held"
        /\ state' \in {state, [state EXCEPT ![r] = "released"]}
        /\ proof' = proof \cup {r}
        /\ UNCHANGED child
     \/ /\ k = 1 /\ state[r] # "held"
        /\ UNCHANGED <<state, proof, child>>
     \/ /\ k > 1
        /\ child' = [child EXCEPT ![r][k] = "released"]
        /\ UNCHANGED <<state, proof>>
  /\ UNCHANGED <<clock, current, time, revision, truth, owned, host, sent, answered>>

\* Fault: the further attempt commits and leaves its held reservation as it is.
CommitsChildAlone(r) ==
  /\ state[r] = "committed" \/ ProvenHeld(r)
  /\ child' = [child EXCEPT ![r][turn[r].k] = "attempted"]
  /\ UNCHANGED <<state, truth>>

CommitsChild(r) ==
  /\ state[r] = "committed" \/ ProvenHeld(r)
  /\ child' = [child EXCEPT ![r][turn[r].k] = "attempted"]
  /\ state' = [state EXCEPT ![r] = "committed"]
  /\ UNCHANGED truth

CommitsParent(r) ==
  /\ state[r] = "held"
  /\ state' = [state EXCEPT ![r] = "committed"]
  /\ truth' = [truth EXCEPT ![r] = "attempted"]
  /\ UNCHANGED child

Commits(r) ==
  /\ turn[r].at = "bound"
  /\ \/ turn[r].k = 1 /\ CommitsParent(r)
     \/ turn[r].k > 1 /\ CommitsChild(r)
  /\ Goes(r, "committed")
  /\ UNCHANGED <<clock, current, time, revision, proof, owned, host, sent, answered>>

\* The reservation has left the window since it was bound.
CommitRefused(r) ==
  LET k == turn[r].k IN
  /\ turn[r].at = "bound"
  /\ state[r] = "expired"
  /\ child' \in {child} \cup {[child EXCEPT ![r][j] = "released"] : j \in Ordinals \cap {k}}
  /\ turn' = [turn EXCEPT ![r] = [at |-> "ended", k |-> NoAttempt]]
  /\ UNCHANGED <<clock, current, state, time, revision, truth, proof, owned, host, sent, answered>>

CallsProvider(r) ==
  /\ turn[r].at = "committed"
  /\ sent' = sent \cup {<<r, turn[r].k>>}
  /\ Goes(r, "called")
  /\ UNCHANGED <<ledger, owned, host, answered>>

\* An answer, or an error that is one, is recorded against the attempt that was called.
ResponseRecorded(r) ==
  /\ turn[r].at = "called"
  /\ \/ /\ turn[r].k = 1 /\ state[r] = "committed"
        /\ truth' = [truth EXCEPT ![r] = "responded"]
        /\ UNCHANGED child
     \/ /\ turn[r].k > 1
        /\ child' = [child EXCEPT ![r][turn[r].k] = "responded"]
        /\ UNCHANGED truth
  /\ \E stage \in {"thinking", "ended"} : turn' = [turn EXCEPT ![r] = [at |-> stage, k |-> NoAttempt]]
  /\ answered' = answered \cup {<<r, turn[r].k>>}
  /\ UNCHANGED <<clock, current, state, time, revision, proof, owned, host, sent>>

\* An answer that could not be recorded, an error reply that is not, or silence.
ResponseLost(r) ==
  /\ turn[r].at = "called"
  /\ turn' = [turn EXCEPT ![r] = [at |-> "ended", k |-> NoAttempt]]
  /\ answered' \in {answered, answered \cup {<<r, turn[r].k>>}}
  /\ UNCHANGED <<ledger, owned, host, sent>>
--------------------------------------------------------------------------------
(* After the turn.                                                          *)

\* settleFrontierTerminalReservation, and the idle path: nobody continues what was not sent.
SettlesProven(r) ==
  /\ Up
  /\ turn[r].at \in {"idle", "ended"}
  /\ ProvenHeld(r) /\ r \notin owned
  /\ state' = [state EXCEPT ![r] = "released"]
  /\ turn' = [turn EXCEPT ![r] = Idle]
  /\ UNCHANGED <<clock, current, time, revision, truth, proof, child, owned, host, sent, answered>>

\* The idle path alone: what is held without proof may have been sent.
SettlesUnknown(r) ==
  /\ turn[r].at = "ended"
  /\ state[r] = "held" /\ ~ProvenHeld(r)
  /\ state' = [state EXCEPT ![r] = "reconcile_required"]
  /\ truth' = [truth EXCEPT ![r] = "unknown"]
  /\ turn' = [turn EXCEPT ![r] = Idle]
  /\ UNCHANGED <<clock, current, time, revision, proof, child, owned, host, sent, answered>>

LeavesUnsettled(r) ==
  /\ turn[r].at = "ended"
  /\ turn' = [turn EXCEPT ![r] = Idle]
  /\ UNCHANGED <<ledger, owned, host, sent, answered>>

\* The wake ends, or its cycle is retired.
OwnerEnds(r) ==
  /\ turn[r].at \in {"idle", "ended"}
  /\ r \in owned
  /\ owned' = owned \ {r}
  /\ UNCHANGED <<ledger, turn, host, sent, answered>>
--------------------------------------------------------------------------------
(* Crash and recoverPrivateBudget: expiry, then each reservation, then each  *)
(* further attempt, in transactions of their own.                           *)

Crash ==
  /\ host' = "expire"
  /\ turn' = [r \in Reservations |-> Idle]
  /\ UNCHANGED <<ledger, owned, sent, answered>>

RecoveryExpires(wall) ==
  LET t == PolicyTime(wall) IN
  /\ host = "expire"
  /\ IF clock = NoTime THEN UNCHANGED <<clock, state>>
                       ELSE clock' = t /\ state' = ExpireAt(t)
  /\ host' = "recover"
  /\ UNCHANGED <<current, time, revision, truth, proof, child, owned, turn, sent, answered>>

StrandedParent(r) == state[r] = "held" /\ ~(ProvenHeld(r) /\ r \in owned)

RecoversReservation(r) ==
  /\ host = "recover"
  /\ StrandedParent(r)
  /\ \/ /\ truth[r] = "not_bound" \/ r \in proof
        /\ state' = [state EXCEPT ![r] = "released"]
        /\ truth' = [truth EXCEPT ![r] = "not_started"]
        /\ proof' = proof \cup {r}
     \/ /\ truth[r] = "not_started" /\ r \notin proof
        /\ state' = [state EXCEPT ![r] = "reconcile_required"]
        /\ truth' = [truth EXCEPT ![r] = "unknown"]
        /\ UNCHANGED proof
  /\ UNCHANGED <<clock, current, time, revision, child, owned, turn, host, sent, answered>>

NoStrandedParent == \A r \in Reservations : ~StrandedParent(r)

\* Fault: an attempt that was begun is taken for one that never was.
AnyAttempt(r, k) == child[r][k] \in {"not_started", "attempted"}

StrandedChild(r, k) == child[r][k] = "not_started"

RecoversChild(r, k) ==
  /\ host = "recover"
  /\ NoStrandedParent
  /\ StrandedChild(r, k)
  /\ child' = [child EXCEPT ![r][k] = "released"]
  /\ UNCHANGED <<clock, current, state, time, revision, truth, proof, owned, turn, host, sent,
                 answered>>

RecoveryEnds ==
  /\ host = "recover"
  /\ NoStrandedParent
  /\ \A r \in Reservations, k \in Ordinals : ~StrandedChild(r, k)
  /\ host' = "configure"
  /\ UNCHANGED <<ledger, owned, turn, sent, answered>>
--------------------------------------------------------------------------------
Turn(r) ==
  \/ TurnBegins(r) \/ BindsParent(r) \/ BindsChild(r) \/ TurnEnds(r) \/ FailsUnresolved(r)
  \/ NotSent(r) \/ Commits(r) \/ CommitRefused(r) \/ CallsProvider(r)
  \/ ResponseRecorded(r) \/ ResponseLost(r)

After(r) == SettlesProven(r) \/ SettlesUnknown(r) \/ LeavesUnsettled(r) \/ OwnerEnds(r)

Recovery ==
  \/ Crash
  \/ \E wall \in Time : RecoveryExpires(wall)
  \/ \E r \in Reservations : RecoversReservation(r) \/ \E k \in Ordinals : RecoversChild(r, k)
  \/ RecoveryEnds
  \/ ConfigureBudgetPolicy
  \/ KeepsBudgetPolicy

Next ==
  \/ \E r \in Reservations, wall \in Time : ReservePrivateThought(r, wall)
  \/ \E r \in Reservations : Turn(r) \/ After(r)
  \/ Recovery

Spec == Init /\ [][Next]_vars
--------------------------------------------------------------------------------
TypeOK ==
  /\ clock \in Time \cup {NoTime}
  /\ current \in Revisions
  /\ state \in [Reservations -> {"absent", "released", "expired"} \cup Consuming]
  /\ time \in [Reservations -> Time]
  /\ revision \in [Reservations -> Revisions]
  /\ truth \in [Reservations -> {"not_bound", "not_started", "attempted", "responded", "unknown"}]
  /\ proof \subseteq Reservations
  /\ child \in [Reservations -> [Ordinals ->
       {"none", "not_started", "attempted", "responded", "released"}]]
  /\ owned \subseteq Reservations
  /\ turn \in [Reservations ->
       [at : {"idle", "thinking", "bound", "committed", "called", "ended"},
        k  : Attempts \cup {NoAttempt}]]
  /\ host \in {"up", "expire", "recover", "configure"}
  /\ sent \subseteq Reservations \X Attempts
  /\ answered \subseteq sent

Granted == {r \in Reservations : state[r] \notin {"absent", "released"}}

\* No more thoughts are granted within any window than the policy they were granted under allows,
\* wherever the window lies, however the wall clock moves and whatever expires: the rolling limit
\* that reservePrivateThought counts, ledger.ts:230.
WithinRate ==
  \A r \in Granted :
    Cardinality({q \in Granted : time[q] > time[r] - Window /\ time[q] <= time[r]})
      <= Limit[revision[r]]

\* A thought that reached the provider keeps its capacity: neither a failed turn, a continuation
\* under a held reservation, nor recovery gives it back (ledger.ts:363, recovery.ts:69).
CalledKeepsCapacity == \A e \in sent : state[e[1]] \in {"committed", "expired"}

\* Unknown-outcome policy, ledger.ts:674: the provider is not called again for a thought while an
\* earlier call's outcome is unknown, across turns, continuations and restarts.
NoBlindRedispatch ==
  \A r \in Reservations, j, k \in Attempts :
    <<r, j>> \in sent /\ <<r, k>> \in sent /\ j < k => <<r, j>> \in answered

\* A recorded proof that an attempt never reached the provider is true, the one recovery writes
\* for an attempt it finds bound included (recovery.ts:255).
ProofsAreTrue ==
  /\ \A r \in proof : <<r, 1>> \notin sent
  /\ \A r \in Reservations, k \in Ordinals : child[r][k] = "released" => <<r, k>> \notin sent

Rate == INSTANCE RateLimit WITH
  Grants    <- Reservations,
  latest    <- clock,
  terms     <- revision,
  status    <- [r \in Reservations |->
    IF state[r] = "absent" THEN "none"
    ELSE IF state[r] = "released" THEN "refunded"
    ELSE IF \E k \in Attempts : <<r, k>> \in sent THEN "used" ELSE "granted"]

\* The ledger is a rate limiter on a clock that never runs back, whose used grants are never
\* given back.
ImplementsRateLimit == Rate!Spec
================================================================================
