-------------------------- MODULE PrivateBudgetProofs --------------------------
(***************************************************************************)
(* That the private budget is a rate limiter whose used grants are never     *)
(* given back, and that the provider is never called blindly, for any number  *)
(* of admissions, any policy and any readings of the wall clock.             *)
(***************************************************************************)
EXTENDS PrivateBudget, FiniteSetTheorems, TLAPS

--------------------------------------------------------------------------------
(* The inductive invariant of the attempts.                                 *)

\* The parent row and what was done with it.
ParentKnows(r) ==
  /\ <<r, 1>> \in sent => /\ state[r] \in {"committed", "expired"}
                          /\ truth[r] \in {"attempted", "responded"}
                          /\ r \notin proof
  /\ truth[r] = "responded" => <<r, 1>> \in answered
  /\ r \in proof => truth[r] # "not_bound"
  /\ state[r] = "committed" => truth[r] # "not_bound"
  /\ truth[r] = "not_bound" => \A k \in Ordinals : child[r][k] = "none"

\* The row of a further attempt, and what was done with it.
ChildKnows(r) ==
  \A k \in Ordinals :
    /\ <<r, k>> \in sent => /\ state[r] \in {"committed", "expired"}
                            /\ child[r][k] \in {"attempted", "responded"}
    /\ child[r][k] = "responded" => <<r, k>> \in answered

\* What the turn under a reservation knows of its rows at each of its stages.
ParentAt(r, known) == turn[r].k = 1 /\ truth[r] = known /\ r \notin proof
ChildAt(r, known) ==
  turn[r].k \in Ordinals /\ child[r][turn[r].k] = known /\ truth[r] # "not_bound"
TurnKnows(r) ==
  /\ turn[r].at \in {"bound", "committed", "called"} =>
       \A j \in Ordinals : j > turn[r].k => child[r][j] = "none"
  /\ turn[r].at = "bound" =>
       \/ state[r] \in {"held", "expired"} /\ ParentAt(r, "not_started")
       \/ state[r] \in {"held", "committed", "expired"} /\ ChildAt(r, "not_started")
  /\ turn[r].at \in {"committed", "called"} =>
       /\ state[r] \in {"committed", "expired"}
       /\ ParentAt(r, "attempted") \/ ChildAt(r, "attempted")
  /\ turn[r].at = "called" => <<r, turn[r].k>> \in sent

\* Nothing before an attempt has an outcome that is unknown.
Settled(r, j) == <<r, j>> \in sent => <<r, j>> \in answered
ChainSettled(r) ==
  \A k \in Ordinals : child[r][k] # "none" => \A j \in Attempts : j < k => Settled(r, j)

Knows(r) == ParentKnows(r) /\ ChildKnows(r) /\ TurnKnows(r) /\ ChainSettled(r)

\* No turn runs while the process recovers.
HostKnows == host # "up" => \A r \in Reservations : turn[r].at = "idle"

AInv == TypeOK /\ HostKnows /\ \A r \in Reservations : Knows(r)

--------------------------------------------------------------------------------
(* The inductive invariant of the rate.                                     *)

\* The grants in the window that ends with r.
WindowOf(r) == {q \in Granted : time[q] > time[r] - Window /\ time[q] <= time[r]}

\* What was granted lies behind the clock, and what has expired behind the window.
ClockKnows ==
  \A r \in Granted :
    /\ time[r] <= clock
    /\ state[r] = "expired" => time[r] <= clock - Window

RInv == ClockKnows /\ WithinRate
--------------------------------------------------------------------------------
(* The attempts: each action keeps AInv.                                    *)

\* The numbers and the shapes the rows are made of.
LEMMA Numbers ==
  /\ MaxAttempts \in Nat \ {0} /\ MaxTime \in Nat /\ Window \in Nat \ {0} /\ Tolerance \in Nat
  /\ Ordinals \subseteq Nat /\ Attempts \subseteq Nat /\ 1 \in Attempts /\ 1 \notin Ordinals
  /\ Ordinals \subseteq Attempts
  /\ \A k \in Ordinals : k > 1
  /\ Time \subseteq Int /\ NoTime \notin Time /\ NoTime \in Int /\ 0 \in Time
  /\ 1 \in Revisions
  /\ \A v \in Revisions : Limit[v] \in Nat \ {0}
  BY BudgetAssumption DEF Ordinals, Attempts, Time, NoTime, Revisions

\* An empty ledger knows nothing that could be wrong.
LEMMA InitAInv == Init => AInv
  BY Numbers
     DEF Init, Idle, AInv, TypeOK, Knows, ParentKnows, ChildKnows, TurnKnows, ChainSettled,
         Settled, HostKnows, Consuming, NoAttempt, Attempts

\* Whatever leaves the rows and the turn of a reservation alone leaves what they know alone.
Untouched(q) ==
  /\ state'[q] = state[q] /\ truth'[q] = truth[q] /\ child'[q] = child[q] /\ turn'[q] = turn[q]
  /\ q \in proof' <=> q \in proof
  /\ \A k \in Attempts : /\ <<q, k>> \in sent' <=> <<q, k>> \in sent
                         /\ <<q, k>> \in answered' <=> <<q, k>> \in answered

\* A reservation none of whose columns change stays consistent.
LEMMA UntouchedKeeps ==
  ASSUME NEW q \in Reservations, Knows(q), Untouched(q)
  PROVE  Knows(q)'
<1>1. ParentKnows(q)' /\ ChildKnows(q)'
  BY Numbers DEF Knows, Untouched, ParentKnows, ChildKnows, Ordinals, Attempts
<1>2. TurnKnows(q)'
  <2>1. turn[q].at = "called" => turn[q].k \in Attempts
    BY Numbers DEF Knows, TurnKnows, ParentAt, ChildAt
  <2>2. turn'[q].at = "called" => <<q, turn'[q].k>> \in sent'
    BY <2>1 DEF Knows, Untouched, TurnKnows
  <2> QED
    BY <2>2 DEF Knows, Untouched, TurnKnows, ParentAt, ChildAt, Ordinals
<1>3. ChainSettled(q)'
  BY DEF Knows, Untouched, ChainSettled, Settled, Ordinals, Attempts
<1> QED
  BY <1>1, <1>2, <1>3 DEF Knows

\* A reading of the clock is a time that is not behind it.
LEMMA TimeTyped ==
  ASSUME TypeOK, NEW wall \in Time
  PROVE  PolicyTime(wall) \in Time /\ PolicyTime(wall) >= clock
  BY Numbers DEF TypeOK, PolicyTime, Time, NoTime

\* Expiry touches nothing but what counts.
LEMMA ExpiryTyped ==
  ASSUME TypeOK, NEW t
  PROVE  /\ ExpireAt(t) \in [Reservations -> {"absent", "released", "expired"} \cup Consuming]
         /\ \A r \in Reservations :
              ExpireAt(t)[r] = state[r] \/ (state[r] \in Consuming /\ ExpireAt(t)[r] = "expired")
  BY DEF TypeOK, ExpireAt, Consuming

\* What an admission does to the states.
AdmitsState(r) ==
  /\ state' \in [Reservations -> {"absent", "released", "expired"} \cup Consuming]
  /\ \A q \in Reservations :
       \/ state'[q] = state[q]
       \/ state[q] \in Consuming /\ state'[q] = "expired"
       \/ q = r /\ state[q] = "absent" /\ state'[q] = "held"

\* What an admission does to the states of reservations: one is held, some expire.
LEMMA AdmissionStates ==
  ASSUME TypeOK, NEW r \in Reservations, NEW wall \in Time, ReservePrivateThought(r, wall)
  PROVE  AdmitsState(r)
  BY ExpiryTyped DEF TypeOK, ReservePrivateThought, AdmitsState, Consuming

\* reservePrivateThought keeps the rows consistent with turns and calls.
LEMMA AdmissionKeeps ==
  ASSUME AInv, NEW r \in Reservations, NEW wall \in Time, ReservePrivateThought(r, wall)
  PROVE  AInv'
<1>1. AdmitsState(r) /\ PolicyTime(wall) \in Time
  BY AdmissionStates, TimeTyped DEF AInv
<1>2. UNCHANGED <<truth, proof, child, turn, host, sent, answered>>
  BY DEF ReservePrivateThought
<1>3. TypeOK'
  <2>1. clock' \in Time /\ time' \in [Reservations -> Time] /\ owned' \subseteq Reservations
    BY <1>1 DEF AInv, TypeOK, ReservePrivateThought
  <2>2. current' = current /\ revision' \in [Reservations -> Revisions]
    BY DEF AInv, TypeOK, ReservePrivateThought
  <2>3. /\ clock' \in Time \cup {NoTime} /\ current' \in Revisions
        /\ state' \in [Reservations -> {"absent", "released", "expired"} \cup Consuming]
    BY <1>1, <2>1, <2>2 DEF AInv, TypeOK, AdmitsState
  <2>4. TypeOK /\ UNCHANGED <<truth, proof, child, turn, host, sent, answered>>
    BY <1>2 DEF AInv
  <2> QED
    BY <2>1, <2>2, <2>3, <2>4 DEF TypeOK
<1>4. ASSUME NEW q \in Reservations
      PROVE  Knows(q)'
  <2>1. Knows(q)
    BY DEF AInv
  <2>2. ParentKnows(q)' /\ ChildKnows(q)'
    BY <1>1, <1>2, <2>1 DEF Knows, ParentKnows, ChildKnows, AdmitsState, Consuming, Ordinals
  <2>3. TurnKnows(q)'
    BY <1>1, <1>2, <2>1 DEF Knows, TurnKnows, ParentAt, ChildAt, AdmitsState, Consuming, Ordinals
  <2>4. ChainSettled(q)'
    BY <1>2, <2>1 DEF Knows, ChainSettled, Settled, Ordinals, Attempts
  <2> QED
    BY <2>2, <2>3, <2>4 DEF Knows
<1>5. HostKnows'
  BY <1>2 DEF AInv, HostKnows
<1> QED
  BY <1>3, <1>4, <1>5 DEF AInv

\* A step of the turn under r leaves the others alone.
LEMMA OthersKeep ==
  ASSUME AInv, NEW r \in Reservations, TypeOK', HostKnows', Knows(r)',
         \A q \in Reservations : q # r => Untouched(q)
  PROVE  AInv'
  BY UntouchedKeeps DEF AInv

\* bindPrivateBudgetAttempt keeps the rows consistent with turns and calls.
LEMMA BindingKeeps ==
  ASSUME AInv, NEW r \in Reservations, TurnBegins(r) \/ BindsParent(r) \/ BindsChild(r)
  PROVE  AInv'
<1> USE Numbers
<1>0. Knows(r) /\ TypeOK /\ HostKnows
  BY DEF AInv
<1>1. CASE TurnBegins(r)
  <2>1. TypeOK' /\ HostKnows'
    <3>1. /\ UNCHANGED <<clock, current, state, time, revision, truth, proof, child>>
          /\ UNCHANGED <<owned, host, sent, answered>>
          /\ turn' = [turn EXCEPT ![r].at = "thinking"]
          /\ host = "up"
      BY <1>1 DEF TurnBegins, Goes, ledger, Up
    <3>2. turn' \in [Reservations ->
            [at : {"idle", "thinking", "bound", "committed", "called", "ended"},
             k  : Attempts \cup {NoAttempt}]]
      BY <1>0, <3>1 DEF TypeOK
    <3>3. HostKnows'
      BY <3>1 DEF HostKnows
    <3> QED
      BY <1>0, <3>1, <3>2, <3>3 DEF TypeOK
  <2>2. Knows(r)'
    BY <1>0, <1>1 DEF TypeOK, TurnBegins, Goes, ledger, Knows, ParentKnows, ChildKnows, TurnKnows,
       ChainSettled, Settled, Ordinals, Attempts
  <2>3. \A q \in Reservations : q # r => Untouched(q)
    BY <1>0, <1>1 DEF TypeOK, TurnBegins, Goes, ledger, Untouched
  <2> QED
    BY <2>1, <2>2, <2>3, OthersKeep
<1>2. CASE BindsParent(r)
  <2>1. TypeOK' /\ HostKnows'
    <3>1. /\ UNCHANGED <<clock, current, state, time, revision, proof, child, owned, host, sent, answered>>
          /\ truth' = [truth EXCEPT ![r] = "not_started"]
          /\ turn' = [turn EXCEPT ![r] = [at |-> "bound", k |-> 1]]
          /\ turn[r].at # "idle"
      BY <1>2 DEF BindsParent
    <3>2. HostKnows'
      BY <1>0, <3>1 DEF HostKnows
    <3> QED
      BY <1>0, <3>1, <3>2 DEF TypeOK
  <2>2. Knows(r)'
    BY <1>0, <1>2 DEF TypeOK, BindsParent, Knows, ParentKnows, ChildKnows, TurnKnows, ParentAt,
       ChildAt, ChainSettled, Settled, Ordinals, Attempts
  <2>3. \A q \in Reservations : q # r => Untouched(q)
    BY <1>0, <1>2 DEF TypeOK, BindsParent, Untouched
  <2> QED
    BY <2>1, <2>2, <2>3, OthersKeep
<1>3. CASE BindsChild(r)
  <2> PICK k \in 2..MaxAttempts + 1 :
        /\ turn[r].at = "thinking"
        /\ IsNextOrdinal(r, k)
        /\ MayContinue(r, k)
        /\ child' = [child EXCEPT ![r][k] = "not_started"]
        /\ turn' = [turn EXCEPT ![r] = [at |-> "bound", k |-> k]]
    BY <1>3 DEF BindsChild
  <2>0. k \in Ordinals
    BY DEF MayContinue, Ordinals
  <2>1. \A j \in Attempts : j < k => Settled(r, j)
    <3> SUFFICES ASSUME NEW j \in Attempts, j < k PROVE Settled(r, j)
      OBVIOUS
    <3>1. CASE k = 2
      BY <1>0, <3>1 DEF Knows, MayContinue, Evidence, Settled, ParentKnows, Attempts, Ordinals
    <3>2. CASE k # 2
      <4>1. k - 1 \in Ordinals /\ child[r][k - 1] \in {"responded", "released"}
        BY <2>0, <3>2 DEF MayContinue, Evidence, Ordinals
      <4>2. CASE j = k - 1
        BY <1>0, <4>1, <4>2 DEF Knows, Settled, ChildKnows
      <4>3. CASE j < k - 1
        BY <1>0, <4>1, <4>3 DEF Knows, ChainSettled
      <4> QED
        BY <2>0, <4>2, <4>3 DEF Ordinals, Attempts
    <3> QED
      BY <3>1, <3>2
  <2>2. UNCHANGED <<state, truth, proof, sent, answered, host>>
    BY <1>3 DEF BindsChild
  <2>3. /\ child' \in [Reservations -> [Ordinals ->
              {"none", "not_started", "attempted", "responded", "released"}]]
        /\ child'[r][k] = "not_started"
        /\ \A j \in Ordinals : j # k => child'[r][j] = child[r][j]
        /\ turn'[r] = [at |-> "bound", k |-> k]
    BY <1>0, <2>0 DEF TypeOK
  <2>4. TypeOK' /\ HostKnows'
    BY <1>0, <1>3, <2>0, <2>3 DEF TypeOK, BindsChild, HostKnows, Ordinals, Attempts, Time, Revisions,
       Consuming
  <2>5. Knows(r)'
    <3>1. truth[r] # "not_bound" /\ state[r] \in {"held", "committed"}
      BY <1>0 DEF MayContinue, ProvenHeld, Knows, ParentKnows
    <3>2. \A j \in Ordinals : j >= k => child[r][j] = "none"
      BY DEF IsNextOrdinal
    <3>3. ParentKnows(r)'
      BY <1>0, <2>2, <3>1 DEF Knows, ParentKnows
    <3>4. ChildKnows(r)'
      <4> SUFFICES ASSUME NEW j \in Ordinals
                   PROVE  /\ <<r, j>> \in sent' => /\ state'[r] \in {"committed", "expired"}
                                                   /\ child'[r][j] \in {"attempted", "responded"}
                          /\ child'[r][j] = "responded" => <<r, j>> \in answered'
        BY DEF ChildKnows
      <4>1. CASE j = k
        BY <1>0, <2>0, <2>2, <2>3, <3>2, <4>1 DEF Knows, ChildKnows, Ordinals
      <4>2. CASE j # k
        BY <1>0, <2>2, <2>3, <4>2 DEF Knows, ChildKnows
      <4> QED
        BY <4>1, <4>2
    <3>5. TurnKnows(r)'
      BY <2>0, <2>2, <2>3, <3>1, <3>2 DEF TurnKnows, ParentAt, ChildAt, Ordinals
    <3>6. ChainSettled(r)'
      BY <1>0, <2>0, <2>1, <2>2, <2>3, <3>2 DEF Knows, ChainSettled, Settled, Ordinals, Attempts
    <3> QED
      BY <3>3, <3>4, <3>5, <3>6 DEF Knows
  <2>6. \A q \in Reservations : q # r => Untouched(q)
    BY <1>0, <2>2 DEF TypeOK, Untouched
  <2> QED
    BY <2>4, <2>5, <2>6, OthersKeep
<1> QED
  BY <1>1, <1>2, <1>3

\* A dispatch that ends before it is bound.
LEMMA EarlyFailureKeeps ==
  ASSUME AInv, NEW r \in Reservations,
         TurnEnds(r) \/ FailsUnresolved(r)
  PROVE  AInv'
<1> USE Numbers
<1>0. Knows(r) /\ TypeOK /\ HostKnows
  BY DEF AInv
<1>1. CASE TurnEnds(r)
  <2>1. TypeOK' /\ HostKnows'
    BY <1>0, <1>1 DEF TypeOK, TurnEnds, ledger, Ordinals, Attempts, Time, Revisions, Consuming,
       NoAttempt, HostKnows
  <2>2. Knows(r)'
    BY <1>0, <1>1 DEF TypeOK, TurnEnds, ledger, Knows, ParentKnows, ChildKnows, TurnKnows, ParentAt, ChildAt, ChainSettled, Settled,
       Ordinals, Attempts
  <2>3. \A q \in Reservations : q # r => Untouched(q)
    BY <1>0, <1>1 DEF TypeOK, TurnEnds, ledger, Untouched
  <2> QED
    BY <2>1, <2>2, <2>3, OthersKeep
<1>2. CASE FailsUnresolved(r)
  <2>1. TypeOK' /\ HostKnows'
    BY <1>0, <1>2 DEF TypeOK, FailsUnresolved, Ordinals, Attempts, Time, Revisions, Consuming,
       NoAttempt, HostKnows
  <2>2. Knows(r)'
    BY <1>0, <1>2 DEF TypeOK, FailsUnresolved, Knows, ParentKnows, ChildKnows, TurnKnows, ParentAt, ChildAt, ChainSettled, Settled,
       Ordinals, Attempts
  <2>3. \A q \in Reservations : q # r => Untouched(q)
    BY <1>0, <1>2 DEF TypeOK, FailsUnresolved, Untouched
  <2> QED
    BY <2>1, <2>2, <2>3, OthersKeep
<1> QED
  BY <1>1, <1>2

\* The rows of r after a step of its turn, in terms of the attempt k that the turn is at: what
\* such a step leaves as it is.
ChildTyped == child' \in [Reservations -> [Ordinals ->
  {"none", "not_started", "attempted", "responded", "released"}]]
ChildMoves(r, k, to) ==
  /\ ChildTyped
  /\ \A j \in Ordinals : child'[r][j] = IF j = k THEN to ELSE child[r][j]

\* What writing one further attempt leaves of the others.
LEMMA ChildMove ==
  ASSUME TypeOK, NEW r \in Reservations, NEW k,
         NEW to \in {"none", "not_started", "attempted", "responded", "released"},
         child' = [child EXCEPT ![r][k] = to]
  PROVE  ChildMoves(r, k, to)
  BY DEF TypeOK, ChildMoves, ChildTyped

\* The further attempts of other reservations stay as they are.
LEMMA ChildStays ==
  ASSUME TypeOK, UNCHANGED child
  PROVE  ChildTyped
  BY DEF TypeOK, ChildTyped, Ordinals

\* A turn that is at an attempt.
LEMMA AtAttempt ==
  ASSUME TypeOK, NEW r \in Reservations, Knows(r), turn[r].at \in {"bound", "committed", "called"}
  PROVE  \/ turn[r].k = 1 /\ r \notin proof /\ truth[r] \in {"not_started", "attempted"}
         \/ /\ turn[r].k \in Ordinals /\ turn[r].k > 1
            /\ child[r][turn[r].k] \in {"not_started", "attempted"}
            /\ truth[r] # "not_bound"
  BY Numbers DEF Knows, TurnKnows, ParentAt, ChildAt

\* The proof of an attempt refused before its call is recorded truthfully.
LEMMA NotSentKeeps ==
  ASSUME AInv, NEW r \in Reservations, NotSent(r) \/ CommitRefused(r)
  PROVE  AInv'
<1> DEFINE k == turn[r].k
<1>0. Knows(r) /\ TypeOK /\ HostKnows
  BY DEF AInv
<1>1. /\ turn[r].at = "bound" /\ turn' = [turn EXCEPT ![r] = [at |-> "ended", k |-> NoAttempt]]
      /\ UNCHANGED <<clock, current, time, revision, truth, owned, host, sent, answered>>
  BY DEF NotSent, CommitRefused
<1>2. turn'[r].at = "ended" /\ turn' \in [Reservations ->
       [at : {"idle", "thinking", "bound", "committed", "called", "ended"},
        k  : Attempts \cup {NoAttempt}]]
  BY <1>0, <1>1 DEF TypeOK
<1>3. CASE k = 1
  <2>1. UNCHANGED child /\ proof' \in {proof, proof \cup {r}}
    BY <1>3, Numbers DEF NotSent, CommitRefused
  <2>2. state' \in {state, [state EXCEPT ![r] = "released"]}
    <3>1. CASE NotSent(r)
      <4>1. ~(turn[r].k > 1)
        BY <1>3
      <4> QED
        BY <3>1, <4>1 DEF NotSent
    <3>2. CASE CommitRefused(r)
      BY <3>2 DEF CommitRefused
    <3> QED
      BY <3>1, <3>2
  <2>3. truth[r] = "not_started"
    BY <1>0, <1>1, <1>3, Numbers DEF Knows, TurnKnows, ParentAt, ChildAt
  <2>4. TypeOK' /\ HostKnows'
    BY <1>0, <1>1, <1>2, <2>1, <2>2 DEF TypeOK, HostKnows, Consuming, Ordinals, Attempts, Time,
       Revisions, NoAttempt
  <2>5. Knows(r)'
    <3>1. \A j \in Ordinals : child[r][j] = "none"
      BY <1>0, <1>1, <1>3, Numbers DEF Knows, TurnKnows
    <3>2. state'[r] \in {state[r], "released"}
      BY <1>0, <2>2 DEF TypeOK
    <3>3. ParentKnows(r)' /\ ChildKnows(r)'
      BY <1>0, <1>1, <2>1, <2>3, <3>1, <3>2, Numbers
         DEF Knows, ParentKnows, ChildKnows, Ordinals
    <3>4. TurnKnows(r)' /\ ChainSettled(r)'
      BY <1>1, <1>2, <2>1, <3>1 DEF TurnKnows, ChainSettled, Ordinals
    <3> QED
      BY <3>3, <3>4 DEF Knows
  <2>6. \A q \in Reservations : q # r => Untouched(q)
    BY <1>0, <1>1, <2>1, <2>2 DEF TypeOK, Untouched
  <2> QED
    BY <2>4, <2>5, <2>6, OthersKeep
<1>4. CASE k \in Ordinals
  <2>0. k # 1 /\ child[r][k] = "not_started" /\ truth[r] # "not_bound"
    BY <1>0, <1>1, <1>4, Numbers DEF Knows, TurnKnows, ParentAt, ChildAt
  <2>1. UNCHANGED <<state, proof>>
    BY <2>0 DEF NotSent, CommitRefused
  <2>2. child' = child \/ child' = [child EXCEPT ![r][k] = "released"]
    BY <1>4, <2>0 DEF NotSent, CommitRefused
  <2>3. /\ ChildTyped
        /\ \A j \in Ordinals :
             child'[r][j] = child[r][j] \/ (j = k /\ child'[r][j] = "released")
    <3>1. CASE child' = child
      <4>1. UNCHANGED child
        BY <3>1
      <4> QED
        BY <1>0, <3>1, <4>1, ChildStays
    <3>2. CASE child' = [child EXCEPT ![r][k] = "released"]
      <4>1. ChildMoves(r, k, "released")
        BY <1>0, <3>2, ChildMove
      <4>2. \A j \in Ordinals : child'[r][j] = IF j = k THEN "released" ELSE child[r][j]
        BY <4>1 DEF ChildMoves
      <4>3. ChildTyped
        BY <4>1 DEF ChildMoves
      <4> QED
        BY <4>2, <4>3
    <3> QED
      BY <2>2, <3>1, <3>2
  <2>4. TypeOK' /\ HostKnows'
    BY <1>0, <1>1, <1>2, <2>1, <2>3 DEF TypeOK, ChildTyped, HostKnows, Consuming, Ordinals, Attempts,
       Time, Revisions, NoAttempt
  <2>5. ParentKnows(r)' /\ ChildKnows(r)'
    BY <1>0, <1>1, <2>0, <2>1, <2>3, Numbers DEF Knows, ParentKnows, ChildKnows, Ordinals
  <2>6. TurnKnows(r)'
    BY <1>2 DEF TurnKnows
  <2>7. ChainSettled(r)'
    BY <1>0, <1>1, <2>0, <2>3 DEF Knows, ChainSettled, Settled, Ordinals, Attempts
  <2>8. \A q \in Reservations : q # r => Untouched(q)
    BY <1>0, <1>1, <2>1, <2>2 DEF TypeOK, Untouched
  <2> QED
    BY <2>4, <2>5, <2>6, <2>7, <2>8, OthersKeep DEF Knows
<1> QED
  BY <1>0, <1>1, <1>3, <1>4, AtAttempt

\* The commitment of an attempt, first or further.
LEMMA CommitKeeps ==
  ASSUME AInv, NEW r \in Reservations, Commits(r)
  PROVE  AInv'
<1> DEFINE k == turn[r].k
<1>0. Knows(r) /\ TypeOK /\ HostKnows
  BY DEF AInv
<1>1. /\ turn[r].at = "bound" /\ turn' = [turn EXCEPT ![r].at = "committed"]
      /\ UNCHANGED <<clock, current, time, revision, proof, owned, host, sent, answered>>
  BY DEF Commits, Goes
<1>2. /\ turn'[r].at = "committed" /\ turn'[r].k = turn[r].k
      /\ turn' \in [Reservations ->
       [at : {"idle", "thinking", "bound", "committed", "called", "ended"},
        k  : Attempts \cup {NoAttempt}]]
  BY <1>0, <1>1 DEF TypeOK
<1>3. /\ \A j \in Ordinals : j > turn[r].k => child[r][j] = "none"
      /\ <<r, turn[r].k>> \notin sent
  BY <1>0, <1>1, Numbers DEF Knows, ParentKnows, ChildKnows, TurnKnows, ParentAt, ChildAt
<1>4. CASE k = 1
  <2>1. CommitsParent(r)
    BY <1>4, Numbers DEF Commits
  <2>2. /\ UNCHANGED child /\ state[r] = "held"
        /\ state' = [state EXCEPT ![r] = "committed"] /\ truth' = [truth EXCEPT ![r] = "attempted"]
    BY <2>1 DEF CommitsParent
  <2>3. state'[r] = "committed" /\ truth'[r] = "attempted" /\ truth[r] = "not_started" /\ r \notin proof
    BY <1>0, <1>1, <1>4, <2>2, Numbers DEF TypeOK, Knows, TurnKnows, ParentAt, ChildAt
  <2>4. TypeOK' /\ HostKnows'
    BY <1>0, <1>1, <1>2, <2>2 DEF TypeOK, HostKnows, Consuming, Ordinals, Attempts, Time,
       Revisions, NoAttempt
  <2>5. ParentKnows(r)' /\ ChildKnows(r)'
    BY <1>0, <1>1, <2>2, <2>3, Numbers DEF Knows, ParentKnows, ChildKnows, Ordinals
  <2>6. TurnKnows(r)'
    BY <1>1, <1>2, <1>3, <1>4, <2>2, <2>3 DEF TurnKnows, ParentAt, ChildAt, Ordinals
  <2>7. ChainSettled(r)'
    BY <1>0, <1>1, <2>2 DEF Knows, ChainSettled, Settled, Ordinals, Attempts
  <2>8. \A q \in Reservations : q # r => Untouched(q)
    BY <1>0, <1>1, <2>2 DEF TypeOK, Untouched
  <2> QED
    BY <2>4, <2>5, <2>6, <2>7, <2>8, OthersKeep DEF Knows
<1>5. CASE k \in Ordinals
  <2>1. CommitsChild(r)
    BY <1>5, Numbers DEF Commits
  <2>2. /\ UNCHANGED truth
        /\ child' = [child EXCEPT ![r][turn[r].k] = "attempted"]
        /\ state' = [state EXCEPT ![r] = "committed"]
    BY <2>1 DEF CommitsChild
  <2>3. state'[r] = "committed" /\ truth[r] # "not_bound"
    BY <1>0, <1>1, <1>5, <2>2, Numbers DEF TypeOK, Knows, TurnKnows, ParentAt, ChildAt
  <2>4. ChildMoves(r, turn[r].k, "attempted")
    BY <1>0, <2>2, ChildMove
  <2>5. /\ ChildTyped /\ child'[r][turn[r].k] = "attempted" /\ child[r][turn[r].k] = "not_started"
        /\ \A j \in Ordinals : j # turn[r].k => child'[r][j] = child[r][j]
    BY <1>0, <1>1, <1>5, <2>4, Numbers DEF ChildMoves, Knows, TurnKnows, ParentAt, ChildAt
  <2>6. TypeOK' /\ HostKnows'
    BY <1>0, <1>1, <1>2, <2>2, <2>5 DEF TypeOK, ChildTyped, HostKnows, Consuming, Ordinals, Attempts, Time,
       Revisions, NoAttempt
  <2>7. ParentKnows(r)' /\ ChildKnows(r)'
    BY <1>0, <1>1, <1>5, <2>2, <2>3, <2>5, Numbers DEF Knows, ParentKnows, ChildKnows, Ordinals
  <2>8. TurnKnows(r)'
    <3>1. \A j \in Ordinals : j > turn[r].k => child'[r][j] = "none"
      BY <1>3, <1>5, <2>5, Numbers
    <3> QED
      BY <1>1, <1>2, <1>5, <2>2, <2>3, <2>5, <3>1 DEF TurnKnows, ParentAt, ChildAt, Ordinals
  <2>9. ChainSettled(r)'
    BY <1>0, <1>1, <2>2, <2>5 DEF Knows, ChainSettled, Settled, Ordinals, Attempts
  <2>10. \A q \in Reservations : q # r => Untouched(q)
    BY <1>0, <1>1, <2>2 DEF TypeOK, Untouched
  <2> QED
    BY <2>6, <2>7, <2>8, <2>9, <2>10, OthersKeep DEF Knows
<1> QED
  BY <1>0, <1>1, <1>4, <1>5, AtAttempt

\* The call of the provider.  Its attempt is the last there is, and all before it are settled.
LEMMA CallKeeps ==
  ASSUME AInv, NEW r \in Reservations, CallsProvider(r)
  PROVE  AInv'
<1>0. Knows(r) /\ TypeOK /\ HostKnows
  BY DEF AInv
<1>1. /\ turn[r].at = "committed" /\ turn' = [turn EXCEPT ![r].at = "called"]
      /\ sent' = sent \cup {<<r, turn[r].k>>}
      /\ UNCHANGED <<clock, current, state, time, revision, truth, proof, child, owned, host, answered>>
  BY DEF CallsProvider, Goes, ledger
<1>2. /\ turn'[r].at = "called" /\ turn'[r].k = turn[r].k
      /\ turn' \in [Reservations ->
       [at : {"idle", "thinking", "bound", "committed", "called", "ended"},
        k  : Attempts \cup {NoAttempt}]]
  BY <1>0, <1>1 DEF TypeOK
<1>3. turn[r].k \in Attempts
  BY <1>0, <1>1, AtAttempt, Numbers
<1>4. TypeOK' /\ HostKnows'
  BY <1>0, <1>1, <1>2, <1>3 DEF TypeOK, HostKnows, Consuming, Ordinals, Attempts, Time,
       Revisions, NoAttempt
<1>5. ParentKnows(r)' /\ ChildKnows(r)'
  BY <1>0, <1>1, Numbers DEF Knows, ParentKnows, ChildKnows, TurnKnows, ParentAt, ChildAt, Ordinals
<1>6. TurnKnows(r)'
  BY <1>0, <1>1, <1>2 DEF Knows, TurnKnows, ParentAt, ChildAt, Ordinals
<1>7. ChainSettled(r)'
  <2> SUFFICES ASSUME NEW i \in Ordinals, child[r][i] # "none", NEW j \in Attempts, j < i
               PROVE  Settled(r, j)'
    BY <1>1 DEF ChainSettled, Ordinals, Attempts
  <2>1. Settled(r, j)
    BY <1>0 DEF Knows, ChainSettled
  <2>2. ~(i > turn[r].k)
    BY <1>0, <1>1 DEF Knows, TurnKnows
  <2>3. j # turn[r].k
    BY <1>3, <2>2, Numbers
  <2> QED
    BY <1>1, <2>1, <2>3 DEF Settled
<1>8. \A q \in Reservations : q # r => Untouched(q)
  BY <1>0, <1>1 DEF TypeOK, Untouched
<1> QED
  BY <1>4, <1>5, <1>6, <1>7, <1>8, OthersKeep DEF Knows

\* What comes of the call.
LEMMA ResponseKeeps ==
  ASSUME AInv, NEW r \in Reservations, ResponseRecorded(r) \/ ResponseLost(r)
  PROVE  AInv'
<1>0. Knows(r) /\ TypeOK /\ HostKnows
  BY DEF AInv
<1>1. /\ turn[r].at = "called"
      /\ \E stage \in {"thinking", "ended"} :
           turn' = [turn EXCEPT ![r] = [at |-> stage, k |-> NoAttempt]]
      /\ answered' \in {answered, answered \cup {<<r, turn[r].k>>}}
      /\ UNCHANGED <<clock, current, state, time, revision, proof, owned, host, sent>>
  BY DEF ResponseRecorded, ResponseLost, ledger
<1>2. /\ turn'[r].at \in {"thinking", "ended"}
      /\ turn' \in [Reservations ->
       [at : {"idle", "thinking", "bound", "committed", "called", "ended"},
        k  : Attempts \cup {NoAttempt}]]
  BY <1>0, <1>1 DEF TypeOK
<1>3. turn[r].k \in Attempts /\ answered \subseteq answered'
  <2>1. turn[r].k \in Attempts
    BY <1>0, <1>1, AtAttempt, Numbers
  <2> QED
    BY <1>1, <2>1
<1>4. /\ sent' = sent /\ answered' \subseteq sent /\ <<r, turn[r].k>> \in sent
      /\ \A j : Settled(r, j) => Settled(r, j)'
  BY <1>0, <1>1, <1>3 DEF TypeOK, Knows, TurnKnows, Settled
<1>5. TurnKnows(r)'
  BY <1>2 DEF TurnKnows
<1>6. \A q \in Reservations : q # r =>
        /\ turn'[q] = turn[q]
        /\ \A k \in Attempts : <<q, k>> \in answered' <=> <<q, k>> \in answered
  BY <1>0, <1>1 DEF TypeOK
<1>7. CASE UNCHANGED <<truth, child>>
  <2>1. TypeOK' /\ HostKnows'
    BY <1>0, <1>1, <1>2, <1>4, <1>7 DEF TypeOK, HostKnows, Consuming, Ordinals, Attempts, Time,
       Revisions, NoAttempt
  <2>2. ParentKnows(r)' /\ ChildKnows(r)'
    BY <1>0, <1>1, <1>3, <1>7 DEF Knows, ParentKnows, ChildKnows, Ordinals
  <2>3. ChainSettled(r)'
    BY <1>0, <1>4, <1>7 DEF Knows, ChainSettled, Ordinals, Attempts
  <2>4. \A q \in Reservations : q # r => Untouched(q)
    BY <1>0, <1>1, <1>6, <1>7 DEF TypeOK, Untouched
  <2> QED
    BY <1>5, <2>1, <2>2, <2>3, <2>4, OthersKeep DEF Knows
<1>8. CASE /\ turn[r].k = 1 /\ state[r] = "committed" /\ truth' = [truth EXCEPT ![r] = "responded"]
           /\ UNCHANGED child /\ answered' = answered \cup {<<r, turn[r].k>>}
  <2>0. truth'[r] = "responded"
    BY <1>0, <1>8 DEF TypeOK
  <2>1. TypeOK' /\ HostKnows'
    BY <1>0, <1>1, <1>2, <1>4, <1>8 DEF TypeOK, HostKnows, Consuming, Ordinals, Attempts, Time,
       Revisions, NoAttempt
  <2>2. truth[r] # "not_bound" /\ r \notin proof
    BY <1>0, <1>1, <1>8, Numbers DEF Knows, TurnKnows, ParentAt, ChildAt
  <2>3. ParentKnows(r)' /\ ChildKnows(r)'
    BY <1>0, <1>1, <1>3, <1>4, <1>8, <2>0, <2>2 DEF Knows, ParentKnows, ChildKnows, Ordinals
  <2>4. ChainSettled(r)'
    BY <1>0, <1>4, <1>8 DEF Knows, ChainSettled, Ordinals, Attempts
  <2>5. \A q \in Reservations : q # r => Untouched(q)
    BY <1>0, <1>1, <1>6, <1>8 DEF TypeOK, Untouched
  <2> QED
    BY <1>5, <2>1, <2>3, <2>4, <2>5, OthersKeep DEF Knows
<1>9. CASE /\ turn[r].k > 1 /\ child' = [child EXCEPT ![r][turn[r].k] = "responded"]
           /\ UNCHANGED truth /\ answered' = answered \cup {<<r, turn[r].k>>}
  <2>0. /\ turn[r].k \in Ordinals /\ child[r][turn[r].k] = "attempted" /\ truth[r] # "not_bound"
    BY <1>0, <1>1, <1>9, Numbers DEF Knows, TurnKnows, ParentAt, ChildAt
  <2>1. /\ ChildTyped /\ child'[r][turn[r].k] = "responded"
        /\ \A j \in Ordinals : j # turn[r].k => child'[r][j] = child[r][j]
    <3>1. ChildMoves(r, turn[r].k, "responded")
      BY <1>0, <1>9, ChildMove
    <3> QED
      BY <2>0, <3>1 DEF ChildMoves
  <2>2. TypeOK' /\ HostKnows'
    BY <1>0, <1>1, <1>2, <1>4, <1>9, <2>1 DEF TypeOK, ChildTyped, HostKnows, Consuming, Ordinals,
       Attempts, Time, Revisions, NoAttempt
  <2>3. ParentKnows(r)' /\ ChildKnows(r)'
    BY <1>0, <1>1, <1>3, <1>4, <1>9, <2>0, <2>1 DEF Knows, ParentKnows, ChildKnows, Ordinals
  <2>4. ChainSettled(r)'
    BY <1>0, <1>4, <1>9, <2>0, <2>1 DEF Knows, ChainSettled, Ordinals, Attempts
  <2>5. \A q \in Reservations : q # r => Untouched(q)
    BY <1>0, <1>1, <1>6, <1>9 DEF TypeOK, Untouched
  <2> QED
    BY <1>5, <2>2, <2>3, <2>4, <2>5, OthersKeep DEF Knows
<1> QED
  BY <1>7, <1>8, <1>9 DEF ResponseRecorded, ResponseLost, ledger

\* What is done about a reservation after its turn.
LEMMA AfterKeeps ==
  ASSUME AInv, NEW r \in Reservations,
         SettlesProven(r) \/ SettlesUnknown(r) \/ LeavesUnsettled(r) \/ OwnerEnds(r)
  PROVE  AInv'
<1> USE Numbers
<1>0. Knows(r) /\ TypeOK /\ HostKnows
  BY DEF AInv
<1>1. CASE SettlesProven(r)
  <2>1. TypeOK' /\ HostKnows'
    BY <1>0, <1>1 DEF TypeOK, SettlesProven, ProvenHeld, Idle, Up, Ordinals, Attempts, Time, Revisions, Consuming,
       NoAttempt, HostKnows
  <2>2. Knows(r)'
    BY <1>0, <1>1 DEF TypeOK, SettlesProven, ProvenHeld, Idle, Up, Knows, ParentKnows, ChildKnows, TurnKnows, ParentAt, ChildAt, ChainSettled, Settled,
       Ordinals, Attempts
  <2>3. \A q \in Reservations : q # r => Untouched(q)
    BY <1>0, <1>1 DEF TypeOK, SettlesProven, ProvenHeld, Idle, Up, Untouched
  <2> QED
    BY <2>1, <2>2, <2>3, OthersKeep
<1>2. CASE SettlesUnknown(r)
  <2>1. TypeOK' /\ HostKnows'
    BY <1>0, <1>2 DEF TypeOK, SettlesUnknown, ProvenHeld, Idle, Ordinals, Attempts, Time, Revisions, Consuming,
       NoAttempt, HostKnows
  <2>2. Knows(r)'
    BY <1>0, <1>2 DEF TypeOK, SettlesUnknown, ProvenHeld, Idle, Knows, ParentKnows, ChildKnows, TurnKnows, ParentAt, ChildAt, ChainSettled, Settled,
       Ordinals, Attempts
  <2>3. \A q \in Reservations : q # r => Untouched(q)
    BY <1>0, <1>2 DEF TypeOK, SettlesUnknown, ProvenHeld, Idle, Untouched
  <2> QED
    BY <2>1, <2>2, <2>3, OthersKeep
<1>3. CASE LeavesUnsettled(r)
  <2>1. TypeOK' /\ HostKnows'
    BY <1>0, <1>3 DEF TypeOK, LeavesUnsettled, ledger, Idle, Ordinals, Attempts, Time, Revisions, Consuming,
       NoAttempt, HostKnows
  <2>2. Knows(r)'
    BY <1>0, <1>3 DEF TypeOK, LeavesUnsettled, ledger, Idle, Knows, ParentKnows, ChildKnows, TurnKnows, ParentAt, ChildAt, ChainSettled, Settled,
       Ordinals, Attempts
  <2>3. \A q \in Reservations : q # r => Untouched(q)
    BY <1>0, <1>3 DEF TypeOK, LeavesUnsettled, ledger, Idle, Untouched
  <2> QED
    BY <2>1, <2>2, <2>3, OthersKeep
<1>4. CASE OwnerEnds(r)
  <2>1. TypeOK' /\ HostKnows'
    BY <1>0, <1>4 DEF TypeOK, OwnerEnds, ledger, Ordinals, Attempts, Time, Revisions, Consuming,
       NoAttempt, HostKnows
  <2>2. Knows(r)'
    BY <1>0, <1>4 DEF TypeOK, OwnerEnds, ledger, Knows, ParentKnows, ChildKnows, TurnKnows, ParentAt, ChildAt, ChainSettled, Settled,
       Ordinals, Attempts
  <2>3. \A q \in Reservations : q # r => Untouched(q)
    BY <1>0, <1>4 DEF TypeOK, OwnerEnds, ledger, Untouched
  <2> QED
    BY <2>1, <2>2, <2>3, OthersKeep
<1> QED
  BY <1>1, <1>2, <1>3, <1>4

\* A crash and the steps of startup, which find every turn idle.
LEMMA CrashKeeps ==
  ASSUME AInv, Crash
  PROVE  AInv'
<1> USE Numbers
<1>1. TypeOK' /\ HostKnows' /\ \A r \in Reservations : turn'[r].at = "idle"
  BY DEF AInv, TypeOK, Crash, ledger, Idle, HostKnows, Consuming, Ordinals, Attempts, Time,
     Revisions, NoAttempt
<1>2. \A r \in Reservations : TurnKnows(r)'
  BY <1>1 DEF TurnKnows
<1>3. \A r \in Reservations : (ParentKnows(r) /\ ChildKnows(r) /\ ChainSettled(r))'
  BY DEF AInv, Crash, ledger, Knows, ParentKnows, ChildKnows, ChainSettled, Settled, Ordinals,
     Attempts
<1> QED
  BY <1>1, <1>2, <1>3 DEF AInv, Knows

\* A new version of the policy touches no reservation.
LEMMA ConfigurationKeeps ==
  ASSUME AInv, ConfigureBudgetPolicy \/ KeepsBudgetPolicy \/ RecoveryEnds
  PROVE  AInv'
<1> USE Numbers
<1>1. UNCHANGED <<state, truth, proof, child, turn, sent, answered, clock, time, revision, owned>>
  BY DEF ConfigureBudgetPolicy, KeepsBudgetPolicy, RecoveryEnds, ledger
<1>2. TypeOK'
  <2>1. current' \in Revisions /\ host' \in {"up", "configure"}
    BY DEF AInv, TypeOK, ConfigureBudgetPolicy, KeepsBudgetPolicy, RecoveryEnds, ledger
  <2> QED
    BY <1>1, <2>1 DEF AInv, TypeOK, Consuming, Ordinals, Attempts, Time, Revisions, NoAttempt
<1>3. HostKnows'
  BY <1>1 DEF AInv, HostKnows, ConfigureBudgetPolicy, KeepsBudgetPolicy, RecoveryEnds
<1>4. \A r \in Reservations : Untouched(r)
  BY <1>1 DEF Untouched
<1> QED
  BY <1>2, <1>3, <1>4, UntouchedKeeps DEF AInv

\* The expiry that recovery begins with only takes capacity that has left the window.
LEMMA RecoveryExpiryKeeps ==
  ASSUME AInv, NEW wall \in Time, RecoveryExpires(wall)
  PROVE  AInv'
<1> USE Numbers
<1>1. UNCHANGED <<current, time, revision, truth, proof, child, owned, turn, sent, answered>>
  BY DEF RecoveryExpires
<1>2. /\ state' \in [Reservations -> {"absent", "released", "expired"} \cup Consuming]
      /\ \A r \in Reservations :
           state'[r] = state[r] \/ (state[r] \in Consuming /\ state'[r] = "expired")
  BY ExpiryTyped DEF AInv, TypeOK, RecoveryExpires
<1>3. clock' \in Time \cup {NoTime} /\ host' = "recover" /\ host = "expire"
  BY TimeTyped DEF AInv, TypeOK, RecoveryExpires
<1>4. TypeOK' /\ HostKnows'
  BY <1>1, <1>2, <1>3 DEF AInv, TypeOK, HostKnows, Consuming, Ordinals, Attempts, Time, Revisions,
     NoAttempt, NoTime
<1>5. ASSUME NEW r \in Reservations PROVE Knows(r)'
  <2>1. Knows(r) /\ turn'[r].at = "idle"
    BY <1>1, <1>3 DEF AInv, HostKnows
  <2>2. ParentKnows(r)' /\ ChildKnows(r)'
    BY <1>1, <1>2, <2>1 DEF Knows, ParentKnows, ChildKnows, Consuming, Ordinals
  <2>3. TurnKnows(r)' /\ ChainSettled(r)'
    BY <1>1, <2>1 DEF Knows, TurnKnows, ChainSettled, Settled, Ordinals, Attempts
  <2> QED
    BY <2>2, <2>3 DEF Knows
<1> QED
  BY <1>4, <1>5 DEF AInv

\* recoverPrivateBudget releases a reservation only if it was never called.
LEMMA ReservationRecoveryKeeps ==
  ASSUME AInv, NEW r \in Reservations, RecoversReservation(r)
  PROVE  AInv'
<1> USE Numbers
<1>0. Knows(r) /\ TypeOK /\ HostKnows
  BY DEF AInv
<1>1. /\ host = "recover" /\ turn[r].at = "idle" /\ state[r] = "held"
      /\ UNCHANGED <<clock, current, time, revision, child, owned, turn, host, sent, answered>>
  BY <1>0 DEF RecoversReservation, StrandedParent, HostKnows
<1>2. /\ state' \in [Reservations -> {"absent", "released", "expired"} \cup Consuming]
      /\ truth' \in [Reservations -> {"not_bound", "not_started", "attempted", "responded", "unknown"}]
      /\ truth'[r] \in {"not_started", "unknown"}
      /\ proof' \in {proof, proof \cup {r}}
      /\ \A q \in Reservations : q # r => state'[q] = state[q] /\ truth'[q] = truth[q]
  BY <1>0 DEF TypeOK, RecoversReservation, Consuming
<1>3. TypeOK' /\ HostKnows'
  BY <1>0, <1>1, <1>2 DEF TypeOK, HostKnows, Consuming, Ordinals, Attempts, Time, Revisions,
     NoAttempt
<1>4. (\A k \in Attempts : <<r, k>> \notin sent) /\ truth'[r] # "responded"
  BY <1>0, <1>1, <1>2 DEF Knows, ParentKnows, ChildKnows, Attempts
<1>5. ParentKnows(r)' /\ ChildKnows(r)'
  <2>1. state'[r] # "committed"
    BY <1>0 DEF TypeOK, RecoversReservation
  <2>2. truth'[r] # "not_bound"
    BY <1>2
  <2> QED
    BY <1>0, <1>1, <1>4, <2>1, <2>2 DEF Knows, ParentKnows, ChildKnows, Ordinals, Attempts
<1>6. TurnKnows(r)' /\ ChainSettled(r)'
  BY <1>0, <1>1 DEF Knows, TurnKnows, ChainSettled, Settled, Ordinals, Attempts
<1>7. \A q \in Reservations : q # r => Untouched(q)
  BY <1>1, <1>2 DEF Untouched
<1> QED
  BY <1>3, <1>5, <1>6, <1>7, <1>0, OthersKeep DEF Knows

\* recoverPrivateBudget releases a further attempt only if it was never called.
LEMMA ChildRecoveryKeeps ==
  ASSUME AInv, NEW r \in Reservations, NEW k \in Ordinals, RecoversChild(r, k)
  PROVE  AInv'
<1> USE Numbers
<1>0. Knows(r) /\ TypeOK /\ HostKnows
  BY DEF AInv
<1>1. /\ host = "recover" /\ turn[r].at = "idle" /\ child[r][k] = "not_started"
      /\ child' = [child EXCEPT ![r][k] = "released"]
      /\ UNCHANGED <<clock, current, state, time, revision, truth, proof, owned, turn, host, sent,
                     answered>>
  BY <1>0 DEF RecoversChild, StrandedChild, HostKnows
<1>2. ChildMoves(r, k, "released")
  BY <1>0, <1>1, ChildMove
<1>3. /\ ChildTyped /\ child'[r][k] = "released"
      /\ \A j \in Ordinals : j # k => child'[r][j] = child[r][j]
  BY <1>2 DEF ChildMoves
<1>4. TypeOK' /\ HostKnows'
  BY <1>0, <1>1, <1>3 DEF TypeOK, ChildTyped, HostKnows, Consuming, Ordinals, Attempts, Time,
     Revisions, NoAttempt
<1>5. ParentKnows(r)' /\ ChildKnows(r)'
  BY <1>0, <1>1, <1>3 DEF Knows, ParentKnows, ChildKnows, Ordinals
<1>6. TurnKnows(r)' /\ ChainSettled(r)'
  BY <1>0, <1>1, <1>3 DEF Knows, TurnKnows, ChainSettled, Settled, Ordinals, Attempts
<1>7. \A q \in Reservations : q # r => Untouched(q)
  BY <1>0, <1>1 DEF TypeOK, Untouched
<1> QED
  BY <1>4, <1>5, <1>6, <1>7, OthersKeep DEF Knows

\* Every step keeps the inductive invariant of the attempts.
LEMMA NextAInv ==
  ASSUME AInv, [Next]_vars
  PROVE  AInv'
<1>1. ASSUME NEW r \in Reservations, NEW wall \in Time, ReservePrivateThought(r, wall)
      PROVE  AInv'
  BY <1>1, AdmissionKeeps
<1>2. ASSUME NEW r \in Reservations, Turn(r)
      PROVE  AInv'
  BY <1>2, BindingKeeps, EarlyFailureKeeps, NotSentKeeps, CommitKeeps, CallKeeps, ResponseKeeps
     DEF Turn
<1>3. ASSUME NEW r \in Reservations, After(r)
      PROVE  AInv'
  BY <1>3, AfterKeeps DEF After
<1>4. CASE Recovery
  BY <1>4, CrashKeeps, RecoveryExpiryKeeps, ReservationRecoveryKeeps, ChildRecoveryKeeps,
     ConfigurationKeeps DEF Recovery
<1>5. CASE UNCHANGED vars
  <2>1. \A r \in Reservations : Untouched(r)
    BY <1>5 DEF vars, ledger, Untouched
  <2>2. TypeOK' /\ HostKnows'
    BY <1>5 DEF AInv, TypeOK, HostKnows, vars, ledger, Consuming, Ordinals, Attempts, Time, Revisions,
       NoAttempt, NoTime
  <2> QED
    BY <2>1, <2>2, UntouchedKeeps DEF AInv
<1> QED
  BY <1>1, <1>2, <1>3, <1>4, <1>5 DEF Next

\* The consistency of rows, turns and calls is an invariant.
LEMMA AlwaysAInv == Spec => []AInv
  BY InitAInv, NextAInv, PTL DEF Spec
--------------------------------------------------------------------------------
(* What follows for the attempts.                                            *)

\* The rows of the ledger keep their shape.
THEOREM BudgetTyped == Spec => []TypeOK
<1>1. AInv => TypeOK
  BY DEF AInv
<1> QED
  BY <1>1, AlwaysAInv, PTL

\* Capacity that paid for a call of the provider is never given back, whatever fails and however
\* often the process restarts.
THEOREM CapacityIsSpent == Spec => []CalledKeepsCapacity
<1>1. AInv => CalledKeepsCapacity
  <2> SUFFICES ASSUME AInv, NEW e \in sent
               PROVE  state[e[1]] \in {"committed", "expired"}
    BY DEF CalledKeepsCapacity
  <2>1. PICK r \in Reservations, k \in Attempts : e = <<r, k>>
    BY DEF AInv, TypeOK
  <2>2. k = 1 \/ k \in Ordinals
    BY DEF Attempts
  <2>3. Knows(r)
    BY DEF AInv
  <2> QED
    BY <2>1, <2>2, <2>3 DEF Knows, ParentKnows, ChildKnows
<1> QED
  BY <1>1, AlwaysAInv, PTL

\* The provider is never called again while an earlier call has no outcome.
THEOREM NeverBlind == Spec => []NoBlindRedispatch
<1>1. AInv => NoBlindRedispatch
  <2> SUFFICES ASSUME AInv, NEW r \in Reservations, NEW j \in Attempts, NEW k \in Attempts,
                      <<r, j>> \in sent, <<r, k>> \in sent, j < k
               PROVE  <<r, j>> \in answered
    BY DEF NoBlindRedispatch
  <2>1. k \in Ordinals
    BY Numbers DEF Attempts, Ordinals
  <2>2. child[r][k] # "none"
    BY <2>1 DEF AInv, Knows, ChildKnows
  <2> QED
    BY <2>1, <2>2 DEF AInv, Knows, ChainSettled, Settled
<1> QED
  BY <1>1, AlwaysAInv, PTL

\* What is recorded as never sent was never sent.
THEOREM ProofsHold == Spec => []ProofsAreTrue
<1>1. AInv => ProofsAreTrue
  BY DEF AInv, TypeOK, Knows, ParentKnows, ChildKnows, ProofsAreTrue
<1> QED
  BY <1>1, AlwaysAInv, PTL
--------------------------------------------------------------------------------
(* The rate: admission keeps RInv because the window that ends now holds only *)
(* what is active, and every other step only shrinks the windows.             *)

\* What a step does that admits nothing.
GrantsNothing ==
  /\ UNCHANGED <<time, revision>>
  /\ clock' >= clock
  /\ \A r \in Reservations :
       /\ state'[r] \notin {"absent", "released"} => state[r] \notin {"absent", "released"}
       /\ state'[r] = "expired" => state[r] = "expired" \/ time[r] <= clock' - Window

\* The steps that neither admit nor expire leave clock, dates and revisions alone.
LEMMA LeavesClock ==
  ASSUME TypeOK, UNCHANGED <<clock, time, revision, state>>
  PROVE  GrantsNothing
  BY Numbers DEF GrantsNothing, TypeOK, Time

\* A turn and its settlement never make a reservation count that did not.
LEMMA TurnGrantsNothing ==
  ASSUME TypeOK, NEW r \in Reservations, Turn(r) \/ After(r)
  PROVE  GrantsNothing
<1>1. UNCHANGED <<clock, time, revision>>
  BY DEF Turn, TurnBegins, BindsParent, BindsChild, TurnEnds, FailsUnresolved, NotSent, Commits,
     CommitRefused, CallsProvider, ResponseRecorded, ResponseLost, After, SettlesProven,
     SettlesUnknown, LeavesUnsettled, OwnerEnds, ledger
<1>2. \A q \in Reservations :
        \/ state'[q] = state[q] \/ state'[q] = "released"
        \/ state[q] \in Consuming /\ state'[q] \in Consuming
  <2>1. CASE Turn(r)
    <3>1. CASE Commits(r)
      BY <3>1 DEF TypeOK, Commits, CommitsParent, CommitsChild, ProvenHeld, Consuming
    <3>2. CASE NotSent(r)
      BY <3>2 DEF TypeOK, NotSent
    <3>3. CASE FailsUnresolved(r)
      BY <3>3 DEF TypeOK, FailsUnresolved
    <3> QED
      BY <2>1, <3>1, <3>2, <3>3
         DEF Turn, TurnBegins, BindsParent, BindsChild, TurnEnds, CommitRefused, CallsProvider,
             ResponseRecorded, ResponseLost, ledger
  <2>2. CASE After(r)
    BY <2>2 DEF TypeOK, After, SettlesProven, SettlesUnknown, LeavesUnsettled, OwnerEnds, ledger,
       Consuming
  <2> QED
    BY <2>1, <2>2
<1> QED
  BY <1>1, <1>2, Numbers DEF GrantsNothing, TypeOK, Consuming, Time

\* Recovery and configuration never make a reservation count that did not.
LEMMA RecoveryGrantsNothing ==
  ASSUME TypeOK, Recovery
  PROVE  GrantsNothing
<1>1. ASSUME NEW wall \in Time, RecoveryExpires(wall)
      PROVE  GrantsNothing
  <2>1. CASE clock = NoTime
    BY <1>1, <2>1, LeavesClock DEF RecoveryExpires
  <2>2. CASE clock # NoTime
    BY <1>1, <2>2, TimeTyped DEF RecoveryExpires, GrantsNothing, TypeOK, ExpireAt, Consuming
  <2> QED
    BY <2>1, <2>2
<1>2. ASSUME NEW r \in Reservations, RecoversReservation(r)
      PROVE  GrantsNothing
  BY <1>2, Numbers
     DEF RecoversReservation, StrandedParent, GrantsNothing, TypeOK, Consuming, Time
<1>3. CASE Crash \/ RecoveryEnds \/ ConfigureBudgetPolicy \/ KeepsBudgetPolicy
  BY <1>3, LeavesClock DEF Crash, RecoveryEnds, ConfigureBudgetPolicy, KeepsBudgetPolicy, ledger
<1>4. ASSUME NEW r \in Reservations, NEW k \in Ordinals, RecoversChild(r, k)
      PROVE  GrantsNothing
  BY <1>4, LeavesClock DEF RecoversChild
<1> QED
  BY <1>1, <1>2, <1>3, <1>4 DEF Recovery

\* The grants of a window are finitely many.
LEMMA WindowsFinite ==
  ASSUME NEW S \in SUBSET Reservations
  PROVE  IsFiniteSet(S) /\ Cardinality(S) \in Nat
  BY BudgetAssumption, FS_Subset, FS_CardinalityType

\* A step that adds no grant keeps every window within its limit.
LEMMA ShrinkingKeeps ==
  ASSUME TypeOK, TypeOK', RInv, GrantsNothing
  PROVE  RInv'
<1>1. Granted' \subseteq Granted
  BY DEF GrantsNothing, Granted
<1>2. ClockKnows'
  BY <1>1, Numbers DEF RInv, ClockKnows, GrantsNothing, TypeOK, Granted, Time
<1>3. ASSUME NEW r \in Granted' PROVE Cardinality(WindowOf(r)') <= Limit[revision'[r]]
  <2>1. WindowOf(r)' \subseteq WindowOf(r) /\ r \in Granted /\ r \in Reservations
    BY <1>1 DEF WindowOf, GrantsNothing, Granted
  <2>2. Cardinality(WindowOf(r)') <= Cardinality(WindowOf(r))
    BY <2>1, WindowsFinite, FS_Subset DEF WindowOf, Granted
  <2>3. Cardinality(WindowOf(r)) <= Limit[revision[r]]
    BY <2>1 DEF RInv, WithinRate, WindowOf
  <2>4. Cardinality(WindowOf(r)') \in Nat /\ Cardinality(WindowOf(r)) \in Nat
    BY WindowsFinite DEF WindowOf, Granted
  <2>5. revision'[r] = revision[r] /\ Limit[revision[r]] \in Nat
    BY <2>1, Numbers DEF GrantsNothing, TypeOK
  <2> QED
    BY <2>2, <2>3, <2>4, <2>5
<1> QED
  BY <1>2, <1>3 DEF RInv, WithinRate, WindowOf

\* What is active now is all that was granted in the window that ends now.
LEMMA ActiveIsRecent ==
  ASSUME TypeOK, ClockKnows, NEW t \in Time, t >= clock
  PROVE  Active(t) = {q \in Granted : time[q] > t - Window}
  BY Numbers DEF TypeOK, ClockKnows, Active, Granted, Consuming, Time, NoTime

\* An admission keeps every window within its limit: it lies after every other grant.
LEMMA AdmissionRate ==
  ASSUME TypeOK, TypeOK', RInv, NEW r \in Reservations, NEW wall \in Time,
         ReservePrivateThought(r, wall)
  PROVE  RInv'
<1> DEFINE t == PolicyTime(wall)
<1>1. t \in Time /\ t >= clock /\ clock' = t /\ state[r] = "absent"
  BY TimeTyped DEF ReservePrivateThought
<1>2. \A q \in Reservations : /\ time[q] \in Int /\ revision[q] \in Revisions
                              /\ Limit[revision[q]] \in Nat
  BY Numbers DEF TypeOK
<1>5. t \in Int /\ clock \in Int /\ Window \in Int /\ Window > 0
  BY <1>1, Numbers DEF TypeOK, Time, NoTime
<1>6. /\ CompatibleAt(t)
      /\ \/ /\ HasRoom(t)
            /\ state' = [ExpireAt(t) EXCEPT ![r] = "held"]
            /\ time' = [time EXCEPT ![r] = t]
            /\ revision' = [revision EXCEPT ![r] = current]
         \/ ~HasRoom(t) /\ state' = ExpireAt(t) /\ UNCHANGED <<time, revision>>
  BY DEF ReservePrivateThought
<1> HIDE DEF t
<1>3. CASE ~HasRoom(t)
  <2>1. UNCHANGED <<time, revision>> /\ state' = ExpireAt(t)
    BY <1>3, <1>6
  <2>2. GrantsNothing
    BY <1>1, <2>1 DEF GrantsNothing, TypeOK, ExpireAt, Consuming
  <2> QED
    BY <2>2, ShrinkingKeeps
<1>4. CASE /\ HasRoom(t)
           /\ state' = [ExpireAt(t) EXCEPT ![r] = "held"]
           /\ time' = [time EXCEPT ![r] = t]
           /\ revision' = [revision EXCEPT ![r] = current]
  <2>1. /\ state'[r] = "held" /\ time'[r] = t /\ revision'[r] = current
        /\ \A q \in Reservations : q # r => /\ time'[q] = time[q] /\ revision'[q] = revision[q]
                                            /\ state'[q] = ExpireAt(t)[q]
    BY <1>4, ExpiryTyped DEF TypeOK
  <2>2. Granted' = Granted \cup {r} /\ r \notin Granted
    BY <1>1, <2>1, ExpiryTyped DEF Granted, Consuming
  <2>3. \A q \in Granted : time[q] <= clock /\ q # r /\ q \in Reservations
    BY <1>1, <2>2 DEF RInv, ClockKnows, Granted
  <2>4. ClockKnows'
    <3> SUFFICES ASSUME NEW q \in Granted'
                 PROVE  time'[q] <= clock' /\ (state'[q] = "expired" => time'[q] <= clock' - Window)
      BY DEF ClockKnows
    <3>1. CASE q = r
      BY <1>1, <1>5, <2>1, <3>1
    <3>2. CASE q # r
      <4>1. q \in Granted /\ q \in Reservations /\ time'[q] = time[q]
        BY <2>1, <2>2, <3>2 DEF Granted
      <4>2. time[q] <= clock /\ time[q] <= t
        BY <1>1, <1>2, <4>1 DEF RInv, ClockKnows, TypeOK, Time, NoTime
      <4>3. state'[q] = "expired" => state[q] = "expired" \/ time[q] <= t - Window
        BY <2>1, <3>2, <4>1 DEF ExpireAt
      <4>4. state[q] = "expired" => time[q] <= t - Window
        BY <1>1, <1>2, <4>1, Numbers DEF RInv, ClockKnows, TypeOK, Time, NoTime
      <4> QED
        BY <1>1, <4>1, <4>2, <4>3, <4>4
    <3> QED
      BY <3>1, <3>2
  <2>5. Active(t) = {q \in Granted : time[q] > t - Window}
    BY <1>1, ActiveIsRecent DEF RInv
  <2>6. Cardinality(Active(t) \cup {r}) <= Limit[current]
    <3>1. Cardinality(Active(t)) < Limit[current] /\ Limit[current] \in Nat
      BY <1>4, Numbers DEF HasRoom, TypeOK
    <3>2. IsFiniteSet(Active(t)) /\ Cardinality(Active(t)) \in Nat
      BY WindowsFinite DEF Active
    <3>3. \/ Cardinality(Active(t) \cup {r}) = Cardinality(Active(t))
          \/ Cardinality(Active(t) \cup {r}) = Cardinality(Active(t)) + 1
      BY <3>2, FS_AddElement
    <3>4. Cardinality(Active(t) \cup {r}) \in Nat
      BY WindowsFinite DEF Active
    <3> QED
      BY <3>1, <3>2, <3>3, <3>4
  <2>7. ASSUME NEW q \in Granted', time'[q] = t
        PROVE  Cardinality(WindowOf(q)') <= Limit[revision'[q]]
    <3>1. WindowOf(q)' \subseteq Active(t) \cup {r}
      BY <2>1, <2>2, <2>3, <2>5, <2>7 DEF WindowOf
    <3>2. revision'[q] = current
      <4>1. CASE q = r
        BY <2>1, <4>1
      <4>2. CASE q # r
        <5>1. q \in Active(t)
          <6>1. q \in Granted /\ time[q] = t
            BY <2>1, <2>2, <2>3, <2>7, <4>2
          <6> QED
            BY <1>5, <2>5, <6>1
        <5> QED
          BY <1>6, <2>1, <2>3, <4>2, <5>1 DEF CompatibleAt, Active
      <4> QED
        BY <4>1, <4>2
    <3>3. Cardinality(WindowOf(q)') <= Cardinality(Active(t) \cup {r})
      BY <3>1, WindowsFinite, FS_Subset DEF Active
    <3>4. Cardinality(WindowOf(q)') \in Nat /\ Cardinality(Active(t) \cup {r}) \in Nat
      BY WindowsFinite DEF Active, WindowOf, Granted
    <3>5. Limit[current] \in Nat
      BY Numbers DEF TypeOK
    <3> QED
      BY <2>6, <3>2, <3>3, <3>4, <3>5
  <2>8. ASSUME NEW q \in Granted', time'[q] # t
        PROVE  Cardinality(WindowOf(q)') <= Limit[revision'[q]]
    <3>1. q # r /\ q \in Granted /\ q \in Reservations
      BY <2>1, <2>2, <2>3, <2>8
    <3>2. time'[q] = time[q] /\ revision'[q] = revision[q] /\ time[q] < t
      <4>1. time'[q] = time[q] /\ revision'[q] = revision[q]
        BY <2>1, <3>1
      <4>2. time[q] \in Int /\ time[q] <= clock /\ time[q] # t
        BY <1>2, <2>3, <2>8, <3>1, <4>1
      <4> QED
        BY <1>1, <1>5, <4>1, <4>2
    <3>3. WindowOf(q)' = WindowOf(q)
      <4> SUFFICES ASSUME NEW p
                   PROVE  /\ p \in Granted' /\ time'[p] > time'[q] - Window /\ time'[p] <= time'[q]
                          <=> p \in Granted /\ time[p] > time[q] - Window /\ time[p] <= time[q]
        BY DEF WindowOf
      <4>1. CASE p = r
        BY <1>2, <1>5, <2>1, <2>2, <3>1, <3>2, <4>1
      <4>2. CASE p # r
        <5>1. p \in Granted' <=> p \in Granted
          BY <2>2, <4>2
        <5>2. p \in Granted => time'[p] = time[p]
          BY <2>1, <2>3, <4>2
        <5> QED
          BY <3>2, <5>1, <5>2
      <4> QED
        BY <4>1, <4>2
    <3> QED
      BY <3>1, <3>2, <3>3 DEF RInv, WithinRate, WindowOf
  <2> QED
    BY <2>4, <2>7, <2>8 DEF RInv, WithinRate, WindowOf
<1> QED
  BY <1>3, <1>4, <1>6

\* Without reservations every window is empty.
LEMMA InitRInv == Init => RInv
  BY DEF Init, RInv, ClockKnows, WithinRate, Granted

\* Every step keeps the rate.
LEMMA NextRInv ==
  ASSUME TypeOK, TypeOK', RInv, [Next]_vars
  PROVE  RInv'
<1>1. CASE UNCHANGED vars
  BY <1>1, LeavesClock, ShrinkingKeeps DEF vars, ledger
<1>2. CASE Next
  BY <1>2, AdmissionRate, TurnGrantsNothing, RecoveryGrantsNothing, ShrinkingKeeps DEF Next
<1> QED
  BY <1>1, <1>2

\* The rate is an invariant.
LEMMA AlwaysRInv == Spec => []RInv
  BY BudgetTyped, InitRInv, NextRInv, PTL DEF Spec

\* In no window of the policy's clock are more thoughts granted than the revision they were
\* granted under allows, for any limits, any window and any readings of the wall clock.
THEOREM RateHolds == Spec => []WithinRate
<1>1. RInv => WithinRate
  BY DEF RInv
<1> QED
  BY <1>1, AlwaysRInv, PTL
--------------------------------------------------------------------------------
(* The ledger implements the rate limiter: an admission grants, a call uses,  *)
(* a release refunds, and everything else at most sees a later time.         *)

Used(r) == \E k \in Attempts : <<r, k>> \in sent
Status(r) ==
  IF state[r] = "absent" THEN "none"
  ELSE IF state[r] = "released" THEN "refunded"
  ELSE IF Used(r) THEN "used" ELSE "granted"
status == [r \in Reservations |-> Status(r)]

\* Nothing is sent under a reservation that is not granted, or not yet committed.
LEMMA UnusedUntilCommitted ==
  ASSUME AInv, NEW r \in Reservations, state[r] \notin {"committed", "expired"}
  PROVE  ~Used(r)
  BY DEF AInv, Knows, ParentKnows, ChildKnows, Used, Attempts

\* The stage of a row that the rate limiter does not see.
SameStage(q) ==
  /\ state'[q] = "absent" <=> state[q] = "absent"
  /\ state'[q] = "released" <=> state[q] = "released"

\* A step that touches no grant is time passing in the abstract limiter.
LEMMA QuietSees ==
  ASSUME TypeOK, TypeOK', UNCHANGED <<time, revision, sent>>, clock' >= clock,
         \A q \in Reservations : SameStage(q)
  PROVE  Rate!See
<1>1. clock' \in Int
  BY Numbers DEF TypeOK, Time
<1>2. UNCHANGED status
  <2>1. \A q \in Reservations : Status(q)' = Status(q)
    BY DEF Status, Used, SameStage, Attempts, Ordinals
  <2> QED
    BY <2>1 DEF status
<1> QED
  BY <1>1, <1>2
     DEF Rate!See, Rate!TimePasses, status, Status, Used

\* Releasing a reservation refunds its grant.
LEMMA ReleaseRefunds ==
  ASSUME AInv, NEW r \in Reservations, state[r] = "held",
         state' = [state EXCEPT ![r] = "released"],
         UNCHANGED <<time, revision, sent, clock>>
  PROVE  Rate!Refund(r)
<1>1. Status(r) = "granted"
  BY UnusedUntilCommitted DEF Status
<1>2. state'[r] = "released" /\ \A q \in Reservations : q # r => state'[q] = state[q]
  BY DEF AInv, TypeOK
<1>3. Status(r)' = "refunded" /\ \A q \in Reservations : q # r => Status(q)' = Status(q)
  BY <1>2 DEF Status, Used, Attempts, Ordinals
<1>4. status' = [status EXCEPT ![r] = "refunded"] /\ status[r] = "granted"
  BY <1>1, <1>3 DEF status
<1> QED
  BY <1>4 DEF Rate!Refund, status, Status, Used

\* Calling the provider uses the grant.
LEMMA CallUses ==
  ASSUME AInv, NEW r \in Reservations, CallsProvider(r)
  PROVE  Rate!Use(r)
<1>1. /\ state[r] \in {"committed", "expired"} /\ turn[r].k \in Attempts
      /\ sent' = sent \cup {<<r, turn[r].k>>}
      /\ UNCHANGED <<state, time, revision, clock>>
  BY AtAttempt, Numbers DEF AInv, Knows, TurnKnows, CallsProvider, ledger
<1>2. Status(r) \in {"granted", "used"} /\ Status(r)' = "used"
  BY <1>1 DEF Status, Used, Attempts, Ordinals
<1>3. \A q \in Reservations : q # r => Status(q)' = Status(q)
  BY <1>1 DEF Status, Used, Attempts, Ordinals
<1>4. status' = [status EXCEPT ![r] = "used"] /\ status[r] \in {"granted", "used"}
  BY <1>2, <1>3 DEF status
<1> QED
  BY <1>1, <1>4 DEF Rate!Use, status, Status, Used

\* The rate limiter counts with the Cardinality the ledger counts with.
LEMMA SameCardinality == ASSUME NEW S PROVE Rate!Cardinality(S) = Cardinality(S)
  BY DEF Rate!Cardinality, Cardinality

\* An admission with room is a grant under the current revision.
LEMMA AdmissionGrants ==
  ASSUME AInv, TypeOK', ClockKnows, NEW r \in Reservations, NEW wall \in Time,
         ReservePrivateThought(r, wall)
  PROVE  Rate!Next
<1> DEFINE t == PolicyTime(wall)
<1>1. t \in Time /\ t >= clock /\ clock' = t /\ state[r] = "absent" /\ sent' = sent
  BY TimeTyped DEF AInv, ReservePrivateThought
<1>2. /\ CompatibleAt(t)
      /\ \/ /\ HasRoom(t)
            /\ state' = [ExpireAt(t) EXCEPT ![r] = "held"]
            /\ time' = [time EXCEPT ![r] = t]
            /\ revision' = [revision EXCEPT ![r] = current]
         \/ ~HasRoom(t) /\ state' = ExpireAt(t) /\ UNCHANGED <<time, revision>>
  BY DEF ReservePrivateThought
<1>3. TypeOK /\ t \in Int
  BY <1>1, Numbers DEF AInv
<1> HIDE DEF t
<1>4. \A q \in Reservations : ExpireAt(t)[q] = state[q]
                              \/ (state[q] \in Consuming /\ ExpireAt(t)[q] = "expired")
  BY <1>3, ExpiryTyped
<1>5. CASE ~HasRoom(t) /\ state' = ExpireAt(t) /\ UNCHANGED <<time, revision>>
  <2>1. \A q \in Reservations : SameStage(q)
    BY <1>4, <1>5 DEF SameStage, Consuming
  <2> QED
    BY <1>1, <1>3, <1>5, <2>1, QuietSees DEF Rate!Next
<1>6. CASE /\ HasRoom(t)
           /\ state' = [ExpireAt(t) EXCEPT ![r] = "held"]
           /\ time' = [time EXCEPT ![r] = t]
           /\ revision' = [revision EXCEPT ![r] = current]
  <2>1. state'[r] = "held" /\ \A q \in Reservations : q # r => SameStage(q)
    BY <1>3, <1>4, <1>6, ExpiryTyped DEF SameStage, Consuming
  <2>2. status[r] = "none" /\ status' = [status EXCEPT ![r] = "granted"]
    <3>1. Status(r) = "none" /\ ~Used(r)
      BY <1>1, UnusedUntilCommitted DEF Status
    <3>2. Status(r)' = "granted"
      BY <1>1, <2>1, <3>1 DEF Status, Used, Attempts, Ordinals
    <3>3. \A q \in Reservations : q # r => Status(q)' = Status(q)
      BY <1>1, <2>1 DEF Status, Used, SameStage, Attempts, Ordinals
    <3> QED
      BY <3>1, <3>2, <3>3 DEF status
  <2>3. Rate!Recent(clock') = Active(t)
    <3>1. Active(t) = {q \in Granted : time[q] > t - Window}
      BY <1>1, <1>3, ActiveIsRecent
    <3>2. \A h \in Reservations : status[h] \in {"granted", "used"} <=> h \in Granted
      BY DEF status, Status, Granted
    <3>3. Granted \subseteq Reservations
      BY DEF Granted
    <3>4. Rate!Recent(clock') = {q \in Rate!Standing : time[q] > t - Window}
      BY <1>1 DEF Rate!Recent
    <3>5. Rate!Standing = Granted
      BY <3>2, <3>3 DEF Rate!Standing, status, Status, Used
    <3> QED
      BY <3>1, <3>4, <3>5
  <2>4. (\A h \in Active(t) : revision[h] = current) /\ Cardinality(Active(t)) < Limit[current]
    BY <1>2, <1>6 DEF CompatibleAt, HasRoom
  <2>5. clock' \in Int /\ clock' >= clock /\ current \in Revisions
    BY <1>1, <1>3 DEF TypeOK
  <2> PICK v \in Revisions : v = current
    BY <2>5
  <2>6. Rate!Grant(r, v)
    <3>1. Rate!TimePasses
      BY <2>5 DEF Rate!TimePasses
    <3>2. (\A h \in Rate!Recent(clock') : revision[h] = v)
          /\ Cardinality(Rate!Recent(clock')) < Limit[v]
      BY <2>3, <2>4
    <3>3. time' = [time EXCEPT ![r] = clock'] /\ revision' = [revision EXCEPT ![r] = v]
      BY <1>1, <1>6
    <3> QED
      <4>1. status[r] = "none" /\ status' = [status EXCEPT ![r] = "granted"]
        BY <2>2
      <4> QED
        BY <3>1, <3>2, <3>3, <4>1, SameCardinality DEF Rate!Grant, Rate!Recent, Rate!Standing, status, Status, Used
  <2> QED
    <3>1. \E g \in Reservations, w \in Revisions : Rate!Grant(g, w)
      BY <2>6
    <3> QED
      BY <3>1 DEF Rate!Next
<1> QED
  BY <1>2, <1>5, <1>6

\* The turn's other steps: they refund, use, or are not seen.
LEMMA TurnImplements ==
  ASSUME AInv, TypeOK', NEW r \in Reservations, Turn(r) \/ After(r)
  PROVE  Rate!Next
<1>0. TypeOK /\ clock' = clock /\ clock' >= clock /\ UNCHANGED <<time, revision>>
  BY Numbers
     DEF AInv, TypeOK, Time, Turn, TurnBegins, BindsParent, BindsChild, TurnEnds, FailsUnresolved,
         NotSent, Commits, CommitRefused, CallsProvider, ResponseRecorded, ResponseLost, After,
         SettlesProven, SettlesUnknown, LeavesUnsettled, OwnerEnds, ledger
<1>1. CASE CallsProvider(r)
  BY <1>1, CallUses DEF Rate!Next
<1>2. ASSUME ~CallsProvider(r)
      PROVE  UNCHANGED sent
  BY <1>2 DEF Turn, TurnBegins, BindsParent, BindsChild, TurnEnds, FailsUnresolved,
         NotSent, Commits, CommitRefused, ResponseRecorded, ResponseLost, After,
         SettlesProven, SettlesUnknown, LeavesUnsettled, OwnerEnds, ledger
<1>3. CASE ~CallsProvider(r) /\ state[r] = "held" /\ state' = [state EXCEPT ![r] = "released"]
  <2>1. Rate!Refund(r)
    BY <1>0, <1>2, <1>3, ReleaseRefunds
  <2> QED
    BY <2>1 DEF Rate!Next
<1>4. CASE /\ ~CallsProvider(r)
           /\ ~(state[r] = "held" /\ state' = [state EXCEPT ![r] = "released"])
  <2>1. \A q \in Reservations : SameStage(q)
    <3>1. CASE Commits(r)
      BY <1>0, <3>1 DEF TypeOK, Commits, CommitsParent, CommitsChild, ProvenHeld, SameStage
    <3>2. CASE NotSent(r)
      BY <1>4, <3>2 DEF NotSent, SameStage
    <3>3. CASE FailsUnresolved(r)
      BY <1>4, <3>3 DEF FailsUnresolved
    <3>4. CASE SettlesProven(r) \/ SettlesUnknown(r)
      BY <1>0, <1>4, <3>4 DEF TypeOK, SettlesProven, SettlesUnknown, ProvenHeld, SameStage
    <3> QED
      BY <1>4, <3>1, <3>2, <3>3, <3>4
         DEF Turn, TurnBegins, BindsParent, BindsChild, TurnEnds, CommitRefused, ResponseRecorded,
             ResponseLost, After, LeavesUnsettled, OwnerEnds, ledger, SameStage
  <2> QED
    BY <1>0, <1>2, <1>4, <2>1, QuietSees DEF Rate!Next
<1> QED
  BY <1>1, <1>3, <1>4

\* Startup releases what was provably not sent, and is otherwise not seen.
LEMMA RecoveryImplements ==
  ASSUME AInv, TypeOK', Recovery
  PROVE  Rate!Next
<1>1. TypeOK /\ clock' >= clock /\ UNCHANGED <<time, revision, sent>>
  <2>1. clock' >= clock
    BY RecoveryGrantsNothing DEF AInv, GrantsNothing
  <2> QED
    BY <2>1 DEF AInv, Recovery, Crash, RecoveryExpires, RecoversReservation, RecoversChild,
         RecoveryEnds, ConfigureBudgetPolicy, KeepsBudgetPolicy, ledger
<1>2. CASE \E r \in Reservations :
             /\ state[r] = "held" /\ state' = [state EXCEPT ![r] = "released"]
             /\ UNCHANGED clock
  BY <1>1, <1>2, ReleaseRefunds DEF Rate!Next
<1>3. CASE \A q \in Reservations : SameStage(q)
  BY <1>1, <1>3, QuietSees DEF Rate!Next
<1>4. ASSUME NEW wall \in Time, RecoveryExpires(wall)
      PROVE  \A q \in Reservations : SameStage(q)
  BY <1>1, <1>4, ExpiryTyped DEF RecoveryExpires, SameStage, Consuming
<1>5. ASSUME NEW r \in Reservations, RecoversReservation(r)
      PROVE  \/ /\ state[r] = "held" /\ state' = [state EXCEPT ![r] = "released"]
                /\ UNCHANGED clock
             \/ \A q \in Reservations : SameStage(q)
  BY <1>1, <1>5 DEF TypeOK, RecoversReservation, StrandedParent, SameStage
<1>6. CASE \/ Crash \/ RecoveryEnds \/ ConfigureBudgetPolicy \/ KeepsBudgetPolicy
           \/ \E r \in Reservations, k \in Ordinals : RecoversChild(r, k)
  <2>1. UNCHANGED state
    BY <1>6 DEF Crash, RecoveryEnds, ConfigureBudgetPolicy, KeepsBudgetPolicy, RecoversChild, ledger
  <2> QED
    BY <2>1, <1>3 DEF SameStage
<1> QED
  BY <1>2, <1>3, <1>4, <1>5, <1>6 DEF Recovery

\* Every step of the ledger is a step of the limiter or a stutter.
LEMMA NextImplements ==
  ASSUME AInv, TypeOK', RInv, [Next]_vars
  PROVE  [Rate!Next]_(Rate!vars)
<1>1. CASE UNCHANGED vars
  BY <1>1 DEF vars, ledger, Rate!vars, Attempts, Ordinals
<1>2. ASSUME NEW r \in Reservations, NEW wall \in Time, ReservePrivateThought(r, wall)
      PROVE  Rate!Next
  BY <1>2, AdmissionGrants DEF RInv
<1>3. CASE Recovery
  BY <1>3, RecoveryImplements
<1>4. ASSUME NEW r \in Reservations, Turn(r) \/ After(r)
      PROVE  Rate!Next
  BY <1>4, TurnImplements
<1> QED
  BY <1>1, <1>2, <1>3, <1>4 DEF Next

\* The empty ledger is the limiter that has granted nothing.
LEMMA InitImplements == Init => Rate!Init
  BY Numbers DEF Init, Rate!Init

\* The ledger, its turns, its crashes and its recovery together are a rate limiter whose used
\* grants are never given back.
THEOREM LedgerIsRateLimit == Spec => ImplementsRateLimit
  BY AlwaysAInv, AlwaysRInv, BudgetTyped, InitImplements, NextImplements, PTL
     DEF Spec, ImplementsRateLimit, Rate!Spec
================================================================================
