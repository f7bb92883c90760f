------------------------------ MODULE WorkerTurns ------------------------------
(***************************************************************************)
(* The worker queue watched for fairness between its origins: two history   *)
(* variables count how long a class that had work was passed over.  They    *)
(* restrict no step of WorkerQueue.                                         *)
(***************************************************************************)
EXTENDS WorkerQueue, FiniteSetsExt

VARIABLES
  ready,   \* classes that had work when the pass made its selection
  passed   \* starts each class has watched since it last started or had no work

SelectsNow == pass.at = "converge" /\ pass'.at = "probe"
Start      == pass.at = "start" /\ pass'.at = "started"

Watched(k) ==
  IF k = OriginKind[pass.who] \/ k \notin ready THEN 0 ELSE passed[k] + 1

TurnsInit == Init /\ ready = {} /\ passed = [k \in Origins |-> 0]

TurnsNext ==
  /\ Next
  /\ ready' = IF SelectsNow THEN ReadyOrigins ELSE IF Start THEN {} ELSE ready
  /\ passed' = IF Start THEN [k \in Origins |-> Watched(k)] ELSE passed

TurnsSpec == TurnsInit /\ [][TurnsNext]_<<vars, ready, passed>>
--------------------------------------------------------------------------------
\* The most starts that can fit between two entries of a class.
Stretch(k) ==
  Max({n \in 0..7 : \E i \in Indices :
         \A j \in 1..n : WORKER_SERVICE_CALENDAR[((i + j - 1) % 7) + 1] # k})

\* While a class of the calendar keeps having work, the other classes start no more often
\* before its turn than the longest stretch of the calendar without it, whatever arrives,
\* waits for capacity or is requeued in between; each crash or lost callback, which may keep
\* the calendar from moving after a start, costs a class at most one start more.
ServedInTurn == \A k \in Origins : passed[k] <= Stretch(k) + faults
=======================================
