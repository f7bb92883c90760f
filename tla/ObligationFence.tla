---------------------------- MODULE ObligationFence ----------------------------
(***************************************************************************)
(* What the durable inbox promises, whatever its rows look like: a lock      *)
(* service for obligations.  An obligation belongs to one occurrence and an  *)
(* occurrence to one lane.  At most one obligation of a lane is held at a    *)
(* time; one whose outcome is unknown fences its whole occurrence, so that   *)
(* nothing of it is held until the outcome is resolved; and an obligation    *)
(* that is closed stays closed.                                             *)
(***************************************************************************)
CONSTANTS Obligations, Occurrences, Lanes, NoOccurrence, NoLane

VARIABLES
  status,      \* of each obligation: unborn, waiting, held, unknown or closed
  occurrence,  \* the occurrence an obligation belongs to
  lane         \* the lane an occurrence belongs to

vars == <<status, occurrence, lane>>

Held    == {o \in Obligations : status[o] = "held"}
Waiting == {o \in Obligations : status[o] = "waiting"}
LaneOf(o) == lane[occurrence[o]]

Init ==
  /\ status = [o \in Obligations |-> "unborn"]
  /\ occurrence = [o \in Obligations |-> NoOccurrence]
  /\ lane = [w \in Occurrences |-> NoLane]

\* An obligation arrives, in an occurrence that is new or that has its lane.
Admit(o, w, l) ==
  /\ status[o] = "unborn"
  /\ lane[w] = l \/ \A p \in Obligations : status[p] # "unborn" => occurrence[p] # w
  /\ status' = [status EXCEPT ![o] = "waiting"]
  /\ occurrence' = [occurrence EXCEPT ![o] = w]
  /\ lane' = [lane EXCEPT ![w] = l]

\* Some holders give back or lose what they held, and some obligations are closed.
Swept(back, lost, closed) ==
  [o \in Obligations |->
     IF o \in closed THEN "closed"
     ELSE IF o \in lost THEN "unknown"
     ELSE IF o \in back THEN "waiting" ELSE status[o]]

Sweep(back, lost, closed) ==
  /\ status' = Swept(back, lost, closed)
  /\ UNCHANGED <<occurrence, lane>>

\* A sweep, and then one waiting obligation is taken.
Take(o, back, lost, closed) ==
  LET swept == Swept(back, lost, closed) IN
  /\ swept[o] = "waiting"
  /\ \A p \in Obligations : swept[p] = "held" => LaneOf(p) # LaneOf(o)
  /\ \A p \in Obligations : swept[p] = "unknown" => occurrence[p] # occurrence[o]
  /\ status' = [swept EXCEPT ![o] = "held"]
  /\ UNCHANGED <<occurrence, lane>>

\* The unknown outcome is known: the obligation is wanted again, or it is over.
Resolve(o) ==
  /\ status[o] = "unknown"
  /\ \E st \in {"waiting", "closed"} : status' = [status EXCEPT ![o] = st]
  /\ UNCHANGED <<occurrence, lane>>

Next ==
  \/ \E o \in Obligations, w \in Occurrences, l \in Lanes : Admit(o, w, l)
  \/ \E back \in SUBSET Held, lost \in SUBSET Held, closed \in SUBSET (Held \cup Waiting) :
       \/ Sweep(back, lost, closed)
       \/ \E o \in Obligations : Take(o, back, lost, closed)
  \/ \E o \in Obligations : Resolve(o)

Spec == Init /\ [][Next]_vars
================================================================================
