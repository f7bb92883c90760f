------------------------------- MODULE RateLimit -------------------------------
(***************************************************************************)
(* What the private budget promises, whatever its rows look like: grants are *)
(* given in the order of a clock that never runs back, no more of them within *)
(* any window of that clock than the terms they were given under allow; a    *)
(* grant that was used is never given back.                                  *)
(***************************************************************************)
EXTENDS Integers, FiniteSets

CONSTANTS Grants, Revisions, Limit, Window

VARIABLES
  status,  \* of each grant: none, granted, used or refunded
  time,    \* when it was given
  terms,   \* the revision of the policy it was given under
  latest   \* the latest time that was seen

vars == <<status, time, terms, latest>>

Standing == {g \in Grants : status[g] \in {"granted", "used"}}
Recent(t) == {g \in Standing : time[g] > t - Window}

Init ==
  /\ status = [g \in Grants |-> "none"]
  /\ time = [g \in Grants |-> 0]
  /\ terms \in [Grants -> Revisions]
  /\ latest \in Int

TimePasses == latest' \in Int /\ latest' >= latest

See ==
  /\ TimePasses
  /\ UNCHANGED <<status, time, terms>>

\* All that stands in the window was given under the same terms, and is within them.
Grant(g, v) ==
  /\ status[g] = "none"
  /\ TimePasses
  /\ \A h \in Recent(latest') : terms[h] = v
  /\ Cardinality(Recent(latest')) < Limit[v]
  /\ status' = [status EXCEPT ![g] = "granted"]
  /\ time' = [time EXCEPT ![g] = latest']
  /\ terms' = [terms EXCEPT ![g] = v]

Use(g) ==
  /\ status[g] \in {"granted", "used"}
  /\ status' = [status EXCEPT ![g] = "used"]
  /\ UNCHANGED <<time, terms, latest>>

Refund(g) ==
  /\ status[g] = "granted"
  /\ status' = [status EXCEPT ![g] = "refunded"]
  /\ UNCHANGED <<time, terms, latest>>

Next ==
  \/ See
  \/ \E g \in Grants : Use(g) \/ Refund(g)
  \/ \E g \in Grants, v \in Revisions : Grant(g, v)

Spec == Init /\ [][Next]_vars
================================================================================
