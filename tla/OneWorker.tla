------------------------------- MODULE OneWorker -------------------------------
(***************************************************************************)
(* A service with one worker.  A job is submitted once, it waits, it is     *)
(* worked on at most once and alone, and when it is over it stays over.  A  *)
(* job may also be withdrawn while it waits; nobody takes a job from the    *)
(* worker and gives it back.                                                *)
(***************************************************************************)
CONSTANT Jobs

VARIABLE status  \* of each job: absent, waiting, working or over

Init == status = [j \in Jobs |-> "absent"]

Submit(j) ==
  /\ status[j] = "absent"
  /\ status' = [status EXCEPT ![j] = "waiting"]

Begin(j) ==
  /\ status[j] = "waiting"
  /\ \A k \in Jobs : status[k] # "working"
  /\ status' = [status EXCEPT ![j] = "working"]

Finish(j) ==
  /\ status[j] \in {"waiting", "working"}
  /\ status' = [status EXCEPT ![j] = "over"]

Next == \E j \in Jobs : Submit(j) \/ Begin(j) \/ Finish(j)

Spec == Init /\ [][Next]_status
================================================================================
