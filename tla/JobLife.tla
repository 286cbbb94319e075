------------------------------ MODULE JobLife ------------------------------
(***************************************************************************)
(* What Master promises of a job: it is started once, it ends at most      *)
(* once, and what it ended with never changes.  "warned" tells whether     *)
(* anything went wrong on the way: a job that only succeeded had no        *)
(* warning.  The status is all that the panel acts on.                     *)
(***************************************************************************)
CONSTANT JobIds

VARIABLES status, warned

Final == {"success", "success_with_warnings", "error"}

Init ==
  /\ status = [j \in JobIds |-> "none"]
  /\ warned = [j \in JobIds |-> FALSE]

Start(j) ==
  /\ status[j] = "none"
  /\ status' = [status EXCEPT ![j] = "running"]
  /\ UNCHANGED warned

Warn(j) ==
  /\ status[j] = "running"
  /\ warned' = [warned EXCEPT ![j] = TRUE]
  /\ UNCHANGED status

End(j) ==
  /\ status[j] = "running"
  /\ \E final \in {"error", IF warned[j] THEN "success_with_warnings" ELSE "success"} :
       status' = [status EXCEPT ![j] = final]
  /\ UNCHANGED warned

Next == \E j \in JobIds : Start(j) \/ Warn(j) \/ End(j)

Spec == Init /\ [][Next]_<<status, warned>>
=============================================================================
