---------------------------- MODULE AtomicStore ----------------------------
(***************************************************************************)
(* What Store promises of master.json.  A document is the set of updates   *)
(* it contains.  An update reaches memory only when it is on disk, and is  *)
(* then acknowledged; one that fails never reaches memory, though it may   *)
(* have reached the disk; a restart shows what the disk has.  Only a power *)
(* failure takes updates back that were acknowledged, and then the disk    *)
(* has what it once had.                                                   *)
(***************************************************************************)
CONSTANT Updates

VARIABLES
  memory, disk, answer,
  past  \* what the disk has held since the power last failed

Init ==
  /\ memory = {} /\ disk = {} /\ past = {{}}
  /\ answer = [u \in Updates |-> "none"]

Write(u) ==
  /\ answer[u] = "none"
  /\ disk' = memory \cup {u}
  /\ past' = past \cup {disk'}
  /\ UNCHANGED <<memory, answer>>

Acknowledge(u) ==
  /\ answer[u] = "none" /\ disk = memory \cup {u}
  /\ memory' = disk
  /\ answer' = [answer EXCEPT ![u] = "done"]
  /\ UNCHANGED <<disk, past>>

Fail(u) ==
  /\ answer[u] = "none"
  /\ answer' = [answer EXCEPT ![u] = "failed"]
  /\ UNCHANGED <<memory, disk, past>>

\* Updates under way are not answered, and may be on disk.
Lose(also) ==
  \E lost \in SUBSET {u \in Updates : answer[u] = "none"} :
    answer' = [u \in Updates |-> IF u \in lost \cup also THEN "lost" ELSE answer[u]]

Restart ==
  /\ memory' = disk
  /\ Lose({})
  /\ UNCHANGED <<disk, past>>

PowerFailure ==
  \E doc \in past :
    /\ memory' = doc /\ disk' = doc /\ past' = {doc}
    /\ Lose({u \in Updates \ doc : answer[u] = "done"})

Next == Restart \/ PowerFailure \/ \E u \in Updates : Write(u) \/ Acknowledge(u) \/ Fail(u)

Spec == Init /\ [][Next]_<<memory, disk, answer, past>>
=============================================================================
