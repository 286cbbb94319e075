---------------------------- MODULE MasterStore ----------------------------
(***************************************************************************)
(* Store (store.go): master.json and its copy in memory.                   *)
(*                                                                         *)
(* Update holds Store.mu while it edits a clone of the document and saves  *)
(* it: into a temporary file that is synced, closed and renamed to         *)
(* master.json, then chmod.  The directory is never synced.  Each system   *)
(* call may fail, and between any two of them the process may be killed or *)
(* the machine lose power.                                                 *)
(*                                                                         *)
(* Every update is the edit that adds its own name, so a document is the   *)
(* set of updates that made it.                                            *)
(***************************************************************************)
EXTENDS FiniteSets

CONSTANTS
  Updates,  \* calls of Store.Update
  Nobody,   \* nobody holds Store.mu
  Main,     \* the goroutine that runs NewStore
  Faults    \* which of "io", "kill" and "power" may happen

VARIABLES
  phase,  \* of the process: "down", "loading", "up"
  mem,    \* Store.state
  save,   \* the call that holds Store.mu: whose, where it stands, its document
  temp,   \* the temporary file
  file,   \* master.json as processes see it
  entry,  \* what a power failure would leave of master.json
  answer, \* history: what each call of Update returned
  before, \* history: the calls that had succeeded when this one did
  seen,   \* history: updates that Snapshots have shown since the power failed
  past    \* history: what master.json has held since then

history == <<answer, before, seen, past>>
vars == <<phase, mem, save, temp, file, entry, answer, before, seen, past>>

ASSUME FaultsAssumption == Faults \subseteq {"io", "kill", "power"}
ASSUME NamesAssumption ==
  Nobody # Main /\ Nobody \notin Updates /\ Main \notin Updates

Documents == SUBSET Updates

\* A "torn" file does not hold a whole document; "synced" tells whether the
\* file's data is on the disk.
Files == [kind : {"missing", "torn", "whole"}, doc : Documents, synced : BOOLEAN]
NoFile == [kind |-> "missing", doc |-> {}, synced |-> TRUE]
TornFile(synced) == [kind |-> "torn", doc |-> {}, synced |-> synced]

Idle == [by |-> Nobody, pc |-> "none", doc |-> {}]
Saving(by, doc) == [by |-> by, pc |-> "begun", doc |-> doc]
At(pc) == save.by # Nobody /\ save.pc = pc
Goto(pc) == save' = [save EXCEPT !.pc = pc]

Init ==
  /\ phase = "down" /\ mem = {} /\ save = Idle
  /\ temp = NoFile /\ file = NoFile /\ entry = NoFile
  /\ answer = [u \in Updates |-> "none"] /\ before = [u \in Updates |-> {}]
  /\ seen = {} /\ past = {{}}

(***************************************************************************)
(* NewStore.                                                               *)
(***************************************************************************)
Load ==
  /\ phase = "down"
  /\ mem' = file.doc
  /\ \/ file.kind = "missing" /\ phase' = "loading" /\ save' = Saving(Main, {})
     \/ file.kind = "whole" /\ phase' = "up" /\ UNCHANGED save
  /\ UNCHANGED <<temp, file, entry, history>>

(***************************************************************************)
(* Snapshot and the beginning of Update.  Store.mu is free.                *)
(***************************************************************************)
Snapshot ==
  /\ phase = "up" /\ save = Idle
  /\ seen' = seen \cup mem
  /\ UNCHANGED <<phase, mem, save, temp, file, entry, answer, before, past>>

\* Mutant: the document in memory is replaced before it is saved.
CommitFirst(u) ==
  /\ phase = "up" /\ save = Idle /\ answer[u] = "none"
  /\ save' = Saving(u, mem \cup {u}) /\ mem' = mem \cup {u}
  /\ UNCHANGED <<phase, temp, file, entry, history>>

Update(u) ==
  /\ phase = "up" /\ save = Idle /\ answer[u] = "none"
  /\ save' = Saving(u, mem \cup {u})
  /\ UNCHANGED <<phase, mem, temp, file, entry, history>>

Rejected(u) ==
  /\ phase = "up" /\ save = Idle /\ answer[u] = "none"
  /\ answer' = [answer EXCEPT ![u] = "failed"]
  /\ UNCHANGED <<phase, mem, save, temp, file, entry, before, seen, past>>

(***************************************************************************)
(* saveLocked.                                                             *)
(***************************************************************************)
Create ==
  /\ At("begun") /\ Goto("created")
  /\ temp' = TornFile(FALSE)
  /\ UNCHANGED <<phase, mem, file, entry, history>>

Encode ==
  /\ At("created") /\ Goto("written")
  /\ temp' = [temp EXCEPT !.kind = "whole", !.doc = save.doc]
  /\ UNCHANGED <<phase, mem, file, entry, history>>

\* Mutant: the temporary file is closed without Sync.
CloseUnsynced ==
  /\ At("written") /\ Goto("closed")
  /\ UNCHANGED <<phase, mem, temp, file, entry, history>>

SyncAndClose ==
  /\ At("written") /\ Goto("closed")
  /\ temp' = [temp EXCEPT !.synced = TRUE]
  /\ UNCHANGED <<phase, mem, file, entry, history>>

Rename ==
  /\ At("closed") /\ Goto("renamed")
  /\ file' = temp /\ temp' = NoFile
  /\ past' = past \cup {temp.doc}
  /\ UNCHANGED <<phase, mem, entry, answer, before, seen>>

\* What the caller is told.  NewStore has no answer: it opens the store or
\* main ends.
Answer(what) ==
  IF save.by = Main
  THEN /\ phase' = IF what = "done" THEN "up" ELSE "down"
       /\ UNCHANGED <<answer, before>>
  ELSE /\ answer' = [answer EXCEPT ![save.by] = what]
       /\ before' = [before EXCEPT ![save.by] =
                       IF what = "done" THEN {u \in Updates : answer[u] = "done"} ELSE {}]
       /\ UNCHANGED phase

\* Mutant: Update does not assign the document it saved.
CommitOnDisk ==
  /\ At("renamed") /\ save' = Idle
  /\ Answer("done")
  /\ UNCHANGED <<mem, temp, file, entry, seen, past>>

\* The chmod succeeds, saveLocked returns nil and Update assigns the state.
Commit ==
  /\ At("renamed") /\ save' = Idle /\ mem' = save.doc
  /\ Answer("done")
  /\ UNCHANGED <<temp, file, entry, seen, past>>

\* Mutant: a failed save is not told to the caller, who waits for ever.
AbortLocked ==
  /\ "io" \in Faults
  /\ \E pc \in {"begun", "created", "written", "closed"} : At(pc)
  /\ Goto("none") /\ temp' = NoFile
  /\ UNCHANGED <<phase, mem, file, entry, history>>

\* A step before the rename fails: the deferred function removes the file.
Abort ==
  /\ "io" \in Faults
  /\ \E pc \in {"begun", "created", "written", "closed"} : At(pc)
  /\ save' = Idle /\ temp' = NoFile
  /\ Answer("failed")
  /\ UNCHANGED <<mem, file, entry, seen, past>>

\* The chmod after the rename fails.
HalfDone ==
  /\ "io" \in Faults
  /\ At("renamed") /\ save' = Idle
  /\ Answer("failed")
  /\ UNCHANGED <<mem, temp, file, entry, seen, past>>

(***************************************************************************)
(* The end of a process, and of power.  A temporary file that is left      *)
(* behind is never read: CreateTemp takes a new name.                      *)
(***************************************************************************)
Down(lost) ==
  /\ phase # "down" /\ phase' = "down"
  /\ save' = Idle /\ temp' = NoFile
  /\ answer' = [u \in Updates |-> IF u \in lost \cup {save.by} THEN "lost" ELSE answer[u]]
  /\ UNCHANGED <<mem, entry, before>>

Kill == "kill" \in Faults /\ Down({}) /\ UNCHANGED <<file, seen, past>>

\* What had succeeded and is not on the disk is lost.
PowerCut ==
  /\ "power" \in Faults
  /\ Down({u \in Updates \ entry.doc : answer[u] = "done"})
  /\ file' = entry /\ seen' = {} /\ past' = {entry.doc}

\* The system writes the directory back when it likes.  A name may get there
\* before the data of its file.
WriteBack ==
  /\ "power" \in Faults /\ entry # file
  /\ \/ entry' = file
     \/ ~file.synced /\ entry' = TornFile(TRUE)
  /\ UNCHANGED <<phase, mem, save, temp, file, history>>

SaveStep == Create \/ Encode \/ SyncAndClose \/ Rename \/ Commit

Next ==
  \/ Load \/ Snapshot \/ SaveStep \/ Abort \/ HalfDone
  \/ Kill \/ PowerCut \/ WriteBack
  \/ \E u \in Updates : Update(u) \/ Rejected(u)

Spec == Init /\ [][Next]_vars

\* Whoever runs Master starts it when it is down, and a save goes on.
FairSpec == Spec /\ WF_vars(Load) /\ WF_vars(SaveStep)
-----------------------------------------------------------------------------
(***************************************************************************)
(* Properties.                                                             *)
(***************************************************************************)

\* Every variable has its type, and whoever holds Store.mu is in saveLocked.
TypeOK ==
  /\ phase \in {"down", "loading", "up"} /\ mem \in Documents
  /\ save \in [by : Updates \cup {Nobody, Main},
               pc : {"none", "begun", "created", "written", "closed", "renamed"},
               doc : Documents]
  /\ save.by = Nobody <=> save.pc = "none"
  /\ temp \in Files /\ file \in Files /\ entry \in Files
  /\ answer \in [Updates -> {"none", "done", "failed", "lost"}]
  /\ before \in [Updates -> Documents] /\ seen \in Documents /\ past \subseteq Documents

\* Store implements AtomicStore, whatever calls fail and wherever the process
\* is killed: acknowledged updates are on disk, and failed ones are not in
\* memory (TestStoreDoesNotCommitRejectedUpdate).  A power failure takes
\* master.json back to something it held before.
Atomic == INSTANCE AtomicStore WITH
  memory <- IF phase = "up" THEN mem ELSE file.doc, disk <- file.doc
AtomicSpec == Atomic!Spec

\* What a Snapshot has shown to anybody is on disk: while the power stays on,
\* no restart takes back what an operator or a job has seen.
SeenSurvives == seen \subseteq file.doc

\* master.json holds a whole document at every moment, to the running system
\* and to one that starts after a power failure: Master can always read it.
OnlyWhole == file.kind # "torn" /\ entry.kind # "torn"

\* A power failure may take back updates that had succeeded, since nothing
\* syncs the directory, but never one without those that succeeded later.
NoGaps ==
  \A u \in entry.doc : answer[u] = "done" => before[u] \subseteq entry.doc

\* When kills, power failures and failing saves come to an end, Master is up
\* for good: nothing they left behind keeps it from starting.
ComesUp ==
  <>[][~(Kill \/ PowerCut \/ Abort)]_vars => <>[](phase = "up")
=============================================================================
