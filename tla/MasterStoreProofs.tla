------------------------- MODULE MasterStoreProofs -------------------------
(***************************************************************************)
(* Proofs about MasterStore for any set of updates and any faults.         *)
(***************************************************************************)
EXTENDS MasterStore, TLAPS

USE NamesAssumption, FaultsAssumption

Done == {u \in Updates : answer[u] = "done"}

\* Where a save stands, what it has written.
Stages ==
  /\ save.pc \in {"written", "closed"} => temp.kind = "whole" /\ temp.doc = save.doc
  /\ save.pc = "closed" => temp.synced
  /\ save.pc = "renamed" => file.kind = "whole" /\ file.doc = save.doc

\* Whose save it is.
Holders ==
  /\ save.by = Main <=> phase = "loading"
  /\ phase = "down" => save = Idle
  /\ phase = "loading" => mem = {} /\ save.doc = {} /\ file.doc = {}
  /\ save.by \in Updates =>
       answer[save.by] = "none" /\ save.doc = mem \cup {save.by}

Readable(f) ==
  f.kind # "torn" /\ f.synced /\ (f.kind = "missing" => f.doc = {})

\* What is on disk is whole, and not behind the memory.
Whole ==
  /\ Readable(file) /\ Readable(entry)
  /\ phase = "up" => mem \subseteq file.doc

\* What a power failure would leave is something master.json has held.
Held == file.doc \in past /\ entry.doc \in past

\* What a Snapshot has shown is in memory.
Shown ==
  /\ phase = "up" => seen \subseteq mem
  /\ seen \subseteq file.doc

Inv == TypeOK /\ Stages /\ Holders /\ Whole

LEMMA InitInv == Init => Inv
  BY DEF Init, Inv, TypeOK, Stages, Holders, Whole, Readable, Idle, NoFile, Files, Documents

\* Every step keeps Inv, failures of the power among them.
LEMMA NextInv == Inv /\ [Next]_vars => Inv'
<1> SUFFICES ASSUME Inv, [Next]_vars PROVE Inv' OBVIOUS
<1> USE DEF Inv, TypeOK, Stages, Holders, Whole, Readable, Idle, Files, Documents, history
<1>1. CASE Load
  BY <1>1 DEF Load, Saving
<1>2. CASE Snapshot
  BY <1>2 DEF Snapshot
<1>3. CASE Create
  BY <1>3 DEF Create, At, Goto, TornFile
<1>4. CASE Encode
  <2>1. temp' = [kind |-> "whole", doc |-> save.doc, synced |-> temp.synced]
    BY <1>4 DEF Encode
  <2> QED BY <1>4, <2>1 DEF Encode, At, Goto
<1>5. CASE SyncAndClose
  <2>1. temp' = [kind |-> temp.kind, doc |-> temp.doc, synced |-> TRUE]
    BY <1>5 DEF SyncAndClose
  <2>2. save' = [by |-> save.by, pc |-> "closed", doc |-> save.doc]
    BY <1>5 DEF SyncAndClose, At, Goto
  <2>3. temp.kind = "whole" /\ temp.doc = save.doc
    BY <1>5 DEF SyncAndClose, At
  <2>4. UNCHANGED <<phase, mem, file, entry, history>>
    BY <1>5 DEF SyncAndClose
  <2>5. TypeOK' /\ Stages'
    <3>1. temp \in Files /\ temp' \in Files
      BY <2>1
    <3>2. save' \in [by : Updates \cup {Nobody, Main},
                    pc : {"none", "begun", "created", "written", "closed", "renamed"},
                    doc : Documents]
      BY <2>2
    <3>3. temp'.kind = "whole" /\ temp'.doc = save'.doc /\ temp'.synced
      BY <2>1, <2>2, <2>3
    <3>4. save'.by # Nobody /\ save'.pc = "closed"
      BY <1>5, <2>2 DEF SyncAndClose, At
    <3> HIDE DEF Files, Documents
    <3>5. TypeOK'
      BY <2>4, <3>1, <3>2, <3>4
    <3> QED BY <2>2, <3>3, <3>5
  <2>6. Holders' /\ Whole'
    <3>1. save.pc = "written" /\ phase # "down"
      BY <1>5 DEF SyncAndClose, At
    <3> QED BY <2>2, <2>4, <3>1
  <2> QED BY <2>5, <2>6
<1>6. CASE Rename
  BY <1>6 DEF Rename, At, Goto, NoFile
<1>7. CASE Commit
  <2>1. CASE save.by = Main
    BY <1>7, <2>1 DEF Commit, At, Answer
  <2>2. CASE save.by \in Updates
    <3>1. before' \in [Updates -> Documents]
      BY <1>7, <2>2 DEF Commit, At, Answer
    <3> QED BY <1>7, <2>2, <3>1 DEF Commit, At, Answer
  <2> QED BY <1>7, <2>1, <2>2 DEF Commit, At
<1>8. CASE Abort
  <2>1. CASE save.by = Main
    BY <1>8, <2>1 DEF Abort, At, Answer, NoFile
  <2>2. CASE save.by \in Updates
    BY <1>8, <2>2 DEF Abort, At, Answer, NoFile
  <2> QED BY <1>8, <2>1, <2>2 DEF Abort, At
<1>9. CASE HalfDone
  <2>1. CASE save.by = Main
    BY <1>9, <2>1 DEF HalfDone, At, Answer
  <2>2. CASE save.by \in Updates
    BY <1>9, <2>2 DEF HalfDone, At, Answer
  <2> QED BY <1>9, <2>1, <2>2 DEF HalfDone, At
<1>10. CASE Kill
  BY <1>10 DEF Kill, Down, NoFile
<1>11. CASE PowerCut
  BY <1>11 DEF PowerCut, Down, NoFile
<1>12. CASE WriteBack
  BY <1>12 DEF WriteBack, TornFile
<1>13. ASSUME NEW u \in Updates, Update(u) PROVE Inv'
  BY <1>13 DEF Update, Saving
<1>14. ASSUME NEW u \in Updates, Rejected(u) PROVE Inv'
  BY <1>14 DEF Rejected
<1>15. CASE UNCHANGED vars
  BY <1>15 DEF vars
<1> QED BY <1>1, <1>2, <1>3, <1>4, <1>5, <1>6, <1>7, <1>8, <1>9, <1>10, <1>11, <1>12,
           <1>13, <1>14, <1>15 DEF Next, SaveStep

LEMMA AlwaysInv == Spec => []Inv
  BY InitInv, NextInv, PTL DEF Spec

\* The type invariant of MasterStore.
THEOREM StoreTypes == Spec => []TypeOK
  BY AlwaysInv, PTL DEF Inv

\* saveLocked never lets a reader, or a Master that starts after a power
\* failure, find master.json cut short.
THEOREM NeverTorn == Spec => []OnlyWhole
<1>1. Inv => OnlyWhole BY DEF Inv, Whole, Readable, OnlyWhole
<1> QED BY <1>1, AlwaysInv, PTL

-----------------------------------------------------------------------------
(***************************************************************************)
(* What the file has held, and what Snapshots have shown.                  *)
(***************************************************************************)

LEMMA NextHeld == ASSUME Inv, Held, [Next]_vars PROVE Held'
<1> USE DEF Inv, Stages, Whole, Readable, Held, history
<1>1. CASE Rename
  BY <1>1 DEF Rename, At
<1>2. CASE PowerCut
  BY <1>2 DEF PowerCut, Down
<1>3. CASE WriteBack
  BY <1>3 DEF WriteBack
<1>4. CASE Load \/ Snapshot \/ Create \/ Encode \/ SyncAndClose \/ Commit \/ Abort \/ HalfDone \/ Kill
  BY <1>4 DEF Load, Snapshot, Create, Encode, SyncAndClose, Commit, Abort, HalfDone, Kill, Down
<1>5. ASSUME NEW u \in Updates, Update(u) \/ Rejected(u) PROVE Held'
  BY <1>5 DEF Update, Rejected
<1>6. CASE UNCHANGED vars
  BY <1>6 DEF vars
<1> QED BY <1>1, <1>2, <1>3, <1>4, <1>5, <1>6 DEF Next, SaveStep

LEMMA AlwaysHeld == Spec => []Held
<1>1. Init => Held BY DEF Init, Held, NoFile
<1>2. Inv /\ Held /\ [Next]_vars => Held' BY NextHeld
<1> QED BY <1>1, <1>2, AlwaysInv, PTL DEF Spec

LEMMA NextShown == ASSUME Inv, Shown, [Next]_vars PROVE Shown'
<1> USE DEF Inv, TypeOK, Stages, Holders, Whole, Readable, Shown, Idle, Files, Documents, history
<1>1. CASE Load
  BY <1>1 DEF Load, Saving
<1>2. CASE Snapshot
  BY <1>2 DEF Snapshot
<1>3. CASE Create \/ Encode \/ SyncAndClose
  BY <1>3 DEF Create, Encode, SyncAndClose
<1>4. CASE Rename
  BY <1>4 DEF Rename, At, Goto
<1>5. CASE Commit
  BY <1>5 DEF Commit, At, Answer
<1>6. CASE Abort \/ HalfDone
  BY <1>6 DEF Abort, HalfDone, At, Answer
<1>7. CASE Kill
  BY <1>7 DEF Kill, Down
<1>8. CASE PowerCut \/ WriteBack
  BY <1>8 DEF PowerCut, Down, WriteBack
<1>9. ASSUME NEW u \in Updates, Update(u) \/ Rejected(u) PROVE Shown'
  BY <1>9 DEF Update, Rejected
<1>10. CASE UNCHANGED vars
  BY <1>10 DEF vars
<1> QED BY <1>1, <1>2, <1>3, <1>4, <1>5, <1>6, <1>7, <1>8, <1>9, <1>10 DEF Next, SaveStep

\* No failing call and no kill takes back what a Snapshot has shown since the
\* power last failed.
THEOREM SeenStays == Spec => []SeenSurvives
<1>1. Init => Shown BY DEF Init, Shown
<1>2. Inv /\ Shown /\ [Next]_vars => Shown' BY NextShown
<1>3. Shown => SeenSurvives BY DEF Shown, SeenSurvives
<1> QED BY <1>1, <1>2, <1>3, AlwaysInv, PTL DEF Spec

\* Each step is a step of AtomicStore or changes nothing it shows.
LEMMA StepAtomic ==
  ASSUME Inv, Inv', Held, [Next]_vars
  PROVE [Atomic!Next]_<<IF phase = "up" THEN mem ELSE file.doc, file.doc, answer, past>>
<1> DEFINE memory == IF phase = "up" THEN mem ELSE file.doc
           abstract == <<memory, file.doc, answer, past>>
<1> SUFFICES [Atomic!Next]_abstract OBVIOUS
<1> USE DEF Inv, TypeOK, Stages, Holders, Whole, Readable, Idle, Documents
<1>1. CASE Load \/ Snapshot
  BY <1>1 DEF Load, Snapshot, history
<1>2. CASE Create \/ Encode \/ SyncAndClose
  BY <1>2 DEF Create, Encode, SyncAndClose, history
<1>3. CASE Rename
  <2>1. /\ temp.doc = save.doc /\ file' = temp /\ past' = past \cup {temp.doc}
        /\ UNCHANGED <<phase, mem, answer>>
    BY <1>3 DEF Rename, At
  <2>2. CASE save.by = Main
    <3>1. phase = "loading" /\ file.doc = {} /\ temp.doc = {}
      BY <2>1, <2>2
    <3>2. {} \in past /\ past' = past \cup {{}}
      BY <2>1, <3>1 DEF Held
    <3>4. past' = past
      BY ONLY <3>2
    <3>3. file'.doc = file.doc /\ phase' = phase /\ answer' = answer /\ mem' = mem
      BY <2>1, <3>1
    <3> QED BY <3>3, <3>4
  <2>3. CASE save.by \in Updates
    <3>1. Atomic!Write(save.by)
      BY <1>3, <2>1, <2>3 DEF Atomic!Write
    <3> QED BY <2>3, <3>1 DEF Atomic!Next
  <2> QED BY <1>3, <2>2, <2>3 DEF Rename, At
<1>4. CASE Commit
  <2>1. CASE save.by = Main
    BY <1>4, <2>1 DEF Commit, At, Answer
  <2>2. CASE save.by \in Updates
    <3>1. Atomic!Acknowledge(save.by)
      BY <1>4, <2>2 DEF Commit, At, Answer, Atomic!Acknowledge
    <3> QED BY <2>2, <3>1 DEF Atomic!Next
  <2> QED BY <1>4, <2>1, <2>2 DEF Commit, At
<1>5. CASE Abort \/ HalfDone
  <2>1. CASE save.by = Main
    BY <1>5, <2>1 DEF Abort, HalfDone, At, Answer
  <2>2. CASE save.by \in Updates
    <3>1. Atomic!Fail(save.by)
      BY <1>5, <2>2 DEF Abort, HalfDone, At, Answer, Atomic!Fail
    <3> QED BY <2>2, <3>1 DEF Atomic!Next
  <2> QED BY <1>5, <2>1, <2>2 DEF Abort, HalfDone, At
<1>6. CASE Kill
  <2>1. {save.by} \cap Updates \in SUBSET {u \in Updates : answer[u] = "none"}
    OBVIOUS
  <2>2. answer' = [u \in Updates |->
                     IF u \in ({save.by} \cap Updates) \cup {} THEN "lost" ELSE answer[u]]
    BY <1>6 DEF Kill, Down
  <2>3. Atomic!Lose({})
    BY <2>1, <2>2 DEF Atomic!Lose
  <2>4. Atomic!Restart
    BY <1>6, <2>3 DEF Kill, Down, Atomic!Restart
  <2> QED BY <2>4 DEF Atomic!Next
<1>7. CASE PowerCut
  <2> DEFINE also == {u \in Updates \ entry.doc : answer[u] = "done"}
  <2>1. {save.by} \cap Updates \in SUBSET {u \in Updates : answer[u] = "none"}
    OBVIOUS
  <2>2. answer' = [u \in Updates |->
                     IF u \in ({save.by} \cap Updates) \cup also THEN "lost" ELSE answer[u]]
    BY <1>7 DEF PowerCut, Down
  <2>3. Atomic!Lose(also)
    <3> HIDE DEF also
    <3> QED BY <2>1, <2>2 DEF Atomic!Lose
  <2>4. entry.doc \in past /\ file'.doc = entry.doc /\ memory' = entry.doc /\ past' = {entry.doc}
    BY <1>7 DEF PowerCut, Down, Held
  <2>5. Atomic!PowerFailure
    BY <2>3, <2>4 DEF Atomic!PowerFailure
  <2> QED BY <2>5 DEF Atomic!Next
<1>11. CASE WriteBack
  BY <1>11 DEF WriteBack, history
<1>8. ASSUME NEW u \in Updates, Update(u) PROVE UNCHANGED abstract
  BY <1>8 DEF Update, history
<1>9. ASSUME NEW u \in Updates, Rejected(u) PROVE Atomic!Next
  <2>1. Atomic!Fail(u)
    BY <1>9 DEF Rejected, Atomic!Fail
  <2> QED BY <2>1 DEF Atomic!Next
<1>10. CASE UNCHANGED vars
  BY <1>10 DEF vars
<1> QED BY <1>1, <1>2, <1>3, <1>4, <1>5, <1>6, <1>7, <1>8, <1>9, <1>10, <1>11 DEF Next, SaveStep

\* Store implements AtomicStore: what it acknowledges is on disk, what fails is
\* not in memory, and a power failure leaves what master.json once held.
THEOREM StoreIsAtomic == Spec => AtomicSpec
<1>1. Init => Atomic!Init
  BY DEF Init, NoFile, Atomic!Init
<1>2. Inv /\ Inv' /\ Held /\ [Next]_vars =>
        [Atomic!Next]_<<IF phase = "up" THEN mem ELSE file.doc, file.doc, answer, past>>
  BY StepAtomic
<1> QED BY <1>1, <1>2, AlwaysInv, AlwaysHeld, PTL DEF Spec, AtomicSpec, Atomic!Spec
-----------------------------------------------------------------------------
(***************************************************************************)
(* What a power failure takes back.                                        *)
(***************************************************************************)

\* With each successful update, a document has those that had succeeded by then.
Closed(doc) == \A u \in doc : answer[u] = "done" => before[u] \subseteq doc

\* What has succeeded is in memory and on disk, as processes see it.
Kept ==
  /\ Done \subseteq file.doc
  /\ phase = "up" => Done \subseteq mem

\* A document that has an update still under way was just renamed.
Recent ==
  \A u \in Updates : answer[u] = "none" =>
    /\ phase = "up" => u \notin mem
    /\ u \in file.doc => save.by = u /\ save.pc = "renamed"
    /\ u \in entry.doc => entry.doc = file.doc /\ save.by = u /\ save.pc = "renamed"

Gapless ==
  /\ Kept /\ Recent
  /\ Closed(file.doc) /\ Closed(entry.doc)
  /\ phase = "up" => Closed(mem)

LEMMA NextGapless == ASSUME Inv, Inv', Gapless, [Next]_vars PROVE Gapless'
<1> USE DEF Inv, TypeOK, Stages, Holders, Whole, Readable, Gapless, Kept, Recent, Closed,
            Done, Idle, Documents
<1>1. CASE Load \/ Snapshot
  BY <1>1 DEF Load, Snapshot, Saving, history
<1>2. CASE Create \/ Encode \/ SyncAndClose
  <2>1. CASE Create BY <2>1 DEF Create, At, Goto, history
  <2>2. CASE Encode BY <2>2 DEF Encode, At, Goto, history
  <2>3. CASE SyncAndClose BY <2>3 DEF SyncAndClose, At, Goto, history
  <2> QED BY <1>2, <2>1, <2>2, <2>3
<1>3. CASE Rename
  BY <1>3 DEF Rename, At, Goto, history
<1>4. CASE Commit
  <2>1. CASE save.by = Main
    BY <1>4, <2>1 DEF Commit, At, Answer
  <2>2. CASE save.by \in Updates
    <3>1. answer' = [answer EXCEPT ![save.by] = "done"]
      BY <1>4, <2>2 DEF Commit, At, Answer
    <3>2. before' = [before EXCEPT ![save.by] = Done]
      BY <1>4, <2>2 DEF Commit, At, Answer
    <3>3. phase = "up" /\ mem' = file.doc /\ UNCHANGED <<phase, file, entry>>
      BY <1>4, <2>2 DEF Commit, At, Answer
    <3>4. ASSUME NEW doc \in SUBSET file.doc, Closed(doc),
                 save.by \in doc => doc = file.doc
          PROVE Closed(doc)'
      BY <2>2, <3>1, <3>2, <3>4
    <3>5. Closed(file.doc)' /\ Closed(mem)'
      BY <3>3, <3>4
    <3>6. Closed(entry.doc)'
      BY <2>2, <3>1, <3>2, <3>3
    <3> QED BY <1>4, <2>2, <3>1, <3>3, <3>5, <3>6 DEF Commit
  <2> QED BY <1>4, <2>1, <2>2 DEF Commit, At
<1>5. CASE Abort \/ HalfDone
  <2>1. CASE save.by = Main
    BY <1>5, <2>1 DEF Abort, HalfDone, At, Answer
  <2>2. CASE save.by \in Updates
    <3>1. /\ answer' = [answer EXCEPT ![save.by] = "failed"]
          /\ before' = [before EXCEPT ![save.by] = {}]
          /\ UNCHANGED <<phase, mem, file, entry>>
      BY <1>5, <2>2 DEF Abort, HalfDone, At, Answer
    <3>2. \A u \in Updates : u # save.by => answer'[u] = answer[u] /\ before'[u] = before[u]
      BY <3>1
    <3>3. answer'[save.by] = "failed"
      BY <2>2, <3>1
    <3>4. Kept' /\ Recent'
      BY <2>2, <3>1, <3>2, <3>3
    <3>5. Closed(file.doc)' /\ Closed(entry.doc)' /\ (phase = "up" => Closed(mem))'
      BY <2>2, <3>1, <3>2, <3>3
    <3> QED BY <3>4, <3>5
  <2> QED BY <1>5, <2>1, <2>2 DEF Abort, HalfDone, At
<1>6. CASE Kill
  <2>0. answer' = [u \in Updates |-> IF u = save.by THEN "lost" ELSE answer[u]]
    BY <1>6 DEF Kill, Down
  <2>1. \A u \in Updates :
          (answer'[u] = answer[u] /\ u # save.by) \/ answer'[u] = "lost"
    BY <2>0
  <2>2. phase' = "down" /\ UNCHANGED <<file, entry, before>>
    BY <1>6 DEF Kill, Down
  <2>3. Kept' /\ Recent'
    BY <2>1, <2>2
  <2>4. ASSUME NEW doc \in SUBSET Updates, Closed(doc)
        PROVE  \A u \in doc : answer'[u] = "done" => before'[u] \subseteq doc
    <3>1. \A u \in doc : answer'[u] = "done" => answer[u] = "done"
      BY <2>1, <2>4
    <3> QED BY <2>2, <2>4, <3>1
  <2>5. Closed(file.doc)' /\ Closed(entry.doc)'
    <3> DEFINE C(doc) == \A u \in doc : answer'[u] = "done" => before'[u] \subseteq doc
    <3>1. file.doc \in SUBSET Updates /\ entry.doc \in SUBSET Updates
      BY DEF Files
    <3>2. C(file.doc) /\ C(entry.doc)
      BY <2>4, <3>1
    <3> HIDE DEF C
    <3>3. C(file'.doc) /\ C(entry'.doc)
      BY <2>2, <3>2
    <3> QED BY <3>3 DEF C
  <2> QED BY <2>2, <2>3, <2>5
<1>7. CASE PowerCut
  <2>1. \A u \in Updates :
          \/ answer'[u] = answer[u] /\ (answer[u] = "done" => u \in entry.doc) /\ u # save.by
          \/ answer'[u] = "lost"
    BY <1>7 DEF PowerCut, Down
  <2>2. phase' = "down" /\ file' = entry /\ UNCHANGED <<entry, before>>
    BY <1>7 DEF PowerCut, Down
  <2>3. Kept' /\ Recent'
    BY <2>1, <2>2
  <2>4. ASSUME NEW doc \in SUBSET Updates, Closed(doc)
        PROVE  \A u \in doc : answer'[u] = "done" => before'[u] \subseteq doc
    <3>1. \A u \in doc : answer'[u] = "done" => answer[u] = "done"
      BY <2>1, <2>4
    <3> QED BY <2>2, <2>4, <3>1
  <2>5. Closed(file.doc)' /\ Closed(entry.doc)'
    <3> DEFINE C(doc) == \A u \in doc : answer'[u] = "done" => before'[u] \subseteq doc
    <3>1. file.doc \in SUBSET Updates /\ entry.doc \in SUBSET Updates
      BY DEF Files
    <3>2. C(file.doc) /\ C(entry.doc)
      BY <2>4, <3>1
    <3> HIDE DEF C
    <3>3. C(file'.doc) /\ C(entry'.doc)
      BY <2>2, <3>2
    <3> QED BY <3>3 DEF C
  <2> QED BY <2>2, <2>3, <2>5
<1>8. CASE WriteBack
  BY <1>8 DEF WriteBack, TornFile, history
<1>9. ASSUME NEW u \in Updates, Update(u) PROVE Gapless'
  BY <1>9 DEF Update, Saving, history
<1>10. ASSUME NEW u \in Updates, Rejected(u) PROVE Gapless'
  <2>1. /\ answer' = [answer EXCEPT ![u] = "failed"]
        /\ UNCHANGED <<phase, mem, save, file, entry, before>>
    BY <1>10 DEF Rejected
  <2>2. Kept' /\ Recent'
    BY <2>1
  <2>3. Closed(file.doc)' /\ Closed(entry.doc)' /\ (phase = "up" => Closed(mem))'
    BY <2>1
  <2> QED BY <2>2, <2>3
<1>11. CASE UNCHANGED vars
  BY <1>11 DEF vars
<1> QED BY <1>1, <1>2, <1>3, <1>4, <1>5, <1>6, <1>7, <1>8, <1>9, <1>10, <1>11 DEF Next, SaveStep

\* Whatever fails, the power too, the disk never has an update without one
\* that had succeeded before it.
THEOREM NeverAGap == Spec => []NoGaps
<1>1. Init => Gapless
  BY DEF Init, Gapless, Kept, Recent, Closed, Done, NoFile
<1>2. Inv /\ Inv' /\ Gapless /\ [Next]_vars => Gapless' BY NextGapless
<1>3. Gapless => NoGaps BY DEF Gapless, Closed, NoGaps
<1> QED BY <1>1, <1>2, <1>3, AlwaysInv, PTL DEF Spec
=============================================================================
