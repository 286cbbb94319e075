----------------------------- MODULE JobsProofs -----------------------------
(***************************************************************************)
(* For any number of jobs and streams, any capacities and any length of a  *)
(* job's log: jobs implement JobLife, the manager's tables agree, and a    *)
(* stream gets its job's events in order, the status last, and all of them *)
(* unless its channel overflowed.                                          *)
(***************************************************************************)
EXTENDS Jobs, SequenceTheorems, FiniteSetTheorems, TLAPS

(* What ties a job's status to the place its goroutine stands at. *)
JobSound(it) ==
  /\ it.readers > 0 => it.pc = "script"
  /\ it.pc = "none" <=> it.status = "none"
  /\ it.pc = "none" => ~it.warned
  /\ it.status = "running" <=> it.pc \in {"begun", "working", "script", "verdict"}
  /\ it.pc = "verdict" => it.verdict = IF it.warned THEN "success_with_warnings" ELSE "success"

JobInv == job \in [JobIds -> JobStates] /\ \A j \in JobIds : JobSound(job[j])

(* One event more keeps a log a log. *)
LEMMA TrimType ==
  ASSUME NEW log \in Seq(Events)
  PROVE  Trim(log) \in Seq(Events)
<1>. DEFINE n == Len(log)
<1>1. n \in Nat /\ LogCap \in Nat \ {0}
  BY CapsAssumption
<1>2. ASSUME n > LogCap PROVE SubSeq(log, n - LogCap + 1, n) \in Seq(Events)
  <2>1. \A i \in (n - LogCap + 1)..n : log[i] \in Events
    BY <1>1, <1>2, ElementOfSeq
  <2>. QED BY <1>1, <2>1, SubSeqProperties
<1>. QED BY <1>2 DEF Trim

(* An event changes nothing of a job but its log and whether it was warned. *)
Same(a, b) ==
  a.status = b.status /\ a.pc = b.pc /\ a.readers = b.readers /\ a.verdict = b.verdict

LEMMA LoggedType ==
  ASSUME NEW j \in JobIds, job \in [JobIds -> JobStates], NEW kind \in {"log", "warning"}
  PROVE  /\ Logged(j, kind) \in JobStates
         /\ Same(Logged(j, kind), job[j])
         /\ Logged(j, kind).warned = (job[j].warned \/ kind = "warning")
<1>. DEFINE event == Numbered(j, kind)
            log == Trim(Append(job[j].log, event))
<1>1. job[j] \in JobStates
  OBVIOUS
<1>2. event \in Events
  BY <1>1 DEF Numbered, Events, JobStates
<1>3. job[j].log \in Seq(Events)
  BY <1>1 DEF JobStates
<1>4. Append(job[j].log, event) \in Seq(Events)
  BY <1>2, <1>3, AppendProperties
<1>5. log \in Seq(Events)
  BY <1>4, TrimType
<1>6. Logged(j, kind) = [job[j] EXCEPT !.sequence = @ + 1, !.log = log,
                                       !.warned = @ \/ kind = "warning"]
  BY Zenon DEF Logged
<1>. HIDE DEF log, event
<1>7. job[j].warned \in BOOLEAN
  BY <1>1 DEF JobStates
<1>8. PICK w \in BOOLEAN : w = (job[j].warned \/ kind = "warning")
  BY <1>7, Zenon
<1>9. Logged(j, kind) = [job[j] EXCEPT !.sequence = @ + 1, !.log = log, !.warned = w]
  BY <1>6, <1>8, Zenon
<1>10. job[j].sequence + 1 \in Nat
  BY <1>1 DEF JobStates
<1>11. Logged(j, kind) \in JobStates /\ Same(Logged(j, kind), job[j]) /\ Logged(j, kind).warned = w
  <2>. DEFINE r == [job[j] EXCEPT !.sequence = job[j].sequence + 1, !.log = log, !.warned = w]
  <2>1. Logged(j, kind) = r
    BY <1>9
  <2>2. r \in JobStates
    BY <1>1, <1>5, <1>10 DEF JobStates
  <2>3. r.warned = w /\ Same(r, job[j])
    BY <1>1 DEF JobStates, Same
  <2>. QED BY <2>1, <2>2, <2>3, Zenon
<1>. QED BY <1>8, <1>11
-----------------------------------------------------------------------------
(* What a step does to one job is a step of JobLife or leaves it alone. *)
LifeMove(a, b) ==
  \/ b.status = a.status /\ b.warned = a.warned
  \/ a.status = "none" /\ b.status = "running" /\ b.warned = a.warned
  \/ a.status = "running" /\ b.status = "running" /\ b.warned
  \/ /\ a.status = "running" /\ b.warned = a.warned
     /\ b.status \in {"error", IF a.warned THEN "success_with_warnings" ELSE "success"}

Moves(j, new) ==
  /\ new \in JobStates /\ JobSound(new) /\ LifeMove(job[j], new)
  /\ job' = [job EXCEPT ![j] = new]

lifeVars == <<[j \in JobIds |-> job[j].status], [j \in JobIds |-> job[j].warned]>>

LEMMA OneJobMoves ==
  ASSUME JobInv, NEW j \in JobIds, NEW new, Moves(j, new)
  PROVE  JobInv' /\ [Life!Next]_lifeVars
<1>. DEFINE s == [i \in JobIds |-> job[i].status]
            w == [i \in JobIds |-> job[i].warned]
<1>1. JobInv'
  BY DEF JobInv, Moves
<1>2. /\ \A i \in JobIds \ {j} : job'[i] = job[i]
      /\ job'[j] = new
  BY DEF JobInv, Moves
<1>3. /\ s' = [s EXCEPT ![j] = new.status]
      /\ w' = [w EXCEPT ![j] = new.warned]
  BY <1>2
<1>4. job[j].warned \in BOOLEAN /\ new.warned \in BOOLEAN
  BY DEF JobInv, Moves, JobStates
<1>5. CASE new.status = job[j].status /\ new.warned = job[j].warned
  BY <1>3, <1>5, s' = s, w' = w, <1>1 DEF lifeVars
<1>6. CASE job[j].status = "none" /\ new.status = "running" /\ new.warned = job[j].warned
  <2>1. w' = w
    BY <1>3, <1>6
  <2>. QED BY <1>1, <1>3, <1>6, <2>1 DEF Life!Next, Life!Start, lifeVars
<1>7. CASE job[j].status = "running" /\ new.status = "running" /\ new.warned
  <2>1. s' = s
    <3>1. [s EXCEPT ![j] = s[j]] = s
      OBVIOUS
    <3>. QED BY <1>3, <1>7, <3>1
  <2>2. new.warned = TRUE
    BY <1>4, <1>7
  <2>. QED BY <1>1, <1>3, <1>7, <2>1, <2>2 DEF Life!Next, Life!Warn, lifeVars
<1>8. CASE /\ job[j].status = "running" /\ new.warned = job[j].warned
           /\ new.status \in {"error", IF job[j].warned THEN "success_with_warnings"
                                                        ELSE "success"}
  <2>1. w' = w
    BY <1>3, <1>8
  <2>. QED BY <1>1, <1>3, <1>8, <2>1 DEF Life!Next, Life!End, lifeVars
<1>. QED BY <1>5, <1>6, <1>7, <1>8 DEF Moves, LifeMove

(* The steps of a job's goroutine and of those that read its scripts. *)
LEMMA StartMoves ==
  ASSUME JobInv, NEW j \in JobIds, Start(j)
  PROVE  \E new : Moves(j, new)
<1>. DEFINE new == [job[j] EXCEPT !.status = "running", !.pc = "begun"]
<1>1. job[j] \in JobStates /\ JobSound(job[j]) /\ job[j].pc = "none"
  BY DEF JobInv, Start
<1>2. new \in JobStates /\ JobSound(new) /\ LifeMove(job[j], new)
  BY <1>1 DEF JobStates, Statuses, Final, JobSound, LifeMove
<1>3. job' = [job EXCEPT ![j] = new]
  BY <1>1 DEF Start, JobInv
<1>. QED BY <1>2, <1>3 DEF Moves

LEMMA EventMoves ==
  ASSUME JobInv, NEW j \in JobIds,
         Begin(j) \/ (\E kind \in {"log", "warning"} : Log(j, kind)) \/ ReadLine(j) \/ ReaderFails(j)
  PROVE  \E new : Moves(j, new)
<1>1. job[j] \in JobStates /\ JobSound(job[j]) /\ job \in [JobIds -> JobStates]
  BY DEF JobInv
<1>2. ASSUME NEW kind \in {"log", "warning"}, job[j].status = "running", job[j].pc # "verdict"
      PROVE  LifeMove(job[j], Logged(j, kind)) /\ JobSound(Logged(j, kind))
  <2>1. /\ Same(Logged(j, kind), job[j])
        /\ Logged(j, kind).warned = (job[j].warned \/ kind = "warning")
        /\ job[j].warned \in BOOLEAN
    BY <1>1, LoggedType DEF JobStates
  <2>2. JobSound(Logged(j, kind))
    BY <1>1, <1>2, <2>1 DEF JobSound, Same
  <2>. QED BY <1>2, <2>1, <2>2 DEF LifeMove, Same
<1>3. CASE Begin(j)
  <2>. DEFINE new == [Logged(j, "log") EXCEPT !.pc = "working"]
  <2>1. job[j].pc = "begun" /\ job[j].status = "running" /\ job' = [job EXCEPT ![j] = new]
    BY <1>1, <1>3 DEF Begin, Report, JobSound
  <2>2. /\ Logged(j, "log") \in JobStates /\ Same(Logged(j, "log"), job[j])
        /\ LifeMove(job[j], Logged(j, "log")) /\ JobSound(Logged(j, "log"))
    BY <1>1, <1>2, <2>1, LoggedType
  <2>3. new \in JobStates /\ JobSound(new) /\ LifeMove(job[j], new)
    BY <2>1, <2>2 DEF JobStates, JobSound, LifeMove, Same
  <2>. QED BY <2>1, <2>3 DEF Moves
<1>4. ASSUME NEW kind \in {"log", "warning"}, Log(j, kind) PROVE \E new : Moves(j, new)
  <2>1. job[j].pc = "working" /\ job[j].status = "running"
        /\ job' = [job EXCEPT ![j] = Logged(j, kind)]
    BY <1>1, <1>4 DEF Log, Report, JobSound
  <2>. QED BY <1>1, <1>2, <2>1, LoggedType DEF Moves
<1>5. CASE ReadLine(j)
  <2>1. job[j].pc = "script" /\ job[j].status = "running"
        /\ job' = [job EXCEPT ![j] = Logged(j, "log")]
    BY <1>1, <1>5 DEF ReadLine, Report, JobSound
  <2>. QED BY <1>1, <1>2, <2>1, LoggedType DEF Moves
<1>6. CASE ReaderFails(j)
  <2>. DEFINE l == Logged(j, "warning")
              new == [l EXCEPT !.readers = @ - 1]
  <2>1. job[j].readers > 0 /\ job[j].pc = "script" /\ job[j].status = "running"
        /\ job' = [job EXCEPT ![j] = new]
    BY <1>1, <1>6 DEF ReaderFails, Report, JobSound
  <2>2. l \in JobStates /\ Same(l, job[j]) /\ LifeMove(job[j], l) /\ JobSound(l)
    BY <1>1, <1>2, <2>1, LoggedType
  <2>. HIDE DEF l
  <2>3. l.readers - 1 \in 0..2
    BY <2>1, <2>2 DEF JobStates, Same
  <2>4. new \in JobStates
    BY <2>2, <2>3 DEF JobStates
  <2>5. JobSound(new) /\ LifeMove(job[j], new)
    BY <2>1, <2>2, <2>3 DEF JobStates, JobSound, LifeMove, Same
  <2>. QED BY <2>1, <2>4, <2>5 DEF Moves
<1>. QED BY <1>3, <1>4, <1>5, <1>6

LEMMA ScriptMoves ==
  ASSUME JobInv, NEW j \in JobIds, RunScript(j) \/ ReaderEnds(j) \/ ScriptEnds(j) \/ Succeed(j)
  PROVE  \E new : Moves(j, new)
<1>1. job[j] \in JobStates /\ JobSound(job[j]) /\ job \in [JobIds -> JobStates]
  BY DEF JobInv
<1>2. CASE RunScript(j)
  <2>. DEFINE new == [job[j] EXCEPT !.pc = "script", !.readers = 2]
  <2>1. job[j].pc = "working" /\ job' = [job EXCEPT ![j] = new]
    BY <1>1, <1>2 DEF RunScript
  <2>2. new \in JobStates
    BY <1>1, 2 \in 0..2 DEF JobStates
  <2>3. /\ new.status = job[j].status /\ new.warned = job[j].warned
        /\ new.pc = "script" /\ new.readers = 2
    BY <1>1, <2>1 DEF JobStates
  <2>4. JobSound(new) /\ LifeMove(job[j], new)
    BY <1>1, <2>1, <2>3 DEF JobSound, LifeMove
  <2>. QED BY <2>1, <2>2, <2>4 DEF Moves
<1>3. CASE ReaderEnds(j)
  <2>. DEFINE new == [job[j] EXCEPT !.readers = @ - 1]
  <2>1. job[j].readers > 0 /\ job[j].readers - 1 \in 0..2 /\ job' = [job EXCEPT ![j] = new]
    BY <1>1, <1>3 DEF ReaderEnds, JobStates
  <2>2. new \in JobStates
    BY <1>1, <2>1 DEF JobStates
  <2>3. /\ new.status = job[j].status /\ new.warned = job[j].warned
        /\ new.pc = job[j].pc
    BY <1>1, <2>1 DEF JobStates
  <2>4. JobSound(new) /\ LifeMove(job[j], new)
    BY <1>1, <2>1, <2>3 DEF JobSound, LifeMove
  <2>. QED BY <2>1, <2>2, <2>4 DEF Moves
<1>4. CASE ScriptEnds(j)
  <2>. DEFINE new == [job[j] EXCEPT !.pc = "working"]
  <2>1. job[j].pc = "script" /\ job[j].readers = 0 /\ job' = [job EXCEPT ![j] = new]
    BY <1>1, <1>4 DEF ScriptEnds
  <2>2. new \in JobStates
    BY <1>1, <2>1 DEF JobStates
  <2>3. /\ new.status = job[j].status /\ new.warned = job[j].warned
        /\ new.pc = "working" /\ new.readers = 0
    BY <1>1, <2>1 DEF JobStates
  <2>4. JobSound(new) /\ LifeMove(job[j], new)
    BY <1>1, <2>1, <2>3 DEF JobSound, LifeMove
  <2>. QED BY <2>1, <2>2, <2>4 DEF Moves
<1>5. CASE Succeed(j)
  <2>. DEFINE v == IF job[j].warned THEN "success_with_warnings" ELSE "success"
              new == [job[j] EXCEPT !.pc = "verdict", !.verdict = v]
  <2>1. job[j].pc = "working" /\ v \in Final /\ job' = [job EXCEPT ![j] = new]
    BY <1>1, <1>5 DEF Succeed, Final
  <2>2. new \in JobStates
    BY <1>1, <2>1 DEF JobStates
  <2>3. /\ new.status = job[j].status /\ new.warned = job[j].warned
        /\ new.pc = "verdict" /\ new.verdict = v /\ new.readers = job[j].readers
    BY <1>1, <2>1 DEF JobStates
  <2>4. JobSound(new) /\ LifeMove(job[j], new)
    BY <1>1, <2>1, <2>3 DEF JobSound, LifeMove
  <2>. QED BY <2>1, <2>2, <2>4 DEF Moves
<1>. QED BY <1>2, <1>3, <1>4, <1>5

(* No warning can come between the verdict and the status: the readers of  *)
(* the scripts have ended (JobSound).                                      *)
LEMMA FinishMoves ==
  ASSUME JobInv, NEW j \in JobIds, Fail(j) \/ Conclude(j)
  PROVE  \E new : Moves(j, new)
<1>. DEFINE final == IF job[j].pc = "verdict" THEN job[j].verdict ELSE "error"
            log == Append(job[j].log, Numbered(j, final))
            new == [job[j] EXCEPT !.status = final, !.pc = "done",
                                  !.sequence = job[j].sequence + 1, !.log = log]
<1>1. job[j] \in JobStates /\ JobSound(job[j]) /\ job \in [JobIds -> JobStates]
  BY DEF JobInv
<1>2. job[j].pc \in {"working", "verdict"} /\ Finish(j, final)
  BY DEF Fail, Conclude
<1>3. /\ final \in Final /\ job[j].status = "running" /\ job[j].readers = 0
      /\ final \in {"error", IF job[j].warned THEN "success_with_warnings" ELSE "success"}
  BY <1>1, <1>2 DEF JobStates, JobSound, Final
<1>4. log \in Seq(Events) /\ job[j].sequence + 1 \in Nat
  <2>1. job[j].log \in Seq(Events) /\ job[j].sequence \in Nat
    BY <1>1 DEF JobStates
  <2>2. Numbered(j, final) \in Events
    BY <1>3, <2>1 DEF Numbered, Events
  <2>. QED BY <2>1, <2>2, AppendProperties
<1>5. job' = [job EXCEPT ![j] = new]
  BY <1>1, <1>2 DEF Finish
<1>. HIDE DEF final, log
<1>6. final \in Statuses
  BY <1>3 DEF Statuses
<1>7. new \in JobStates
  BY <1>1, <1>4, <1>6 DEF JobStates
<1>8. /\ new.status = final /\ new.pc = "done"
      /\ new.warned = job[j].warned /\ new.readers = job[j].readers
  BY <1>1 DEF JobStates
<1>9. JobSound(new) /\ LifeMove(job[j], new)
  BY <1>3, <1>8 DEF JobSound, LifeMove, Final
<1>. QED BY <1>5, <1>7, <1>9 DEF Moves

LEMMA FollowersMoveNoJob ==
  ASSUME NEW f \in Streams, Handle(f) \/ Leave(f) \/ \E j \in JobIds : Find(f, j)
  PROVE  UNCHANGED <<job, order, known>>
BY DEF Handle, Leave, Find, Subscribe, WritePast, WriteNew, EndStream

LEMMA NextIsOne ==
  ASSUME Next
  PROVE  \/ \E j \in JobIds : Start(j) \/ Work(j)
         \/ UNCHANGED <<job, order, known>>
BY FollowersMoveNoJob DEF Next

LEMMA LifeStep ==
  ASSUME JobInv, [Next]_vars
  PROVE  JobInv' /\ [Life!Next]_lifeVars
<1>1. CASE \E j \in JobIds : Start(j) \/ Work(j)
  <2>1. PICK j \in JobIds : Start(j) \/ Work(j)
    BY <1>1
  <2>2. \E new : Moves(j, new)
    BY <2>1, StartMoves, EventMoves, ScriptMoves, FinishMoves DEF Work
  <2>. QED BY <2>2, OneJobMoves
<1>2. CASE UNCHANGED <<job, order, known>>
  BY <1>2 DEF JobInv, lifeVars
<1>. QED BY <1>1, <1>2, NextIsOne DEF vars

(* JobManager's jobs keep the promise of JobLife (jobs.go 58-160): they    *)
(* start once, end once, and success means that nothing warned, though the *)
(* look for warnings and the status are two critical sections and two more *)
(* goroutines log what scripts write.                                      *)
THEOREM JobsImplementLife == Spec => LifeSpec
<1>1. Init => JobInv /\ Life!Init
  <2>. SUFFICES ASSUME Init PROVE JobInv /\ Life!Init
    OBVIOUS
  <2>. DEFINE it == [status |-> "none", log |-> <<>>, sequence |-> 0, warned |-> FALSE,
                     pc |-> "none", readers |-> 0, verdict |-> "success"]
  <2>1. it \in JobStates /\ JobSound(it)
    BY DEF JobStates, Statuses, Final, JobSound
  <2>2. job = [j \in JobIds |-> it]
    BY DEF Init
  <2>. QED BY <2>1, <2>2 DEF JobInv, Life!Init
<1>2. JobInv /\ [Next]_vars => JobInv' /\ [Life!Next]_lifeVars
  BY LifeStep
<1>. QED BY <1>1, <1>2, PTL DEF Spec, LifeSpec, Life!Spec, lifeVars
-----------------------------------------------------------------------------
(* Every job the manager lists has been started. *)
Started == \A i \in DOMAIN order : job[order[i]].pc # "none"
ListInv == JobInv /\ order \in Seq(JobIds) /\ Started /\ ManagerAgrees

LEMMA ListStep ==
  ASSUME ListInv, [Next]_vars
  PROVE  ListInv'
<1>1. JobInv'
  BY LifeStep DEF ListInv
<1>2. ASSUME NEW i \in JobIds, [Next]_vars, job[i].pc # "none" PROVE job'[i].pc # "none"
  <2>1. CASE \E j \in JobIds : Start(j) \/ Work(j)
    <3>1. PICK j \in JobIds, new \in JobStates : Moves(j, new)
      BY <2>1, StartMoves, EventMoves, ScriptMoves, FinishMoves DEF Work, ListInv, Moves
    <3>2. job[i].status # "none"
      BY <1>2 DEF ListInv, JobInv, JobSound
    <3>3. job'[i].status # "none"
      BY <3>1, <3>2 DEF Moves, LifeMove, ListInv, JobInv
    <3>. QED BY <1>1, <3>3 DEF JobInv, JobSound
  <2>. QED BY <1>2, <2>1, NextIsOne DEF vars
<1>3. CASE UNCHANGED <<order, known>>
  BY <1>1, <1>2, <1>3, ElementOfSeq DEF ListInv, Started, ManagerAgrees
<1>4. ASSUME NEW j \in JobIds, Start(j) PROVE ListInv'
  <2>. DEFINE all == Append(order, j)
              full == Len(all) > MapCap
  <2>1. /\ order \in Seq(JobIds) /\ Len(order) \in Nat /\ Len(order) <= MapCap
        /\ DOMAIN order = 1..Len(order)
        /\ MapCap \in Nat \ {0}
    BY CapsAssumption DEF ListInv, ManagerAgrees
  <2>2. /\ all \in Seq(JobIds) /\ Len(all) = Len(order) + 1
        /\ \A i \in 1..Len(order) : all[i] = order[i]
        /\ all[Len(order) + 1] = j
    BY <2>1, AppendProperties
  <2>3. \A i \in 1..Len(order) : order[i] # j
    BY <1>4, <2>1 DEF Start, ListInv, Started
  <2>4. \A i, k \in 1..Len(all) : i # k => all[i] # all[k]
    BY <2>1, <2>2, <2>3 DEF ListInv, ManagerAgrees
  <2>5. /\ order' = IF full THEN Tail(all) ELSE all
        /\ known' = (known \cup {j}) \ (IF full THEN {Head(all)} ELSE {})
    BY <1>4 DEF Start
  <2>6. known \cup {j} = {all[i] : i \in 1..Len(all)}
    BY <2>1, <2>2 DEF ListInv, ManagerAgrees
  <2>7. \A i \in 1..Len(all) : all[i] \in JobIds /\ job'[all[i]].pc # "none"
    BY <1>2, <1>4, <2>1, <2>2 DEF ListInv, JobInv, Start, Started
  <2>. HIDE DEF all
  <2>8. CASE ~full
    BY <1>1, <2>1, <2>2, <2>4, <2>5, <2>6, <2>7, <2>8 DEF ListInv, Started, ManagerAgrees
  <2>9. CASE full
    <3>1. /\ order' \in Seq(JobIds) /\ Len(order') = Len(order)
          /\ \A i \in 1..Len(order) : order'[i] = all[i + 1]
          /\ Head(all) = all[1]
      BY <2>1, <2>2, <2>5, <2>9, HeadTailProperties, EmptySeq
    <3>2. known' = {order'[i] : i \in 1..Len(order)}
      <4>1. known' = {all[i] : i \in 1..Len(all)} \ {all[1]}
        BY <2>5, <2>6, <2>9, <3>1
      <4>2. ASSUME NEW x \in known' PROVE \E i \in 1..Len(order) : x = order'[i]
        <5>1. PICK k \in 1..Len(all) : x = all[k] /\ k # 1
          BY <4>1
        <5>2. k - 1 \in 1..Len(order) /\ (k - 1) + 1 = k
          BY <2>1, <2>2, <5>1
        <5>. QED BY <3>1, <5>1, <5>2
      <4>3. ASSUME NEW i \in 1..Len(order) PROVE order'[i] \in known'
        <5>1. i + 1 \in 1..Len(all) /\ 1 \in 1..Len(all) /\ i + 1 # 1
          BY <2>1, <2>2
        <5>. QED BY <2>4, <3>1, <4>1, <5>1
      <4>. QED BY <4>2, <4>3
    <3>3. DOMAIN order' = 1..Len(order)
      BY <3>1
    <3>4. \A i \in 1..Len(order) : i + 1 \in 1..Len(all)
      BY <2>1, <2>2
    <3>5. Started'
      BY <2>7, <3>1, <3>3, <3>4 DEF Started
    <3>6. \A i, k \in 1..Len(order) : i # k => order'[i] # order'[k]
      <4>. SUFFICES ASSUME NEW i \in 1..Len(order), NEW k \in 1..Len(order), i # k
                    PROVE  order'[i] # order'[k]
        OBVIOUS
      <4>1. i + 1 # k + 1
        BY <2>1
      <4>. QED BY <2>4, <3>1, <3>4, <4>1
    <3>7. ManagerAgrees'
      BY <2>1, <3>1, <3>2, <3>3, <3>6 DEF ManagerAgrees
    <3>. QED BY <1>1, <3>1, <3>5, <3>7 DEF ListInv
  <2>. QED BY <2>8, <2>9
<1>5. ASSUME NEW j \in JobIds, Work(j) PROVE UNCHANGED <<order, known>>
  BY <1>5 DEF Work, Begin, Fail, Succeed, Conclude, Log, RunScript, ReadLine, ReaderFails,
     ReaderEnds, ScriptEnds, Report, Finish
<1>. QED BY <1>3, <1>4, <1>5, NextIsOne DEF vars

LEMMA ListInit == Init => ListInv
<1>. SUFFICES ASSUME Init PROVE ListInv
  OBVIOUS
<1>1. JobInv
  BY DEF Init, JobInv, JobStates, Statuses, Final, JobSound
<1>2. order = <<>> /\ known = {}
  BY DEF Init
<1>. QED BY <1>1, <1>2, CapsAssumption DEF ListInv, Started, ManagerAgrees

(* JobManager.Start (jobs.go 68-76): the map and the list in which it      *)
(* forgets name the same jobs, however many were started.                  *)
THEOREM ManagerTables == Spec => []ManagerAgrees
<1>1. Init => ListInv
  BY ListInit
<1>2. ListInv /\ [Next]_vars => ListInv'
  BY ListStep
<1>3. ListInv => ManagerAgrees
  BY DEF ListInv
<1>. QED BY <1>1, <1>2, <1>3, PTL DEF Spec
-----------------------------------------------------------------------------
(***************************************************************************)
(* What a job keeps of its events: the last ones, numbered without a gap,  *)
(* and a status only at the end.                                           *)
(***************************************************************************)
Upto(seq, last) == \A i \in DOMAIN seq : seq[i].number = last - Len(seq) + i
StatusLast(seq, status) ==
  \A i \in DOMAIN seq : seq[i].kind \in Final => i = Len(seq) /\ seq[i].kind = status

LogSound(it) ==
  /\ Len(it.log) <= it.sequence
  /\ Len(it.log) >= LogCap \/ Len(it.log) = it.sequence
  /\ Upto(it.log, it.sequence) /\ StatusLast(it.log, it.status)

(* A stream: what it wrote and is going to write is in order, nothing is   *)
(* newer than the job's last event, and while it is subscribed, or after   *)
(* its job has ended, nothing is missing that did not overflow.            *)
DueOf(s) == s.written \o s.past \o s.channel

DueSound(s, it) ==
  LET due == DueOf(s) IN
  /\ \A i \in 1..Len(due)-1 : due[i].number < due[i+1].number
  /\ \A i \in DOMAIN due : due[i].number <= it.sequence
  /\ StatusLast(due, it.status)
  /\ s.pc \in {"writing", "ended"} /\ ~s.left =>
       /\ s.subscribed \/ it.status \in Final
       /\ ~s.lost =>
            /\ Upto(due, it.sequence)
            /\ Len(due) <= it.sequence - Seen(s)
            /\ Seen(s) + LogCap >= s.from => Len(due) = it.sequence - Seen(s)

StreamSound(s, it) ==
  /\ s.pc = "idle" <=> s.job = NoJob
  /\ s.pc \in {"idle", "found"} =>
       s.from = 0 /\ s.written = <<>> /\ s.past = <<>> /\ s.channel = <<>> /\ ~s.subscribed /\ ~s.left
  /\ s.subscribed => s.pc = "writing" /\ it.status = "running"
  /\ s.pc # "idle" => it.status # "none" /\ s.from <= it.sequence /\ DueSound(s, it)

StreamInv ==
  /\ ListInv /\ stream \in [Streams -> StreamStates]
  /\ \A j \in JobIds : LogSound(job[j])
  /\ \A f \in Streams : StreamSound(stream[f], job[stream[f].job])
-----------------------------------------------------------------------------
(***************************************************************************)
(* Sequences of events.                                                    *)
(***************************************************************************)
LEMMA SeqFacts ==
  ASSUME NEW S, NEW s \in Seq(S)
  PROVE  /\ Len(s) \in Nat /\ DOMAIN s = 1..Len(s)
         /\ \A i \in 1..Len(s) : s[i] \in S
         /\ s \o <<>> = s /\ <<>> \o s = s
  BY LenProperties, ElementOfSeq, ConcatEmptySeq

LEMMA HeadMoves ==
  ASSUME NEW S, NEW s \in Seq(S), NEW t \in Seq(S), t # <<>>
  PROVE  Append(s, Head(t)) \o Tail(t) = s \o t
<1>. DEFINE l == Append(s, Head(t)) \o Tail(t)
<1>1. /\ Head(t) \in S /\ Tail(t) \in Seq(S) /\ Len(Tail(t)) = Len(t) - 1
      /\ \A i \in 1..Len(Tail(t)) : Tail(t)[i] = t[i+1]
      /\ Head(t) = t[1] /\ Len(t) \in Nat \ {0} /\ Len(s) \in Nat
  BY HeadTailProperties, EmptySeq, LenProperties
<1>2. /\ Append(s, Head(t)) \in Seq(S) /\ Len(Append(s, Head(t))) = Len(s) + 1
      /\ \A i \in 1..Len(s) : Append(s, Head(t))[i] = s[i]
      /\ Append(s, Head(t))[Len(s) + 1] = t[1]
  BY <1>1, AppendProperties
<1>3. /\ l \in Seq(S) /\ Len(l) = Len(s) + Len(t)
      /\ \A i \in 1..Len(s) + Len(t) : l[i] =
           IF i <= Len(s) + 1 THEN Append(s, Head(t))[i] ELSE Tail(t)[i - (Len(s) + 1)]
  BY <1>1, <1>2, ConcatProperties
<1>4. /\ s \o t \in Seq(S) /\ Len(s \o t) = Len(s) + Len(t)
      /\ \A i \in 1..Len(s) + Len(t) : (s \o t)[i] = IF i <= Len(s) THEN s[i] ELSE t[i - Len(s)]
  BY ConcatProperties
<1>5. ASSUME NEW i \in 1..Len(l) PROVE l[i] = (s \o t)[i]
  <2>1. CASE i <= Len(s)
    BY <1>1, <1>2, <1>3, <1>4, <2>1
  <2>2. CASE i = Len(s) + 1
    BY <1>1, <1>2, <1>3, <1>4, <2>2
  <2>3. CASE i > Len(s) + 1
    <3>1. i - (Len(s) + 1) \in 1..Len(Tail(t)) /\ (i - (Len(s) + 1)) + 1 = i - Len(s)
      BY <1>1, <1>3, <2>3
    <3>2. l[i] = t[i - Len(s)]
      BY <1>1, <1>3, <2>3, <3>1
    <3>. QED BY <1>1, <1>3, <1>4, <2>3, <3>2
  <2>. QED BY <1>1, <1>3, <2>1, <2>2, <2>3
<1>. QED BY <1>3, <1>4, <1>5, SeqEqual

LEMMA AppendMoves ==
  ASSUME NEW S, NEW s \in Seq(S), NEW t \in Seq(S), NEW e \in S
  PROVE  s \o Append(t, e) = Append(s \o t, e)
<1>1. /\ <<e>> \in Seq(S) /\ s \o t \in Seq(S)
      /\ Append(t, e) = t \o <<e>> /\ Append(s \o t, e) = (s \o t) \o <<e>>
  BY AppendIsConcat, ConcatProperties
<1>. QED BY <1>1, ConcatAssociative

(* The entries at the last places are the end of the sequence. *)
LEMMA LastEntries ==
  ASSUME NEW S, NEW s \in Seq(S), NEW c \in 0..Len(s)
  PROVE  LET r == EntriesAt(s, (Len(s) - c + 1)..Len(s)) IN
         r \in Seq(S) /\ Len(r) = c /\ \A k \in 1..c : r[k] = s[Len(s) - c + k]
<1>. DEFINE n == Len(s)
            places == (n - c + 1)..n
            r == EntriesAt(s, places)
<1>1. n \in Nat /\ \A i \in 1..n : s[i] \in S
  BY SeqFacts
<1>2. Cardinality(places) = c
  BY <1>1, FS_Interval
<1>3. ASSUME NEW i \in places PROVE Cardinality(places \cap 1..i) = i - (n - c)
  <2>1. n - c + 1 \in Int /\ i \in Int /\ n - c + 1 <= i /\ n - c >= 0 /\ i <= n
    BY <1>1
  <2>2. places \cap 1..i = (n - c + 1)..i
    BY <1>1, <2>1
  <2>3. Cardinality((n - c + 1)..i) = i - (n - c + 1) + 1
    BY <2>1, FS_Interval
  <2>4. i - (n - c + 1) + 1 = i - (n - c)
    BY <1>1, <2>1
  <2>. HIDE DEF places, n
  <2>. QED BY <2>2, <2>3, <2>4
<1>4. ASSUME NEW k \in 1..c
      PROVE  Place(places, k) = n - c + k
  <2>1. n - c + k \in places /\ Cardinality(places \cap 1..(n - c + k)) = k
    <3>1. n - c + k \in places /\ (n - c + k) - (n - c) = k
      BY <1>1
    <3>. QED BY <1>3, <3>1
  <2>2. ASSUME NEW i \in places, Cardinality(places \cap 1..i) = k PROVE i = n - c + k
    <3>1. i - (n - c) = k /\ i \in Int
      BY <1>3, <2>2
    <3>. QED BY <1>1, <3>1
  <2>. HIDE DEF places
  <2>3. {i \in places : Cardinality(places \cap 1..i) = k} = {n - c + k}
    BY <2>1, <2>2
  <2>. QED BY <2>3 DEF Place
<1>5. \A k \in 1..c : n - c + k \in 1..n /\ s[n - c + k] \in S
  BY <1>1
<1>6. r = [k \in 1..c |-> s[n - c + k]]
  <2>. HIDE DEF places, n
  <2>1. r = [k \in 1..c |-> s[Place(places, k)]]
    BY <1>2 DEF EntriesAt
  <2>2. \A k \in 1..c : s[Place(places, k)] = s[n - c + k]
    BY <1>4
  <2>. QED BY <2>1, <2>2
<1>. HIDE DEF r, places
<1>7. r \in [1..c -> S] /\ c \in Nat
  BY <1>1, <1>5, <1>6
<1>8. r \in Seq(S) /\ Len(r) = c
  BY <1>7
<1>. QED BY <1>6, <1>8 DEF r, places
-----------------------------------------------------------------------------
(***************************************************************************)
(* One event more.                                                         *)
(***************************************************************************)
LEMMA AppendFacts ==
  ASSUME NEW log \in Seq(Events), NEW event \in Events
  PROVE  /\ Append(log, event) \in Seq(Events)
         /\ Len(Append(log, event)) = Len(log) + 1
         /\ DOMAIN Append(log, event) = 1..Len(log)+1
         /\ \A i \in 1..Len(log) : Append(log, event)[i] = log[i]
         /\ Append(log, event)[Len(log) + 1] = event
<1>1. /\ Append(log, event) \in Seq(Events) /\ Len(Append(log, event)) = Len(log) + 1
      /\ \A i \in 1..Len(log) : Append(log, event)[i] = log[i]
      /\ Append(log, event)[Len(log) + 1] = event
  BY AppendProperties
<1>. QED BY <1>1, SeqFacts

(* A sequence without a status, and one event more. *)
LEMMA OneMore ==
  ASSUME NEW log \in Seq(Events), NEW event \in Events, NEW old, NEW status,
         StatusLast(log, old), old \notin Final,
         event.kind \in Final => event.kind = status
  PROVE  /\ StatusLast(Append(log, event), status)
         /\ \A last \in Nat : Upto(log, last) /\ event.number = last + 1
              => Upto(Append(log, event), last + 1)
<1>. DEFINE long == Append(log, event)
<1>1. PICK n \in Nat : n = Len(log)
  BY LenProperties
<1>2. /\ Len(long) = n + 1 /\ DOMAIN long = 1..n+1 /\ DOMAIN log = 1..n
      /\ \A i \in 1..n : long[i] = log[i]
      /\ long[n + 1] = event
  BY <1>1, AppendFacts, SeqFacts
<1>. HIDE DEF long
<1>3. \A i \in 1..n : log[i].kind \notin Final
  BY <1>2 DEF StatusLast
<1>4. \A i \in 1..n+1 : i \in 1..n \/ i = n + 1
  OBVIOUS
<1>5. StatusLast(long, status)
  BY <1>2, <1>3, <1>4 DEF StatusLast
<1>6. ASSUME NEW last \in Nat, Upto(log, last), event.number = last + 1
      PROVE  Upto(long, last + 1)
  <2>1. \A i \in 1..n : long[i].number = last - n + i
    BY <1>1, <1>2, <1>6 DEF Upto
  <2>2. \A i \in 1..n+1 : long[i].number = (last + 1) - (n + 1) + i
    BY <1>2, <1>4, <1>6, <2>1
  <2>. QED BY <1>2, <2>2 DEF Upto
<1>. QED BY <1>5, <1>6 DEF long

(* What Job.append cuts off is the beginning. *)
LEMMA TrimSound ==
  ASSUME NEW log \in Seq(Events), NEW last \in Nat, NEW status,
         Upto(log, last), StatusLast(log, status)
  PROVE  /\ Upto(Trim(log), last) /\ StatusLast(Trim(log), status)
         /\ Len(Trim(log)) = IF Len(log) > LogCap THEN LogCap ELSE Len(log)
<1>1. PICK n \in Nat, cap \in Nat \ {0} : n = Len(log) /\ cap = LogCap
  BY LenProperties, CapsAssumption
<1>2. DOMAIN log = 1..n /\ \A i \in 1..n : log[i] \in Events
  BY <1>1, SeqFacts
<1>3. CASE n > cap
  <2>1. PICK m \in 1..n : m = n - cap + 1
    <3>1. n - cap + 1 \in 1..n
      BY <1>3
    <3>. QED BY <3>1
  <2>2. Trim(log) = SubSeq(log, m, n)
    BY <1>1, <1>3, <2>1 DEF Trim
  <2>3. /\ SubSeq(log, m, n) \in Seq(Events)
        /\ Len(SubSeq(log, m, n)) = IF m <= n THEN n - m + 1 ELSE 0
        /\ \A i \in 1..n - m + 1 : SubSeq(log, m, n)[i] = log[m + i - 1]
    <3>1. \A i \in m..n : log[i] \in Events
      BY <1>2, <2>1
    <3>2. m \in Int /\ n \in Int
      OBVIOUS
    <3>. QED BY <3>1, <3>2, SubSeqProperties
  <2>. DEFINE t == Trim(log)
  <2>4. n - m + 1 = cap /\ m <= n
    BY <1>1, <2>1
  <2>5. t \in Seq(Events) /\ Len(t) = cap /\ \A i \in 1..cap : t[i] = log[m + i - 1]
    BY <2>2, <2>3, <2>4
  <2>6. DOMAIN t = 1..cap
    BY <2>5, SeqFacts
  <2>. HIDE DEF t
  <2>7. \A i \in 1..cap : /\ m + i - 1 \in 1..n /\ (m + i - 1 = n => i = cap)
                          /\ last - n + (m + i - 1) = last - cap + i
    BY <1>1, <2>1
  <2>8. \A i \in 1..cap : t[i].number = last - cap + i
    BY <1>1, <1>2, <2>5, <2>7 DEF Upto
  <2>9. \A i \in 1..cap : t[i].kind \in Final => i = cap /\ t[i].kind = status
    <3>. SUFFICES ASSUME NEW i \in 1..cap, t[i].kind \in Final
                  PROVE  i = cap /\ t[i].kind = status
      OBVIOUS
    <3>1. PICK k \in 1..n : k = m + i - 1 /\ (k = n => i = cap) /\ t[i] = log[k]
      BY <2>5, <2>7
    <3>. QED BY <1>1, <1>2, <3>1 DEF StatusLast
  <2>10. Upto(t, last) /\ StatusLast(t, status)
    BY <2>5, <2>6, <2>8, <2>9 DEF Upto, StatusLast
  <2>. QED BY <1>1, <1>3, <2>5, <2>10 DEF t
<1>4. CASE ~(n > cap)
  BY <1>1, <1>4 DEF Trim
<1>. QED BY <1>3, <1>4

LEMMA EventSound ==
  ASSUME NEW it \in JobStates, LogSound(it), it.status \notin Final,
         NEW event \in Events, event.number = it.sequence + 1, NEW status,
         event.kind \in Final => event.kind = status,
         NEW new \in JobStates, new.sequence = it.sequence + 1, new.status = status,
         new.log \in {Append(it.log, event), Trim(Append(it.log, event))}
  PROVE  LogSound(new)
<1>. DEFINE long == Append(it.log, event)
<1>1. it.log \in Seq(Events) /\ it.sequence \in Nat /\ it.sequence + 1 \in Nat
  BY DEF JobStates
<1>2. PICK n \in Nat, cap \in Nat \ {0} : n = Len(it.log) /\ cap = LogCap
  BY <1>1, LenProperties, CapsAssumption
<1>3. long \in Seq(Events) /\ Len(long) = n + 1
  BY <1>1, <1>2, AppendFacts
<1>4. Upto(long, it.sequence + 1) /\ StatusLast(long, status)
  BY <1>1, OneMore DEF LogSound
<1>. HIDE DEF long
<1>5. /\ Upto(Trim(long), it.sequence + 1) /\ StatusLast(Trim(long), status)
      /\ Len(Trim(long)) = IF n + 1 > cap THEN cap ELSE n + 1
  BY <1>1, <1>2, <1>3, <1>4, TrimSound
<1>6. n <= it.sequence /\ (n >= cap \/ n = it.sequence)
  BY <1>2 DEF LogSound
<1>7. CASE new.log = long
  BY <1>1, <1>2, <1>3, <1>4, <1>6, <1>7 DEF LogSound
<1>8. CASE new.log = Trim(long)
  BY <1>1, <1>2, <1>5, <1>6, <1>8 DEF LogSound
<1>. QED BY <1>7, <1>8 DEF long

(* What an event does to a stream that is subscribed. *)
Offered(s, event, r) ==
  /\ r \in StreamStates
  /\ r.job = s.job /\ r.pc = s.pc /\ r.after = s.after /\ r.from = s.from /\ r.left = s.left
  /\ \/ DueOf(r) = Append(DueOf(s), event) /\ r.lost = s.lost
     \/ DueOf(r) = DueOf(s) /\ r.lost = TRUE

LEMMA OfferEffect ==
  ASSUME NEW s \in StreamStates, NEW event \in Events
  PROVE  /\ Offered(s, event, Offer(s, event)) /\ Offered(s, event, Closed(Offer(s, event)))
         /\ Offer(s, event).subscribed = s.subscribed
         /\ Closed(Offer(s, event)).subscribed = FALSE
<1>1. s.channel \in Seq(Events) /\ s.written \in Seq(Events) /\ s.past \in Seq(Events)
  BY DEF StreamStates
<1>2. Append(s.channel, event) \in Seq(Events)
  BY <1>1, AppendProperties
<1>3. s.written \o s.past \o Append(s.channel, event) = Append(DueOf(s), event)
  <2>. DEFINE front == s.written \o s.past
  <2>1. front \in Seq(Events)
    BY <1>1, ConcatProperties
  <2>2. DueOf(s) = front \o s.channel
    BY DEF DueOf
  <2>. HIDE DEF front
  <2>3. front \o Append(s.channel, event) = Append(front \o s.channel, event)
    BY <1>1, <2>1, AppendMoves
  <2>. QED BY <2>2, <2>3 DEF front
<1>4. CASE Len(s.channel) < ChannelCap
  <2>. DEFINE t == Append(s.channel, event)
              r == [s EXCEPT !.channel = t]
  <2>1. Offer(s, event) = r
    BY <1>4 DEF Offer
  <2>. HIDE DEF t
  <2>2. /\ r \in StreamStates /\ r.channel = t /\ r.written = s.written /\ r.past = s.past
        /\ r.job = s.job /\ r.pc = s.pc /\ r.after = s.after /\ r.from = s.from /\ r.left = s.left
        /\ r.lost = s.lost /\ r.subscribed = s.subscribed
    BY <1>2 DEF StreamStates, t
  <2>3. DueOf(r) = Append(DueOf(s), event)
    BY <1>3, <2>2 DEF DueOf, t
  <2>. HIDE DEF r
  <2>4. /\ Closed(r) \in StreamStates /\ Closed(r).subscribed = FALSE
        /\ Closed(r).channel = r.channel /\ Closed(r).written = r.written /\ Closed(r).past = r.past
        /\ Closed(r).job = r.job /\ Closed(r).pc = r.pc /\ Closed(r).after = r.after /\ Closed(r).from = r.from
        /\ Closed(r).left = r.left /\ Closed(r).lost = r.lost
    BY <2>2 DEF Closed, StreamStates
  <2>5. DueOf(Closed(r)) = DueOf(r)
    BY <2>4 DEF DueOf
  <2>. QED BY <2>1, <2>2, <2>3, <2>4, <2>5 DEF Offered
<1>5. CASE ~(Len(s.channel) < ChannelCap)
  <2>. DEFINE r == [s EXCEPT !.lost = TRUE]
  <2>1. Offer(s, event) = r
    BY <1>5 DEF Offer
  <2>2. /\ r \in StreamStates /\ r.channel = s.channel /\ r.written = s.written
        /\ r.past = s.past /\ r.job = s.job /\ r.pc = s.pc /\ r.after = s.after /\ r.from = s.from
        /\ r.left = s.left /\ r.lost = TRUE /\ r.subscribed = s.subscribed
    BY DEF StreamStates
  <2>3. DueOf(r) = DueOf(s)
    BY <2>2 DEF DueOf
  <2>. HIDE DEF r
  <2>4. /\ Closed(r) \in StreamStates /\ Closed(r).subscribed = FALSE
        /\ Closed(r).channel = r.channel /\ Closed(r).written = r.written /\ Closed(r).past = r.past
        /\ Closed(r).job = r.job /\ Closed(r).pc = r.pc /\ Closed(r).after = r.after /\ Closed(r).from = r.from
        /\ Closed(r).left = r.left /\ Closed(r).lost = r.lost
    BY <2>2 DEF Closed, StreamStates
  <2>5. DueOf(Closed(r)) = DueOf(r)
    BY <2>4 DEF DueOf
  <2>. QED BY <2>1, <2>2, <2>3, <2>4, <2>5 DEF Offered
<1>. QED BY <1>4, <1>5

LEMMA SeenType ==
  ASSUME NEW s \in StreamStates
  PROVE  Seen(s) \in Nat /\ Seen(s) <= s.from /\ s.from \in Nat
<1>1. s.after \in Int /\ s.from \in Nat
  BY DEF StreamStates
<1>. QED BY <1>1 DEF Seen

(* One event more is one more to write, in order, or one lost. *)
LEMMA DueGrows ==
  ASSUME NEW s \in StreamStates, NEW it \in JobStates, DueSound(s, it), it.status \notin Final,
         NEW event \in Events, event.number = it.sequence + 1, NEW status,
         event.kind \in Final => event.kind = status,
         NEW r \in StreamStates, NEW new \in JobStates,
         new.sequence = it.sequence + 1, new.status = status,
         r.pc = s.pc, r.after = s.after, r.from = s.from, r.left = s.left,
         r.subscribed \/ status \in Final,
         \/ DueOf(r) = Append(DueOf(s), event) /\ r.lost = s.lost
         \/ DueOf(r) = DueOf(s) /\ r.lost = TRUE
  PROVE  DueSound(r, new)
<1>. DEFINE due == DueOf(s)
<1>1. due \in Seq(Events)
  <2>1. s.channel \in Seq(Events) /\ s.written \in Seq(Events) /\ s.past \in Seq(Events)
    BY DEF StreamStates
  <2>2. s.written \o s.past \in Seq(Events)
    BY <2>1, ConcatProperties
  <2>. QED BY <2>1, <2>2, ConcatProperties DEF DueOf
<1>2. PICK n \in Nat, q \in Nat, a \in Nat, b \in Nat, cap \in Nat :
        n = Len(due) /\ q = it.sequence /\ a = Seen(s) /\ b = s.from /\ cap = LogCap
  <2>1. Seen(s) \in Nat /\ s.from \in Nat
    BY SeenType
  <2>. QED BY <1>1, <2>1, LenProperties, CapsAssumption DEF JobStates
<1>0. Seen(r) = a /\ r.from = b
  BY <1>2 DEF Seen
<1>3. DOMAIN due = 1..n /\ \A i \in 1..n : due[i].number \in Nat
  <2>. HIDE DEF due
  <2>1. DOMAIN due = 1..n /\ \A i \in 1..n : due[i] \in Events
    BY <1>1, <1>2, SeqFacts
  <2>. QED BY <2>1 DEF Events
<1>4. /\ \A i \in 1..n-1 : due[i].number < due[i+1].number
      /\ \A i \in 1..n : due[i].number <= q
      /\ StatusLast(due, it.status)
  BY <1>2, <1>3 DEF DueSound
<1>5. s.pc \in {"writing", "ended"} /\ ~s.left /\ ~s.lost =>
        /\ Upto(due, q) /\ n <= q - a /\ (a + cap >= b => n = q - a)
  BY <1>2 DEF DueSound
<1>. HIDE DEF due
<1>6. CASE DueOf(r) = due /\ r.lost = TRUE
  <2>1. ASSUME NEW i \in 1..n PROVE due[i].number <= q + 1
    <3>1. due[i].number \in Nat /\ due[i].number <= q
      BY <1>3, <1>4
    <3>. QED BY <3>1
  <2>2. StatusLast(due, status)
    BY <1>4 DEF StatusLast
  <2>. QED BY <1>2, <1>3, <1>4, <1>6, <2>1, <2>2 DEF DueSound
<1>7. CASE DueOf(r) = Append(due, event) /\ r.lost = s.lost
  <2>. DEFINE more == Append(due, event)
  <2>1. /\ more \in Seq(Events) /\ Len(more) = n + 1 /\ DOMAIN more = 1..n+1
        /\ \A i \in 1..n : more[i] = due[i]
        /\ more[n + 1] = event
    BY <1>1, <1>2, AppendFacts
  <2>2. StatusLast(more, status) /\ (Upto(due, q) => Upto(more, q + 1))
    BY <1>1, <1>2, <1>4, OneMore
  <2>. HIDE DEF more
  <2>3. \A i \in 1..n : more[i].number < more[i+1].number
    <3>. SUFFICES ASSUME NEW i \in 1..n PROVE more[i].number < more[i+1].number
      OBVIOUS
    <3>1. CASE i = n
      <4>1. more[i].number <= q /\ more[i+1].number = q + 1 /\ more[i].number \in Nat
        BY <1>2, <1>3, <1>4, <2>1, <3>1
      <4>. QED BY <4>1
    <3>2. CASE i # n
      <4>1. i \in 1..n-1 /\ i + 1 \in 1..n
        BY <3>2
      <4>. QED BY <1>4, <2>1, <4>1
    <3>. QED BY <3>1, <3>2
  <2>4. \A i \in 1..n+1 : more[i].number <= q + 1
    <3>1. \A i \in 1..n+1 : i \in 1..n \/ i = n + 1
      OBVIOUS
    <3>2. \A i \in 1..n : more[i].number <= q + 1
      BY <1>3, <1>4, <2>1
    <3>3. more[n + 1].number <= q + 1
      BY <1>2, <2>1
    <3>. QED BY <3>1, <3>2, <3>3
  <2>5. (n + 1) - 1 = n
    OBVIOUS
  <2>6. n <= q - a /\ (a + cap >= b => n = q - a)
        => n + 1 <= (q + 1) - a /\ (a + cap >= b => n + 1 = (q + 1) - a)
    OBVIOUS
  <2>7. DueOf(r) = more
    BY <1>7 DEF more
  <2>8. s.pc \in {"writing", "ended"} /\ ~s.left /\ ~s.lost =>
          /\ Upto(more, q + 1) /\ n + 1 <= (q + 1) - a
          /\ (a + cap >= b => n + 1 = (q + 1) - a)
    BY <1>5, <2>2, <2>6
  <2>. QED BY <1>0, <1>2, <1>7, <2>1, <2>2, <2>3, <2>4, <2>5, <2>7, <2>8 DEF DueSound
<1>. QED BY <1>6, <1>7 DEF due
-----------------------------------------------------------------------------
(***************************************************************************)
(* The jobs' steps and what they mean to the streams.                      *)
(***************************************************************************)
(* Either the job says nothing, or one event more to all its subscribers,  *)
(* for the last time if it ends.                                           *)
Quiet(j, new) ==
  /\ new.log = job[j].log /\ new.sequence = job[j].sequence
  /\ \/ new.status = job[j].status
     \/ job[j].status = "none" /\ new.status = "running"
  /\ stream' = stream

Tells(j, new, event, ending) ==
  /\ job[j].status = "running" /\ event \in Events /\ event.number = job[j].sequence + 1
  /\ new.sequence = job[j].sequence + 1
  /\ new.log \in {Append(job[j].log, event), Trim(Append(job[j].log, event))}
  /\ IF ending THEN event.kind = new.status /\ new.status \in Final
               ELSE event.kind \notin Final /\ new.status = "running"
  /\ stream' = [f \in Streams |->
       IF ~Subscribed(f, j) THEN stream[f]
       ELSE IF ending THEN Closed(Offer(stream[f], event)) ELSE Offer(stream[f], event)]

Speaks(j, new) == \E event \in Events, ending \in BOOLEAN : Tells(j, new, event, ending)

OneJob(j, new) ==
  /\ new \in JobStates /\ job' = [job EXCEPT ![j] = new]
  /\ Quiet(j, new) \/ Speaks(j, new)

LEMMA LoggedEvent ==
  ASSUME NEW j \in JobIds, job \in [JobIds -> JobStates], NEW kind \in {"log", "warning"}
  PROVE  /\ Numbered(j, kind) \in Events /\ kind \notin Final
         /\ Numbered(j, kind).number = job[j].sequence + 1
         /\ Numbered(j, kind).kind = kind
         /\ Logged(j, kind).sequence = job[j].sequence + 1
         /\ Logged(j, kind).log = Trim(Append(job[j].log, Numbered(j, kind)))
<1>. DEFINE log == Trim(Append(job[j].log, Numbered(j, kind)))
<1>1. job[j] \in JobStates
  OBVIOUS
<1>2. /\ Numbered(j, kind) \in Events /\ kind \notin Final
      /\ Numbered(j, kind).number = job[j].sequence + 1 /\ Numbered(j, kind).kind = kind
  BY <1>1 DEF Numbered, Events, JobStates, Final
<1>3. Logged(j, kind) = [job[j] EXCEPT !.sequence = @ + 1, !.log = log,
                                       !.warned = @ \/ kind = "warning"]
  BY Zenon DEF Logged
<1>. HIDE DEF log
<1>4. Logged(j, kind).sequence = job[j].sequence + 1 /\ Logged(j, kind).log = log
  <2>. DEFINE w == job[j].warned \/ kind = "warning"
  <2>1. Logged(j, kind) = [job[j] EXCEPT !.sequence = job[j].sequence + 1, !.log = log,
                                         !.warned = w]
    BY <1>3, Zenon
  <2>. HIDE DEF w
  <2>. QED BY <1>1, <2>1 DEF JobStates
<1>. QED BY <1>2, <1>4 DEF log

LEMMA ReportTells ==
  ASSUME NEW j \in JobIds, job \in [JobIds -> JobStates], NEW kind \in {"log", "warning"},
         NEW new \in JobStates, Report(j, kind, new), job[j].status = "running",
         new.sequence = Logged(j, kind).sequence, new.log = Logged(j, kind).log,
         new.status = "running"
  PROVE  OneJob(j, new)
<1>1. /\ Numbered(j, kind) \in Events /\ kind \notin Final
      /\ Numbered(j, kind).number = job[j].sequence + 1 /\ Numbered(j, kind).kind = kind
      /\ new.sequence = job[j].sequence + 1
      /\ new.log = Trim(Append(job[j].log, Numbered(j, kind)))
  BY LoggedEvent
<1>2. /\ job' = [job EXCEPT ![j] = new]
      /\ stream' = [f \in Streams |->
           IF Subscribed(f, j) THEN Offer(stream[f], Numbered(j, kind)) ELSE stream[f]]
  BY DEF Report
<1>3. Tells(j, new, Numbered(j, kind), FALSE)
  BY <1>1, <1>2 DEF Tells
<1>. QED BY <1>1, <1>2, <1>3 DEF OneJob, Speaks

LEMMA EventTells ==
  ASSUME JobInv, NEW j \in JobIds,
         Begin(j) \/ (\E kind \in {"log", "warning"} : Log(j, kind)) \/ ReadLine(j) \/ ReaderFails(j)
  PROVE  \E new : OneJob(j, new)
<1>1. job[j] \in JobStates /\ JobSound(job[j]) /\ job \in [JobIds -> JobStates]
  BY DEF JobInv
<1>2. CASE Begin(j)
  <2>. DEFINE l == Logged(j, "log")
              new == [l EXCEPT !.pc = "working"]
  <2>1. job[j].status = "running" /\ Report(j, "log", new)
    BY <1>1, <1>2 DEF Begin, JobSound
  <2>2. l \in JobStates /\ l.status = "running"
    BY <1>1, <2>1, LoggedType DEF Same
  <2>3. new \in JobStates /\ new.sequence = l.sequence /\ new.log = l.log /\ new.status = "running"
    <3>. HIDE DEF l
    <3>. QED BY <2>2 DEF JobStates
  <2>. QED BY <1>1, <2>1, <2>3, ReportTells
<1>3. ASSUME NEW kind \in {"log", "warning"}, Log(j, kind) PROVE \E new : OneJob(j, new)
  <2>1. job[j].status = "running" /\ Report(j, kind, Logged(j, kind))
    BY <1>1, <1>3 DEF Log, JobSound
  <2>2. Logged(j, kind) \in JobStates /\ Logged(j, kind).status = "running"
    BY <1>1, <2>1, LoggedType DEF Same
  <2>. QED BY <1>1, <2>1, <2>2, ReportTells
<1>4. CASE ReadLine(j)
  <2>1. job[j].status = "running" /\ Report(j, "log", Logged(j, "log"))
    BY <1>1, <1>4 DEF ReadLine, JobSound
  <2>2. Logged(j, "log") \in JobStates /\ Logged(j, "log").status = "running"
    BY <1>1, <2>1, LoggedType DEF Same
  <2>. QED BY <1>1, <2>1, <2>2, ReportTells
<1>5. CASE ReaderFails(j)
  <2>. DEFINE l == Logged(j, "warning")
              new == [l EXCEPT !.readers = @ - 1]
  <2>1. job[j].status = "running" /\ Report(j, "warning", new) /\ job[j].readers > 0
    BY <1>1, <1>5 DEF ReaderFails, JobSound
  <2>2. l \in JobStates /\ l.status = "running" /\ l.readers = job[j].readers
    BY <1>1, <2>1, LoggedType DEF Same
  <2>3. new \in JobStates /\ new.sequence = l.sequence /\ new.log = l.log /\ new.status = "running"
    <3>. HIDE DEF l
    <3>1. l.readers - 1 \in 0..2
      BY <2>1, <2>2 DEF JobStates
    <3>. QED BY <2>2, <3>1 DEF JobStates
  <2>. QED BY <1>1, <2>1, <2>3, ReportTells
<1>. QED BY <1>2, <1>3, <1>4, <1>5

LEMMA FinishTells ==
  ASSUME JobInv, NEW j \in JobIds, Fail(j) \/ Conclude(j)
  PROVE  \E new : OneJob(j, new)
<1>. DEFINE final == IF job[j].pc = "verdict" THEN job[j].verdict ELSE "error"
            event == Numbered(j, final)
            log == Append(job[j].log, event)
            new == [job[j] EXCEPT !.status = final, !.pc = "done",
                                  !.sequence = job[j].sequence + 1, !.log = log]
<1>1. job[j] \in JobStates /\ JobSound(job[j]) /\ job \in [JobIds -> JobStates]
  BY DEF JobInv
<1>2. job[j].pc \in {"working", "verdict"} /\ Finish(j, final)
  BY DEF Fail, Conclude
<1>3. final \in Final /\ job[j].status = "running"
  BY <1>1, <1>2 DEF JobStates, JobSound, Final
<1>4. /\ event \in Events /\ event.number = job[j].sequence + 1 /\ event.kind = final
      /\ job[j].log \in Seq(Events) /\ job[j].sequence + 1 \in Nat
  BY <1>1, <1>3 DEF JobStates, Numbered, Events
<1>5. log \in Seq(Events)
  BY <1>4, AppendProperties
<1>6. /\ job' = [job EXCEPT ![j] = new]
      /\ stream' = [f \in Streams |->
           IF Subscribed(f, j) THEN Closed(Offer(stream[f], event)) ELSE stream[f]]
  BY <1>1, <1>2 DEF Finish
<1>. HIDE DEF final, event, log
<1>7. /\ new \in JobStates /\ new.status = final /\ new.log = log
      /\ new.sequence = job[j].sequence + 1
  BY <1>1, <1>3, <1>4, <1>5 DEF JobStates, Statuses
<1>. HIDE DEF new
<1>8. Tells(j, new, event, TRUE)
  BY <1>3, <1>4, <1>6, <1>7 DEF Tells, log
<1>. QED BY <1>4, <1>6, <1>7, <1>8 DEF OneJob, Speaks

LEMMA QuietSteps ==
  ASSUME JobInv, NEW j \in JobIds,
         Start(j) \/ RunScript(j) \/ ReaderEnds(j) \/ ScriptEnds(j) \/ Succeed(j)
  PROVE  \E new : OneJob(j, new)
<1>1. job \in [JobIds -> JobStates] /\ job[j] \in JobStates /\ JobSound(job[j])
  BY DEF JobInv
<1>2. PICK new : Moves(j, new)
  BY StartMoves, ScriptMoves
<1>3. new = job'[j]
  BY <1>1, <1>2 DEF Moves
<1>4. Quiet(j, new)
  <2>1. CASE Start(j)
    BY <1>1, <1>3, <2>1 DEF Start, Quiet, JobSound, JobStates
  <2>2. CASE RunScript(j)
    BY <1>1, <1>3, <2>2 DEF RunScript, Quiet, JobStates
  <2>3. CASE ReaderEnds(j)
    BY <1>1, <1>3, <2>3 DEF ReaderEnds, Quiet, JobStates
  <2>4. CASE ScriptEnds(j)
    BY <1>1, <1>3, <2>4 DEF ScriptEnds, Quiet, JobStates
  <2>5. CASE Succeed(j)
    BY <1>1, <1>3, <2>5 DEF Succeed, Quiet, JobStates
  <2>. QED BY <2>1, <2>2, <2>3, <2>4, <2>5
<1>. QED BY <1>2, <1>4 DEF OneJob, Moves

LEMMA JobSteps ==
  ASSUME JobInv, NEW j \in JobIds, Start(j) \/ Work(j)
  PROVE  \E new : OneJob(j, new)
BY EventTells, FinishTells, QuietSteps DEF Work
-----------------------------------------------------------------------------
(* A job that says nothing, or nothing to this stream. *)
LEMMA IdleSound ==
  ASSUME NEW s, NEW it, StreamSound(s, it), s.pc = "idle", NEW new
  PROVE  StreamSound(s, new)
BY DEF StreamSound

LEMMA QuietSound ==
  ASSUME NEW s, NEW it, StreamSound(s, it), NEW new, new.sequence = it.sequence,
         new.status = it.status \/ (it.status = "none" /\ new.status = "running")
  PROVE  StreamSound(s, new)
<1>1. CASE s.pc # "idle"
  <2>1. new.status = it.status /\ DueSound(s, it)
    BY <1>1 DEF StreamSound
  <2>2. DueSound(s, new)
    BY <2>1 DEF DueSound
  <2>. QED BY <1>1, <2>1, <2>2 DEF StreamSound
<1>. QED BY <1>1, IdleSound

LEMMA DueType ==
  ASSUME NEW s \in StreamStates
  PROVE  /\ s.written \in Seq(Events) /\ s.past \in Seq(Events) /\ s.channel \in Seq(Events)
         /\ s.written \o s.past \in Seq(Events) /\ s.past \o s.channel \in Seq(Events)
         /\ DueOf(s) \in Seq(Events)
         /\ DueOf(s) = s.written \o (s.past \o s.channel)
<1>1. s.written \in Seq(Events) /\ s.past \in Seq(Events) /\ s.channel \in Seq(Events)
  BY DEF StreamStates
<1>2. s.written \o s.past \in Seq(Events) /\ s.past \o s.channel \in Seq(Events)
  BY <1>1, ConcatProperties
<1>3. DueOf(s) \in Seq(Events)
  BY <1>1, <1>2, ConcatProperties DEF DueOf
<1>4. (s.written \o s.past) \o s.channel = s.written \o (s.past \o s.channel)
  <2>. DEFINE w == s.written  p == s.past  c == s.channel
  <2>1. w \in Seq(Events) /\ p \in Seq(Events) /\ c \in Seq(Events)
    BY <1>1
  <2>. HIDE DEF w, p, c
  <2>2. (w \o p) \o c = w \o (p \o c)
    BY <2>1, ConcatAssociative
  <2>. QED BY <2>2 DEF w, p, c
<1>. QED BY <1>1, <1>2, <1>3, <1>4 DEF DueOf

LEMMA UntoldSound ==
  ASSUME NEW s \in StreamStates, NEW it \in JobStates, StreamSound(s, it), ~s.subscribed,
         it.status = "running", NEW new, new.sequence = it.sequence + 1,
         new.status \in Statuses \ {"none"}
  PROVE  StreamSound(s, new)
<1>1. CASE s.pc # "idle"
  <2>. DEFINE due == DueOf(s)
  <2>1. /\ DueSound(s, it) /\ s.from <= it.sequence /\ it.status \notin Final
        /\ due \in Seq(Events) /\ it.sequence \in Nat /\ s.from \in Nat
    BY <1>1, DueType DEF StreamSound, StreamStates, JobStates, Final
  <2>2. s.pc \in {"writing", "ended"} => s.left
    BY <2>1 DEF DueSound
  <2>3. \A i \in DOMAIN due : due[i].number \in Nat
    <3>. HIDE DEF due
    <3>1. \A i \in DOMAIN due : due[i] \in Events
      BY <2>1, SeqFacts
    <3>. QED BY <3>1 DEF Events
  <2>4. /\ \A i \in 1..Len(due)-1 : due[i].number < due[i+1].number
        /\ \A i \in DOMAIN due : due[i].number <= it.sequence
        /\ StatusLast(due, it.status)
    BY <2>1 DEF DueSound
  <2>. HIDE DEF due
  <2>5. \A i \in DOMAIN due : due[i].number <= it.sequence + 1
    BY <2>1, <2>3, <2>4
  <2>6. StatusLast(due, new.status)
    BY <2>1, <2>4 DEF StatusLast
  <2>7. DueSound(s, new)
    BY <2>2, <2>4, <2>5, <2>6 DEF DueSound, due
  <2>8. s.from <= new.sequence
    BY <2>1
  <2>. QED BY <1>1, <2>7, <2>8 DEF StreamSound
<1>. QED BY <1>1, IdleSound

LEMMA ToldSound ==
  ASSUME NEW s \in StreamStates, NEW it \in JobStates, StreamSound(s, it), s.subscribed,
         it.status = "running",
         NEW event \in Events, event.number = it.sequence + 1,
         NEW new \in JobStates, new.sequence = it.sequence + 1,
         NEW ending \in BOOLEAN,
         IF ending THEN event.kind = new.status /\ new.status \in Final
                   ELSE event.kind \notin Final /\ new.status = "running"
  PROVE  LET r == IF ending THEN Closed(Offer(s, event)) ELSE Offer(s, event) IN
         r \in StreamStates /\ r.job = s.job /\ StreamSound(r, new)
<1>0. /\ Offered(s, event, Offer(s, event)) /\ Offered(s, event, Closed(Offer(s, event)))
      /\ Offer(s, event).subscribed = s.subscribed
      /\ Closed(Offer(s, event)).subscribed = FALSE
  BY ONLY OfferEffect, s \in StreamStates, event \in Events
<1>. DEFINE r == IF ending THEN Closed(Offer(s, event)) ELSE Offer(s, event)
<1>1. /\ s.pc = "writing" /\ s.job # NoJob /\ DueSound(s, it) /\ s.from <= it.sequence
      /\ it.status \notin Final
  BY DEF StreamSound, Final
<1>2. Offered(s, event, r) /\ r.subscribed = IF ending THEN FALSE ELSE TRUE
  <2>1. CASE ending
    <3>1. r = Closed(Offer(s, event))
      BY <2>1
    <3>. HIDE DEF r
    <3>. QED BY <1>0, <2>1, <3>1
  <2>2. CASE ~ending
    <3>1. r = Offer(s, event) /\ s.subscribed = TRUE
      BY <2>2 DEF StreamStates
    <3>. HIDE DEF r
    <3>. QED BY <1>0, <2>2, <3>1
  <2>. QED BY <2>1, <2>2
<1>. HIDE DEF r
<1>3. DueSound(r, new)
  <2>1. /\ event.kind \in Final => event.kind = new.status
        /\ r.subscribed \/ new.status \in Final
    BY <1>2
  <2>. QED BY <1>1, <1>2, <2>1, DueGrows DEF Offered
<1>4. s.from <= new.sequence
  BY <1>1 DEF StreamStates, JobStates
<1>5. new.status # "none" /\ (r.subscribed => new.status = "running")
  BY <1>2 DEF Final
<1>6. StreamSound(r, new)
  BY <1>1, <1>2, <1>3, <1>4, <1>5 DEF StreamSound, Offered
<1>. QED BY <1>2, <1>6 DEF Offered, r

LEMMA JobStepSound ==
  ASSUME StreamInv, ListInv', NEW j \in JobIds, NEW new, OneJob(j, new)
  PROVE  StreamInv'
<1>1. /\ job \in [JobIds -> JobStates] /\ stream \in [Streams -> StreamStates]
      /\ new \in JobStates /\ job' = [job EXCEPT ![j] = new] /\ job[j] \in JobStates
      /\ LogSound(job[j])
  BY DEF StreamInv, ListInv, JobInv, OneJob
<1>2. \A i \in JobIds : job'[i] = IF i = j THEN new ELSE job[i]
  BY <1>1
<1>3. ASSUME NEW f \in Streams, stream'[f] = stream[f], stream[f].job # j
      PROVE  StreamSound(stream'[f], job'[stream'[f].job])
  <2>. DEFINE s == stream[f]
  <2>1. s \in StreamStates /\ StreamSound(s, job[s.job])
    BY <1>1 DEF StreamInv
  <2>2. CASE s.pc = "idle"
    BY <1>3, <2>1, <2>2, IdleSound
  <2>3. CASE s.pc # "idle"
    <3>1. s.job \in JobIds
      BY <2>1, <2>3 DEF StreamSound, StreamStates
    <3>. QED BY <1>2, <1>3, <2>1, <3>1
  <2>. QED BY <2>2, <2>3
<1>4. CASE Quiet(j, new)
  <2>1. LogSound(new)
    BY <1>1, <1>4 DEF Quiet, LogSound, StatusLast, Final
  <2>2. ASSUME NEW f \in Streams PROVE StreamSound(stream'[f], job'[stream'[f].job])
    <3>1. stream'[f] = stream[f] /\ StreamSound(stream[f], job[stream[f].job])
      BY <1>4 DEF Quiet, StreamInv
    <3>2. CASE stream[f].job = j
      <4>1. StreamSound(stream[f], new)
        BY <1>4, <3>1, <3>2, QuietSound DEF Quiet
      <4>. QED BY <1>2, <3>1, <3>2, <4>1
    <3>. QED BY <1>3, <3>1, <3>2
  <2>3. stream' \in [Streams -> StreamStates]
    BY <1>1, <1>4 DEF Quiet
  <2>4. \A i \in JobIds : LogSound(job'[i])
    BY <1>2, <2>1 DEF StreamInv
  <2>. QED BY <2>2, <2>3, <2>4 DEF StreamInv
<1>5. ASSUME NEW event \in Events, NEW ending \in BOOLEAN, Tells(j, new, event, ending)
      PROVE  StreamInv'
  <2>1. LogSound(new)
    <3>1. event.kind \in Final => event.kind = new.status
      BY <1>5 DEF Tells
    <3>2. job[j].status \notin Final
      BY <1>5 DEF Tells, Final
    <3>. QED BY <1>1, <1>5, <3>1, <3>2, EventSound DEF Tells
  <2>2. ASSUME NEW f \in Streams
        PROVE  /\ stream'[f] \in StreamStates
               /\ StreamSound(stream'[f], job'[stream'[f].job])
    <3>. DEFINE s == stream[f]
                r == IF ending THEN Closed(Offer(s, event)) ELSE Offer(s, event)
    <3>1. s \in StreamStates /\ StreamSound(s, job[s.job])
      BY <1>1 DEF StreamInv
    <3>2. stream'[f] = IF Subscribed(f, j) THEN r ELSE s
      BY <1>5 DEF Tells
    <3>3. CASE s.job = j /\ s.subscribed
      <4>1. r \in StreamStates /\ r.job = s.job /\ StreamSound(r, new)
        BY <1>1, <1>5, <3>1, <3>3, ToldSound DEF Tells
      <4>2. stream'[f] = r
        BY <3>2, <3>3 DEF Subscribed
      <4>. HIDE DEF r
      <4>. QED BY <1>2, <3>3, <4>1, <4>2
    <3>4. CASE s.job = j /\ ~s.subscribed
      <4>1. new.status \in Statuses \ {"none"}
        BY <1>5 DEF Tells, Statuses, Final
      <4>2. StreamSound(s, new)
        BY <1>1, <1>5, <3>1, <3>4, <4>1, UntoldSound DEF Tells
      <4>3. stream'[f] = s
        BY <3>2, <3>4 DEF Subscribed
      <4>. QED BY <1>2, <3>1, <3>4, <4>2, <4>3
    <3>5. CASE s.job # j
      <4>1. stream'[f] = s
        BY <3>2, <3>5 DEF Subscribed
      <4>. QED BY <1>3, <3>1, <3>5, <4>1
    <3>. QED BY <3>3, <3>4, <3>5
  <2>3. stream' = [f \in Streams |-> stream'[f]]
    BY <1>5 DEF Tells
  <2>4. stream' \in [Streams -> StreamStates]
    BY <2>2, <2>3
  <2>5. \A i \in JobIds : LogSound(job'[i])
    BY <1>2, <2>1 DEF StreamInv
  <2>. QED BY <2>2, <2>4, <2>5 DEF StreamInv
<1>. QED BY <1>4, <1>5 DEF OneJob, Speaks
-----------------------------------------------------------------------------
(***************************************************************************)
(* The streams' steps.                                                     *)
(***************************************************************************)
LEMMA FollowerMoves ==
  ASSUME StreamInv, NEW f \in Streams, NEW s \in StreamStates, StreamSound(s, job[s.job]),
         stream' = [stream EXCEPT ![f] = s], UNCHANGED <<job, order, known>>
  PROVE  StreamInv'
<1>1. ListInv'
  BY DEF StreamInv, ListInv, JobInv, Started, ManagerAgrees
<1>2. stream' \in [Streams -> StreamStates] /\ \A j \in JobIds : LogSound(job'[j])
  BY DEF StreamInv
<1>3. ASSUME NEW g \in Streams PROVE StreamSound(stream'[g], job'[stream'[g].job])
  BY DEF StreamInv
<1>. QED BY <1>1, <1>2, <1>3 DEF StreamInv

LEMMA EmptyDue ==
  ASSUME NEW s, NEW it, s.written = <<>>, s.past = <<>>, s.channel = <<>>,
         s.pc \notin {"writing", "ended"}
  PROVE  DueSound(s, it)
<1>1. DueOf(s) = <<>>
  BY DEF DueOf
<1>. QED BY <1>1 DEF DueSound, StatusLast

LEMMA FindSound ==
  ASSUME StreamInv, NEW f \in Streams, NEW j \in JobIds, Find(f, j)
  PROVE  StreamInv'
<1>1. /\ stream[f] \in StreamStates /\ StreamSound(stream[f], job[stream[f].job])
      /\ stream[f].pc = "idle" /\ job[j] \in JobStates
      /\ UNCHANGED <<job, order, known>>
  BY DEF StreamInv, ListInv, JobInv, Find
<1>2. PICK n \in Afters :
        stream' = [stream EXCEPT ![f].pc = "found", ![f].job = j, ![f].after = n]
  BY DEF Find
<1>. DEFINE s == [stream[f] EXCEPT !.pc = "found", !.job = j, !.after = n]
<1>3. n \in Int
  BY AftersAssumption
<1>4. /\ s \in StreamStates /\ s.pc = "found" /\ s.job = j /\ s.from = 0
      /\ s.written = <<>> /\ s.past = <<>> /\ s.channel = <<>> /\ ~s.subscribed /\ ~s.left
  BY <1>1, <1>3 DEF StreamSound, StreamStates
<1>5. stream' = [stream EXCEPT ![f] = s]
  BY <1>1, <1>2 DEF StreamInv
<1>. HIDE DEF s
<1>6. job[j].status # "none"
  <2>1. PICK i \in DOMAIN order : order[i] = j
    BY DEF Find, StreamInv, ListInv, ManagerAgrees
  <2>. QED BY <2>1 DEF StreamInv, ListInv, Started, JobInv, JobSound
<1>7. StreamSound(s, job[j])
  <2>1. s.from <= job[j].sequence
    BY <1>1, <1>4 DEF JobStates
  <2>. QED BY <1>4, <1>6, <2>1, EmptyDue, NoJobAssumption DEF StreamSound
<1>. QED BY <1>1, <1>4, <1>5, <1>7, FollowerMoves

(* What Job.Subscribe copies for one who has seen the events up to a. *)
LEMMA LaterFacts ==
  ASSUME NEW it \in JobStates, LogSound(it), NEW a \in Nat, a <= it.sequence
  PROVE  LET r == Later(it.log, a) IN
         /\ r \in Seq(Events) /\ Upto(r, it.sequence) /\ StatusLast(r, it.status)
         /\ Len(r) <= it.sequence - a
         /\ a + LogCap >= it.sequence => Len(r) = it.sequence - a
<1>1. PICK n \in Nat, q \in Nat, cap \in Nat \ {0} :
        n = Len(it.log) /\ q = it.sequence /\ cap = LogCap
  BY LenProperties, CapsAssumption DEF JobStates
<1>2. /\ it.log \in Seq(Events) /\ DOMAIN it.log = 1..n
      /\ n <= q /\ (n >= cap \/ n = q) /\ a <= q
      /\ \A i \in 1..n : it.log[i].number = q - n + i
      /\ \A i \in 1..n : it.log[i].kind \in Final => i = n /\ it.log[i].kind = it.status
  <2>1. it.log \in Seq(Events)
    BY DEF JobStates
  <2>2. DOMAIN it.log = 1..n
    BY <1>1, <2>1, SeqFacts
  <2>. QED BY <1>1, <2>1, <2>2 DEF LogSound, Upto, StatusLast
<1>3. PICK c \in 0..n : c = IF n <= q - a THEN n ELSE q - a
  <2>1. (IF n <= q - a THEN n ELSE q - a) \in 0..n
    BY <1>2
  <2>. QED BY <2>1
<1>. DEFINE places == {i \in DOMAIN it.log : it.log[i].number > a}
            r == Later(it.log, a)
<1>4. places = (n - c + 1)..n
  <2>1. ASSUME NEW i \in 1..n PROVE it.log[i].number > a <=> i \in (n - c + 1)..n
    <3>1. it.log[i].number = q - n + i
      BY <1>2
    <3>2. q - n + i > a <=> i >= n - c + 1
      BY <1>2, <1>3
    <3>. QED BY <3>1, <3>2
  <2>2. (n - c + 1)..n \subseteq 1..n
    OBVIOUS
  <2>. QED BY <1>2, <2>1, <2>2
<1>. HIDE DEF places
<1>5. r = EntriesAt(it.log, (n - c + 1)..n)
  BY <1>4 DEF Later, places
<1>6. r \in Seq(Events) /\ Len(r) = c /\ \A k \in 1..c : r[k] = it.log[n - c + k]
  <2>. DEFINE log == it.log
  <2>1. log \in Seq(Events) /\ c \in 0..Len(log) /\ n = Len(log) /\ r = EntriesAt(log, (n - c + 1)..n)
    BY <1>1, <1>2, <1>5
  <2>. HIDE DEF log, r
  <2>2. r \in Seq(Events) /\ Len(r) = c /\ \A k \in 1..c : r[k] = log[n - c + k]
    BY <2>1, LastEntries
  <2>. QED BY <2>2 DEF log
<1>. HIDE DEF r
<1>7. DOMAIN r = 1..c
  BY <1>6, SeqFacts
<1>8. \A k \in 1..c : /\ n - c + k \in 1..n /\ q - n + (n - c + k) = q - c + k
                      /\ n - c + k = n => k = c
  BY <1>3
<1>9. ASSUME NEW k \in 1..c
      PROVE  /\ r[k].number = q - c + k
             /\ r[k].kind \in Final => k = c /\ r[k].kind = it.status
  <2>1. PICK i \in 1..n : i = n - c + k /\ q - n + i = q - c + k /\ (i = n => k = c)
    BY <1>8
  <2>2. r[k] = it.log[i]
    BY <1>6, <2>1
  <2>. QED BY <1>2, <2>1, <2>2
<1>10. c <= q - a /\ (a + cap >= q => c = q - a)
  BY <1>2, <1>3
<1>. QED BY <1>1, <1>6, <1>7, <1>9, <1>10 DEF Upto, StatusLast, r

(* Any integer picks the events that its nearest number of an event, or 0, *)
(* picks.                                                                  *)
LEMMA LaterSeen ==
  ASSUME NEW it \in JobStates, LogSound(it), NEW s \in StreamStates, s.from = it.sequence
  PROVE  Later(it.log, s.after) = Later(it.log, Seen(s))
<1>1. PICK n \in Nat, q \in Nat : n = Len(it.log) /\ q = it.sequence /\ n <= q
  BY LenProperties DEF JobStates, LogSound
<1>2. DOMAIN it.log = 1..n /\ \A i \in 1..n : it.log[i].number = q - n + i
  <2>1. it.log \in Seq(Events)
    BY DEF JobStates
  <2>2. DOMAIN it.log = 1..n
    BY <1>1, <2>1, SeqFacts
  <2>. QED BY <1>1, <2>2 DEF LogSound, Upto
<1>3. PICK a \in Int : a = s.after
  BY DEF StreamStates
<1>4. PICK b \in 0..q : b = Seen(s)
  BY <1>1, SeenType
<1>5. \/ a < 0 /\ b = 0
      \/ a > q /\ b = q
      \/ a = b
  <2>1. s.from = q
    BY <1>1
  <2>2. b = IF a < 0 THEN 0 ELSE IF a > q THEN q ELSE a
    BY <1>3, <1>4, <2>1 DEF Seen
  <2>. QED BY <2>2
<1>6. \A m \in 1..q : m > a <=> m > b
  BY <1>5
<1>7. \A i \in 1..n : it.log[i].number \in 1..q
  BY <1>1, <1>2
<1>. QED BY <1>2, <1>3, <1>4, <1>6, <1>7 DEF Later

LEMMA UptoOrdered ==
  ASSUME NEW s \in Seq(Events), NEW last \in Nat, Upto(s, last)
  PROVE  /\ \A i \in 1..Len(s)-1 : s[i].number < s[i+1].number
         /\ \A i \in DOMAIN s : s[i].number <= last
<1>1. PICK n \in Nat : n = Len(s)
  BY LenProperties
<1>2. DOMAIN s = 1..n /\ \A i \in 1..n : s[i].number = last - n + i
  <2>1. DOMAIN s = 1..n
    BY <1>1, SeqFacts
  <2>. QED BY <1>1, <2>1 DEF Upto
<1>3. \A i \in 1..n-1 : i \in 1..n /\ i + 1 \in 1..n /\ last - n + i < last - n + (i + 1)
  BY <1>1
<1>. QED BY <1>1, <1>2, <1>3

LEMMA SubscribeSound ==
  ASSUME StreamInv, NEW f \in Streams, Subscribe(f)
  PROVE  StreamInv'
<1>. DEFINE old == stream[f]
            it == job[old.job]
            past == Later(it.log, old.after)
            open == it.status = "running"
            s == [old EXCEPT !.pc = "writing", !.past = past, !.from = it.sequence,
                             !.subscribed = open]
<1>1. /\ old \in StreamStates /\ StreamSound(old, it) /\ old.pc = "found"
      /\ UNCHANGED <<job, order, known>>
      /\ stream' = [stream EXCEPT ![f] = s]
  BY DEF StreamInv, Subscribe
<1>2. /\ old.job \in JobIds /\ it.status # "none"
      /\ old.written = <<>> /\ old.channel = <<>> /\ ~old.left /\ old.after \in Int
  BY <1>1 DEF StreamSound, StreamStates
<1>3. it \in JobStates /\ LogSound(it) /\ it.sequence \in Nat
  BY <1>2 DEF StreamInv, ListInv, JobInv, JobStates
<1>0. past \in Seq(Events)
  <2>. DEFINE log == it.log
              t == [old EXCEPT !.from = it.sequence]
  <2>1. t \in StreamStates /\ t.from = it.sequence /\ t.after = old.after
    BY <1>1, <1>3 DEF StreamStates
  <2>2. Seen(t) \in Nat /\ Seen(t) <= it.sequence
    BY <2>1, SeenType
  <2>. HIDE DEF t, it
  <2>3. past = Later(it.log, Seen(t))
    BY <1>3, <2>1, LaterSeen
  <2>. HIDE DEF past
  <2>. QED BY <1>3, <2>2, <2>3, LaterFacts
<1>. HIDE DEF past
<1>5. /\ s \in StreamStates /\ s.pc = "writing" /\ s.past = past /\ s.subscribed = open
      /\ s.job = old.job /\ s.written = <<>> /\ s.channel = <<>> /\ s.after = old.after
      /\ s.from = it.sequence
  <2>1. open \in BOOLEAN
    OBVIOUS
  <2>. HIDE DEF open
  <2>. QED BY <1>0, <1>1, <1>2, <1>3, <2>1 DEF StreamStates
<1>. HIDE DEF s
<1>4. /\ past \in Seq(Events) /\ Upto(past, it.sequence) /\ StatusLast(past, it.status)
      /\ Len(past) <= it.sequence - Seen(s)
      /\ Seen(s) + LogCap >= it.sequence => Len(past) = it.sequence - Seen(s)
  <2>1. Seen(s) \in Nat /\ Seen(s) <= it.sequence
    BY <1>5, SeenType
  <2>. HIDE DEF it
  <2>2. past = Later(it.log, Seen(s))
    BY <1>3, <1>5, LaterSeen DEF past
  <2>. QED BY <1>3, <2>1, <2>2, LaterFacts
<1>6. DueOf(s) = past
  <2>1. DueOf(s) = <<>> \o past \o <<>>
    BY <1>5 DEF DueOf
  <2>2. <<>> \o past = past /\ past \o <<>> = past
    BY <1>4, SeqFacts
  <2>. QED BY <2>1, <2>2
<1>7. /\ \A i \in 1..Len(past)-1 : past[i].number < past[i+1].number
      /\ \A i \in DOMAIN past : past[i].number <= it.sequence
  BY <1>3, <1>4, UptoOrdered DEF JobStates
<1>8. open \/ it.status \in Final
  BY <1>2, <1>3 DEF JobStates, Statuses
<1>9. DueSound(s, it)
  BY <1>4, <1>5, <1>6, <1>7, <1>8 DEF DueSound
<1>10. StreamSound(s, it)
  <2>1. s.from <= it.sequence
    BY <1>3, <1>5
  <2>3. s.subscribed => it.status = "running"
    BY <1>5
  <2>2. s.job # NoJob
    BY <1>2, <1>5, NoJobAssumption
  <2>. HIDE DEF it, open
  <2>. QED BY <1>2, <1>5, <1>9, <2>1, <2>2, <2>3 DEF StreamSound
<1>. QED BY <1>1, <1>5, <1>10, FollowerMoves

(* A stream that writes has less to write and has written more. *)
LEMMA WritingSound ==
  ASSUME StreamInv, NEW f \in Streams, stream[f].pc = "writing",
         NEW s \in StreamStates, DueOf(s) = DueOf(stream[f]),
         s.job = stream[f].job, s.after = stream[f].after, s.from = stream[f].from,
         s.lost = stream[f].lost,
         \/ s.pc = "writing" /\ s.subscribed = stream[f].subscribed /\ s.left = stream[f].left
         \/ /\ s.pc = "ended" /\ ~s.subscribed
            /\ s.left \/ (s.left = stream[f].left /\ ~stream[f].subscribed),
         stream' = [stream EXCEPT ![f] = s], UNCHANGED <<job, order, known>>
  PROVE  StreamInv'
<1>. DEFINE old == stream[f]
            it == job[old.job]
<1>1. StreamSound(old, it)
  BY DEF StreamInv
<1>. HIDE DEF it
<1>2. DueSound(old, it) /\ it.status # "none" /\ old.from <= it.sequence /\ old.job # NoJob
  BY <1>1 DEF StreamSound
<1>3. DueSound(s, it)
  <2>1. Seen(s) = Seen(old)
    BY DEF Seen
  <2>. QED BY <1>2, <2>1 DEF DueSound
<1>4. StreamSound(s, it)
  BY <1>1, <1>2, <1>3 DEF StreamSound
<1>. QED BY <1>4, FollowerMoves DEF it

LEMMA WriteSteps ==
  ASSUME StreamInv, NEW f \in Streams, WritePast(f) \/ WriteNew(f)
  PROVE  StreamInv'
<1>. DEFINE old == stream[f]
<1>1. old \in StreamStates /\ old.pc = "writing" /\ UNCHANGED <<job, order, known>>
  BY DEF StreamInv, WritePast, WriteNew
<1>2. CASE WritePast(f)
  <2>. DEFINE w == Append(old.written, Head(old.past))
              p == Tail(old.past)
              s == [old EXCEPT !.past = p, !.written = w]
  <2>1. old.past # <<>> /\ stream' = [stream EXCEPT ![f] = s]
    BY <1>1, <1>2 DEF WritePast, StreamInv
  <2>2. /\ old.past \in Seq(Events) /\ old.written \in Seq(Events)
        /\ w \o p = old.written \o old.past
    BY <1>1, <2>1, DueType, HeadMoves
  <2>3. w \in Seq(Events) /\ p \in Seq(Events)
    BY <2>1, <2>2, HeadTailProperties, AppendProperties, EmptySeq
  <2>. HIDE DEF w, p
  <2>4. /\ s \in StreamStates /\ s.past = p /\ s.written = w /\ s.channel = old.channel
        /\ s.job = old.job /\ s.after = old.after /\ s.from = old.from /\ s.lost = old.lost
        /\ s.pc = "writing" /\ s.subscribed = old.subscribed /\ s.left = old.left
    BY <1>1, <2>3 DEF StreamStates
  <2>. HIDE DEF s
  <2>5. DueOf(s) = DueOf(old)
    BY <2>2, <2>4 DEF DueOf
  <2>. QED BY <1>1, <2>1, <2>4, <2>5, WritingSound
<1>3. CASE WriteNew(f)
  <2>. DEFINE w == Append(old.written, Head(old.channel))
              c == Tail(old.channel)
              s == [old EXCEPT !.channel = c, !.written = w]
  <2>1. old.past = <<>> /\ old.channel # <<>> /\ stream' = [stream EXCEPT ![f] = s]
    BY <1>1, <1>3 DEF WriteNew, StreamInv
  <2>2. /\ old.channel \in Seq(Events) /\ old.written \in Seq(Events)
        /\ w \o c = old.written \o old.channel
    BY <1>1, <2>1, DueType, HeadMoves
  <2>3. w \in Seq(Events) /\ c \in Seq(Events)
    BY <2>1, <2>2, HeadTailProperties, AppendProperties, EmptySeq
  <2>. HIDE DEF w, c
  <2>4. /\ s \in StreamStates /\ s.channel = c /\ s.written = w /\ s.past = <<>>
        /\ s.job = old.job /\ s.after = old.after /\ s.from = old.from /\ s.lost = old.lost
        /\ s.pc = "writing" /\ s.subscribed = old.subscribed /\ s.left = old.left
    BY <1>1, <2>1, <2>3 DEF StreamStates
  <2>. HIDE DEF s
  <2>5. w \o <<>> = w /\ old.written \o <<>> = old.written
    BY <2>2, <2>3, SeqFacts
  <2>6. DueOf(s) = DueOf(old)
    BY <2>1, <2>2, <2>4, <2>5 DEF DueOf
  <2>. QED BY <1>1, <2>1, <2>4, <2>6, WritingSound
<1>. QED BY <1>2, <1>3

LEMMA EndSteps ==
  ASSUME StreamInv, NEW f \in Streams, EndStream(f) \/ Leave(f)
  PROVE  StreamInv'
<1>. DEFINE old == stream[f]
<1>1. old \in StreamStates /\ old.pc = "writing" /\ UNCHANGED <<job, order, known>>
  BY DEF StreamInv, EndStream, Leave
<1>2. CASE EndStream(f)
  <2>. DEFINE s == [old EXCEPT !.pc = "ended"]
  <2>1. ~old.subscribed /\ stream' = [stream EXCEPT ![f] = s]
    BY <1>1, <1>2 DEF EndStream, StreamInv
  <2>2. /\ s \in StreamStates /\ DueOf(s) = DueOf(old) /\ ~s.subscribed
        /\ s.job = old.job /\ s.after = old.after /\ s.from = old.from /\ s.lost = old.lost
        /\ s.pc = "ended" /\ s.left = old.left
    BY <1>1, <2>1 DEF StreamStates, DueOf
  <2>. HIDE DEF s
  <2>. QED BY <1>1, <2>1, <2>2, WritingSound
<1>3. CASE Leave(f)
  <2>. DEFINE s == [Closed(old) EXCEPT !.pc = "ended", !.left = TRUE]
  <2>1. stream' = [stream EXCEPT ![f] = s]
    BY <1>3 DEF Leave
  <2>2. /\ s \in StreamStates /\ DueOf(s) = DueOf(old) /\ ~s.subscribed
        /\ s.job = old.job /\ s.after = old.after /\ s.from = old.from /\ s.lost = old.lost
        /\ s.pc = "ended" /\ s.left
    BY <1>1 DEF StreamStates, DueOf, Closed
  <2>3. /\ s.pc = "ended" /\ ~s.subscribed
        /\ s.left \/ (s.left = old.left /\ ~old.subscribed)
    BY <2>2
  <2>. HIDE DEF s
  <2>. QED BY <1>1, <2>1, <2>2, <2>3, WritingSound
<1>. QED BY <1>2, <1>3

LEMMA StreamStep ==
  ASSUME StreamInv, [Next]_vars
  PROVE  StreamInv'
<1>1. ListInv' /\ JobInv
  BY ListStep DEF StreamInv, ListInv
<1>2. ASSUME NEW j \in JobIds, Start(j) \/ Work(j) PROVE StreamInv'
  <2>1. \E new : OneJob(j, new)
    BY <1>1, <1>2, JobSteps
  <2>. QED BY <1>1, <2>1, JobStepSound
<1>3. ASSUME NEW f \in Streams, Handle(f) \/ Leave(f) PROVE StreamInv'
  BY <1>3, SubscribeSound, WriteSteps, EndSteps DEF Handle
<1>4. ASSUME NEW f \in Streams, NEW j \in JobIds, Find(f, j) PROVE StreamInv'
  BY <1>4, FindSound
<1>5. CASE UNCHANGED vars
  BY <1>1, <1>5 DEF StreamInv, vars
<1>. QED BY <1>2, <1>3, <1>4, <1>5 DEF Next

LEMMA StreamInit == Init => StreamInv
<1>. SUFFICES ASSUME Init PROVE StreamInv
  OBVIOUS
<1>1. ListInv
  BY ListInit
<1>. DEFINE none == [job |-> NoJob, pc |-> "idle", after |-> 0, from |-> 0, past |-> <<>>,
                     channel |-> <<>>, subscribed |-> FALSE, written |-> <<>>, lost |-> FALSE, left |-> FALSE]
<1>2. none \in StreamStates
  BY DEF StreamStates
<1>3. stream = [f \in Streams |-> none]
  BY DEF Init
<1>4. ASSUME NEW it PROVE StreamSound(none, it)
  BY DEF StreamSound
<1>5. ASSUME NEW j \in JobIds PROVE LogSound(job[j])
  <2>1. job[j].log = <<>> /\ job[j].sequence = 0
    BY DEF Init
  <2>. QED BY <2>1 DEF LogSound, Upto, StatusLast
<1>. HIDE DEF none
<1>. QED BY <1>1, <1>2, <1>3, <1>4, <1>5 DEF StreamInv

LEMMA StreamsSound == Spec => []StreamInv
<1>1. StreamInv /\ [Next]_vars => StreamInv'
  BY StreamStep
<1>. QED BY <1>1, StreamInit, PTL DEF Spec

(* The tables of jobs.go and the requests of handleJobEvents keep their    *)
(* types, whatever is logged, read and left.                               *)
THEOREM JobTypes == Spec => []TypeOK
<1>1. StreamInv => TypeOK
  <2>. SUFFICES ASSUME StreamInv PROVE TypeOK
    OBVIOUS
  <2>1. known \subseteq JobIds
    BY ElementOfSeq DEF StreamInv, ListInv, ManagerAgrees
  <2>. QED BY <2>1 DEF StreamInv, ListInv, JobInv, TypeOK
<1>. QED BY <1>1, StreamsSound, PTL

(* Job.Subscribe copies the log and registers the channel in one critical  *)
(* section (jobs.go 171-195): a stream whose channel never overflowed      *)
(* misses no event and repeats none, wherever among the job's events it    *)
(* subscribed and whatever integer it gave for "after", and lacks older    *)
(* ones only if the job no longer kept them.                               *)
THEOREM StreamsMissNothing == Spec => []FollowersMissNothing
<1>1. StreamInv => FollowersMissNothing
  <2>. SUFFICES ASSUME StreamInv, NEW f \in Streams, Running(f), ~stream[f].lost
                PROVE  LET due == Due(f)
                           last == job[stream[f].job].sequence
                           seen == Seen(stream[f]) IN
                       /\ \A i \in DOMAIN due : due[i].number = last - Len(due) + i
                       /\ Len(due) <= last - seen
                       /\ seen + LogCap >= stream[f].from => Len(due) = last - seen
    BY DEF FollowersMissNothing
  <2>1. DueSound(stream[f], job[stream[f].job]) /\ Due(f) = DueOf(stream[f])
    BY DEF StreamInv, StreamSound, Running, Due, DueOf
  <2>. QED BY <2>1 DEF DueSound, Upto, Running
<1>. QED BY <1>1, StreamsSound, PTL

LEMMA AllDue ==
  ASSUME StreamInv, NEW f \in Streams
  PROVE  Due(f) = <<>> \/ (DueSound(stream[f], job[stream[f].job]) /\ Due(f) = DueOf(stream[f]))
<1>1. StreamSound(stream[f], job[stream[f].job]) /\ Due(f) = DueOf(stream[f])
  BY DEF StreamInv, Due, DueOf
<1>2. CASE stream[f].pc = "idle"
  BY <1>1, <1>2 DEF StreamSound, DueOf
<1>. QED BY <1>1, <1>2 DEF StreamSound

(* A full channel drops events (jobs.go 134-139); what a stream gets is    *)
(* still in order, and nothing comes twice.                                *)
THEOREM StreamsKeepOrder == Spec => []FollowersInOrder
<1>1. StreamInv => FollowersInOrder
  BY AllDue DEF FollowersInOrder, DueSound
<1>. QED BY <1>1, StreamsSound, PTL

(* Job.finish logs the status and closes the channels in one critical      *)
(* section (jobs.go 142-160): a status is the last event of a stream, and  *)
(* it is the job's own.                                                    *)
THEOREM StatusEndsStreams == Spec => []StatusComesLast
<1>1. StreamInv => StatusComesLast
  <2>. SUFFICES ASSUME StreamInv, NEW f \in Streams
                PROVE  StatusLast(Due(f), job[stream[f].job].status)
    BY DEF StatusComesLast, StatusLast
  <2>1. CASE Due(f) = <<>>
    BY <2>1 DEF StatusLast
  <2>2. CASE Due(f) # <<>>
    BY <2>2, AllDue DEF DueSound
  <2>. QED BY <2>1, <2>2
<1>. QED BY <1>1, StreamsSound, PTL
=============================================================================
