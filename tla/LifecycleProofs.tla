-------------------------- MODULE LifecycleProofs --------------------------
(***************************************************************************)
(* Proofs about Lifecycle, for any number of processes and calls.  TypeOK  *)
(* and PidFileKept hold whatever happens.  The others speak of runs in     *)
(* which the script alone has started programs, one call after the other;  *)
(* for them, Inv says what the call at work knows: Where(c) relates its    *)
(* program counter to the Masters that live and to the pid file.           *)
(***************************************************************************)
EXTENDS Lifecycle, TLAPS

States == {"free", "started", "loaded", "bound", "emptied", "written", "serving",
           "told", "closing", "removed", "dead", "other"}

Types ==
  /\ proc \in [Pids -> States]
  /\ memory \in [Pids -> Nat] /\ disk \in Nat
  /\ pidfile \in Pids \cup {NoPid}
  /\ pid \in [Calls -> Pids \cup {NoPid}]
  /\ cmd \in [Calls -> {"none", "start", "stop", "restart"}]
  /\ pc \in [Calls -> {"new", "read", "check", "fork", "write", "sleep",
                       "term", "wait", "clean", "remove", "done"}]
  /\ said \in [Calls -> {"none", "already running", "started",
                         "failed to start", "stopped", "not running"}]

Known == {"check", "term"}
Held == {"write", "sleep", "wait"}
Clear == {"fork", "clean", "remove"}

\* The pid file names the Masters that live, or one is just writing it.
Named ==
  \A p \in Masters : pidfile = p \/ (pidfile = NoPid /\ proc[p] = "emptied")

\* What a call at work knows of the Masters that live.
Where(c) ==
  /\ pc[c] \in Known \cup {"read", "sleep"} => Named
  /\ pc[c] \in Known \cup Held => pid[c] \in Pids /\ Masters \subseteq {pid[c]}
  /\ pc[c] \in Clear => Masters = {}

OneCall == \A c, d \in AtWork : c = d

\* Only a call that waits for it has told a Master to end.
Told ==
  \A p \in Pids : proc[p] \in {"told", "closing", "removed"} =>
    \E c \in AtWork : pc[c] = "wait"

Fresh == \A p \in Masters : proc[p] # "started" => memory[p] = disk

OneMaster == \A p, q \in Masters : p = q

Inv ==
  /\ Types /\ OneCall /\ OneMaster /\ Told /\ Fresh
  /\ \A c \in AtWork : Where(c)
  /\ AtWork = {} => Named

LEMMA InitInv == Init => Inv
  BY NoPidAssumption
     DEF Init, Inv, Types, States, OneCall, OneMaster, Told, Fresh, Named, AtWork, Masters, Alive

\* A step that ends Masters or moves one on, and leaves the script alone.
LEMMA MasterMoves ==
  ASSUME Inv, UNCHANGED script, Types',
         Masters' \subseteq Masters,
         (Named => Named') \/ \E c \in AtWork : pc[c] = "wait",
         \A p \in Pids : proc'[p] \in {"told", "closing", "removed"} =>
           proc[p] \in {"told", "closing", "removed"},
         Fresh'
  PROVE  Inv'
<1> USE DEF script
<1>1. AtWork' = AtWork BY DEF AtWork
<1>2. OneCall' /\ OneMaster' BY <1>1 DEF Inv, OneCall, OneMaster
<1>3. Told' BY <1>1 DEF Inv, Told
<1>4. ASSUME NEW c \in AtWork PROVE Where(c)'
  <2>1. Where(c) /\ pc' = pc /\ pid' = pid BY <1>4 DEF Inv
  <2>2. CASE Named => Named'
    BY <2>1, <2>2 DEF Where
  <2>3. CASE \E d \in AtWork : pc[d] = "wait"
    <3>1. pc[c] = "wait" BY <1>4, <2>3 DEF Inv, OneCall
    <3> QED BY <2>1, <3>1 DEF Where, Known, Held, Clear
  <2> QED BY <2>2, <2>3
<1>5. AtWork' = {} => Named'
  BY <1>1 DEF Inv
<1> QED BY <1>1, <1>2, <1>3, <1>4, <1>5 DEF Inv

LEMMA MainKeepsInv ==
  ASSUME Inv, NEW p \in Pids, MainStep(p) \/ Save(p) \/ Kill(p) \/ Reuse(p) PROVE Inv'
<1> USE DEF Inv, Types, States, Masters, Alive, script
<1>1. CASE Load(p)
  <2>1. Types' /\ Masters' \subseteq Masters /\ UNCHANGED script BY <1>1 DEF Load, Move
  <2>2. p \in Masters BY <1>1 DEF Load, Move
  <2>3. Named => Named' BY <1>1 DEF Load, Move, Named
  <2>4. Fresh'
    <3>1. memory'[p] = disk' BY <1>1 DEF Load
    <3>2. \A q \in Masters' : q = p BY <2>1, <2>2 DEF OneMaster
    <3> HIDE DEF Inv, Types, Masters
    <3> QED BY <3>1, <3>2 DEF Fresh
  <2> HIDE DEF Inv, Types, Masters
  <2> QED BY <1>1, <2>1, <2>3, <2>4, MasterMoves DEF Load, Move, Inv, Types
<1>2. CASE Listen(p)
  <2>1. Types' /\ Masters' \subseteq Masters /\ UNCHANGED script BY <1>2 DEF Listen, Move
  <2>2. Fresh' BY <1>2 DEF Listen, Move, Fresh
  <2>3. Named => Named' BY <1>2 DEF Listen, Move, Named
  <2> HIDE DEF Inv, Types, Masters
  <2> QED BY <1>2, <2>1, <2>2, <2>3, MasterMoves DEF Listen, Move, Inv, Types
<1>3. CASE EmptyPid(p)
  <2>1. Types' /\ Masters' \subseteq Masters /\ UNCHANGED script BY <1>3 DEF EmptyPid, Move
  <2>2. Fresh' BY <1>3 DEF EmptyPid, Move, Fresh
  <2>3. Named'
    <3>1. p \in Masters BY <1>3 DEF EmptyPid, Move
    <3>2. \A q \in Masters' : q = p BY <2>1, <3>1 DEF OneMaster
    <3> QED BY <1>3, <3>2 DEF EmptyPid, Move, Named
  <2> HIDE DEF Inv, Types, Masters
  <2> QED BY <1>3, <2>1, <2>2, <2>3, MasterMoves DEF EmptyPid, Move, Inv, Types
<1>4. CASE WritePid(p)
  <2>1. Types' /\ Masters' \subseteq Masters /\ UNCHANGED script BY <1>4 DEF WritePid, Move
  <2>2. Fresh' BY <1>4 DEF WritePid, Move, Fresh
  <2>3. Named'
    <3>1. p \in Masters BY <1>4 DEF WritePid, Move
    <3>2. \A q \in Masters' : q = p BY <2>1, <3>1 DEF OneMaster
    <3> QED BY <1>4, <3>2 DEF WritePid, Move, Named
  <2> HIDE DEF Inv, Types, Masters
  <2> QED BY <1>4, <2>1, <2>2, <2>3, MasterMoves DEF WritePid, Move, Inv, Types
<1>5. CASE Serve(p)
  <2>1. Types' /\ Masters' \subseteq Masters /\ UNCHANGED script BY <1>5 DEF Serve, Move
  <2>2. Fresh' BY <1>5 DEF Serve, Move, Fresh
  <2>3. Named => Named' BY <1>5 DEF Serve, Move, Named
  <2> HIDE DEF Inv, Types, Masters
  <2> QED BY <1>5, <2>1, <2>2, <2>3, MasterMoves DEF Serve, Move, Inv, Types
<1>6. CASE Close(p)
  <2>1. Types' /\ Masters' \subseteq Masters /\ UNCHANGED script BY <1>6 DEF Close, Move
  <2>2. Fresh' BY <1>6 DEF Close, Move, Fresh
  <2>3. Named => Named' BY <1>6 DEF Close, Move, Named
  <2> HIDE DEF Inv, Types, Masters
  <2> QED BY <1>6, <2>1, <2>2, <2>3, MasterMoves DEF Close, Move, Inv, Types
<1>7. CASE RemovePid(p)
  <2>1. Types' /\ Masters' \subseteq Masters /\ UNCHANGED script BY <1>7 DEF RemovePid, Move
  <2>2. Fresh' BY <1>7 DEF RemovePid, Move, Fresh
  <2>3. \E c \in AtWork : pc[c] = "wait" BY <1>7 DEF RemovePid, Move, Told
  <2> HIDE DEF Inv, Types, Masters
  <2> QED BY <1>7, <2>1, <2>2, <2>3, MasterMoves DEF RemovePid, Move, Inv, Types
<1>8. CASE Exit(p)
  <2>1. Types' /\ Masters' \subseteq Masters /\ UNCHANGED script BY <1>8 DEF Exit, Move
  <2>2. Fresh' BY <1>8 DEF Exit, Move, Fresh
  <2>3. Named => Named' BY <1>8 DEF Exit, Move, Named
  <2> HIDE DEF Inv, Types, Masters
  <2> QED BY <1>8, <2>1, <2>2, <2>3, MasterMoves DEF Exit, Move, Inv, Types
<1>9. CASE Save(p)
  <2>0. UNCHANGED <<proc, pidfile, script>> BY <1>9 DEF Save
  <2>1. Types' /\ Masters' \subseteq Masters /\ UNCHANGED script
    <3>0. disk + 1 \in Nat
      <4>1. disk \in Nat OBVIOUS
      <4> HIDE DEF Inv, Types, Masters, Alive, States
      <4> QED BY ONLY <4>1
    <3>1. memory' \in [Pids -> Nat] /\ disk' \in Nat BY <1>9, <3>0 DEF Save
    <3> QED BY <2>0, <3>1
  <2>2. p \in Masters BY <1>9 DEF Save, Working
  <2>3. Named => Named' BY <2>0 DEF Named
  <2> HIDE DEF Inv, Types, Masters
  <2>4. \A q \in Masters : q = p BY <2>2 DEF Inv, OneMaster
  <2>5. Fresh' BY <1>9, <2>1, <2>4 DEF Save, Fresh, Inv, Types
  <2> QED BY <1>9, <2>1, <2>3, <2>5, MasterMoves DEF Save
<1>10. CASE Kill(p) \/ Reuse(p)
  <2>1. Types' /\ Masters' \subseteq Masters /\ UNCHANGED script
    BY <1>10 DEF Kill, Reuse, Move
  <2>2. Fresh'
    <3>1. /\ memory' = memory /\ disk' = disk
          /\ \A q \in Masters' : q \in Masters /\ proc'[q] = proc[q]
      BY <1>10 DEF Kill, Reuse, Move
    <3> HIDE DEF Inv, Types, Masters
    <3> QED BY <3>1 DEF Fresh, Inv
  <2>3. Named => Named'
    <3>1. pidfile' = pidfile /\ \A q \in Masters' : q \in Masters /\ proc'[q] = proc[q]
      BY <1>10 DEF Kill, Reuse, Move
    <3> HIDE DEF Inv, Types, Masters
    <3> QED BY <3>1 DEF Named
  <2>4. \A q \in Pids : proc'[q] \in {"dead", "other"} \/ proc'[q] = proc[q]
    BY <1>10 DEF Kill, Reuse, Move
  <2> HIDE DEF Inv, Types, Masters
  <2> QED BY <2>1, <2>2, <2>3, <2>4, MasterMoves
<1> QED BY <1>1, <1>2, <1>3, <1>4, <1>5, <1>6, <1>7, <1>8, <1>9, <1>10 DEF MainStep

\* A call that is at work, and no other.
LEMMA OnlyOne ==
  ASSUME Inv, NEW c \in Calls, pc[c] \notin {"new", "done"}
  PROVE  /\ AtWork = {c} /\ Where(c)
         /\ \A d \in Calls : d # c => pc[d] \in {"new", "done"}
  BY DEF Inv, OneCall, AtWork

\* A step of a call that changes only its own record keeps Inv when the
\* record still says what it knows.
LEMMA CallMoves ==
  ASSUME Inv, NEW c \in Calls, pc[c] \notin {"new", "done"}, Types',
         \A d \in Calls : d # c => pc'[d] = pc[d],
         Told', Fresh', OneMaster',
         pc'[c] \in {"new", "done"} => Named',
         pc'[c] \notin {"new", "done"} => Where(c)'
  PROVE  Inv'
<1>1. \A d \in Calls : d # c => pc'[d] \in {"new", "done"}
  BY OnlyOne
<1>2. AtWork' \subseteq {c}
  BY <1>1 DEF AtWork
<1>3. OneCall' BY <1>2 DEF OneCall
<1>4. \A d \in AtWork' : Where(d)'
  BY <1>2 DEF AtWork
<1>5. AtWork' = {} => Named'
  BY DEF AtWork
<1> QED BY <1>3, <1>4, <1>5 DEF Inv

LEMMA ScriptKeepsInv ==
  ASSUME Inv, NEW c \in Calls, ScriptStep(c), Undisturbed' PROVE Inv'
<1> USE DEF At, Goto, Printf, Say, Move
<1>0. Types /\ Told /\ Fresh /\ OneMaster BY DEF Inv
<1>1. CASE ReadPid(c)
  <2>1. Where(c) /\ \A d \in Calls : d # c => pc[d] \in {"new", "done"}
    BY <1>1, OnlyOne DEF ReadPid
  <2>2. Types' BY <1>0, <1>1 DEF ReadPid, Types, NotRunning
  <2>3. Masters' = Masters /\ Fresh' BY <1>0, <1>1 DEF ReadPid, Masters, Alive, Fresh
  <2>4. OneMaster' BY <1>0, <2>3 DEF OneMaster
  <2>5. Told' BY <1>0, <1>1, <2>1 DEF ReadPid, Told, AtWork
  <2>6. \A d \in Calls : d # c => pc'[d] = pc[d]
    BY <1>0, <1>1 DEF ReadPid, NotRunning, Types
  <2>7. Where(c)' /\ pc'[c] \notin {"new", "done"}
    <3>1. Named /\ Masters \subseteq Pids
      BY <1>1, <2>1 DEF ReadPid, Where, Masters, Alive
    <3>2. CASE pidfile = NoPid
      <4>1. ~Blank
        BY <1>1, <3>2 DEF ReadPid, Undisturbed
      <4>2. Masters' = {} BY <2>3, <3>1, <3>2, <4>1, NoPidAssumption DEF Named, Blank
      <4>3. pc'[c] \in {"fork", "clean"} BY <1>0, <1>1, <3>2 DEF ReadPid, NotRunning, Types
      <4> QED BY <4>2, <4>3 DEF Where, Known, Held, Clear
    <3>3. CASE pidfile # NoPid
      <4>1. /\ pc'[c] = "check" /\ pid'[c] = pidfile /\ pidfile' = pidfile /\ pidfile \in Pids
            /\ proc' = proc
        BY <1>0, <1>1, <3>3 DEF ReadPid, Types
      <4>2. Named' /\ Masters \subseteq {pidfile} BY <2>3, <3>1, <3>3, <4>1 DEF Named
      <4> QED BY <2>3, <4>1, <4>2 DEF Where, Known, Held, Clear
    <3> QED BY <3>2, <3>3
  <2> QED BY <1>1, <2>2, <2>3, <2>4, <2>5, <2>6, <2>7, CallMoves DEF ReadPid
<1>2. CASE Check(c)
  <2>1. Where(c) /\ \A d \in Calls : d # c => pc[d] \in {"new", "done"}
    BY <1>2, OnlyOne DEF Check
  <2>2. Types' BY <1>0, <1>2 DEF Check, Types, NotRunning, IsRunning
  <2>3. Masters' = Masters /\ Fresh' BY <1>0, <1>2 DEF Check, Masters, Alive, Fresh
  <2>4. OneMaster' BY <1>0, <2>3 DEF OneMaster
  <2>5. Told' BY <1>0, <1>2, <2>1 DEF Check, Told, AtWork
  <2>6. \A d \in Calls : d # c => pc'[d] = pc[d]
    BY <1>0, <1>2 DEF Check, NotRunning, IsRunning, Types
  <2>7. Named /\ pid[c] \in Pids /\ Masters \subseteq {pid[c]}
    BY <1>2, <2>1 DEF Check, Where, Known
  <2>8. Named' BY <1>2, <2>3, <2>7 DEF Check, Named
  <2>9. pc'[c] \notin {"new", "done"} => Where(c)'
    <3>1. pid'[c] = pid[c] BY <1>2 DEF Check
    <3>2. CASE pid[c] \in Alive
      <4>1. pc'[c] \in {"term", "done"} BY <1>0, <1>2, <3>2 DEF Check, IsRunning, Types
      <4> QED BY <2>3, <2>7, <2>8, <3>1, <4>1 DEF Where, Known, Held, Clear
    <3>3. CASE pid[c] \notin Alive
      <4>1. pc'[c] \in {"fork", "clean"} BY <1>0, <1>2, <3>3 DEF Check, NotRunning, Types
      <4>2. Masters' = {} BY <2>3, <2>7, <3>3 DEF Masters
      <4> QED BY <4>1, <4>2 DEF Where, Known, Held, Clear
    <3> QED BY <3>2, <3>3
  <2> QED BY <1>2, <2>2, <2>3, <2>4, <2>5, <2>6, <2>8, <2>9, CallMoves DEF Check
<1>3. CASE Fork(c)
  <2>1. PICK p \in Pids : /\ proc[p] = "free" /\ proc' = [proc EXCEPT ![p] = "started"]
                          /\ pc' = [pc EXCEPT ![c] = "write"] /\ pid' = [pid EXCEPT ![c] = p]
                          /\ UNCHANGED <<memory, disk, pidfile, cmd, said>>
    BY <1>3 DEF Fork
  <2>2. Where(c) /\ \A d \in Calls : d # c => pc[d] \in {"new", "done"}
    BY <1>3, OnlyOne DEF Fork
  <2>3. Masters = {} BY <1>3, <2>2 DEF Fork, Where, Clear
  <2>4. Types' BY <1>0, <2>1 DEF Types, States
  <2>5. Masters' = {p} BY <1>0, <2>1, <2>3 DEF Types, Masters, Alive
  <2>6. Fresh' /\ OneMaster' BY <1>0, <2>1, <2>5 DEF Fresh, Types, OneMaster
  <2>7. Told' BY <1>0, <2>1, <2>3 DEF Told, Masters, Alive, Types
  <2>8. pc'[c] = "write" /\ pid'[c] = p BY <1>0, <2>1 DEF Types
  <2>9. Where(c)' BY <2>5, <2>8 DEF Where, Known, Held, Clear
  <2>10. \A d \in Calls : d # c => pc'[d] = pc[d] BY <1>0, <2>1 DEF Types
  <2> QED BY <1>3, <2>4, <2>6, <2>7, <2>8, <2>9, <2>10, CallMoves DEF Fork
<1>4. CASE ScriptWritesPid(c)
  <2>1. Where(c) /\ \A d \in Calls : d # c => pc[d] \in {"new", "done"}
    BY <1>4, OnlyOne DEF ScriptWritesPid
  <2>2. pid[c] \in Pids /\ Masters \subseteq {pid[c]}
    BY <1>4, <2>1 DEF ScriptWritesPid, Where, Held
  <2>3. Types' BY <1>0, <1>4, <2>2 DEF ScriptWritesPid, Types
  <2>4. Masters' = Masters /\ Fresh' BY <1>0, <1>4 DEF ScriptWritesPid, Masters, Alive, Fresh
  <2>5. Told' BY <1>0, <1>4, <2>1 DEF ScriptWritesPid, Told, AtWork
  <2>6. pc'[c] = "sleep" /\ pid'[c] = pid[c] /\ pidfile' = pid[c]
    BY <1>0, <1>4 DEF ScriptWritesPid, Types
  <2>7. Named' BY <2>2, <2>4, <2>6 DEF Named
  <2>8. Where(c)'
    BY <2>2, <2>4, <2>6, <2>7 DEF Where, Known, Held, Clear
  <2>9. \A d \in Calls : d # c => pc'[d] = pc[d] BY <1>0, <1>4 DEF ScriptWritesPid, Types
  <2>10. OneMaster' BY <1>0, <2>4 DEF OneMaster
  <2> QED BY <1>4, <2>3, <2>4, <2>5, <2>6, <2>8, <2>9, <2>10, CallMoves DEF ScriptWritesPid
<1>5. CASE Started(c)
  <2>1. Where(c) /\ \A d \in Calls : d # c => pc[d] \in {"new", "done"}
    BY <1>5, OnlyOne DEF Started
  <2>2. Types' BY <1>0, <1>5 DEF Started, Types
  <2>3. Masters' = Masters /\ Fresh' BY <1>0, <1>5 DEF Started, Masters, Alive, Fresh
  <2>4. Told' BY <1>0, <1>5, <2>1 DEF Started, Told, AtWork
  <2>5. pc'[c] = "done" BY <1>0, <1>5 DEF Started, Types
  <2>6. Named'
    <3>1. Named /\ Masters \subseteq {pid[c]}
      BY <1>5, <2>1 DEF Started, Where, Held
    <3>2. pid[c] \notin Alive => Masters = {} BY <3>1 DEF Masters
    <3>3. proc' = proc /\ (pid[c] \in Alive => pidfile' = pidfile) BY <1>5 DEF Started
    <3> QED BY <2>3, <3>1, <3>2, <3>3 DEF Named
  <2>7. \A d \in Calls : d # c => pc'[d] = pc[d] BY <1>0, <1>5 DEF Started, Types
  <2>8. OneMaster' BY <1>0, <2>3 DEF OneMaster
  <2> QED BY <1>5, <2>2, <2>3, <2>4, <2>5, <2>6, <2>7, <2>8, CallMoves DEF Started
<1>6. CASE Terminate(c) \/ Wait(c)
  <2>1. Where(c) /\ \A d \in Calls : d # c => pc[d] \in {"new", "done"}
    BY <1>6, OnlyOne DEF Terminate, Wait
  <2> DEFINE p == pid[c]
  <2>2. p \in Pids /\ Masters \subseteq {p}
    BY <1>6, <2>1 DEF Terminate, Wait, Where, Known, Held
  <2>3. /\ proc'[p] \in {"told", "closing", "removed", "dead"}
        /\ proc'[p] = "told" => proc[p] \in {"serving", "told"}
        /\ proc'[p] \in {"closing", "removed"} => proc'[p] = proc[p]
        /\ proc' = [proc EXCEPT ![p] = proc'[p]]
        /\ UNCHANGED <<memory, disk, pidfile>>
    BY <1>0, <1>6, <2>2 DEF Terminate, Wait, Types, States
  <2>4. Types'
    <3>1. proc' \in [Pids -> States]
      <4>1. proc \in [Pids -> States] BY <1>0 DEF Types
      <4>2. proc'[p] \in States BY <2>3 DEF States
      <4> HIDE DEF p
      <4> QED BY <2>2, <2>3, <4>1, <4>2
    <3>2. UNCHANGED <<memory, disk, pidfile, pid, cmd, said>> BY <1>6 DEF Terminate, Wait
    <3>3. PICK where \in {"wait", "remove"} : pc' = [pc EXCEPT ![c] = where]
      BY <1>6 DEF Terminate, Wait
    <3> QED BY <1>0, <3>1, <3>2, <3>3 DEF Types
  <2>5. Masters' \subseteq Masters
    BY <1>0, <2>2, <2>3 DEF Masters, Alive, Types
  <2>6. Fresh'
    <3>1. \A q \in Masters' : q \in Masters /\ q = p BY <2>2, <2>5
    <3>2. p \in Masters' => (proc'[p] # "started" => proc[p] # "started")
      BY <2>3 DEF Masters, Alive
    <3> HIDE DEF p
    <3> QED BY <1>0, <2>3, <3>1, <3>2 DEF Fresh
  <2>7. \A d \in Calls : d # c => pc'[d] = pc[d]
    BY <1>0, <1>6 DEF Terminate, Wait, Types
  <2>8. pid'[c] = p /\ pc'[c] = IF Terminate(c) THEN "wait" ELSE "remove"
    BY <1>0, <1>6 DEF Terminate, Wait, Types
  <2>11. OneMaster' BY <1>0, <2>5 DEF OneMaster
  <2>9. CASE Terminate(c)
    <3>1. Where(c)' BY <2>2, <2>5, <2>8, <2>9 DEF Where, Known, Held, Clear
    <3>2. Told' BY <2>8, <2>9 DEF Told, AtWork
    <3> QED BY <2>4, <2>6, <2>7, <2>8, <2>9, <2>11, <3>1, <3>2, CallMoves DEF Terminate
  <2>10. CASE Wait(c)
    <3>1. Masters' = {}
      <4>1. proc'[p] = "dead" BY <1>0, <2>2, <2>10 DEF Wait, Types
      <4>2. p \notin Masters' BY <4>1 DEF Masters, Alive
      <4> HIDE DEF p
      <4> QED BY <2>2, <2>5, <4>2
    <3>2. Told' BY <1>0, <2>4, <3>1 DEF Told, Masters, Alive, Types
    <3>3. pc'[c] = "remove" BY <1>0, <2>10 DEF Wait, Types
    <3>4. Where(c)' BY <3>1, <3>3 DEF Where, Known, Held, Clear
    <3> QED BY <2>4, <2>6, <2>7, <2>10, <2>11, <3>2, <3>3, <3>4, CallMoves DEF Wait
  <2> QED BY <1>6, <2>9, <2>10
<1>7. CASE ScriptRemovesPid(c)
  <2>1. Where(c) /\ \A d \in Calls : d # c => pc[d] \in {"new", "done"}
    BY <1>7, OnlyOne DEF ScriptRemovesPid
  <2>2. Masters = {} /\ Masters' = {}
    BY <1>7, <2>1 DEF ScriptRemovesPid, Where, Clear, Masters, Alive
  <2>3. Types' BY <1>0, <1>7 DEF ScriptRemovesPid, StopEnds, Types
  <2>4. Fresh' /\ OneMaster' /\ Named' BY <2>2 DEF Fresh, OneMaster, Named
  <2>5. Told' BY <1>0, <1>7, <2>2 DEF ScriptRemovesPid, Told, Masters, Alive, Types
  <2>6. pc'[c] \in {"done", "read"} BY <1>0, <1>7 DEF ScriptRemovesPid, StopEnds, Types
  <2>7. Where(c)' BY <2>2, <2>4, <2>6 DEF Where, Known, Held, Clear
  <2>8. \A d \in Calls : d # c => pc'[d] = pc[d]
    BY <1>0, <1>7 DEF ScriptRemovesPid, StopEnds, Types
  <2> QED BY <1>7, <2>3, <2>4, <2>5, <2>7, <2>8, CallMoves DEF ScriptRemovesPid
<1> QED BY <1>1, <1>2, <1>3, <1>4, <1>5, <1>6, <1>7 DEF ScriptStep

\* Every step keeps Inv.
LEMMA NextInv == ASSUME Inv, [Next]_vars, Undisturbed' PROVE Inv'
<1>0. Types /\ Told /\ Fresh /\ OneCall /\ OneMaster BY DEF Inv
<1>1. ASSUME NEW p \in Pids, MainStep(p) \/ Save(p) \/ Kill(p) \/ Reuse(p) PROVE Inv'
  BY <1>1, MainKeepsInv
<1>2. ASSUME NEW p \in Pids, HandStart(p) PROVE FALSE
  BY <1>2 DEF HandStart, Happens, Undisturbed
<1>3. ASSUME NEW c \in Calls, ScriptStep(c) PROVE Inv'
  BY <1>3, ScriptKeepsInv
<1>4. ASSUME NEW c \in Calls, NEW what \in {"start", "stop", "restart"}, Run(c, what)
      PROVE Inv'
  <2>1. AtWork = {} /\ Named BY <1>4 DEF Run, Happens, Undisturbed, Inv
  <2>2. Types' BY <1>0, <1>4 DEF Run, Goto, Types
  <2>3. AtWork' = {c} /\ pc'[c] = "read" BY <1>0, <1>4, <2>1 DEF Run, Goto, AtWork, Types
  <2>4. Masters' = Masters /\ pidfile' = pidfile /\ proc' = proc
    BY <1>4 DEF Run, Masters, Alive
  <2>5. Told' BY <1>0, <1>4, <2>1 DEF Run, Told
  <2>6. Fresh' /\ OneMaster' BY <1>0, <1>4, <2>4 DEF Run, Fresh, OneMaster
  <2>7. Named' BY <2>1, <2>4 DEF Named
  <2>8. Where(c)' BY <2>3, <2>7 DEF Where, Known, Held, Clear
  <2> QED BY <2>2, <2>3, <2>5, <2>6, <2>8 DEF Inv, OneCall
<1>5. CASE Reboot
  <2>1. Types' BY <1>0, <1>5 DEF Reboot, Types, States
  <2>2. Masters' = {} BY <1>0, <1>5 DEF Reboot, Masters, Alive, Types
  <2>3. AtWork' = {} BY <1>0, <1>5 DEF Reboot, AtWork, Types
  <2>4. Told' BY <2>1, <2>2 DEF Told, Masters, Alive, Types
  <2>5. Named' /\ OneMaster' /\ Fresh' BY <2>2 DEF Named, OneMaster, Fresh
  <2> QED BY <2>1, <2>3, <2>4, <2>5 DEF Inv, OneCall
<1>6. CASE UNCHANGED vars
  <2>1. AtWork' = AtWork /\ Masters' = Masters BY <1>6 DEF vars, AtWork, Masters, Alive
  <2>2. Types' BY <1>0, <1>6 DEF vars, Types
  <2>3. OneCall' /\ OneMaster' BY <1>0, <2>1 DEF OneCall, OneMaster
  <2>4. Told' BY <1>0, <1>6, <2>1 DEF vars, Told
  <2>5. Fresh' BY <1>0, <1>6, <2>1 DEF vars, Fresh
  <2>6. Named => Named' BY <1>6, <2>1 DEF vars, Named
  <2>7. \A c \in AtWork' : Where(c)' BY <1>6, <2>1, <2>6 DEF vars, script, Inv, Where
  <2> QED BY <2>1, <2>2, <2>3, <2>4, <2>5, <2>6, <2>7 DEF Inv
<1> QED BY <1>1, <1>2, <1>3, <1>4, <1>5, <1>6 DEF Next

\* The Master that a start has begun comes up.
Coming == {"started", "loaded", "bound", "emptied", "written", "serving"}

Going ==
  \A c \in Calls : pc[c] \in {"write", "sleep"} /\ "kill" \notin happened =>
    proc[pid[c]] \in Coming

LEMMA NextGoing == ASSUME Inv, Going, [Next]_vars PROVE Going'
<1> SUFFICES ASSUME NEW c \in Calls, pc'[c] \in {"write", "sleep"}, "kill" \notin happened'
             PROVE  proc'[pid'[c]] \in Coming
  BY DEF Going
<1> DEFINE Up(state) == state \in Coming
<1> USE DEF Coming
<1>0. Types BY DEF Inv
<1>1. ASSUME NEW p \in Pids, MainStep(p) \/ Save(p) \/ Kill(p) \/ HandStart(p) \/ Reuse(p)
      PROVE  Up(proc'[pid'[c]])
  <2>1. pc' = pc /\ pid' = pid /\ "kill" \notin happened
    BY <1>1 DEF MainStep, Load, Listen, EmptyPid, WritePid, Serve, Close, RemovePid, Exit,
                Save, Kill, HandStart, Reuse, Happens, script
  <2>2. Up(proc[pid[c]]) BY <2>1 DEF Going
  <2>3. c \in AtWork BY <2>1 DEF AtWork
  <2>4. pid[c] \in Pids /\ Masters \subseteq {pid[c]}
    BY <2>1, <2>3 DEF Inv, Where, Held, Known
  <2>5. CASE Listen(p)
    <3>1. p \in Masters BY <2>5 DEF Listen, Move, Masters, Alive
    <3>2. OnPort \subseteq Masters BY DEF OnPort, Masters, Alive
    <3>3. OnPort = {} BY <2>4, <2>5, <3>1, <3>2 DEF Listen, Move, OnPort
    <3> QED BY <1>0, <2>1, <2>2, <2>4, <2>5, <3>3 DEF Listen, Move, Types
  <2>6. proc[pid[c]] \notin {"free", "dead"} /\ Up(proc[pid[c]]) /\ pid[c] \in Pids
    BY <2>2, <2>4
  <2>7. CASE Load(p) \/ EmptyPid(p) \/ WritePid(p) \/ Serve(p)
    BY <1>0, <2>1, <2>6, <2>7 DEF Load, EmptyPid, WritePid, Serve, Move, Types
  <2>8. CASE Close(p) \/ RemovePid(p) \/ Exit(p)
    BY <1>0, <2>1, <2>6, <2>8 DEF Close, RemovePid, Exit, Move, Types
  <2>9. CASE Save(p) \/ HandStart(p) \/ Reuse(p)
    BY <1>0, <2>1, <2>6, <2>9 DEF Save, HandStart, Reuse, Move, Types
  <2>10. ~Kill(p) BY <1>1 DEF Kill, Happens
  <2> QED BY <1>1, <2>5, <2>7, <2>8, <2>9, <2>10 DEF MainStep
<1>2. ASSUME NEW d \in Calls, ScriptStep(d) PROVE Up(proc'[pid'[c]])
  <2>1. "kill" \notin happened
    BY <1>2 DEF ScriptStep, ReadPid, Check, Fork, ScriptWritesPid, Started, Terminate, Wait,
                ScriptRemovesPid
  <2>2. pc[d] \notin {"new", "done"}
    BY <1>2 DEF ScriptStep, ReadPid, Check, Fork, ScriptWritesPid, Started, Terminate, Wait,
                ScriptRemovesPid, At
  <2>3. c = d
    <3>1. SUFFICES ASSUME c # d PROVE FALSE OBVIOUS
    <3>2. pc[c] \in {"new", "done"} BY <2>2, <3>1, OnlyOne
    <3>3. pc'[c] = pc[c]
      BY <1>0, <1>2, <3>1
         DEF ScriptStep, ReadPid, Check, NotRunning, IsRunning, Fork, ScriptWritesPid, Started,
             Terminate, Wait, ScriptRemovesPid, StopEnds, Goto, Say, Types
    <3> QED BY <3>2, <3>3
  <2>4. Fork(c) \/ ScriptWritesPid(c)
    BY <1>0, <1>2, <2>3
       DEF ScriptStep, ReadPid, Check, NotRunning, IsRunning, Fork, ScriptWritesPid, Started,
           Terminate, Wait, ScriptRemovesPid, StopEnds, Goto, Say, At, Types
  <2>5. CASE Fork(c)
    <3>1. PICK p \in Pids : proc' = [proc EXCEPT ![p] = "started"] /\ pid' = [pid EXCEPT ![c] = p]
      BY <2>5 DEF Fork, Move
    <3> QED BY <1>0, <3>1 DEF Types
  <2>6. CASE ScriptWritesPid(c)
    BY <2>1, <2>6 DEF ScriptWritesPid, At, Going
  <2> QED BY <2>4, <2>5, <2>6
<1>3. ASSUME NEW d \in Calls, NEW what \in {"start", "stop", "restart"}, Run(d, what)
      PROVE  Up(proc'[pid'[c]])
  <2>1. c # d BY <1>0, <1>3 DEF Run, Goto, Types
  <2> QED BY <1>0, <1>3, <2>1 DEF Run, Happens, Goto, Types, Going
<1>4. CASE Reboot BY <1>4 DEF Reboot, AtWork, Going
<1>5. CASE UNCHANGED vars BY <1>5 DEF vars, script, Going
<1> QED BY <1>1, <1>2, <1>3, <1>4, <1>5 DEF Next

LEMMA Remembers == ASSUME [Next]_vars PROVE happened \subseteq happened'
  BY DEF Next, vars, MainStep, Load, Listen, EmptyPid, WritePid, Serve, Close, RemovePid, Exit,
         Save, Kill, HandStart, Reuse, Happens, ScriptStep, ReadPid, Check, Fork,
         ScriptWritesPid, Started, Terminate, Wait, ScriptRemovesPid, Run, Reboot

LEMMA AlwaysInv == Spec => [](Undisturbed => Inv /\ Going)
<1>1. Init => Inv /\ Going BY InitInv DEF Init, Going
<1>2. (Undisturbed => Inv /\ Going) /\ [Next]_vars => (Undisturbed => Inv /\ Going)'
  BY Remembers, NextInv, NextGoing DEF Undisturbed
<1> QED BY <1>1, <1>2, PTL DEF Spec

\* While no Master is killed, the pid file names a living one or none, except
\* while a call is about to remove it.
Tidy ==
  /\ \A c \in Calls : pc[c] \in Known => pid[c] \in Masters
  /\ \/ pidfile \in Masters \cup {NoPid}
     \/ \E c \in Calls : pc[c] \in {"wait", "clean", "remove"}

\* No step of main ends a Master that has not been told to.
LEMMA MainStaysTidy ==
  ASSUME Inv, Tidy, NEW p \in Pids, MainStep(p) \/ Save(p) \/ Reuse(p) PROVE Tidy'
<1>0. Types /\ Told BY DEF Inv
<1>1. pc' = pc /\ pid' = pid
  BY DEF MainStep, Load, Listen, EmptyPid, WritePid, Serve, Close, RemovePid, Exit, Save, Reuse,
         script
<1>2. CASE Exit(p)
  <2>1. PICK c \in AtWork : pc[c] = "wait" BY <1>0, <1>2 DEF Exit, Move, Told
  <2>2. \A d \in Calls : pc[d] \notin Known
    BY <2>1 DEF Inv, OneCall, AtWork, Known
  <2> QED BY <1>1, <2>1, <2>2 DEF Tidy, AtWork
<1>3. CASE ~Exit(p)
  <2>1. Masters \subseteq Masters'
    <3>1. CASE Listen(p)
      <4>1. p \in Masters /\ OnPort \subseteq Masters
        BY <3>1 DEF Listen, Move, OnPort, Masters, Alive
      <4>2. OnPort = {} BY <3>1, <4>1 DEF Inv, OneMaster, Listen, Move, OnPort
      <4> QED BY <1>0, <3>1, <4>2 DEF Listen, Move, Masters, Alive, Types
    <3>2. CASE Reuse(p) \/ Save(p)
      BY <1>0, <3>2 DEF Reuse, Save, Move, Masters, Alive, Types
    <3>3. CASE Load(p) \/ EmptyPid(p) \/ WritePid(p)
      BY <1>0, <3>3 DEF Load, EmptyPid, WritePid, Move, Masters, Alive, Types
    <3>4. CASE Serve(p) \/ Close(p) \/ RemovePid(p)
      BY <1>0, <3>4 DEF Serve, Close, RemovePid, Move, Masters, Alive, Types
    <3> QED BY <1>3, <3>1, <3>2, <3>3, <3>4 DEF MainStep
  <2>2. pidfile' = pidfile \/ pidfile' \in Masters' \cup {NoPid}
    <3>1. CASE WritePid(p) BY <1>0, <3>1 DEF WritePid, Move, Masters, Alive, Types
    <3> QED BY <1>3, <3>1
            DEF MainStep, Load, Listen, EmptyPid, Serve, Close, RemovePid, Save, Reuse
  <2> QED BY <1>1, <2>1, <2>2 DEF Tidy
<1> QED BY <1>2, <1>3

LEMMA ScriptStaysTidy ==
  ASSUME Inv, Going, Tidy, NEW c \in Calls, ScriptStep(c), Orderly, Orderly' PROVE Tidy'
<1> USE DEF At, Goto, Printf, Say, Move
<1>0. Types BY DEF Inv
<1>1. /\ pc[c] \notin {"new", "done"}
      /\ \A d \in Calls : d # c => pc[d] \in {"new", "done"}
  <2>1. pc[c] \notin {"new", "done"}
    BY DEF ScriptStep, ReadPid, Check, Fork, ScriptWritesPid, Started, Terminate, Wait,
           ScriptRemovesPid
  <2> QED BY <2>1, OnlyOne
<1>2. \A d \in Calls : d # c => pc'[d] \in {"new", "done"}
  BY <1>0, <1>1 DEF ScriptStep, ReadPid, Check, NotRunning, IsRunning, Fork, ScriptWritesPid,
                    Started, Terminate, Wait, ScriptRemovesPid, StopEnds, Types
<1>3. ASSUME pc'[c] \in Known => pid'[c] \in Masters',
             \/ pidfile' \in Masters' \cup {NoPid}
             \/ pc'[c] \in {"wait", "clean", "remove"}
      PROVE  Tidy'
  BY <1>2, <1>3 DEF Tidy, Known
<1>4. pc[c] \notin {"wait", "clean", "remove"} => pidfile \in Masters \cup {NoPid}
  BY <1>1 DEF Tidy
<1>5. CASE ReadPid(c)
  <2>1. Masters' = Masters /\ pidfile' = pidfile BY <1>5 DEF ReadPid, Masters, Alive
  <2>2. pidfile \in Masters \cup {NoPid} BY <1>4, <1>5 DEF ReadPid
  <2>3. pc'[c] \in Known => pid'[c] = pidfile /\ pidfile # NoPid
    BY <1>0, <1>5 DEF ReadPid, NotRunning, Known, Types
  <2> QED BY <1>3, <2>1, <2>2, <2>3
<1>6. CASE Check(c)
  <2>1. Masters' = Masters /\ pidfile' = pidfile /\ pid' = pid
    BY <1>6 DEF Check, Masters, Alive
  <2>2. pid[c] \in Masters /\ pidfile \in Masters \cup {NoPid}
    BY <1>4, <1>6 DEF Check, Tidy, Known
  <2> QED BY <1>3, <2>1, <2>2
<1>7. CASE Fork(c)
  <2>1. PICK p \in Pids : proc[p] = "free" /\ proc' = [proc EXCEPT ![p] = "started"]
    BY <1>7 DEF Fork
  <2>2. Masters \subseteq Masters' BY <1>0, <2>1 DEF Masters, Alive, Types
  <2>3. pc'[c] = "write" /\ pidfile' = pidfile BY <1>0, <1>7 DEF Fork, Types
  <2>4. pidfile \in Masters \cup {NoPid} BY <1>4, <1>7 DEF Fork
  <2> QED BY <1>3, <2>2, <2>3, <2>4 DEF Known
<1>8. CASE ScriptWritesPid(c) \/ Started(c)
  <2>1. proc[pid[c]] \in Coming /\ pid[c] \in Pids
    BY <1>1, <1>8, OnlyOne DEF Going, Orderly, ScriptWritesPid, Started, Where, Held
  <2>2. pid[c] \in Masters /\ Masters' = Masters
    BY <1>8, <2>1 DEF Coming, Masters, Alive, ScriptWritesPid, Started
  <2>3. pidfile' \in Masters \cup {NoPid}
    <3>1. CASE ScriptWritesPid(c) BY <2>2, <3>1 DEF ScriptWritesPid
    <3>2. CASE Started(c)
      <4>1. pidfile \in Masters \cup {NoPid} BY <1>4, <3>2 DEF Started
      <4> QED BY <3>2, <4>1 DEF Started
    <3> QED BY <1>8, <3>1, <3>2
  <2>4. pc'[c] \notin Known BY <1>0, <1>8 DEF ScriptWritesPid, Started, Known, Types
  <2> QED BY <1>3, <2>2, <2>3, <2>4
<1>9. CASE Terminate(c) \/ Wait(c)
  <2>1. pc'[c] \in {"wait", "remove"} BY <1>0, <1>9 DEF Terminate, Wait, Types
  <2> QED BY <1>3, <2>1 DEF Known
<1>10. CASE ScriptRemovesPid(c)
  <2>1. pc'[c] \in {"done", "read"} /\ pidfile' = NoPid
    BY <1>0, <1>10 DEF ScriptRemovesPid, StopEnds, Types
  <2> QED BY <1>3, <2>1 DEF Known
<1> QED BY <1>5, <1>6, <1>7, <1>8, <1>9, <1>10 DEF ScriptStep

LEMMA NextTidy ==
  ASSUME Inv, Going, Tidy, [Next]_vars, Orderly, Orderly' PROVE Tidy'
<1>0. Types BY DEF Inv
<1>1. ASSUME NEW p \in Pids, MainStep(p) \/ Save(p) \/ Reuse(p) PROVE Tidy'
  BY <1>1, MainStaysTidy
<1>2. ASSUME NEW p \in Pids, Kill(p) \/ HandStart(p) PROVE FALSE
  BY <1>2 DEF Kill, HandStart, Happens, Orderly
<1>3. ASSUME NEW c \in Calls, ScriptStep(c) PROVE Tidy'
  BY <1>3, ScriptStaysTidy
<1>4. ASSUME NEW c \in Calls, NEW what \in {"start", "stop", "restart"}, Run(c, what)
      PROVE Tidy'
  <2>1. Masters' = Masters /\ UNCHANGED <<pidfile, pid>> BY <1>4 DEF Run, Masters, Alive
  <2>2. \A d \in Calls : pc'[d] = pc[d] \/ (pc[d] = "new" /\ pc'[d] = "read")
    BY <1>0, <1>4 DEF Run, At, Goto, Types
  <2> QED BY <2>1, <2>2 DEF Tidy, Known
<1>5. CASE Reboot BY <1>5 DEF Reboot, Happens, Orderly
<1>6. CASE UNCHANGED vars BY <1>6 DEF vars, script, Tidy, Masters, Alive
<1> QED BY <1>1, <1>2, <1>3, <1>4, <1>5, <1>6 DEF Next

LEMMA OrderlyIsUndisturbed == Orderly => Undisturbed
  BY DEF Orderly, Undisturbed

LEMMA AlwaysTidy == Spec => [](Orderly => Inv /\ Going /\ Tidy)
<1>1. Init => Inv /\ Going /\ Tidy BY InitInv DEF Init, Going, Tidy, Known
<1>2. (Orderly => Inv /\ Going /\ Tidy) /\ [Next]_vars => (Orderly => Inv /\ Going /\ Tidy)'
  BY Remembers, NextInv, NextGoing, NextTidy, OrderlyIsUndisturbed DEF Orderly, Undisturbed
<1> QED BY <1>1, <1>2, PTL DEF Spec

Versions == 0..MaxSaves

\* TypeOK without the owner of the port.
Others ==
  /\ proc \in [Pids -> {"free", "started", "loaded", "bound", "emptied", "written",
                          "serving", "told", "closing", "removed", "dead", "other"}]
  /\ memory \in [Pids -> Versions] /\ disk \in Versions
  /\ pidfile \in Pids \cup {NoPid} /\ pid \in [Calls -> Pids \cup {NoPid}]
  /\ cmd \in [Calls -> {"none", "start", "stop", "restart"}]
  /\ pc \in [Calls -> {"new", "read", "check", "fork", "write", "sleep",
                         "term", "wait", "clean", "remove", "done"}]
  /\ said \in [Calls -> {"none", "already running", "started",
                           "failed to start", "stopped", "not running"}]
  /\ happened \subseteq {"kill", "hand", "reboot", "reuse", "overlap", "blank"}

\* Every variable keeps its type and the port has one owner, however many
\* processes are started and by whom.
THEOREM LifecycleTypes == Spec => []TypeOK
<1>1. Init => TypeOK
  BY NoPidAssumption, MaxSavesAssumption DEF Init, TypeOK, OnPort
<1>2. ASSUME TypeOK, [Next]_vars PROVE TypeOK'
  <2>1. \A p, q \in OnPort' : p = q
    <3> DEFINE One == \A p, q \in OnPort : p = q
    <3>0. ASSUME \A p \in OnPort' : p \in OnPort PROVE One' BY <1>2, <3>0 DEF TypeOK
    <3>1. ASSUME NEW p \in Pids, Listen(p) PROVE One'
      <4>1. proc = [q \in Pids |-> proc[q]] BY <1>2 DEF TypeOK
      <4>2. CASE OnPort = {}
        <5>1. proc' = [proc EXCEPT ![p] = "bound"] BY <3>1, <4>2 DEF Listen, Move
        <5> QED BY <4>1, <4>2, <5>1 DEF OnPort
      <4>3. CASE OnPort # {}
        <5>1. proc' = [proc EXCEPT ![p] = "dead"] BY <3>1, <4>3 DEF Listen, Move
        <5>2. \A q \in OnPort' : q \in OnPort BY <4>1, <5>1 DEF OnPort
        <5> QED BY <3>0, <5>2
      <4> QED BY <4>2, <4>3
    <3>2. ASSUME NEW p \in Pids, ~Listen(p),
                 MainStep(p) \/ Save(p) \/ Kill(p) \/ HandStart(p) \/ Reuse(p)
          PROVE  \A q \in OnPort' : q \in OnPort
      <4>0. proc = [q \in Pids |-> proc[q]] BY <1>2 DEF TypeOK
      <4>1. CASE UNCHANGED proc BY <4>1 DEF OnPort
      <4>2. ASSUME NEW to, proc' = [proc EXCEPT ![p] = to],
                   p \in OnPort \/ to \notin {"bound", "emptied", "written", "serving", "told"}
            PROVE  \A q \in OnPort' : q \in OnPort
        BY <4>0, <4>2 DEF OnPort
      <4>3. Load(p) \/ Save(p) => \/ UNCHANGED proc
                                 \/ proc' = [proc EXCEPT ![p] = "loaded"]
        BY DEF Load, Save, Move
      <4>4. EmptyPid(p) \/ WritePid(p) \/ Serve(p) =>
              /\ p \in OnPort
              /\ \E to \in {"emptied", "written", "serving"} : proc' = [proc EXCEPT ![p] = to]
        BY DEF EmptyPid, WritePid, Serve, Move, OnPort
      <4>5. Close(p) \/ RemovePid(p) \/ Exit(p) \/ Kill(p) \/ HandStart(p) \/ Reuse(p) =>
              \E to \in {"closing", "removed", "dead", "started", "other"} :
                proc' = [proc EXCEPT ![p] = to]
        BY DEF Close, RemovePid, Exit, Kill, HandStart, Reuse, Move
      <4> QED BY <3>2, <4>1, <4>2, <4>3, <4>4, <4>5 DEF MainStep
    <3>3. ASSUME NEW c \in Calls, ScriptStep(c) PROVE \A q \in OnPort' : q \in OnPort
      <4>0. proc = [q \in Pids |-> proc[q]] BY <1>2 DEF TypeOK
      <4>1. CASE Fork(c)
        <5>1. PICK p \in Pids : proc' = [proc EXCEPT ![p] = "started"] BY <4>1 DEF Fork, Move
        <5> QED BY <4>0, <5>1 DEF OnPort
      <4>2. CASE Terminate(c) BY <4>0, <4>2 DEF Terminate, OnPort
      <4>3. CASE Wait(c) BY <4>0, <4>3 DEF Wait, OnPort
      <4>4. CASE ReadPid(c) \/ Check(c) \/ ScriptWritesPid(c) \/ Started(c) \/ ScriptRemovesPid(c)
        BY <4>4 DEF ReadPid, Check, ScriptWritesPid, Started, ScriptRemovesPid, OnPort
      <4> QED BY <3>3, <4>1, <4>2, <4>3, <4>4 DEF ScriptStep
    <3>4. ASSUME UNCHANGED proc PROVE \A q \in OnPort' : q \in OnPort BY <3>4 DEF OnPort
    <3>5. ASSUME Reboot PROVE \A q \in OnPort' : q \in OnPort
      BY <1>2, <3>5 DEF Reboot, Alive, TypeOK, OnPort
    <3>6. ASSUME NEW c \in Calls, NEW what \in {"start", "stop", "restart"}, Run(c, what)
          PROVE UNCHANGED proc
      BY <3>6 DEF Run
    <3>7. UNCHANGED vars => UNCHANGED proc BY DEF vars
    <3> HIDE DEF One
    <3>8. One' BY <1>2, <3>0, <3>1, <3>2, <3>3, <3>4, <3>5, <3>6, <3>7 DEF Next
    <3> QED BY <3>8 DEF One
  <2> USE DEF Others
  <2>2. Others BY <1>2 DEF TypeOK, Versions
  <2>3. ASSUME NEW p \in Pids, MainStep(p) PROVE Others'
    <3>1. CASE Load(p)
      <4>1. disk' \in Versions
        <5>1. disk \in Versions /\ (disk' = disk \/ disk' = 1) BY <2>2, <3>1 DEF Load
        <5>2. 1 \in Versions BY ONLY MaxSavesAssumption DEF Versions
        <5> QED BY ONLY <5>1, <5>2
      <4> QED BY <2>2, <3>1, <4>1 DEF Load, Move, script
    <3>2. CASE Listen(p) BY <2>2, <3>2 DEF Listen, Move, script
    <3>3. CASE EmptyPid(p) \/ WritePid(p) BY <2>2, <3>3 DEF EmptyPid, WritePid, Move, script
    <3>4. CASE Serve(p) \/ Close(p) BY <2>2, <3>4 DEF Serve, Close, Move, script
    <3>5. CASE RemovePid(p) BY <2>2, <3>5 DEF RemovePid, Move, script
    <3>6. CASE Exit(p) BY <2>2, <3>6 DEF Exit, Move, script
    <3> QED BY <2>3, <3>1, <3>2, <3>3, <3>4, <3>5, <3>6 DEF MainStep
  <2>4. ASSUME NEW p \in Pids, Save(p) PROVE Others'
    <3>1. disk + 1 \in Versions
      <4>1. disk \in 0..MaxSaves /\ disk < MaxSaves BY <2>2, <2>4 DEF Save, Versions
      <4> QED BY ONLY <4>1, MaxSavesAssumption DEF Versions
    <3> QED BY <2>2, <2>4, <3>1 DEF Save, script
  <2>5. ASSUME NEW p \in Pids, Kill(p) \/ HandStart(p) \/ Reuse(p) PROVE Others'
    BY <2>2, <2>5 DEF Kill, HandStart, Reuse, Happens, Move, script
  <2>6. ASSUME NEW c \in Calls, ReadPid(c) \/ Check(c) \/ Fork(c) PROVE Others'
    <3>1. CASE ReadPid(c)
      <4>1. pid' \in [Calls -> Pids \cup {NoPid}] BY <2>2, <3>1 DEF ReadPid
      <4>2. UNCHANGED <<proc, memory, disk, pidfile, cmd, said>>
        BY <3>1 DEF ReadPid, NotRunning
      <4>4. happened' \subseteq happened \cup {"blank"} BY <3>1 DEF ReadPid
      <4>3. PICK where \in {"fork", "clean", "check"} : pc' = [pc EXCEPT ![c] = where]
        <5>1. CASE pidfile = NoPid BY <3>1, <5>1 DEF ReadPid, NotRunning, Goto
        <5>2. CASE pidfile # NoPid BY <3>1, <5>2 DEF ReadPid, Goto
        <5> QED BY <5>1, <5>2
      <4> QED BY <2>2, <4>1, <4>2, <4>3, <4>4
    <3>2. CASE Check(c) BY <2>2, <3>2 DEF Check, NotRunning, IsRunning, Say, Printf, At, Goto
    <3>3. CASE Fork(c)
      <4>1. PICK p \in Pids : proc' = [proc EXCEPT ![p] = "started"] /\ pid' = [pid EXCEPT ![c] = p]
        BY <3>3 DEF Fork, Move
      <4> QED BY <2>2, <3>3, <4>1 DEF Fork, Goto
    <3> QED BY <2>6, <3>1, <3>2, <3>3
  <2>7. ASSUME NEW c \in Calls, Terminate(c) \/ Wait(c) PROVE Others'
    <3>1. proc' \in [Pids -> {"free", "started", "loaded", "bound", "emptied", "written",
                              "serving", "told", "closing", "removed", "dead", "other"}]
      <4>1. CASE Terminate(c) BY <2>2, <4>1 DEF Terminate, At
      <4>2. CASE Wait(c) BY <2>2, <4>2 DEF Wait, At
      <4> QED BY <2>7, <4>1, <4>2
    <3> QED BY <2>2, <2>7, <3>1 DEF Terminate, Wait, Goto
  <2>8. ASSUME NEW c \in Calls, ScriptWritesPid(c) \/ Started(c) \/ ScriptRemovesPid(c)
        PROVE Others'
    <3>1. CASE ScriptWritesPid(c) BY <2>2, <3>1 DEF ScriptWritesPid, Goto
    <3>2. CASE Started(c) BY <2>2, <3>2 DEF Started, Say, Printf, Goto
    <3>3. CASE ScriptRemovesPid(c)
      <4>1. PICK what \in {"not running", "stopped"} : said' = [said EXCEPT ![c] = what]
        BY <3>3 DEF ScriptRemovesPid, StopEnds, Printf
      <4>2. PICK where \in {"done", "read"} : pc' = [pc EXCEPT ![c] = where]
        BY <3>3 DEF ScriptRemovesPid, StopEnds, Goto
      <4>3. cmd' = cmd \/ cmd' = [cmd EXCEPT ![c] = "start"]
        BY <3>3 DEF ScriptRemovesPid, StopEnds
      <4> QED BY <2>2, <3>3, <4>1, <4>2, <4>3 DEF ScriptRemovesPid
    <3> QED BY <2>8, <3>1, <3>2, <3>3
  <2>9. ASSUME NEW c \in Calls, NEW what \in {"start", "stop", "restart"}, Run(c, what)
        PROVE Others'
    BY <2>2, <2>9 DEF Run, Happens, Goto
  <2>10. ASSUME Reboot PROVE Others' BY <2>2, <2>10 DEF Reboot, Happens
  <2>11. ASSUME UNCHANGED vars PROVE Others' BY <2>2, <2>11 DEF vars
  <2> HIDE DEF Others
  <2>12. Others'
    BY <1>2, <2>3, <2>4, <2>5, <2>6, <2>7, <2>8, <2>9, <2>10, <2>11 DEF Next, ScriptStep
  <2> QED BY <2>1, <2>12 DEF TypeOK, Others, Versions
<1> QED BY <1>1, <1>2, PTL DEF Spec

\* While a Master serves, a process that is started beside it, even by hand,
\* does not take the pid file from it: it fails to take the port first.
THEOREM PidFileStays == Spec => PidFileKept
<1>1. TypeOK /\ [Next]_vars =>
        [\A p \in Pids : proc[p] = "serving" /\ pidfile = p /\ pidfile' # p =>
           AtWork # {} \/ \E q \in Pids : proc[q] = "closing"]_vars
  <2> SUFFICES ASSUME TypeOK, Next, NEW p \in Pids, proc[p] = "serving", pidfile = p,
                      pidfile' # p, AtWork = {}
               PROVE  \E q \in Pids : proc[q] = "closing"
    OBVIOUS
  <2>1. \A c \in Calls : ~ScriptStep(c)
    BY DEF AtWork, ScriptStep, ReadPid, Check, Fork, ScriptWritesPid, Started, Terminate, Wait,
           ScriptRemovesPid, At
  <2>2. PICK q \in Pids : EmptyPid(q) \/ WritePid(q) \/ RemovePid(q)
    BY <2>1 DEF Next, MainStep, Load, Listen, Serve, Close, Exit, Save, Kill, HandStart, Reuse,
                Run, Reboot
  <2>3. ~EmptyPid(q) /\ ~WritePid(q)
    <3>1. SUFFICES ASSUME proc[q] \in {"bound", "emptied"} PROVE FALSE
      BY DEF EmptyPid, WritePid, Move
    <3>2. p \in OnPort /\ q \in OnPort BY <3>1 DEF OnPort
    <3>3. p = q BY <3>2 DEF TypeOK
    <3> QED BY <3>1, <3>3
  <2> QED BY <2>2, <2>3 DEF RemovePid, Move
<1> QED BY <1>1, LifecycleTypes, PTL DEF Spec, PidFileKept

\* A Master that may save has the document on disk in memory: two of them
\* never save over each other, whatever is killed and when.
THEOREM SavesAreFresh == Spec => []NoLostUpdates
<1>1. (Undisturbed => Inv /\ Going) => NoLostUpdates
  BY DEF Inv, Fresh, NoLostUpdates, Working, Masters, Alive
<1> QED BY <1>1, AlwaysInv, PTL

\* The pid file names every Master that serves while the script is not at work.
THEOREM PidFileNames == Spec => []PidFileTrue
<1>1. (Undisturbed => Inv /\ Going) => PidFileTrue BY DEF Inv, Named, PidFileTrue
<1> QED BY <1>1, AlwaysInv, PTL

\* Nobody but the script says anything.
LEMMA ScriptSays ==
  ASSUME Next, NEW c \in Calls, NEW what, Says(c, what) PROVE \E d \in Calls : ScriptStep(d)
  BY DEF Next, MainStep, Load, Listen, EmptyPid, WritePid, Serve, Close, RemovePid, Exit, Save,
         Kill, HandStart, Reuse, Run, Reboot, script, Says

\* When stop reports that Master is stopped or not running, no Master is left.
THEOREM StopMeansStopped == Spec => StopStops
<1>1. (Undisturbed => Inv /\ Going) /\ [Next]_vars =>
        [Undisturbed' => \A c \in Calls :
           Says(c, "stopped") \/ Says(c, "not running") => Masters' = {}]_vars
  <2> SUFFICES ASSUME Undisturbed => Inv /\ Going, Next, Undisturbed', NEW c \in Calls,
                      NEW what \in {"stopped", "not running"}, Says(c, what)
               PROVE  Masters' = {}
    OBVIOUS
  <2>0. Inv BY Remembers DEF Undisturbed
  <2>1. PICK d \in Calls : ScriptStep(d) BY ScriptSays
  <2>2. ScriptRemovesPid(d)
    BY <2>0, <2>1 DEF ScriptStep, ReadPid, Check, NotRunning, IsRunning, Say, Printf, Fork,
                      ScriptWritesPid, Started, Terminate, Wait, Inv, Types, Says
  <2>3. Where(d) /\ pc[d] \in Clear
    BY <2>0, <2>2, OnlyOne DEF ScriptRemovesPid, Clear
  <2> QED BY <2>2, <2>3 DEF ScriptRemovesPid, Where, Masters, Alive
<1> QED BY <1>1, AlwaysInv, PTL DEF Spec, StopStops

\* What a call finds running is a Master, though the ids of Masters that have
\* ended are given to other programs: it has removed every pid file that named
\* an ended one.
THEOREM OnlyMastersFound == Spec => StrangersSpared
<1>1. (Orderly => Inv /\ Going /\ Tidy) /\ [Next]_vars =>
        [Orderly' => \A c \in Calls :
           Says(c, "already running") \/ (pc[c] # "term" /\ pc'[c] = "term") =>
             pid[c] \in Masters]_vars
  <2> SUFFICES ASSUME Orderly => Inv /\ Going /\ Tidy, Next, Orderly', NEW c \in Calls,
                      Says(c, "already running") \/ (pc[c] # "term" /\ pc'[c] = "term")
               PROVE  pid[c] \in Masters
    OBVIOUS
  <2>0. Types /\ Tidy BY Remembers DEF Orderly, Inv
  <2>1. PICK d \in Calls : ScriptStep(d)
    <3>1. CASE Says(c, "already running") BY <3>1, ScriptSays
    <3>2. CASE pc[c] # "term" /\ pc'[c] = "term"
      BY <2>0, <3>2
         DEF Next, MainStep, Load, Listen, EmptyPid, WritePid, Serve, Close, RemovePid, Exit,
             Save, Kill, HandStart, Reuse, Run, Goto, Reboot, script, Types
    <3> QED BY <3>1, <3>2
  <2>2. Check(d) /\ d = c
    BY <2>0, <2>1 DEF ScriptStep, ReadPid, Check, NotRunning, IsRunning, Say, Printf, Goto, Fork,
                      ScriptWritesPid, Started, Terminate, Wait, ScriptRemovesPid, StopEnds,
                      Types, Says
  <2> QED BY <2>0, <2>2 DEF Check, At, Tidy, Known
<1> QED BY <1>1, AlwaysTidy, PTL DEF Spec, StrangersSpared

\* A start never fails unless the Master it has started is killed.
THEOREM StartsComeUp == Spec => StartSucceeds
<1>1. (Undisturbed => Inv /\ Going) /\ [Next]_vars =>
        [Undisturbed' /\ "kill" \notin happened' =>
           \A c \in Calls : ~Says(c, "failed to start")]_vars
  <2> SUFFICES ASSUME Undisturbed => Inv /\ Going, Next, Undisturbed', "kill" \notin happened',
                      NEW c \in Calls, Says(c, "failed to start")
               PROVE  FALSE
    OBVIOUS
  <2>0. Inv /\ Going /\ "kill" \notin happened BY Remembers DEF Undisturbed
  <2>1. PICK d \in Calls : ScriptStep(d) BY ScriptSays
  <2>2. Started(d)
    BY <2>0, <2>1 DEF ScriptStep, ReadPid, Check, NotRunning, IsRunning, Say, Printf, Fork,
                      ScriptWritesPid, Terminate, Wait, ScriptRemovesPid, StopEnds, Inv, Types,
                      Says
  <2>3. pid[d] \notin Alive BY <2>0, <2>2 DEF Started, Say, Printf, Says, Inv, Types
  <2>4. proc[pid[d]] \in Coming
    BY <2>0, <2>2 DEF Started, At, Going
  <2>5. pid[d] \in Pids
    BY <2>0, <2>2, OnlyOne DEF Started, At, Where, Held
  <2> QED BY <2>3, <2>4, <2>5 DEF Alive, Coming
<1> QED BY <1>1, AlwaysInv, PTL DEF Spec, StartSucceeds
=============================================================================
