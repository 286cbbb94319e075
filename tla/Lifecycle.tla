----------------------------- MODULE Lifecycle -----------------------------
(***************************************************************************)
(* How Master starts and stops: the processes that run main (main.go), the *)
(* pid file both sides write, and calls of the init script that            *)
(* register-initd.sh installs.                                             *)
(*                                                                         *)
(* main loads the store, takes the port, writes the pid file and serves.   *)
(* A SIGTERM makes it close the port and wait for its requests for at most *)
(* ten seconds; the jobs it runs go on meanwhile.  It removes the pid file *)
(* as the last thing it does.                                              *)
(***************************************************************************)
EXTENDS Naturals, FiniteSets

CONSTANTS
  Pids,        \* process ids
  NoPid,       \* no process id
  Calls,       \* calls of the init script
  MaxSaves,    \* bound on the saves of the document
  MaxTroubles, \* bound on the kinds of trouble in one run
  Environment  \* what else happens: "kill", "hand" (main started by hand),
               \* "reboot", "reuse" of process ids, and "overlap" of calls

VARIABLES
  proc,     \* of each process: how far main has come
  memory,   \* the version of master.json each process has in memory
  disk,     \* the version that is on disk
  pidfile,  \* master.pid
  cmd,      \* of each call of the script: what it is asked,
  pc,       \* where it stands,
  pid,      \* its variable PID
  said,     \* and what it has printed
  happened  \* history: which of these there have been, and "blank": a call
            \* has read the pid file while main was writing it

script == <<cmd, pc, pid, said>>
vars == <<proc, memory, disk, pidfile, cmd, pc, pid, said, happened>>

ASSUME NoPidAssumption == NoPid \notin Pids
ASSUME MaxSavesAssumption == MaxSaves \in Nat \ {0}

Alive == {p \in Pids : proc[p] \notin {"free", "dead"}}
Masters == {p \in Alive : proc[p] # "other"}
OnPort == {p \in Pids : proc[p] \in {"bound", "emptied", "written", "serving", "told"}}

\* Handlers and jobs run, and save the document.
Working == {p \in Pids : proc[p] \in {"serving", "told", "closing", "removed"}}

\* There is no document yet, and no Master.
Init ==
  /\ proc = [p \in Pids |-> "free"] /\ memory = [p \in Pids |-> 0]
  /\ disk = 0 /\ pidfile = NoPid
  /\ cmd = [c \in Calls |-> "none"] /\ pc = [c \in Calls |-> "new"]
  /\ pid = [c \in Calls |-> NoPid] /\ said = [c \in Calls |-> "none"]
  /\ happened = {}

(***************************************************************************)
(* main.                                                                   *)
(***************************************************************************)
Move(p, from, to) == proc[p] = from /\ proc' = [proc EXCEPT ![p] = to]

\* NewStore, which saves a first document where there is none.
Load(p) ==
  /\ Move(p, "started", "loaded")
  /\ disk' = IF disk = 0 THEN 1 ELSE disk
  /\ memory' = [memory EXCEPT ![p] = disk']
  /\ UNCHANGED <<pidfile, script, happened>>

\* Mutant: the port can be shared (SO_REUSEPORT).
ListenShared(p) ==
  /\ Move(p, "loaded", "bound")
  /\ UNCHANGED <<memory, disk, pidfile, script, happened>>

\* net.Listen, which fails while another process has the port.
Listen(p) ==
  /\ Move(p, "loaded", IF OnPort = {} THEN "bound" ELSE "dead")
  /\ UNCHANGED <<memory, disk, pidfile, script, happened>>

\* Mutant: the pid file is written before the port is taken.
EmptyFirst(p) ==
  /\ \/ proc[p] = "loaded" /\ pidfile # NoPid /\ UNCHANGED proc
     \/ Move(p, "bound", "emptied")
  /\ pidfile' = NoPid
  /\ UNCHANGED <<memory, disk, script, happened>>

\* os.WriteFile empties the file and then writes it.
EmptyPid(p) ==
  /\ Move(p, "bound", "emptied") /\ pidfile' = NoPid
  /\ UNCHANGED <<memory, disk, script, happened>>

WritePid(p) ==
  /\ Move(p, "emptied", "written") /\ pidfile' = p
  /\ UNCHANGED <<memory, disk, script, happened>>

\* Serve, and signal.Notify: a SIGTERM before it ends the process at once.
Serve(p) ==
  /\ Move(p, "written", "serving")
  /\ UNCHANGED <<memory, disk, pidfile, script, happened>>

\* Shutdown closes the port first.
Close(p) ==
  /\ Move(p, "told", "closing")
  /\ UNCHANGED <<memory, disk, pidfile, script, happened>>

\* The requests have ended or ten seconds are over; the deferred Remove.
RemovePid(p) ==
  /\ Move(p, "closing", "removed") /\ pidfile' = NoPid
  /\ UNCHANGED <<memory, disk, script, happened>>

Exit(p) ==
  /\ Move(p, "removed", "dead")
  /\ UNCHANGED <<memory, disk, pidfile, script, happened>>

\* A handler or a job saves the document it has in memory, changed.
Save(p) ==
  /\ p \in Working /\ disk < MaxSaves
  /\ disk' = disk + 1 /\ memory' = [memory EXCEPT ![p] = disk + 1]
  /\ UNCHANGED <<proc, pidfile, script, happened>>

MainStep(p) ==
  \/ Load(p) \/ Listen(p) \/ EmptyPid(p) \/ WritePid(p)
  \/ Serve(p) \/ Close(p) \/ RemovePid(p) \/ Exit(p)

(***************************************************************************)
(* The init script.                                                        *)
(***************************************************************************)
Happens(what) ==
  /\ what \in Environment /\ happened' = happened \cup {what}
  /\ Cardinality(happened') <= MaxTroubles

At(c, where) == pc[c] = where
Goto(c, where) == pc' = [pc EXCEPT ![c] = where]
Printf(c, what) == said' = [said EXCEPT ![c] = what]
Say(c, what) == Goto(c, "done") /\ Printf(c, what)
AtWork == {c \in Calls : pc[c] \notin {"new", "done"}}

\* The script takes no lock: a call may run beside another.
Run(c, what) ==
  /\ At(c, "new") /\ Goto(c, "read")
  /\ cmd' = [cmd EXCEPT ![c] = what]
  /\ IF AtWork = {} THEN UNCHANGED happened ELSE Happens("overlap")
  /\ UNCHANGED <<proc, memory, disk, pidfile, pid, said>>

\* is_running, which stop and restart call first, and start.
NotRunning(c) ==
  /\ Goto(c, IF cmd[c] = "start" THEN "fork" ELSE "clean")
  /\ UNCHANGED said
IsRunning(c) ==
  IF cmd[c] = "start" THEN Say(c, "already running")
  ELSE Goto(c, "term") /\ UNCHANGED said

\* main is between emptying and writing the pid file.
Blank == \E p \in Pids : proc[p] = "emptied"

\* A file that is not there and an empty one are the same to is_running.
ReadPid(c) ==
  /\ At(c, "read")
  /\ \/ /\ pidfile = NoPid /\ NotRunning(c) /\ UNCHANGED pid
        /\ happened' = happened \cup IF Blank THEN {"blank"} ELSE {}
     \/ /\ pidfile # NoPid /\ Goto(c, "check")
        /\ pid' = [pid EXCEPT ![c] = pidfile] /\ UNCHANGED <<said, happened>>
  /\ UNCHANGED <<proc, memory, disk, pidfile, cmd>>

Check(c) ==
  /\ At(c, "check")
  /\ IF pid[c] \in Alive THEN IsRunning(c) ELSE NotRunning(c)
  /\ UNCHANGED <<proc, memory, disk, pidfile, cmd, pid, happened>>

\* start
Fork(c) ==
  /\ At(c, "fork") /\ Goto(c, "write")
  /\ \E p \in Pids : Move(p, "free", "started") /\ pid' = [pid EXCEPT ![c] = p]
  /\ UNCHANGED <<memory, disk, pidfile, cmd, said, happened>>

ScriptWritesPid(c) ==
  /\ At(c, "write") /\ Goto(c, "sleep")
  /\ pidfile' = pid[c]
  /\ UNCHANGED <<proc, memory, disk, cmd, pid, said, happened>>

\* One second later, however far main has come.
Started(c) ==
  /\ At(c, "sleep")
  /\ IF pid[c] \in Alive THEN Say(c, "started") /\ UNCHANGED pidfile
     ELSE Say(c, "failed to start") /\ pidfile' = NoPid
  /\ UNCHANGED <<proc, memory, disk, cmd, pid, happened>>

\* stop: SIGTERM
Terminate(c) ==
  /\ At(c, "term") /\ Goto(c, "wait")
  /\ LET p == pid[c]
     IN proc' = [proc EXCEPT ![p] =
                   CASE proc[p] = "serving" -> "told"
                     [] proc[p] \in {"told", "closing", "removed"} -> proc[p]
                     [] OTHER -> "dead"]
  /\ UNCHANGED <<memory, disk, pidfile, cmd, pid, said, happened>>

\* Mutant: stop does not wait for the process it has told to end.
NoWait(c) ==
  /\ At(c, "wait") /\ Goto(c, "remove")
  /\ UNCHANGED <<proc, memory, disk, pidfile, cmd, pid, said, happened>>

\* The process has ended, or twenty seconds are over and it is killed.
Wait(c) ==
  /\ At(c, "wait") /\ Goto(c, "remove")
  /\ proc' = [proc EXCEPT ![pid[c]] = "dead"]
  /\ UNCHANGED <<memory, disk, pidfile, cmd, pid, said, happened>>

(* stop ends with rm and says what it found, and restart goes on with start. *)
StopEnds(c) ==
  /\ Printf(c, IF At(c, "clean") THEN "not running" ELSE "stopped")
  /\ \/ cmd[c] = "stop" /\ Goto(c, "done") /\ UNCHANGED cmd
     \/ cmd[c] = "restart" /\ Goto(c, "read") /\ cmd' = [cmd EXCEPT ![c] = "start"]

\* Mutant: stop leaves the pid file to Master, which removes it as it ends.
ScriptLeavesPid(c) ==
  /\ pc[c] \in {"clean", "remove"} /\ StopEnds(c)
  /\ UNCHANGED <<proc, memory, disk, pidfile, pid, happened>>

ScriptRemovesPid(c) ==
  /\ pc[c] \in {"clean", "remove"} /\ pidfile' = NoPid /\ StopEnds(c)
  /\ UNCHANGED <<proc, memory, disk, pid, happened>>

ScriptStep(c) ==
  \/ ReadPid(c) \/ Check(c) \/ Fork(c) \/ ScriptWritesPid(c) \/ Started(c)
  \/ Terminate(c) \/ Wait(c) \/ ScriptRemovesPid(c)

(***************************************************************************)
(* Everything else.                                                        *)
(***************************************************************************)
\* A Master is killed, or ends with log.Fatal.
Kill(p) ==
  /\ p \in Masters /\ Happens("kill")
  /\ proc' = [proc EXCEPT ![p] = "dead"]
  /\ UNCHANGED <<memory, disk, pidfile, script>>

\* Somebody starts the binary without the script.
HandStart(p) ==
  /\ Move(p, "free", "started") /\ Happens("hand")
  /\ UNCHANGED <<memory, disk, pidfile, script>>

\* The pid file outlives a reboot.
Reboot ==
  /\ Alive # {} /\ Happens("reboot")
  /\ proc' = [p \in Pids |-> IF p \in Alive THEN "dead" ELSE proc[p]]
  /\ pc' = [c \in Calls |-> IF c \in AtWork THEN "done" ELSE pc[c]]
  /\ UNCHANGED <<memory, disk, pidfile, cmd, pid, said>>

\* Another program gets the process id of a Master that has ended.
Reuse(p) ==
  /\ Move(p, "dead", "other") /\ Happens("reuse")
  /\ UNCHANGED <<memory, disk, pidfile, script>>

Next ==
  \/ \E p \in Pids : MainStep(p) \/ Save(p) \/ Kill(p) \/ HandStart(p) \/ Reuse(p)
  \/ \E c \in Calls : ScriptStep(c) \/ \E what \in {"start", "stop", "restart"} : Run(c, what)
  \/ Reboot

Spec == Init /\ [][Next]_vars
-----------------------------------------------------------------------------
(***************************************************************************)
(* Properties.                                                             *)
(***************************************************************************)

\* Every variable has its type, and one process has the port.
TypeOK ==
  /\ proc \in [Pids -> {"free", "started", "loaded", "bound", "emptied", "written",
                        "serving", "told", "closing", "removed", "dead", "other"}]
  /\ memory \in [Pids -> 0..MaxSaves] /\ disk \in 0..MaxSaves
  /\ pidfile \in Pids \cup {NoPid} /\ pid \in [Calls -> Pids \cup {NoPid}]
  /\ cmd \in [Calls -> {"none", "start", "stop", "restart"}]
  /\ pc \in [Calls -> {"new", "read", "check", "fork", "write", "sleep",
                       "term", "wait", "clean", "remove", "done"}]
  /\ said \in [Calls -> {"none", "already running", "started",
                         "failed to start", "stopped", "not running"}]
  /\ happened \subseteq {"kill", "hand", "reboot", "reuse", "overlap", "blank"}
  /\ \A p, q \in OnPort : p = q

\* Master has been started by the script alone, by one call after the other, and
\* no call has come just when main was writing the pid file.
Undisturbed == happened \cap {"hand", "overlap", "blank"} = {}

\* Besides, no Master was killed and no machine rebooted; process ids may have
\* been used again.
Orderly == happened \subseteq {"reuse"}

\* A Master that may save has in memory what is on disk: no process saves
\* over the updates of another.
NoLostUpdates == Undisturbed => \A p \in Working : memory[p] = disk

\* When no call of the script is at work, the pid file names every Master
\* that is serving: status, start and stop do not overlook one.
PidFileTrue ==
  Undisturbed /\ AtWork = {} => \A p \in Masters : proc[p] = "serving" => pidfile = p

\* What the script says in a step.
Says(c, what) == said[c] # what /\ said'[c] = what

\* When stop says, alone or in restart, that Master is stopped or not running,
\* none is left.
StopStops ==
  [][Undisturbed' => \A c \in Calls :
       Says(c, "stopped") \/ Says(c, "not running") => Masters' = {}]_vars

\* A call takes nothing but a Master for Master, though process ids are used
\* again: unless a Master was killed or the machine rebooted, no pid file is
\* left behind that could name a stranger, so start does not call a stranger
\* "already running" and stop sends it no SIGTERM.
StrangersSpared ==
  [][Orderly' => \A c \in Calls :
       Says(c, "already running") \/ (pc[c] # "term" /\ pc'[c] = "term") =>
         pid[c] \in Masters]_vars

\* A start, alone or in restart, finds the port free and does not fail, unless
\* somebody kills the Master it has started.
StartSucceeds ==
  [][Undisturbed' /\ "kill" \notin happened' =>
       \A c \in Calls : ~Says(c, "failed to start")]_vars

\* While a Master serves, no process that is started takes the pid file from
\* it, whoever starts it; only the script and a Master that is about to end do.
PidFileKept ==
  [][\A p \in Pids : proc[p] = "serving" /\ pidfile = p /\ pidfile' # p =>
       AtWork # {} \/ \E q \in Pids : proc[q] = "closing"]_vars
=============================================================================
