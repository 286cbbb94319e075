-------------------------------- MODULE Jobs --------------------------------
(***************************************************************************)
(* Jobs and those who follow them (jobs.go, handleJobEvents).              *)
(*                                                                         *)
(* Each job is a goroutine that logs events, runs scripts whose output two *)
(* more goroutines log (ssh.go), and ends with a status.  A job keeps its  *)
(* last events and hands each new one to its subscribers, without waiting  *)
(* for a subscriber whose channel is full.  A stream is one request to     *)
(* /api/jobs/{id}/events: it writes what the job had logged when it        *)
(* subscribed and then what comes through its channel.                     *)
(*                                                                         *)
(* What the events say is not kept, but their numbers and kinds are.       *)
(***************************************************************************)
EXTENDS Integers, Sequences, Places

CONSTANTS
  JobIds,      \* random ids
  Streams,     \* requests for events
  Afters,      \* what requests give for "after": an int64, 0 if it cannot be read
  NoJob,       \* a stream that has not begun
  MapCap,      \* jobs the manager remembers: 100
  LogCap,      \* events a job keeps: 2000
  ChannelCap,  \* events a channel holds: 64
  MaxEvents    \* bound: events a job logs before its status

VARIABLES
  job,     \* per id the Job, and where its goroutine stands
  order,   \* JobManager.order
  known,   \* the ids in JobManager.jobs
  stream   \* per request: its job, its channel and what it has written

vars == <<job, order, known, stream>>

ASSUME NoJobAssumption == NoJob \notin JobIds
ASSUME AftersAssumption == Afters \subseteq Int
ASSUME CapsAssumption ==
  /\ MapCap \in Nat \ {0} /\ LogCap \in Nat \ {0} /\ ChannelCap \in Nat \ {0}
  /\ MaxEvents \in Nat

Final == {"success", "success_with_warnings", "error"}
Statuses == {"none", "running"} \cup Final

\* A status event has its status for a kind.
Events == [number : Nat, kind : {"log", "warning"} \cup Final]

JobStates ==
  [status : Statuses, log : Seq(Events), sequence : Nat, warned : BOOLEAN,
   pc : {"none", "begun", "working", "script", "verdict", "done"},
   readers : 0..2, verdict : Final]

\* "from", "lost" and "left" are history: the job's last event when the stream
\* subscribed; an event did not fit into the channel; the client went away.
StreamStates ==
  [job : JobIds \cup {NoJob}, pc : {"idle", "found", "writing", "ended"},
   after : Int, from : Nat, past : Seq(Events), channel : Seq(Events),
   subscribed : BOOLEAN, written : Seq(Events), lost : BOOLEAN, left : BOOLEAN]

Init ==
  /\ job = [j \in JobIds |->
       [status |-> "none", log |-> <<>>, sequence |-> 0, warned |-> FALSE,
        pc |-> "none", readers |-> 0, verdict |-> "success"]]
  /\ order = <<>> /\ known = {}
  /\ stream = [f \in Streams |->
       [job |-> NoJob, pc |-> "idle", after |-> 0, from |-> 0, past |-> <<>>,
        channel |-> <<>>, subscribed |-> FALSE, written |-> <<>>,
        lost |-> FALSE, left |-> FALSE]]

(***************************************************************************)
(* JobManager.Start: beyond MapCap the oldest job is dropped, ended or not.*)
(***************************************************************************)
\* Mutant: the oldest id leaves the order and stays in the map.
StartKeepingMap(j) ==
  /\ job[j].pc = "none"
  /\ job' = [job EXCEPT ![j].status = "running", ![j].pc = "begun"]
  /\ order' = IF Len(order) = MapCap THEN Append(Tail(order), j) ELSE Append(order, j)
  /\ known' = known \cup {j}
  /\ UNCHANGED stream

Start(j) ==
  /\ job[j].pc = "none"
  /\ job' = [job EXCEPT ![j].status = "running", ![j].pc = "begun"]
  /\ LET all == Append(order, j)
         full == Len(all) > MapCap IN
     /\ order' = IF full THEN Tail(all) ELSE all
     /\ known' = (known \cup {j}) \ (IF full THEN {Head(all)} ELSE {})
  /\ UNCHANGED stream

(***************************************************************************)
(* Job.append, under the job's lock.                                       *)
(***************************************************************************)
Trim(log) == IF Len(log) > LogCap THEN SubSeq(log, Len(log) - LogCap + 1, Len(log)) ELSE log

\* Mutant: the number is taken from the length of the trimmed log.
NumberedByLength(j, kind) == [number |-> Len(job[j].log) + 1, kind |-> kind]

Numbered(j, kind) == [number |-> job[j].sequence + 1, kind |-> kind]

\* A send to a full channel is skipped.
Offer(s, event) ==
  IF Len(s.channel) < ChannelCap THEN [s EXCEPT !.channel = Append(@, event)]
                                 ELSE [s EXCEPT !.lost = TRUE]

Subscribed(f, j) == stream[f].job = j /\ stream[f].subscribed

\* The job with one event more.
Logged(j, kind) ==
  [job[j] EXCEPT !.sequence = @ + 1, !.log = Trim(Append(@, Numbered(j, kind))),
                 !.warned = @ \/ kind = "warning"]

Report(j, kind, after) ==
  /\ job' = [job EXCEPT ![j] = after]
  /\ stream' = [f \in Streams |->
       IF Subscribed(f, j) THEN Offer(stream[f], Numbered(j, kind)) ELSE stream[f]]
  /\ UNCHANGED <<order, known>>

MayLog(j) == job[j].sequence < MaxEvents

\* The goroutine's first line.
Begin(j) ==
  /\ job[j].pc = "begun"
  /\ Report(j, "log", [Logged(j, "log") EXCEPT !.pc = "working"])

Log(j, kind) ==
  /\ job[j].pc = "working" /\ MayLog(j)
  /\ Report(j, kind, Logged(j, kind))

(***************************************************************************)
(* runSSHCommand: two goroutines read the script's output and log it line  *)
(* by line; one that cannot go on logs a warning and ends.  The script is  *)
(* over when it has ended and both readers have.                           *)
(***************************************************************************)
RunScript(j) ==
  /\ job[j].pc = "working" /\ MayLog(j)
  /\ job' = [job EXCEPT ![j].pc = "script", ![j].readers = 2]
  /\ UNCHANGED <<order, known, stream>>

ReadLine(j) ==
  /\ job[j].readers > 0 /\ MayLog(j)
  /\ Report(j, "log", Logged(j, "log"))

ReaderFails(j) ==
  /\ job[j].readers > 0 /\ MayLog(j)
  /\ Report(j, "warning", [Logged(j, "warning") EXCEPT !.readers = @ - 1])

\* Mutant: a reader reports its end twice.
ReaderEndsTwice(j) ==
  /\ job[j].pc = "script"
  /\ job' = [job EXCEPT ![j].readers = @ - 1]
  /\ UNCHANGED <<order, known, stream>>

ReaderEnds(j) ==
  /\ job[j].readers > 0
  /\ job' = [job EXCEPT ![j].readers = @ - 1]
  /\ UNCHANGED <<order, known, stream>>

\* Mutant: the readers are not waited for.
ScriptEndsEarly(j) ==
  /\ job[j].pc = "script"
  /\ job' = [job EXCEPT ![j].pc = "working"]
  /\ UNCHANGED <<order, known, stream>>

ScriptEnds(j) ==
  /\ job[j].pc = "script" /\ job[j].readers = 0
  /\ job' = [job EXCEPT ![j].pc = "working"]
  /\ UNCHANGED <<order, known, stream>>

(***************************************************************************)
(* The work returns.  success() looks for warnings and then calls finish,  *)
(* which logs the status, untrimmed, and closes every channel.             *)
(***************************************************************************)
Closed(s) == [s EXCEPT !.subscribed = FALSE]

\* Mutant: finish keeps the subscribers and their channels.
FinishOpen(j, status) ==
  Report(j, status, [job[j] EXCEPT !.status = status, !.pc = "done", !.sequence = @ + 1,
                                   !.log = Append(@, Numbered(j, status))])

Finish(j, status) ==
  /\ job' = [job EXCEPT ![j].status = status, ![j].pc = "done", ![j].sequence = @ + 1,
                        ![j].log = Append(@, Numbered(j, status))]
  /\ stream' = [f \in Streams |->
       IF Subscribed(f, j) THEN Closed(Offer(stream[f], Numbered(j, status))) ELSE stream[f]]
  /\ UNCHANGED <<order, known>>

Fail(j) == job[j].pc = "working" /\ Finish(j, "error")

Succeed(j) ==
  /\ job[j].pc = "working"
  /\ job' = [job EXCEPT ![j].pc = "verdict", ![j].verdict =
       IF job[j].warned THEN "success_with_warnings" ELSE "success"]
  /\ UNCHANGED <<order, known, stream>>

Conclude(j) == job[j].pc = "verdict" /\ Finish(j, job[j].verdict)

(***************************************************************************)
(* handleJobEvents: find the job, subscribe, write, until the channel is   *)
(* closed and empty or the client is gone.  What was logged before is      *)
(* written first and without looking whether the client is still there.    *)
(* "after" picks among the events logged before; what comes through the    *)
(* channel is written whatever its number.                                 *)
(***************************************************************************)
Find(f, j) ==
  /\ stream[f].pc = "idle" /\ j \in known
  /\ \E n \in Afters :
       stream' = [stream EXCEPT ![f].pc = "found", ![f].job = j, ![f].after = n]
  /\ UNCHANGED <<job, order, known>>

\* Mutant: the event the client has already seen is sent again.
LaterOrSame(log, n) == EntriesAt(log, {i \in DOMAIN log : log[i].number >= n})

Later(log, n) == EntriesAt(log, {i \in DOMAIN log : log[i].number > n})

Subscribe(f) ==
  /\ stream[f].pc = "found"
  /\ LET it == job[stream[f].job] IN
     stream' = [stream EXCEPT ![f].pc = "writing",
                  ![f].past = Later(it.log, stream[f].after), ![f].from = it.sequence,
                  ![f].subscribed = it.status = "running"]
  /\ UNCHANGED <<job, order, known>>

WritePast(f) ==
  /\ stream[f].pc = "writing" /\ stream[f].past # <<>>
  /\ stream' = [stream EXCEPT ![f].past = Tail(@),
                  ![f].written = Append(@, Head(stream[f].past))]
  /\ UNCHANGED <<job, order, known>>

WriteNew(f) ==
  /\ stream[f].pc = "writing" /\ stream[f].past = <<>> /\ stream[f].channel # <<>>
  /\ stream' = [stream EXCEPT ![f].channel = Tail(@),
                  ![f].written = Append(@, Head(stream[f].channel))]
  /\ UNCHANGED <<job, order, known>>

EndStream(f) ==
  /\ stream[f].pc = "writing" /\ stream[f].past = <<>>
  /\ stream[f].channel = <<>> /\ ~stream[f].subscribed
  /\ stream' = [stream EXCEPT ![f].pc = "ended"]
  /\ UNCHANGED <<job, order, known>>

\* The request's context is done; the deferred cancel closes the channel.
Leave(f) ==
  /\ stream[f].pc = "writing" /\ stream[f].past = <<>>
  /\ stream' = [stream EXCEPT ![f] = [Closed(@) EXCEPT !.pc = "ended", !.left = TRUE]]
  /\ UNCHANGED <<job, order, known>>

Work(j) ==
  \/ Begin(j) \/ Fail(j) \/ Succeed(j) \/ Conclude(j)
  \/ \E kind \in {"log", "warning"} : Log(j, kind)
  \/ RunScript(j) \/ ReadLine(j) \/ ReaderFails(j) \/ ReaderEnds(j) \/ ScriptEnds(j)

Handle(f) == Subscribe(f) \/ WritePast(f) \/ WriteNew(f) \/ EndStream(f)

Next ==
  \/ \E j \in JobIds : Start(j) \/ Work(j)
  \/ \E f \in Streams : Handle(f) \/ Leave(f)
  \/ \E f \in Streams, j \in JobIds : Find(f, j)

Spec == Init /\ [][Next]_vars

\* A handler that can write does.  Nothing is assumed of the jobs.
FairSpec == Spec /\ \A f \in Streams : WF_vars(Handle(f))
-----------------------------------------------------------------------------
(***************************************************************************)
(* Properties.                                                             *)
(***************************************************************************)

\* Jobs, streams and the manager's tables have their types.
TypeOK ==
  /\ job \in [JobIds -> JobStates] /\ stream \in [Streams -> StreamStates]
  /\ order \in Seq(JobIds) /\ known \subseteq JobIds

\* Jobs keep the promise of JobLife: in particular no warning comes between
\* the look for warnings and the status, though two goroutines log what a
\* script writes.
Life == INSTANCE JobLife WITH status <- [j \in JobIds |-> job[j].status],
                              warned <- [j \in JobIds |-> job[j].warned]
LifeSpec == Life!Spec

\* The map and the order in which it forgets name the same jobs, each once,
\* and never more than MapCap.
ManagerAgrees ==
  /\ known = {order[i] : i \in DOMAIN order}
  /\ \A i, k \in DOMAIN order : i # k => order[i] # order[k]
  /\ Len(order) <= MapCap

(* What a stream has written, or is going to write as things stand. *)
Due(f) == stream[f].written \o stream[f].past \o stream[f].channel
Running(f) == stream[f].pc \in {"writing", "ended"} /\ ~stream[f].left

\* The events a stream leaves out because its client has them: those up to the
\* one it named, as far as they were logged when the stream subscribed.
Seen(s) == CASE s.after < 0      -> 0
             [] s.after > s.from -> s.from
             [] OTHER            -> s.after

\* A stream whose channel never overflowed misses nothing and repeats
\* nothing, whatever event it named and wherever between two events it
\* subscribed: its events have consecutive numbers up to the job's last, and
\* they begin behind the last one its client has seen, or later if the job no
\* longer kept that one's successor.  A client that names an event which is not
\* there yet gets it nevertheless.
FollowersMissNothing ==
  \A f \in Streams : Running(f) /\ ~stream[f].lost =>
    LET due == Due(f)
        last == job[stream[f].job].sequence
        seen == Seen(stream[f]) IN
    /\ \A i \in DOMAIN due : due[i].number = last - Len(due) + i
    /\ Len(due) <= last - seen
    /\ seen + LogCap >= stream[f].from => Len(due) = last - seen

\* With or without overflow a stream's events are in order, none twice.
FollowersInOrder ==
  \A f \in Streams : LET due == Due(f) IN
    \A i \in 1..Len(due)-1 : due[i].number < due[i+1].number

\* A status is the last thing a stream writes, and it is the job's.
StatusComesLast ==
  \A f \in Streams : LET due == Due(f) IN
    \A i \in DOMAIN due : due[i].kind \in Final =>
      i = Len(due) /\ due[i].kind = job[stream[f].job].status

\* When a job has ended, every stream of it ends: no follower waits at a
\* channel nobody closes.
StreamsEnd ==
  \A f \in Streams, j \in JobIds :
    (stream[f].job = j /\ job[j].status \in Final) ~> (stream[f].pc = "ended")
=============================================================================
