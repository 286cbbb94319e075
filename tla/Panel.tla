------------------------------- MODULE Panel -------------------------------
(***************************************************************************)
(* The web panel (app.js) as one operator uses it: requests that start     *)
(* jobs, the dialog that follows a job by its event stream or by polling,  *)
(* and what the dialog offers when an installation has failed.             *)
(*                                                                         *)
(* The functions of app.js run to their next await; what they share is in  *)
(* the page, whichever job they were called for.  Both dialogs are modal:  *)
(* while one is open, nothing behind it can be reached.  Renaming a server *)
(* and copying a subscription start no job and touch none of this state.   *)
(***************************************************************************)
EXTENDS Naturals

CONSTANTS
  Jobs,    \* requests that start a job, and their jobs
  Sites,   \* what an operator enters for a server
  NoSite,  \* state.retryServerInput is null
  NoJob,   \* the title of a dialog that was never open
  Faults   \* which of "call", "stream" and "restart" happen

ASSUME NoJobAssumption == NoJob \notin Jobs

VARIABLES
  request,   \* of each request: "none", "waiting", "answered" or "failed"
  op,        \* what it asks for
  site,      \* its serverInput
  job,       \* its job on the server
  forgotten, \* jobs that a restarted Master does not know
  follower,  \* who listens to the job in the page
  input,     \* state.retryServerInput
  form,      \* server-dialog is open
  dialog,    \* job-dialog
  hurried    \* history: the operator has acted before an answer came, or
             \* pressed Esc

vars == <<request, op, site, job, forgotten, follower, input, form, dialog, hurried>>
server == <<job, forgotten>>
asked == <<op, site, hurried>>

Final == {"success", "success_with_warnings", "error"}
Begun == {j \in Jobs : job[j] # "none"}
OnServers(j) == op[j] \in {"provision", "cleanup"}  \* options.serverInput is set

Init ==
  /\ request = [j \in Jobs |-> "none"]
  /\ op = [j \in Jobs |-> "none"]
  /\ site = [j \in Jobs |-> NoSite]
  /\ job = [j \in Jobs |-> "none"]
  /\ forgotten = {}
  /\ follower = [j \in Jobs |-> "none"]
  /\ input = NoSite
  /\ form = FALSE /\ hurried = FALSE
  /\ dialog = [open |-> FALSE, title |-> NoJob, shown |-> "running",
               closable |-> FALSE, cleanup |-> FALSE, retry |-> FALSE]

(***************************************************************************)
(* What the operator does.                                                 *)
(***************************************************************************)
Hurry(early) == hurried' = (hurried \/ early)
Early == \E j \in Jobs : request[j] = "waiting"
Behind == ~form /\ ~dialog.open  \* the page behind the dialogs
OnForm == form /\ ~dialog.open    \* job-dialog opens on top of the form, never under it

\* setJobActionsRunning
Busy(d) == [d EXCEPT !.closable = FALSE, !.cleanup = FALSE, !.retry = FALSE]

\* api() with a POST, up to its await
Ask(j, o, s) ==
  /\ request[j] = "none"
  /\ request' = [request EXCEPT ![j] = "waiting"]
  /\ op' = [op EXCEPT ![j] = o]
  /\ site' = [site EXCEPT ![j] = s]
  /\ UNCHANGED <<server, follower>>

\* openNewServerDialog
OpenNew ==
  /\ Hurry(Early) /\ Behind
  /\ input' = NoSite /\ form' = TRUE
  /\ UNCHANGED <<request, op, site, server, follower, dialog>>

\* openServerRetryDialog
Retry ==
  /\ Hurry(Early) /\ dialog.open /\ dialog.retry /\ input # NoSite
  /\ dialog' = [dialog EXCEPT !.open = FALSE] /\ form' = TRUE
  /\ UNCHANGED <<request, op, site, server, follower, input>>

\* submitServer; a second click finds the form open until the first answer.
SubmitServer(j) == \E s \in Sites :
  /\ Hurry(Early) /\ OnForm
  /\ Ask(j, "provision", s)
  /\ input' = s
  /\ UNCHANGED <<form, dialog>>

\* cleanupFailedServer
CleanUp(j) ==
  /\ Hurry(Early) /\ dialog.open /\ dialog.cleanup /\ input # NoSite
  /\ Ask(j, "cleanup", input)
  /\ dialog' = Busy(dialog)
  /\ UNCHANGED <<input, form>>

\* submitUser, retryUser, deleteUser, performServerDelete, syncAll
AskOther(j) ==
  /\ Hurry(Early) /\ Behind
  /\ Ask(j, "other", NoSite)
  /\ UNCHANGED <<input, form, dialog>>

\* The buttons that close, and Esc, which the page does not intercept.
CloseForm ==
  /\ Hurry(Early) /\ OnForm /\ form' = FALSE
  /\ UNCHANGED <<request, op, site, server, follower, input, dialog>>
CloseJob ==
  /\ Hurry(Early \/ ~dialog.closable) /\ dialog.open
  /\ dialog' = [dialog EXCEPT !.open = FALSE]
  /\ UNCHANGED <<request, op, site, server, follower, input, form>>

(***************************************************************************)
(* The server, as far as the page sees it.                                 *)
(***************************************************************************)
Begin(j) ==
  /\ request[j] = "waiting" /\ job[j] = "none"
  /\ job' = [job EXCEPT ![j] = "running"]
  /\ UNCHANGED <<request, asked, forgotten, follower, input, form, dialog>>

End(j) == \E v \in Final :
  /\ job[j] = "running" /\ j \notin forgotten
  /\ job' = [job EXCEPT ![j] = v]
  /\ UNCHANGED <<request, asked, forgotten, follower, input, form, dialog>>

\* Master dies and comes back: jobs are only in memory.
Restart ==
  /\ "restart" \in Faults /\ Begun \ forgotten # {}
  /\ forgotten' = Begun
  /\ follower' = [j \in Jobs |-> IF follower[j] = "stream" THEN "broken" ELSE follower[j]]
  /\ UNCHANGED <<request, asked, job, input, form, dialog>>

Break(j) ==
  /\ "stream" \in Faults /\ follower[j] = "stream"
  /\ follower' = [follower EXCEPT ![j] = "broken"]
  /\ UNCHANGED <<request, asked, server, input, form, dialog>>

(***************************************************************************)
(* What the page does when something arrives.                              *)
(***************************************************************************)
\* Mutant: the dialog can be closed while the job runs.
FollowClosable(j) ==
  /\ dialog' = [dialog EXCEPT !.open = TRUE, !.title = j, !.shown = "running",
                              !.closable = TRUE, !.cleanup = FALSE, !.retry = FALSE]
  /\ follower' = [follower EXCEPT ![j] = IF j \in forgotten THEN "broken" ELSE "stream"]

\* followJob
Follow(j) ==
  /\ dialog' = Busy([dialog EXCEPT !.open = TRUE, !.title = j, !.shown = "running"])
  /\ follower' = [follower EXCEPT ![j] = IF j \in forgotten THEN "broken" ELSE "stream"]

\* The POST is answered.
Answer(j) ==
  /\ request[j] = "waiting" /\ job[j] # "none"
  /\ request' = [request EXCEPT ![j] = "answered"]
  /\ form' = (form /\ op[j] # "provision")
  /\ Follow(j)
  /\ UNCHANGED <<asked, server, input>>

\* showFailedServerActions
Offering(d) == [d EXCEPT !.closable = TRUE, !.cleanup = TRUE, !.retry = TRUE]

\* Mutant: api() does not look at the status of the answer.
CallFailsUnnoticed(j) ==
  /\ "call" \in Faults /\ request[j] = "waiting"
  /\ request' = [request EXCEPT ![j] = "failed"]
  /\ Follow(j)
  /\ UNCHANGED <<asked, server, input, form>>

\* The POST is refused or lost: the catch of the function that sent it.
CallFails(j) ==
  /\ "call" \in Faults /\ request[j] = "waiting"
  /\ request' = [request EXCEPT ![j] = "failed"]
  /\ dialog' = IF op[j] = "cleanup" THEN Offering(dialog) ELSE dialog
  /\ UNCHANGED <<asked, server, follower, input, form>>

\* state.retryServerInput after finishJob
InputAfter(j, failed) ==
  IF ~OnServers(j) THEN input
  ELSE IF op[j] = "provision" /\ ~failed THEN NoSite ELSE site[j]

\* Mutant: warnings count as failure.
FinishedStrict(j, v) ==
  [dialog EXCEPT !.shown = v, !.closable = TRUE,
                 !.cleanup = OnServers(j) /\ v # "success",
                 !.retry = OnServers(j) /\ (v # "success" \/ op[j] = "cleanup")]

\* job-dialog after finishJob
Finished(j, v) ==
  [dialog EXCEPT !.shown = v, !.closable = TRUE,
                 !.cleanup = OnServers(j) /\ v = "error",
                 !.retry = OnServers(j) /\ (v = "error" \/ op[j] = "cleanup")]

Finish(j) ==
  /\ dialog' = Finished(j, job[j])
  /\ input' = InputAfter(j, job[j] = "error")
  /\ follower' = [follower EXCEPT ![j] = "done"]
  /\ UNCHANGED <<request, asked, server, form>>

\* source.onmessage with the status
StreamEnds(j) == follower[j] = "stream" /\ job[j] \in Final /\ Finish(j)

\* Mutant: the error handler trusts the browser to reconnect.
OnErrorReconnecting(j) ==
  /\ follower[j] = "broken"
  /\ follower' = [follower EXCEPT ![j] = IF j \in forgotten THEN "lost" ELSE "stream"]
  /\ UNCHANGED <<request, asked, server, input, form, dialog>>

\* source.onerror.  The source that it does not close reconnects by itself,
\* unless the answer is 404.
OnError(j) ==
  /\ follower[j] = "broken"
  /\ follower' = [follower EXCEPT ![j] = IF ~dialog.closable THEN "polling"
                                         ELSE IF j \in forgotten THEN "lost" ELSE "stream"]
  /\ UNCHANGED <<request, asked, server, input, form, dialog>>

\* pollJob.  While the job runs it only asks again.
PollEnds(j) == follower[j] = "polling" /\ job[j] \in Final /\ j \notin forgotten /\ Finish(j)
PollFails(j) ==
  /\ follower[j] = "polling" /\ (j \in forgotten \/ "call" \in Faults)
  /\ follower' = [follower EXCEPT ![j] = "lost"]
  /\ dialog' = [dialog EXCEPT !.closable = TRUE]
  /\ UNCHANGED <<request, asked, server, input, form>>

Arrives(j) ==
  \/ Answer(j) \/ CallFails(j)
  \/ StreamEnds(j) \/ OnError(j) \/ PollEnds(j) \/ PollFails(j)

Next ==
  \/ OpenNew \/ Retry \/ CloseForm \/ CloseJob \/ Restart
  \/ \E j \in Jobs :
       SubmitServer(j) \/ CleanUp(j) \/ AskOther(j) \/ Begin(j) \/ End(j) \/ Break(j) \/ Arrives(j)

Spec == Init /\ [][Next]_vars

\* The server takes up requests and the page handles what arrives.  No job has
\* to end and no operator to act.
Fairness == \A j \in Jobs :
  /\ WF_vars(Begin(j))
  /\ WF_vars(Answer(j)) /\ WF_vars(StreamEnds(j)) /\ WF_vars(OnError(j))
  /\ WF_vars(PollEnds(j)) /\ WF_vars(PollFails(j))
FairSpec == Spec /\ Fairness

(***************************************************************************)
(* Properties.                                                             *)
(***************************************************************************)
\* Types, and a job that was answered is listened to, or was.
TypeOK ==
  /\ request \in [Jobs -> {"none", "waiting", "answered", "failed"}]
  /\ op \in [Jobs -> {"none", "provision", "cleanup", "other"}]
  /\ site \in [Jobs -> Sites \cup {NoSite}]
  /\ job \in [Jobs -> {"none", "running"} \cup Final]
  /\ forgotten \subseteq Begun
  /\ follower \in [Jobs -> {"none", "stream", "broken", "polling", "done", "lost"}]
  /\ \A j \in Jobs : request[j] = "answered" <=> follower[j] # "none"
  /\ input \in Sites \cup {NoSite} /\ form \in BOOLEAN /\ hurried \in BOOLEAN
  /\ dialog \in [open : BOOLEAN, title : Jobs \cup {NoJob}, shown : {"running"} \cup Final,
                 closable : BOOLEAN, cleanup : BOOLEAN, retry : BOOLEAN]

\* Unless the operator has hurried, a verdict in the dialog is that of the job
\* whose title it has (followJob, finishJob), whatever else was followed.
DialogTellsTruth ==
  ~hurried /\ dialog.open /\ dialog.shown \in Final => dialog.shown = job[dialog.title]

\* Unless the operator has hurried, the clean-up is offered only under a job on
\* that very server that ended in error (finishJob, cleanupFailedServer).
OfferMatches ==
  ~hurried /\ dialog.open /\ dialog.cleanup =>
    dialog.title # NoJob /\ job[dialog.title] = "error" /\ site[dialog.title] = input

\* A dialog that cannot be closed and whose job does not run becomes closable,
\* or turns to a job that runs: broken streams, lost calls and a restart of
\* Master never leave it blocked (onerror, pollJob, cleanupFailedServer).
Stuck ==
  /\ dialog.open /\ ~dialog.closable
  /\ ~(job[dialog.title] = "running" /\ dialog.title \notin forgotten)
NeverStuck == Stuck ~> ~Stuck
=============================================================================
