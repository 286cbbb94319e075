---------------------------- MODULE PanelProofs ----------------------------
(***************************************************************************)
(* Theorems about Panel, for any number of requests and sites and any      *)
(* faults.                                                                 *)
(*                                                                         *)
(* DialogTellsTruth and OfferMatches speak of one dialog that every        *)
(* follower writes to.  What makes them true, until the operator hurries,  *)
(* is that a follower has the dialog to itself: while it is at work the    *)
(* dialog is open under its job's title, nothing in it can be pressed and  *)
(* no request is waiting.                                                  *)
(***************************************************************************)
EXTENDS Panel, TLAPS

Waiting(j) == request[j] = "waiting"
Followed(j) == follower[j] \in {"stream", "broken", "polling"}
Pressable == dialog.closable \/ dialog.cleanup \/ dialog.retry

\* The open dialog has the title of a job, and a verdict is that job's.
Own == dialog.open =>
  /\ dialog.title \in Jobs /\ request[dialog.title] = "answered"
  /\ dialog.shown \in Final => dialog.shown = job[dialog.title]

\* The job of the dialog failed on the server that the page remembers.
Failed == job[dialog.title] = "error" /\ site[dialog.title] = input
Offer == dialog.open /\ dialog.cleanup => Failed

OneAtATime == \A i, j \in Jobs : Waiting(i) /\ Waiting(j) => i = j
Alone == \A j \in Jobs : Followed(j) =>
  dialog.open /\ dialog.title = j /\ ~Pressable /\ \A i \in Jobs : ~Waiting(i)
Pending == \A j \in Jobs : Waiting(j) =>
  IF op[j] = "cleanup" THEN dialog.open /\ ~Pressable /\ Failed ELSE ~dialog.open

Calm == Own /\ Offer /\ OneAtATime /\ Alone /\ Pending

Inv == TypeOK /\ (~hurried => Calm)

Statuses == {"running"} \cup Final
Dialogs == [open : BOOLEAN, title : Jobs \cup {NoJob}, shown : Statuses,
            closable : BOOLEAN, cleanup : BOOLEAN, retry : BOOLEAN]

LEMMA InitInv == Init => Inv
<1> SUFFICES ASSUME Init PROVE Inv OBVIOUS
<1>1. TypeOK BY DEF Init, TypeOK, Begun
<1>2. ~dialog.open /\ \A j \in Jobs : ~Waiting(j) /\ ~Followed(j)
  BY DEF Init, Waiting, Followed
<1> QED BY <1>1, <1>2 DEF Inv, Calm, Own, Offer, OneAtATime, Alone, Pending

\* Once the operator has hurried it stays so.
LEMMA StaysCalm == ASSUME [Next]_vars, ~hurried' PROVE ~hurried
  BY DEF Next, vars, OpenNew, Retry, CloseForm, CloseJob, Restart, SubmitServer, CleanUp, AskOther,
         Begin, End, Break, Arrives, Answer, CallFails, StreamEnds, OnError, PollEnds, PollFails,
         Finish, Hurry, asked

(***************************************************************************)
(* Types.                                                                  *)
(***************************************************************************)
\* What the operator does.
LEMMA OperatorTypes ==
  ASSUME TypeOK,
         \/ OpenNew \/ Retry \/ CloseForm \/ CloseJob
         \/ \E j \in Jobs : SubmitServer(j) \/ CleanUp(j) \/ AskOther(j)
  PROVE  TypeOK'
<1> USE DEF TypeOK, Hurry, Begun, server
<1>0. dialog \in Dialogs BY DEF Dialogs, Statuses
<1>1. CASE OpenNew BY <1>1 DEF OpenNew
<1>2. CASE Retry
  <2>1. dialog' \in Dialogs BY <1>0, <1>2 DEF Retry, Dialogs
  <2> QED BY <1>2, <2>1 DEF Retry, Dialogs, Statuses
<1>3. CASE CloseForm BY <1>3 DEF CloseForm
<1>4. CASE CloseJob
  <2>1. dialog' \in Dialogs BY <1>0, <1>4 DEF CloseJob, Dialogs
  <2> QED BY <1>4, <2>1 DEF CloseJob, Dialogs, Statuses
<1>5. ASSUME NEW j \in Jobs, SubmitServer(j) PROVE TypeOK'
  BY <1>5 DEF SubmitServer, Ask
<1>6. ASSUME NEW j \in Jobs, CleanUp(j) PROVE TypeOK'
  <2>1. dialog' \in Dialogs BY <1>0, <1>6 DEF CleanUp, Busy, Dialogs
  <2> QED BY <1>6, <2>1 DEF CleanUp, Ask, Dialogs, Statuses
<1>7. ASSUME NEW j \in Jobs, AskOther(j) PROVE TypeOK'
  BY <1>7 DEF AskOther, Ask
<1> QED BY <1>1, <1>2, <1>3, <1>4, <1>5, <1>6, <1>7

\* What the server does.
LEMMA ServerTypes ==
  ASSUME TypeOK, Restart \/ \E j \in Jobs : Begin(j) \/ End(j) \/ Break(j)
  PROVE  TypeOK'
<1> USE DEF TypeOK, Begun, server, asked
<1>1. ASSUME NEW j \in Jobs, Begin(j) PROVE TypeOK'
  BY <1>1 DEF Begin
<1>2. ASSUME NEW j \in Jobs, End(j) PROVE TypeOK'
  BY <1>2 DEF End, Final
<1>3. CASE Restart BY <1>3 DEF Restart
<1>4. ASSUME NEW j \in Jobs, Break(j) PROVE TypeOK'
  BY <1>4 DEF Break
<1> QED BY <1>1, <1>2, <1>3, <1>4

\* What the page does.
LEMMA PageTypes == ASSUME TypeOK, NEW j \in Jobs, Arrives(j) PROVE TypeOK'
<1> USE DEF TypeOK, Begun, server, asked
<1>0. dialog \in Dialogs BY DEF Dialogs, Statuses
<1>1. CASE Answer(j)
  <2>1. dialog' \in Dialogs BY <1>0, <1>1 DEF Answer, Follow, Busy, Dialogs, Statuses
  <2> QED BY <1>1, <2>1 DEF Answer, Follow, Dialogs, Statuses
<1>2. CASE CallFails(j)
  <2>1. dialog' \in Dialogs BY <1>0, <1>2 DEF CallFails, Offering, Dialogs
  <2> QED BY <1>2, <2>1 DEF CallFails, Dialogs, Statuses
<1>3. CASE StreamEnds(j) \/ PollEnds(j)
  <2>0. Finish(j) /\ job[j] \in Final /\ follower[j] \in {"stream", "polling"}
    BY <1>3 DEF StreamEnds, PollEnds
  <2>1. dialog' \in Dialogs
    <3>1. OnServers(j) \in BOOLEAN BY DEF OnServers
    <3> QED BY <1>0, <2>0, <3>1 DEF Finish, Finished, Dialogs, Statuses
  <2>2. input' \in Sites \cup {NoSite} BY <2>0 DEF Finish, InputAfter
  <2> QED BY <2>0, <2>1, <2>2 DEF Finish, Dialogs, Statuses
<1>4. CASE OnError(j) BY <1>4 DEF OnError
<1>5. CASE PollFails(j)
  <2>1. dialog' \in Dialogs BY <1>0, <1>5 DEF PollFails, Dialogs
  <2> QED BY <1>5, <2>1 DEF PollFails, Dialogs, Statuses
<1> QED BY <1>1, <1>2, <1>3, <1>4, <1>5 DEF Arrives

LEMMA NextTypes == ASSUME TypeOK, [Next]_vars PROVE TypeOK'
<1>1. CASE Next BY <1>1, OperatorTypes, ServerTypes, PageTypes DEF Next
<1>2. CASE UNCHANGED vars BY <1>2 DEF TypeOK, Begun, vars
<1> QED BY <1>1, <1>2

(***************************************************************************)
(* The follower has the dialog to itself.                                  *)
(***************************************************************************)
\* What the operator does.  Nothing can be pressed while a job is followed,
\* and an operator who does not hurry does nothing while a request waits.
LEMMA OperatorCalm ==
  ASSUME TypeOK, Calm, ~hurried',
         \/ OpenNew \/ Retry \/ CloseForm \/ CloseJob
         \/ \E j \in Jobs : SubmitServer(j) \/ CleanUp(j) \/ AskOther(j)
  PROVE  Calm'
<1> USE DEF Calm, Hurry, Early, Waiting, Followed, server
<1>0. \A j \in Jobs : ~Waiting(j)
  BY DEF OpenNew, Retry, CloseForm, CloseJob, SubmitServer, CleanUp, AskOther
<1>1. CASE OpenNew
  BY <1>0, <1>1 DEF OpenNew, Behind, Own, Offer, OneAtATime, Alone, Pending
<1>2. CASE Retry
  <2>1. ~dialog'.open BY <1>2 DEF Retry, TypeOK
  <2>2. \A j \in Jobs : ~Followed(j) BY <1>2 DEF Retry, Alone, Pressable
  <2> QED BY <1>0, <1>2, <2>1, <2>2 DEF Retry, Own, Offer, OneAtATime, Alone, Pending
<1>3. CASE CloseForm
  BY <1>0, <1>3 DEF CloseForm, Own, Offer, Failed, OneAtATime, Alone, Pressable, Pending
<1>4. CASE CloseJob
  <2>1. ~dialog'.open BY <1>4 DEF CloseJob, TypeOK
  <2>2. \A j \in Jobs : ~Followed(j) BY <1>4 DEF CloseJob, Alone, Pressable
  <2> QED BY <1>0, <1>4, <2>1, <2>2 DEF CloseJob, Own, Offer, OneAtATime, Alone, Pending
<1>5. ASSUME NEW j \in Jobs, SubmitServer(j) \/ AskOther(j) PROVE Calm'
  <2>1. /\ ~dialog.open /\ dialog' = dialog /\ follower' = follower
        /\ request' = [request EXCEPT ![j] = "waiting"] /\ op'[j] # "cleanup"
    BY <1>5 DEF SubmitServer, AskOther, OnForm, Behind, Ask, TypeOK
  <2>2. \A i \in Jobs : ~Followed(i) BY <2>1 DEF Alone
  <2>3. \A i \in Jobs : Waiting(i)' => i = j BY <1>0, <2>1 DEF TypeOK
  <2> QED BY <2>1, <2>2, <2>3 DEF Own, Offer, OneAtATime, Alone, Pending
<1>6. ASSUME NEW j \in Jobs, CleanUp(j) PROVE Calm'
  <2>1. /\ dialog.open /\ dialog.cleanup /\ request[j] = "none"
        /\ dialog' = Busy(dialog) /\ request' = [request EXCEPT ![j] = "waiting"]
        /\ op' = [op EXCEPT ![j] = "cleanup"] /\ site' = [site EXCEPT ![j] = input]
        /\ UNCHANGED <<job, follower, input>>
    BY <1>6 DEF CleanUp, Ask
  <2>2. Failed /\ dialog.title \in Jobs /\ request[dialog.title] = "answered" /\ dialog.title # j
    BY <2>1 DEF Offer, Own
  <2>3. /\ dialog'.open /\ dialog'.title = dialog.title /\ dialog'.shown = dialog.shown
        /\ ~dialog'.closable /\ ~dialog'.cleanup /\ ~dialog'.retry
    BY <2>1 DEF Busy, TypeOK
  <2>4. \A i \in Jobs : ~Followed(i) BY <2>1 DEF Alone, Pressable
  <2>5. \A i \in Jobs : Waiting(i)' => i = j BY <1>0, <2>1 DEF TypeOK
  <2>6. Own' BY <2>1, <2>2, <2>3 DEF Own, TypeOK
  <2>7. Failed' BY <2>1, <2>2, <2>3 DEF Failed, TypeOK
  <2>8. Alone' BY <2>1, <2>4 DEF Alone
  <2>9. Pending' BY <2>1, <2>3, <2>5, <2>7 DEF Pending, Pressable, TypeOK
  <2> QED BY <2>3, <2>5, <2>6, <2>8, <2>9 DEF Offer, OneAtATime
<1> QED BY <1>1, <1>2, <1>3, <1>4, <1>5, <1>6

\* What the server does.  The job in the title has begun, and has ended when
\* the dialog shows its verdict.
LEMMA ServerCalm ==
  ASSUME TypeOK, Calm, Restart \/ \E j \in Jobs : Begin(j) \/ End(j) \/ Break(j)
  PROVE  Calm'
<1> USE DEF Calm, Waiting, Followed, Pressable, asked
<1>1. ASSUME NEW j \in Jobs, Begin(j) \/ End(j) PROVE Calm'
  <2>1. /\ UNCHANGED <<request, op, site, follower, input, dialog>>
        /\ \A i \in Jobs : i # j => job'[i] = job[i]
    BY <1>1 DEF Begin, End, TypeOK
  <2>2. job[j] \notin Final /\ (request[j] = "waiting" \/ job[j] = "running")
    BY <1>1 DEF Begin, End, Final
  <2>3. Own' BY <2>1, <2>2 DEF Own
  <2>4. Failed /\ dialog.open => Failed' BY <2>1, <2>2 DEF Failed, Own, Final
  <2> QED BY <2>1, <2>3, <2>4 DEF Offer, OneAtATime, Alone, Pending
<1>2. ASSUME Restart \/ \E j \in Jobs : Break(j) PROVE Calm'
  <2>1. UNCHANGED <<request, op, site, job, input, dialog>>
    BY <1>2 DEF Restart, Break, server
  <2>2. \A i \in Jobs : Followed(i)' => Followed(i) BY <1>2 DEF Restart, Break, TypeOK
  <2> QED BY <2>1, <2>2 DEF Own, Offer, Failed, OneAtATime, Alone, Pending
<1> QED BY <1>1, <1>2

\* What the page does.
LEMMA PageCalm == ASSUME TypeOK, Calm, NEW j \in Jobs, Arrives(j) PROVE Calm'
<1> USE DEF Calm, Waiting, Followed, server, asked
<1>1. CASE Answer(j)
  <2>1. /\ request[j] = "waiting" /\ request' = [request EXCEPT ![j] = "answered"]
        /\ dialog' = Busy([dialog EXCEPT !.open = TRUE, !.title = j, !.shown = "running"])
        /\ \A i \in Jobs : i # j => follower'[i] = follower[i]
    BY <1>1 DEF Answer, Follow, TypeOK
  <2>2. /\ dialog'.open /\ dialog'.title = j /\ dialog'.shown = "running"
        /\ ~dialog'.closable /\ ~dialog'.cleanup /\ ~dialog'.retry
    BY <2>1 DEF Busy, TypeOK
  <2>3. \A i \in Jobs : ~Waiting(i)' BY <2>1 DEF OneAtATime, TypeOK
  <2>4. \A i \in Jobs : ~Followed(i) BY <2>1 DEF Alone
  <2>5. Own' BY <2>1, <2>2 DEF Own, Final, TypeOK
  <2> QED BY <2>1, <2>2, <2>3, <2>4, <2>5 DEF Offer, OneAtATime, Alone, Pressable, Pending
<1>2. CASE CallFails(j)
  <2>1. /\ request[j] = "waiting" /\ request' = [request EXCEPT ![j] = "failed"]
        /\ dialog' = IF op[j] = "cleanup" THEN Offering(dialog) ELSE dialog
        /\ UNCHANGED <<op, site, job, follower, input>>
    BY <1>2 DEF CallFails
  <2>2. \A i \in Jobs : ~Waiting(i)' BY <2>1 DEF OneAtATime, TypeOK
  <2>3. \A i \in Jobs : ~Followed(i) BY <2>1 DEF Alone
  <2>4. dialog'.open = dialog.open /\ dialog'.title = dialog.title /\ dialog'.shown = dialog.shown
    BY <2>1 DEF Offering, TypeOK
  <2>5. Own' BY <2>1, <2>4 DEF Own, TypeOK
  <2>6. Offer' BY <2>1, <2>4 DEF Offer, Failed, Pending
  <2> QED BY <2>1, <2>2, <2>3, <2>5, <2>6 DEF OneAtATime, Alone, Pending
<1>3. CASE StreamEnds(j) \/ PollEnds(j)
  <2>1. Finish(j) /\ job[j] \in Final /\ Followed(j) BY <1>3 DEF StreamEnds, PollEnds
  <2>2. dialog.open /\ dialog.title = j /\ \A i \in Jobs : ~Waiting(i) BY <2>1 DEF Alone
  <2>3. \A i \in Jobs : Followed(i) => i = j BY <2>2 DEF Alone
  <2>4. UNCHANGED <<request, op, site, job>> /\ follower' = [follower EXCEPT ![j] = "done"]
    BY <2>1 DEF Finish
  <2>5. /\ dialog'.open /\ dialog'.title = j /\ dialog'.shown = job[j]
        /\ dialog'.cleanup => OnServers(j) /\ job[j] = "error"
    BY <2>1, <2>2 DEF Finish, Finished, TypeOK
  <2>6. OnServers(j) /\ job[j] = "error" => input' = site[j] BY <2>1 DEF Finish, InputAfter
  <2>7. Own' BY <2>2, <2>4, <2>5 DEF Own
  <2>8. Offer' BY <2>4, <2>5, <2>6 DEF Offer, Failed
  <2> QED BY <2>2, <2>3, <2>4, <2>7, <2>8 DEF OneAtATime, Alone, Pending, TypeOK
<1>4. CASE OnError(j)
  <2>1. UNCHANGED <<request, op, site, job, input, dialog>> BY <1>4 DEF OnError
  <2>2. \A i \in Jobs : Followed(i)' => Followed(i) BY <1>4 DEF OnError, TypeOK
  <2> QED BY <2>1, <2>2 DEF Own, Offer, Failed, OneAtATime, Alone, Pressable, Pending
<1>5. CASE PollFails(j)
  <2>1. /\ Followed(j) /\ follower' = [follower EXCEPT ![j] = "lost"]
        /\ dialog' = [dialog EXCEPT !.closable = TRUE]
        /\ UNCHANGED <<request, op, site, job, input>>
    BY <1>5 DEF PollFails
  <2>2. ~dialog.cleanup /\ \A i \in Jobs : ~Waiting(i) BY <2>1 DEF Alone, Pressable
  <2>3. \A i \in Jobs : Followed(i) => i = j BY <2>1 DEF Alone
  <2>4. /\ dialog'.open = dialog.open /\ dialog'.title = dialog.title
        /\ dialog'.shown = dialog.shown /\ dialog'.cleanup = dialog.cleanup
    BY <2>1 DEF TypeOK
  <2> QED BY <2>1, <2>2, <2>3, <2>4 DEF Own, Offer, OneAtATime, Alone, Pending, TypeOK
<1> QED BY <1>1, <1>2, <1>3, <1>4, <1>5 DEF Arrives

LEMMA AlwaysInv == Spec => []Inv
<1>1. Inv /\ [Next]_vars => Inv'
  <2> SUFFICES ASSUME Inv, [Next]_vars PROVE Inv' OBVIOUS
  <2>1. TypeOK' BY NextTypes DEF Inv
  <2>2. ASSUME ~hurried' PROVE Calm'
    <3>1. TypeOK /\ Calm BY <2>2, StaysCalm DEF Inv
    <3>2. CASE Next BY <2>2, <3>1, <3>2, OperatorCalm, ServerCalm, PageCalm DEF Next
    <3>3. CASE UNCHANGED vars
      BY <3>1, <3>3 DEF vars, Calm, Own, Offer, Failed, OneAtATime, Alone, Pressable, Pending,
                        Waiting, Followed
    <3> QED BY <3>2, <3>3
  <2> QED BY <2>1, <2>2 DEF Inv
<1> QED BY <1>1, InitInv, PTL DEF Spec

\* Types, and that a job is followed exactly when its request was answered.
THEOREM PanelTypes == Spec => []TypeOK
<1>1. Inv => TypeOK BY DEF Inv
<1> QED BY <1>1, AlwaysInv, PTL

\* The dialog never shows the verdict of another job than the one in its title.
THEOREM VerdictIsTrue == Spec => []DialogTellsTruth
<1>1. Inv => DialogTellsTruth BY DEF Inv, Calm, Own, DialogTellsTruth
<1> QED BY <1>1, AlwaysInv, PTL

\* The clean-up is offered only for the server on which the job in the title
\* has failed.
THEOREM OfferIsTrue == Spec => []OfferMatches
<1>1. Inv => OfferMatches
  BY NoJobAssumption DEF Inv, Calm, Own, Offer, Failed, OfferMatches
<1> QED BY <1>1, AlwaysInv, PTL
=============================================================================
