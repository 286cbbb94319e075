------------------------- MODULE ControlPlaneProofs -------------------------
(***************************************************************************)
(* Theorems about ControlPlane for every number of jobs, users, servers    *)
(* and Slaves, every set of requests and every combination of faults.      *)
(***************************************************************************)
EXTENDS ControlPlane, TLAPS

(***************************************************************************)
(* The callbacks keep a document a document.                               *)
(***************************************************************************)
LEMMA EmptyDocumentType == EmptyDocument \in Documents
  BY DEF EmptyDocument, Documents, Links, NoLink, Clients

LEMMA AddUserType ==
  ASSUME NEW d \in Documents, NEW u \in UserIds, NEW e \in Emails
  PROVE  AddUser(d, u, e) \in Documents
  BY DEF AddUser, Documents, Links, NoLink, Clients

LEMMA RemoveUserType ==
  ASSUME NEW d \in Documents, NEW u \in UserIds
  PROVE  RemoveUser(d, u) \in Documents
  BY DEF RemoveUser, Documents, Links, NoLink, Clients

LEMMA AddServerType ==
  ASSUME NEW d \in Documents, NEW s \in ServerIds,
         NEW site \in Sites, NEW name \in Names
  PROVE  AddServer(d, s, site, name) \in Documents
  BY DEF AddServer, Documents, ServerEntries, Statuses

LEMMA ForgetServerType ==
  ASSUME NEW d \in Documents, NEW s \in ServerIds
  PROVE  ForgetServer(d, s) \in Documents
  BY DEF ForgetServer, Documents, Links, NoLink, Clients

LEMMA SetLinkType ==
  ASSUME NEW d \in Documents, NEW u \in UserIds, NEW s \in ServerIds,
         NEW link \in Links
  PROVE  SetLink(d, u, s, link) \in Documents
  BY DEF SetLink, Documents

LEMMA SetStatusType ==
  ASSUME NEW d \in Documents, NEW s \in Servers(d), NEW status \in Statuses
  PROVE  SetStatus(d, s, status) \in Documents
  BY DEF SetStatus, Documents, Servers, ServerEntries

LEMMA SetNameType ==
  ASSUME NEW d \in Documents, NEW s \in Servers(d), NEW name \in Names
  PROVE  SetName(d, s, name) \in Documents
  BY DEF SetName, Documents, Servers, ServerEntries

(***************************************************************************)
(* Who is in the tables afterwards.                                        *)
(***************************************************************************)
LEMMA AddUserTables ==
  ASSUME NEW d \in Documents, NEW u \in UserIds, NEW e \in Emails
  PROVE  /\ Users(AddUser(d, u, e)) = Users(d) \cup {u}
         /\ Servers(AddUser(d, u, e)) = Servers(d)
  BY NoEntryAssumption DEF AddUser, Users, Servers, Documents

LEMMA AddServerTables ==
  ASSUME NEW d \in Documents, NEW s \in ServerIds,
         NEW site \in Sites, NEW name \in Names
  PROVE  /\ Users(AddServer(d, s, site, name)) = Users(d)
         /\ Servers(AddServer(d, s, site, name)) = Servers(d) \cup {s}
  <1>1. [site |-> site, name |-> name, status |-> "ready"] \in ServerEntries
    BY DEF ServerEntries, Statuses
  <1> QED
    BY <1>1, NoEntryAssumption DEF AddServer, Users, Servers, Documents

(***************************************************************************)
(* What an update leaves in memory and on disk, whether it is saved or not.*)
(***************************************************************************)
LEMMA UpdateType ==
  ASSUME mem \in Documents, disk \in Documents,
         NEW accepted \in BOOLEAN, NEW new, NEW done \in BOOLEAN,
         accepted => new \in Documents,
         Update(accepted, new, done)
  PROVE  mem' \in Documents /\ disk' \in Documents
  BY DEF Update, Save, store

(***************************************************************************)
(* TypeOK is not inductive: a step that looks an email or an address up in *)
(* a snapshot has a type only if the job's targets are entries of it.      *)
(***************************************************************************)
Sound(f) ==
  /\ f.pc # "idle" => f.op \in Requests
  /\ f.pc \in {"idle", "waiting", "setup", "store"} => f.todo = {} /\ f.sites = {} /\ f.seen = {}
  /\ f.todo \subseteq Users(f.snap) \X Servers(f.snap)
  /\ f.sites \subseteq Servers(f.snap)
  /\ f.pc \in {"adopt", "link"} => f.user \in Users(f.snap)
  /\ f.pc \in {"adopt", "link"} \cup Removing => f.server \in Servers(f.snap)
  /\ f.seen # {} => f.op.kind = "sync"
  /\ f.pc = "setup" => f.op.kind = "provision"
  /\ f.pc = "ensure" /\ f.op.kind = "sync" => f.server \in Servers(f.snap)
  /\ f.pc \in {"store", "sites", "purge"} /\ f.op.kind = "delete" => f.user \in Users(f.snap)

TypeInv == TypeOK /\ \A j \in Jobs : Sound(run[j])

LEMMA IdleFrameSound == IdleFrame \in Frames /\ Sound(IdleFrame)
  <1>1. EmptyDocument \in Documents
    BY EmptyDocumentType
  <1>2. IdleFrame \in Frames
    BY <1>1 DEF IdleFrame, Frames, Places, Clients, Statuses
  <1>3. Sound(IdleFrame)
    BY DEF IdleFrame, Sound, Removing
  <1> QED BY <1>2, <1>3

LEMMA MoveType ==
  ASSUME run \in [Jobs -> Frames], \A k \in Jobs : Sound(run[k]),
         NEW j \in Jobs, NEW f \in Frames, Sound(f), Move(j, f)
  PROVE  run' \in [Jobs -> Frames] /\ \A k \in Jobs : Sound(run'[k])
  BY DEF Move

(***************************************************************************)
(* What the guards of a step say about the job that takes it.              *)
(***************************************************************************)
LEMMA LookUps ==
  ASSUME NEW f \in Frames, Sound(f)
  PROVE  /\ f.snap \in Documents
         /\ \A u \in Users(f.snap) : u \in UserIds /\ f.snap.user[u] \in Emails
         /\ \A s \in Servers(f.snap) :
              s \in ServerIds /\ f.snap.server[s].site.address \in Addresses
         /\ \A p \in f.todo : /\ p \in UserIds \X ServerIds
                              /\ p[1] \in Users(f.snap) /\ p[2] \in Servers(f.snap)
  BY DEF Frames, Sound, Documents, Users, Servers, ServerEntries, Sites

LEMMA OpTypes ==
  ASSUME NEW f \in Frames, Sound(f), f.pc # "idle"
  PROVE  /\ f.op \in Requests /\ f.op.kind \in Kinds
         /\ f.op.kind = "create" => f.op.email \in Emails
         /\ f.op.kind \in {"retry", "delete"} => f.op.user \in UserIds
         /\ f.op.kind \in {"uninstall", "forget"} => f.op.server \in ServerIds
         /\ OnSite(f.op) => f.op.site \in Sites
         /\ f.op.kind = "provision" => f.op.name \in Names
  BY RequestsAssumption DEF Sound, OnSite

LEMMA SubmitTypes ==
  ASSUME TypeInv, NEW j \in Jobs, NEW q \in Requests, Submit(j, q)
  PROVE  TypeInv'
  <1> DEFINE f == [run[j] EXCEPT !.op = q, !.pc = "waiting"]
  <1>1. run[j] \in Frames /\ Sound(run[j]) /\ run[j].pc = "idle"
    BY DEF TypeInv, TypeOK, Submit, At
  <1>2. f \in Frames /\ Sound(f)
    BY <1>1 DEF Frames, Sound, Places, Removing
  <1>3. run' \in [Jobs -> Frames] /\ \A k \in Jobs : Sound(run'[k])
    BY <1>2, MoveType DEF TypeInv, TypeOK, Submit
  <1>4. offered' \subseteq Sites
    BY DEF Submit, TypeInv, TypeOK
  <1> QED
    BY <1>3, <1>4 DEF Submit, TypeInv, TypeOK, store, slaves, history

LEMMA BeginTypes ==
  ASSUME TypeInv, NEW j \in Jobs, BeginJob(j)
  PROVE  TypeInv'
  <1> DEFINE f == run[j]
             Taken(next) == [next EXCEPT !.snap = mem]
  <1>1. f \in Frames /\ Sound(f) /\ f.pc = "waiting" /\ mem \in Documents
    BY DEF TypeInv, TypeOK, BeginJob, BeginCreate, BeginRetry, BeginDelete, BeginSync,
           BeginProvision, BeginCleanup, BeginDrop, Begin, At
  <1>2. f.op \in Requests /\ f.todo = {} /\ f.sites = {} /\ f.seen = {}
    BY <1>1 DEF Sound
  <1>3. Taken(Failed(j)) \in Frames /\ Sound(Taken(Failed(j)))
    BY <1>1, <1>2 DEF Failed, Frames, Sound, Places, Removing
  <1>4. ASSUME NEW kinds, NEW accepted, NEW next,
               Begin(j, kinds, accepted, next),
               accepted => Taken(next) \in Frames /\ Sound(Taken(next))
        PROVE  TypeInv'
    <2>1. PICK g \in Frames : Sound(g) /\ Move(j, g)
      BY <1>3, <1>4 DEF Begin
    <2>2. run' \in [Jobs -> Frames] /\ \A k \in Jobs : Sound(run'[k])
      BY <2>1, MoveType DEF TypeInv, TypeOK
    <2> QED
      BY <1>4, <2>2 DEF Begin, Lock, TypeInv, TypeOK, store, slaves, history
  <1>5. CASE BeginCreate(j)
    <2>1. Taken(Goto(j, "store")) \in Frames /\ Sound(Taken(Goto(j, "store")))
      <3>1. f.op.kind = "create"
        BY <1>5 DEF BeginCreate, Begin, Kind
      <3> QED
        BY <1>1, <1>2, <3>1 DEF Goto, Frames, Sound, Places, Removing
    <2> QED BY <2>1, <1>4, <1>5 DEF BeginCreate, EmailTaken
  <1>6. CASE BeginRetry(j)
    <2> DEFINE next == [Goto(j, "ensure") EXCEPT !.user = Op(j).user,
                                                 !.todo = {Op(j).user} \X Servers(mem)]
    <2>1. Op(j).user \in Users(mem) => Taken(next) \in Frames /\ Sound(Taken(next))
      <3>1. f.op.kind = "retry"
        BY <1>6 DEF BeginRetry, Begin, Kind
      <3> QED
        BY <1>1, <1>2, <3>1 DEF Goto, Op, Frames, Sound, Places, Removing, Users, Servers
    <2>2. Begin(j, {"retry"}, Op(j).user \in Users(mem), next)
      BY <1>6 DEF BeginRetry
    <2> HIDE DEF next
    <2> QED BY <2>1, <2>2, <1>4
  <1>7. CASE BeginDelete(j)
    <2> DEFINE next == [Goto(j, "store") EXCEPT !.user = Op(j).user]
    <2>1. Op(j).user \in Users(mem) => Taken(next) \in Frames /\ Sound(Taken(next))
      BY <1>1, <1>2 DEF Goto, Op, Frames, Sound, Places, Removing, Users
    <2>2. Begin(j, {"delete"}, Op(j).user \in Users(mem), next)
      BY <1>7 DEF BeginDelete
    <2> HIDE DEF next
    <2> QED BY <2>1, <2>2, <1>4
  <1>8. CASE BeginSync(j)
    <2> DEFINE next == [Goto(j, "sites") EXCEPT !.sites = Servers(mem)]
    <2>1. Taken(next) \in Frames
      BY <1>1, <1>2 DEF Goto, Frames, Places, Servers
    <2>2. f.op.kind = "sync"
      BY <1>8 DEF BeginSync, Begin, Kind
    <2>3. Sound(Taken(next))
      BY <1>1, <1>2, <2>2 DEF Goto, Frames, Sound, Removing, Servers
    <2> QED BY <2>1, <2>3, <1>4, <1>8 DEF BeginSync
  <1>9. CASE BeginProvision(j)
    <2>1. Taken(Goto(j, "setup")) \in Frames /\ Sound(Taken(Goto(j, "setup")))
      <3>1. f.op.kind = "provision"
        BY <1>9 DEF BeginProvision, Begin, Kind
      <3> QED
        BY <1>1, <1>2, <3>1 DEF Goto, Frames, Sound, Places, Removing
    <2> QED BY <2>1, <1>4, <1>9 DEF BeginProvision, SiteTaken
  <1>10. CASE BeginCleanup(j)
    <2>1. Taken(Goto(j, "teardown")) \in Frames /\ Sound(Taken(Goto(j, "teardown")))
      BY <1>1, <1>2 DEF Goto, Frames, Sound, Places, Removing
    <2> QED BY <2>1, <1>4, <1>10 DEF BeginCleanup
  <1>11. CASE BeginDrop(j)
    <2> DEFINE next == [Goto(j, IF Kind(j) = "forget" THEN "drop" ELSE "teardown")
                          EXCEPT !.server = Op(j).server]
    <2>1. Op(j).server \in Servers(mem) => Taken(next) \in Frames /\ Sound(Taken(next))
      BY <1>1, <1>2 DEF Goto, Op, Kind, Frames, Sound, Places, Removing, Servers
    <2>2. Begin(j, {"uninstall", "forget"}, Op(j).server \in Servers(mem), next)
      BY <1>11 DEF BeginDrop
    <2> HIDE DEF next
    <2> QED BY <2>1, <2>2, <1>4
  <1> QED
    BY <1>5, <1>6, <1>7, <1>8, <1>9, <1>10, <1>11 DEF BeginJob

(***************************************************************************)
(* The steps of a running job, by what they change.  First those that only *)
(* move the job.                                                           *)
(***************************************************************************)
LEMMA LocalTypes ==
  ASSUME TypeInv, NEW j \in Jobs, NEW f \in Frames, Sound(f), Move(j, f),
         UNCHANGED <<store, slaves, holder, offered, history>>
  PROVE  TypeInv'
  <1>1. run' \in [Jobs -> Frames] /\ \A k \in Jobs : Sound(run'[k])
    BY MoveType DEF TypeInv, TypeOK
  <1> QED
    BY <1>1 DEF TypeInv, TypeOK, store, slaves, history

LEMMA FrameOf ==
  ASSUME TypeInv, NEW j \in Jobs
  PROVE  run[j] \in Frames /\ Sound(run[j])
  BY DEF TypeInv, TypeOK

\* A job that goes on at a place that asks nothing of its frame.
LEMMA GotoType ==
  ASSUME TypeInv, NEW j \in Jobs, run[j].pc \notin {"idle", "waiting"},
         NEW place \in {"unlock", "status", "drop"}
  PROVE  /\ Goto(j, place) \in Frames /\ Sound(Goto(j, place))
         /\ Failed(j) \in Frames /\ Sound(Failed(j))
  <1>1. run[j] \in Frames /\ Sound(run[j])
    BY FrameOf
  <1>2. Goto(j, place) \in Frames /\ Failed(j) \in Frames
    BY <1>1 DEF Goto, Failed, Frames, Places
  <1>3. Sound(Goto(j, place))
    BY <1>1 DEF Goto, Frames, Sound, Removing
  <1>4. Sound(Failed(j))
    BY <1>1 DEF Failed, Frames, Sound, Removing
  <1> QED BY <1>2, <1>3, <1>4

LEMMA AnswerType ==
  ASSUME TypeInv, NEW j \in Jobs, At(j, {"ensure"}), NEW p \in run[j].todo,
         NEW place \in {"link", "adopt"}, NEW client \in Clients
  PROVE  Answer(j, p, place, client) \in Frames /\ Sound(Answer(j, p, place, client))
  <1>1. run[j] \in Frames /\ Sound(run[j]) /\ run[j].pc = "ensure"
    BY FrameOf DEF At
  <1>2. /\ p[1] \in UserIds /\ p[2] \in ServerIds
        /\ p[1] \in Users(run[j].snap) /\ p[2] \in Servers(run[j].snap)
    BY <1>1, LookUps
  <1> QED
    BY <1>1, <1>2 DEF Answer, Goto, Frames, Sound, Places, Removing

LEMMA ClientIdsType ==
  ASSUME NEW records \in SUBSET Records
  PROVE  ClientIds(records) \subseteq Clients
  BY DEF ClientIds, Records

LEMMA SlaveLookUp ==
  ASSUME TypeInv, NEW a \in Addresses, NEW e
  PROVE  slave[a].records \in SUBSET Records /\ Matching(slave[a].records, e) \in SUBSET Records
  BY DEF TypeInv, TypeOK, SlaveStates, Matching

LEMMA AskTypes ==
  ASSUME TypeInv, NEW j \in Jobs, Conflict(j) \/ Adopt(j)
  PROVE  TypeInv'
  <1>1. CASE Conflict(j)
    <2>1. PICK p \in run[j].todo : Move(j, Answer(j, p, "adopt", 0))
      BY <1>1 DEF Conflict, Missing
    <2>2. Answer(j, p, "adopt", 0) \in Frames /\ Sound(Answer(j, p, "adopt", 0))
      BY <1>1, AnswerType DEF Conflict, Clients
    <2> QED BY <1>1, <2>1, <2>2, LocalTypes DEF Conflict
  <1>2. CASE Adopt(j)
    <2>1. run[j] \in Frames /\ Sound(run[j]) /\ run[j].pc = "adopt"
      BY <1>2, FrameOf DEF Adopt, At
    <2>2. AddressOf(j, run[j].server) \in Addresses
      BY <2>1, LookUps DEF Sound, AddressOf
    <2>3. Goto(j, "link") \in Frames /\ Sound(Goto(j, "link"))
      BY <2>1 DEF Goto, Frames, Sound, Places, Removing
    <2>4. ASSUME NEW c \in Clients
          PROVE  /\ [Goto(j, "link") EXCEPT !.reply = c] \in Frames
                 /\ Sound([Goto(j, "link") EXCEPT !.reply = c])
      BY <2>3 DEF Goto, Frames, Sound, Removing
    <2>5. ClientIds(Matching(slave[AddressOf(j, run[j].server)].records,
                             EmailOf(j, run[j].user))) \subseteq Clients
      BY <2>2, SlaveLookUp, ClientIdsType
    <2>6. PICK f \in Frames : Sound(f) /\ Move(j, f)
      BY <1>2, <2>3, <2>4, <2>5 DEF Adopt
    <2> QED BY <1>2, <2>6, LocalTypes DEF Adopt
  <1> QED BY <1>1, <1>2

LEMMA LoopTypes ==
  ASSUME TypeInv, NEW j \in Jobs,
         EnsureDone(j) \/ Listed(j) \/ ListFails(j) \/ SitesDone(j) \/ RemoveDone(j) \/ NoId(j)
  PROVE  TypeInv'
  <1> DEFINE f == run[j]
  <1>1. /\ f \in Frames /\ Sound(f)
        /\ UNCHANGED <<store, slaves, holder, offered, history>>
    BY FrameOf DEF EnsureDone, Listed, ListFails, SitesDone, RemoveDone, NoId
  <1>2. CASE EnsureDone(j)
    <2>1. f.pc = "ensure"
      BY <1>2 DEF EnsureDone, At
    <2> DEFINE extras == ClientIds({r \in f.seen : ~EmailTaken(f.snap, r.email)})
               g == [Goto(j, "extras") EXCEPT !.victims = extras]
    <2>2. extras \subseteq Clients
      BY <1>1 DEF ClientIds, Records, Frames
    <2>3. Kind(j) = "sync" => f.server \in Servers(f.snap)
      BY <1>1, <2>1 DEF Sound, Kind
    <2>4. Kind(j) = "sync" => g \in Frames /\ Sound(g)
      BY <1>1, <2>1, <2>2, <2>3 DEF Goto, Frames, Sound, Places, Removing
    <2> QED
      BY <1>1, <1>2, <2>1, <2>4, GotoType, LocalTypes DEF EnsureDone
  <1>3. CASE Listed(j)
    <2>1. PICK s \in f.sites :
             LET records == slave[AddressOf(j, s)].records
                 next == [f EXCEPT !.sites = @ \ {s}, !.server = s] IN
             \/ /\ Kind(j) = "delete"
                /\ Move(j, [next EXCEPT !.pc = "purge",
                     !.victims = ClientIds(Matching(records, EmailOf(j, f.user)))])
             \/ /\ Kind(j) = "sync"
                /\ Move(j, [next EXCEPT !.pc = "ensure", !.seen = records,
                     !.verdict = "ready", !.todo = Users(f.snap) \X {s}])
      BY <1>3 DEF Listed
    <2> DEFINE records == slave[AddressOf(j, s)].records
               found == ClientIds(Matching(records, EmailOf(j, f.user)))
               next == [f EXCEPT !.sites = @ \ {s}, !.server = s]
               purge == [next EXCEPT !.pc = "purge", !.victims = found]
               ensure == [next EXCEPT !.pc = "ensure", !.seen = records,
                            !.verdict = "ready", !.todo = Users(f.snap) \X {s}]
    <2>2. f.pc = "sites" /\ s \in Servers(f.snap) /\ s \in ServerIds
      BY <1>1, <1>3, LookUps DEF Listed, At, Sound
    <2>3. AddressOf(j, s) \in Addresses
      BY <1>1, <2>2, LookUps DEF AddressOf
    <2>4. records \in SUBSET Records /\ found \subseteq Clients
      BY <2>3, SlaveLookUp, ClientIdsType
    <2>5. next \in Frames /\ Users(f.snap) \subseteq UserIds
      BY <1>1, <2>2 DEF Frames, Users
    <2>6. purge \in Frames /\ ensure \in Frames
      BY <2>2, <2>4, <2>5 DEF Frames, Places, Statuses
    <2>7. Kind(j) = "delete" => Sound(purge)
      BY <1>1, <2>2, <2>4 DEF Frames, Sound, Removing, Kind
    <2>8. Kind(j) = "sync" => Sound(ensure)
      BY <1>1, <2>2, <2>4 DEF Frames, Sound, Removing, Kind
    <2> QED
      BY <1>1, <2>1, <2>6, <2>7, <2>8, LocalTypes
  <1>4. CASE ListFails(j)
    <2> DEFINE next(s) == [f EXCEPT !.sites = @ \ {s}, !.warned = TRUE]
               giveUp(s) == [next(s) EXCEPT !.pc = "status", !.server = s, !.verdict = "error"]
    <2>1. PICK s \in f.sites : Move(j, next(s)) \/ Move(j, giveUp(s))
      BY <1>4 DEF ListFails
    <2>2. f.pc = "sites" /\ s \in Servers(f.snap) /\ s \in ServerIds
      BY <1>1, <1>4, LookUps DEF ListFails, At, Sound
    <2>3. next(s) \in Frames /\ giveUp(s) \in Frames
      BY <1>1, <2>2 DEF Frames, Places, Statuses
    <2>4. Sound(next(s)) /\ Sound(giveUp(s))
      BY <1>1, <2>2 DEF Frames, Sound, Removing
    <2> QED
      BY <1>1, <2>1, <2>3, <2>4, LocalTypes
  <1>5. CASE SitesDone(j)
    BY <1>1, <1>5, GotoType, LocalTypes DEF SitesDone, At
  <1>6. CASE NoId(j)
    BY <1>1, <1>6, GotoType, LocalTypes DEF NoId, At
  <1>7. CASE RemoveDone(j)
    <2>1. f.pc \in Removing /\ f.server \in Servers(f.snap)
      BY <1>1, <1>7 DEF RemoveDone, At, Sound
    <2>2. /\ Goto(j, "ensure") \in Frames /\ Sound(Goto(j, "ensure"))
          /\ Goto(j, "status") \in Frames /\ Sound(Goto(j, "status"))
      BY <1>1, <2>1 DEF Goto, Frames, Sound, Places, Removing
    <2>3. f.pc = "purge" => Goto(j, "sites") \in Frames /\ Sound(Goto(j, "sites"))
      BY <1>1, <2>1 DEF Goto, Frames, Sound, Places, Removing
    <2>4. PICK g \in Frames : Sound(g) /\ Move(j, g)
      BY <1>7, <2>1, <2>2, <2>3 DEF RemoveDone, At, Removing
    <2> QED BY <1>1, <2>4, LocalTypes
  <1> QED BY <1>2, <1>3, <1>4, <1>5, <1>6, <1>7

(***************************************************************************)
(* Steps that write the store.                                             *)
(***************************************************************************)
LEMMA StoreTypes ==
  ASSUME TypeInv, NEW j \in Jobs, NEW f \in Frames, Sound(f), Move(j, f),
         mem' \in Documents, disk' \in Documents,
         gone' \subseteq Ids, shown' \in [ServerIds -> SUBSET Names],
         UNCHANGED <<slaves, holder, offered>>
  PROVE  TypeInv'
  <1>1. run' \in [Jobs -> Frames] /\ \A k \in Jobs : Sound(run'[k])
    BY MoveType DEF TypeInv, TypeOK
  <1> QED
    BY <1>1 DEF TypeInv, TypeOK, slaves

LEMMA LinkTypes ==
  ASSUME TypeInv, NEW j \in Jobs, SetUserLink(j) \/ SyncUser(j) \/ SetServerStatus(j)
  PROVE  TypeInv'
  <1> DEFINE f == run[j]
  <1>1. /\ f \in Frames /\ Sound(f) /\ mem \in Documents /\ disk \in Documents
        /\ gone \subseteq Ids /\ shown \in [ServerIds -> SUBSET Names]
        /\ UNCHANGED <<slaves, holder, offered, history>>
    BY FrameOf DEF SetUserLink, SyncUser, SetServerStatus, TypeInv, TypeOK
  <1>2. gone' \subseteq Ids /\ shown' \in [ServerIds -> SUBSET Names]
    BY <1>1 DEF history
  <1>3. CASE SetUserLink(j)
    <2> DEFINE link == IF f.reply # 0 THEN ReadyLink(f.reply) ELSE ErrorLink
               new == SetLink(mem, f.user, f.server, link)
               linked == [Goto(j, "ensure") EXCEPT !.todo = @ \ {<<f.user, f.server>>},
                                                   !.reply = 0]
    <2>1. f.pc = "link" /\ f.user \in UserIds /\ f.server \in ServerIds
      BY <1>1, <1>3, LookUps DEF SetUserLink, At, Sound
    <2>2. link \in Links
      BY <1>1 DEF Links, ReadyLink, ErrorLink, Frames, Clients
    <2>3. new \in Documents
      BY <1>1, <2>1, <2>2, SetLinkType
    <2>4. PICK done \in BOOLEAN : /\ Update(f.user \in Users(mem), new, done)
                                  /\ Move(j, linked) \/ Move(j, Warned(linked))
      BY <1>3 DEF SetUserLink
    <2>5. mem' \in Documents /\ disk' \in Documents
      BY <1>1, <2>3, <2>4 DEF Update, Save, store
    <2>6. linked \in Frames /\ Warned(linked) \in Frames
      BY <1>1 DEF Goto, Warned, Frames, Places, Clients, Statuses
    <2>7. f.server \in Servers(f.snap) /\ f.todo \ {<<f.user, f.server>>} \subseteq f.todo
      BY <1>1, <2>1 DEF Sound
    <2>8. Sound(linked) /\ Sound(Warned(linked))
      BY <1>1, <2>1, <2>7 DEF Goto, Warned, Frames, Sound, Removing
    <2> QED BY <1>1, <1>2, <2>4, <2>5, <2>6, <2>8, StoreTypes
  <1>4. CASE SyncUser(j)
    <2> DEFINE new(p, c) == SetLink(mem, p[1], p[2], ReadyLink(c))
               next(p, c) == [Goto(j, "duplicates") EXCEPT !.todo = @ \ {p},
                                !.victims = ClientIds(Found(j, p[1])) \ {c}]
    <2> DEFINE Saved(p, done, c) ==
                 /\ c \in ClientIds(Found(j, p[1]))
                 /\ Update(p[1] \in Users(mem), new(p, c), done)
                 /\ Move(j, next(p, c))
    <2>0. PICK p \in f.todo, done \in BOOLEAN : \E c : Saved(p, done, c)
      BY <1>4 DEF SyncUser
    <2>1. PICK c : Saved(p, done, c)
      BY <2>0
    <2>2. f.pc = "ensure" /\ p[1] \in UserIds /\ p[2] \in ServerIds
      BY <1>1, <1>4, LookUps DEF SyncUser, At
    <2>3. ClientIds(Found(j, p[1])) \subseteq Clients
      BY <1>1 DEF Found, Matching, ClientIds, Records, Frames
    <2>4. new(p, c) \in Documents
      BY <1>1, <2>1, <2>2, <2>3, SetLinkType DEF Links, ReadyLink
    <2>5. mem' \in Documents /\ disk' \in Documents
      BY <1>1, <2>1, <2>4 DEF Update, Save, store
    <2>6. next(p, c) \in Frames
      BY <1>1, <2>3 DEF Goto, Frames, Places
    <2>7. f.seen # {}
      BY <2>1 DEF Found, Matching, ClientIds
    <2>8. f.server \in Servers(f.snap) /\ f.todo \ {p} \subseteq f.todo
      BY <1>1, <2>2, <2>7 DEF Sound
    <2>9. Sound(next(p, c))
      BY <1>1, <2>7, <2>8 DEF Goto, Frames, Sound, Removing
    <2> QED BY <1>1, <1>2, <2>1, <2>5, <2>6, <2>9, StoreTypes
  <1>5. CASE SetServerStatus(j)
    <2> DEFINE new == SetStatus(mem, f.server, f.verdict)
               place == IF Kind(j) = "sync" THEN "sites" ELSE "unlock"
    <2>1. PICK done \in BOOLEAN : Update(f.server \in Servers(mem), new, done)
      BY <1>5 DEF SetServerStatus
    <2>2. f.server \in Servers(mem) => new \in Documents
      BY <1>1, SetStatusType DEF Frames
    <2>3. mem' \in Documents /\ disk' \in Documents
      BY <1>1, <2>1, <2>2 DEF Update, Save, store
    <2>4. f.pc = "status" /\ Move(j, Goto(j, place))
      BY <1>5 DEF SetServerStatus, At
    <2>5. Goto(j, place) \in Frames
      BY <1>1 DEF Goto, Frames, Places
    <2>6. Sound(Goto(j, place))
      BY <1>1, <2>4 DEF Goto, Frames, Sound, Removing, Kind
    <2> QED BY <1>1, <1>2, <2>3, <2>4, <2>5, <2>6, StoreTypes
  <1> QED BY <1>3, <1>4, <1>5

LEMMA EntryTypes ==
  ASSUME TypeInv, NEW j \in Jobs,
         StoreUser(j) \/ DropUser(j) \/ StoreServer(j) \/ DropServer(j)
  PROVE  TypeInv'
  <1> DEFINE f == run[j]
             After(next, done) == IF done THEN next ELSE Failed(j)
  <1>1. /\ f \in Frames /\ Sound(f) /\ mem \in Documents /\ disk \in Documents
        /\ gone \subseteq Ids /\ shown \in [ServerIds -> SUBSET Names]
        /\ UNCHANGED <<slaves, holder, offered>>
    BY FrameOf DEF StoreUser, DropUser, StoreServer, DropServer, TypeInv, TypeOK
  <1>2. /\ f.pc \in {"store", "drop"} /\ f.op \in Requests
        /\ f.pc = "store" => f.todo = {} /\ f.sites = {} /\ f.seen = {}
    BY <1>1 DEF StoreUser, DropUser, StoreServer, DropServer, At, Sound
  <1>3. Failed(j) \in Frames /\ Sound(Failed(j))
    BY <1>2, GotoType
  <1>4. CASE StoreUser(j)
    <2> DEFINE new(u) == AddUser(mem, u, Op(j).email)
               next(u) == [Goto(j, "ensure") EXCEPT !.snap = mem', !.user = u,
                                                    !.todo = {u} \X Servers(mem')]
    <2>1. PICK u \in UserIds, done \in BOOLEAN :
             /\ Update(~EmailTaken(mem, Op(j).email), new(u), done)
             /\ Move(j, After(next(u), done))
      BY <1>4 DEF StoreUser, Fresh
    <2>2. f.pc = "store" /\ f.op.kind = "create" /\ Op(j).email \in Emails
      BY <1>1, <1>2, <1>4, OpTypes DEF StoreUser, Kind, Op, At
    <2>3. new(u) \in Documents
      BY <1>1, <2>2, AddUserType
    <2>4. mem' \in Documents /\ disk' \in Documents
      BY <1>1, <2>1, <2>3 DEF Update, Save, store
    <2>5. done => u \in Users(mem')
      BY <1>1, <2>1, <2>2, AddUserTables DEF Update, Save
    <2>6. next(u) \in Frames
      BY <1>1, <2>4 DEF Goto, Frames, Places, Servers
    <2>7. done => Sound(next(u))
      BY <1>1, <1>2, <2>2, <2>4, <2>5 DEF Goto, Frames, Sound, Removing, Servers
    <2>8. gone' \subseteq Ids /\ shown' \in [ServerIds -> SUBSET Names]
      BY <1>1, <1>4 DEF StoreUser, history
    <2> QED BY <1>1, <1>3, <2>1, <2>4, <2>6, <2>7, <2>8, StoreTypes
  <1>5. CASE DropUser(j)
    <2> DEFINE new == RemoveUser(mem, f.user)
               next == [Goto(j, "sites") EXCEPT !.sites = Servers(f.snap)]
    <2>1. PICK done \in BOOLEAN :
             /\ Update(f.user \in Users(mem), new, done)
             /\ Move(j, After(next, done))
             /\ gone' = IF done THEN gone \cup {f.user} ELSE gone
      BY <1>5 DEF DropUser
    <2>2. f.op.kind = "delete" /\ f.pc = "store"
      BY <1>5 DEF DropUser, Kind, At
    <2>3. f.user \in Users(mem) => f.user \in UserIds /\ new \in Documents
      BY <1>1, RemoveUserType DEF Users
    <2>4. mem' \in Documents /\ disk' \in Documents /\ gone' \subseteq Ids
      BY <1>1, <2>1, <2>3 DEF Update, Save, store, Ids
    <2>5. next \in Frames
      BY <1>1 DEF Goto, Frames, Places, Servers
    <2>6. Sound(next)
      BY <1>1, <1>2, <2>2 DEF Goto, Frames, Sound, Removing, Servers
    <2>7. shown' \in [ServerIds -> SUBSET Names]
      BY <1>1, <1>5 DEF DropUser
    <2> QED BY <1>1, <1>3, <2>1, <2>4, <2>5, <2>6, <2>7, StoreTypes
  <1>6. CASE StoreServer(j)
    <2> DEFINE new(s) == AddServer(mem, s, Op(j).site, Op(j).name)
               next(s) == [Goto(j, "ensure") EXCEPT !.snap = mem', !.server = s,
                                                    !.todo = Users(mem') \X {s}]
    <2>1. PICK s \in ServerIds, done \in BOOLEAN :
             /\ Update(~SiteTaken(mem, Op(j).site), new(s), done)
             /\ Move(j, After(next(s), done))
             /\ Show(s, Op(j).name, done)
      BY <1>6 DEF StoreServer, Fresh
    <2>2. f.pc = "store" /\ f.op.kind = "provision" /\ Op(j).site \in Sites /\ Op(j).name \in Names
      BY <1>1, <1>2, <1>6, OpTypes DEF StoreServer, Kind, Op, OnSite, At
    <2>3. new(s) \in Documents
      BY <1>1, <2>2, AddServerType
    <2>4. mem' \in Documents /\ disk' \in Documents
      BY <1>1, <2>1, <2>3 DEF Update, Save, store
    <2>5. done => s \in Servers(mem')
      BY <1>1, <2>1, <2>2, AddServerTables DEF Update, Save
    <2>6. next(s) \in Frames
      BY <1>1, <2>4 DEF Goto, Frames, Places, Users
    <2>7. done => Sound(next(s))
      BY <1>1, <1>2, <2>2, <2>4, <2>5 DEF Goto, Frames, Sound, Removing, Users
    <2>8. gone' \subseteq Ids /\ shown' \in [ServerIds -> SUBSET Names]
      BY <1>1, <1>6, <2>1, <2>2 DEF StoreServer, Show
    <2> QED BY <1>1, <1>3, <2>1, <2>4, <2>6, <2>7, <2>8, StoreTypes
  <1>7. CASE DropServer(j)
    <2> DEFINE new == ForgetServer(mem, f.server)
    <2>1. PICK done \in BOOLEAN :
             /\ Update(f.server \in Servers(mem), new, done)
             /\ Move(j, After(Goto(j, "unlock"), done))
             /\ gone' = IF done THEN gone \cup {f.server} ELSE gone
             /\ shown' = IF done THEN [shown EXCEPT ![f.server] = {}] ELSE shown
      BY <1>7 DEF DropServer
    <2>2. f.server \in Servers(mem) => f.server \in ServerIds /\ new \in Documents
      BY <1>1, ForgetServerType DEF Servers
    <2>3. mem' \in Documents /\ disk' \in Documents /\ gone' \subseteq Ids
      BY <1>1, <2>1, <2>2 DEF Update, Save, store, Ids
    <2>4. Goto(j, "unlock") \in Frames /\ Sound(Goto(j, "unlock"))
      BY <1>2, GotoType
    <2>5. shown' \in [ServerIds -> SUBSET Names]
      BY <1>1, <2>1
    <2> QED BY <1>1, <1>3, <2>1, <2>3, <2>4, <2>5, StoreTypes
  <1> QED BY <1>4, <1>5, <1>6, <1>7

(***************************************************************************)
(* Steps that reach a Slave.                                               *)
(***************************************************************************)
LEMMA CallTypes ==
  ASSUME TypeInv, NEW j \in Jobs, NEW f \in Frames, Sound(f), Move(j, f),
         slave' \in [Addresses -> SlaveStates], nextClient' \in Nat \ {0},
         lateRegister' \subseteq [at : Addresses, email : Emails],
         lateRemove' \subseteq [at : Addresses, client : Clients],
         UNCHANGED <<store, stray, holder, offered, history>>
  PROVE  TypeInv'
  <1>1. run' \in [Jobs -> Frames] /\ \A k \in Jobs : Sound(run'[k])
    BY MoveType DEF TypeInv, TypeOK
  <1> QED
    BY <1>1 DEF TypeInv, TypeOK, store, history

LEMMA RegisterTypes ==
  ASSUME TypeInv, NEW j \in Jobs, Registered(j) \/ RegisterFails(j)
  PROVE  TypeInv'
  <1> DEFINE f == run[j]
             a(p) == AddressOf(j, p[2])
             e(p) == EmailOf(j, p[1])
  <1>1. /\ f \in Frames /\ Sound(f)
        /\ slave \in [Addresses -> SlaveStates] /\ nextClient \in Nat \ {0}
        /\ lateRegister \subseteq [at : Addresses, email : Emails]
        /\ lateRemove \subseteq [at : Addresses, client : Clients]
    BY FrameOf DEF TypeInv, TypeOK
  <1>2. \A p \in f.todo : a(p) \in Addresses /\ e(p) \in Emails
    BY <1>1, LookUps DEF AddressOf, EmailOf
  <1>3. CASE Registered(j)
    <2> DEFINE record(p) == [id |-> nextClient, email |-> e(p)]
    <2>1. PICK p \in f.todo :
             /\ slave' = [slave EXCEPT ![a(p)].records = @ \cup {record(p)}]
             /\ Move(j, Answer(j, p, "link", nextClient))
      BY <1>3 DEF Registered, Missing
    <2>2. record(p) \in Records
      BY <1>1, <1>2 DEF Records, Clients
    <2> HIDE DEF record, a
    <2>3. slave' \in [Addresses -> SlaveStates]
      BY <1>1, <2>1, <2>2 DEF SlaveStates
    <2>4. /\ Answer(j, p, "link", nextClient) \in Frames
          /\ Sound(Answer(j, p, "link", nextClient))
      BY <1>1, <1>3, AnswerType DEF Registered, Clients
    <2>5. nextClient' \in Nat \ {0}
      BY <1>1, <1>3 DEF Registered
    <2> QED BY <1>1, <1>3, <2>1, <2>3, <2>4, <2>5, CallTypes DEF Registered
  <1>4. CASE RegisterFails(j)
    <2>1. PICK p \in f.todo :
             /\ Move(j, Answer(j, p, "link", 0))
             /\ \/ UNCHANGED lateRegister
                \/ lateRegister' = lateRegister \cup {[at |-> a(p), email |-> e(p)]}
      BY <1>4 DEF RegisterFails, Missing
    <2>2. lateRegister' \subseteq [at : Addresses, email : Emails]
      BY <1>1, <1>2, <2>1
    <2>3. Answer(j, p, "link", 0) \in Frames /\ Sound(Answer(j, p, "link", 0))
      BY <1>4, AnswerType DEF RegisterFails, Clients
    <2> QED BY <1>1, <1>4, <2>1, <2>2, <2>3, CallTypes DEF RegisterFails
  <1> QED BY <1>3, <1>4

LEMMA RemoveTypes ==
  ASSUME TypeInv, NEW j \in Jobs, Removed(j) \/ RemoveFails(j)
  PROVE  TypeInv'
  <1> DEFINE f == run[j]
             a == AddressOf(j, f.server)
             next(c) == [f EXCEPT !.victims = @ \ {c}]
  <1>1. /\ f \in Frames /\ Sound(f) /\ f.pc \in Removing
        /\ slave \in [Addresses -> SlaveStates] /\ nextClient \in Nat \ {0}
        /\ lateRegister \subseteq [at : Addresses, email : Emails]
        /\ lateRemove \subseteq [at : Addresses, client : Clients]
    BY FrameOf DEF TypeInv, TypeOK, Removed, RemoveFails, At
  <1>2. a \in Addresses
    BY <1>1, LookUps DEF AddressOf, Sound
  <1>3. \A c \in f.victims : /\ c \in Clients
                             /\ next(c) \in Frames /\ Warned(next(c)) \in Frames
    BY <1>1 DEF Frames, Warned, Statuses
  <1>4. \A c \in f.victims : Sound(next(c)) /\ Sound(Warned(next(c)))
    BY <1>1 DEF Frames, Warned, Sound, Removing
  <1>5. CASE Removed(j)
    <2>1. PICK c \in f.victims :
             /\ slave' = [slave EXCEPT ![a].records = {r \in @ : r.id # c}]
             /\ Move(j, next(c))
      BY <1>5 DEF Removed
    <2> HIDE DEF a
    <2>2. slave' \in [Addresses -> SlaveStates]
      BY <1>1, <2>1 DEF SlaveStates
    <2> QED BY <1>1, <1>3, <1>4, <1>5, <2>1, <2>2, CallTypes DEF Removed
  <1>6. CASE RemoveFails(j)
    <2>1. PICK c \in f.victims :
             /\ Move(j, Warned(next(c)))
             /\ \/ UNCHANGED lateRemove
                \/ lateRemove' = lateRemove \cup {[at |-> a, client |-> c]}
      BY <1>6 DEF RemoveFails
    <2>2. lateRemove' \subseteq [at : Addresses, client : Clients]
      BY <1>1, <1>2, <1>3, <2>1
    <2> QED BY <1>1, <1>3, <1>4, <1>6, <2>1, <2>2, CallTypes DEF RemoveFails
  <1> QED BY <1>5, <1>6

LEMMA ScriptTypes ==
  ASSUME TypeInv, NEW j \in Jobs, Script(j)
  PROVE  TypeInv'
  <1> DEFINE f == run[j]
             a == IF f.pc = "setup" THEN Op(j).site.address ELSE TeardownAddress(j)
             late == <<nextClient, lateRegister, lateRemove>>
  <1> USE DEF Script
  <1>1. /\ f \in Frames /\ Sound(f) /\ f.pc \in {"setup", "teardown"}
        /\ slave \in [Addresses -> SlaveStates] /\ nextClient \in Nat \ {0}
        /\ lateRegister \subseteq [at : Addresses, email : Emails]
        /\ lateRemove \subseteq [at : Addresses, client : Clients]
    BY FrameOf DEF TypeInv, TypeOK, SetUp, SetupFails, TornDown, TeardownFails, At
  <1>2. /\ Failed(j) \in Frames /\ Sound(Failed(j))
        /\ Goto(j, "unlock") \in Frames /\ Sound(Goto(j, "unlock"))
        /\ Goto(j, "drop") \in Frames /\ Sound(Goto(j, "drop"))
    BY <1>1, GotoType
  <1>3. /\ UNCHANGED <<store, late, stray, holder, offered, history>>
        /\ \/ UNCHANGED slave
           \/ slave' = [slave EXCEPT ![a].installed = TRUE]
           \/ slave' = [slave EXCEPT ![a] = Bare]
    BY DEF SetUp, SetupFails, TornDown, TeardownFails, At
  <1> HIDE DEF a
  <1>4. slave' \in [Addresses -> SlaveStates]
    <2>1. Bare \in SlaveStates
      BY DEF SlaveStates, Bare
    <2>2. \A x \in Addresses : [slave[x] EXCEPT !.installed = TRUE] \in SlaveStates
      BY <1>1 DEF SlaveStates
    <2>3. CASE slave' = [slave EXCEPT ![a].installed = TRUE]
      BY <1>1, <2>2, <2>3
    <2>4. CASE slave' = [slave EXCEPT ![a] = Bare]
      BY <1>1, <2>1, <2>4
    <2> QED BY <1>1, <1>3, <2>3, <2>4
  <1>5. PICK g \in Frames : Sound(g) /\ Move(j, g)
    <2>1. CASE SetUp(j)
      <3>1. f.pc = "setup"
        BY <2>1 DEF SetUp, At
      <3>2. Goto(j, "store") \in Frames /\ Sound(Goto(j, "store"))
        BY <1>1, <3>1 DEF Goto, Frames, Sound, Places, Removing
      <3> QED BY <2>1, <3>2 DEF SetUp
    <2>2. CASE SetupFails(j)
      BY <1>2, <2>2 DEF SetupFails
    <2>3. CASE TornDown(j)
      BY <1>2, <2>3 DEF TornDown
    <2>4. CASE TeardownFails(j)
      <3> DEFINE g == [Failed(j) EXCEPT !.pc = "status", !.verdict = "error"]
      <3>1. g \in Frames /\ Sound(g)
        BY <1>1 DEF Failed, Frames, Sound, Places, Statuses, Removing
      <3> QED BY <1>2, <2>4, <3>1 DEF TeardownFails
    <2> QED BY <2>1, <2>2, <2>3, <2>4
  <1> QED BY <1>1, <1>3, <1>4, <1>5, CallTypes

(***************************************************************************)
(* Everything that is not a step of a job.                                 *)
(***************************************************************************)
LEMMA OutsideTypes ==
  ASSUME TypeInv,
         RegisterLands \/ RemoveLands \/ Crash
           \/ \E s \in ServerIds, name \in Names : Rename(s, name)
  PROVE  TypeInv'
  <1>1. /\ slave \in [Addresses -> SlaveStates] /\ nextClient \in Nat \ {0}
        /\ lateRegister \subseteq [at : Addresses, email : Emails]
        /\ lateRemove \subseteq [at : Addresses, client : Clients]
        /\ stray \subseteq Clients
        /\ mem \in Documents /\ disk \in Documents
        /\ shown \in [ServerIds -> SUBSET Names]
    BY DEF TypeInv, TypeOK
  <1>2. CASE RegisterLands
    <2>1. PICK call \in lateRegister :
             /\ lateRegister' = lateRegister \ {call}
             /\ \/ UNCHANGED <<slave, nextClient, stray>>
                \/ /\ slave' = [slave EXCEPT ![call.at].records =
                                  @ \cup {[id |-> nextClient, email |-> call.email]}]
                   /\ nextClient' = nextClient + 1
                   /\ Touched(nextClient)
      BY <1>2 DEF RegisterLands
    <2> DEFINE record == [id |-> nextClient, email |-> call.email]
    <2>2. record \in Records /\ call.at \in Addresses
      BY <1>1 DEF Records, Clients
    <2>3. slave' \in [Addresses -> SlaveStates]
      <3> HIDE DEF record
      <3>1. CASE slave' = [slave EXCEPT ![call.at].records = @ \cup {record}]
        BY <1>1, <2>2, <3>1 DEF SlaveStates
      <3> QED BY <1>1, <2>1, <3>1 DEF record
    <2>4. nextClient' \in Nat \ {0} /\ stray' \subseteq Clients
      BY <1>1, <2>1 DEF Touched, Clients
    <2> QED
      BY <1>1, <1>2, <2>1, <2>3, <2>4 DEF RegisterLands, TypeInv, TypeOK, store, history
  <1>3. CASE RemoveLands
    <2>1. PICK call \in lateRemove :
             /\ lateRemove' = lateRemove \ {call}
             /\ \/ UNCHANGED <<slave, stray>>
                \/ /\ slave' = [slave EXCEPT ![call.at].records = {r \in @ : r.id # call.client}]
                   /\ Touched(call.client)
      BY <1>3 DEF RemoveLands
    <2>2. slave' \in [Addresses -> SlaveStates]
      <3>1. CASE slave' = [slave EXCEPT ![call.at].records = {r \in @ : r.id # call.client}]
        BY <1>1, <3>1 DEF SlaveStates
      <3> QED BY <1>1, <2>1, <3>1
    <2>3. stray' \subseteq Clients
      BY <1>1, <2>1 DEF Touched
    <2> QED
      BY <1>1, <1>3, <2>1, <2>2, <2>3 DEF RemoveLands, TypeInv, TypeOK, store, history
  <1>4. CASE Crash
    <2>1. run' \in [Jobs -> Frames] /\ \A k \in Jobs : Sound(run'[k])
      BY <1>4, IdleFrameSound DEF Crash
    <2> QED
      BY <1>1, <1>4, <2>1 DEF Crash, TypeInv, TypeOK, history
  <1>5. ASSUME NEW s \in ServerIds, NEW name \in Names, Rename(s, name)
        PROVE  TypeInv'
    <2>1. PICK done \in BOOLEAN : /\ Update(s \in Servers(mem), SetName(mem, s, name), done)
                                  /\ Show(s, name, done)
      BY <1>5 DEF Rename
    <2>2. s \in Servers(mem) => SetName(mem, s, name) \in Documents
      BY <1>1, SetNameType
    <2>3. mem' \in Documents /\ disk' \in Documents
      BY <1>1, <2>1, <2>2 DEF Update, Save, store
    <2>4. shown' \in [ServerIds -> SUBSET Names]
      BY <1>1, <2>1 DEF Show
    <2> QED
      BY <1>1, <1>5, <2>3, <2>4 DEF Rename, TypeInv, TypeOK, slaves
  <1> QED BY <1>2, <1>3, <1>4, <1>5

LEMMA UnlockTypes ==
  ASSUME TypeInv, NEW j \in Jobs, Unlock(j)
  PROVE  TypeInv'
  <1>1. run[j] \in Frames /\ Sound(run[j]) /\ run[j].pc = "unlock"
    BY FrameOf DEF Unlock, At
  <1>2. run' \in [Jobs -> Frames] /\ \A k \in Jobs : Sound(run'[k])
    BY IdleFrameSound, MoveType DEF Unlock, TypeInv, TypeOK
  <1>3. offered' \subseteq Sites
    BY <1>1, OpTypes DEF Unlock, TypeInv, TypeOK, Op
  <1> QED
    BY <1>2, <1>3 DEF Unlock, TypeInv, TypeOK, store, history

LEMMA TypeInit == Init => TypeInv
  <1> SUFFICES ASSUME Init PROVE TypeInv
    OBVIOUS
  <1>1. \A s \in Servers(InitialDocument) : InitialDocument.server[s].name \in Names
    BY InitialAssumption DEF Documents, Servers, ServerEntries
  <1>2. run \in [Jobs -> Frames] /\ \A j \in Jobs : Sound(run[j])
    BY IdleFrameSound DEF Init
  <1> QED
    BY <1>1, <1>2, InitialAssumption, BoundsAssumption DEF Init, TypeInv, TypeOK

LEMMA TypeStep == TypeInv /\ [Next]_vars => TypeInv'
  <1> SUFFICES ASSUME TypeInv, [Next]_vars PROVE TypeInv'
    OBVIOUS
  <1>1. ASSUME NEW j \in Jobs, BeginJob(j) \/ Work(j) \/ Script(j)
        PROVE  TypeInv'
    BY <1>1, BeginTypes, AskTypes, LoopTypes, LinkTypes, EntryTypes, RegisterTypes,
       RemoveTypes, ScriptTypes, UnlockTypes DEF Work
  <1>2. ASSUME NEW j \in Jobs, NEW q \in Requests, Submit(j, q)
        PROVE  TypeInv'
    BY <1>2, SubmitTypes
  <1>3. CASE UNCHANGED vars
    BY <1>3 DEF vars, store, slaves, history, TypeInv, TypeOK
  <1> QED
    BY <1>1, <1>2, <1>3, OutsideTypes DEF Next

\* Every variable of Master and of its Slaves has its type in every state.
THEOREM TypeCorrect == Spec => []TypeOK
  <1>1. TypeInv => TypeOK
    BY DEF TypeInv
  <1> QED
    BY <1>1, TypeInit, TypeStep, PTL DEF Spec

-----------------------------------------------------------------------------
(***************************************************************************)
(* Mutual exclusion.                                                       *)
(***************************************************************************)

\* A step of a running job, other than Unlock, keeps operationMu.
LEMMA WorkKeepsLock ==
  ASSUME TypeInv, NEW j \in Jobs, Work(j) \/ Script(j), ~Unlock(j)
  PROVE  /\ At(j, InLock \ {"unlock"}) /\ holder' = holder
         /\ \A k \in Jobs \ {j} : run'[k] = run[k]
  <1>1. run \in [Jobs -> Frames]
    BY DEF TypeInv, TypeOK
  <1> USE DEF At, InLock, Places, Move
  <1>2. CASE StoreUser(j) \/ NoId(j) \/ DropUser(j) \/ StoreServer(j) \/ DropServer(j)
    BY <1>1, <1>2 DEF StoreUser, NoId, DropUser, StoreServer, DropServer
  <1>3. CASE Registered(j) \/ Conflict(j) \/ RegisterFails(j) \/ Adopt(j)
    BY <1>1, <1>3 DEF Registered, Conflict, RegisterFails, Adopt
  <1>4. CASE SetUserLink(j) \/ SyncUser(j) \/ SetServerStatus(j)
    BY <1>1, <1>4 DEF SetUserLink, SyncUser, SetServerStatus
  <1>5. CASE EnsureDone(j) \/ Listed(j) \/ ListFails(j) \/ SitesDone(j)
    BY <1>1, <1>5 DEF EnsureDone, Listed, ListFails, SitesDone
  <1>6. CASE Removed(j) \/ RemoveFails(j) \/ RemoveDone(j)
    BY <1>1, <1>6 DEF Removed, RemoveFails, RemoveDone, Removing
  <1>7. CASE Script(j)
    BY <1>1, <1>7 DEF Script, SetUp, SetupFails, TornDown, TeardownFails
  <1> QED
    BY <1>2, <1>3, <1>4, <1>5, <1>6, <1>7 DEF Work

LEMMA BeginTakesLock ==
  ASSUME TypeInv, NEW j \in Jobs, BeginJob(j)
  PROVE  /\ holder = Free /\ holder' = j /\ run'[j].snap = mem
         /\ UNCHANGED store
         /\ \A k \in Jobs \ {j} : run'[k] = run[k]
  <1> DEFINE Taken(next) == [next EXCEPT !.snap = mem]
  <1>1. run \in [Jobs -> Frames] /\ run[j] \in Frames
    BY DEF TypeInv, TypeOK
  <1>2. ASSUME NEW kinds, NEW accepted, NEW next,
               Begin(j, kinds, accepted, next), Taken(next).snap = mem
        PROVE  /\ holder = Free /\ holder' = j /\ run'[j].snap = mem
               /\ UNCHANGED store
               /\ \A k \in Jobs \ {j} : run'[k] = run[k]
    <2>1. Taken(Failed(j)).snap = mem
      BY <1>1 DEF Failed, Frames
    <2> QED BY <1>1, <1>2, <2>1 DEF Begin, Lock, Move
  <1>3. \A place : Taken(Goto(j, place)).snap = mem
    BY <1>1 DEF Goto, Frames
  <1>4. Taken([Goto(j, "ensure") EXCEPT !.user = Op(j).user,
                                        !.todo = {Op(j).user} \X Servers(mem)]).snap = mem
    BY <1>1 DEF Goto, Frames
  <1>5. Taken([Goto(j, "store") EXCEPT !.user = Op(j).user]).snap = mem
    BY <1>1 DEF Goto, Frames
  <1>6. Taken([Goto(j, "sites") EXCEPT !.sites = Servers(mem)]).snap = mem
    BY <1>1 DEF Goto, Frames
  <1>7. \A place : Taken([Goto(j, place) EXCEPT !.server = Op(j).server]).snap = mem
    BY <1>1 DEF Goto, Frames
  <1>8. CASE BeginCreate(j) \/ BeginProvision(j) \/ BeginCleanup(j)
    BY <1>2, <1>3, <1>8 DEF BeginCreate, BeginProvision, BeginCleanup
  <1>9. CASE BeginRetry(j)
    BY <1>2, <1>4, <1>9 DEF BeginRetry
  <1>10. CASE BeginDelete(j)
    BY <1>2, <1>5, <1>10 DEF BeginDelete
  <1>11. CASE BeginSync(j)
    BY <1>2, <1>6, <1>11 DEF BeginSync
  <1>12. CASE BeginDrop(j)
    BY <1>2, <1>7, <1>12 DEF BeginDrop
  <1> QED
    BY <1>8, <1>9, <1>10, <1>11, <1>12 DEF BeginJob

LEMMA MutexStep == TypeInv /\ OneJobAtATime /\ [Next]_vars => OneJobAtATime'
  <1> SUFFICES ASSUME TypeInv, OneJobAtATime, [Next]_vars PROVE OneJobAtATime'
    OBVIOUS
  <1>1. run \in [Jobs -> Frames]
    BY DEF TypeInv, TypeOK
  <1>2. ASSUME NEW j \in Jobs, BeginJob(j) PROVE OneJobAtATime'
    BY <1>2, BeginTakesLock, FreeAssumption DEF OneJobAtATime, At
  <1>3. ASSUME NEW j \in Jobs, Work(j) \/ Script(j), ~Unlock(j) PROVE OneJobAtATime'
    BY <1>3, WorkKeepsLock DEF OneJobAtATime, At, InLock
  <1>4. ASSUME NEW j \in Jobs, Unlock(j) PROVE OneJobAtATime'
    BY <1>1, <1>4 DEF Unlock, OneJobAtATime, At, Move, IdleFrame, InLock
  <1>5. ASSUME NEW j \in Jobs, NEW q \in Requests, Submit(j, q) PROVE OneJobAtATime'
    BY <1>1, <1>5 DEF Submit, OneJobAtATime, At, Move, InLock, Frames
  <1>6. CASE Crash
    BY <1>6 DEF Crash, OneJobAtATime, At, IdleFrame, InLock
  <1>7. CASE RegisterLands \/ RemoveLands \/ \E s \in ServerIds, name \in Names : Rename(s, name)
    BY <1>7 DEF RegisterLands, RemoveLands, Rename, OneJobAtATime, At
  <1>8. CASE UNCHANGED vars
    BY <1>8 DEF vars, OneJobAtATime, At
  <1> QED
    BY <1>2, <1>3, <1>4, <1>5, <1>6, <1>7, <1>8 DEF Next, Work

\* operationMu is held by the one job that is past its Lock.
THEOREM MutualExclusion == Spec => []OneJobAtATime
  <1>1. Init => OneJobAtATime
    BY DEF Init, OneJobAtATime, At, IdleFrame, InLock
  <1> QED
    BY <1>1, TypeInit, TypeStep, MutexStep, PTL DEF Spec
=============================================================================
