-------------------------- MODULE ConsistencyProofs --------------------------
(***************************************************************************)
(* What the document of Master never loses: its links and keys stay        *)
(* consistent, deletions and renames last.  Every step of the system       *)
(* leaves the store alone, reloads it, or saves one of seven edits; the    *)
(* theorems follow from what each edit does to the document.               *)
(***************************************************************************)
EXTENDS ControlPlaneProofs

(***************************************************************************)
(* The edits, and who is in the tables after each.                         *)
(***************************************************************************)
LEMMA UserTables ==
  ASSUME NEW d \in Documents, NEW u \in UserIds
  PROVE  /\ Users(RemoveUser(d, u)) = Users(d) \ {u}
         /\ Servers(RemoveUser(d, u)) = Servers(d)
  BY DEF RemoveUser, Users, Servers, Documents

LEMMA ServerTables ==
  ASSUME NEW d \in Documents, NEW s \in ServerIds
  PROVE  /\ Users(ForgetServer(d, s)) = Users(d)
         /\ Servers(ForgetServer(d, s)) = Servers(d) \ {s}
  BY DEF ForgetServer, Users, Servers, Documents

LEMMA LinkTables ==
  ASSUME NEW d \in Documents, NEW u, NEW s, NEW link
  PROVE  /\ Users(SetLink(d, u, s, link)) = Users(d)
         /\ Servers(SetLink(d, u, s, link)) = Servers(d)
  BY DEF SetLink, Users, Servers, Documents

LEMMA StatusTables ==
  ASSUME NEW d \in Documents, NEW s \in Servers(d), NEW status \in Statuses
  PROVE  /\ Users(SetStatus(d, s, status)) = Users(d)
         /\ Servers(SetStatus(d, s, status)) = Servers(d)
  <1>1. [d.server[s] EXCEPT !.status = status] \in ServerEntries
    BY DEF Servers, Documents, ServerEntries
  <1> QED
    BY <1>1, NoEntryAssumption DEF SetStatus, Users, Servers, Documents

LEMMA NameTables ==
  ASSUME NEW d \in Documents, NEW s \in Servers(d), NEW name \in Names
  PROVE  /\ Users(SetName(d, s, name)) = Users(d)
         /\ Servers(SetName(d, s, name)) = Servers(d)
  <1>1. [d.server[s] EXCEPT !.name = name] \in ServerEntries
    BY DEF Servers, Documents, ServerEntries
  <1> QED
    BY <1>1, NoEntryAssumption DEF SetName, Users, Servers, Documents

(***************************************************************************)
(* The edits a step may make to the document in memory, with what the      *)
(* history records of them.                                                *)
(***************************************************************************)
UserAdded(new) ==
  \E u \in Fresh(UserIds), e \in Emails :
    /\ ~EmailTaken(mem, e) /\ new = AddUser(mem, u, e)
    /\ UNCHANGED history

UserRemoved(new, done) ==
  \E u \in Users(mem) :
    /\ new = RemoveUser(mem, u)
    /\ gone' = IF done THEN gone \cup {u} ELSE gone
    /\ UNCHANGED shown

ServerAdded(new, done) ==
  \E s \in Fresh(ServerIds), site \in Sites, name \in Names :
    /\ ~SiteTaken(mem, site) /\ new = AddServer(mem, s, site, name)
    /\ Show(s, name, done)
    /\ UNCHANGED gone

ServerForgotten(new, done) ==
  \E s \in Servers(mem) :
    /\ new = ForgetServer(mem, s)
    /\ gone' = IF done THEN gone \cup {s} ELSE gone
    /\ shown' = IF done THEN [shown EXCEPT ![s] = {}] ELSE shown

LinkSet(new) ==
  /\ \E j \in Jobs : SetUserLink(j) \/ SyncUser(j)
  /\ \E u \in Users(mem), s \in Servers(mem), link \in Links :
       new = SetLink(mem, u, s, link) /\ UNCHANGED history

StatusSet(new) ==
  \E s \in Servers(mem), status \in Statuses :
    new = SetStatus(mem, s, status) /\ UNCHANGED history

Renamed(new, done) ==
  \E s \in Servers(mem), name \in Names :
    /\ new = SetName(mem, s, name)
    /\ Show(s, name, done)
    /\ UNCHANGED gone

Edit(new, done) ==
  \/ UserAdded(new) \/ UserRemoved(new, done)
  \/ ServerAdded(new, done) \/ ServerForgotten(new, done)
  \/ LinkSet(new) \/ StatusSet(new) \/ Renamed(new, done)

Edited == \E new \in Documents, done \in BOOLEAN : Save(new, done) /\ Edit(new, done)
Reloaded == mem' = disk /\ UNCHANGED <<disk, history>>
Untouched == UNCHANGED <<store, history>>

(***************************************************************************)
(* A job past operationMu knows no server that the store does not know:    *)
(* servers are only forgotten under operationMu, by the last update of a   *)
(* job.  This is why setUserLink need not look for its server.             *)
(***************************************************************************)
KnowsOnlyServers(j) ==
  At(j, InLock \ {"unlock"}) => Servers(run[j].snap) \subseteq Servers(mem)

KnownInv == TypeInv /\ OneJobAtATime /\ \A j \in Jobs : KnowsOnlyServers(j)

(***************************************************************************)
(* Every step edits, reloads or leaves the store.                          *)
(***************************************************************************)
LEMMA LinkEdits ==
  ASSUME TypeInv, NEW j \in Jobs, SetUserLink(j) \/ SyncUser(j), UNCHANGED history,
         NEW u \in Users(mem), NEW s \in Servers(mem), NEW link \in Links
  PROVE  SetLink(mem, u, s, link) \in Documents /\ LinkSet(SetLink(mem, u, s, link))
  BY SetLinkType DEF LinkSet, TypeInv, TypeOK, Users, Servers

LEMMA ShowNothing ==
  ASSUME TypeInv, NEW s, NEW name, Show(s, name, FALSE), UNCHANGED store
  PROVE  UNCHANGED shown
  BY DEF Show, store, TypeInv, TypeOK

LEMMA JobEdits ==
  ASSUME KnownInv, NEW j \in Jobs, BeginJob(j) \/ Work(j) \/ Script(j)
  PROVE  Edited \/ Untouched
  <1> DEFINE f == run[j]
  <1>1. /\ f \in Frames /\ Sound(f) /\ mem \in Documents /\ TypeInv
        /\ KnowsOnlyServers(j)
    BY FrameOf DEF KnownInv, TypeInv, TypeOK
  <1>2. CASE StoreUser(j)
    <2>1. f.op.email \in Emails
      BY <1>1, <1>2, OpTypes DEF StoreUser, At, Kind
    <2>2. PICK u \in Fresh(UserIds), done \in BOOLEAN :
             Update(~EmailTaken(mem, f.op.email), AddUser(mem, u, f.op.email), done)
      BY <1>2 DEF StoreUser, Op
    <2>3. AddUser(mem, u, f.op.email) \in Documents
      BY <1>1, <2>1, AddUserType DEF Fresh
    <2>4. ~EmailTaken(mem, f.op.email) => UserAdded(AddUser(mem, u, f.op.email))
      BY <1>2, <2>1 DEF StoreUser, UserAdded
    <2> QED BY <1>2, <2>2, <2>3, <2>4 DEF Edit, Update, Edited, Untouched, StoreUser
  <1>3. CASE DropUser(j)
    <2> DEFINE new == RemoveUser(mem, f.user)
    <2>1. PICK done \in BOOLEAN : /\ Update(f.user \in Users(mem), new, done)
                                  /\ gone' = IF done THEN gone \cup {f.user} ELSE gone
      BY <1>3 DEF DropUser
    <2>2. f.user \in Users(mem) => new \in Documents /\ UserRemoved(new, done)
      BY <1>1, <1>3, <2>1, RemoveUserType DEF UserRemoved, DropUser, Users
    <2> QED BY <1>3, <2>1, <2>2 DEF Edit, Update, Edited, Untouched, DropUser, history
  <1>4. CASE StoreServer(j)
    <2>1. f.op.site \in Sites /\ f.op.name \in Names
      BY <1>1, <1>4, OpTypes DEF StoreServer, At, Kind, OnSite
    <2> DEFINE new(s) == AddServer(mem, s, f.op.site, f.op.name)
    <2>2. PICK s \in Fresh(ServerIds), done \in BOOLEAN :
             /\ Update(~SiteTaken(mem, f.op.site), new(s), done)
             /\ Show(s, f.op.name, done)
      BY <1>4 DEF StoreServer, Op
    <2>3. new(s) \in Documents
      BY <1>1, <2>1, AddServerType DEF Fresh
    <2>4. ~SiteTaken(mem, f.op.site) => ServerAdded(new(s), done)
      BY <1>4, <2>1, <2>2 DEF StoreServer, ServerAdded
    <2>5. ~done /\ UNCHANGED store => UNCHANGED history
      BY <1>1, <1>4, <2>2, ShowNothing DEF StoreServer, history
    <2> QED BY <2>2, <2>3, <2>4, <2>5 DEF Edit, Update, Edited, Untouched, SiteTaken
  <1>5. CASE DropServer(j)
    <2> DEFINE new == ForgetServer(mem, f.server)
    <2>1. PICK done \in BOOLEAN :
             /\ Update(f.server \in Servers(mem), new, done)
             /\ gone' = IF done THEN gone \cup {f.server} ELSE gone
             /\ shown' = IF done THEN [shown EXCEPT ![f.server] = {}] ELSE shown
      BY <1>5 DEF DropServer
    <2>2. f.server \in Servers(mem) => new \in Documents /\ ServerForgotten(new, done)
      BY <1>1, <2>1, ForgetServerType DEF ServerForgotten, Servers
    <2> QED BY <2>1, <2>2 DEF Edit, Update, Edited, Untouched, history
  <1>6. CASE SetUserLink(j)
    <2>1. f.pc = "link" /\ f.server \in Servers(mem)
      BY <1>1, <1>6 DEF SetUserLink, At, Sound, KnowsOnlyServers, InLock, Places
    <2>2. PICK link \in Links, done \in BOOLEAN :
             Update(f.user \in Users(mem), SetLink(mem, f.user, f.server, link), done)
      <3>1. ReadyLink(f.reply) \in Links /\ ErrorLink \in Links
        BY <1>1 DEF Links, ReadyLink, ErrorLink, Frames, Clients
      <3> QED BY <1>6, <3>1 DEF SetUserLink
    <2>3. UNCHANGED history
      BY <1>6 DEF SetUserLink
    <2> QED BY <1>1, <1>6, <2>1, <2>2, <2>3, LinkEdits DEF Edit, Update, Edited, Untouched
  <1>7. CASE SyncUser(j)
    <2>1. PICK p \in f.todo : \E done \in BOOLEAN : \E c \in ClientIds(Found(j, p[1])) :
             Update(p[1] \in Users(mem), SetLink(mem, p[1], p[2], ReadyLink(c)), done)
      BY <1>7 DEF SyncUser
    <2>2. PICK done \in BOOLEAN : \E c \in ClientIds(Found(j, p[1])) :
             Update(p[1] \in Users(mem), SetLink(mem, p[1], p[2], ReadyLink(c)), done)
      BY <2>1
    <2>3. PICK c \in ClientIds(Found(j, p[1])) :
             Update(p[1] \in Users(mem), SetLink(mem, p[1], p[2], ReadyLink(c)), done)
      BY <2>2
    <2>4. p[2] \in Servers(mem)
      <3>1. p[2] \in Servers(f.snap)
        BY <1>1, LookUps
      <3> QED BY <1>1, <1>7, <3>1 DEF SyncUser, At, KnowsOnlyServers, InLock, Places
    <2>5. ReadyLink(c) \in Links
      BY <1>1 DEF Found, Matching, ClientIds, Records, Frames, Links, ReadyLink
    <2>6. UNCHANGED history
      BY <1>7 DEF SyncUser
    <2> QED BY <1>1, <1>7, <2>3, <2>4, <2>5, <2>6, LinkEdits DEF Edit, Update, Edited, Untouched
  <1>8. CASE SetServerStatus(j)
    <2> DEFINE new == SetStatus(mem, f.server, f.verdict)
    <2>1. PICK done \in BOOLEAN : Update(f.server \in Servers(mem), new, done)
      BY <1>8 DEF SetServerStatus
    <2>2. UNCHANGED history /\ f.verdict \in Statuses
      BY <1>1, <1>8 DEF SetServerStatus, Frames
    <2>3. f.server \in Servers(mem) => new \in Documents /\ StatusSet(new)
      BY <1>1, <2>2, SetStatusType DEF StatusSet
    <2> QED BY <2>1, <2>2, <2>3 DEF Edit, Update, Edited, Untouched
  <1>9. CASE BeginJob(j)
    BY <1>1, <1>9, BeginTakesLock DEF BeginJob, BeginCreate, BeginRetry, BeginDelete, BeginSync,
       BeginProvision, BeginCleanup, BeginDrop, Begin, Untouched
  <1>10. CASE Registered(j) \/ Conflict(j) \/ RegisterFails(j) \/ Adopt(j) \/ EnsureDone(j) \/ NoId(j)
    BY <1>10 DEF Registered, Conflict, RegisterFails, Adopt, EnsureDone, NoId, Untouched
  <1>11. CASE Listed(j) \/ ListFails(j) \/ SitesDone(j) \/ Removed(j) \/ RemoveFails(j) \/ RemoveDone(j) \/ Unlock(j)
    BY <1>11 DEF Listed, ListFails, SitesDone, Removed, RemoveFails, RemoveDone, Unlock, Untouched
  <1>12. CASE Script(j)
    BY <1>12 DEF Script, SetUp, SetupFails, TornDown, TeardownFails, Untouched
  <1> QED
    BY <1>2, <1>3, <1>4, <1>5, <1>6, <1>7, <1>8, <1>9, <1>10, <1>11, <1>12 DEF Work

LEMMA StepEdits ==
  ASSUME KnownInv, [Next]_vars
  PROVE  Edited \/ Reloaded \/ Untouched
  <1>1. ASSUME NEW s \in ServerIds, NEW name \in Names, Rename(s, name)
        PROVE  Edited \/ Untouched
    <2> DEFINE new == SetName(mem, s, name)
    <2>1. TypeInv /\ mem \in Documents
      BY DEF KnownInv, TypeInv, TypeOK
    <2>2. PICK done \in BOOLEAN : Update(s \in Servers(mem), new, done) /\ Show(s, name, done)
      BY <1>1 DEF Rename
    <2>3. s \in Servers(mem) => new \in Documents /\ Renamed(new, done)
      BY <1>1, <2>1, <2>2, SetNameType DEF Rename, Renamed
    <2>4. ~done /\ UNCHANGED store => UNCHANGED history
      BY <1>1, <2>1, <2>2, ShowNothing DEF Rename, history
    <2> QED BY <2>2, <2>3, <2>4 DEF Edit, Update, Edited, Untouched
  <1>2. CASE \E j \in Jobs, q \in Requests : Submit(j, q)
    BY <1>2 DEF Submit, Untouched
  <1>3. CASE RegisterLands \/ RemoveLands
    BY <1>3 DEF RegisterLands, RemoveLands, Untouched
  <1>4. CASE Crash
    BY <1>4 DEF Crash, Reloaded
  <1>5. CASE UNCHANGED vars
    BY <1>5 DEF vars, Untouched
  <1> QED BY <1>1, <1>2, <1>3, <1>4, <1>5, JobEdits DEF Next

(***************************************************************************)
(* KnownInv is inductive.                                                  *)
(***************************************************************************)
LEMMA UpdateKeepsServers ==
  ASSUME NEW accepted, NEW new, NEW done \in BOOLEAN, Update(accepted, new, done),
         accepted => Servers(new) = Servers(mem)
  PROVE  Servers(mem') = Servers(mem)
  BY DEF Update, Save, store

\* A running job that goes on learns of no server but by storing it.
LEMMA WorkKnows ==
  ASSUME KnownInv, NEW j \in Jobs, Work(j) \/ Script(j)
  PROVE  KnowsOnlyServers(j)'
  <1> DEFINE f == run[j]
  <1>1. /\ run \in [Jobs -> Frames] /\ f \in Frames /\ Sound(f) /\ mem \in Documents /\ TypeInv
        /\ KnowsOnlyServers(j)
    BY FrameOf DEF KnownInv, TypeInv, TypeOK
  <1>2. CASE StoreUser(j) \/ StoreServer(j)
    <2>1. run'[j].snap = mem' \/ run'[j].pc = "unlock"
      <3>1. CASE StoreUser(j)
        BY <1>1, <3>1 DEF StoreUser, Move, Goto, Failed, Frames
      <3>2. CASE StoreServer(j)
        BY <1>1, <3>2 DEF StoreServer, Move, Goto, Failed, Frames
      <3> QED BY <1>2, <3>1, <3>2
    <2> QED BY <2>1 DEF KnowsOnlyServers, At
  <1>3. CASE DropServer(j)
    BY <1>1, <1>3 DEF DropServer, Move, Goto, Failed, Frames, KnowsOnlyServers, At
  <1>4. CASE Unlock(j)
    BY <1>1, <1>4 DEF Unlock, Move, IdleFrame, KnowsOnlyServers, At, InLock
  <1>5. ASSUME ~Unlock(j), Servers(mem') = Servers(mem), run'[j].snap = f.snap
        PROVE  KnowsOnlyServers(j)'
    BY <1>1, <1>5, WorkKeepsLock DEF KnowsOnlyServers, At
  <1>6. /\ \A g : Move(j, g) => run'[j] = g
        /\ \A place : Goto(j, place).snap = f.snap
        /\ Failed(j).snap = f.snap
    BY <1>1 DEF Move, Goto, Failed, Frames
  <1>7. CASE DropUser(j)
    <2>1. Servers(RemoveUser(mem, f.user)) = Servers(mem)
      <3>1. f.user \in UserIds
        BY <1>1, <1>7, LookUps DEF DropUser, At, Kind, Op, Sound
      <3> QED BY <1>1, <3>1, UserTables
    <2>2. Servers(mem') = Servers(mem)
      BY <1>7, <2>1 DEF DropUser, Update, Save, store
    <2>3. run'[j].snap = f.snap
      BY <1>1, <1>6, <1>7 DEF DropUser, Goto, Frames
    <2> QED
      BY <1>4, <1>5, <2>2, <2>3
  <1>8. CASE SetUserLink(j) \/ SyncUser(j)
    <2>1. Servers(mem') = Servers(mem)
      <3>1. \A u, s, link : Servers(SetLink(mem, u, s, link)) = Servers(mem)
        BY <1>1, LinkTables
      <3>2. CASE SetUserLink(j)
        BY <3>1, <3>2 DEF SetUserLink, Update, Save, store
      <3>3. CASE SyncUser(j)
        BY <3>1, <3>3 DEF SyncUser, Update, Save, store
      <3> QED BY <1>8, <3>2, <3>3
    <2>2. run'[j].snap = f.snap
      <3>1. CASE SetUserLink(j)
        BY <1>1, <1>6, <3>1 DEF SetUserLink, Goto, Warned, Frames
      <3>2. CASE SyncUser(j)
        BY <1>1, <1>6, <3>2 DEF SyncUser, Goto, Frames
      <3> QED BY <1>8, <3>1, <3>2
    <2> QED
      BY <1>4, <1>5, <2>1, <2>2
  <1>9. CASE SetServerStatus(j)
    <2>1. Servers(mem') = Servers(mem)
      <3>1. f.verdict \in Statuses
        BY <1>1 DEF Frames
      <3>2. f.server \in Servers(mem) => Servers(SetStatus(mem, f.server, f.verdict)) = Servers(mem)
        BY <1>1, <3>1, StatusTables
      <3> QED BY <1>9, <3>2 DEF SetServerStatus, Update, Save, store
    <2>2. run'[j].snap = f.snap
      BY <1>6, <1>9 DEF SetServerStatus
    <2> QED
      BY <1>4, <1>5, <2>1, <2>2
  <1>10. ASSUME ~Unlock(j), UNCHANGED store, \E g : g.snap = f.snap /\ Move(j, g)
         PROVE  KnowsOnlyServers(j)'
    BY <1>5, <1>6, <1>10 DEF store
  <1>11. CASE Registered(j) \/ Conflict(j) \/ RegisterFails(j)
    <2>1. PICK p \in f.todo, place \in {"link", "adopt"}, c \in {0, nextClient} :
             Move(j, Answer(j, p, place, c))
      BY <1>11 DEF Registered, Conflict, RegisterFails, Missing
    <2>2. Answer(j, p, place, c).snap = f.snap
      BY <1>1 DEF Answer, Goto, Frames
    <2> QED
      BY <1>4, <1>10, <1>11, <2>1, <2>2 DEF Registered, Conflict, RegisterFails
  <1>12. CASE Adopt(j)
    BY <1>1, <1>4, <1>6, <1>10, <1>12 DEF Adopt, Goto, Frames
  <1>13. CASE EnsureDone(j)
    BY <1>1, <1>4, <1>6, <1>10, <1>13 DEF EnsureDone, Goto, Frames
  <1>14. CASE NoId(j) \/ SitesDone(j) \/ RemoveDone(j)
    BY <1>4, <1>6, <1>10, <1>14 DEF NoId, SitesDone, RemoveDone
  <1>15. CASE Listed(j)
    BY <1>1, <1>4, <1>10, <1>15 DEF Listed, Frames
  <1>16. CASE ListFails(j)
    BY <1>1, <1>4, <1>10, <1>16 DEF ListFails, Frames
  <1>17. CASE Removed(j) \/ RemoveFails(j)
    <2>1. CASE Removed(j)
      BY <1>1, <1>4, <1>10, <2>1 DEF Removed, Frames
    <2>2. CASE RemoveFails(j)
      BY <1>1, <1>4, <1>10, <2>2 DEF RemoveFails, Warned, Frames
    <2> QED BY <1>17, <2>1, <2>2
  <1>18. CASE Script(j)
    BY <1>1, <1>4, <1>6, <1>10, <1>18
    DEF Script, SetUp, SetupFails, TornDown, TeardownFails, Failed, Frames
  <1> QED
    BY <1>2, <1>3, <1>4, <1>7, <1>8, <1>9, <1>11, <1>12, <1>13, <1>14, <1>15, <1>16, <1>17, <1>18
    DEF Work

LEMMA KnownStep == KnownInv /\ [Next]_vars => KnownInv'
  <1> SUFFICES ASSUME KnownInv, [Next]_vars PROVE KnownInv'
    OBVIOUS
  <1>1. /\ TypeInv /\ OneJobAtATime /\ run \in [Jobs -> Frames] /\ mem \in Documents
        /\ \A k \in Jobs : KnowsOnlyServers(k)
    BY DEF KnownInv, TypeInv, TypeOK
  <1>2. TypeInv' /\ OneJobAtATime'
    BY <1>1, TypeStep, MutexStep
  <1>3. ASSUME NEW j \in Jobs, BeginJob(j) \/ Work(j) \/ Script(j), NEW k \in Jobs
        PROVE  KnowsOnlyServers(k)'
    <2>1. CASE BeginJob(j) /\ k = j
      BY <2>1, <1>1, BeginTakesLock DEF KnowsOnlyServers, store
    <2>2. CASE (Work(j) \/ Script(j)) /\ k = j
      BY <2>2, WorkKnows
    <2>3. CASE k # j
      <3>1. run'[k] = run[k] /\ holder \in {j, Free}
        <4>1. CASE Unlock(j)
          BY <1>1, <2>3, <4>1 DEF Unlock, Move
        <4>2. CASE BeginJob(j)
          BY <1>1, <2>3, <4>2, BeginTakesLock
        <4>3. CASE ~Unlock(j) /\ (Work(j) \/ Script(j))
          BY <1>1, <2>3, <4>3, WorkKeepsLock DEF OneJobAtATime, At
        <4> QED BY <1>3, <4>1, <4>2, <4>3
      <3> QED BY <1>1, <2>3, <3>1, FreeAssumption DEF OneJobAtATime, KnowsOnlyServers, At
    <2> QED BY <1>3, <2>1, <2>2, <2>3
  <1>4. ASSUME NEW s \in ServerIds, NEW name \in Names, Rename(s, name), NEW k \in Jobs
        PROVE  KnowsOnlyServers(k)'
    <2>1. s \in Servers(mem) => Servers(SetName(mem, s, name)) = Servers(mem)
      BY <1>1, NameTables
    <2>2. Servers(mem') = Servers(mem)
      BY <1>4, <2>1 DEF Rename, Update, Save, store
    <2> QED BY <1>1, <1>4, <2>2 DEF Rename, KnowsOnlyServers, At
  <1>5. ASSUME NEW j \in Jobs, NEW q \in Requests, Submit(j, q), NEW k \in Jobs
        PROVE  KnowsOnlyServers(k)'
    BY <1>1, <1>5 DEF Submit, KnowsOnlyServers, At, Move, InLock, Frames, store
  <1>6. CASE Crash
    <2>1. \A k \in Jobs : KnowsOnlyServers(k)'
      BY <1>6 DEF Crash, KnowsOnlyServers, At, IdleFrame, InLock
    <2> QED BY <1>2, <2>1 DEF KnownInv
  <1>7. CASE RegisterLands \/ RemoveLands
    <2>1. \A k \in Jobs : KnowsOnlyServers(k)'
      BY <1>1, <1>7 DEF RegisterLands, RemoveLands, KnowsOnlyServers, At, store
    <2> QED BY <1>2, <2>1 DEF KnownInv
  <1>8. CASE UNCHANGED vars
    <2>1. \A k \in Jobs : KnowsOnlyServers(k)'
      BY <1>1, <1>8 DEF vars, KnowsOnlyServers, At, store
    <2> QED BY <1>2, <2>1 DEF KnownInv
  <1> QED
    BY <1>2, <1>3, <1>4, <1>5, <1>6, <1>7, <1>8 DEF Next, KnownInv

LEMMA KnownInit == Init => KnownInv
  BY TypeInit DEF Init, KnownInv, OneJobAtATime, KnowsOnlyServers, At, IdleFrame, InLock

-----------------------------------------------------------------------------
(***************************************************************************)
(* Each edit keeps a consistent document consistent.                       *)
(***************************************************************************)
LEMMA AddUserConsistent ==
  ASSUME NEW d \in Documents, Consistent(d), NEW u \in UserIds \ Users(d), NEW e \in Emails,
         ~EmailTaken(d, e)
  PROVE  Consistent(AddUser(d, u, e))
  <1> DEFINE n == AddUser(d, u, e)
  <1>1. Users(n) = Users(d) \cup {u} /\ Servers(n) = Servers(d)
    BY AddUserTables
  <1>2. LinksResolve(n)
    BY <1>1 DEF Consistent, LinksResolve, AddUser, Documents
  <1>3. ProfilesDistinct(n)
    BY <1>1 DEF Consistent, ProfilesDistinct, EmailTaken, SameProfile, AddUser, Documents, Users
  <1>4. SitesDistinct(n)
    BY <1>1 DEF Consistent, SitesDistinct, AddUser
  <1> QED BY <1>2, <1>3, <1>4 DEF Consistent

LEMMA RemoveUserConsistent ==
  ASSUME NEW d \in Documents, Consistent(d), NEW u \in Users(d)
  PROVE  Consistent(RemoveUser(d, u))
  <1> DEFINE n == RemoveUser(d, u)
  <1>1. u \in UserIds /\ Users(n) = Users(d) \ {u} /\ Servers(n) = Servers(d)
    BY UserTables DEF Users
  <1>2. LinksResolve(n)
    BY <1>1 DEF Consistent, LinksResolve, RemoveUser, Documents
  <1>3. ProfilesDistinct(n)
    BY <1>1 DEF Consistent, ProfilesDistinct, SameProfile, RemoveUser, Documents, Users
  <1>4. SitesDistinct(n)
    BY <1>1 DEF Consistent, SitesDistinct, RemoveUser
  <1> QED BY <1>2, <1>3, <1>4 DEF Consistent

LEMMA AddServerConsistent ==
  ASSUME NEW d \in Documents, Consistent(d), NEW s \in ServerIds \ Servers(d),
         NEW site \in Sites, NEW name \in Names, ~SiteTaken(d, site)
  PROVE  Consistent(AddServer(d, s, site, name))
  <1> DEFINE n == AddServer(d, s, site, name)
  <1>1. Users(n) = Users(d) /\ Servers(n) = Servers(d) \cup {s}
    BY AddServerTables
  <1>2. LinksResolve(n)
    BY <1>1 DEF Consistent, LinksResolve, AddServer
  <1>3. ProfilesDistinct(n)
    BY <1>1 DEF Consistent, ProfilesDistinct, AddServer
  <1>4. SitesDistinct(n)
    BY <1>1 DEF Consistent, SitesDistinct, SiteTaken, AddServer, Documents, Servers
  <1> QED BY <1>2, <1>3, <1>4 DEF Consistent

LEMMA ForgetServerConsistent ==
  ASSUME NEW d \in Documents, Consistent(d), NEW s \in Servers(d)
  PROVE  Consistent(ForgetServer(d, s))
  <1> DEFINE n == ForgetServer(d, s)
  <1>1. s \in ServerIds /\ Users(n) = Users(d) /\ Servers(n) = Servers(d) \ {s}
    BY ServerTables DEF Servers
  <1>2. \A u \in UserIds, t \in ServerIds :
          n.link[u][t] = IF t = s THEN NoLink ELSE d.link[u][t]
    BY <1>1 DEF ForgetServer, Documents
  <1>3. LinksResolve(n)
    BY <1>1, <1>2 DEF Consistent, LinksResolve
  <1>4. ProfilesDistinct(n)
    BY <1>1 DEF Consistent, ProfilesDistinct, ForgetServer, Documents
  <1>5. SitesDistinct(n)
    BY <1>1 DEF Consistent, SitesDistinct, ForgetServer, Documents, Servers
  <1> QED BY <1>3, <1>4, <1>5 DEF Consistent

LEMMA SetLinkConsistent ==
  ASSUME NEW d \in Documents, Consistent(d), NEW u \in Users(d), NEW s \in Servers(d),
         NEW link \in Links
  PROVE  Consistent(SetLink(d, u, s, link))
  <1> DEFINE n == SetLink(d, u, s, link)
  <1>1. Users(n) = Users(d) /\ Servers(n) = Servers(d)
    BY LinkTables
  <1>2. n.user = d.user /\ n.server = d.server
    BY DEF SetLink, Documents
  <1>3. \A v \in UserIds, t \in ServerIds : v # u \/ t # s => n.link[v][t] = d.link[v][t]
    BY DEF SetLink, Documents
  <1>4. LinksResolve(n)
    BY <1>1, <1>3 DEF Consistent, LinksResolve
  <1> QED BY <1>2, <1>1, <1>4 DEF Consistent, ProfilesDistinct, SitesDistinct

\* Status and name of a server play no part in consistency.
LEMMA SameTablesConsistent ==
  ASSUME NEW d \in Documents, Consistent(d), NEW n,
         Users(n) = Users(d), Servers(n) = Servers(d), n.user = d.user, n.link = d.link,
         \A s \in Servers(d) : n.server[s].site = d.server[s].site
  PROVE  Consistent(n)
  BY DEF Consistent, LinksResolve, ProfilesDistinct, SitesDistinct

LEMMA EntryConsistent ==
  ASSUME NEW d \in Documents, Consistent(d), NEW s \in Servers(d)
  PROVE  /\ \A status \in Statuses : Consistent(SetStatus(d, s, status))
         /\ \A name \in Names : Consistent(SetName(d, s, name))
  <1>1. ASSUME NEW status \in Statuses PROVE Consistent(SetStatus(d, s, status))
    <2> DEFINE n == SetStatus(d, s, status)
    <2>1. Users(n) = Users(d) /\ Servers(n) = Servers(d)
      BY StatusTables
    <2>2. /\ n.user = d.user /\ n.link = d.link
          /\ \A t \in Servers(d) : n.server[t].site = d.server[t].site
      BY DEF SetStatus, Documents, Servers, ServerEntries
    <2> HIDE DEF n
    <2> QED BY <2>1, <2>2, SameTablesConsistent DEF n
  <1>2. ASSUME NEW name \in Names PROVE Consistent(SetName(d, s, name))
    <2> DEFINE n == SetName(d, s, name)
    <2>1. Users(n) = Users(d) /\ Servers(n) = Servers(d)
      BY NameTables
    <2>2. /\ n.user = d.user /\ n.link = d.link
          /\ \A t \in Servers(d) : n.server[t].site = d.server[t].site
      BY DEF SetName, Documents, Servers, ServerEntries
    <2> HIDE DEF n
    <2> QED BY <2>1, <2>2, SameTablesConsistent DEF n
  <1> QED BY <1>1, <1>2

LEMMA EditConsistent ==
  ASSUME mem \in Documents, Consistent(mem), NEW new, NEW done, Edit(new, done)
  PROVE  Consistent(new)
  <1>1. CASE UserAdded(new)
    BY <1>1, AddUserConsistent DEF UserAdded, Fresh
  <1>2. CASE UserRemoved(new, done)
    BY <1>2, RemoveUserConsistent DEF UserRemoved
  <1>3. CASE ServerAdded(new, done)
    BY <1>3, AddServerConsistent DEF ServerAdded, Fresh
  <1>4. CASE ServerForgotten(new, done)
    BY <1>4, ForgetServerConsistent DEF ServerForgotten
  <1>5. CASE LinkSet(new)
    BY <1>5, SetLinkConsistent DEF LinkSet
  <1>6. CASE StatusSet(new) \/ Renamed(new, done)
    BY <1>6, EntryConsistent DEF StatusSet, Renamed
  <1> QED BY <1>1, <1>2, <1>3, <1>4, <1>5, <1>6 DEF Edit

LEMMA ConsistentStep ==
  KnownInv /\ DocumentsConsistent /\ [Next]_vars => DocumentsConsistent'
  <1> SUFFICES ASSUME KnownInv, DocumentsConsistent, [Next]_vars PROVE DocumentsConsistent'
    OBVIOUS
  <1>1. mem \in Documents
    BY DEF KnownInv, TypeInv, TypeOK
  <1>2. CASE Edited
    <2>1. PICK new \in Documents, done \in BOOLEAN : Save(new, done) /\ Edit(new, done)
      BY <1>2 DEF Edited
    <2>2. Consistent(new)
      BY <1>1, <2>1, EditConsistent DEF DocumentsConsistent
    <2> QED BY <2>1, <2>2 DEF Save, store, DocumentsConsistent
  <1>3. CASE Reloaded
    BY <1>3 DEF Reloaded, DocumentsConsistent
  <1>4. CASE Untouched
    BY <1>4 DEF Untouched, store, DocumentsConsistent
  <1> QED BY <1>2, <1>3, <1>4, StepEdits

\* Links resolve and names, addresses and domains are unique, in memory and
\* in the file a restart would load, whatever operations, renames, failed
\* saves and crashes come together.
THEOREM Consistency == Spec => []DocumentsConsistent
  <1>1. Init => DocumentsConsistent
    BY InitialAssumption DEF Init, DocumentsConsistent
  <1> QED
    BY <1>1, KnownInit, KnownStep, ConsistentStep, PTL DEF Spec

-----------------------------------------------------------------------------
(***************************************************************************)
(* Deletions last: an edit brings in fresh ids only, and Fresh draws none  *)
(* that is gone.                                                           *)
(***************************************************************************)
Entries(d) == Users(d) \cup Servers(d)

LEMMA EditEntries ==
  ASSUME mem \in Documents, NEW new, NEW done, Edit(new, done)
  PROVE  Entries(new) \cap gone \subseteq Entries(mem)
  <1>1. CASE UserAdded(new)
    BY <1>1, AddUserTables DEF UserAdded, Fresh, Entries
  <1>2. CASE UserRemoved(new, done)
    BY <1>2, UserTables DEF UserRemoved, Entries, Users
  <1>3. CASE ServerAdded(new, done)
    BY <1>3, AddServerTables DEF ServerAdded, Fresh, Entries
  <1>4. CASE ServerForgotten(new, done)
    BY <1>4, ServerTables DEF ServerForgotten, Entries, Servers
  <1>5. CASE LinkSet(new)
    BY <1>5, LinkTables DEF LinkSet, Entries
  <1>6. CASE StatusSet(new)
    BY <1>6, StatusTables DEF StatusSet, Entries
  <1>7. CASE Renamed(new, done)
    BY <1>7, NameTables DEF Renamed, Entries
  <1> QED BY <1>1, <1>2, <1>3, <1>4, <1>5, <1>6, <1>7 DEF Edit

\* What an acknowledged edit adds to "gone" is not in the new document.
LEMMA EditDeletes ==
  ASSUME mem \in Documents, NEW new, NEW done \in BOOLEAN, Edit(new, done)
  PROVE  IF done THEN (gone' \ gone) \cap Entries(new) = {} ELSE gone' = gone
  <1>1. CASE UserAdded(new) \/ LinkSet(new) \/ StatusSet(new)
    BY <1>1 DEF UserAdded, LinkSet, StatusSet, history
  <1>2. CASE ServerAdded(new, done) \/ Renamed(new, done)
    BY <1>2 DEF ServerAdded, Renamed
  <1>3. CASE UserRemoved(new, done)
    BY <1>3, UserTables, IdsAssumption DEF UserRemoved, Entries, Users, Servers
  <1>4. CASE ServerForgotten(new, done)
    BY <1>4, ServerTables, IdsAssumption DEF ServerForgotten, Entries, Users, Servers
  <1> QED BY <1>1, <1>2, <1>3, <1>4 DEF Edit

LEMMA DeletedStep ==
  KnownInv /\ DeletedStayGone /\ [Next]_vars => DeletedStayGone'
  <1> SUFFICES ASSUME KnownInv, DeletedStayGone, [Next]_vars PROVE DeletedStayGone'
    OBVIOUS
  <1>1. /\ mem \in Documents
        /\ gone \cap Entries(mem) = {} /\ gone \cap Entries(disk) = {}
    BY DEF KnownInv, TypeInv, TypeOK, DeletedStayGone, Entries
  <1>2. SUFFICES gone' \cap Entries(mem') = {} /\ gone' \cap Entries(disk') = {}
    BY DEF DeletedStayGone, Entries
  <1>3. CASE Edited
    <2>1. PICK new \in Documents, done \in BOOLEAN : Save(new, done) /\ Edit(new, done)
      BY <1>3 DEF Edited
    <2>2. gone \cap Entries(new) = {}
      BY <1>1, <2>1, EditEntries
    <2>3. IF done THEN (gone' \ gone) \cap Entries(new) = {} ELSE gone' = gone
      BY <1>1, <2>1, EditDeletes
    <2>4. IF done THEN mem' = new /\ disk' = new ELSE mem' = mem /\ disk' \in {disk, new}
      BY <2>1 DEF Save, store
    <2> QED BY <1>1, <2>2, <2>3, <2>4
  <1>4. CASE Reloaded
    BY <1>1, <1>4 DEF Reloaded, history
  <1>5. CASE Untouched
    BY <1>1, <1>5 DEF Untouched, store, history
  <1> QED BY <1>3, <1>4, <1>5, StepEdits

\* An acknowledged deletion of a user or server is never undone, by no job,
\* no failed save and no restart.
THEOREM DeletionsLast == Spec => []DeletedStayGone
  <1>1. Init => DeletedStayGone
    BY DEF Init, DeletedStayGone
  <1> QED
    BY <1>1, KnownInit, KnownStep, DeletedStep, PTL DEF Spec

-----------------------------------------------------------------------------
(***************************************************************************)
(* Renames last: of the edits only a rename and a new server touch names,  *)
(* and each is computed from the document in memory, not from a snapshot.  *)
(***************************************************************************)
NamesShown(d, names) == \A s \in Servers(d) : d.server[s].name \in names[s]

LEMMA SameServers ==
  ASSUME NEW d \in Documents
  PROVE  \A u, s, e, link : /\ AddUser(d, u, e).server = d.server
                            /\ RemoveUser(d, u).server = d.server
                            /\ SetLink(d, u, s, link).server = d.server
  BY DEF Documents, AddUser, RemoveUser, SetLink

\* What the other edits do to the names of servers.
LEMMA AddedName ==
  ASSUME NEW d \in Documents, NEW s \in ServerIds, NEW site, NEW name
  PROVE  AddServer(d, s, site, name).server[s].name = name
  BY DEF Documents, AddServer

LEMMA GivenName ==
  ASSUME NEW d \in Documents, NEW s \in Servers(d), NEW name
  PROVE  SetName(d, s, name).server[s].name = name
  BY DEF Documents, SetName, Servers, ServerEntries

LEMMA NewNames ==
  ASSUME NEW d \in Documents, NEW s \in ServerIds, NEW t \in Servers(d),
         NEW site, NEW name, NEW status
  PROVE  /\ t # s => AddServer(d, s, site, name).server[t] = d.server[t]
         /\ t # s => ForgetServer(d, s).server[t] = d.server[t]
         /\ SetStatus(d, s, status).server[t].name = d.server[t].name
         /\ t # s => SetName(d, s, name).server[t] = d.server[t]
  <1>1. d.server[t] \in ServerEntries /\ t \in ServerIds
    BY DEF Documents, Servers
  <1>2. t # s => AddServer(d, s, site, name).server[t] = d.server[t]
    BY DEF Documents, AddServer
  <1>3. t # s => ForgetServer(d, s).server[t] = d.server[t]
    BY DEF Documents, ForgetServer
  <1>4. SetStatus(d, s, status).server[t].name = d.server[t].name
    BY <1>1 DEF Documents, SetStatus, ServerEntries
  <1>5. t # s => SetName(d, s, name).server[t] = d.server[t]
    BY <1>1 DEF Documents, SetName, ServerEntries
  <1> QED BY <1>2, <1>3, <1>4, <1>5

LEMMA EditNames ==
  ASSUME mem \in Documents, shown \in [ServerIds -> SUBSET Names], NamesShown(mem, shown),
         NamesShown(disk, shown), NEW new, NEW done \in BOOLEAN, Edit(new, done), Save(new, done)
  PROVE  NamesShown(mem', shown') /\ NamesShown(disk', shown')
  <1>1. IF done THEN mem' = new /\ disk' = new ELSE mem' = mem /\ disk' \in {disk, new}
    BY DEF Save, store
  <1>2. CASE UserAdded(new) \/ UserRemoved(new, done) \/ LinkSet(new) \/ StatusSet(new)
    <2>1. /\ Servers(new) = Servers(mem)
          /\ \A s \in Servers(mem) : new.server[s].name = mem.server[s].name
      <3>1. CASE UserAdded(new)
        <4>1. PICK u \in UserIds, e \in Emails : new = AddUser(mem, u, e)
          BY <3>1 DEF UserAdded, Fresh
        <4> QED BY <4>1, AddUserTables, SameServers
      <3>2. CASE UserRemoved(new, done)
        <4>1. PICK u \in UserIds : new = RemoveUser(mem, u)
          BY <3>2 DEF UserRemoved, Users
        <4> QED BY <4>1, UserTables, SameServers
      <3>3. CASE LinkSet(new)
        BY <3>3, LinkTables, SameServers DEF LinkSet
      <3>4. CASE StatusSet(new)
        <4>1. PICK s \in Servers(mem), status \in Statuses : new = SetStatus(mem, s, status)
          BY <3>4 DEF StatusSet
        <4>2. s \in ServerIds
          BY <4>1 DEF Servers
        <4> QED BY <4>1, <4>2, StatusTables, NewNames
      <3> QED BY <1>2, <3>1, <3>2, <3>3, <3>4
    <2>2. UNCHANGED shown
      BY <1>2 DEF UserAdded, UserRemoved, LinkSet, StatusSet, history
    <2> QED BY <1>1, <2>1, <2>2 DEF NamesShown
  <1>3. CASE ServerAdded(new, done) \/ Renamed(new, done)
    <2>1. PICK s \in ServerIds, name \in Names :
            /\ Servers(new) \subseteq Servers(mem) \cup {s}
            /\ new.server[s].name = name
            /\ \A t \in Servers(mem) \ {s} : new.server[t].name = mem.server[t].name
            /\ Show(s, name, done)
      <3>1. CASE ServerAdded(new, done)
        <4>1. PICK s \in ServerIds, site \in Sites, name \in Names :
                 new = AddServer(mem, s, site, name) /\ Show(s, name, done)
          BY <3>1 DEF ServerAdded, Fresh
        <4>2. Servers(new) = Servers(mem) \cup {s} /\ new.server[s].name = name
          BY <4>1, AddServerTables, AddedName
        <4>3. \A t \in Servers(mem) \ {s} : new.server[t].name = mem.server[t].name
          BY <4>1, NewNames
        <4> QED BY <4>1, <4>2, <4>3
      <3>2. CASE Renamed(new, done)
        <4>1. PICK s \in Servers(mem), name \in Names :
                 new = SetName(mem, s, name) /\ Show(s, name, done)
          BY <3>2 DEF Renamed
        <4>2. s \in ServerIds
          BY <4>1 DEF Servers
        <4>3. Servers(new) = Servers(mem) /\ new.server[s].name = name
          BY <4>1, NameTables, GivenName
        <4>4. \A t \in Servers(mem) \ {s} : new.server[t].name = mem.server[t].name
          BY <4>1, <4>2, NewNames
        <4> QED BY <4>1, <4>2, <4>3, <4>4
      <3> QED BY <1>3, <3>1, <3>2
    <2>2. shown' = [shown EXCEPT ![s] = IF done THEN {name}
                                        ELSE IF disk' # disk THEN @ \cup {name} ELSE @]
      BY <2>1 DEF Show
    <2> QED BY <1>1, <2>1, <2>2 DEF NamesShown, Servers
  <1>4. CASE ServerForgotten(new, done)
    <2>1. PICK s \in Servers(mem) :
            /\ Servers(new) = Servers(mem) \ {s}
            /\ \A t \in Servers(new) : new.server[t].name = mem.server[t].name
            /\ shown' = IF done THEN [shown EXCEPT ![s] = {}] ELSE shown
      <3>1. PICK s \in Servers(mem) :
               /\ new = ForgetServer(mem, s)
               /\ shown' = IF done THEN [shown EXCEPT ![s] = {}] ELSE shown
        BY <1>4 DEF ServerForgotten
      <3>2. s \in ServerIds /\ Servers(new) = Servers(mem) \ {s}
        BY <3>1, ServerTables DEF Servers
      <3>3. \A t \in Servers(new) : new.server[t].name = mem.server[t].name
        BY <3>1, <3>2, NewNames
      <3> QED BY <3>1, <3>2, <3>3
    <2> QED BY <1>1, <2>1 DEF NamesShown, Servers
  <1> QED BY <1>2, <1>3, <1>4 DEF Edit

LEMMA RenamesStep ==
  KnownInv /\ RenamesSurvive /\ [Next]_vars => RenamesSurvive'
  <1> SUFFICES ASSUME KnownInv, RenamesSurvive, [Next]_vars PROVE RenamesSurvive'
    OBVIOUS
  <1>1. /\ mem \in Documents /\ shown \in [ServerIds -> SUBSET Names]
        /\ NamesShown(mem, shown) /\ NamesShown(disk, shown)
    BY DEF KnownInv, TypeInv, TypeOK, RenamesSurvive, NamesShown
  <1>2. SUFFICES NamesShown(mem', shown') /\ NamesShown(disk', shown')
    BY DEF RenamesSurvive, NamesShown
  <1>3. CASE Edited
    BY <1>1, <1>3, EditNames DEF Edited
  <1>4. CASE Reloaded
    BY <1>1, <1>4 DEF Reloaded, history
  <1>5. CASE Untouched
    BY <1>1, <1>5 DEF Untouched, store, history
  <1> QED BY <1>3, <1>4, <1>5, StepEdits

\* A server has, in memory and on disk, a name the operator was told of: no
\* job that began before a rename undoes it.
THEOREM RenamesLast == Spec => []RenamesSurvive
  <1>1. Init => RenamesSurvive
    BY DEF Init, RenamesSurvive, Servers
  <1> QED
    BY <1>1, KnownInit, KnownStep, RenamesStep, PTL DEF Spec
=============================================================================
