---------------------------- MODULE ControlPlane ----------------------------
(***************************************************************************)
(* The operations of Master (operations.go), the handlers that start them  *)
(* (server.go), and the two things they change: the document in the store  *)
(* and the client records on the Slaves.                                   *)
(*                                                                         *)
(* Each job is one goroutine that waits for operationMu, takes a snapshot, *)
(* and then calls Slaves and the store one at a time.  Between two of its  *)
(* steps a handler may rename a server (it does not take operationMu), a   *)
(* timed-out call may still land on a Slave, or Master may be killed.      *)
(* Memory and disk are kept apart because saveLocked can fail on either    *)
(* side of its rename.                                                     *)
(*                                                                         *)
(* Loops over users, servers and records take their elements in any order: *)
(* fullSync iterates over maps, and for the other loops this only adds     *)
(* behaviours.                                                             *)
(***************************************************************************)
EXTENDS MasterState, FiniteSets

CONSTANTS
  Jobs,             \* job slots; a slot is used again after its job ended
  Requests,         \* the operations an operator may ask for
  Free,             \* operationMu is not held
  NoRequest,        \* a slot without a job
  Faults,           \* what may go wrong, a subset of FaultKinds
  InitialDocument,  \* the document found at start
  InitialSlaves,    \* the Slaves found at start
  FirstClient,      \* the first record number the Slaves have not given out
  MaxClients,       \* bound: record numbers the Slaves may give out
  MaxLate           \* bound: timed-out calls on their way to a Slave

VARIABLES
  mem,        \* Store.state
  disk,       \* master.json
  slave,      \* per address: is a Slave installed, and its client records
  nextClient, \* the next record number
  lateRegister, lateRemove, \* calls that timed out and may still land
  run,        \* per slot: the job's local variables and where it stands
  holder,     \* the job that holds operationMu, or Free
  offered,    \* the sites for which the panel shows the clean-up button
  stray,      \* history: records a late call touched since operationMu was taken
  gone,       \* history: ids whose deletion was acknowledged
  shown       \* history: per server, the names an operator may expect to see

store == <<mem, disk>>
slaves == <<slave, nextClient, lateRegister, lateRemove, stray>>
history == <<gone, shown>>
vars == <<store, slaves, run, holder, offered, history>>

Ids == UserIds \cup ServerIds
Kinds == {"create", "retry", "delete", "sync",
          "provision", "cleanup", "uninstall", "forget"}
FaultKinds == {"save",   \* saveLocked fails before the rename
               "limbo",  \* it fails, or Master dies, after the rename
               "late",   \* a call times out and is carried out later
               "crash"}  \* Master is killed and started again

ASSUME FreeAssumption == Free \notin Jobs /\ NoRequest \notin Requests
ASSUME IdsAssumption ==
  UserIds \cap ServerIds = {} /\ NoUser \notin UserIds /\ NoServer \notin ServerIds
ASSUME FaultsAssumption == Faults \subseteq FaultKinds
ASSUME BoundsAssumption ==
  FirstClient \in Nat \ {0} /\ MaxClients \in Nat /\ MaxLate \in Nat
ASSUME RequestsAssumption ==
  \A q \in Requests :
    /\ q.kind \in Kinds
    /\ q.kind = "create" => q.email \in Emails
    /\ q.kind \in {"retry", "delete"} => q.user \in UserIds
    /\ q.kind \in {"uninstall", "forget"} => q.server \in ServerIds
    /\ q.kind \in {"provision", "cleanup"} => q.site \in Sites
    /\ q.kind = "provision" => q.name \in Names

Records == [id : Clients, email : Emails]
SlaveStates == [installed : BOOLEAN, records : SUBSET Records]
Bare == [installed |-> FALSE, records |-> {}]
ClientIds(records) == {r.id : r \in records}
Matching(records, e) == {r \in records : SameProfile(r.email, e)}
IsOldest(c, records) ==
  c \in ClientIds(records) /\ \A d \in ClientIds(records) : c <= d

\* Master and the Slaves start as earlier runs of Master have left them.
ASSUME InitialAssumption ==
  /\ InitialDocument \in Documents /\ Consistent(InitialDocument)
  /\ InitialSlaves \in [Addresses -> SlaveStates]
  /\ \A a \in Addresses : \A r, q \in InitialSlaves[a].records :
       r.id \in 1..FirstClient-1 /\ (q.id = r.id => q = r)
  /\ \A u \in UserIds, s \in Servers(InitialDocument) :
       LET link == InitialDocument.link[u][s]
           there == InitialSlaves[InitialDocument.server[s].site.address].records IN
       link.status = "ready" =>
         /\ link.client < FirstClient
         /\ \A r \in there :
              r.id = link.client => SameProfile(r.email, InitialDocument.user[u])

(***************************************************************************)
(* A job.  "snap" is the last Snapshot it took; "user" and "server" are    *)
(* the entries it works on, "todo" the registrations left, "sites" the     *)
(* servers left, "seen" the last /list, "victims" the records it is        *)
(* removing and "reply" the record it is about to link (0: none).          *)
(***************************************************************************)
Places == {"idle", "waiting", "store", "ensure", "adopt", "link", "sites",
           "duplicates", "extras", "purge", "status", "setup", "teardown",
           "drop", "unlock"}
InLock == Places \ {"idle", "waiting"}

Frames ==
  [op : Requests \cup {NoRequest}, pc : Places, snap : Documents,
   user : UserIds \cup {NoUser}, server : ServerIds \cup {NoServer},
   todo : SUBSET (UserIds \X ServerIds), sites : SUBSET ServerIds,
   seen : SUBSET Records, victims : SUBSET Clients, reply : Clients,
   verdict : Statuses, failed : BOOLEAN, warned : BOOLEAN]

IdleFrame ==
  [op |-> NoRequest, pc |-> "idle", snap |-> EmptyDocument,
   user |-> NoUser, server |-> NoServer, todo |-> {}, sites |-> {},
   seen |-> {}, victims |-> {}, reply |-> 0,
   verdict |-> "ready", failed |-> FALSE, warned |-> FALSE]

Op(j) == run[j].op
Kind(j) == run[j].op.kind
At(j, places) == run[j].pc \in places
EmailOf(j, u) == run[j].snap.user[u]
AddressOf(j, s) == run[j].snap.server[s].site.address

Move(j, frame) == run' = [run EXCEPT ![j] = frame]
Goto(j, place) == [run[j] EXCEPT !.pc = place]
\* Mutant: an early return that skips the deferred Unlock.
FailedHoldingLock(j) == [run[j] EXCEPT !.pc = "idle", !.failed = TRUE]
Failed(j) == [run[j] EXCEPT !.pc = "unlock", !.failed = TRUE]

Init ==
  /\ mem = InitialDocument /\ disk = InitialDocument
  /\ slave = InitialSlaves /\ nextClient = FirstClient
  /\ lateRegister = {} /\ lateRemove = {}
  /\ run = [j \in Jobs |-> IdleFrame] /\ holder = Free /\ offered = {}
  /\ stray = {} /\ gone = {}
  /\ shown = [s \in ServerIds |->
       IF s \in Servers(mem) THEN {mem.server[s].name} ELSE {}]

(***************************************************************************)
(* Store.Update: the callback sees the current document and may reject it; *)
(* an accepted change is saved, not saved, or saved to disk only.          *)
(***************************************************************************)
\* Mutant: the update is acknowledged before the file is safe on disk.
SaveUnsynced(new, done) ==
  \/ done /\ mem' = new /\ disk' \in {disk, new}
  \/ ~done /\ UNCHANGED store

Save(new, done) ==
  \/ done /\ mem' = new /\ disk' = new
  \/ ~done /\ "save" \in Faults /\ UNCHANGED store
  \/ ~done /\ "limbo" \in Faults /\ disk' = new /\ UNCHANGED mem

Update(accepted, new, done) ==
  \/ accepted /\ Save(new, done)
  \/ ~accepted /\ ~done /\ UNCHANGED store

\* What an operator may expect a server to be called after an update.
Show(s, name, done) ==
  shown' = [shown EXCEPT ![s] =
    IF done THEN {name} ELSE IF disk' # disk THEN @ \cup {name} ELSE @]

(***************************************************************************)
(* Handlers.  Two of them look for the target in a snapshot before they    *)
(* start the job; the others leave it to the job.  The panel (app.js) lets *)
(* its operator clean a site up when it has just been told that setting it *)
(* up, or cleaning it up, failed.                                          *)
(***************************************************************************)
Precheck(q) ==
  /\ q.kind = "delete" => q.user \in Users(mem)
  /\ q.kind \in {"uninstall", "forget"} => q.server \in Servers(mem)

OnSite(q) == q.kind \in {"provision", "cleanup"}
CleanupShown(q) == q.kind = "cleanup" => q.site \in offered

Submit(j, q) ==
  /\ At(j, {"idle"})
  /\ Precheck(q) /\ CleanupShown(q)
  /\ Move(j, [run[j] EXCEPT !.op = q, !.pc = "waiting"])
  /\ offered' = IF OnSite(q) THEN offered \ {q.site} ELSE offered
  /\ UNCHANGED <<store, slaves, holder, history>>

\* handleUpdateServer writes the store without operationMu.
Rename(s, name) ==
  /\ \E done \in BOOLEAN :
       /\ Update(s \in Servers(mem), SetName(mem, s, name), done)
       /\ Show(s, name, done)
  /\ UNCHANGED <<slaves, run, holder, offered, gone>>

(***************************************************************************)
(* operationMu is taken and the job's first snapshot decides how it goes   *)
(* on.  A rename between Lock and Snapshot could as well have come first.  *)
(***************************************************************************)
\* Mutant: operationMu is not waited for.
LockIgnored(j) == holder' = j

Lock(j) == holder = Free /\ holder' = j

Begin(j, kinds, accepted, next) ==
  /\ At(j, {"waiting"}) /\ Kind(j) \in kinds
  /\ Lock(j)
  /\ Move(j, IF accepted THEN [next EXCEPT !.snap = mem]
                         ELSE [Failed(j) EXCEPT !.snap = mem])
  /\ UNCHANGED <<store, slaves, offered, history>>

BeginCreate(j) ==
  Begin(j, {"create"}, ~EmailTaken(mem, Op(j).email), Goto(j, "store"))

BeginRetry(j) ==
  Begin(j, {"retry"}, Op(j).user \in Users(mem),
        [Goto(j, "ensure") EXCEPT !.user = Op(j).user,
                                  !.todo = {Op(j).user} \X Servers(mem)])

BeginDelete(j) ==
  Begin(j, {"delete"}, Op(j).user \in Users(mem),
        [Goto(j, "store") EXCEPT !.user = Op(j).user])

BeginSync(j) ==
  Begin(j, {"sync"}, TRUE, [Goto(j, "sites") EXCEPT !.sites = Servers(mem)])

BeginProvision(j) ==
  Begin(j, {"provision"}, ~SiteTaken(mem, Op(j).site), Goto(j, "setup"))

\* Mutant: one operation forgets operationMu.
BeginCleanupUnlocked(j) ==
  /\ At(j, {"waiting"}) /\ Kind(j) = "cleanup"
  /\ Move(j, Goto(j, "teardown"))
  /\ UNCHANGED <<store, slaves, holder, offered, history>>

BeginCleanup(j) == Begin(j, {"cleanup"}, TRUE, Goto(j, "teardown"))

BeginDrop(j) ==
  Begin(j, {"uninstall", "forget"}, Op(j).server \in Servers(mem),
        [Goto(j, IF Kind(j) = "forget" THEN "drop" ELSE "teardown")
           EXCEPT !.server = Op(j).server])

Unlock(j) ==
  /\ At(j, {"unlock"}) /\ holder = j
  /\ holder' = Free /\ stray' = {}
  /\ Move(j, IdleFrame)
  /\ offered' = IF OnSite(Op(j)) /\ run[j].failed
                  THEN offered \cup {Op(j).site} ELSE offered
  /\ UNCHANGED <<store, slave, nextClient, lateRegister, lateRemove, history>>

(***************************************************************************)
(* createUser and deleteUser change the user table first.                  *)
(***************************************************************************)
Fresh(ids) == ids \ (gone \cup Users(mem) \cup Users(disk)
                          \cup Servers(mem) \cup Servers(disk))

StoreUser(j) ==
  /\ At(j, {"store"}) /\ Kind(j) = "create"
  /\ \E u \in Fresh(UserIds), done \in BOOLEAN :
       /\ Update(~EmailTaken(mem, Op(j).email), AddUser(mem, u, Op(j).email), done)
       /\ Move(j, IF done
                  THEN [Goto(j, "ensure") EXCEPT
                          !.snap = mem', !.user = u, !.todo = {u} \X Servers(mem')]
                  ELSE Failed(j))
  /\ UNCHANGED <<slaves, holder, offered, history>>

\* randomID or randomToken fails; also how a bounded pool of ids runs out.
NoId(j) ==
  /\ At(j, {"store"}) /\ Kind(j) \in {"create", "provision"}
  /\ Move(j, Failed(j))
  /\ UNCHANGED <<store, slaves, holder, offered, history>>

DropUser(j) ==
  /\ At(j, {"store"}) /\ Kind(j) = "delete"
  /\ \E done \in BOOLEAN :
       /\ Update(run[j].user \in Users(mem), RemoveUser(mem, run[j].user), done)
       /\ Move(j, IF done
                  THEN [Goto(j, "sites") EXCEPT !.sites = Servers(run[j].snap)]
                  ELSE Failed(j))
       /\ gone' = IF done THEN gone \cup {run[j].user} ELSE gone
  /\ UNCHANGED <<slaves, holder, offered, shown>>

(***************************************************************************)
(* ensureUserOnServer: POST /register; on 409 GET /list and adopt the      *)
(* first record of the same profile; then setUserLink.  fullSync comes     *)
(* here only for a user its /list did not show.                            *)
(***************************************************************************)
\* Mutant: fullSync groups records by the name as spelled.
FoundAsSpelled(j, u) == {r \in run[j].seen : r.email = EmailOf(j, u)}
Found(j, u) == Matching(run[j].seen, EmailOf(j, u))
Missing(j) == {p \in run[j].todo : Found(j, p[1]) = {}}

Answer(j, p, place, client) ==
  [Goto(j, place) EXCEPT !.user = p[1], !.server = p[2], !.reply = client]

Registered(j) ==
  /\ At(j, {"ensure"}) /\ nextClient <= MaxClients
  /\ \E p \in Missing(j) :
       LET a == AddressOf(j, p[2])  e == EmailOf(j, p[1]) IN
       /\ slave[a].installed /\ Matching(slave[a].records, e) = {}
       /\ slave' = [slave EXCEPT ![a].records = @ \cup {[id |-> nextClient, email |-> e]}]
       /\ Move(j, Answer(j, p, "link", nextClient))
  /\ nextClient' = nextClient + 1
  /\ UNCHANGED <<store, lateRegister, lateRemove, stray, holder, offered, history>>

Conflict(j) ==
  /\ At(j, {"ensure"})
  /\ \E p \in Missing(j) :
       LET a == AddressOf(j, p[2]) IN
       /\ slave[a].installed
       /\ Matching(slave[a].records, EmailOf(j, p[1])) # {}
       /\ Move(j, Answer(j, p, "adopt", 0))
  /\ UNCHANGED <<store, slaves, holder, offered, history>>

CanBeLate ==
  "late" \in Faults /\ Cardinality(lateRegister) + Cardinality(lateRemove) < MaxLate

\* An error answer, no answer, or a time-out after which the call may land.
RegisterFails(j) ==
  /\ At(j, {"ensure"})
  /\ \E p \in Missing(j) :
       /\ Move(j, Answer(j, p, "link", 0))
       /\ \/ UNCHANGED lateRegister
          \/ /\ CanBeLate
             /\ lateRegister' = lateRegister \cup
                  {[at |-> AddressOf(j, p[2]), email |-> EmailOf(j, p[1])]}
  /\ UNCHANGED <<store, slave, nextClient, lateRemove, stray, holder, offered, history>>

\* The answer to 409: the first record of /list with the e-mail, whichever it is.
Adopt(j) ==
  /\ At(j, {"adopt"})
  /\ LET a == AddressOf(j, run[j].server)
         found == Matching(slave[a].records, EmailOf(j, run[j].user)) IN
     \/ Move(j, Goto(j, "link"))
     \/ /\ slave[a].installed
        /\ \E c \in ClientIds(found) : Move(j, [Goto(j, "link") EXCEPT !.reply = c])
  /\ UNCHANGED <<store, slaves, holder, offered, history>>

Warned(frame) == [frame EXCEPT !.warned = TRUE, !.verdict = "partial"]

\* Mutant: the error of setUserLink is dropped, as fullSync does.
SetUserLinkUnchecked(j) ==
  /\ At(j, {"link"})
  /\ LET u == run[j].user  s == run[j].server
         ok == run[j].reply # 0
         linked == [Goto(j, "ensure") EXCEPT !.todo = @ \ {<<u, s>>}, !.reply = 0] IN
     \E done \in BOOLEAN :
       /\ Update(u \in Users(mem),
                 SetLink(mem, u, s, IF ok THEN ReadyLink(run[j].reply) ELSE ErrorLink),
                 done)
       /\ Move(j, IF ok THEN linked ELSE Warned(linked))
  /\ UNCHANGED <<slaves, holder, offered, history>>

SetUserLink(j) ==
  /\ At(j, {"link"})
  /\ LET u == run[j].user  s == run[j].server
         ok == run[j].reply # 0
         linked == [Goto(j, "ensure") EXCEPT !.todo = @ \ {<<u, s>>}, !.reply = 0] IN
     \E done \in BOOLEAN :
       /\ Update(u \in Users(mem),
                 SetLink(mem, u, s, IF ok THEN ReadyLink(run[j].reply) ELSE ErrorLink),
                 done)
       /\ Move(j, IF ok /\ done THEN linked ELSE Warned(linked))
  /\ UNCHANGED <<slaves, holder, offered, history>>

EnsureDone(j) ==
  /\ At(j, {"ensure"}) /\ run[j].todo = {}
  /\ \/ Kind(j) \in {"create", "retry"} /\ Move(j, Goto(j, "unlock"))
     \/ Kind(j) = "provision" /\ Move(j, Goto(j, "status"))
     \/ /\ Kind(j) = "sync"
        /\ Move(j, [Goto(j, "extras") EXCEPT !.victims = ClientIds(
             {r \in run[j].seen : ~EmailTaken(run[j].snap, r.email)})])
  /\ UNCHANGED <<store, slaves, holder, offered, history>>

(***************************************************************************)
(* deleteUser and fullSync go through the servers of their snapshot and    *)
(* read each Slave's /list.                                                *)
(***************************************************************************)
Listed(j) ==
  /\ At(j, {"sites"})
  /\ \E s \in run[j].sites :
       LET records == slave[AddressOf(j, s)].records
           next == [run[j] EXCEPT !.sites = @ \ {s}, !.server = s] IN
       /\ slave[AddressOf(j, s)].installed
       /\ \/ /\ Kind(j) = "delete"
             /\ Move(j, [next EXCEPT !.pc = "purge",
                  !.victims = ClientIds(Matching(records, EmailOf(j, run[j].user)))])
          \/ /\ Kind(j) = "sync"
             /\ Move(j, [next EXCEPT !.pc = "ensure", !.seen = records,
                  !.verdict = "ready", !.todo = Users(run[j].snap) \X {s}])
  /\ UNCHANGED <<store, slaves, holder, offered, history>>

\* Mutant: deleteUser skips an unreachable server without a warning.
ListFailsQuietly(j) ==
  /\ At(j, {"sites"})
  /\ \E s \in run[j].sites :
       Move(j, [run[j] EXCEPT !.sites = @ \ {s}, !.warned = Kind(j) = "sync"])
  /\ UNCHANGED <<store, slaves, holder, offered, history>>

ListFails(j) ==
  /\ At(j, {"sites"})
  /\ \E s \in run[j].sites :
       LET next == [run[j] EXCEPT !.sites = @ \ {s}, !.warned = TRUE] IN
       \/ Kind(j) = "delete" /\ Move(j, next)
       \/ /\ Kind(j) = "sync"
          /\ Move(j, [next EXCEPT !.pc = "status", !.server = s, !.verdict = "error"])
  /\ UNCHANGED <<store, slaves, holder, offered, history>>

SitesDone(j) ==
  /\ At(j, {"sites"}) /\ run[j].sites = {}
  /\ Move(j, Goto(j, "unlock"))
  /\ UNCHANGED <<store, slaves, holder, offered, history>>

\* Mutant: the oldest record is kept, linked or not.
KeepsOldest(j, u, s, c) == IsOldest(c, Found(j, u))

\* fullSync: of several records of one profile the linked one is kept, or
\* the oldest; whether the link was saved is not looked at.
Keeps(j, u, s, c) ==
  LET stored == run[j].snap.link[u][s].client IN
  IF stored \in ClientIds(Found(j, u)) THEN c = stored ELSE IsOldest(c, Found(j, u))

SyncUser(j) ==
  /\ At(j, {"ensure"})
  /\ \E p \in run[j].todo \ Missing(j), done \in BOOLEAN :
       \E c \in ClientIds(Found(j, p[1])) :
         /\ Keeps(j, p[1], p[2], c)
         /\ Update(p[1] \in Users(mem), SetLink(mem, p[1], p[2], ReadyLink(c)), done)
         /\ Move(j, [Goto(j, "duplicates") EXCEPT !.todo = @ \ {p},
                       !.victims = ClientIds(Found(j, p[1])) \ {c}])
  /\ UNCHANGED <<slaves, holder, offered, history>>

(***************************************************************************)
(* POST /remove, one record after the other.                               *)
(***************************************************************************)
Removing == {"duplicates", "extras", "purge"}

Removed(j) ==
  /\ At(j, Removing)
  /\ \E c \in run[j].victims :
       LET a == AddressOf(j, run[j].server) IN
       /\ slave[a].installed /\ c \in ClientIds(slave[a].records)
       /\ slave' = [slave EXCEPT ![a].records = {r \in @ : r.id # c}]
       /\ Move(j, [run[j] EXCEPT !.victims = @ \ {c}])
  /\ UNCHANGED <<store, nextClient, lateRegister, lateRemove, stray, holder, offered, history>>

RemoveFails(j) ==
  /\ At(j, Removing)
  /\ \E c \in run[j].victims :
       /\ Move(j, Warned([run[j] EXCEPT !.victims = @ \ {c}]))
       /\ \/ UNCHANGED lateRemove
          \/ /\ CanBeLate
             /\ lateRemove' = lateRemove \cup {[at |-> AddressOf(j, run[j].server), client |-> c]}
  /\ UNCHANGED <<store, slave, nextClient, lateRegister, stray, holder, offered, history>>

RemoveDone(j) ==
  /\ At(j, Removing) /\ run[j].victims = {}
  /\ Move(j, Goto(j, CASE At(j, {"duplicates"}) -> "ensure"
                       [] At(j, {"extras"}) -> "status"
                       [] At(j, {"purge"}) -> "sites"))
  /\ UNCHANGED <<store, slaves, holder, offered, history>>


\* Mutant: the whole entry of the job's snapshot is written back.
SetServerStatusStale(j) ==
  /\ At(j, {"status"})
  /\ LET s == run[j].server IN
     \E done \in BOOLEAN :
       Update(s \in Servers(mem),
              [mem EXCEPT !.server[s] =
                 [run[j].snap.server[s] EXCEPT !.status = run[j].verdict]],
              done)
  /\ Move(j, Goto(j, IF Kind(j) = "sync" THEN "sites" ELSE "unlock"))
  /\ UNCHANGED <<slaves, holder, offered, history>>

\* setServerStatus; its error is dropped everywhere.
SetServerStatus(j) ==
  /\ At(j, {"status"})
  /\ LET s == run[j].server IN
     \E done \in BOOLEAN :
       Update(s \in Servers(mem), SetStatus(mem, s, run[j].verdict), done)
  /\ Move(j, Goto(j, IF Kind(j) = "sync" THEN "sites" ELSE "unlock"))
  /\ UNCHANGED <<slaves, holder, offered, history>>

(***************************************************************************)
(* Over SSH: setup.sh on a new VPS, uninstall.sh on a registered or a      *)
(* half-installed one.  A script that fails may have done its work.        *)
(***************************************************************************)
SetUp(j) ==
  /\ At(j, {"setup"})
  /\ slave' = [slave EXCEPT ![Op(j).site.address].installed = TRUE]
  /\ Move(j, Goto(j, "store"))
  /\ UNCHANGED <<store, nextClient, lateRegister, lateRemove, stray, holder, offered, history>>

SetupFails(j) ==
  /\ At(j, {"setup"})
  /\ \/ UNCHANGED slave
     \/ slave' = [slave EXCEPT ![Op(j).site.address].installed = TRUE]
  /\ Move(j, Failed(j))
  /\ UNCHANGED <<store, nextClient, lateRegister, lateRemove, stray, holder, offered, history>>

StoreServer(j) ==
  /\ At(j, {"store"}) /\ Kind(j) = "provision"
  /\ \E s \in Fresh(ServerIds), done \in BOOLEAN :
       /\ Update(~SiteTaken(mem, Op(j).site),
                 AddServer(mem, s, Op(j).site, Op(j).name), done)
       /\ Move(j, IF done
                  THEN [Goto(j, "ensure") EXCEPT
                          !.snap = mem', !.server = s, !.todo = Users(mem') \X {s}]
                  ELSE Failed(j))
       /\ Show(s, Op(j).name, done)
  /\ UNCHANGED <<slaves, holder, offered, gone>>

\* cleanupFailedServer works on the address of the request, deleteServer on
\* the registered one.
TeardownAddress(j) ==
  IF Kind(j) = "cleanup" THEN Op(j).site.address ELSE AddressOf(j, run[j].server)

TornDown(j) ==
  /\ At(j, {"teardown"})
  /\ slave' = [slave EXCEPT ![TeardownAddress(j)] = Bare]
  /\ Move(j, Goto(j, IF Kind(j) = "cleanup" THEN "unlock" ELSE "drop"))
  /\ UNCHANGED <<store, nextClient, lateRegister, lateRemove, stray, holder, offered, history>>

TeardownFails(j) ==
  /\ At(j, {"teardown"})
  /\ \/ UNCHANGED slave
     \/ slave' = [slave EXCEPT ![TeardownAddress(j)] = Bare]
  /\ Move(j, IF Kind(j) = "cleanup" THEN Failed(j)
             ELSE [Failed(j) EXCEPT !.pc = "status", !.verdict = "error"])
  /\ UNCHANGED <<store, nextClient, lateRegister, lateRemove, stray, holder, offered, history>>

DropServer(j) ==
  /\ At(j, {"drop"})
  /\ LET s == run[j].server IN
     \E done \in BOOLEAN :
       /\ Update(s \in Servers(mem), ForgetServer(mem, s), done)
       /\ Move(j, IF done THEN Goto(j, "unlock") ELSE Failed(j))
       /\ gone' = IF done THEN gone \cup {s} ELSE gone
       /\ shown' = IF done THEN [shown EXCEPT ![s] = {}] ELSE shown
  /\ UNCHANGED <<slaves, holder, offered>>

(***************************************************************************)
(* A call that timed out is carried out after all, or is lost.             *)
(***************************************************************************)
Touched(client) == stray' = IF holder = Free THEN stray ELSE stray \cup {client}

RegisterLands ==
  /\ \E call \in lateRegister :
       /\ lateRegister' = lateRegister \ {call}
       /\ \/ UNCHANGED <<slave, nextClient, stray>>
          \/ /\ slave[call.at].installed /\ nextClient <= MaxClients
             /\ Matching(slave[call.at].records, call.email) = {}
             /\ slave' = [slave EXCEPT ![call.at].records =
                            @ \cup {[id |-> nextClient, email |-> call.email]}]
             /\ nextClient' = nextClient + 1
             /\ Touched(nextClient)
  /\ UNCHANGED <<store, lateRemove, run, holder, offered, history>>

RemoveLands ==
  /\ \E call \in lateRemove :
       /\ lateRemove' = lateRemove \ {call}
       /\ \/ UNCHANGED <<slave, stray>>
          \/ /\ call.client \in ClientIds(slave[call.at].records)
             /\ slave' = [slave EXCEPT ![call.at].records = {r \in @ : r.id # call.client}]
             /\ Touched(call.client)
  /\ UNCHANGED <<store, nextClient, lateRegister, run, holder, offered, history>>

(***************************************************************************)
(* Master dies with all its jobs and comes back from master.json.          *)
(***************************************************************************)
Crash ==
  /\ "crash" \in Faults
  /\ mem' = disk
  /\ run' = [j \in Jobs |-> IdleFrame] /\ holder' = Free /\ stray' = {}
  /\ UNCHANGED <<disk, slave, nextClient, lateRegister, lateRemove, offered, history>>

BeginJob(j) ==
  \/ BeginCreate(j) \/ BeginRetry(j) \/ BeginDelete(j) \/ BeginSync(j)
  \/ BeginProvision(j) \/ BeginCleanup(j) \/ BeginDrop(j)

\* Steps that end by themselves: the store, and calls with a 25 s time-out.
Work(j) ==
  \/ StoreUser(j) \/ NoId(j) \/ DropUser(j) \/ StoreServer(j) \/ DropServer(j)
  \/ Registered(j) \/ Conflict(j) \/ RegisterFails(j) \/ Adopt(j)
  \/ SetUserLink(j) \/ EnsureDone(j) \/ SyncUser(j)
  \/ Listed(j) \/ ListFails(j) \/ SitesDone(j)
  \/ Removed(j) \/ RemoveFails(j) \/ RemoveDone(j)
  \/ SetServerStatus(j) \/ Unlock(j)

\* Steps that wait for a remote script without a time-out.
Script(j) == SetUp(j) \/ SetupFails(j) \/ TornDown(j) \/ TeardownFails(j)

Next ==
  \/ \E j \in Jobs : BeginJob(j) \/ Work(j) \/ Script(j)
  \/ \E j \in Jobs, q \in Requests : Submit(j, q)
  \/ \E s \in ServerIds, name \in Names : Rename(s, name)
  \/ RegisterLands \/ RemoveLands \/ Crash

Spec == Init /\ [][Next]_vars

(***************************************************************************)
(* Fairness.  A goroutine that can run runs.  A waiter for operationMu     *)
(* gets it in the end though others keep taking it: after 1 ms of waiting  *)
(* sync.Mutex hands over in order.  Nothing is assumed of a remote script, *)
(* an operator, a late call or a crash.                                    *)
(***************************************************************************)
Fairness == \A j \in Jobs : WF_vars(Work(j)) /\ SF_vars(BeginJob(j))
FairSpec == Spec /\ Fairness
-----------------------------------------------------------------------------
(***************************************************************************)
(* Properties.                                                             *)
(***************************************************************************)

\* Every variable has its type: documents, Slaves, calls and job frames.
TypeOK ==
  /\ mem \in Documents /\ disk \in Documents
  /\ slave \in [Addresses -> SlaveStates] /\ nextClient \in Nat \ {0}
  /\ lateRegister \subseteq [at : Addresses, email : Emails]
  /\ lateRemove \subseteq [at : Addresses, client : Clients]
  /\ run \in [Jobs -> Frames] /\ holder \in Jobs \cup {Free}
  /\ offered \subseteq Sites
  /\ stray \subseteq Clients /\ gone \subseteq Ids
  /\ shown \in [ServerIds -> SUBSET Names]

\* At most one job is past operationMu.Lock, and it is the holder.
OneJobAtATime == \A j \in Jobs : At(j, InLock) => holder = j

\* The document in memory and the one a restart would load are consistent
\* after every step: links lead to existing users and servers, no two users
\* have the same normalized profile name, no two servers share an address or
\* a domain.  setUserLink does not look whether its server is still there
\* and the slices have no index: only operationMu and the checks under it
\* keep this.
DocumentsConsistent == Consistent(mem) /\ Consistent(disk)

\* What a user and a server of the store mean on the Slave: the link is
\* ready and its record is there, under the user's profile name.  Records
\* that a late call touched during this operation do not count.
Served(u, s) ==
  LET link == mem.link[u][s] IN
  /\ link.status = "ready"
  /\ \/ link.client \in stray
     \/ \E r \in slave[mem.server[s].site.address].records :
          r.id = link.client /\ SameProfile(r.email, mem.user[u])

\* Job j is about to report success without warnings.
Quiet(j, kinds) ==
  At(j, {"unlock"}) /\ ~run[j].failed /\ ~run[j].warned /\ Kind(j) \in kinds

\* A create, retry or provision job that reports no warning has left a
\* working link for every user and server it was about, whatever calls and
\* saves failed on the way (ensureUserOnServer returns each of those errors).
QuietJobsServe ==
  \A j \in Jobs :
    /\ Quiet(j, {"create", "retry"}) =>
         \A s \in Servers(mem) : Served(run[j].user, s)
    /\ Quiet(j, {"provision"}) =>
         \A u \in Users(mem) : Served(u, run[j].server)

\* A full sync that reports no warning was authoritative: on every server
\* each user has exactly the one record its link names, and nobody else has
\* one.
SyncIsAuthoritative ==
  \A j \in Jobs : Quiet(j, {"sync"}) =>
    \A s \in Servers(mem) :
      /\ \A u \in Users(mem) : Served(u, s)
      /\ \A r \in slave[mem.server[s].site.address].records :
           r.id \in stray \/ \E u \in Users(mem) : mem.link[u][s] = ReadyLink(r.id)

\* A delete job that reports no warning has left no record of the profile
\* on any registered server.
DeleteIsComplete ==
  \A j \in Jobs : Quiet(j, {"delete"}) =>
    \A s \in Servers(mem) :
      Matching(slave[mem.server[s].site.address].records,
               EmailOf(j, run[j].user)) \subseteq [id : stray, email : Emails]

\* A user or server whose deletion was acknowledged never comes back, in
\* memory or on disk, not even by a restart or by a job that still holds an
\* older snapshot.
DeletedStayGone ==
  gone \cap (Users(mem) \cup Users(disk) \cup Servers(mem) \cup Servers(disk)) = {}

\* A rename does not wait for the running job and the job's later updates do
\* not undo it: a server has a name the operator was told of.
RenamesSurvive ==
  \A d \in {mem, disk} : \A s \in Servers(d) : d.server[s].name \in shown[s]

\* The records a step adds to a Slave, other than by a late call, belong to a
\* user and a registered server of that moment: a job queued behind a
\* deletion does not bring the client back.
NoStrayClients ==
  [][lateRegister' = lateRegister =>
       \A a \in Addresses : \A r \in slave'[a].records \ slave[a].records :
         /\ \E u \in Users(mem) : mem.user[u] = r.email
         /\ \E s \in Servers(mem) : mem.server[s].site.address = a]_vars

\* No job removes a record that a ready link points to: clean-up of
\* duplicates and extras works on a list and a snapshot that are out of date
\* by then, and goes on when the new link was not saved.
LiveClientsKept ==
  [][(\E j \in Jobs : Removed(j)) =>
       \A s \in Servers(mem) :
         LET a == mem.server[s].site.address IN
         \A c \in ClientIds(slave[a].records) \ ClientIds(slave'[a].records) :
           \A u \in Users(mem) : mem.link[u][s] # ReadyLink(c)]_vars

\* Every job gets operationMu and ends, whatever the jobs before it met, unless
\* some remote script hangs.
JobsEnd ==
  \A j \in Jobs :
    []<>At(j, {"idle"}) \/ <>[](\E k \in Jobs : At(k, {"setup", "teardown"}))

\* "Uninstall.sh removes the traces of the failed installation": it leaves a
\* VPS alone that is registered in Master.
CleanupSparesRegistered ==
  [][\A j \in Jobs : At(j, {"teardown"}) /\ Kind(j) = "cleanup" =>
       \A s \in Servers(mem) :
         slave[mem.server[s].site.address].installed =>
           slave'[mem.server[s].site.address].installed]_vars
=============================================================================
