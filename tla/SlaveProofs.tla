----------------------------- MODULE SlaveProofs -----------------------------
(***************************************************************************)
(* What jobs leave on the Slaves.  A job works from a snapshot, a list and *)
(* the answers to its calls, all of them out of date; the theorems say     *)
(* that it still registers nobody it should not, removes nobody who is     *)
(* served, and has kept its promise when it ends without a warning.        *)
(*                                                                         *)
(* The invariant is about the one job past operationMu.  It comes in four  *)
(* layers, each of which rests on the one before.                          *)
(***************************************************************************)
EXTENDS ConsistencyProofs

(***************************************************************************)
(* First layer: what the job knows of the document, and where it stands.   *)
(***************************************************************************)
SameSites(d, e) ==
  /\ Servers(d) = Servers(e)
  /\ \A s \in Servers(d) : d.server[s].site = e.server[s].site

\* A delete job has taken its user out of the store.
Dropped(j) == Kind(j) = "delete" /\ At(j, {"sites", "purge"})

KnowsUsers(j) ==
  \/ Kind(j) = "delete" /\ At(j, {"unlock"})
  \/ mem.user = IF Dropped(j) THEN [run[j].snap.user EXCEPT ![run[j].user] = NoUser]
                              ELSE run[j].snap.user

\* The last update of a job that forgets a server makes its snapshot old.
KnowsSites(j) ==
  \/ Kind(j) \in {"uninstall", "forget"} /\ At(j, {"unlock"})
  \/ SameSites(run[j].snap, mem)

Serving == {"create", "retry", "provision", "sync"}
Linking == {"ensure", "adopt", "link"}
\* Where "seen" is the list of the server the sync is at.
Syncing == Linking \cup {"duplicates", "extras"}
InSync(j) == Kind(j) = "sync" /\ At(j, Syncing)

Course(j) ==
  LET f == run[j] IN
  /\ At(j, Linking) => Kind(j) \in Serving
  /\ At(j, {"sites"}) => Kind(j) \in {"delete", "sync"}
  /\ At(j, {"purge"}) => Kind(j) = "delete"
  /\ At(j, {"duplicates", "extras"}) => Kind(j) = "sync"
  /\ At(j, {"status"}) => Kind(j) \in {"provision", "sync", "uninstall"}
  /\ At(j, {"teardown"}) => Kind(j) \in {"cleanup", "uninstall"}
  /\ At(j, {"drop"}) => Kind(j) \in {"uninstall", "forget"}
  /\ At(j, {"adopt", "link"}) => <<f.user, f.server>> \in f.todo /\ Found(j, f.user) = {}
  /\ At(j, {"adopt"}) => f.reply = 0
  /\ Kind(j) \in {"create", "retry"} => f.todo \subseteq {f.user} \X ServerIds
  /\ Kind(j) \in {"provision", "sync"} => f.todo \subseteq UserIds \X {f.server}
  /\ Kind(j) \in Serving /\ At(j, {"sites", "extras", "status"}) => f.todo = {}
  /\ Kind(j) \in Serving /\ At(j, {"unlock"}) /\ ~f.failed => f.todo = {}
  /\ Kind(j) = "sync" /\ At(j, Syncing \cup {"status"}) =>
       f.server \in Servers(f.snap) /\ f.server \notin f.sites
  /\ Kind(j) = "delete" /\ At(j, {"purge"}) => f.server \notin f.sites
  /\ Kind(j) \in {"delete", "sync"} /\ At(j, {"unlock"}) /\ ~f.failed => f.sites = {}

SnapshotInv ==
  /\ KnownInv /\ DocumentsConsistent
  /\ \A j \in Jobs : At(j, InLock) =>
       KnowsUsers(j) /\ KnowsSites(j) /\ ProfilesDistinct(run[j].snap) /\ Course(j)

(***************************************************************************)
(* Second layer: numbers, links and lists mean what they say.              *)
(***************************************************************************)
NumbersUnique ==
  \A a \in Addresses : \A r \in slave[a].records :
    r.id < nextClient /\ \A q \in slave[a].records : q.id = r.id => q = r

\* A ready link leads to a record of its user, if to any.
LinksTrue(d, on, next) ==
  \A u \in UserIds, s \in Servers(d) : d.link[u][s].status = "ready" =>
    /\ d.link[u][s].client < next
    /\ \A r \in on[d.server[s].site.address].records :
         r.id = d.link[u][s].client => SameProfile(r.email, d.user[u])

Target(j) == AddressOf(j, run[j].server)

\* The record a job is about to link is its user's.
ReplyTrue(j) ==
  LET f == run[j] IN
  At(j, {"link"}) /\ f.reply # 0 =>
    /\ f.reply < nextClient
    /\ \A r \in slave[Target(j)].records \cup f.seen :
         r.id = f.reply => SameProfile(r.email, EmailOf(j, f.user))
    /\ f.reply \in stray \/ f.reply \in ClientIds(slave[Target(j)].records)

SeenTrue(j) ==
  LET f == run[j] IN
  InSync(j) => \A r \in f.seen :
    /\ r.id < nextClient
    /\ \A q \in slave[Target(j)].records \cup f.seen : q.id = r.id => q = r
    /\ \A u \in UserIds :
         mem.link[u][f.server] = ReadyLink(r.id) => SameProfile(r.email, mem.user[u])

\* Links a full sync has not come to are those of its snapshot.
LinksKnown(j) ==
  LET f == run[j] IN
  Kind(j) = "sync" =>
    /\ \A u \in UserIds, s \in f.sites : mem.link[u][s] = f.snap.link[u][s]
    /\ \A p \in f.todo : mem.link[p[1]][p[2]] = f.snap.link[p[1]][p[2]]

VictimsUnlinked(j) ==
  At(j, Removing) => \A u \in UserIds, c \in run[j].victims :
    mem.link[u][run[j].server] # ReadyLink(c)

LinkInv ==
  /\ SnapshotInv
  /\ NumbersUnique
  /\ LinksTrue(mem, slave, nextClient) /\ LinksTrue(disk, slave, nextClient)
  /\ \A j \in Jobs : At(j, InLock) =>
       ReplyTrue(j) /\ SeenTrue(j) /\ LinksKnown(j) /\ VictimsUnlinked(j)

(***************************************************************************)
(* Third layer: what a job has done so far of what it was asked for.       *)
(***************************************************************************)
Aim(j) ==
  IF Kind(j) = "provision" THEN Users(mem) \X {run[j].server}
                           ELSE {run[j].user} \X Servers(mem)

ServedSoFar(j) ==
  LET f == run[j] IN
  Kind(j) \in {"create", "retry", "provision"} /\ ~f.failed /\ ~f.warned
    /\ At(j, Linking \cup {"status", "unlock"}) =>
       /\ Aim(j) \subseteq UserIds \X Servers(mem)
       /\ \A p \in Aim(j) : p \in f.todo \/ Served(p[1], p[2])

ClearedSoFar(j) ==
  LET f == run[j] IN
  (Dropped(j) \/ Quiet(j, {"delete"})) /\ ~f.warned =>
    \A s \in Servers(mem) \ f.sites :
      \A r \in Matching(slave[mem.server[s].site.address].records, EmailOf(j, f.user)) :
        r.id \in stray \/ (At(j, {"purge"}) /\ s = f.server /\ r.id \in f.victims)

(***************************************************************************)
(* Fourth layer: how far a full sync is.                                   *)
(***************************************************************************)
Address(s) == mem.server[s].site.address
Linked(c, s, users) == \E u \in users : mem.link[u][s] = ReadyLink(c)

SiteTrue(s) ==
  /\ \A u \in Users(mem) : Served(u, s)
  /\ \A r \in slave[Address(s)].records : r.id \in stray \/ Linked(r.id, s, Users(mem))

\* The server a sync is at: users whose turn has come are served and have no
\* other record, the records of the others are kept, and every record on the
\* Slave is one of the list, or linked, or about to be.
Finished(j, s) == {u \in Users(mem) : <<u, s>> \notin run[j].todo}

NobodyUnknown(j, s) ==
  \A r \in slave[Address(s)].records :
    \/ r.id \in stray \/ r \in run[j].seen \/ Linked(r.id, s, Finished(j, s))
    \/ At(j, {"link"}) /\ r.id = run[j].reply

FinishedClean(j, s) ==
  \A u \in Finished(j, s), r \in run[j].seen \cap slave[Address(s)].records :
    SameProfile(r.email, mem.user[u]) =>
      \/ r.id \in stray \/ mem.link[u][s] = ReadyLink(r.id)
      \/ At(j, {"duplicates"}) /\ r.id \in run[j].victims

OthersKept(j, s) ==
  \A u \in Users(mem) \ Finished(j, s), r \in run[j].seen :
    SameProfile(r.email, mem.user[u]) =>
      /\ r \in slave[Address(s)].records \/ r.id \in stray
      /\ At(j, {"duplicates"}) => r.id \notin run[j].victims

ExtrasCaught(j, s) ==
  At(j, {"extras"}) => \A r \in run[j].seen \cap slave[Address(s)].records :
    EmailTaken(mem, r.email) \/ r.id \in run[j].victims \cup stray

SiteInProgress(j, s) ==
  /\ \A u \in Finished(j, s) : Served(u, s)
  /\ NobodyUnknown(j, s) /\ FinishedClean(j, s) /\ OthersKept(j, s) /\ ExtrasCaught(j, s)

SyncSoFar(j) ==
  Kind(j) = "sync" /\ ~run[j].warned =>
    \A s \in Servers(mem) \ run[j].sites :
      IF At(j, Syncing) /\ s = run[j].server THEN SiteInProgress(j, s) ELSE SiteTrue(s)

PromiseInv ==
  LinkInv /\ \A j \in Jobs : At(j, InLock) => ServedSoFar(j) /\ ClearedSoFar(j)
SyncInv ==
  LinkInv /\ \A j \in Jobs : At(j, InLock) => SyncSoFar(j)
-----------------------------------------------------------------------------
(***************************************************************************)
(* What each step does to the frame of its job: all fields but those named *)
(* stay what they are.                                                     *)
(***************************************************************************)
Fields == {"op", "pc", "snap", "user", "server", "todo", "sites", "seen",
           "victims", "reply", "verdict", "failed", "warned"}

Only(j, changed) == \A x \in Fields \ changed : run'[j][x] = run[j][x]

Moved(j, place, changed) == run'[j].pc = place /\ Only(j, changed \cup {"pc"})
Fails(j) == Moved(j, "unlock", {"failed"}) /\ run'[j].failed = TRUE

LEMMA FieldsKept ==
  ASSUME NEW j, NEW changed, Only(j, changed)
  PROVE  /\ "op" \notin changed => run'[j].op = run[j].op
         /\ "pc" \notin changed => run'[j].pc = run[j].pc
         /\ "snap" \notin changed => run'[j].snap = run[j].snap
         /\ "user" \notin changed => run'[j].user = run[j].user
         /\ "server" \notin changed => run'[j].server = run[j].server
         /\ "todo" \notin changed => run'[j].todo = run[j].todo
         /\ "sites" \notin changed => run'[j].sites = run[j].sites
         /\ "seen" \notin changed => run'[j].seen = run[j].seen
         /\ "victims" \notin changed => run'[j].victims = run[j].victims
         /\ "reply" \notin changed => run'[j].reply = run[j].reply
         /\ "failed" \notin changed => run'[j].failed = run[j].failed
         /\ "warned" \notin changed => run'[j].warned = run[j].warned
  BY DEF Only, Fields

LEMMA MovedFields ==
  ASSUME NEW j, NEW place, NEW changed, Moved(j, place, changed)
  PROVE  /\ run'[j].pc = place
         /\ "op" \notin changed => run'[j].op = run[j].op
         /\ "snap" \notin changed => run'[j].snap = run[j].snap
         /\ "user" \notin changed => run'[j].user = run[j].user
         /\ "server" \notin changed => run'[j].server = run[j].server
         /\ "todo" \notin changed => run'[j].todo = run[j].todo
         /\ "sites" \notin changed => run'[j].sites = run[j].sites
         /\ "seen" \notin changed => run'[j].seen = run[j].seen
         /\ "victims" \notin changed => run'[j].victims = run[j].victims
         /\ "reply" \notin changed => run'[j].reply = run[j].reply
         /\ "failed" \notin changed => run'[j].failed = run[j].failed
         /\ "warned" \notin changed => run'[j].warned = run[j].warned
  <1>1. Only(j, changed \cup {"pc"}) /\ run'[j].pc = place
    BY DEF Moved
  <1> QED BY <1>1, FieldsKept

LEMMA FramesOf ==
  ASSUME TypeInv
  PROVE  /\ run \in [Jobs -> Frames]
         /\ mem \in Documents /\ disk \in Documents
         /\ slave \in [Addresses -> SlaveStates] /\ nextClient \in Nat \ {0}
  BY DEF TypeInv, TypeOK

LEMMA GoneTo ==
  ASSUME TypeInv, NEW j \in Jobs
  PROVE  /\ \A place : Move(j, Goto(j, place)) => Moved(j, place, {})
         /\ Move(j, Failed(j)) => Fails(j)
  <1>1. run \in [Jobs -> Frames] /\ run[j] \in Frames
    BY FramesOf
  <1>2. ASSUME NEW place, Move(j, Goto(j, place)) PROVE Moved(j, place, {})
    BY <1>1, <1>2 DEF Move, Goto, Frames, Moved, Only, Fields
  <1>3. ASSUME Move(j, Failed(j)) PROVE Fails(j)
    BY <1>1, <1>3 DEF Move, Failed, Frames, Moved, Fails, Only, Fields
  <1> QED BY <1>2, <1>3

\* Calls of ensureUserOnServer.
LEMMA AskedEffect ==
  ASSUME TypeInv, NEW j \in Jobs, NEW p, NEW place, NEW c, Move(j, Answer(j, p, place, c))
  PROVE  /\ Moved(j, place, {"user", "server", "reply"})
         /\ run'[j].user = p[1] /\ run'[j].server = p[2] /\ run'[j].reply = c
  <1>1. run \in [Jobs -> Frames] /\ run[j] \in Frames
    BY FramesOf
  <1> QED BY <1>1 DEF Move, Answer, Goto, Frames, Moved, Only, Fields

LEMMA AdoptEffect ==
  ASSUME TypeInv, NEW j \in Jobs, Adopt(j)
  PROVE  /\ Moved(j, "link", {"reply"})
         /\ \/ run'[j].reply = run[j].reply
            \/ run'[j].reply \in ClientIds(Matching(slave[Target(j)].records, EmailOf(j, run[j].user)))
  <1>1. run \in [Jobs -> Frames] /\ run[j] \in Frames
    BY FramesOf
  <1>2. CASE Move(j, Goto(j, "link"))
    BY <1>1, <1>2 DEF Move, Goto, Frames, Moved, Only, Fields
  <1>3. ASSUME NEW c \in ClientIds(Matching(slave[Target(j)].records, EmailOf(j, run[j].user))),
               Move(j, [Goto(j, "link") EXCEPT !.reply = c])
        PROVE  Moved(j, "link", {"reply"}) /\ run'[j].reply = c
    BY <1>1, <1>3 DEF Move, Goto, Frames, Moved, Only, Fields
  <1> QED BY <1>2, <1>3 DEF Adopt, Target

LEMMA LinkEffect ==
  ASSUME TypeInv, NEW j \in Jobs, SetUserLink(j)
  PROVE  LET u == run[j].user  s == run[j].server
             ok == run[j].reply # 0 IN
         /\ Moved(j, "ensure", {"todo", "reply", "warned", "verdict"})
         /\ run'[j].todo = run[j].todo \ {<<u, s>>} /\ run'[j].reply = 0
         /\ \E done \in BOOLEAN :
              /\ Update(u \in Users(mem),
                        SetLink(mem, u, s, IF ok THEN ReadyLink(run[j].reply) ELSE ErrorLink),
                        done)
              /\ run'[j].warned = IF ok /\ done THEN run[j].warned ELSE TRUE
  <1> DEFINE u == run[j].user  s == run[j].server
             ok == run[j].reply # 0
             linked == [Goto(j, "ensure") EXCEPT !.todo = @ \ {<<u, s>>}, !.reply = 0]
  <1>1. run \in [Jobs -> Frames] /\ run[j] \in Frames
    BY FramesOf
  <1>2. PICK done \in BOOLEAN :
          /\ Update(u \in Users(mem),
                    SetLink(mem, u, s, IF ok THEN ReadyLink(run[j].reply) ELSE ErrorLink), done)
          /\ Move(j, IF ok /\ done THEN linked ELSE Warned(linked))
    BY DEF SetUserLink
  <1>3. /\ run'[j].pc = "ensure" /\ Only(j, {"pc", "todo", "reply", "warned", "verdict"})
        /\ run'[j].todo = run[j].todo \ {<<u, s>>} /\ run'[j].reply = 0
        /\ run'[j].warned = IF ok /\ done THEN run[j].warned ELSE TRUE
    <2>1. CASE ok /\ done
      BY <1>1, <1>2, <2>1 DEF Move, Goto, Frames, Only, Fields
    <2>2. CASE ~(ok /\ done)
      BY <1>1, <1>2, <2>2 DEF Move, Goto, Warned, Frames, Only, Fields
    <2> QED BY <2>1, <2>2
  <1> QED BY <1>2, <1>3 DEF Moved

LEMMA EnsureDoneEffect ==
  ASSUME TypeInv, NEW j \in Jobs, EnsureDone(j)
  PROVE  /\ run[j].pc = "ensure" /\ run[j].todo = {}
         /\ \/ Kind(j) \in {"create", "retry"} /\ Moved(j, "unlock", {})
            \/ Kind(j) = "provision" /\ Moved(j, "status", {})
            \/ /\ Kind(j) = "sync" /\ Moved(j, "extras", {"victims"})
               /\ run'[j].victims =
                    ClientIds({r \in run[j].seen : ~EmailTaken(run[j].snap, r.email)})
  <1> DEFINE extras == ClientIds({r \in run[j].seen : ~EmailTaken(run[j].snap, r.email)})
  <1>1. run \in [Jobs -> Frames] /\ run[j] \in Frames
    BY FramesOf
  <1>2. ASSUME Move(j, [Goto(j, "extras") EXCEPT !.victims = extras])
        PROVE  Moved(j, "extras", {"victims"}) /\ run'[j].victims = extras
    <2> HIDE DEF extras
    <2> QED BY <1>1, <1>2 DEF Move, Goto, Frames, Moved, Only, Fields
  <1> QED BY <1>2, GoneTo DEF EnsureDone, At

\* The loops over servers.
LEMMA ListedEffect ==
  ASSUME TypeInv, NEW j \in Jobs, Listed(j)
  PROVE  /\ run[j].pc = "sites"
         /\ \E s \in run[j].sites :
              LET records == slave[AddressOf(j, s)].records IN
              /\ run'[j].sites = run[j].sites \ {s} /\ run'[j].server = s
              /\ \/ /\ Kind(j) = "delete"
                    /\ Moved(j, "purge", {"sites", "server", "victims"})
                    /\ run'[j].victims = ClientIds(Matching(records, EmailOf(j, run[j].user)))
                 \/ /\ Kind(j) = "sync"
                    /\ Moved(j, "ensure", {"sites", "server", "seen", "verdict", "todo"})
                    /\ run'[j].seen = records
                    /\ run'[j].todo = Users(run[j].snap) \X {s}
  <1>1. run \in [Jobs -> Frames] /\ run[j] \in Frames
    BY FramesOf
  <1>2. PICK s \in run[j].sites :
          LET records == slave[AddressOf(j, s)].records
              next == [run[j] EXCEPT !.sites = @ \ {s}, !.server = s] IN
          \/ /\ Kind(j) = "delete"
             /\ Move(j, [next EXCEPT !.pc = "purge",
                  !.victims = ClientIds(Matching(records, EmailOf(j, run[j].user)))])
          \/ /\ Kind(j) = "sync"
             /\ Move(j, [next EXCEPT !.pc = "ensure", !.seen = records,
                  !.verdict = "ready", !.todo = Users(run[j].snap) \X {s}])
    BY DEF Listed
  <1> DEFINE records == slave[AddressOf(j, s)].records
             victims == ClientIds(Matching(records, EmailOf(j, run[j].user)))
             todo == Users(run[j].snap) \X {s}
             next == [run[j] EXCEPT !.sites = @ \ {s}, !.server = s]
  <1>3. ASSUME Move(j, [next EXCEPT !.pc = "purge", !.victims = victims])
        PROVE  /\ Moved(j, "purge", {"sites", "server", "victims"})
               /\ run'[j].sites = run[j].sites \ {s} /\ run'[j].server = s
               /\ run'[j].victims = victims
    <2> HIDE DEF victims
    <2> QED BY <1>1, <1>3 DEF Move, Frames, Moved, Only, Fields
  <1>4. ASSUME Move(j, [next EXCEPT !.pc = "ensure", !.seen = records,
                                    !.verdict = "ready", !.todo = todo])
        PROVE  /\ Moved(j, "ensure", {"sites", "server", "seen", "verdict", "todo"})
               /\ run'[j].sites = run[j].sites \ {s} /\ run'[j].server = s
               /\ run'[j].seen = records /\ run'[j].todo = todo
    <2> HIDE DEF records, todo
    <2> QED BY <1>1, <1>4 DEF Move, Frames, Moved, Only, Fields
  <1> QED BY <1>2, <1>3, <1>4 DEF Listed, At

LEMMA ListFailsEffect ==
  ASSUME TypeInv, NEW j \in Jobs, ListFails(j)
  PROVE  /\ run[j].pc = "sites" /\ run'[j].warned = TRUE
         /\ \E s \in run[j].sites :
              /\ run'[j].sites = run[j].sites \ {s}
              /\ \/ Kind(j) = "delete" /\ Moved(j, "sites", {"sites", "warned"})
                 \/ /\ Kind(j) = "sync" /\ run'[j].server = s
                    /\ Moved(j, "status", {"sites", "warned", "server", "verdict"})
  <1>1. run \in [Jobs -> Frames] /\ run[j] \in Frames /\ run[j].pc = "sites"
    BY FramesOf DEF ListFails, At
  <1>2. PICK s \in run[j].sites :
          LET next == [run[j] EXCEPT !.sites = @ \ {s}, !.warned = TRUE] IN
          \/ Kind(j) = "delete" /\ Move(j, next)
          \/ /\ Kind(j) = "sync"
             /\ Move(j, [next EXCEPT !.pc = "status", !.server = s, !.verdict = "error"])
    BY DEF ListFails
  <1> DEFINE next == [run[j] EXCEPT !.sites = @ \ {s}, !.warned = TRUE]
  <1>3. ASSUME Move(j, next)
        PROVE  /\ Moved(j, "sites", {"sites", "warned"})
               /\ run'[j].sites = run[j].sites \ {s} /\ run'[j].warned = TRUE
    BY <1>1, <1>3 DEF Move, Frames, Moved, Only, Fields
  <1>4. ASSUME Move(j, [next EXCEPT !.pc = "status", !.server = s, !.verdict = "error"])
        PROVE  /\ Moved(j, "status", {"sites", "warned", "server", "verdict"})
               /\ run'[j].sites = run[j].sites \ {s} /\ run'[j].server = s
               /\ run'[j].warned = TRUE
    BY <1>1, <1>4 DEF Move, Frames, Moved, Only, Fields
  <1> QED BY <1>1, <1>2, <1>3, <1>4

LEMMA SyncUserEffect ==
  ASSUME TypeInv, NEW j \in Jobs, SyncUser(j)
  PROVE  /\ run[j].pc = "ensure" /\ Moved(j, "duplicates", {"todo", "victims"})
         /\ \E p \in run[j].todo, done \in BOOLEAN : \E c \in ClientIds(Found(j, p[1])) :
              /\ Keeps(j, p[1], p[2], c)
              /\ Update(p[1] \in Users(mem), SetLink(mem, p[1], p[2], ReadyLink(c)), done)
              /\ run'[j].todo = run[j].todo \ {p}
              /\ run'[j].victims = ClientIds(Found(j, p[1])) \ {c}
  <1>1. run \in [Jobs -> Frames] /\ run[j] \in Frames /\ run[j].pc = "ensure"
    BY FramesOf DEF SyncUser, At
  <1> DEFINE Kept(p, done, c) ==
               /\ Keeps(j, p[1], p[2], c)
               /\ Update(p[1] \in Users(mem), SetLink(mem, p[1], p[2], ReadyLink(c)), done)
               /\ Move(j, [Goto(j, "duplicates") EXCEPT !.todo = @ \ {p},
                             !.victims = ClientIds(Found(j, p[1])) \ {c}])
  <1>2. PICK p \in run[j].todo, done \in BOOLEAN :
          \E c \in ClientIds(Found(j, p[1])) : Kept(p, done, c)
    BY DEF SyncUser
  <1>3. PICK c \in ClientIds(Found(j, p[1])) : Kept(p, done, c)
    BY <1>2
  <1>4. ASSUME Move(j, [Goto(j, "duplicates") EXCEPT !.todo = @ \ {p},
                          !.victims = ClientIds(Found(j, p[1])) \ {c}])
        PROVE  /\ Moved(j, "duplicates", {"todo", "victims"})
               /\ run'[j].todo = run[j].todo \ {p}
               /\ run'[j].victims = ClientIds(Found(j, p[1])) \ {c}
    <2> DEFINE victims == ClientIds(Found(j, p[1])) \ {c}
    <2> HIDE DEF victims
    <2>1. Move(j, [Goto(j, "duplicates") EXCEPT !.todo = @ \ {p}, !.victims = victims])
      BY <1>4 DEF victims
    <2>2. /\ Moved(j, "duplicates", {"todo", "victims"})
          /\ run'[j].todo = run[j].todo \ {p} /\ run'[j].victims = victims
      BY <1>1, <2>1 DEF Move, Goto, Frames, Moved, Only, Fields
    <2> QED BY <2>2 DEF victims
  <1> QED BY <1>1, <1>3, <1>4

LEMMA RemovingEffect ==
  ASSUME TypeInv, NEW j \in Jobs
  PROVE  /\ Removed(j) => \E c \in run[j].victims :
              /\ Only(j, {"victims"}) /\ run'[j].victims = run[j].victims \ {c}
              /\ slave' = [slave EXCEPT ![Target(j)].records = {r \in @ : r.id # c}]
         /\ RemoveFails(j) => /\ Only(j, {"victims", "warned", "verdict"})
                              /\ run'[j].victims \subseteq run[j].victims
                              /\ run'[j].warned = TRUE
         /\ RemoveDone(j) =>
              /\ run[j].victims = {}
              /\ Moved(j, CASE At(j, {"duplicates"}) -> "ensure"
                            [] At(j, {"extras"}) -> "status"
                            [] At(j, {"purge"}) -> "sites", {})
  <1>1. run \in [Jobs -> Frames] /\ run[j] \in Frames
    BY FramesOf
  <1>2. ASSUME NEW c, Move(j, [run[j] EXCEPT !.victims = @ \ {c}])
        PROVE  Only(j, {"victims"}) /\ run'[j].victims = run[j].victims \ {c}
    BY <1>1, <1>2 DEF Move, Frames, Only, Fields
  <1>3. ASSUME NEW c, Move(j, Warned([run[j] EXCEPT !.victims = @ \ {c}]))
        PROVE  /\ Only(j, {"victims", "warned", "verdict"})
               /\ run'[j].victims \subseteq run[j].victims /\ run'[j].warned = TRUE
    BY <1>1, <1>3 DEF Move, Warned, Frames, Only, Fields
  <1> QED BY <1>2, <1>3, GoneTo DEF Removed, RemoveFails, RemoveDone, Target

\* The updates of the tables, and the scripts.
LEMMA StoreUserEffect ==
  ASSUME TypeInv, NEW j \in Jobs, StoreUser(j)
  PROVE  /\ run[j].pc = "store" /\ Kind(j) = "create"
         /\ \E u \in Fresh(UserIds), done \in BOOLEAN :
              /\ Update(~EmailTaken(mem, Op(j).email), AddUser(mem, u, Op(j).email), done)
              /\ IF done THEN /\ Moved(j, "ensure", {"snap", "user", "todo"})
                              /\ run'[j].snap = mem' /\ run'[j].user = u
                              /\ run'[j].todo = {u} \X Servers(mem')
                         ELSE Fails(j)
  <1>1. run \in [Jobs -> Frames] /\ run[j] \in Frames /\ run[j].pc = "store"
    BY FramesOf DEF StoreUser, At
  <1>2. ASSUME NEW u, Move(j, [Goto(j, "ensure") EXCEPT
                                !.snap = mem', !.user = u, !.todo = {u} \X Servers(mem')])
        PROVE  /\ Moved(j, "ensure", {"snap", "user", "todo"})
               /\ run'[j].snap = mem' /\ run'[j].user = u
               /\ run'[j].todo = {u} \X Servers(mem')
    BY <1>1, <1>2 DEF Move, Goto, Frames, Moved, Only, Fields
  <1>3. PICK u \in Fresh(UserIds), done \in BOOLEAN :
          /\ Update(~EmailTaken(mem, Op(j).email), AddUser(mem, u, Op(j).email), done)
          /\ Move(j, IF done THEN [Goto(j, "ensure") EXCEPT
                                     !.snap = mem', !.user = u, !.todo = {u} \X Servers(mem')]
                             ELSE Failed(j))
    BY DEF StoreUser
  <1> QED BY <1>1, <1>2, <1>3, GoneTo DEF StoreUser

LEMMA DropUserEffect ==
  ASSUME TypeInv, NEW j \in Jobs, DropUser(j)
  PROVE  /\ run[j].pc = "store" /\ Kind(j) = "delete"
         /\ \E done \in BOOLEAN :
              /\ Update(run[j].user \in Users(mem), RemoveUser(mem, run[j].user), done)
              /\ IF done THEN /\ Moved(j, "sites", {"sites"})
                              /\ run'[j].sites = Servers(run[j].snap)
                         ELSE Fails(j)
  <1>1. run \in [Jobs -> Frames] /\ run[j] \in Frames /\ run[j].pc = "store"
    BY FramesOf DEF DropUser, At
  <1>2. ASSUME Move(j, [Goto(j, "sites") EXCEPT !.sites = Servers(run[j].snap)])
        PROVE  Moved(j, "sites", {"sites"}) /\ run'[j].sites = Servers(run[j].snap)
    BY <1>1, <1>2 DEF Move, Goto, Frames, Moved, Only, Fields
  <1>3. PICK done \in BOOLEAN :
          /\ Update(run[j].user \in Users(mem), RemoveUser(mem, run[j].user), done)
          /\ Move(j, IF done THEN [Goto(j, "sites") EXCEPT !.sites = Servers(run[j].snap)]
                             ELSE Failed(j))
    BY DEF DropUser
  <1> QED BY <1>1, <1>2, <1>3, GoneTo DEF DropUser

LEMMA StoreServerEffect ==
  ASSUME TypeInv, NEW j \in Jobs, StoreServer(j)
  PROVE  /\ run[j].pc = "store" /\ Kind(j) = "provision"
         /\ \E s \in Fresh(ServerIds), done \in BOOLEAN :
              /\ Update(~SiteTaken(mem, Op(j).site),
                        AddServer(mem, s, Op(j).site, Op(j).name), done)
              /\ IF done THEN /\ Moved(j, "ensure", {"snap", "server", "todo"})
                              /\ run'[j].snap = mem' /\ run'[j].server = s
                              /\ run'[j].todo = Users(mem') \X {s}
                         ELSE Fails(j)
  <1>1. run \in [Jobs -> Frames] /\ run[j] \in Frames /\ run[j].pc = "store"
    BY FramesOf DEF StoreServer, At
  <1>2. ASSUME NEW s, Move(j, [Goto(j, "ensure") EXCEPT
                                !.snap = mem', !.server = s, !.todo = Users(mem') \X {s}])
        PROVE  /\ Moved(j, "ensure", {"snap", "server", "todo"})
               /\ run'[j].snap = mem' /\ run'[j].server = s
               /\ run'[j].todo = Users(mem') \X {s}
    BY <1>1, <1>2 DEF Move, Goto, Frames, Moved, Only, Fields
  <1>3. PICK s \in Fresh(ServerIds), done \in BOOLEAN :
          /\ Update(~SiteTaken(mem, Op(j).site),
                    AddServer(mem, s, Op(j).site, Op(j).name), done)
          /\ Move(j, IF done THEN [Goto(j, "ensure") EXCEPT
                                     !.snap = mem', !.server = s, !.todo = Users(mem') \X {s}]
                             ELSE Failed(j))
    BY DEF StoreServer
  <1> QED BY <1>1, <1>2, <1>3, GoneTo DEF StoreServer

LEMMA DropServerEffect ==
  ASSUME TypeInv, NEW j \in Jobs, DropServer(j)
  PROVE  run[j].pc = "drop" /\ (Moved(j, "unlock", {}) \/ Fails(j))
  BY GoneTo DEF DropServer, At

LEMMA ScriptEffect ==
  ASSUME TypeInv, NEW j \in Jobs
  PROVE  /\ SetUp(j) => Moved(j, "store", {})
         /\ SetupFails(j) => Fails(j)
         /\ TornDown(j) => Moved(j, IF Kind(j) = "cleanup" THEN "unlock" ELSE "drop", {})
         /\ TeardownFails(j) =>
              /\ Moved(j, IF Kind(j) = "cleanup" THEN "unlock" ELSE "status", {"failed", "verdict"})
              /\ run'[j].failed = TRUE
  <1>1. run \in [Jobs -> Frames] /\ run[j] \in Frames
    BY FramesOf
  <1>2. ASSUME Move(j, [Failed(j) EXCEPT !.pc = "status", !.verdict = "error"])
        PROVE  Moved(j, "status", {"failed", "verdict"}) /\ run'[j].failed = TRUE
    BY <1>1, <1>2 DEF Move, Failed, Frames, Moved, Only, Fields
  <1>3. Fails(j) => Moved(j, "unlock", {"failed", "verdict"})
    BY DEF Fails, Moved, Only
  <1> QED BY <1>2, <1>3, GoneTo DEF SetUp, SetupFails, TornDown, TeardownFails, Fails
-----------------------------------------------------------------------------
(***************************************************************************)
(* Steps seen from the job past operationMu.                               *)
(***************************************************************************)
Elsewhere ==
  \/ UNCHANGED <<store, slaves>>
  \/ \E s \in ServerIds, name \in Names : Rename(s, name)
  \/ RegisterLands \/ RemoveLands

Goes(j) == Work(j) \/ Script(j)

LEMMA StepsOf ==
  ASSUME KnownInv, [Next]_vars, NEW j \in Jobs, run'[j].pc \in InLock
  PROVE  \/ BeginJob(j)
         \/ run[j].pc \in InLock /\ holder = j /\ Goes(j) /\ ~Unlock(j)
         \/ run[j].pc \in InLock /\ holder = j /\ run'[j] = run[j] /\ holder' = j /\ Elsewhere
  <1>1. /\ TypeInv /\ run \in [Jobs -> Frames]
        /\ \A k \in Jobs : run[k].pc \in InLock => holder = k
    BY DEF KnownInv, TypeInv, TypeOK, OneJobAtATime, At
  <1>2. ASSUME NEW k \in Jobs \ {j}, BeginJob(k) \/ Goes(k) PROVE FALSE
    <2>1. CASE BeginJob(k)
      BY <1>1, <2>1, BeginTakesLock, FreeAssumption
    <2>2. CASE Unlock(k)
      BY <1>1, <1>2, <2>2, FreeAssumption DEF Unlock, Move
    <2>3. CASE Goes(k) /\ ~Unlock(k)
      BY <1>1, <2>3, WorkKeepsLock DEF Goes, At
    <2> QED BY <1>2, <2>1, <2>2, <2>3
  <1>3. ASSUME NEW k \in Jobs, NEW q \in Requests, Submit(k, q)
        PROVE  /\ run[j].pc \in InLock /\ run'[j] = run[j] /\ holder' = holder
               /\ UNCHANGED <<store, slaves>>
    BY <1>1, <1>3 DEF Submit, Move, InLock, Frames
  <1>4. ~Crash
    BY DEF Crash, IdleFrame, InLock
  <1>5. ~Unlock(j)
    BY <1>1 DEF Unlock, Move, IdleFrame, InLock
  <1>6. Goes(j) => run[j].pc \in InLock
    BY <1>1, <1>5, WorkKeepsLock DEF Goes, At
  <1>7. CASE \E s \in ServerIds, name \in Names : Rename(s, name)
    BY <1>1, <1>7 DEF Rename, Elsewhere
  <1>8. CASE RegisterLands \/ RemoveLands
    BY <1>1, <1>8 DEF RegisterLands, RemoveLands, Elsewhere
  <1>9. CASE UNCHANGED vars
    BY <1>1, <1>9 DEF vars, Elsewhere
  <1> QED
    BY <1>1, <1>2, <1>3, <1>4, <1>5, <1>6, <1>7, <1>8, <1>9 DEF Next, Goes, Elsewhere

LEMMA BeginEffect ==
  ASSUME TypeInv, NEW j \in Jobs, BeginJob(j)
  PROVE  /\ run'[j].op = run[j].op /\ run'[j].snap = mem
         /\ UNCHANGED <<store, slaves>>
         /\ \/ Kind(j) # "sync" /\ run'[j].pc = "unlock" /\ run'[j].failed = TRUE
            \/ /\ Kind(j) = "retry" /\ run'[j].pc = "ensure"
               /\ run'[j].user = Op(j).user /\ run'[j].todo = {Op(j).user} \X Servers(mem)
            \/ Kind(j) \in {"create", "delete"} /\ run'[j].pc = "store"
            \/ Kind(j) = "provision" /\ run'[j].pc = "setup"
            \/ Kind(j) = "sync" /\ run'[j].pc = "sites" /\ run'[j].sites = Servers(mem)
            \/ Kind(j) \in {"cleanup", "uninstall"} /\ run'[j].pc = "teardown"
            \/ Kind(j) = "forget" /\ run'[j].pc = "drop"
         /\ Kind(j) # "retry" \/ run'[j].pc = "unlock" => run'[j].todo = {}
  <1>1. run \in [Jobs -> Frames] /\ run[j] \in Frames /\ run'[j].snap = mem
    BY FramesOf, BeginTakesLock
  <1>2. run[j].todo = {} /\ UNCHANGED <<store, slaves>>
    <2>1. Sound(run[j]) /\ run[j].pc = "waiting"
      BY FrameOf DEF BeginJob, BeginCreate, BeginRetry, BeginDelete, BeginSync, BeginProvision,
         BeginCleanup, BeginDrop, Begin, At
    <2> QED
      BY <2>1 DEF Sound, BeginJob, BeginCreate, BeginRetry, BeginDelete, BeginSync,
         BeginProvision, BeginCleanup, BeginDrop, Begin
  <1> USE DEF Begin, Move, Goto, Failed, Frames, Kind, Op
  <1>3. CASE BeginCreate(j)
    BY <1>1, <1>2, <1>3 DEF BeginCreate
  <1>4. CASE BeginRetry(j)
    BY <1>1, <1>2, <1>4 DEF BeginRetry
  <1>5. CASE BeginDelete(j)
    BY <1>1, <1>2, <1>5 DEF BeginDelete
  <1>6. CASE BeginSync(j)
    BY <1>1, <1>2, <1>6 DEF BeginSync
  <1>7. CASE BeginProvision(j)
    BY <1>1, <1>2, <1>7 DEF BeginProvision
  <1>8. CASE BeginCleanup(j)
    BY <1>1, <1>2, <1>8 DEF BeginCleanup
  <1>9. CASE BeginDrop(j)
    BY <1>1, <1>2, <1>9 DEF BeginDrop
  <1> QED BY <1>3, <1>4, <1>5, <1>6, <1>7, <1>8, <1>9 DEF BeginJob

\* Only four updates change the tables of users and servers.
TableUpdate(j) == StoreUser(j) \/ DropUser(j) \/ StoreServer(j) \/ DropServer(j)

LEMMA TablesStay ==
  ASSUME KnownInv, NEW j \in Jobs, (Goes(j) /\ ~TableUpdate(j)) \/ Elsewhere
  PROVE  mem'.user = mem.user /\ SameSites(mem, mem') /\ Users(mem') = Users(mem)
  <1>1. mem \in Documents /\ run[j] \in Frames
    BY DEF KnownInv, TypeInv, TypeOK
  <1>2. SUFFICES mem'.user = mem.user /\ SameSites(mem, mem')
    BY DEF Users
  <1>3. ASSUME NEW u, NEW s, NEW link
        PROVE  /\ SetLink(mem, u, s, link).user = mem.user
               /\ SameSites(mem, SetLink(mem, u, s, link))
    <2>1. /\ SetLink(mem, u, s, link).user = mem.user
          /\ SetLink(mem, u, s, link).server = mem.server
      BY <1>1 DEF SetLink, Documents
    <2> QED BY <2>1 DEF SameSites, Servers
  <1>4. ASSUME NEW s \in Servers(mem), NEW status \in Statuses
        PROVE  /\ SetStatus(mem, s, status).user = mem.user
               /\ SameSites(mem, SetStatus(mem, s, status))
    <2>1. /\ SetStatus(mem, s, status).user = mem.user
          /\ \A t \in Servers(mem) : SetStatus(mem, s, status).server[t].site = mem.server[t].site
      BY <1>1 DEF SetStatus, Documents, Servers, ServerEntries
    <2> QED BY <1>1, <2>1, StatusTables DEF SameSites
  <1>5. ASSUME NEW s \in Servers(mem), NEW name \in Names
        PROVE  /\ SetName(mem, s, name).user = mem.user
               /\ SameSites(mem, SetName(mem, s, name))
    <2>1. /\ SetName(mem, s, name).user = mem.user
          /\ \A t \in Servers(mem) : SetName(mem, s, name).server[t].site = mem.server[t].site
      BY <1>1 DEF SetName, Documents, Servers, ServerEntries
    <2> QED BY <1>1, <2>1, NameTables DEF SameSites
  <1>6. SameSites(mem, mem)
    BY DEF SameSites
  <1>7. ASSUME NEW accepted, NEW new, NEW done, Update(accepted, new, done)
        PROVE  mem' = mem \/ (accepted /\ mem' = new)
    BY <1>7 DEF Update, Save, store
  <1>8. CASE SetUserLink(j)
    BY <1>3, <1>6, <1>7, <1>8 DEF SetUserLink
  <1>9. CASE SyncUser(j)
    BY <1>3, <1>6, <1>7, <1>9 DEF SyncUser
  <1>10. CASE SetServerStatus(j)
    <2>1. run[j].verdict \in Statuses
      BY <1>1 DEF Frames
    <2> QED BY <2>1, <1>4, <1>6, <1>10 DEF SetServerStatus, Update, Save, store
  <1>11. CASE \E s \in ServerIds, name \in Names : Rename(s, name)
    BY <1>5, <1>6, <1>11 DEF Rename, Update, Save, store
  <1>12. CASE UNCHANGED store
    BY <1>6, <1>12 DEF store
  <1>13. CASE RegisterLands \/ RemoveLands
    BY <1>12, <1>13 DEF RegisterLands, RemoveLands
  <1>14. CASE Script(j)
    BY <1>12, <1>14 DEF Script, SetUp, SetupFails, TornDown, TeardownFails
  <1>15. CASE Registered(j) \/ Conflict(j) \/ RegisterFails(j) \/ Adopt(j) \/ EnsureDone(j) \/ NoId(j)
    BY <1>12, <1>15 DEF Registered, Conflict, RegisterFails, Adopt, EnsureDone, NoId
  <1>16. CASE Listed(j) \/ ListFails(j) \/ SitesDone(j) \/ Removed(j) \/ RemoveFails(j) \/ RemoveDone(j) \/ Unlock(j)
    BY <1>12, <1>16 DEF Listed, ListFails, SitesDone, Removed, RemoveFails, RemoveDone, Unlock
  <1> QED
    BY <1>8, <1>9, <1>10, <1>11, <1>12, <1>13, <1>14, <1>15, <1>16
    DEF Goes, Work, TableUpdate, Elsewhere

LEMMA AnyEffect ==
  ASSUME TypeInv, NEW j \in Jobs
  PROVE  /\ NoId(j) => Fails(j)
         /\ SitesDone(j) => Moved(j, "unlock", {}) /\ run[j].sites = {}
         /\ SetServerStatus(j) => Moved(j, IF Kind(j) = "sync" THEN "sites" ELSE "unlock", {})
  BY GoneTo DEF NoId, SitesDone, SetServerStatus

-----------------------------------------------------------------------------
(***************************************************************************)
(* The first layer is inductive.                                           *)
(***************************************************************************)
LEMMA CourseStep ==
  ASSUME TypeInv, NEW j \in Jobs, Course(j), Goes(j), ~Unlock(j)
  PROVE  Course(j)'
  <1>1. run[j] \in Frames /\ Sound(run[j])
    BY FrameOf
  <1>2. CASE Registered(j) \/ Conflict(j) \/ RegisterFails(j)
    <2>1. PICK p \in Missing(j), place \in {"link", "adopt"}, c \in {0, nextClient} :
            (place = "adopt" => c = 0) /\ Move(j, Answer(j, p, place, c))
      BY <1>2 DEF Registered, Conflict, RegisterFails
    <2>2. /\ p \in run[j].todo /\ p \in UserIds \X ServerIds
          /\ Matching(run[j].seen, run[j].snap.user[p[1]]) = {}
          /\ run[j].pc = "ensure"
      BY <1>1, <1>2 DEF Missing, Found, EmailOf, Frames, Registered, Conflict, RegisterFails, At
    <2>3. p = <<p[1], p[2]>>
      BY <2>2
    <2>4. Moved(j, place, {"user", "server", "reply"}) /\ run'[j].user = p[1] /\ run'[j].server = p[2]
          /\ run'[j].reply = c
      BY <2>1, AskedEffect
    <2> QED
      BY <1>1, <2>1, <2>2, <2>3, <2>4, MovedFields
      DEF Course, At, Kind, Linking, Syncing, Serving, Found, EmailOf
  <1>3. CASE Adopt(j)
    <2>1. run[j].pc = "adopt" /\ Moved(j, "link", {"reply"})
      BY <1>3, AdoptEffect DEF Adopt, At
    <2> QED
      BY <1>1, <2>1, MovedFields DEF Course, At, Kind, Linking, Syncing, Serving, Found, EmailOf
  <1>4. CASE SetUserLink(j)
    <2>1. /\ run[j].pc = "link" /\ Moved(j, "ensure", {"todo", "reply", "warned", "verdict"})
          /\ run'[j].todo \subseteq run[j].todo
      BY <1>4, LinkEffect DEF SetUserLink, At
    <2> QED
      BY <1>1, <2>1, MovedFields DEF Course, At, Kind, Linking, Syncing, Serving
  <1>5. CASE EnsureDone(j)
    <2>1. /\ run[j].pc = "ensure" /\ run[j].todo = {}
          /\ \/ Kind(j) \in {"create", "retry"} /\ Moved(j, "unlock", {})
             \/ Kind(j) = "provision" /\ Moved(j, "status", {})
             \/ Kind(j) = "sync" /\ Moved(j, "extras", {"victims"})
      BY <1>5, EnsureDoneEffect
    <2> USE DEF Course, At, Kind, Linking, Syncing, Serving
    <2>2. CASE Kind(j) \in {"create", "retry"} /\ Moved(j, "unlock", {})
      BY <1>1, <2>1, <2>2, MovedFields
    <2>3. CASE Kind(j) = "provision" /\ Moved(j, "status", {})
      BY <1>1, <2>1, <2>3, MovedFields
    <2>4. CASE Kind(j) = "sync" /\ Moved(j, "extras", {"victims"})
      BY <1>1, <2>1, <2>4, MovedFields
    <2> QED BY <2>1, <2>2, <2>3, <2>4
  <1>6. CASE SyncUser(j)
    <2>1. /\ run[j].pc = "ensure" /\ Moved(j, "duplicates", {"todo", "victims"})
          /\ run'[j].todo \subseteq run[j].todo
      BY <1>6, SyncUserEffect
    <2>2. Kind(j) = "sync"
      BY <1>1, <1>6 DEF SyncUser, Missing, Found, Matching, ClientIds, Sound, Kind
    <2> QED
      BY <1>1, <2>1, <2>2, MovedFields DEF Course, At, Kind, Linking, Syncing, Serving
  <1>7. CASE Listed(j)
    <2>1. PICK s \in run[j].sites :
            LET records == slave[AddressOf(j, s)].records IN
              /\ run'[j].sites = run[j].sites \ {s} /\ run'[j].server = s
              /\ \/ /\ Kind(j) = "delete"
                    /\ Moved(j, "purge", {"sites", "server", "victims"})
                 \/ /\ Kind(j) = "sync"
                    /\ Moved(j, "ensure", {"sites", "server", "seen", "verdict", "todo"})
                    /\ run'[j].todo = Users(run[j].snap) \X {s}
      BY <1>7, ListedEffect
    <2>2. s \in Servers(run[j].snap) /\ Users(run[j].snap) \subseteq UserIds
      BY <1>1 DEF Sound, Users
    <2> USE DEF Course, At, Kind, Linking, Syncing, Serving
    <2>3. CASE Moved(j, "purge", {"sites", "server", "victims"}) /\ Kind(j) = "delete"
      BY <1>1, <2>1, <2>2, <2>3, MovedFields
    <2>4. CASE /\ Moved(j, "ensure", {"sites", "server", "seen", "verdict", "todo"})
               /\ Kind(j) = "sync" /\ run'[j].todo = Users(run[j].snap) \X {s}
      BY <1>1, <2>1, <2>2, <2>4, MovedFields
    <2> QED BY <2>1, <2>3, <2>4
  <1>8. CASE ListFails(j)
    <2>1. PICK s \in run[j].sites :
              /\ run[j].pc = "sites" /\ run'[j].sites = run[j].sites \ {s}
              /\ \/ Kind(j) = "delete" /\ Moved(j, "sites", {"sites", "warned"})
                 \/ /\ Kind(j) = "sync" /\ run'[j].server = s
                    /\ Moved(j, "status", {"sites", "warned", "server", "verdict"})
      BY <1>8, ListFailsEffect
    <2>2. s \in Servers(run[j].snap) /\ s \in ServerIds
      BY <1>1 DEF Sound, Servers
    <2> USE DEF Course, At, Kind, Linking, Syncing, Serving
    <2>3. CASE Kind(j) = "delete" /\ Moved(j, "sites", {"sites", "warned"})
      BY <1>1, <2>1, <2>2, <2>3, MovedFields
    <2>4. CASE /\ Moved(j, "status", {"sites", "warned", "server", "verdict"})
               /\ Kind(j) = "sync" /\ run'[j].server = s
      <3>1. /\ run'[j].pc = "status" /\ run'[j].op = run[j].op
            /\ run'[j].snap = run[j].snap /\ run'[j].todo = run[j].todo
            /\ run'[j].failed = run[j].failed
        BY <2>4, MovedFields
      <3>2. run[j].todo = {}
        BY <1>1, <2>1, <2>4, <3>1
      <3> QED BY <2>1, <2>2, <2>4, <3>1, <3>2
    <2> QED BY <2>1, <2>3, <2>4
  <1>9. CASE SitesDone(j)
    <2>1. run[j].pc = "sites" /\ Moved(j, "unlock", {}) /\ run[j].sites = {}
      BY <1>9, AnyEffect DEF SitesDone, At
    <2> QED
      BY <1>1, <2>1, MovedFields DEF Course, At, Kind, Linking, Syncing, Serving
  <1>10. CASE Removed(j) \/ RemoveFails(j)
    <2>1. Only(j, {"victims", "warned", "verdict"})
      BY <1>10, RemovingEffect DEF Only
    <2> QED
      BY <1>1, <2>1, FieldsKept DEF Course, At, Kind, Linking, Syncing, Serving, Found, EmailOf
  <1>11. CASE RemoveDone(j)
    <2>1. /\ At(j, Removing)
          /\ Moved(j, CASE At(j, {"duplicates"}) -> "ensure"
                        [] At(j, {"extras"}) -> "status"
                        [] At(j, {"purge"}) -> "sites", {})
      BY <1>11, RemovingEffect DEF RemoveDone
    <2>2. \/ run[j].pc = "duplicates" /\ Moved(j, "ensure", {})
          \/ run[j].pc = "extras" /\ Moved(j, "status", {})
          \/ run[j].pc = "purge" /\ Moved(j, "sites", {})
      BY <2>1 DEF At, Removing
    <2> QED
      BY <1>1, <2>2, MovedFields DEF Course, At, Kind, Linking, Syncing, Serving
  <1>12. CASE SetServerStatus(j)
    <2>1. run[j].pc = "status" /\ Moved(j, IF Kind(j) = "sync" THEN "sites" ELSE "unlock", {})
      BY <1>12, AnyEffect DEF SetServerStatus, At
    <2> QED
      BY <1>1, <2>1, MovedFields DEF Course, At, Kind, Linking, Syncing, Serving
  <1>13. CASE Fails(j)
    <2>1. /\ run'[j].pc = "unlock" /\ run'[j].failed = TRUE
          /\ run'[j].op = run[j].op /\ run'[j].todo = run[j].todo
          /\ run'[j].user = run[j].user /\ run'[j].server = run[j].server
      BY <1>13, MovedFields DEF Fails
    <2> QED
      BY <2>1, <1>1 DEF Course, At, Kind, Linking, Syncing, Serving
  <1>14. CASE StoreUser(j)
    <2>1. /\ Kind(j) = "create"
          /\ \/ Fails(j)
             \/ \E u \in UserIds :
                  /\ Moved(j, "ensure", {"snap", "user", "todo"})
                  /\ run'[j].user = u /\ run'[j].todo = {u} \X Servers(mem')
      BY <1>14, StoreUserEffect DEF Fresh
    <2>2. Servers(mem') \subseteq ServerIds
      BY DEF Servers
    <2> QED
      BY <1>1, <1>13, <2>1, <2>2, MovedFields DEF Course, At, Kind, Linking, Syncing, Serving
  <1>15. CASE StoreServer(j)
    <2>1. /\ Kind(j) = "provision"
          /\ \/ Fails(j)
             \/ \E s \in ServerIds :
                  /\ Moved(j, "ensure", {"snap", "server", "todo"})
                  /\ run'[j].server = s /\ run'[j].todo = Users(mem') \X {s}
      BY <1>15, StoreServerEffect DEF Fresh
    <2>2. Users(mem') \subseteq UserIds
      BY DEF Users
    <2> QED
      BY <1>1, <1>13, <2>1, <2>2, MovedFields DEF Course, At, Kind, Linking, Syncing, Serving
  <1>16. CASE DropUser(j)
    <2>1. Kind(j) = "delete" /\ (Fails(j) \/ Moved(j, "sites", {"sites"}))
      BY <1>16, DropUserEffect
    <2> QED
      BY <1>1, <1>13, <2>1, MovedFields DEF Course, At, Kind, Linking, Syncing, Serving
  <1>17. CASE DropServer(j)
    <2>1. run[j].pc = "drop" /\ (Fails(j) \/ Moved(j, "unlock", {}))
      BY <1>17, DropServerEffect
    <2> QED
      BY <1>1, <1>13, <2>1, MovedFields DEF Course, At, Kind, Linking, Syncing, Serving
  <1>18. CASE Script(j)
    <2>1. CASE SetUp(j)
      <3>1. run[j].pc = "setup" /\ Moved(j, "store", {})
        BY <2>1, ScriptEffect DEF SetUp, At
      <3> QED
        BY <1>1, <3>1, MovedFields DEF Course, At, Kind, Linking, Syncing, Serving
    <2>2. CASE TornDown(j)
      <3>1. run[j].pc = "teardown"
        BY <2>2 DEF TornDown, At
      <3>2. CASE Kind(j) = "cleanup" /\ Moved(j, "unlock", {})
        BY <1>1, <3>1, <3>2, MovedFields DEF Course, At, Kind, Linking, Syncing, Serving
      <3>3. CASE Kind(j) # "cleanup" /\ Moved(j, "drop", {})
        BY <1>1, <3>1, <3>3, MovedFields DEF Course, At, Kind, Linking, Syncing, Serving
      <3> QED BY <2>2, <3>2, <3>3, ScriptEffect
    <2>3. CASE TeardownFails(j)
      <3>1. run[j].pc = "teardown" /\ run'[j].failed = TRUE
        BY <2>3, ScriptEffect DEF TeardownFails, At
      <3>2. CASE Kind(j) = "cleanup" /\ Moved(j, "unlock", {"failed", "verdict"})
        BY <1>1, <3>1, <3>2, MovedFields DEF Course, At, Kind, Linking, Syncing, Serving
      <3>3. CASE Kind(j) # "cleanup" /\ Moved(j, "status", {"failed", "verdict"})
        BY <1>1, <3>1, <3>3, MovedFields DEF Course, At, Kind, Linking, Syncing, Serving
      <3> QED BY <2>3, <3>2, <3>3, ScriptEffect
    <2> QED BY <1>13, <1>18, <2>1, <2>2, <2>3, ScriptEffect DEF Script
  <1> QED
    BY <1>2, <1>3, <1>4, <1>5, <1>6, <1>7, <1>8, <1>9, <1>10, <1>11, <1>12, <1>13, <1>14,
       <1>15, <1>16, <1>17, <1>18, AnyEffect DEF Goes, Work

\* A job that leaves the tables alone keeps what it knows of them.
LEMMA SnapshotStays ==
  ASSUME TypeInv, NEW j \in Jobs, Goes(j), ~Unlock(j), ~TableUpdate(j), Course(j)
  PROVE  /\ run'[j].snap = run[j].snap /\ run'[j].op = run[j].op
         /\ Kind(j) = "delete" =>
              /\ run'[j].user = run[j].user
              /\ Dropped(j)' => Dropped(j)
              /\ Dropped(j) => Dropped(j)' \/ run'[j].pc = "unlock"
         /\ Kind(j) \in {"uninstall", "forget"} /\ run[j].pc = "unlock" => run'[j].pc = "unlock"
  <1> DEFINE Q == /\ run'[j].snap = run[j].snap /\ run'[j].op = run[j].op
                  /\ Kind(j) = "delete" =>
                       /\ run'[j].user = run[j].user
                       /\ Dropped(j)' => Dropped(j)
                       /\ Dropped(j) => Dropped(j)' \/ run'[j].pc = "unlock"
  <1>1. run[j] \in Frames /\ Sound(run[j]) /\ run[j].pc # "unlock"
    <2>1. At(j, InLock \ {"unlock"})
      BY WorkKeepsLock DEF Goes
    <2> QED BY <2>1, FrameOf DEF At
  <1> SUFFICES Q
    BY <1>1
  <1> USE DEF Dropped, At, Kind
  <1>2. CASE Registered(j) \/ Conflict(j) \/ RegisterFails(j)
    <2>1. PICK p \in Missing(j), place \in {"link", "adopt"}, c \in {0, nextClient} :
            Move(j, Answer(j, p, place, c))
      BY <1>2 DEF Registered, Conflict, RegisterFails
    <2>2. Moved(j, place, {"user", "server", "reply"}) /\ run[j].pc = "ensure"
      BY <1>2, <2>1, AskedEffect DEF Registered, Conflict, RegisterFails
    <2>3. Kind(j) # "delete"
      <3>1. p \in run[j].todo
        BY DEF Missing
      <3> QED BY <2>2, <3>1 DEF Course, Linking, Serving
    <2> QED
      BY <2>2, <2>3, MovedFields
  <1>3. CASE Adopt(j)
    <2>1. run[j].pc = "adopt" /\ Moved(j, "link", {"reply"})
      BY <1>3, AdoptEffect DEF Adopt
    <2> QED BY <2>1, MovedFields
  <1>4. CASE SetUserLink(j)
    <2>1. run[j].pc = "link" /\ Moved(j, "ensure", {"todo", "reply", "warned", "verdict"})
      BY <1>4, LinkEffect DEF SetUserLink
    <2> QED BY <2>1, MovedFields
  <1>5. CASE EnsureDone(j)
    <2>1. /\ run[j].pc = "ensure"
          /\ \/ Kind(j) \in {"create", "retry"} /\ Moved(j, "unlock", {})
             \/ Kind(j) = "provision" /\ Moved(j, "status", {})
             \/ Kind(j) = "sync" /\ Moved(j, "extras", {"victims"})
      BY <1>5, EnsureDoneEffect
    <2> QED BY <2>1, MovedFields
  <1>6. CASE SyncUser(j)
    BY <1>6, SyncUserEffect, MovedFields
  <1>7. CASE Listed(j)
    BY <1>7, ListedEffect, MovedFields
  <1>8. CASE ListFails(j)
    <2>1. /\ run[j].pc = "sites"
          /\ \/ Kind(j) = "delete" /\ Moved(j, "sites", {"sites", "warned"})
             \/ /\ Kind(j) = "sync"
                /\ Moved(j, "status", {"sites", "warned", "server", "verdict"})
      BY <1>8, ListFailsEffect
    <2> QED BY <2>1, MovedFields
  <1>9. CASE SitesDone(j)
    BY <1>9, AnyEffect, MovedFields
  <1>10. CASE Removed(j) \/ RemoveFails(j)
    <2>1. Only(j, {"victims", "warned", "verdict"})
      BY <1>10, RemovingEffect DEF Only
    <2> QED BY <2>1, FieldsKept
  <1>11. CASE RemoveDone(j)
    <2>1. /\ At(j, Removing)
          /\ Moved(j, CASE At(j, {"duplicates"}) -> "ensure"
                        [] At(j, {"extras"}) -> "status"
                        [] At(j, {"purge"}) -> "sites", {})
      BY <1>11, RemovingEffect DEF RemoveDone
    <2>2. \/ run[j].pc = "duplicates" /\ Moved(j, "ensure", {})
          \/ run[j].pc = "extras" /\ Moved(j, "status", {})
          \/ run[j].pc = "purge" /\ Moved(j, "sites", {})
      BY <2>1 DEF Removing
    <2> QED BY <2>2, MovedFields
  <1>12. CASE SetServerStatus(j)
    BY <1>12, AnyEffect, MovedFields DEF SetServerStatus
  <1>13. CASE Fails(j)
    BY <1>13, MovedFields DEF Fails
  <1>14. CASE Script(j)
    <2>1. run[j].pc \in {"setup", "teardown"} /\ Kind(j) # "delete"
      BY <1>1, <1>14 DEF Script, SetUp, SetupFails, TornDown, TeardownFails, Course, Sound
    <2>2. CASE SetUp(j) \/ TornDown(j)
      <3>1. PICK place : Moved(j, place, {})
        BY <2>2, ScriptEffect
      <3> QED BY <2>1, <3>1, MovedFields
    <2>3. CASE TeardownFails(j)
      <3>1. PICK place : Moved(j, place, {"failed", "verdict"})
        BY <2>3, ScriptEffect
      <3> QED BY <2>1, <3>1, MovedFields
    <2> QED BY <1>13, <1>14, <2>2, <2>3, ScriptEffect DEF Script
  <1> QED
    BY <1>2, <1>3, <1>4, <1>5, <1>6, <1>7, <1>8, <1>9, <1>10, <1>11, <1>12, <1>13, <1>14,
       AnyEffect DEF Goes, Work, TableUpdate

Knows(j) == KnowsUsers(j) /\ KnowsSites(j) /\ ProfilesDistinct(run[j].snap)

LEMMA BeginKnows ==
  ASSUME TypeInv, DocumentsConsistent, NEW j \in Jobs, BeginJob(j)
  PROVE  Knows(j)' /\ Course(j)'
  <1>1. /\ run'[j].op = run[j].op /\ run'[j].snap = mem /\ mem' = mem
        /\ run'[j].pc = "sites" => Kind(j) = "sync"
        /\ run'[j].pc # "purge"
        /\ Kind(j) # "retry" => run'[j].todo = {}
    BY BeginEffect DEF store
  <1>2. Knows(j)'
    <2>1. SameSites(mem, mem) /\ ProfilesDistinct(mem)
      BY DEF SameSites, DocumentsConsistent, Consistent
    <2> QED BY <1>1, <2>1 DEF Knows, KnowsUsers, KnowsSites, Dropped, At, Kind
  <1>3. Course(j)'
    <2>1. Servers(mem) \subseteq ServerIds
      BY DEF Servers
    <2> USE DEF Course, At, Kind, Linking, Syncing, Serving
    <2>2. CASE Kind(j) = "retry" /\ run'[j].pc = "ensure"
      <3>1. run'[j].user = Op(j).user /\ run'[j].todo = {Op(j).user} \X Servers(mem)
        BY <2>2, BeginEffect
      <3> QED BY <1>1, <2>1, <2>2, <3>1
    <2>3. CASE run'[j].pc = "unlock" /\ run'[j].failed = TRUE
      <3>1. run'[j].todo = {}
        BY <2>3, BeginEffect
      <3> QED BY <1>1, <2>3, <3>1, BeginEffect
    <2>4. CASE run'[j].pc \in {"store", "setup", "sites", "teardown", "drop"}
      BY <1>1, <2>4, BeginEffect
    <2> QED BY <2>2, <2>3, <2>4, BeginEffect
  <1> QED BY <1>2, <1>3

LEMMA TableUpdateKnows ==
  ASSUME KnownInv, DocumentsConsistent', NEW j \in Jobs, run[j].pc # "unlock", Knows(j),
         Course(j), TableUpdate(j)
  PROVE  Knows(j)'
  <1>1. /\ run[j] \in Frames /\ Sound(run[j]) /\ mem \in Documents /\ TypeInv
        /\ ProfilesDistinct(mem')
    BY FrameOf DEF KnownInv, TypeInv, TypeOK, DocumentsConsistent, Consistent
  <1> USE DEF Knows, KnowsUsers, KnowsSites, Dropped, At, Kind
  <1>2. SameSites(mem', mem')
    BY DEF SameSites
  <1>3. ASSUME Fails(j), mem' = mem PROVE Knows(j)'
    <2>1. /\ run'[j].pc = "unlock" /\ run'[j].op = run[j].op /\ run'[j].snap = run[j].snap
          /\ run'[j].user = run[j].user
      BY <1>3, MovedFields DEF Fails
    <2> QED BY <1>3, <2>1
  <1>4. CASE StoreUser(j)
    <2>1. /\ run[j].pc = "store" /\ Kind(j) = "create"
          /\ \/ Fails(j) /\ mem' = mem
             \/ Moved(j, "ensure", {"snap", "user", "todo"}) /\ run'[j].snap = mem'
      BY <1>1, <1>4, StoreUserEffect DEF Update, Save, store
    <2> QED BY <1>1, <1>2, <1>3, <2>1, MovedFields
  <1>5. CASE StoreServer(j)
    <2>1. /\ run[j].pc = "store" /\ Kind(j) = "provision"
          /\ \/ Fails(j) /\ mem' = mem
             \/ Moved(j, "ensure", {"snap", "server", "todo"}) /\ run'[j].snap = mem'
      BY <1>1, <1>5, StoreServerEffect DEF Update, Save, store
    <2> QED BY <1>1, <1>2, <1>3, <2>1, MovedFields
  <1>6. CASE DropUser(j)
    <2>1. /\ run[j].pc = "store" /\ Kind(j) = "delete"
          /\ \/ Fails(j) /\ mem' = mem
             \/ Moved(j, "sites", {"sites"}) /\ mem' = RemoveUser(mem, run[j].user)
      BY <1>1, <1>6, DropUserEffect DEF Update, Save, store
    <2>2. CASE Moved(j, "sites", {"sites"}) /\ mem' = RemoveUser(mem, run[j].user)
      <3>1. /\ run'[j].pc = "sites" /\ run'[j].op = run[j].op /\ run'[j].snap = run[j].snap
            /\ run'[j].user = run[j].user
        BY <2>2, MovedFields
      <3>2. /\ mem'.user = [mem.user EXCEPT ![run[j].user] = NoUser]
            /\ mem'.server = mem.server
        BY <1>1, <2>2 DEF RemoveUser, Documents
      <3>3. Servers(mem') = Servers(mem)
        BY <3>2 DEF Servers
      <3>4. mem.user = run[j].snap.user /\ SameSites(run[j].snap, mem)
        BY <2>1
      <3>5. SameSites(run[j].snap, mem')
        BY <3>2, <3>3, <3>4 DEF SameSites
      <3> QED BY <2>1, <3>1, <3>2, <3>4, <3>5
    <2> QED BY <1>3, <2>1, <2>2
  <1>7. CASE DropServer(j)
    <2>1. /\ run[j].pc = "drop" /\ (Fails(j) \/ Moved(j, "unlock", {}))
          /\ mem'.user = mem.user
          /\ Kind(j) \in {"uninstall", "forget"}
      <3>1. mem'.user = mem.user
        BY <1>1, <1>7 DEF DropServer, Update, Save, store, ForgetServer, Documents
      <3> QED BY <1>1, <1>7, <3>1, DropServerEffect DEF Course
    <2>2. /\ run'[j].pc = "unlock" /\ run'[j].op = run[j].op /\ run'[j].snap = run[j].snap
      BY <2>1, MovedFields DEF Fails
    <2> QED BY <2>1, <2>2
  <1> QED BY <1>4, <1>5, <1>6, <1>7 DEF TableUpdate

LEMMA SnapshotStep == SnapshotInv /\ [Next]_vars => SnapshotInv'
  <1> SUFFICES ASSUME SnapshotInv, [Next]_vars PROVE SnapshotInv'
    OBVIOUS
  <1>1. /\ KnownInv /\ DocumentsConsistent /\ TypeInv
        /\ \A j \in Jobs : run[j].pc \in InLock => Knows(j) /\ Course(j)
    BY DEF SnapshotInv, KnownInv, Knows, At
  <1>2. KnownInv' /\ DocumentsConsistent'
    BY <1>1, KnownStep, ConsistentStep
  <1>3. ASSUME NEW j \in Jobs, run'[j].pc \in InLock PROVE Knows(j)' /\ Course(j)'
    <2>1. CASE BeginJob(j)
      BY <1>1, <2>1, BeginKnows
    <2>2. ASSUME run[j].pc \in InLock, mem'.user = mem.user, SameSites(mem, mem'),
                 run'[j].snap = run[j].snap, run'[j].op = run[j].op,
                 Dropped(j)' => Dropped(j),
                 Dropped(j) => (Dropped(j)' /\ run'[j].user = run[j].user) \/ run'[j].pc = "unlock",
                 run[j].pc = "unlock" => run'[j].pc = "unlock"
          PROVE  Knows(j)'
      <3>1. Knows(j)
        BY <1>1, <2>2
      <3> USE DEF Knows, Kind, At
      <3>2. KnowsUsers(j)'
        BY <2>2, <3>1 DEF KnowsUsers, Dropped
      <3>3. KnowsSites(j)'
        BY <2>2, <3>1 DEF KnowsSites, SameSites
      <3> QED BY <2>2, <3>1, <3>2, <3>3
    <2>3. CASE run[j].pc \in InLock /\ Goes(j) /\ ~Unlock(j)
      <3>1. Knows(j) /\ Course(j) /\ run[j].pc # "unlock" /\ Course(j)'
        <4>1. At(j, InLock \ {"unlock"})
          BY <1>1, <2>3, WorkKeepsLock DEF Goes
        <4> QED BY <1>1, <2>3, <4>1, CourseStep DEF At
      <3>2. CASE TableUpdate(j)
        BY <1>1, <1>2, <3>1, <3>2, TableUpdateKnows
      <3>3. CASE ~TableUpdate(j)
        <4>1. mem'.user = mem.user /\ SameSites(mem, mem')
          BY <1>1, <2>3, <3>3, TablesStay
        <4>2. /\ run'[j].snap = run[j].snap /\ run'[j].op = run[j].op
              /\ Kind(j) = "delete" =>
                   /\ run'[j].user = run[j].user
                   /\ Dropped(j)' => Dropped(j)
                   /\ Dropped(j) => Dropped(j)' \/ run'[j].pc = "unlock"
          BY <1>1, <2>3, <3>1, <3>3, SnapshotStays
        <4>3. /\ Dropped(j) => Kind(j) = "delete"
              /\ Dropped(j)' => Kind(j) = "delete"
          BY <4>2 DEF Dropped, Kind
        <4> QED BY <2>2, <2>3, <3>1, <4>1, <4>2, <4>3
      <3> QED BY <3>1, <3>2, <3>3
    <2>4. CASE run[j].pc \in InLock /\ run'[j] = run[j] /\ Elsewhere
      <3>1. mem'.user = mem.user /\ SameSites(mem, mem')
        BY <1>1, <2>4, TablesStay
      <3>2. Knows(j)'
        BY <2>2, <2>4, <3>1 DEF Dropped, At, Kind
      <3>3. Course(j)'
        BY <1>1, <2>4 DEF Course, At, Kind, Found, EmailOf
      <3> QED BY <3>2, <3>3
    <2> QED BY <1>1, <1>3, <2>1, <2>3, <2>4, StepsOf
  <1> QED BY <1>2, <1>3 DEF SnapshotInv, Knows, At

LEMMA SnapshotInit == Init => SnapshotInv
  <1>1. Init => \A j \in Jobs : ~At(j, InLock)
    BY DEF Init, At, IdleFrame, InLock
  <1>2. Init => DocumentsConsistent
    BY InitialAssumption DEF Init, DocumentsConsistent
  <1> QED BY <1>1, <1>2, KnownInit DEF SnapshotInv

(***************************************************************************)
(* Records: who adds them, and for whom.                                   *)
(***************************************************************************)
Growing == RegisterLands \/ \E j \in Jobs : Registered(j)

LEMMA OnlyRegistersGrow ==
  ASSUME TypeInv, [Next]_vars, ~Growing
  PROVE  nextClient' = nextClient /\ \A a \in Addresses : slave'[a].records \subseteq slave[a].records
  <1> DEFINE Q == nextClient' = nextClient
                  /\ \A a \in Addresses : slave'[a].records \subseteq slave[a].records
  <1>1. slave \in [Addresses -> SlaveStates]
    BY FramesOf
  <1> SUFFICES Q
    OBVIOUS
  <1>2. CASE UNCHANGED slaves
    BY <1>2 DEF slaves
  <1>3. ASSUME NEW j \in Jobs, BeginJob(j) PROVE Q
    BY <1>2, <1>3, BeginEffect
  <1>4. ASSUME NEW j \in Jobs, Work(j) PROVE Q
    <2>1. CASE StoreUser(j) \/ NoId(j) \/ DropUser(j) \/ StoreServer(j) \/ DropServer(j) \/ SetServerStatus(j)
      BY <1>2, <2>1 DEF StoreUser, NoId, DropUser, StoreServer, DropServer, SetServerStatus
    <2>2. CASE Conflict(j) \/ Adopt(j) \/ SetUserLink(j) \/ EnsureDone(j) \/ SyncUser(j)
      BY <1>2, <2>2 DEF Conflict, Adopt, SetUserLink, EnsureDone, SyncUser
    <2>3. CASE Listed(j) \/ ListFails(j) \/ SitesDone(j) \/ RemoveDone(j)
      BY <1>2, <2>3 DEF Listed, ListFails, SitesDone, RemoveDone
    <2>4. CASE RegisterFails(j) \/ RemoveFails(j) \/ Unlock(j)
      BY <2>4 DEF RegisterFails, RemoveFails, Unlock
    <2>5. CASE Removed(j)
      BY <1>1, <2>5 DEF Removed, SlaveStates
    <2>6. ~Registered(j)
      BY DEF Growing
    <2> QED BY <1>4, <2>1, <2>2, <2>3, <2>4, <2>5, <2>6 DEF Work
  <1>5. ASSUME NEW j \in Jobs, Script(j) PROVE Q
    <2>1. CASE UNCHANGED <<slave, nextClient>>
      BY <2>1
    <2>2. ASSUME NEW a, slave' = [slave EXCEPT ![a].installed = TRUE], UNCHANGED nextClient PROVE Q
      BY <1>1, <2>2 DEF SlaveStates
    <2>3. ASSUME NEW a, slave' = [slave EXCEPT ![a] = Bare], UNCHANGED nextClient PROVE Q
      BY <1>1, <2>3 DEF SlaveStates, Bare
    <2> QED
      BY <1>5, <2>1, <2>2, <2>3 DEF Script, SetUp, SetupFails, TornDown, TeardownFails
  <1>6. CASE RemoveLands
    BY <1>1, <1>6 DEF RemoveLands, SlaveStates
  <1>7. CASE Crash \/ (\E j \in Jobs, q \in Requests : Submit(j, q))
             \/ \E s \in ServerIds, name \in Names : Rename(s, name)
    BY <1>2, <1>7 DEF Crash, Submit, Rename, slaves
  <1>8. CASE UNCHANGED vars
    BY <1>2, <1>8 DEF vars
  <1>9. ~RegisterLands
    BY DEF Growing
  <1> QED BY <1>3, <1>4, <1>5, <1>6, <1>7, <1>8, <1>9 DEF Next

\* What a registration adds, and to which table entries it belongs.
LEMMA RegisteredEffect ==
  ASSUME SnapshotInv, NEW j \in Jobs, Registered(j)
  PROVE  \E u \in Users(mem), s \in Servers(mem) :
           LET a == mem.server[s].site.address
               new == [id |-> nextClient, email |-> mem.user[u]] IN
           /\ <<u, s>> \in run[j].todo /\ Found(j, u) = {} /\ a \in Addresses
           /\ slave' = [slave EXCEPT ![a].records = @ \cup {new}]
           /\ Matching(slave[a].records, mem.user[u]) = {}
           /\ Moved(j, "link", {"user", "server", "reply"})
           /\ run'[j].user = u /\ run'[j].server = s /\ run'[j].reply = nextClient
           /\ nextClient' = nextClient + 1 /\ mem' = mem /\ run[j].pc = "ensure"
           /\ UNCHANGED <<disk, stray, lateRegister, lateRemove>>
           /\ mem.user = run[j].snap.user /\ SameSites(run[j].snap, mem)
  <1>1. /\ TypeInv /\ run[j] \in Frames /\ Sound(run[j]) /\ run[j].pc = "ensure"
        /\ mem \in Documents
    BY FrameOf, FramesOf DEF SnapshotInv, KnownInv, Registered, At
  <1>2. Kind(j) \in Serving /\ KnowsUsers(j) /\ KnowsSites(j)
    BY <1>1 DEF SnapshotInv, At, InLock, Places, Course, Linking
  <1>3. mem.user = run[j].snap.user /\ SameSites(run[j].snap, mem)
    BY <1>1, <1>2 DEF KnowsUsers, KnowsSites, Dropped, At
  <1>4. PICK p \in Missing(j) :
          LET a == AddressOf(j, p[2])  e == EmailOf(j, p[1]) IN
          /\ Matching(slave[a].records, e) = {}
          /\ slave' = [slave EXCEPT ![a].records = @ \cup {[id |-> nextClient, email |-> e]}]
          /\ Move(j, Answer(j, p, "link", nextClient))
    BY DEF Registered
  <1>5. /\ p \in run[j].todo /\ p = <<p[1], p[2]>> /\ Found(j, p[1]) = {}
        /\ p[1] \in Users(run[j].snap) /\ p[2] \in Servers(run[j].snap)
        /\ run[j].snap.server[p[2]].site.address \in Addresses
    <2>1. p \in run[j].todo /\ Found(j, p[1]) = {}
      BY DEF Missing
    <2> QED BY <1>1, <2>1, LookUps
  <1>6. /\ p[1] \in Users(mem) /\ p[2] \in Servers(mem)
        /\ EmailOf(j, p[1]) = mem.user[p[1]]
        /\ AddressOf(j, p[2]) = mem.server[p[2]].site.address
    BY <1>3, <1>5 DEF Users, SameSites, EmailOf, AddressOf
  <1>7. /\ Moved(j, "link", {"user", "server", "reply"})
        /\ run'[j].user = p[1] /\ run'[j].server = p[2] /\ run'[j].reply = nextClient
    BY <1>1, <1>4, AskedEffect
  <1>8. /\ nextClient' = nextClient + 1 /\ mem' = mem
        /\ UNCHANGED <<disk, stray, lateRegister, lateRemove>>
    BY DEF Registered, store
  <1> QED BY <1>1, <1>3, <1>4, <1>5, <1>6, <1>7, <1>8 DEF AddressOf

\* A record that a step adds to a Slave belongs to a user and a registered
\* server of that moment: no job registers from a snapshot that a deletion
\* has overtaken.  Only a registration that Master has given up, and that
\* lands late, may differ.
THEOREM NoStrays == Spec => NoStrayClients
  <1>1. SnapshotInv /\ [Next]_vars =>
          [lateRegister' = lateRegister =>
             \A a \in Addresses : \A r \in slave'[a].records \ slave[a].records :
               /\ \E u \in Users(mem) : mem.user[u] = r.email
               /\ \E s \in Servers(mem) : mem.server[s].site.address = a]_vars
    <2> SUFFICES ASSUME SnapshotInv, Next, lateRegister' = lateRegister,
                        NEW a \in Addresses, NEW r \in slave'[a].records \ slave[a].records
                 PROVE  /\ \E u \in Users(mem) : mem.user[u] = r.email
                        /\ \E s \in Servers(mem) : mem.server[s].site.address = a
      OBVIOUS
    <2>1. TypeInv /\ slave \in [Addresses -> SlaveStates]
      BY FramesOf DEF SnapshotInv, KnownInv
    <2>2. ~RegisterLands
      BY DEF RegisterLands
    <2>3. PICK j \in Jobs : Registered(j)
      BY <2>1, <2>2, OnlyRegistersGrow DEF Growing
    <2>4. PICK u \in Users(mem), s \in Servers(mem) :
            slave' = [slave EXCEPT ![mem.server[s].site.address].records =
                        @ \cup {[id |-> nextClient, email |-> mem.user[u]]}]
      BY <2>3, RegisteredEffect
    <2>5. mem.server[s].site.address = a /\ r.email = mem.user[u]
      BY <2>1, <2>4 DEF SlaveStates
    <2> QED BY <2>5
  <1> QED
    BY <1>1, SnapshotInit, SnapshotStep, PTL DEF Spec, NoStrayClients

-----------------------------------------------------------------------------
(***************************************************************************)
(* The second layer is inductive.  Numbers are given out once, so a link   *)
(* that was true of a Slave stays true of it whatever is registered or     *)
(* removed there.                                                          *)
(***************************************************************************)
RecordsStep ==
  /\ nextClient' \in {nextClient, nextClient + 1}
  /\ \A a \in Addresses :
       /\ \A r \in slave'[a].records \ slave[a].records :
            r.id = nextClient /\ nextClient' = nextClient + 1
       /\ \A r, q \in slave'[a].records \ slave[a].records : r = q

LEMMA RecordsChange ==
  ASSUME TypeInv, [Next]_vars
  PROVE  RecordsStep
  <1>1. slave \in [Addresses -> SlaveStates] /\ nextClient \in Nat \ {0}
    BY FramesOf
  <1>2. ASSUME NEW a, NEW e, nextClient' = nextClient + 1,
               slave' = [slave EXCEPT ![a].records = @ \cup {[id |-> nextClient, email |-> e]}]
        PROVE  RecordsStep
    BY <1>1, <1>2 DEF RecordsStep, SlaveStates
  <1>3. CASE \E j \in Jobs : Registered(j)
    BY <1>2, <1>3 DEF Registered
  <1>4. CASE RegisterLands
    BY <1>1, <1>2, <1>4 DEF RegisterLands, RecordsStep
  <1>5. CASE ~Growing
    BY <1>5, OnlyRegistersGrow DEF RecordsStep
  <1> QED BY <1>3, <1>4, <1>5 DEF Growing

LEMMA NumbersStep ==
  ASSUME TypeInv, NumbersUnique, [Next]_vars
  PROVE  NumbersUnique'
  <1>1. nextClient \in Nat /\ slave \in [Addresses -> SlaveStates]
    BY FramesOf
  <1>2. \A a \in Addresses : \A r \in slave[a].records : r.id \in Nat
    BY <1>1 DEF SlaveStates, Records, Clients
  <1> QED BY <1>1, <1>2, RecordsChange DEF RecordsStep, NumbersUnique

LEMMA LinksStayTrue ==
  ASSUME TypeInv, [Next]_vars, NEW d \in Documents, LinksTrue(d, slave, nextClient)
  PROVE  LinksTrue(d, slave', nextClient')
  <1>1. nextClient \in Nat
    BY FramesOf
  <1>2. ASSUME NEW u \in UserIds, NEW s \in Servers(d), d.link[u][s].status = "ready"
        PROVE  /\ d.link[u][s].client < nextClient'
               /\ \A r \in slave'[d.server[s].site.address].records :
                    r.id = d.link[u][s].client => SameProfile(r.email, d.user[u])
    <2>1. d.link[u][s].client \in Nat /\ d.server[s].site.address \in Addresses
      BY DEF Documents, Links, Clients, Servers, ServerEntries, Sites
    <2>2. d.link[u][s].client < nextClient
      BY <1>2 DEF LinksTrue
    <2> QED BY <1>1, <1>2, <2>1, <2>2, RecordsChange DEF RecordsStep, LinksTrue
  <1> QED BY <1>2 DEF LinksTrue

\* What the edits of a document do to its links.
LEMMA UserEditsTrue ==
  ASSUME NEW d \in Documents, NEW on, NEW next, LinksTrue(d, on, next),
         NEW u \in UserIds
  PROVE  /\ \A e \in Emails : LinksTrue(AddUser(d, u, e), on, next)
         /\ LinksTrue(RemoveUser(d, u), on, next)
  <1>1. ASSUME NEW e \in Emails PROVE LinksTrue(AddUser(d, u, e), on, next)
    <2> DEFINE n == AddUser(d, u, e)
    <2>1. Servers(n) = Servers(d) /\ n.server = d.server
      BY AddUserTables, SameServers
    <2>2. /\ \A s \in ServerIds : n.link[u][s] = NoLink
          /\ \A v \in UserIds \ {u} : n.link[v] = d.link[v] /\ n.user[v] = d.user[v]
      <3>1. DOMAIN d.link = UserIds /\ DOMAIN d.user = UserIds
        BY DEF Documents
      <3>2. /\ n.user = [d.user EXCEPT ![u] = e]
            /\ n.link = [d.link EXCEPT ![u] = [s \in ServerIds |-> NoLink]]
        BY DEF AddUser, Documents
      <3> HIDE DEF n
      <3> QED BY <3>1, <3>2
    <2> HIDE DEF n
    <2>3. LinksTrue(n, on, next)
      BY <2>1, <2>2 DEF LinksTrue, NoLink, Servers
    <2> QED BY <2>3 DEF n
  <1>2. LinksTrue(RemoveUser(d, u), on, next)
    <2> DEFINE n == RemoveUser(d, u)
    <2>1. Servers(n) = Servers(d) /\ n.server = d.server
      BY UserTables, SameServers
    <2>2. /\ \A s \in ServerIds : n.link[u][s] = NoLink
          /\ \A v \in UserIds \ {u} : n.link[v] = d.link[v] /\ n.user[v] = d.user[v]
      BY DEF RemoveUser, Documents
    <2> HIDE DEF n
    <2>3. LinksTrue(n, on, next)
      BY <2>1, <2>2 DEF LinksTrue, NoLink, Servers
    <2> QED BY <2>3 DEF n
  <1> QED BY <1>1, <1>2

LEMMA ServerEditsTrue ==
  ASSUME NEW d \in Documents, LinksResolve(d), NEW on, NEW next, LinksTrue(d, on, next)
  PROVE  /\ \A s \in ServerIds \ Servers(d), site \in Sites, name \in Names :
              LinksTrue(AddServer(d, s, site, name), on, next)
         /\ \A s \in Servers(d) : LinksTrue(ForgetServer(d, s), on, next)
  <1>1. ASSUME NEW s \in ServerIds \ Servers(d), NEW site \in Sites, NEW name \in Names
        PROVE  LinksTrue(AddServer(d, s, site, name), on, next)
    <2> DEFINE n == AddServer(d, s, site, name)
    <2>1. /\ Servers(n) = Servers(d) \cup {s} /\ n.link = d.link /\ n.user = d.user
          /\ \A t \in Servers(d) : n.server[t] = d.server[t]
      <3>1. Servers(n) = Servers(d) \cup {s}
        BY AddServerTables
      <3>2. /\ n.link = d.link /\ n.user = d.user
            /\ \A t \in ServerIds \ {s} : n.server[t] = d.server[t]
        BY DEF AddServer, Documents
      <3> QED BY <3>1, <3>2 DEF Servers
    <2>2. \A u \in UserIds : d.link[u][s] = NoLink
      BY DEF LinksResolve
    <2> HIDE DEF n
    <2>3. LinksTrue(n, on, next)
      BY <2>1, <2>2 DEF LinksTrue, NoLink
    <2> QED BY <2>3 DEF n
  <1>2. ASSUME NEW s \in Servers(d)
        PROVE  LinksTrue(ForgetServer(d, s), on, next)
    <2> DEFINE n == ForgetServer(d, s)
    <2>1. s \in ServerIds /\ Servers(n) = Servers(d) \ {s}
      BY ServerTables DEF Servers
    <2>2. /\ n.user = d.user
          /\ \A t \in Servers(n) : n.server[t] = d.server[t]
          /\ \A u \in UserIds, t \in Servers(n) : n.link[u][t] = d.link[u][t]
      BY <2>1 DEF ForgetServer, Documents, Servers
    <2> HIDE DEF n
    <2>3. LinksTrue(n, on, next)
      BY <2>1, <2>2 DEF LinksTrue
    <2> QED BY <2>3 DEF n
  <1> QED BY <1>1, <1>2

LEMMA EntryEditsTrue ==
  ASSUME NEW d \in Documents, NEW on, NEW next, LinksTrue(d, on, next), NEW s \in Servers(d)
  PROVE  /\ \A status \in Statuses : LinksTrue(SetStatus(d, s, status), on, next)
         /\ \A name \in Names : LinksTrue(SetName(d, s, name), on, next)
  <1>1. ASSUME NEW n, Servers(n) = Servers(d), n.user = d.user, n.link = d.link,
               \A t \in Servers(d) : n.server[t].site = d.server[t].site
        PROVE  LinksTrue(n, on, next)
    BY <1>1 DEF LinksTrue
  <1>2. ASSUME NEW status \in Statuses PROVE LinksTrue(SetStatus(d, s, status), on, next)
    <2>1. /\ SetStatus(d, s, status).user = d.user /\ SetStatus(d, s, status).link = d.link
          /\ \A t \in Servers(d) : SetStatus(d, s, status).server[t].site = d.server[t].site
      BY DEF SetStatus, Documents, Servers, ServerEntries
    <2> QED BY <1>1, <2>1, StatusTables
  <1>3. ASSUME NEW name \in Names PROVE LinksTrue(SetName(d, s, name), on, next)
    <2>1. /\ SetName(d, s, name).user = d.user /\ SetName(d, s, name).link = d.link
          /\ \A t \in Servers(d) : SetName(d, s, name).server[t].site = d.server[t].site
      BY DEF SetName, Documents, Servers, ServerEntries
    <2> QED BY <1>1, <2>1, NameTables
  <1> QED BY <1>2, <1>3

LEMMA LinkEditTrue ==
  ASSUME NEW d \in Documents, NEW on, NEW next, LinksTrue(d, on, next),
         NEW u \in UserIds, NEW s \in Servers(d), NEW link,
         link.status = "ready" =>
           /\ link.client < next
           /\ \A r \in on[d.server[s].site.address].records :
                r.id = link.client => SameProfile(r.email, d.user[u])
  PROVE  LinksTrue(SetLink(d, u, s, link), on, next)
  <1> DEFINE n == SetLink(d, u, s, link)
  <1>1. Servers(n) = Servers(d) /\ n.user = d.user /\ n.server = d.server
    <2>1. n.user = d.user /\ n.server = d.server
      BY DEF SetLink, Documents
    <2> QED BY <2>1 DEF Servers
  <1>2. \A v \in UserIds, t \in ServerIds :
          n.link[v][t] = IF v = u /\ t = s THEN link ELSE d.link[v][t]
    BY DEF SetLink, Documents
  <1> HIDE DEF n
  <1>3. LinksTrue(n, on, next)
    BY <1>1, <1>2 DEF LinksTrue, Servers
  <1> QED BY <1>3 DEF n

\* What a job that is not at its end knows is still so.
LEMMA Knowledge ==
  ASSUME SnapshotInv, NEW j \in Jobs, run[j].pc \in InLock \ {"unlock"}
  PROVE  /\ TypeInv /\ run[j] \in Frames /\ Sound(run[j]) /\ mem \in Documents
         /\ Course(j) /\ Consistent(mem)
         /\ Servers(run[j].snap) = Servers(mem)
         /\ \A s \in Servers(mem) :
              AddressOf(j, s) = mem.server[s].site.address /\ AddressOf(j, s) \in Addresses
         /\ Kind(j) # "delete" =>
              mem.user = run[j].snap.user /\ Users(mem) = Users(run[j].snap)
  <1>1. /\ TypeInv /\ run[j] \in Frames /\ Sound(run[j]) /\ mem \in Documents
        /\ Course(j) /\ Consistent(mem) /\ KnowsUsers(j) /\ KnowsSites(j)
    BY FrameOf, FramesOf DEF SnapshotInv, KnownInv, DocumentsConsistent, At
  <1>2. SameSites(run[j].snap, mem)
    BY <1>1 DEF KnowsSites, At
  <1>3. \A s \in Servers(mem) : mem.server[s].site.address \in Addresses
    BY <1>1 DEF Documents, Servers, ServerEntries, Sites
  <1>4. Kind(j) # "delete" => mem.user = run[j].snap.user
    BY <1>1 DEF KnowsUsers, Dropped
  <1> QED BY <1>1, <1>2, <1>3, <1>4 DEF SameSites, AddressOf, Users

LEMMA LinkAims ==
  ASSUME LinkInv, NEW j \in Jobs, SetUserLink(j)
  PROVE  LET u == run[j].user  s == run[j].server  c == run[j].reply
             link == IF c # 0 THEN ReadyLink(c) ELSE ErrorLink IN
         /\ run[j].pc = "link" /\ Kind(j) \in Serving
         /\ u \in Users(mem) /\ s \in Servers(mem) /\ <<u, s>> \in run[j].todo
         /\ Target(j) = mem.server[s].site.address /\ Target(j) \in Addresses
         /\ mem.user = run[j].snap.user /\ link \in Links
         /\ c # 0 =>
              /\ c < nextClient
              /\ \A r \in slave[Target(j)].records \cup run[j].seen :
                   r.id = c => SameProfile(r.email, mem.user[u])
         /\ Moved(j, "ensure", {"todo", "reply", "warned", "verdict"})
         /\ run'[j].todo = run[j].todo \ {<<u, s>>}
         /\ \E done \in BOOLEAN : /\ Save(SetLink(mem, u, s, link), done)
                                  /\ run'[j].warned = IF c # 0 /\ done THEN run[j].warned ELSE TRUE
  <1>1. SnapshotInv /\ run[j].pc = "link" /\ ReplyTrue(j)
    BY DEF LinkInv, SetUserLink, At, InLock, Places
  <1>2. run[j].pc \in InLock \ {"unlock"}
    BY <1>1 DEF InLock, Places
  <1>3. /\ TypeInv /\ run[j] \in Frames /\ Sound(run[j]) /\ Course(j)
        /\ Servers(run[j].snap) = Servers(mem)
        /\ \A s \in Servers(mem) :
             AddressOf(j, s) = mem.server[s].site.address /\ AddressOf(j, s) \in Addresses
        /\ Kind(j) # "delete" =>
             mem.user = run[j].snap.user /\ Users(mem) = Users(run[j].snap)
    BY <1>1, <1>2, Knowledge
  <1>4. /\ Kind(j) \in Serving /\ <<run[j].user, run[j].server>> \in run[j].todo
        /\ run[j].user \in Users(run[j].snap) /\ run[j].server \in Servers(run[j].snap)
    BY <1>1, <1>3 DEF Course, Sound, At, Linking
  <1>5. /\ mem.user = run[j].snap.user
        /\ run[j].user \in Users(mem) /\ run[j].server \in Servers(mem)
    BY <1>3, <1>4 DEF Serving
  <1>6. run[j].reply \in Nat /\ ReadyLink(run[j].reply) \in Links /\ ErrorLink \in Links
    BY <1>3 DEF Frames, Clients, Links, ReadyLink, ErrorLink
  <1>7. run[j].reply # 0 =>
          /\ run[j].reply < nextClient
          /\ \A r \in slave[Target(j)].records \cup run[j].seen :
               r.id = run[j].reply => SameProfile(r.email, mem.user[run[j].user])
    BY <1>1, <1>5 DEF ReplyTrue, At, EmailOf
  <1>8. /\ Moved(j, "ensure", {"todo", "reply", "warned", "verdict"})
        /\ run'[j].todo = run[j].todo \ {<<run[j].user, run[j].server>>}
        /\ \E done \in BOOLEAN :
             /\ Update(run[j].user \in Users(mem),
                       SetLink(mem, run[j].user, run[j].server,
                               IF run[j].reply # 0 THEN ReadyLink(run[j].reply) ELSE ErrorLink),
                       done)
             /\ run'[j].warned = IF run[j].reply # 0 /\ done THEN run[j].warned ELSE TRUE
    BY <1>3, LinkEffect
  <1>9. \A new, done : Update(run[j].user \in Users(mem), new, done) => Save(new, done)
    BY <1>5 DEF Update
  <1>10. Target(j) = mem.server[run[j].server].site.address /\ Target(j) \in Addresses
    BY <1>3, <1>5 DEF Target
  <1> QED BY <1>1, <1>4, <1>5, <1>6, <1>7, <1>8, <1>9, <1>10

LEMMA SyncAims ==
  ASSUME LinkInv, NEW j \in Jobs, SyncUser(j)
  PROVE  LET s == run[j].server IN
         /\ run[j].pc = "ensure" /\ Kind(j) = "sync"
         /\ s \in Servers(mem) /\ Target(j) = mem.server[s].site.address /\ Target(j) \in Addresses
         /\ mem.user = run[j].snap.user /\ Moved(j, "duplicates", {"todo", "victims"})
         /\ \E u \in Users(mem), done \in BOOLEAN : \E c \in ClientIds(Found(j, u)) :
              /\ <<u, s>> \in run[j].todo /\ Keeps(j, u, s, c) /\ ReadyLink(c) \in Links
              /\ c < nextClient
              /\ \A r \in slave[Target(j)].records \cup run[j].seen :
                   r.id = c => SameProfile(r.email, mem.user[u])
              /\ Save(SetLink(mem, u, s, ReadyLink(c)), done)
              /\ run'[j].todo = run[j].todo \ {<<u, s>>}
              /\ run'[j].victims = ClientIds(Found(j, u)) \ {c}
  <1>1. SnapshotInv /\ run[j].pc = "ensure" /\ SeenTrue(j)
    BY DEF LinkInv, SyncUser, At, InLock, Places
  <1>2. run[j].pc \in InLock \ {"unlock"}
    BY <1>1 DEF InLock, Places
  <1>3. /\ TypeInv /\ run[j] \in Frames /\ Sound(run[j]) /\ Course(j)
        /\ Servers(run[j].snap) = Servers(mem)
        /\ \A s \in Servers(mem) :
             AddressOf(j, s) = mem.server[s].site.address /\ AddressOf(j, s) \in Addresses
        /\ Kind(j) # "delete" =>
             mem.user = run[j].snap.user /\ Users(mem) = Users(run[j].snap)
    BY <1>1, <1>2, Knowledge
  <1>4. /\ Moved(j, "duplicates", {"todo", "victims"})
        /\ \E p \in run[j].todo, done \in BOOLEAN : \E c \in ClientIds(Found(j, p[1])) :
              /\ Keeps(j, p[1], p[2], c)
              /\ Update(p[1] \in Users(mem), SetLink(mem, p[1], p[2], ReadyLink(c)), done)
              /\ run'[j].todo = run[j].todo \ {p}
              /\ run'[j].victims = ClientIds(Found(j, p[1])) \ {c}
    BY <1>3, SyncUserEffect
  <1>5. PICK p \in run[j].todo : \E done \in BOOLEAN : \E c \in ClientIds(Found(j, p[1])) :
              /\ Keeps(j, p[1], p[2], c)
              /\ Update(p[1] \in Users(mem), SetLink(mem, p[1], p[2], ReadyLink(c)), done)
              /\ run'[j].todo = run[j].todo \ {p}
              /\ run'[j].victims = ClientIds(Found(j, p[1])) \ {c}
    BY <1>4
  <1>6. PICK done \in BOOLEAN : \E c \in ClientIds(Found(j, p[1])) :
              /\ Keeps(j, p[1], p[2], c)
              /\ Update(p[1] \in Users(mem), SetLink(mem, p[1], p[2], ReadyLink(c)), done)
              /\ run'[j].todo = run[j].todo \ {p}
              /\ run'[j].victims = ClientIds(Found(j, p[1])) \ {c}
    BY <1>5
  <1>7. PICK c \in ClientIds(Found(j, p[1])) :
              /\ Keeps(j, p[1], p[2], c)
              /\ Update(p[1] \in Users(mem), SetLink(mem, p[1], p[2], ReadyLink(c)), done)
              /\ run'[j].todo = run[j].todo \ {p}
              /\ run'[j].victims = ClientIds(Found(j, p[1])) \ {c}
    BY <1>6
  <1>8. PICK r \in run[j].seen : r.id = c /\ SameProfile(r.email, run[j].snap.user[p[1]])
    BY <1>7 DEF ClientIds, Found, Matching, EmailOf
  <1>9. Kind(j) = "sync"
    BY <1>3, <1>8 DEF Sound, Kind
  <1>10. /\ p[1] \in Users(run[j].snap) /\ p[2] \in Servers(run[j].snap)
         /\ p[2] = run[j].server /\ p = <<p[1], p[2]>>
    <2>1. run[j].todo \subseteq UserIds \X {run[j].server}
      BY <1>3, <1>9 DEF Course
    <2> QED BY <1>3, <2>1, LookUps
  <1>11. /\ mem.user = run[j].snap.user
         /\ p[1] \in Users(mem) /\ run[j].server \in Servers(mem)
    BY <1>3, <1>9, <1>10
  <1>12. Target(j) = mem.server[run[j].server].site.address /\ Target(j) \in Addresses
    BY <1>3, <1>11 DEF Target
  <1>13. /\ c < nextClient
         /\ \A q \in slave[Target(j)].records \cup run[j].seen :
              q.id = c => SameProfile(q.email, mem.user[p[1]])
    <2>1. InSync(j)
      BY <1>1, <1>9 DEF InSync, At, Syncing, Linking
    <2> QED BY <1>1, <1>8, <1>11, <2>1 DEF SeenTrue
  <1>14. ReadyLink(c) \in Links
    BY <1>3, <1>8 DEF Frames, Records, Links, ReadyLink
  <1>15. Save(SetLink(mem, p[1], p[2], ReadyLink(c)), done)
    BY <1>7, <1>11 DEF Update
  <1>16. /\ <<p[1], run[j].server>> \in run[j].todo /\ Keeps(j, p[1], run[j].server, c)
         /\ Save(SetLink(mem, p[1], run[j].server, ReadyLink(c)), done)
         /\ run'[j].todo = run[j].todo \ {<<p[1], run[j].server>>}
    BY <1>7, <1>10, <1>15
  <1> DEFINE Kept(u, d, k) ==
               /\ <<u, run[j].server>> \in run[j].todo /\ Keeps(j, u, run[j].server, k) /\ ReadyLink(k) \in Links
               /\ k < nextClient
               /\ \A q \in slave[Target(j)].records \cup run[j].seen :
                    q.id = k => SameProfile(q.email, mem.user[u])
               /\ Save(SetLink(mem, u, run[j].server, ReadyLink(k)), d)
               /\ run'[j].todo = run[j].todo \ {<<u, run[j].server>>}
               /\ run'[j].victims = ClientIds(Found(j, u)) \ {k}
  <1>17. Kept(p[1], done, c)
    BY <1>7, <1>13, <1>14, <1>16
  <1>18. \E u \in Users(mem), d \in BOOLEAN : \E k \in ClientIds(Found(j, u)) : Kept(u, d, k)
    <2> HIDE DEF Kept
    <2> QED BY <1>7, <1>11, <1>17
  <1>19. /\ run[j].pc = "ensure" /\ Kind(j) = "sync"
         /\ run[j].server \in Servers(mem)
         /\ Target(j) = mem.server[run[j].server].site.address /\ Target(j) \in Addresses
         /\ mem.user = run[j].snap.user /\ Moved(j, "duplicates", {"todo", "victims"})
    BY <1>1, <1>4, <1>9, <1>11, <1>12
  <1> QED BY <1>18, <1>19, Zenon

LEMMA LinksStep ==
  ASSUME LinkInv, [Next]_vars
  PROVE  LinksTrue(mem', slave', nextClient') /\ LinksTrue(disk', slave', nextClient')
  <1> DEFINE True(d) == LinksTrue(d, slave, nextClient)
             Q == True(mem') /\ True(disk')
  <1>1. /\ KnownInv /\ TypeInv /\ mem \in Documents /\ disk \in Documents
        /\ LinksResolve(mem) /\ True(mem) /\ True(disk)
    BY FramesOf DEF LinkInv, SnapshotInv, KnownInv, DocumentsConsistent, Consistent
  <1>2. mem' \in Documents /\ disk' \in Documents
    BY <1>1, TypeStep DEF TypeInv, TypeOK
  <1>3. SUFFICES Q
    BY <1>1, <1>2, LinksStayTrue
  <1>4. ASSUME NEW new, NEW done, Save(new, done), True(new) PROVE Q
    BY <1>1, <1>4 DEF Save, store
  <1>5. CASE Untouched \/ Reloaded
    BY <1>1, <1>5 DEF Untouched, Reloaded, store
  <1>6. ASSUME NEW j \in Jobs, SetUserLink(j) PROVE Q
    <2> DEFINE u == run[j].user  s == run[j].server  c == run[j].reply
               link == IF c # 0 THEN ReadyLink(c) ELSE ErrorLink
    <2>1. PICK done \in BOOLEAN : Save(SetLink(mem, u, s, link), done)
      BY <1>6, LinkAims
    <2>2. /\ u \in Users(mem) /\ s \in Servers(mem)
          /\ c # 0 =>
               /\ c < nextClient
               /\ \A r \in slave[mem.server[s].site.address].records :
                    r.id = c => SameProfile(r.email, mem.user[u])
      BY <1>6, LinkAims
    <2>3. True(SetLink(mem, u, s, link))
      BY <1>1, <2>2, LinkEditTrue DEF ReadyLink, ErrorLink, Users
    <2> HIDE DEF Q, True
    <2> QED BY <1>4, <2>1, <2>3
  <1>7. ASSUME NEW j \in Jobs, SyncUser(j) PROVE Q
    <2> DEFINE s == run[j].server
    <2>1. PICK u \in Users(mem), done \in BOOLEAN : \E c \in ClientIds(Found(j, u)) :
            /\ c < nextClient
            /\ \A r \in slave[Target(j)].records \cup run[j].seen :
                 r.id = c => SameProfile(r.email, mem.user[u])
            /\ Save(SetLink(mem, u, s, ReadyLink(c)), done)
      BY <1>7, SyncAims
    <2>2. PICK c :
            /\ c < nextClient
            /\ \A r \in slave[Target(j)].records \cup run[j].seen :
                 r.id = c => SameProfile(r.email, mem.user[u])
            /\ Save(SetLink(mem, u, s, ReadyLink(c)), done)
      BY <2>1
    <2>3. s \in Servers(mem) /\ Target(j) = mem.server[s].site.address /\ u \in UserIds
      BY <1>7, SyncAims DEF Users
    <2>4. True(SetLink(mem, u, s, ReadyLink(c)))
      BY <1>1, <2>2, <2>3, LinkEditTrue DEF ReadyLink
    <2> HIDE DEF Q, True
    <2> QED BY <1>4, <2>2, <2>4
  <1>8. ASSUME NEW new, NEW done, Save(new, done), Edit(new, done) PROVE Q
    <2> HIDE DEF Q
    <2>1. CASE UserAdded(new)
      BY <1>1, <1>4, <1>8, <2>1, UserEditsTrue DEF UserAdded, Fresh
    <2>2. CASE UserRemoved(new, done)
      BY <1>1, <1>4, <1>8, <2>2, UserEditsTrue DEF UserRemoved, Users
    <2>3. CASE ServerAdded(new, done)
      BY <1>1, <1>4, <1>8, <2>3, ServerEditsTrue DEF ServerAdded, Fresh
    <2>4. CASE ServerForgotten(new, done)
      BY <1>1, <1>4, <1>8, <2>4, ServerEditsTrue DEF ServerForgotten
    <2>5. CASE StatusSet(new)
      BY <1>1, <1>4, <1>8, <2>5, EntryEditsTrue DEF StatusSet
    <2>6. CASE Renamed(new, done)
      BY <1>1, <1>4, <1>8, <2>6, EntryEditsTrue DEF Renamed
    <2>7. CASE LinkSet(new)
      BY <1>6, <1>7, <2>7 DEF LinkSet
    <2> QED BY <1>8, <2>1, <2>2, <2>3, <2>4, <2>5, <2>6, <2>7 DEF Edit
  <1> QED BY <1>1, <1>5, <1>8, StepEdits DEF Edited

LEMMA OpStays ==
  ASSUME TypeInv, NEW j \in Jobs, Goes(j), ~Unlock(j), Course(j)
  PROVE  run'[j].op = run[j].op
  <1>1. Fails(j) => run'[j].op = run[j].op
    BY MovedFields DEF Fails
  <1>2. \A place, changed : Moved(j, place, changed) /\ "op" \notin changed => run'[j].op = run[j].op
    BY MovedFields
  <1>3. CASE StoreUser(j)
    <2>1. Fails(j) \/ Moved(j, "ensure", {"snap", "user", "todo"})
      BY <1>3, StoreUserEffect
    <2> QED BY <1>1, <1>2, <2>1
  <1>4. CASE StoreServer(j)
    <2>1. Fails(j) \/ Moved(j, "ensure", {"snap", "server", "todo"})
      BY <1>4, StoreServerEffect
    <2> QED BY <1>1, <1>2, <2>1
  <1>5. CASE DropUser(j)
    <2>1. Fails(j) \/ Moved(j, "sites", {"sites"})
      BY <1>5, DropUserEffect
    <2> QED BY <1>1, <1>2, <2>1
  <1>6. CASE DropServer(j)
    <2>1. Fails(j) \/ Moved(j, "unlock", {})
      BY <1>6, DropServerEffect
    <2> QED BY <1>1, <1>2, <2>1
  <1> QED BY <1>3, <1>4, <1>5, <1>6, SnapshotStays DEF TableUpdate

\* How a job comes to a place.
LEMMA Arrivals ==
  ASSUME TypeInv, NEW j \in Jobs, Course(j), Goes(j), ~Unlock(j)
  PROVE  /\ run'[j].pc = "link" => Registered(j) \/ RegisterFails(j) \/ Adopt(j)
         /\ run'[j].pc = "adopt" => Conflict(j)
         /\ run'[j].pc = "duplicates" => SyncUser(j) \/ Removed(j) \/ RemoveFails(j)
         /\ run'[j].pc = "extras" => EnsureDone(j) \/ Removed(j) \/ RemoveFails(j)
         /\ run'[j].pc = "purge" => Listed(j) \/ Removed(j) \/ RemoveFails(j)
         /\ run'[j].pc = "ensure" =>
              StoreUser(j) \/ StoreServer(j) \/ Listed(j) \/ SetUserLink(j) \/ RemoveDone(j)
         /\ run'[j].pc = "sites" =>
              DropUser(j) \/ ListFails(j) \/ RemoveDone(j) \/ SetServerStatus(j)
         /\ run'[j].pc = "status" =>
              EnsureDone(j) \/ ListFails(j) \/ RemoveDone(j) \/ TeardownFails(j)
  <1>1. run[j] \in Frames /\ Sound(run[j]) /\ run \in [Jobs -> Frames]
    BY FrameOf, FramesOf
  <1>2. CASE Fails(j) \/ (\E changed : Moved(j, "unlock", changed))
    BY <1>2 DEF Fails, Moved
  <1>3. CASE Registered(j) \/ RegisterFails(j)
    <2>1. PICK p, c : Move(j, Answer(j, p, "link", c))
      BY <1>3 DEF Registered, RegisterFails
    <2> QED BY <1>3, <2>1, AskedEffect DEF Moved
  <1>4. CASE Conflict(j)
    <2>1. PICK p : Move(j, Answer(j, p, "adopt", 0))
      BY <1>4 DEF Conflict
    <2> QED BY <1>4, <2>1, AskedEffect DEF Moved
  <1>5. CASE Adopt(j)
    BY <1>5, AdoptEffect DEF Moved
  <1>6. CASE SetUserLink(j)
    BY <1>6, LinkEffect DEF Moved
  <1>7. CASE EnsureDone(j)
    BY <1>7, EnsureDoneEffect DEF Moved
  <1>8. CASE SyncUser(j)
    BY <1>8, SyncUserEffect DEF Moved
  <1>9. CASE Listed(j)
    BY <1>9, ListedEffect DEF Moved
  <1>10. CASE ListFails(j)
    BY <1>10, ListFailsEffect DEF Moved
  <1>11. CASE Removed(j) \/ RemoveFails(j)
    <2>1. Only(j, {"victims", "warned", "verdict"}) /\ run[j].pc \in Removing
      BY <1>11, RemovingEffect DEF Only, Removed, RemoveFails, At
    <2>2. run'[j].pc = run[j].pc
      BY <2>1, FieldsKept
    <2> QED BY <1>11, <2>1, <2>2 DEF Removing
  <1>12. CASE RemoveDone(j)
    <2>1. /\ At(j, Removing)
          /\ run'[j].pc = CASE At(j, {"duplicates"}) -> "ensure"
                            [] At(j, {"extras"}) -> "status"
                            [] At(j, {"purge"}) -> "sites"
      BY <1>12, RemovingEffect DEF RemoveDone, Moved
    <2>2. run'[j].pc \in {"ensure", "status", "sites"}
      BY <2>1 DEF At, Removing
    <2> QED BY <1>12, <2>2
  <1>13. CASE SetServerStatus(j)
    BY <1>13, AnyEffect DEF Moved
  <1>14. CASE StoreUser(j)
    BY <1>2, <1>14, StoreUserEffect DEF Moved
  <1>15. CASE StoreServer(j)
    BY <1>2, <1>15, StoreServerEffect DEF Moved
  <1>16. CASE DropUser(j)
    BY <1>2, <1>16, DropUserEffect DEF Moved
  <1>17. CASE DropServer(j)
    BY <1>2, <1>17, DropServerEffect
  <1>18. CASE Script(j)
    BY <1>2, <1>18, ScriptEffect DEF Script, Moved
  <1> QED
    BY <1>2, <1>3, <1>4, <1>5, <1>6, <1>7, <1>8, <1>9, <1>10, <1>11, <1>12, <1>13, <1>14,
       <1>15, <1>16, <1>17, <1>18, AnyEffect DEF Goes, Work

\* A full sync: what its steps leave alone.
LEMMA SyncSteps ==
  ASSUME TypeInv, NEW j \in Jobs, Course(j), Goes(j), ~Unlock(j), Kind(j) = "sync"
  PROVE  /\ ~TableUpdate(j) /\ ~Script(j) /\ ~NoId(j)
         /\ run'[j].op = run[j].op /\ run'[j].snap = run[j].snap
         /\ run'[j].sites \subseteq run[j].sites
         /\ Listed(j) \/ ListFails(j) \/ run'[j].sites = run[j].sites
         /\ Listed(j) \/ run'[j].todo \subseteq run[j].todo
         /\ run[j].warned => run'[j].warned
         /\ run'[j].pc \in Syncing /\ ~Listed(j) =>
              /\ run[j].pc \in Syncing /\ run'[j].server = run[j].server
              /\ run'[j].seen = run[j].seen /\ run'[j].sites = run[j].sites
  <1> DEFINE Calm == /\ run'[j].sites = run[j].sites /\ run'[j].todo \subseteq run[j].todo
                     /\ run[j].pc \in Syncing /\ run'[j].server = run[j].server
                     /\ run'[j].seen = run[j].seen
             Q == /\ run'[j].sites \subseteq run[j].sites
                  /\ Listed(j) \/ ListFails(j) \/ run'[j].sites = run[j].sites
                  /\ Listed(j) \/ run'[j].todo \subseteq run[j].todo
                  /\ run[j].warned => run'[j].warned
                  /\ run'[j].pc \in Syncing /\ ~Listed(j) => Calm
  <1>1. /\ ~TableUpdate(j) /\ ~Script(j) /\ ~NoId(j)
        /\ run[j] \in Frames /\ Sound(run[j]) /\ run[j].todo \subseteq UserIds \X ServerIds
    <2>1. run[j] \in Frames /\ Sound(run[j])
      BY FrameOf
    <2> QED
      BY <2>1 DEF TableUpdate, StoreUser, DropUser, StoreServer, DropServer, Script, SetUp,
         SetupFails, TornDown, TeardownFails, NoId, Sound, Course, At, Kind, Frames
  <1>2. run'[j].op = run[j].op /\ run'[j].snap = run[j].snap
    BY <1>1, SnapshotStays
  <1>3. SUFFICES Q
    BY <1>1, <1>2
  <1> USE DEF Syncing, Linking
  <1>4. CASE Registered(j) \/ Conflict(j) \/ RegisterFails(j)
    <2>1. PICK p \in Missing(j), place \in {"link", "adopt"}, c \in {0, nextClient} :
            Move(j, Answer(j, p, place, c))
      BY <1>4 DEF Registered, Conflict, RegisterFails
    <2>2. run[j].pc = "ensure" /\ p \in run[j].todo
      BY <1>4 DEF Missing, Registered, Conflict, RegisterFails, At
    <2>3. Moved(j, place, {"user", "server", "reply"}) /\ run'[j].server = p[2]
      BY <2>1, AskedEffect
    <2>4. p[2] = run[j].server
      BY <2>2 DEF Course
    <2> QED BY <2>2, <2>3, <2>4, MovedFields
  <1>5. CASE Adopt(j)
    <2>1. run[j].pc = "adopt" /\ Moved(j, "link", {"reply"})
      BY <1>5, AdoptEffect DEF Adopt, At
    <2> QED BY <2>1, MovedFields
  <1>6. CASE SetUserLink(j)
    <2>1. /\ run[j].pc = "link" /\ Moved(j, "ensure", {"todo", "reply", "warned", "verdict"})
          /\ run'[j].todo \subseteq run[j].todo
          /\ run[j].warned => run'[j].warned
      BY <1>6, LinkEffect DEF SetUserLink, At
    <2>2. /\ run'[j].sites = run[j].sites /\ run'[j].server = run[j].server
          /\ run'[j].seen = run[j].seen
      BY <2>1, MovedFields
    <2> QED BY <2>1, <2>2
  <1>7. CASE EnsureDone(j)
    <2>1. run[j].pc = "ensure" /\ Moved(j, "extras", {"victims"})
      BY <1>7, EnsureDoneEffect
    <2> QED BY <2>1, MovedFields
  <1>8. CASE SyncUser(j)
    <2>1. /\ run[j].pc = "ensure" /\ Moved(j, "duplicates", {"todo", "victims"})
          /\ run'[j].todo \subseteq run[j].todo
      BY <1>8, SyncUserEffect
    <2> QED BY <2>1, MovedFields
  <1>9. CASE Listed(j)
    <2>1. /\ run'[j].sites \subseteq run[j].sites
          /\ Moved(j, "ensure", {"sites", "server", "seen", "verdict", "todo"})
      BY <1>9, ListedEffect
    <2>2. run'[j].warned = run[j].warned
      BY <2>1, MovedFields
    <2> QED BY <1>9, <2>1, <2>2
  <1>10. CASE ListFails(j)
    <2>1. /\ run'[j].sites \subseteq run[j].sites /\ run'[j].warned = TRUE
          /\ Moved(j, "status", {"sites", "warned", "server", "verdict"})
      BY <1>10, ListFailsEffect
    <2>2. run'[j].todo = run[j].todo /\ run'[j].pc = "status"
      BY <2>1, MovedFields
    <2> QED BY <1>10, <2>1, <2>2
  <1>11. CASE SitesDone(j)
    <2>1. Moved(j, "unlock", {})
      BY <1>11, AnyEffect
    <2> QED BY <2>1, MovedFields
  <1>12. CASE Removed(j) \/ RemoveFails(j)
    <2>1. Only(j, {"victims", "warned", "verdict"})
      BY <1>12, RemovingEffect DEF Only
    <2>2. run[j].warned => run'[j].warned
      <3>1. Only(j, {"victims"}) \/ run'[j].warned = TRUE
        BY <1>12, RemovingEffect
      <3> QED BY <3>1, FieldsKept
    <2> QED BY <2>1, <2>2, FieldsKept
  <1>13. CASE RemoveDone(j)
    <2>1. /\ At(j, Removing) /\ Kind(j) # "delete"
          /\ Moved(j, CASE At(j, {"duplicates"}) -> "ensure"
                        [] At(j, {"extras"}) -> "status"
                        [] At(j, {"purge"}) -> "sites", {})
      BY <1>13, RemovingEffect DEF RemoveDone
    <2>2. \/ run[j].pc = "duplicates" /\ Moved(j, "ensure", {})
          \/ run[j].pc = "extras" /\ Moved(j, "status", {})
      BY <2>1 DEF At, Removing, Course
    <2> QED BY <2>2, MovedFields
  <1>14. CASE SetServerStatus(j)
    <2>1. Moved(j, "sites", {})
      BY <1>14, AnyEffect
    <2> QED BY <2>1, MovedFields
  <1> QED
    BY <1>1, <1>4, <1>5, <1>6, <1>7, <1>8, <1>9, <1>10, <1>11, <1>12, <1>13, <1>14
    DEF Goes, Work, TableUpdate

\* Apart from the table updates, only two updates write links.
LEMMA LinksStay ==
  ASSUME KnownInv, NEW j \in Jobs,
         \/ Goes(j) /\ ~TableUpdate(j) /\ ~SetUserLink(j) /\ ~SyncUser(j)
         \/ Elsewhere
  PROVE  mem'.link = mem.link
  <1>1. mem \in Documents
    BY DEF KnownInv, TypeInv, TypeOK
  <1>2. CASE UNCHANGED store
    BY <1>2 DEF store
  <1>3. CASE SetServerStatus(j) \/ \E s \in ServerIds, name \in Names : Rename(s, name)
    <2>1. \A s, x : SetStatus(mem, s, x).link = mem.link /\ SetName(mem, s, x).link = mem.link
      BY <1>1 DEF SetStatus, SetName, Documents
    <2> QED BY <1>3, <2>1 DEF SetServerStatus, Rename, Update, Save, store
  <1>4. CASE RegisterLands \/ RemoveLands
    BY <1>2, <1>4 DEF RegisterLands, RemoveLands
  <1>5. CASE Script(j)
    BY <1>2, <1>5 DEF Script, SetUp, SetupFails, TornDown, TeardownFails
  <1>6. CASE Registered(j) \/ Conflict(j) \/ RegisterFails(j) \/ Adopt(j) \/ EnsureDone(j) \/ NoId(j)
    BY <1>2, <1>6 DEF Registered, Conflict, RegisterFails, Adopt, EnsureDone, NoId
  <1>7. CASE Listed(j) \/ ListFails(j) \/ SitesDone(j) \/ Removed(j) \/ RemoveFails(j) \/ RemoveDone(j) \/ Unlock(j)
    BY <1>2, <1>7 DEF Listed, ListFails, SitesDone, Removed, RemoveFails, RemoveDone, Unlock
  <1> QED
    BY <1>2, <1>3, <1>4, <1>5, <1>6, <1>7 DEF Goes, Work, TableUpdate, Elsewhere

\* What the two write.
LEMMA LinkWritten ==
  ASSUME LinkInv, NEW j \in Jobs, SetUserLink(j) \/ SyncUser(j)
  PROVE  LET s == run[j].server IN
         \E u \in Users(mem), link \in Links :
           /\ <<u, s>> \in run[j].todo /\ run'[j].todo = run[j].todo \ {<<u, s>>}
           /\ s \in Servers(mem) /\ mem'.user = mem.user
           /\ \A v \in UserIds, t \in ServerIds :
                mem'.link[v][t] = mem.link[v][t] \/ (v = u /\ t = s /\ mem'.link[v][t] = link)
           /\ link.status = "ready" =>
                \A r \in run[j].seen : r.id = link.client => SameProfile(r.email, mem.user[u])
  <1>1. mem \in Documents /\ KnownInv
    BY DEF LinkInv, SnapshotInv, KnownInv, TypeInv, TypeOK
  <1>2. \A u, s, link : /\ SetLink(mem, u, s, link).user = mem.user
                        /\ \A v \in UserIds, t \in ServerIds :
                             \/ SetLink(mem, u, s, link).link[v][t] = mem.link[v][t]
                             \/ v = u /\ t = s /\ SetLink(mem, u, s, link).link[v][t] = link
    BY <1>1 DEF SetLink, Documents
  <1> DEFINE Written(u, link) ==
               LET s == run[j].server IN
               /\ <<u, s>> \in run[j].todo /\ run'[j].todo = run[j].todo \ {<<u, s>>}
               /\ s \in Servers(mem) /\ mem'.user = mem.user
               /\ \A v \in UserIds, t \in ServerIds :
                    mem'.link[v][t] = mem.link[v][t] \/ (v = u /\ t = s /\ mem'.link[v][t] = link)
               /\ link.status = "ready" =>
                    \A r \in run[j].seen : r.id = link.client => SameProfile(r.email, mem.user[u])
  <1>3. CASE SetUserLink(j)
    <2> DEFINE link == IF run[j].reply # 0 THEN ReadyLink(run[j].reply) ELSE ErrorLink
    <2>1. /\ run[j].user \in Users(mem) /\ link \in Links
          /\ <<run[j].user, run[j].server>> \in run[j].todo
          /\ run'[j].todo = run[j].todo \ {<<run[j].user, run[j].server>>}
          /\ run[j].server \in Servers(mem)
          /\ run[j].reply # 0 => \A r \in run[j].seen :
               r.id = run[j].reply => SameProfile(r.email, mem.user[run[j].user])
          /\ \E done : Save(SetLink(mem, run[j].user, run[j].server, link), done)
      BY <1>3, LinkAims
    <2>2. mem' \in {mem, SetLink(mem, run[j].user, run[j].server, link)}
      BY <2>1 DEF Save, store
    <2>3. Written(run[j].user, link)
      BY <1>2, <2>1, <2>2 DEF ReadyLink, ErrorLink
    <2> QED BY <2>1, <2>3
  <1>4. CASE SyncUser(j)
    <2>1. PICK u \in Users(mem), done \in BOOLEAN : \E c \in ClientIds(Found(j, u)) :
            /\ <<u, run[j].server>> \in run[j].todo /\ ReadyLink(c) \in Links
            /\ \A r \in slave[Target(j)].records \cup run[j].seen :
                 r.id = c => SameProfile(r.email, mem.user[u])
            /\ Save(SetLink(mem, u, run[j].server, ReadyLink(c)), done)
            /\ run'[j].todo = run[j].todo \ {<<u, run[j].server>>}
      BY <1>4, SyncAims
    <2>2. PICK c :
            /\ <<u, run[j].server>> \in run[j].todo /\ ReadyLink(c) \in Links
            /\ \A r \in run[j].seen : r.id = c => SameProfile(r.email, mem.user[u])
            /\ Save(SetLink(mem, u, run[j].server, ReadyLink(c)), done)
            /\ run'[j].todo = run[j].todo \ {<<u, run[j].server>>}
      BY <2>1
    <2>3. run[j].server \in Servers(mem)
      BY <1>4, SyncAims
    <2>4. mem' \in {mem, SetLink(mem, u, run[j].server, ReadyLink(c))}
      BY <2>2 DEF Save, store
    <2>5. Written(u, ReadyLink(c))
      BY <1>2, <2>2, <2>3, <2>4 DEF ReadyLink
    <2> QED BY <2>2, <2>5
  <1> QED BY <1>3, <1>4

LEMMA ReplyStep ==
  ASSUME LinkInv, [Next]_vars, NEW j \in Jobs, run'[j].pc = "link"
  PROVE  ReplyTrue(j)'
  <1> DEFINE f == run[j]  g == run'[j]
  <1>1. /\ KnownInv /\ TypeInv /\ SnapshotInv /\ NumbersUnique
        /\ nextClient \in Nat /\ slave \in [Addresses -> SlaveStates]
        /\ run \in [Jobs -> Frames]
    BY FramesOf DEF LinkInv, SnapshotInv, KnownInv
  <1>2. SUFFICES ASSUME g.reply # 0
                 PROVE  /\ g.reply < nextClient'
                        /\ \A r \in slave'[Target(j)'].records \cup g.seen :
                             r.id = g.reply => SameProfile(r.email, g.snap.user[g.user])
                        /\ g.reply \in stray' \/ g.reply \in ClientIds(slave'[Target(j)'].records)
    BY DEF ReplyTrue, At, EmailOf
  <1>3. CASE f.pc \in InLock /\ holder = j /\ g = f /\ holder' = j /\ Elsewhere
    <2>1. ReplyTrue(j) /\ At(j, {"link"}) /\ f.pc \in InLock \ {"unlock"}
      BY <1>3 DEF LinkInv, At, InLock, Places
    <2>2. Target(j)' = Target(j) /\ Target(j) \in Addresses
      <3>1. f.server \in Servers(f.snap)
        BY <1>1, <2>1, FrameOf DEF Sound, At
      <3>2. f.snap.server[f.server].site.address \in Addresses
        BY <1>1, <3>1, FrameOf, LookUps
      <3> QED BY <1>3, <3>2 DEF Target, AddressOf
    <2>3. /\ f.reply < nextClient
          /\ \A r \in slave[Target(j)].records \cup f.seen :
               r.id = f.reply => SameProfile(r.email, f.snap.user[f.user])
          /\ f.reply \in stray \/ f.reply \in ClientIds(slave[Target(j)].records)
      BY <1>2, <1>3, <2>1 DEF ReplyTrue, EmailOf
    <2>4. f.reply \in Nat
      BY <1>1 DEF Frames, Clients
    <2>5. \A r \in slave'[Target(j)].records : r.id = f.reply => r \in slave[Target(j)].records
      BY <1>1, <2>2, <2>3, <2>4, RecordsChange DEF RecordsStep
    <2>6. nextClient' \in {nextClient, nextClient + 1}
      BY <1>1, RecordsChange DEF RecordsStep
    <2>7. f.reply \in stray' \/ f.reply \in ClientIds(slave'[Target(j)].records)
      <3>1. CASE UNCHANGED slaves
        BY <2>3, <3>1 DEF slaves
      <3>2. CASE RegisterLands
        <4>1. stray \subseteq stray'
          BY <3>2 DEF RegisterLands, Touched
        <4>2. slave[Target(j)].records \subseteq slave'[Target(j)].records
          BY <1>1, <2>2, <3>2 DEF RegisterLands, SlaveStates
        <4> QED BY <2>3, <4>1, <4>2 DEF ClientIds
      <3>3. CASE RemoveLands
        <4>1. PICK call \in lateRemove :
                \/ UNCHANGED <<slave, stray>>
                \/ /\ slave' = [slave EXCEPT ![call.at].records = {r \in @ : r.id # call.client}]
                   /\ stray' = stray \cup {call.client}
          BY <1>3, <3>3, FreeAssumption DEF RemoveLands, Touched
        <4>2. f.reply # call.client =>
                (f.reply \in ClientIds(slave[Target(j)].records) =>
                   f.reply \in ClientIds([slave EXCEPT ![call.at].records =
                                         {r \in @ : r.id # call.client}][Target(j)].records))
          BY <1>1, <2>2 DEF ClientIds, SlaveStates
        <4> QED BY <2>3, <4>1, <4>2
      <3>4. CASE \E s \in ServerIds, name \in Names : Rename(s, name)
        BY <3>1, <3>4 DEF Rename
      <3> QED BY <1>3, <3>1, <3>2, <3>3, <3>4 DEF Elsewhere, slaves
    <2> QED BY <1>1, <1>3, <2>2, <2>3, <2>4, <2>5, <2>6, <2>7
  <1>4. CASE BeginJob(j)
    BY <1>1, <1>4, BeginEffect
  <1>5. CASE f.pc \in InLock /\ Goes(j) /\ ~Unlock(j)
    <2>1. f.pc \in InLock \ {"unlock"} /\ Course(j)
      BY <1>1, <1>5, WorkKeepsLock DEF SnapshotInv, Goes, At
    <2>2. Registered(j) \/ RegisterFails(j) \/ Adopt(j)
      BY <1>1, <1>5, <2>1, Arrivals
    <2>3. InSync(j) => \A r \in f.seen :
            /\ r.id < nextClient
            /\ \A q \in slave[Target(j)].records \cup f.seen : q.id = r.id => q = r
      BY <1>5 DEF LinkInv, SeenTrue, At
    <2>4. ~InSync(j) /\ f.pc \in Syncing => f.seen = {}
      BY <1>1, FrameOf DEF InSync, At, Sound, Kind
    <2>5. CASE Registered(j)
      <3>1. PICK u \in Users(mem), s \in Servers(mem) :
              LET a == mem.server[s].site.address
                  new == [id |-> nextClient, email |-> mem.user[u]] IN
              /\ a \in Addresses /\ slave' = [slave EXCEPT ![a].records = @ \cup {new}]
              /\ Moved(j, "link", {"user", "server", "reply"})
              /\ g.user = u /\ g.server = s /\ g.reply = nextClient
              /\ nextClient' = nextClient + 1 /\ f.pc = "ensure"
              /\ mem.user = f.snap.user /\ SameSites(f.snap, mem)
        <4>1. SnapshotInv
          BY <1>1
        <4> HIDE DEF f, g
        <4>2. PICK u \in Users(mem), s \in Servers(mem) :
                LET a == mem.server[s].site.address
                    new == [id |-> nextClient, email |-> mem.user[u]] IN
                /\ <<u, s>> \in run[j].todo /\ Found(j, u) = {} /\ a \in Addresses
                /\ slave' = [slave EXCEPT ![a].records = @ \cup {new}]
                /\ Matching(slave[a].records, mem.user[u]) = {}
                /\ Moved(j, "link", {"user", "server", "reply"})
                /\ run'[j].user = u /\ run'[j].server = s /\ run'[j].reply = nextClient
                /\ nextClient' = nextClient + 1 /\ mem' = mem /\ run[j].pc = "ensure"
                /\ UNCHANGED <<disk, stray, lateRegister, lateRemove>>
                /\ mem.user = run[j].snap.user /\ SameSites(run[j].snap, mem)
          BY <2>5, <4>1, RegisteredEffect, Zenon
        <4> QED BY <4>2 DEF f, g
      <3>2. g.snap = f.snap /\ g.seen = f.seen
        BY <3>1, MovedFields
      <3> DEFINE a == mem.server[s].site.address
                 new == [id |-> nextClient, email |-> mem.user[u]]
      <3>3. Target(j)' = a
        BY <3>1, <3>2 DEF Target, AddressOf, SameSites
      <3>4. slave'[a].records = slave[a].records \cup {new}
        BY <1>1, <3>1 DEF SlaveStates
      <3>5. \A r \in f.seen : r.id < nextClient
        BY <2>3, <2>4, <3>1 DEF Syncing, Linking
      <3>6. \A r \in slave[a].records : r.id < nextClient
        BY <1>1, <3>1 DEF NumbersUnique
      <3>7. \A r \in f.seen \cup slave[a].records : r.id # nextClient
        <4>1. \A r \in f.seen \cup slave[a].records : r.id \in Nat
          BY <1>1, <3>1, FrameOf DEF Frames, Records, Clients, SlaveStates
        <4>2. \A r \in f.seen \cup slave[a].records : r.id < nextClient
          BY <3>5, <3>6
        <4> HIDE DEF f
        <4> QED BY <1>1, <4>1, <4>2
      <3>8. nextClient < nextClient'
        BY <1>1, <3>1
      <3>9. SameProfile(new.email, g.snap.user[g.user]) /\ new.id = nextClient
        BY <3>1, <3>2 DEF SameProfile
      <3> HIDE DEF a, new
      <3>10. nextClient \in ClientIds(slave'[a].records)
        BY <3>4, <3>9 DEF ClientIds
      <3> QED BY <3>1, <3>2, <3>3, <3>4, <3>7, <3>8, <3>9, <3>10
    <2>6. CASE RegisterFails(j)
      <3>1. PICK p : Move(j, Answer(j, p, "link", 0))
        BY <2>6 DEF RegisterFails
      <3> QED BY <1>1, <1>2, <3>1, AskedEffect
    <2>7. CASE Adopt(j)
      <3>1. /\ Moved(j, "link", {"reply"}) /\ f.pc = "adopt"
            /\ \/ g.reply = f.reply
               \/ g.reply \in ClientIds(Matching(slave[Target(j)].records, EmailOf(j, f.user)))
        BY <1>1, <2>7, AdoptEffect DEF Adopt, At
      <3>2. /\ g.snap = f.snap /\ g.seen = f.seen /\ g.server = f.server /\ g.user = f.user
            /\ f.reply = 0 /\ UNCHANGED <<slave, nextClient, stray>>
        BY <2>1, <2>7, <3>1, MovedFields DEF Course, At, Adopt, slaves
      <3>3. PICK r \in slave[Target(j)].records :
              r.id = g.reply /\ SameProfile(r.email, f.snap.user[f.user])
        BY <1>2, <3>1, <3>2 DEF ClientIds, Matching, EmailOf
      <3>4. Target(j)' = Target(j) /\ Target(j) \in Addresses
        <4>1. f.server \in Servers(f.snap)
          BY <1>1, <3>1, FrameOf DEF Sound
        <4>2. f.snap.server[f.server].site.address \in Addresses
          BY <1>1, <4>1, FrameOf, LookUps
        <4> QED BY <3>2, <4>2 DEF Target, AddressOf
      <3>5. r.id < nextClient /\ \A q \in slave[Target(j)].records : q.id = r.id => q = r
        BY <1>1, <3>3, <3>4 DEF NumbersUnique
      <3>6. \A q \in f.seen : q.id = r.id => q = r
        BY <2>3, <2>4, <3>1, <3>3 DEF Syncing, Linking
      <3>7. g.reply \in ClientIds(slave[Target(j)].records)
        BY <3>3 DEF ClientIds
      <3> QED BY <3>2, <3>3, <3>4, <3>5, <3>6, <3>7
    <2> QED BY <2>2, <2>5, <2>6, <2>7
  <1>6. g.pc \in InLock
    BY DEF InLock, Places
  <1> QED BY <1>1, <1>3, <1>4, <1>5, <1>6, StepsOf

\* A list stays true of the Slave but for what was registered or removed.
LEMMA ListStays ==
  ASSUME LinkInv, [Next]_vars, NEW j \in Jobs, InSync(j), run'[j].seen = run[j].seen,
         run'[j].snap = run[j].snap, run'[j].server = run[j].server
  PROVE  /\ Target(j)' = Target(j) /\ Target(j) \in Addresses
         /\ run[j].server \in Servers(mem)
         /\ \A r \in run[j].seen :
              /\ r.id < nextClient'
              /\ \A q \in slave'[Target(j)].records \cup run[j].seen : q.id = r.id => q = r
  <1>1. /\ TypeInv /\ SnapshotInv /\ SeenTrue(j) /\ run[j] \in Frames
        /\ nextClient \in Nat /\ run[j].pc \in InLock \ {"unlock"}
    <2>1. run[j].pc \in InLock \ {"unlock"}
      BY DEF InSync, At, Syncing, Linking, InLock, Places
    <2> QED
      BY <2>1, FramesOf DEF LinkInv, SnapshotInv, KnownInv, At
  <1>2. run[j].server \in Servers(mem) /\ Target(j) \in Addresses
    <2>1. run[j].server \in Servers(run[j].snap)
      BY <1>1, Knowledge DEF InSync, Course, At
    <2> QED BY <1>1, <2>1, Knowledge DEF Target
  <1>3. Target(j)' = Target(j)
    BY DEF Target, AddressOf
  <1>4. \A r \in run[j].seen : r.id \in Nat
    BY <1>1 DEF Frames, Records, Clients
  <1>5. \A r \in run[j].seen :
          /\ r.id < nextClient
          /\ \A q \in slave[Target(j)].records \cup run[j].seen : q.id = r.id => q = r
    BY <1>1 DEF SeenTrue
  <1> QED
    BY <1>1, <1>2, <1>3, <1>4, <1>5, RecordsChange DEF RecordsStep

LEMMA SeenStep ==
  ASSUME LinkInv, [Next]_vars, NEW j \in Jobs, run'[j].pc \in InLock
  PROVE  SeenTrue(j)'
  <1> DEFINE f == run[j]  g == run'[j]
  <1>1. KnownInv /\ TypeInv /\ SnapshotInv /\ NumbersUnique
    BY DEF LinkInv, SnapshotInv, KnownInv
  <1>2. SUFFICES ASSUME g.op.kind = "sync", g.pc \in Syncing
                 PROVE  \A r \in g.seen :
                          /\ r.id < nextClient'
                          /\ \A q \in slave'[Target(j)'].records \cup g.seen : q.id = r.id => q = r
                          /\ \A u \in UserIds : mem'.link[u][g.server] = ReadyLink(r.id) =>
                               SameProfile(r.email, mem'.user[u])
    BY DEF SeenTrue, InSync, At, Kind
  <1>3. ASSUME InSync(j), g.seen = f.seen, g.snap = f.snap, g.server = f.server,
               mem'.user = mem.user,
               \/ mem'.link = mem.link
               \/ SetUserLink(j) \/ SyncUser(j)
        PROVE  SeenTrue(j)'
    <2>1. /\ Target(j)' = Target(j) /\ f.server \in Servers(mem)
          /\ \A r \in f.seen :
               /\ r.id < nextClient'
               /\ \A q \in slave'[Target(j)].records \cup f.seen : q.id = r.id => q = r
      BY <1>3, ListStays
    <2>2. \A r \in f.seen, u \in UserIds :
            mem.link[u][f.server] = ReadyLink(r.id) => SameProfile(r.email, mem.user[u])
      BY <1>3 DEF LinkInv, SeenTrue, InSync, At, Syncing, Linking, InLock, Places
    <2>3. ASSUME NEW r \in f.seen, NEW u \in UserIds, mem'.link[u][f.server] = ReadyLink(r.id)
          PROVE  SameProfile(r.email, mem.user[u])
      <3>1. CASE mem'.link = mem.link
        BY <2>2, <2>3, <3>1
      <3>2. CASE SetUserLink(j) \/ SyncUser(j)
        <4>1. PICK v \in Users(mem), link \in Links :
                /\ \A w \in UserIds, t \in ServerIds :
                     \/ mem'.link[w][t] = mem.link[w][t]
                     \/ w = v /\ t = f.server /\ mem'.link[w][t] = link
                /\ link.status = "ready" =>
                     \A q \in f.seen : q.id = link.client => SameProfile(q.email, mem.user[v])
          BY <3>2, LinkWritten
        <4>2. f.server \in ServerIds
          BY <2>1 DEF Servers
        <4> QED BY <2>2, <2>3, <4>1, <4>2 DEF ReadyLink
      <3> QED BY <1>3, <3>1, <3>2
    <2> QED BY <1>3, <2>1, <2>3 DEF SeenTrue
  <1>4. CASE BeginJob(j)
    BY <1>1, <1>2, <1>4, BeginEffect DEF Syncing, Linking, Kind
  <1>5. CASE f.pc \in InLock /\ g = f /\ Elsewhere
    <2>1. mem'.user = mem.user /\ mem'.link = mem.link
      BY <1>1, <1>5, TablesStay, LinksStay
    <2>2. InSync(j)
      BY <1>2, <1>5 DEF InSync, At, Kind
    <2> QED BY <1>2, <1>3, <1>5, <2>1, <2>2 DEF SeenTrue, InSync, At, Kind
  <1>6. CASE f.pc \in InLock /\ Goes(j) /\ ~Unlock(j)
    <2>1. f.pc \in InLock \ {"unlock"} /\ Course(j)
      BY <1>1, <1>6, WorkKeepsLock DEF SnapshotInv, Goes, At
    <2>2. Kind(j) = "sync"
      <3>1. g.op = f.op
        BY <1>1, <1>6, <2>1, OpStays
      <3> QED BY <1>2, <3>1 DEF Kind
    <2>3. /\ ~TableUpdate(j) /\ g.snap = f.snap
          /\ ~Listed(j) => f.pc \in Syncing /\ g.server = f.server /\ g.seen = f.seen
      BY <1>1, <1>2, <1>6, <2>1, <2>2, SyncSteps
    <2>4. CASE ~Listed(j)
      <3>1. mem'.user = mem.user
        BY <1>1, <1>6, <2>3, TablesStay
      <3>2. mem'.link = mem.link \/ SetUserLink(j) \/ SyncUser(j)
        BY <1>1, <1>6, <2>3, LinksStay
      <3>3. SeenTrue(j)'
        BY <1>3, <2>2, <2>3, <2>4, <3>1, <3>2 DEF InSync, At
      <3> QED BY <1>2, <3>3 DEF SeenTrue, InSync, At, Kind
    <2>5. CASE Listed(j)
      <3>1. PICK s \in f.sites :
              /\ g.server = s /\ g.seen = slave[AddressOf(j, s)].records
        BY <1>1, <2>2, <2>5, ListedEffect
      <3>2. UNCHANGED <<store, slaves>>
        BY <2>5 DEF Listed
      <3>3. /\ s \in Servers(mem) /\ AddressOf(j, s) \in Addresses
            /\ AddressOf(j, s) = mem.server[s].site.address
        <4>1. s \in Servers(f.snap)
          BY <1>1, <2>1, Knowledge DEF Sound
        <4> QED BY <1>1, <2>1, <4>1, Knowledge
      <3>4. Target(j)' = AddressOf(j, s)
        BY <2>3, <3>1 DEF Target, AddressOf
      <3>5. \A r \in slave[AddressOf(j, s)].records :
              r.id < nextClient /\ \A q \in slave[AddressOf(j, s)].records : q.id = r.id => q = r
        BY <1>1, <3>3 DEF NumbersUnique
      <3>6. \A r \in slave[AddressOf(j, s)].records, u \in UserIds :
              mem.link[u][s] = ReadyLink(r.id) => SameProfile(r.email, mem.user[u])
        BY <3>3 DEF LinkInv, LinksTrue, ReadyLink
      <3> QED BY <3>1, <3>2, <3>4, <3>5, <3>6 DEF store, slaves
    <2> QED BY <2>4, <2>5
  <1> QED BY <1>1, <1>4, <1>5, <1>6, StepsOf

LEMMA LinksKnownStep ==
  ASSUME LinkInv, [Next]_vars, NEW j \in Jobs, run'[j].pc \in InLock
  PROVE  LinksKnown(j)'
  <1> DEFINE f == run[j]  g == run'[j]
  <1>1. KnownInv /\ TypeInv /\ SnapshotInv
    BY DEF LinkInv, SnapshotInv, KnownInv
  <1>2. SUFFICES ASSUME g.op.kind = "sync"
                 PROVE  /\ \A u \in UserIds, s \in g.sites : mem'.link[u][s] = g.snap.link[u][s]
                        /\ \A p \in g.todo : mem'.link[p[1]][p[2]] = g.snap.link[p[1]][p[2]]
    BY DEF LinksKnown, Kind
  <1>3. CASE BeginJob(j)
    BY <1>1, <1>2, <1>3, BeginEffect DEF store, Kind
  <1>4. CASE f.pc \in InLock /\ g = f /\ Elsewhere
    <2>1. mem'.link = mem.link
      BY <1>1, <1>4, LinksStay
    <2>2. LinksKnown(j)
      BY <1>4 DEF LinkInv, At
    <2> QED BY <1>2, <1>4, <2>1, <2>2 DEF LinksKnown, Kind
  <1>5. CASE f.pc \in InLock /\ Goes(j) /\ ~Unlock(j)
    <2>1. f.pc \in InLock \ {"unlock"} /\ Course(j) /\ f \in Frames /\ Sound(f)
      BY <1>1, <1>5, WorkKeepsLock, FrameOf DEF SnapshotInv, Goes, At
    <2>2. Kind(j) = "sync"
      <3>1. g.op = f.op
        BY <1>1, <1>5, <2>1, OpStays
      <3> QED BY <1>2, <3>1 DEF Kind
    <2>3. /\ ~TableUpdate(j) /\ g.snap = f.snap /\ g.sites \subseteq f.sites
          /\ Listed(j) \/ g.todo \subseteq f.todo
      BY <1>1, <1>5, <2>1, <2>2, SyncSteps
    <2>4. /\ \A u \in UserIds, s \in f.sites : mem.link[u][s] = f.snap.link[u][s]
          /\ \A p \in f.todo : mem.link[p[1]][p[2]] = f.snap.link[p[1]][p[2]]
      BY <1>5, <2>2 DEF LinkInv, LinksKnown, At
    <2>5. CASE Listed(j)
      <3>1. PICK s \in f.sites : g.todo = Users(f.snap) \X {s}
        BY <1>1, <2>2, <2>5, ListedEffect
      <3>2. mem' = mem
        BY <2>5 DEF Listed, store
      <3> QED BY <2>3, <2>4, <3>1, <3>2 DEF Users
    <2>6. CASE SetUserLink(j) \/ SyncUser(j)
      <3>1. PICK u \in Users(mem), link \in Links :
              /\ <<u, f.server>> \in f.todo /\ g.todo = f.todo \ {<<u, f.server>>}
              /\ f.server \in Servers(mem) /\ mem'.user = mem.user
              /\ \A v \in UserIds, t \in ServerIds :
                   mem'.link[v][t] = mem.link[v][t] \/ (v = u /\ t = f.server /\ mem'.link[v][t] = link)
              /\ link.status = "ready" =>
                   \A r \in f.seen : r.id = link.client => SameProfile(r.email, mem.user[u])
        BY <2>6, LinkWritten
      <3>2. f.server \notin f.sites /\ f.sites \subseteq ServerIds /\ f.todo \subseteq UserIds \X ServerIds
        BY <2>1, <2>2, <2>6 DEF Course, At, SetUserLink, SyncUser, Syncing, Linking, Frames
      <3>3. \A v \in UserIds, s \in g.sites : mem'.link[v][s] = g.snap.link[v][s]
        BY <2>3, <2>4, <3>1, <3>2
      <3>4. \A p \in g.todo : mem'.link[p[1]][p[2]] = g.snap.link[p[1]][p[2]]
        BY <2>3, <2>4, <3>1, <3>2
      <3> QED BY <3>3, <3>4
    <2>7. CASE ~Listed(j) /\ ~SetUserLink(j) /\ ~SyncUser(j)
      <3>1. mem'.link = mem.link
        BY <1>1, <1>5, <2>3, <2>7, LinksStay
      <3> QED BY <2>3, <2>4, <2>7, <3>1
    <2> QED BY <2>5, <2>6, <2>7
  <1> QED BY <1>1, <1>3, <1>4, <1>5, StepsOf

LEMMA VictimsStep ==
  ASSUME LinkInv, [Next]_vars, NEW j \in Jobs, run'[j].pc \in Removing
  PROVE  VictimsUnlinked(j)'
  <1> DEFINE f == run[j]  g == run'[j]
  <1>1. KnownInv /\ TypeInv /\ SnapshotInv
    BY DEF LinkInv, SnapshotInv, KnownInv
  <1>2. SUFFICES ASSUME NEW u \in UserIds, NEW c \in g.victims
                 PROVE  mem'.link[u][g.server] # ReadyLink(c)
    BY DEF VictimsUnlinked
  <1>3. ASSUME f.pc \in Removing, g.server = f.server, g.victims \subseteq f.victims,
               mem'.link = mem.link
        PROVE  mem'.link[u][g.server] # ReadyLink(c)
    BY <1>3 DEF LinkInv, VictimsUnlinked, At, Removing, InLock, Places
  <1>4. CASE BeginJob(j)
    BY <1>1, <1>4, BeginEffect DEF Removing
  <1>5. CASE f.pc \in InLock /\ g = f /\ Elsewhere
    BY <1>1, <1>3, <1>5, LinksStay
  <1>6. CASE f.pc \in InLock /\ Goes(j) /\ ~Unlock(j)
    <2>1. f.pc \in InLock \ {"unlock"} /\ Course(j) /\ f \in Frames /\ Sound(f)
      BY <1>1, <1>6, WorkKeepsLock, FrameOf DEF SnapshotInv, Goes, At
    <2>2. Removed(j) \/ RemoveFails(j) \/ SyncUser(j) \/ EnsureDone(j) \/ Listed(j)
      BY <1>1, <1>6, <2>1, Arrivals DEF Removing
    <2>3. /\ mem \in Documents /\ LinksResolve(mem) /\ ProfilesDistinct(mem)
          /\ Servers(f.snap) = Servers(mem)
          /\ \A s \in Servers(mem) :
               AddressOf(j, s) = mem.server[s].site.address /\ AddressOf(j, s) \in Addresses
          /\ Kind(j) # "delete" => mem.user = f.snap.user /\ Users(mem) = Users(f.snap)
      BY <1>1, <2>1, Knowledge DEF Consistent
    <2>4. CASE Removed(j) \/ RemoveFails(j)
      <3>1. Only(j, {"victims", "warned", "verdict"}) /\ g.victims \subseteq f.victims
        BY <1>1, <2>4, RemovingEffect DEF Only
      <3>2. mem' = mem /\ f.pc \in Removing
        BY <2>4 DEF Removed, RemoveFails, store, At
      <3> QED BY <1>3, <3>1, <3>2, FieldsKept
    <2>5. CASE Listed(j)
      <3>1. PICK s \in f.sites :
              /\ g.server = s
              /\ \/ /\ Kind(j) = "delete"
                    /\ g.victims = ClientIds(Matching(slave[AddressOf(j, s)].records, EmailOf(j, f.user)))
                 \/ g.pc = "ensure"
        BY <1>1, <2>5, ListedEffect DEF Moved
      <3>2. mem' = mem /\ f.pc = "sites"
        BY <2>5 DEF Listed, store, At
      <3>3. Kind(j) = "delete"
        BY <3>1 DEF Removing
      <3>4. PICK r \in slave[AddressOf(j, s)].records :
              r.id = c /\ SameProfile(r.email, f.snap.user[f.user])
        BY <3>1 DEF ClientIds, Matching, EmailOf, Removing
      <3>5. s \in Servers(mem) /\ s \in ServerIds
        BY <2>1, <2>3 DEF Sound, Servers
      <3>6. SUFFICES ASSUME mem.link[u][s] = ReadyLink(c) PROVE FALSE
        BY <3>1, <3>2
      <3>7. u \in Users(mem)
        BY <2>3, <3>5, <3>6 DEF LinksResolve, ReadyLink, NoLink
      <3>8. SameProfile(r.email, mem.user[u])
        BY <2>3, <3>4, <3>5, <3>6 DEF LinkInv, LinksTrue, ReadyLink
      <3>9. mem.user = [f.snap.user EXCEPT ![f.user] = NoUser] /\ ProfilesDistinct(f.snap)
        BY <2>1, <3>2, <3>3 DEF SnapshotInv, LinkInv, KnowsUsers, Dropped, At
      <3>10. f.user \in Users(f.snap) /\ f.snap \in Documents
        BY <2>1, <3>2, <3>3, LookUps DEF Sound, Kind
      <3>11. u # f.user /\ u \in Users(f.snap) /\ mem.user[u] = f.snap.user[u]
        BY <3>7, <3>9, <3>10 DEF Users, Documents
      <3> QED BY <3>4, <3>8, <3>9, <3>10, <3>11 DEF ProfilesDistinct, SameProfile
    <2>6. CASE EnsureDone(j)
      <3>1. f.pc = "ensure" /\ mem' = mem
        BY <2>6 DEF EnsureDone, store, At
      <3>2. /\ Kind(j) = "sync" /\ Moved(j, "extras", {"victims"})
            /\ g.victims = ClientIds({r \in f.seen : ~EmailTaken(f.snap, r.email)})
        BY <1>1, <2>6, EnsureDoneEffect DEF Moved, Removing
      <3>3. PICK r \in f.seen : r.id = c /\ ~EmailTaken(f.snap, r.email)
        BY <3>2 DEF ClientIds
      <3>4. g.server = f.server /\ f.server \in Servers(mem)
        BY <2>1, <2>3, <3>1, <3>2, MovedFields DEF Course, At, Syncing, Linking
      <3>5. SUFFICES ASSUME mem.link[u][f.server] = ReadyLink(c) PROVE FALSE
        BY <3>1, <3>4
      <3>6. SameProfile(r.email, mem.user[u])
        BY <2>1, <3>1, <3>2, <3>3, <3>5
        DEF LinkInv, SeenTrue, InSync, At, Syncing, Linking
      <3>7. u \in Users(mem)
        BY <2>3, <3>4, <3>5 DEF LinksResolve, ReadyLink, NoLink, Servers
      <3> QED BY <2>3, <3>2, <3>3, <3>6, <3>7 DEF EmailTaken, SameProfile
    <2>7. CASE SyncUser(j)
      <3> DEFINE s == f.server
      <3>1. /\ f.pc = "ensure" /\ Kind(j) = "sync" /\ s \in Servers(mem)
            /\ mem.user = f.snap.user /\ Moved(j, "duplicates", {"todo", "victims"})
        BY <2>7, SyncAims
      <3>2. PICK v \in Users(mem), done \in BOOLEAN : \E k \in ClientIds(Found(j, v)) :
              /\ <<v, s>> \in f.todo /\ Keeps(j, v, s, k)
              /\ Save(SetLink(mem, v, s, ReadyLink(k)), done)
              /\ g.victims = ClientIds(Found(j, v)) \ {k}
        BY <2>7, SyncAims
      <3>3. PICK k \in ClientIds(Found(j, v)) :
              /\ <<v, s>> \in f.todo /\ Keeps(j, v, s, k)
              /\ Save(SetLink(mem, v, s, ReadyLink(k)), done)
              /\ g.victims = ClientIds(Found(j, v)) \ {k}
        BY <3>2
      <3>4. PICK r \in f.seen : r.id = c /\ SameProfile(r.email, mem.user[v])
        BY <3>1, <3>3 DEF ClientIds, Found, Matching, EmailOf
      <3>5. g.server = s /\ s \in ServerIds /\ v \in UserIds
        BY <3>1, MovedFields DEF Servers, Users
      <3>6. mem.link[v][s] = f.snap.link[v][s]
        BY <2>1, <3>1, <3>3 DEF LinkInv, LinksKnown, At
      <3>7. mem.link[u][s] # ReadyLink(c)
        <4>1. SUFFICES ASSUME mem.link[u][s] = ReadyLink(c) PROVE FALSE
          OBVIOUS
        <4>2. SameProfile(r.email, mem.user[u])
          BY <2>1, <3>1, <3>4, <4>1 DEF LinkInv, SeenTrue, InSync, At, Syncing, Linking
        <4>3. u \in Users(mem)
          BY <2>3, <3>5, <4>1 DEF LinksResolve, ReadyLink, NoLink
        <4>4. u = v
          BY <2>3, <3>4, <4>2, <4>3 DEF ProfilesDistinct, SameProfile
        <4>5. f.snap.link[v][s].client = c /\ c \in ClientIds(Found(j, v)) /\ c # k
          BY <3>3, <3>6, <4>1, <4>4 DEF ReadyLink
        <4> QED BY <3>3, <4>5 DEF Keeps
      <3>8. c # k
        BY <3>3
      <3>9. mem' \in {mem, SetLink(mem, v, s, ReadyLink(k))}
        BY <3>3 DEF Save, store
      <3>10. SetLink(mem, v, s, ReadyLink(k)).link[u][s] \in {mem.link[u][s], ReadyLink(k)}
        BY <2>3, <3>5 DEF SetLink, Documents
      <3> QED BY <3>5, <3>7, <3>8, <3>9, <3>10 DEF ReadyLink
    <2> QED BY <2>2, <2>4, <2>5, <2>6, <2>7
  <1>7. g.pc \in InLock
    BY DEF Removing, InLock, Places
  <1> QED BY <1>1, <1>4, <1>5, <1>6, <1>7, StepsOf

LEMMA LinkStep == LinkInv /\ [Next]_vars => LinkInv'
  <1> SUFFICES ASSUME LinkInv, [Next]_vars PROVE LinkInv'
    OBVIOUS
  <1>1. SnapshotInv'
    BY SnapshotStep DEF LinkInv
  <1>2. NumbersUnique'
    BY NumbersStep DEF LinkInv, SnapshotInv, KnownInv
  <1>3. LinksTrue(mem', slave', nextClient') /\ LinksTrue(disk', slave', nextClient')
    BY LinksStep
  <1>4. ASSUME NEW j \in Jobs, At(j, InLock)'
        PROVE  ReplyTrue(j)' /\ SeenTrue(j)' /\ LinksKnown(j)' /\ VictimsUnlinked(j)'
    <2>1. SeenTrue(j)' /\ LinksKnown(j)'
      BY <1>4, SeenStep, LinksKnownStep DEF At
    <2>2. ReplyTrue(j)'
      BY ReplyStep DEF ReplyTrue, At
    <2>3. VictimsUnlinked(j)'
      BY VictimsStep DEF VictimsUnlinked, At
    <2> QED BY <2>1, <2>2, <2>3
  <1> QED BY <1>1, <1>2, <1>3, <1>4 DEF LinkInv

LEMMA LinkInit == Init => LinkInv
  <1> SUFFICES ASSUME Init PROVE LinkInv
    OBVIOUS
  <1>1. \A j \in Jobs : ~At(j, InLock)
    BY DEF Init, At, IdleFrame, InLock
  <1>2. NumbersUnique
    BY InitialAssumption, BoundsAssumption DEF Init, NumbersUnique
  <1>3. LinksTrue(InitialDocument, InitialSlaves, FirstClient)
    BY InitialAssumption DEF LinksTrue
  <1> QED BY <1>1, <1>2, <1>3, SnapshotInit DEF Init, LinkInv

\* No job removes a record that a ready link of a user leads to.  The lists
\* and the snapshot it cleans up from are out of date, but a link that was
\* true of the list is true of the Slave, and the one that the job has just
\* failed to save is the one that it keeps.
THEOREM LiveClientsStay == Spec => LiveClientsKept
  <1>1. LinkInv /\ [Next]_vars =>
          [(\E j \in Jobs : Removed(j)) =>
             \A s \in Servers(mem) :
               LET a == mem.server[s].site.address IN
               \A c \in ClientIds(slave[a].records) \ ClientIds(slave'[a].records) :
                 \A u \in Users(mem) : mem.link[u][s] # ReadyLink(c)]_vars
    <2> SUFFICES ASSUME LinkInv, NEW j \in Jobs, Removed(j), NEW s \in Servers(mem),
                        NEW c \in ClientIds(slave[mem.server[s].site.address].records)
                                  \ ClientIds(slave'[mem.server[s].site.address].records),
                        NEW u \in Users(mem)
                 PROVE  mem.link[u][s] # ReadyLink(c)
      OBVIOUS
    <2>1. run[j].pc \in Removing /\ run[j].pc \in InLock \ {"unlock"} /\ SnapshotInv
      BY DEF LinkInv, Removed, At, Removing, InLock, Places
    <2>2. /\ TypeInv /\ Sound(run[j]) /\ SitesDistinct(mem)
          /\ Servers(run[j].snap) = Servers(mem)
          /\ \A t \in Servers(mem) :
               AddressOf(j, t) = mem.server[t].site.address /\ AddressOf(j, t) \in Addresses
      BY <2>1, Knowledge DEF Consistent
    <2>3. PICK d \in run[j].victims :
            slave' = [slave EXCEPT ![Target(j)].records = {r \in @ : r.id # d}]
      BY <2>2, RemovingEffect
    <2>4. slave \in [Addresses -> SlaveStates] /\ mem.server[s].site.address \in Addresses
      BY <2>2, FramesOf
    <2>5. mem.server[s].site.address = Target(j) /\ c = d
      <3>1. mem.server[s].site.address # Target(j) =>
              slave'[mem.server[s].site.address] = slave[mem.server[s].site.address]
        BY <2>3, <2>4
      <3>2. mem.server[s].site.address = Target(j)
        BY <3>1
      <3>3. slave'[Target(j)].records = {r \in slave[Target(j)].records : r.id # d}
        BY <2>3, <2>4, <3>2 DEF SlaveStates
      <3> QED BY <3>2, <3>3 DEF ClientIds
    <2>6. run[j].server \in Servers(mem) /\ Target(j) = mem.server[run[j].server].site.address
      BY <2>1, <2>2 DEF Sound, Target
    <2>7. s = run[j].server
      BY <2>2, <2>5, <2>6 DEF SitesDistinct
    <2>8. VictimsUnlinked(j)
      BY <2>1 DEF LinkInv, At
    <2> QED BY <2>1, <2>3, <2>5, <2>7, <2>8 DEF VictimsUnlinked, At, Users
  <1> QED
    BY <1>1, LinkInit, LinkStep, PTL DEF Spec, LiveClientsKept
-----------------------------------------------------------------------------
(***************************************************************************)
(* The third layer is inductive.                                           *)
(***************************************************************************)
\* Only late calls touch the Slave at a.
Undisturbed(a) ==
  /\ stray \subseteq stray'
  /\ \A r \in slave[a].records \ slave'[a].records : r.id \in stray'
  /\ \A r \in slave'[a].records \ slave[a].records : r.id \in stray'

LEMMA OthersMeddle ==
  ASSUME TypeInv, NEW j \in Jobs,
         \/ Goes(j) /\ ~Unlock(j) /\ ~Registered(j) /\ ~Removed(j) /\ ~Script(j)
         \/ Elsewhere /\ holder = j
  PROVE  \A a \in Addresses : Undisturbed(a)
  <1>1. slave \in [Addresses -> SlaveStates]
    BY FramesOf
  <1>2. CASE UNCHANGED <<slave, stray>>
    BY <1>2 DEF Undisturbed
  <1>3. CASE RegisterLands /\ holder = j
    <2>1. CASE UNCHANGED <<slave, nextClient, stray>>
      BY <1>2, <2>1
    <2>2. CASE \E call \in lateRegister :
                 /\ slave' = [slave EXCEPT ![call.at].records =
                                @ \cup {[id |-> nextClient, email |-> call.email]}]
                 /\ Touched(nextClient)
      <3>1. PICK call \in lateRegister :
                 /\ slave' = [slave EXCEPT ![call.at].records =
                                @ \cup {[id |-> nextClient, email |-> call.email]}]
                 /\ Touched(nextClient)
        BY <2>2
      <3>2. stray' = stray \cup {nextClient}
        BY <1>3, <3>1, FreeAssumption DEF Touched
      <3> QED BY <1>1, <3>1, <3>2 DEF Undisturbed, SlaveStates
    <2> QED BY <1>3, <2>1, <2>2 DEF RegisterLands
  <1>4. CASE RemoveLands /\ holder = j
    <2>1. CASE UNCHANGED <<slave, stray>>
      BY <1>2, <2>1
    <2>2. CASE \E call \in lateRemove :
                 /\ slave' = [slave EXCEPT ![call.at].records = {r \in @ : r.id # call.client}]
                 /\ Touched(call.client)
      <3>1. PICK call \in lateRemove :
                 /\ slave' = [slave EXCEPT ![call.at].records = {r \in @ : r.id # call.client}]
                 /\ Touched(call.client)
        BY <2>2
      <3>2. stray' = stray \cup {call.client}
        BY <1>4, <3>1, FreeAssumption DEF Touched
      <3> QED BY <1>1, <3>1, <3>2 DEF Undisturbed, SlaveStates
    <2> QED BY <1>4, <2>1, <2>2 DEF RemoveLands
  <1>5. CASE UNCHANGED slaves \/ \E s \in ServerIds, name \in Names : Rename(s, name)
    BY <1>2, <1>5 DEF slaves, Rename
  <1>6. CASE StoreUser(j) \/ NoId(j) \/ DropUser(j) \/ StoreServer(j) \/ DropServer(j) \/ SetServerStatus(j)
    BY <1>5, <1>6 DEF StoreUser, NoId, DropUser, StoreServer, DropServer, SetServerStatus
  <1>7. CASE Conflict(j) \/ Adopt(j) \/ SetUserLink(j) \/ EnsureDone(j) \/ SyncUser(j)
    BY <1>5, <1>7 DEF Conflict, Adopt, SetUserLink, EnsureDone, SyncUser
  <1>8. CASE Listed(j) \/ ListFails(j) \/ SitesDone(j) \/ RemoveDone(j)
    BY <1>5, <1>8 DEF Listed, ListFails, SitesDone, RemoveDone
  <1>9. CASE RegisterFails(j) \/ RemoveFails(j)
    BY <1>2, <1>9 DEF RegisterFails, RemoveFails
  <1> QED
    BY <1>3, <1>4, <1>5, <1>6, <1>7, <1>8, <1>9 DEF Goes, Work, Elsewhere, slaves

LEMMA ServedStays ==
  ASSUME NEW u, NEW s, Served(u, s), mem.link[u][s] \in Links, mem'.link[u][s] = mem.link[u][s],
         mem'.user[u] = mem.user[u], mem'.server[s].site = mem.server[s].site,
         stray \subseteq stray',
         \A r \in slave[mem.server[s].site.address].records :
           \/ r \in slave'[mem.server[s].site.address].records
           \/ r.id \in stray' \/ mem.link[u][s] # ReadyLink(r.id)
  PROVE  Served(u, s)'
  <1> DEFINE link == mem.link[u][s]  a == mem.server[s].site.address
  <1>1. link.status = "ready" /\ link = ReadyLink(link.client)
    BY DEF Served, Links, ReadyLink
  <1>2. CASE link.client \in stray
    BY <1>1, <1>2 DEF Served
  <1>3. CASE \E r \in slave[a].records : r.id = link.client /\ SameProfile(r.email, mem.user[u])
    BY <1>1, <1>3 DEF Served
  <1> QED BY <1>2, <1>3 DEF Served

LEMMA BackgroundServes ==
  ASSUME LinkInv, NEW j \in Jobs, run[j].pc \in InLock,
         \/ /\ Goes(j) /\ ~Unlock(j) /\ ~Registered(j) /\ ~Removed(j) /\ ~Script(j)
            /\ ~TableUpdate(j) /\ ~SetUserLink(j) /\ ~SyncUser(j)
         \/ Elsewhere /\ holder = j,
         NEW u \in UserIds, NEW s \in Servers(mem), Served(u, s)
  PROVE  Served(u, s)'
  <1>1. TypeInv /\ KnownInv /\ mem \in Documents
    BY FramesOf DEF LinkInv, SnapshotInv, KnownInv
  <1>2. /\ mem.link[u][s] \in Links /\ mem.server[s].site.address \in Addresses
    BY <1>1 DEF Documents, Users, Servers, ServerEntries, Sites
  <1>3. mem'.user = mem.user /\ SameSites(mem, mem') /\ mem'.link = mem.link
    BY <1>1, TablesStay, LinksStay
  <1>4. Undisturbed(mem.server[s].site.address)
    BY <1>1, <1>2, OthersMeddle
  <1>5. mem'.server[s].site = mem.server[s].site
    BY <1>3 DEF SameSites
  <1> QED BY <1>2, <1>3, <1>4, <1>5, ServedStays DEF Undisturbed

\* What a job that serves does: it takes up its work, asks for a link, or
\* writes one.
LEMMA ServingSteps ==
  ASSUME TypeInv, NEW j \in Jobs, Course(j), Goes(j), ~Unlock(j),
         Kind(j) \in {"create", "retry", "provision"}
  PROVE  \/ StoreUser(j) \/ StoreServer(j) \/ SetUserLink(j)
         \/ run'[j].pc = "store" \/ run'[j].failed
         \/ /\ ~Removed(j) /\ ~Script(j) /\ ~TableUpdate(j) /\ ~SyncUser(j)
            /\ run[j].pc \in Linking \cup {"status"}
            /\ run'[j].todo = run[j].todo
            /\ run'[j].warned = run[j].warned /\ run'[j].failed = run[j].failed
            /\ Kind(j) = "provision" => run'[j].server = run[j].server
            /\ Kind(j) # "provision" => run'[j].user = run[j].user
  <1>1. run[j] \in Frames /\ Sound(run[j])
    BY FrameOf
  <1>2. CASE Registered(j) \/ Conflict(j) \/ RegisterFails(j)
    <2>1. PICK p \in Missing(j), place \in {"link", "adopt"}, c \in {0, nextClient} :
            Move(j, Answer(j, p, place, c))
      BY <1>2 DEF Registered, Conflict, RegisterFails
    <2>2. run[j].pc = "ensure" /\ p \in run[j].todo
      BY <1>2 DEF Missing, Registered, Conflict, RegisterFails, At
    <2>3. /\ Moved(j, place, {"user", "server", "reply"})
          /\ run'[j].user = p[1] /\ run'[j].server = p[2]
      BY <2>1, AskedEffect
    <2>4. /\ Kind(j) = "provision" => p[2] = run[j].server
          /\ Kind(j) # "provision" => p[1] = run[j].user
      BY <2>2 DEF Course
    <2>5. ~Removed(j) /\ ~Script(j) /\ ~TableUpdate(j) /\ ~SyncUser(j)
      <3>1. ~Removed(j) /\ ~Script(j) /\ ~TableUpdate(j)
        BY <2>2 DEF Removed, Removing, Script, SetUp, SetupFails, TornDown, TeardownFails,
           TableUpdate, StoreUser, DropUser, StoreServer, DropServer, At
      <3>2. ~SyncUser(j)
        BY <1>1 DEF SyncUser, Missing, Found, Matching, ClientIds, Sound, Kind
      <3> QED BY <3>1, <3>2
    <2> QED BY <2>2, <2>3, <2>4, <2>5, MovedFields DEF Linking
  <1>3. CASE Adopt(j)
    <2>1. run[j].pc = "adopt" /\ Moved(j, "link", {"reply"})
      BY <1>3, AdoptEffect DEF Adopt, At
    <2>2. ~Removed(j) /\ ~Script(j) /\ ~TableUpdate(j) /\ ~SyncUser(j)
      BY <2>1 DEF Removed, Removing, Script, SetUp, SetupFails, TornDown, TeardownFails,
         TableUpdate, StoreUser, DropUser, StoreServer, DropServer, At, SyncUser
    <2> QED BY <2>1, <2>2, MovedFields DEF Linking
  <1>4. CASE EnsureDone(j)
    <2>1. /\ run[j].pc = "ensure"
          /\ Moved(j, "unlock", {}) \/ Moved(j, "status", {})
      BY <1>4, EnsureDoneEffect
    <2>2. ~Removed(j) /\ ~Script(j) /\ ~TableUpdate(j)
      BY <2>1 DEF Removed, Removing, Script, SetUp, SetupFails, TornDown, TeardownFails,
         TableUpdate, StoreUser, DropUser, StoreServer, DropServer, At
    <2>3. ~SyncUser(j)
      BY <1>4, EnsureDoneEffect DEF SyncUser, Missing
    <2> QED BY <2>1, <2>2, <2>3, MovedFields DEF Linking
  <1>5. CASE SetServerStatus(j)
    <2>1. run[j].pc = "status" /\ Moved(j, "unlock", {})
      BY <1>5, AnyEffect DEF SetServerStatus, At
    <2>2. ~Removed(j) /\ ~Script(j) /\ ~TableUpdate(j) /\ ~SyncUser(j)
      BY <2>1 DEF Removed, Removing, Script, SetUp, SetupFails, TornDown, TeardownFails,
         TableUpdate, StoreUser, DropUser, StoreServer, DropServer, At, SyncUser
    <2> QED BY <2>1, <2>2, MovedFields
  <1>6. CASE NoId(j) \/ Script(j)
    <2>1. ~TornDown(j) /\ ~TeardownFails(j)
      BY DEF TornDown, TeardownFails, Course
    <2>2. run'[j].failed \/ run'[j].pc = "store"
      BY <1>6, <2>1, AnyEffect, ScriptEffect DEF Script, Fails, Moved
    <2> QED BY <2>2
  <1>7. ~DropUser(j) /\ ~DropServer(j) /\ ~Listed(j) /\ ~ListFails(j) /\ ~SitesDone(j)
    BY DEF DropUser, DropServer, Listed, ListFails, SitesDone, Course, At
  <1>8. ~Removed(j) /\ ~RemoveFails(j) /\ ~RemoveDone(j)
    BY DEF Removed, RemoveFails, RemoveDone, Removing, Course, At
  <1>9. ~SyncUser(j)
    BY <1>1 DEF SyncUser, Missing, Found, Matching, ClientIds, Sound, Kind
  <1> QED
    BY <1>2, <1>3, <1>4, <1>5, <1>6, <1>7, <1>8, <1>9 DEF Goes, Work

LEMMA RegisteredServes ==
  ASSUME LinkInv, NEW j \in Jobs, Registered(j),
         NEW u \in UserIds, NEW s \in Servers(mem), Served(u, s)
  PROVE  Served(u, s)'
  <1>1. TypeInv /\ SnapshotInv /\ mem \in Documents /\ slave \in [Addresses -> SlaveStates]
    BY FramesOf DEF LinkInv, SnapshotInv, KnownInv
  <1>2. PICK v \in Users(mem), t \in Servers(mem) :
          LET a == mem.server[t].site.address
              new == [id |-> nextClient, email |-> mem.user[v]] IN
          /\ slave' = [slave EXCEPT ![a].records = @ \cup {new}]
          /\ mem' = mem /\ stray' = stray
    BY <1>1, RegisteredEffect
  <1>3. mem.link[u][s] \in Links /\ mem.server[s].site.address \in Addresses
    BY <1>1 DEF Documents, Servers, ServerEntries, Sites
  <1>4. slave[mem.server[s].site.address].records \subseteq slave'[mem.server[s].site.address].records
    BY <1>1, <1>2, <1>3 DEF SlaveStates
  <1> QED BY <1>2, <1>3, <1>4, ServedStays

\* A link that is written and reported as a success serves its user.
LEMMA LinkServes ==
  ASSUME LinkInv, NEW j \in Jobs, SetUserLink(j), ~run'[j].warned
  PROVE  LET s == run[j].server IN
         /\ ~run[j].warned /\ run[j].reply # 0
         /\ mem' = SetLink(mem, run[j].user, s, ReadyLink(run[j].reply))
         /\ mem'.user = mem.user /\ mem'.server = mem.server /\ UNCHANGED slaves
         /\ \A v \in UserIds, t \in ServerIds :
              mem'.link[v][t] = IF v = run[j].user /\ t = s THEN ReadyLink(run[j].reply)
                                                            ELSE mem.link[v][t]
         /\ \A v \in UserIds, t \in Servers(mem) :
              (v = run[j].user /\ t = s) \/ Served(v, t) => Served(v, t)'
  <1> DEFINE u == run[j].user  s == run[j].server  c == run[j].reply
  <1>1. /\ run[j].pc = "link" /\ ReplyTrue(j) /\ mem \in Documents /\ run[j].warned \in BOOLEAN
        /\ UNCHANGED slaves
    <2>1. TypeInv /\ run[j].pc = "link" /\ ReplyTrue(j)
      <3>1. SnapshotInv /\ run[j].pc = "link" /\ ReplyTrue(j)
        BY DEF LinkInv, SetUserLink, At, InLock, Places
      <3> QED BY <3>1 DEF SnapshotInv, KnownInv
    <2>3. UNCHANGED slaves
      BY DEF SetUserLink
    <2>2. run[j] \in Frames /\ mem \in Documents
      BY <2>1, FramesOf
    <2> QED BY <2>1, <2>2, <2>3 DEF Frames
  <1>2. /\ u \in Users(mem) /\ s \in Servers(mem)
        /\ Target(j) = mem.server[s].site.address /\ mem.user = run[j].snap.user
        /\ \E done \in BOOLEAN :
             /\ Save(SetLink(mem, u, s, IF c # 0 THEN ReadyLink(c) ELSE ErrorLink), done)
             /\ run'[j].warned = IF c # 0 /\ done THEN run[j].warned ELSE TRUE
    BY LinkAims
  <1>3. /\ ~run[j].warned /\ c # 0 /\ mem' = SetLink(mem, u, s, ReadyLink(c))
    BY <1>2 DEF Save
  <1>4. /\ mem'.user = mem.user /\ mem'.server = mem.server
        /\ \A v \in UserIds, t \in ServerIds :
             mem'.link[v][t] = IF v = u /\ t = s THEN ReadyLink(c) ELSE mem.link[v][t]
    BY <1>1, <1>3 DEF SetLink, Documents
  <1>5. u \in UserIds /\ s \in ServerIds
    BY <1>2 DEF Users, Servers
  <1>6. /\ \A r \in slave[Target(j)].records : r.id = c => SameProfile(r.email, mem.user[u])
        /\ c \in stray \/ \E r \in slave[Target(j)].records : r.id = c
    BY <1>1, <1>2, <1>3 DEF ReplyTrue, At, EmailOf, ClientIds
  <1>7. mem'.link[u][s] = ReadyLink(c) /\ slave' = slave /\ stray' = stray
    BY <1>1, <1>4, <1>5 DEF slaves
  <1>8. ASSUME NEW v \in UserIds, NEW t \in Servers(mem), (v = u /\ t = s) \/ Served(v, t)
        PROVE  Served(v, t)'
    <2>1. CASE (v = u /\ t = s) /\ c \in stray
      <3>1. mem'.link[v][t] = ReadyLink(c) /\ c \in stray'
        BY <1>7, <2>1
      <3> QED BY <3>1 DEF Served, ReadyLink
    <2>2. CASE (v = u /\ t = s) /\ \E r \in slave[Target(j)].records : r.id = c
      <3>1. PICK r \in slave[Target(j)].records : r.id = c /\ SameProfile(r.email, mem.user[u])
        BY <1>6, <2>2
      <3>2. /\ r \in slave'[mem'.server[t].site.address].records
            /\ mem'.user[v] = mem.user[u] /\ mem'.link[v][t] = ReadyLink(c)
        BY <1>2, <1>4, <1>7, <2>2, <3>1
      <3> QED BY <3>1, <3>2 DEF Served, ReadyLink
    <2>3. CASE v # u \/ t # s
      BY <1>4, <1>7, <1>8, <2>3 DEF Served, Servers
    <2> QED BY <1>6, <2>1, <2>2, <2>3
  <1> QED BY <1>1, <1>3, <1>4, <1>8

LEMMA ServedStep ==
  ASSUME LinkInv, [Next]_vars, NEW j \in Jobs, run'[j].pc \in InLock,
         run[j].pc \in InLock => ServedSoFar(j)
  PROVE  ServedSoFar(j)'
  <1> DEFINE f == run[j]  g == run'[j]
  <1>1. KnownInv /\ TypeInv /\ SnapshotInv /\ mem \in Documents
    BY FramesOf DEF LinkInv, SnapshotInv, KnownInv
  <1>2. SUFFICES ASSUME g.op.kind \in {"create", "retry", "provision"}, ~g.failed, ~g.warned,
                        g.pc \in Linking \cup {"status", "unlock"}
                 PROVE  /\ Aim(j)' \subseteq UserIds \X Servers(mem')
                        /\ \A p \in Aim(j)' : p \in g.todo \/ Served(p[1], p[2])'
    BY DEF ServedSoFar, Kind, At
  <1>3. CASE BeginJob(j)
    <2>1. /\ Kind(j) = "retry" /\ mem' = mem /\ g.op = f.op
          /\ g.user = Op(j).user /\ g.todo = {Op(j).user} \X Servers(mem)
      BY <1>1, <1>2, <1>3, BeginEffect DEF Linking, store, Kind
    <2>2. Op(j).user \in UserIds
      <3>1. f \in Frames /\ Sound(f) /\ f.pc = "waiting"
        BY <1>1, <1>3, FrameOf DEF BeginJob, BeginCreate, BeginRetry, BeginDelete, BeginSync,
           BeginProvision, BeginCleanup, BeginDrop, Begin, At
      <3> QED BY <2>1, <3>1, OpTypes DEF Kind, Op
    <2> QED BY <2>1, <2>2 DEF Aim, Kind
  <1>4. ASSUME ServedSoFar(j), Kind(j) \in {"create", "retry", "provision"}, ~f.failed, ~f.warned,
               f.pc \in Linking \cup {"status", "unlock"}, mem'.user = mem.user,
               Servers(mem') = Servers(mem), g.op = f.op,
               Kind(j) = "provision" => g.server = f.server,
               Kind(j) # "provision" => g.user = f.user,
               \A p \in Aim(j) : p[1] \in UserIds /\ p[2] \in Servers(mem) /\ p = <<p[1], p[2]>> =>
                 \/ p \in g.todo
                 \/ (p \in f.todo \/ Served(p[1], p[2])) => Served(p[1], p[2])'
        PROVE  /\ Aim(j)' \subseteq UserIds \X Servers(mem')
               /\ \A p \in Aim(j)' : p \in g.todo \/ Served(p[1], p[2])'
    <2>1. Aim(j)' = Aim(j)
      BY <1>4 DEF Aim, Users, Kind
    <2>2. /\ Aim(j) \subseteq UserIds \X Servers(mem)
          /\ \A p \in Aim(j) : p \in f.todo \/ Served(p[1], p[2])
      BY <1>4 DEF ServedSoFar, At
    <2> QED BY <1>4, <2>1, <2>2
  <1>5. CASE f.pc \in InLock /\ holder = j /\ g = f /\ Elsewhere
    <2>1. mem'.user = mem.user /\ SameSites(mem, mem')
      BY <1>1, <1>5, TablesStay
    <2>2. \A u \in UserIds, s \in Servers(mem) : Served(u, s) => Served(u, s)'
      BY <1>5, BackgroundServes
    <2> QED BY <1>2, <1>4, <1>5, <2>1, <2>2 DEF SameSites, Kind
  <1>6. CASE f.pc \in InLock /\ Goes(j) /\ ~Unlock(j)
    <2>1. f.pc \in InLock \ {"unlock"} /\ Course(j) /\ f \in Frames
      BY <1>1, <1>6, WorkKeepsLock, FrameOf DEF SnapshotInv, Goes, At
    <2>2. g.op = f.op /\ Kind(j) \in {"create", "retry", "provision"}
      <3>1. g.op = f.op
        BY <1>1, <1>6, <2>1, OpStays
      <3> QED BY <1>2, <3>1 DEF Kind
    <2>3. CASE StoreUser(j)
      <3>1. PICK u \in Fresh(UserIds) : /\ Moved(j, "ensure", {"snap", "user", "todo"})
                                        /\ g.user = u /\ g.todo = {u} \X Servers(mem')
        BY <1>1, <1>2, <2>3, StoreUserEffect DEF Fails
      <3> QED BY <2>2, <2>3, <3>1 DEF Aim, Kind, Fresh, StoreUser
    <2>4. CASE StoreServer(j)
      <3>1. PICK s \in Fresh(ServerIds) :
              /\ Moved(j, "ensure", {"snap", "server", "todo"})
              /\ g.server = s /\ g.todo = Users(mem') \X {s}
              /\ mem' = AddServer(mem, s, Op(j).site, Op(j).name)
        BY <1>1, <1>2, <2>4, StoreServerEffect DEF Fails, Update, Save
      <3>2. s \in Servers(mem')
        <4>1. Sound(f) /\ f.pc = "store" /\ Kind(j) = "provision"
          BY <1>1, <2>4, FrameOf DEF StoreServer, At
        <4>2. Op(j).site \in Sites /\ Op(j).name \in Names
          BY <2>1, <4>1, OpTypes DEF OnSite, Op, Kind
        <4> QED BY <1>1, <3>1, <4>2, AddServerTables DEF Fresh
      <3> QED BY <2>2, <2>4, <3>1, <3>2 DEF Aim, Kind, StoreServer, Users
    <2>5. CASE SetUserLink(j)
      <3>1. /\ ~f.warned /\ mem'.user = mem.user /\ mem'.server = mem.server
            /\ \A v \in UserIds, t \in Servers(mem) :
                 (v = f.user /\ t = f.server) \/ Served(v, t) => Served(v, t)'
        BY <1>2, <2>5, LinkServes
      <3>2. f.pc = "link" /\ Moved(j, "ensure", {"todo", "reply", "warned", "verdict"})
            /\ g.todo = f.todo \ {<<f.user, f.server>>}
        BY <2>5, LinkAims
      <3>3. g.failed = f.failed /\ g.user = f.user /\ g.server = f.server
        BY <3>2, MovedFields
      <3>4. Servers(mem') = Servers(mem)
        BY <3>1 DEF Servers
      <3>5. ServedSoFar(j)
        BY <1>6
      <3> HIDE DEF f, g
      <3>6. ASSUME NEW p \in Aim(j), p[1] \in UserIds, p[2] \in Servers(mem), p = <<p[1], p[2]>>
            PROVE  \/ p \in g.todo
                   \/ (p \in f.todo \/ Served(p[1], p[2])) => Served(p[1], p[2])'
        <4>1. CASE p[1] = f.user /\ p[2] = f.server
          BY <3>1, <3>6, <4>1
        <4>2. CASE p[1] # f.user \/ p[2] # f.server
          BY <3>1, <3>2, <3>6, <4>2
        <4> QED BY <4>1, <4>2
      <3> QED BY <1>2, <1>4, <2>2, <3>1, <3>2, <3>3, <3>4, <3>5, <3>6 DEF Linking
    <2>6. CASE /\ ~Removed(j) /\ ~Script(j) /\ ~TableUpdate(j) /\ ~SyncUser(j) /\ ~SetUserLink(j)
               /\ f.pc \in Linking \cup {"status"}
               /\ g.todo = f.todo /\ g.warned = f.warned /\ g.failed = f.failed
               /\ Kind(j) = "provision" => g.server = f.server
               /\ Kind(j) # "provision" => g.user = f.user
      <3>1. mem'.user = mem.user /\ SameSites(mem, mem')
        BY <1>1, <1>6, <2>6, TablesStay
      <3>2. \A u \in UserIds, s \in Servers(mem) : Served(u, s) => Served(u, s)'
        <4>1. CASE ~Registered(j)
          BY <1>6, <2>6, <4>1, BackgroundServes
        <4>2. CASE Registered(j)
          BY <4>2, RegisteredServes
        <4> QED BY <4>1, <4>2
      <3>3. ServedSoFar(j)
        BY <1>6
      <3> QED BY <1>2, <1>4, <2>2, <2>6, <3>1, <3>2, <3>3 DEF SameSites
    <2>7. g.pc # "store"
      BY <1>2 DEF Linking
    <2> QED BY <1>1, <1>2, <1>6, <2>1, <2>2, <2>3, <2>4, <2>5, <2>6, <2>7, ServingSteps
  <1> QED BY <1>1, <1>3, <1>5, <1>6, StepsOf
LEMMA ClearedStep ==
  ASSUME LinkInv, [Next]_vars, NEW j \in Jobs, run'[j].pc \in InLock,
         run[j].pc \in InLock => ClearedSoFar(j)
  PROVE  ClearedSoFar(j)'
  <1> DEFINE f == run[j]  g == run'[j]
  <1>1. /\ KnownInv /\ TypeInv /\ SnapshotInv /\ mem \in Documents
        /\ slave \in [Addresses -> SlaveStates]
    BY FramesOf DEF LinkInv, SnapshotInv, KnownInv
  <1>2. SUFFICES ASSUME Dropped(j)' \/ Quiet(j, {"delete"})', ~g.warned,
                        NEW s \in Servers(mem') \ g.sites,
                        NEW r \in slave'[mem'.server[s].site.address].records,
                        SameProfile(r.email, g.snap.user[g.user])
                 PROVE  r.id \in stray' \/ (g.pc = "purge" /\ s = g.server /\ r.id \in g.victims)
    BY DEF ClearedSoFar, Matching, EmailOf, At
  <1>3. g.op.kind = "delete" /\ g.pc \in {"sites", "purge", "unlock"} /\ (g.pc = "unlock" => ~g.failed)
    BY <1>2 DEF Dropped, Quiet, Kind, At
  <1>4. CASE BeginJob(j)
    BY <1>1, <1>3, <1>4, BeginEffect DEF Kind
  <1>5. ASSUME Dropped(j) \/ Quiet(j, {"delete"}), ~f.warned, f.pc \in InLock, ClearedSoFar(j),
               Servers(mem') = Servers(mem), mem'.server[s].site = mem.server[s].site,
               g.snap = f.snap, g.user = f.user, s \notin f.sites,
               Undisturbed(mem.server[s].site.address)
        PROVE  r.id \in stray' \/ (f.pc = "purge" /\ s = f.server /\ r.id \in f.victims)
    <2>1. CASE r \in slave[mem.server[s].site.address].records
      BY <1>2, <1>5, <2>1 DEF ClearedSoFar, Matching, EmailOf, At, Undisturbed
    <2>2. CASE r \notin slave[mem.server[s].site.address].records
      BY <1>5, <2>2 DEF Undisturbed
    <2> QED BY <2>1, <2>2
  <1>6. ASSUME mem'.user = mem.user, SameSites(mem, mem')
        PROVE  /\ Servers(mem') = Servers(mem) /\ mem'.server[s].site = mem.server[s].site
               /\ s \in Servers(mem) /\ s \in ServerIds
               /\ mem.server[s].site.address \in Addresses
    <2>1. Servers(mem') = Servers(mem) /\ s \in Servers(mem)
      BY <1>2, <1>6 DEF SameSites
    <2> QED BY <1>1, <1>6, <2>1 DEF SameSites, Documents, Servers, ServerEntries, Sites
  <1>7. CASE f.pc \in InLock /\ holder = j /\ g = f /\ Elsewhere
    <2>1. mem'.user = mem.user /\ SameSites(mem, mem')
      BY <1>1, <1>7, TablesStay
    <2>2. Undisturbed(mem.server[s].site.address)
      BY <1>1, <1>6, <1>7, <2>1, OthersMeddle
    <2>3. Dropped(j) \/ Quiet(j, {"delete"})
      BY <1>2, <1>7 DEF Dropped, Quiet, Kind, At
    <2> QED BY <1>2, <1>5, <1>6, <1>7, <2>1, <2>2, <2>3
  <1>8. CASE f.pc \in InLock /\ Goes(j) /\ ~Unlock(j)
    <2>1. f.pc \in InLock \ {"unlock"} /\ Course(j) /\ f \in Frames /\ Sound(f)
      BY <1>1, <1>8, WorkKeepsLock, FrameOf DEF SnapshotInv, Goes, At
    <2>2. g.op = f.op /\ Kind(j) = "delete"
      <3>1. g.op = f.op
        BY <1>1, <1>8, <2>1, OpStays
      <3> QED BY <1>3, <3>1 DEF Kind
    <2>3. /\ Servers(f.snap) = Servers(mem)
          /\ \A t \in Servers(mem) : AddressOf(j, t) = mem.server[t].site.address
      BY <1>1, <2>1, Knowledge
    <2>4. CASE DropUser(j)
      <3>1. /\ g.sites = Servers(f.snap)
            /\ mem' = RemoveUser(mem, f.user)
        BY <1>1, <1>3, <2>4, DropUserEffect DEF Fails, Moved, Update, Save
      <3>2. f.user \in UserIds
        BY <1>1, <2>1, <2>2, <2>4, LookUps DEF Sound, DropUser, At, Kind
      <3>3. Servers(mem') = Servers(mem)
        BY <1>1, <3>1, <3>2, UserTables
      <3> QED BY <1>2, <2>3, <3>1, <3>3
    <2>5. CASE ~TableUpdate(j)
      <3>1. mem'.user = mem.user /\ SameSites(mem, mem')
        BY <1>1, <1>8, <2>5, TablesStay
      <3>2. /\ Servers(mem') = Servers(mem) /\ mem'.server[s].site = mem.server[s].site
            /\ s \in Servers(mem) /\ mem.server[s].site.address \in Addresses
        BY <1>6, <3>1
      <3>3. g.snap = f.snap /\ g.user = f.user /\ ~Script(j)
        <4>1. ~Script(j)
          BY <2>1, <2>2 DEF Script, SetUp, SetupFails, TornDown, TeardownFails, Sound, Course, At, Kind
        <4> QED BY <1>1, <1>8, <2>1, <2>2, <2>5, <4>1, SnapshotStays
      <3>4. ASSUME Dropped(j), ~f.warned, ~Removed(j), ~Registered(j), s \notin f.sites
            PROVE  r.id \in stray' \/ (f.pc = "purge" /\ s = f.server /\ r.id \in f.victims)
        <4>1. Undisturbed(mem.server[s].site.address)
          BY <1>1, <1>8, <3>2, <3>3, <3>4, OthersMeddle
        <4> QED BY <1>5, <1>8, <3>2, <3>3, <3>4, <4>1
      <3>5. CASE Listed(j)
        <4>1. PICK t \in f.sites :
                /\ g.sites = f.sites \ {t} /\ g.server = t
                /\ Moved(j, "purge", {"sites", "server", "victims"})
                /\ g.victims = ClientIds(Matching(slave[AddressOf(j, t)].records, EmailOf(j, f.user)))
          BY <1>1, <2>2, <3>5, ListedEffect
        <4>2. f.pc = "sites" /\ g.warned = f.warned /\ g.pc = "purge" /\ UNCHANGED <<store, slaves>>
          BY <3>5, <4>1, MovedFields DEF Listed, At
        <4>3. CASE s = t
          <5>1. r \in Matching(slave[AddressOf(j, t)].records, EmailOf(j, f.user))
            BY <1>2, <2>3, <3>2, <3>3, <4>2, <4>3 DEF Matching, EmailOf, store, slaves
          <5> QED BY <4>1, <4>2, <4>3, <5>1 DEF ClientIds
        <4>4. CASE s # t
          <5>1. Dropped(j) /\ ~Removed(j) /\ ~Registered(j)
            BY <2>2, <4>2 DEF Dropped, At, Removed, Removing, Registered
          <5> QED BY <1>2, <3>4, <4>1, <4>2, <4>4, <5>1
        <4> QED BY <4>3, <4>4
      <3>6. CASE Removed(j)
        <4>1. PICK c \in f.victims :
                /\ Only(j, {"victims"}) /\ g.victims = f.victims \ {c}
                /\ slave' = [slave EXCEPT ![Target(j)].records = {q \in @ : q.id # c}]
          BY <1>1, <3>6, RemovingEffect
        <4>2. /\ f.pc = "purge" /\ stray' = stray
              /\ g.pc = f.pc /\ g.server = f.server /\ g.warned = f.warned /\ g.sites = f.sites
          <5>1. f.pc \in Removing /\ stray' = stray
            BY <3>6 DEF Removed, At
          <5>2. f.pc = "purge"
            BY <2>1, <2>2, <5>1 DEF Course, At, Removing
          <5> QED BY <4>1, <5>1, <5>2, FieldsKept
        <4>3. f.server \in Servers(mem) /\ Target(j) = mem.server[f.server].site.address
          BY <2>1, <2>3, <4>2 DEF Sound, Removing, Target
        <4>4. r \in slave[mem.server[s].site.address].records /\ (s = f.server => r.id # c)
          BY <1>1, <1>2, <3>2, <4>1, <4>3 DEF SlaveStates
        <4>5. r.id \in stray \/ (s = f.server /\ r.id \in f.victims)
          BY <1>2, <1>8, <2>2, <3>2, <3>3, <4>2, <4>4
          DEF ClearedSoFar, Dropped, Matching, EmailOf, At
        <4> QED BY <4>1, <4>2, <4>4, <4>5
      <3>7. CASE RemoveDone(j)
        <4>1. f.pc = "purge" /\ Moved(j, "sites", {}) /\ f.victims = {}
          <5>1. f.pc = "purge"
            BY <2>1, <2>2, <3>7 DEF RemoveDone, Course, At, Removing
          <5>2. Moved(j, CASE At(j, {"duplicates"}) -> "ensure"
                            [] At(j, {"extras"}) -> "status"
                            [] At(j, {"purge"}) -> "sites", {}) /\ f.victims = {}
            BY <1>1, <3>7, RemovingEffect
          <5> QED BY <5>1, <5>2 DEF At
        <4>2. g.pc = "sites" /\ g.warned = f.warned /\ g.sites = f.sites
          BY <4>1, MovedFields
        <4>3. Dropped(j) /\ ~Removed(j) /\ ~Registered(j)
          BY <2>2, <4>1 DEF Dropped, At, Removed, Registered
        <4> QED BY <1>2, <3>4, <4>1, <4>2, <4>3
      <3>8. CASE SitesDone(j)
        <4>1. f.pc = "sites" /\ Moved(j, "unlock", {})
          BY <1>1, <3>8, AnyEffect DEF SitesDone, At
        <4>2. g.pc = "unlock" /\ g.warned = f.warned /\ g.sites = f.sites
          BY <4>1, MovedFields
        <4>3. Dropped(j) /\ ~Removed(j) /\ ~Registered(j)
          BY <2>2, <4>1 DEF Dropped, At, Removed, Removing, Registered
        <4> QED BY <1>2, <3>4, <4>1, <4>2, <4>3
      <3>9. ~ListFails(j) /\ ~RemoveFails(j)
        BY <1>1, <1>2, ListFailsEffect, RemovingEffect
      <3>10. ~Registered(j) /\ ~Conflict(j) /\ ~RegisterFails(j) /\ ~Adopt(j) /\ ~SetUserLink(j)
             /\ ~EnsureDone(j) /\ ~SyncUser(j) /\ ~SetServerStatus(j)
        BY <2>1, <2>2 DEF Registered, Conflict, RegisterFails, Adopt, SetUserLink, EnsureDone,
           SyncUser, SetServerStatus, Course, At, Linking, Serving
      <3>11. ~NoId(j)
        BY <2>2 DEF NoId
      <3> QED
        BY <1>8, <2>5, <3>3, <3>5, <3>6, <3>7, <3>8, <3>9, <3>10, <3>11 DEF Goes, Work, TableUpdate
    <2>6. ~StoreUser(j) /\ ~StoreServer(j) /\ ~DropServer(j)
      BY <2>1, <2>2 DEF StoreUser, StoreServer, DropServer, Course, At
    <2> QED BY <2>4, <2>5, <2>6 DEF TableUpdate
  <1> QED BY <1>1, <1>4, <1>7, <1>8, StepsOf

LEMMA PromiseStep == PromiseInv /\ [Next]_vars => PromiseInv'
  BY LinkStep, ServedStep, ClearedStep DEF PromiseInv, At

LEMMA PromiseInit == Init => PromiseInv
  <1>1. Init => \A j \in Jobs : ~At(j, InLock)
    BY DEF Init, At, IdleFrame, InLock
  <1> QED BY <1>1, LinkInit DEF PromiseInv

\* A create, retry or provision that reports no warning has left a working
\* link for every user and server it was about, whatever calls and saves
\* failed on the way.
THEOREM QuietJobsKeepTheirWord == Spec => []QuietJobsServe
  <1>1. ASSUME PromiseInv, NEW j \in Jobs, Quiet(j, {"create", "retry", "provision"})
        PROVE  \A p \in Aim(j) : Served(p[1], p[2])
    <2>1. /\ ServedSoFar(j) /\ Course(j) /\ run[j].pc = "unlock" /\ ~run[j].failed
          /\ ~run[j].warned /\ Kind(j) \in {"create", "retry", "provision"}
      BY <1>1 DEF PromiseInv, LinkInv, SnapshotInv, Quiet, At, InLock, Places
    <2>2. run[j].todo = {}
      BY <2>1 DEF Course, Serving, At
    <2> QED BY <2>1, <2>2 DEF ServedSoFar, At
  <1>2. ASSUME PromiseInv PROVE QuietJobsServe
    <2>1. ASSUME NEW j \in Jobs, Quiet(j, {"create", "retry"}), NEW s \in Servers(mem)
          PROVE  Served(run[j].user, s)
      <3>1. <<run[j].user, s>> \in Aim(j)
        BY <2>1 DEF Aim, Quiet
      <3>2. Quiet(j, {"create", "retry", "provision"})
        BY <2>1 DEF Quiet
      <3> QED BY <1>1, <1>2, <3>1, <3>2
    <2>2. ASSUME NEW j \in Jobs, Quiet(j, {"provision"}), NEW u \in Users(mem)
          PROVE  Served(u, run[j].server)
      <3>1. <<u, run[j].server>> \in Aim(j)
        BY <2>2 DEF Aim, Quiet
      <3>2. Quiet(j, {"create", "retry", "provision"})
        BY <2>2 DEF Quiet
      <3> QED BY <1>1, <1>2, <3>1, <3>2
    <2> QED BY <2>1, <2>2 DEF QuietJobsServe
  <1> QED BY <1>2, PromiseInit, PromiseStep, PTL DEF Spec

\* A delete that reports no warning has left no record of the profile on any
\* registered server.
THEOREM DeletesAreComplete == Spec => []DeleteIsComplete
  <1>1. PromiseInv => DeleteIsComplete
    <2> SUFFICES ASSUME PromiseInv, NEW j \in Jobs, Quiet(j, {"delete"}), NEW s \in Servers(mem),
                        NEW r \in Matching(slave[mem.server[s].site.address].records,
                                           EmailOf(j, run[j].user))
                 PROVE  r \in [id : stray, email : Emails]
      BY DEF DeleteIsComplete
    <2>1. /\ ClearedSoFar(j) /\ Course(j) /\ run[j].pc = "unlock" /\ ~run[j].failed
          /\ ~run[j].warned /\ Kind(j) = "delete" /\ TypeInv
      BY DEF PromiseInv, LinkInv, SnapshotInv, KnownInv, Quiet, At, InLock, Places
    <2>2. run[j].sites = {}
      BY <2>1 DEF Course, At
    <2>3. r.id \in stray
      BY <2>1, <2>2 DEF ClearedSoFar, At
    <2>4. r \in Records
      <3>1. slave \in [Addresses -> SlaveStates] /\ mem \in Documents
        BY <2>1, FramesOf
      <3>2. mem.server[s].site.address \in Addresses
        BY <3>1 DEF Documents, Servers, ServerEntries, Sites
      <3> QED BY <3>1, <3>2 DEF SlaveStates, Matching
    <2> QED BY <2>3, <2>4 DEF Records
  <1> QED BY <1>1, PromiseInit, PromiseStep, PTL DEF Spec

-----------------------------------------------------------------------------
(***************************************************************************)
(* The fourth layer is inductive as long as saves succeed: fullSync goes   *)
(* on when the link it has chosen was not saved, and removes the other     *)
(* records of the user.                                                    *)
(***************************************************************************)
\* A server at which a step writes no link and registers or removes nobody.
LEMMA SiteStays ==
  ASSUME LinkInv, NEW s \in Servers(mem), SiteTrue(s),
         \A u \in UserIds : mem'.link[u][s] = mem.link[u][s],
         mem'.user = mem.user, mem'.server[s].site = mem.server[s].site,
         Undisturbed(Address(s))
  PROVE  SiteTrue(s)'
  <1>1. mem \in Documents /\ s \in ServerIds /\ Users(mem') = Users(mem)
    BY FramesOf DEF LinkInv, SnapshotInv, KnownInv, Servers, Users
  <1>2. ASSUME NEW u \in Users(mem) PROVE Served(u, s)'
    <2>1. u \in UserIds /\ mem.link[u][s] \in Links /\ Served(u, s)
      BY <1>1 DEF Documents, Users, SiteTrue
    <2> QED BY <1>2, <2>1, ServedStays DEF Undisturbed, Address
  <1>3. ASSUME NEW r \in slave'[Address(s)].records
        PROVE  r.id \in stray' \/ \E u \in Users(mem) : mem'.link[u][s] = ReadyLink(r.id)
    <2>1. CASE r \in slave[Address(s)].records
      BY <1>3, <2>1 DEF SiteTrue, Address, Linked, Undisturbed, Users
    <2>2. CASE r \notin slave[Address(s)].records
      BY <1>3, <2>2 DEF Undisturbed
    <2> QED BY <2>1, <2>2
  <1> QED BY <1>1, <1>2, <1>3 DEF SiteTrue, Linked, Address

\* What the steps of a full sync do to the Slaves and the links of the other
\* servers: nothing.
LEMMA SyncElsewhere ==
  ASSUME LinkInv, NEW j \in Jobs, Kind(j) = "sync", run[j].pc \in InLock \ {"unlock"},
         \/ Goes(j) /\ ~Unlock(j)
         \/ Elsewhere /\ holder = j,
         NEW s \in Servers(mem),
         Registered(j) \/ Removed(j) \/ SetUserLink(j) \/ SyncUser(j) => s # run[j].server
  PROVE  /\ mem'.user = mem.user /\ SameSites(mem, mem')
         /\ \A u \in UserIds : mem'.link[u][s] = mem.link[u][s]
         /\ Undisturbed(Address(s))
  <1>1. /\ TypeInv /\ KnownInv /\ SnapshotInv /\ mem \in Documents /\ Course(j) /\ Sound(run[j])
        /\ Servers(run[j].snap) = Servers(mem) /\ SitesDistinct(mem)
        /\ \A t \in Servers(mem) : AddressOf(j, t) = Address(t) /\ Address(t) \in Addresses
        /\ slave \in [Addresses -> SlaveStates]
    BY Knowledge, FramesOf DEF LinkInv, SnapshotInv, KnownInv, Consistent, Address
  <1>2. ~Unlock(j) /\ (Goes(j) => ~TableUpdate(j) /\ ~Script(j))
    <2>1. ~Unlock(j)
      BY DEF Unlock, At
    <2> QED BY <1>1, <2>1, SyncSteps
  <1>3. mem'.user = mem.user /\ SameSites(mem, mem')
    BY <1>1, <1>2, TablesStay
  <1>4. \A u \in UserIds : mem'.link[u][s] = mem.link[u][s]
    <2>1. CASE SetUserLink(j) \/ SyncUser(j)
      <3>1. s \in ServerIds /\ s # run[j].server
        BY <2>1 DEF Servers
      <3>2. PICK u \in Users(mem), link \in Links :
              /\ \A v \in UserIds, t \in ServerIds :
                   \/ mem'.link[v][t] = mem.link[v][t]
                   \/ v = u /\ t = run[j].server /\ mem'.link[v][t] = link
              /\ link.status = "ready" =>
                   \A r \in run[j].seen : r.id = link.client => SameProfile(r.email, mem.user[u])
        BY <2>1, LinkWritten
      <3> QED BY <3>1, <3>2
    <2>2. CASE ~SetUserLink(j) /\ ~SyncUser(j)
      BY <1>1, <1>2, <2>2, LinksStay
    <2> QED BY <2>1, <2>2
  <1>5. Undisturbed(Address(s))
    <2>1. CASE ~Registered(j) /\ ~Removed(j)
      BY <1>1, <1>2, <2>1, OthersMeddle
    <2>2. ASSUME NEW t \in Servers(mem), NEW records, t # s, stray' = stray,
                 slave' = [slave EXCEPT ![Address(t)].records = records]
          PROVE  Undisturbed(Address(s))
      <3>1. Address(s) # Address(t)
        BY <1>1, <2>2 DEF SitesDistinct, Address
      <3>2. slave'[Address(s)] = slave[Address(s)]
        BY <2>2, <3>1
      <3> QED BY <2>2, <3>2 DEF Undisturbed
    <2>3. CASE Registered(j)
      <3>1. PICK u \in Users(mem), t \in Servers(mem) :
              /\ <<u, t>> \in run[j].todo /\ stray' = stray
              /\ slave' = [slave EXCEPT ![Address(t)].records =
                             @ \cup {[id |-> nextClient, email |-> mem.user[u]]}]
        BY <1>1, <2>3, RegisteredEffect DEF Address
      <3>2. t = run[j].server
        BY <1>1, <3>1 DEF Course
      <3> QED BY <2>2, <2>3, <3>1, <3>2
    <2>4. CASE Removed(j)
      <3>1. PICK c \in run[j].victims :
              slave' = [slave EXCEPT ![Target(j)].records = {r \in @ : r.id # c}]
        BY <1>1, <2>4, RemovingEffect
      <3>2. run[j].server \in Servers(mem) /\ Target(j) = Address(run[j].server) /\ stray' = stray
        BY <1>1, <2>4 DEF Removed, At, Sound, Target
      <3> QED BY <2>2, <2>4, <3>1, <3>2
    <2> QED BY <2>1, <2>3, <2>4
  <1> QED BY <1>3, <1>4, <1>5

-----------------------------------------------------------------------------
LEMMA SyncFacts ==
  ASSUME LinkInv, NEW j \in Jobs, InSync(j), NEW s, s = run[j].server
  PROVE  /\ TypeInv /\ SnapshotInv /\ run[j] \in Frames /\ Course(j) /\ mem \in Documents
         /\ slave \in [Addresses -> SlaveStates]
         /\ run[j].pc \in InLock \ {"unlock"} /\ Kind(j) = "sync"
         /\ s \in Servers(mem) /\ s \in ServerIds /\ s \notin run[j].sites
         /\ Target(j) = Address(s) /\ Address(s) \in Addresses
         /\ mem.user = run[j].snap.user /\ Users(mem) = Users(run[j].snap)
         /\ Users(mem) \subseteq UserIds /\ ProfilesDistinct(mem)
         /\ \A r \in run[j].seen : \A q \in slave[Address(s)].records \cup run[j].seen :
              r.id < nextClient /\ (q.id = r.id => q = r)
  <1>1. run[j].pc \in InLock \ {"unlock"} /\ Kind(j) = "sync" /\ run[j].pc \in Syncing
    BY DEF InSync, At, Syncing, Linking, InLock, Places
  <1>2. /\ TypeInv /\ SnapshotInv /\ run[j] \in Frames /\ Course(j) /\ mem \in Documents
        /\ slave \in [Addresses -> SlaveStates] /\ SeenTrue(j) /\ ProfilesDistinct(mem)
        /\ Servers(run[j].snap) = Servers(mem)
        /\ \A t \in Servers(mem) : AddressOf(j, t) = Address(t) /\ Address(t) \in Addresses
        /\ mem.user = run[j].snap.user /\ Users(mem) = Users(run[j].snap)
    BY <1>1, Knowledge, FramesOf DEF LinkInv, SnapshotInv, KnownInv, Consistent, Address, At
  <1>3. s \in Servers(mem) /\ s \notin run[j].sites
    BY <1>1, <1>2 DEF Course, At
  <1> QED BY <1>1, <1>2, <1>3 DEF SeenTrue, Target, Users, Servers

\* Steps between two decisions about the server the sync is at.
LEMMA ProgressStays ==
  ASSUME LinkInv, NEW j \in Jobs, InSync(j), NEW s, s = run[j].server, SiteInProgress(j, s),
         run'[j].todo = run[j].todo, run'[j].seen = run[j].seen,
         \A u \in UserIds : mem'.link[u][s] = mem.link[u][s],
         mem'.user = mem.user, mem'.server[s].site = mem.server[s].site, Undisturbed(Address(s)),
         run[j].pc = "link" => run'[j].pc = "link" /\ run'[j].reply = run[j].reply,
         run'[j].pc = "duplicates" => run[j].pc = "duplicates" /\ run'[j].victims = run[j].victims,
         run[j].pc = "duplicates" => run'[j].pc = "duplicates" \/ run[j].victims = {},
         run'[j].pc = "extras" => run[j].pc = "extras" /\ run'[j].victims = run[j].victims
  PROVE  SiteInProgress(j, s)'
  <1>1. /\ mem \in Documents /\ s \in ServerIds /\ Users(mem) \subseteq UserIds
        /\ Users(mem') = Users(mem) /\ Address(s)' = Address(s)
    BY SyncFacts DEF Users, Address
  <1>2. Finished(j, s)' = Finished(j, s) /\ Finished(j, s) \subseteq Users(mem)
    BY <1>1 DEF Finished
  <1> USE DEF At
  <1>3. ASSUME NEW u \in Finished(j, s) PROVE Served(u, s)'
    <2>1. u \in UserIds /\ mem.link[u][s] \in Links /\ Served(u, s)
      BY <1>1, <1>2 DEF Documents, SiteInProgress
    <2> QED BY <1>3, <2>1, ServedStays DEF Undisturbed, Address
  <1>4. NobodyUnknown(j, s)'
    <2>1. ASSUME NEW r \in slave'[Address(s)].records, r.id \notin stray'
          PROVE  r \in slave[Address(s)].records /\ r.id \notin stray
      BY <2>1 DEF Undisturbed
    <2>2. \A c : Linked(c, s, Finished(j, s)) => \E u \in Finished(j, s) : mem'.link[u][s] = ReadyLink(c)
      BY <1>1, <1>2 DEF Linked
    <2> QED BY <1>1, <1>2, <2>1, <2>2 DEF SiteInProgress, NobodyUnknown, Linked
  <1>5. FinishedClean(j, s)'
    BY <1>1, <1>2 DEF SiteInProgress, FinishedClean, Undisturbed
  <1>6. OthersKept(j, s)'
    BY <1>1, <1>2 DEF SiteInProgress, OthersKept, Undisturbed
  <1>7. ExtrasCaught(j, s)'
    BY <1>1, <1>2 DEF SiteInProgress, ExtrasCaught, Undisturbed, EmailTaken
  <1> QED BY <1>2, <1>3, <1>4, <1>5, <1>6, <1>7 DEF SiteInProgress

\* A registration adds the record the job is about to link.
LEMMA RegisteredProgress ==
  ASSUME LinkInv, NEW j \in Jobs, InSync(j), NEW s, s = run[j].server, SiteInProgress(j, s),
         Registered(j)
  PROVE  run'[j].pc = "link" /\ run'[j].server = s /\ SiteInProgress(j, s)'
  <1>1. /\ SnapshotInv /\ run[j] \in Frames /\ Course(j) /\ s \in Servers(mem)
        /\ Users(mem) \subseteq UserIds /\ slave \in [Addresses -> SlaveStates]
        /\ Kind(j) = "sync" /\ Address(s) \in Addresses
        /\ \A r \in run[j].seen : r.id # nextClient
    <2>1. \A r \in run[j].seen : r.id \in Nat /\ nextClient \in Nat
      BY SyncFacts, FramesOf DEF Frames, Records, Clients
    <2>2. \A r \in run[j].seen : r.id < nextClient
      BY SyncFacts
    <2> QED BY <2>1, <2>2, SyncFacts
  <1>2. PICK u \in Users(mem), t \in Servers(mem) :
          /\ <<u, t>> \in run[j].todo
          /\ slave' = [slave EXCEPT ![Address(t)].records =
                         @ \cup {[id |-> nextClient, email |-> mem.user[u]]}]
          /\ Moved(j, "link", {"user", "server", "reply"})
          /\ run'[j].server = t /\ run'[j].reply = nextClient
          /\ mem' = mem /\ stray' = stray /\ run[j].pc = "ensure"
    BY <1>1, RegisteredEffect DEF Address
  <1> DEFINE new == [id |-> nextClient, email |-> mem.user[u]]
  <1>3. t = s
    BY <1>1, <1>2 DEF Course
  <1>4. /\ run'[j].pc = "link" /\ run'[j].todo = run[j].todo /\ run'[j].seen = run[j].seen
        /\ run'[j].server = s /\ run'[j].reply = nextClient
    BY <1>2, <1>3, MovedFields
  <1>5. slave'[Address(s)].records = slave[Address(s)].records \cup {new} /\ new.id = nextClient
    BY <1>1, <1>2, <1>3 DEF SlaveStates
  <1>6. Address(s)' = Address(s) /\ Finished(j, s)' = Finished(j, s)
    BY <1>2, <1>4 DEF Address, Finished
  <1> HIDE DEF new
  <1> USE DEF At
  <1>7. \A v \in Finished(j, s) : Served(v, s)'
    BY <1>1, RegisteredServes DEF SiteInProgress, Finished
  <1>8. NobodyUnknown(j, s)'
    BY <1>2, <1>4, <1>5, <1>6 DEF SiteInProgress, NobodyUnknown, Linked
  <1>9. FinishedClean(j, s)'
    BY <1>1, <1>2, <1>4, <1>5, <1>6 DEF SiteInProgress, FinishedClean
  <1>10. OthersKept(j, s)'
    BY <1>2, <1>4, <1>5, <1>6 DEF SiteInProgress, OthersKept
  <1>11. ExtrasCaught(j, s)'
    BY <1>4 DEF ExtrasCaught
  <1> QED BY <1>4, <1>6, <1>7, <1>8, <1>9, <1>10, <1>11 DEF SiteInProgress

\* A link that is written finishes its user.
LEMMA LinkProgress ==
  ASSUME LinkInv, NEW j \in Jobs, InSync(j), NEW s, s = run[j].server, SiteInProgress(j, s),
         SetUserLink(j), ~run'[j].warned
  PROVE  run'[j].pc = "ensure" /\ run'[j].server = s /\ SiteInProgress(j, s)'
  <1> DEFINE u == run[j].user  c == run[j].reply
  <1>1. /\ Course(j) /\ s \in Servers(mem) /\ s \in ServerIds
        /\ Users(mem) \subseteq UserIds /\ mem.user = run[j].snap.user
    BY SyncFacts
  <1>2. /\ run[j].pc = "link" /\ u \in Users(mem) /\ <<u, s>> \in run[j].todo
        /\ Moved(j, "ensure", {"todo", "reply", "warned", "verdict"})
        /\ run'[j].todo = run[j].todo \ {<<u, s>>}
    BY LinkAims
  <1>3. /\ mem'.user = mem.user /\ mem'.server = mem.server /\ UNCHANGED slaves
        /\ \A v \in UserIds : mem'.link[v][s] = IF v = u THEN ReadyLink(c) ELSE mem.link[v][s]
        /\ \A v \in UserIds : v = u \/ Served(v, s) => Served(v, s)'
    BY <1>1, LinkServes
  <1>4. /\ run'[j].pc = "ensure" /\ run'[j].server = s /\ run'[j].seen = run[j].seen
    BY <1>2, MovedFields
  <1>5. /\ Address(s)' = Address(s) /\ Users(mem') = Users(mem)
        /\ slave' = slave /\ stray' = stray
    BY <1>3 DEF Address, Users, slaves
  <1>6. Finished(j, s)' = Finished(j, s) \cup {u} /\ u \notin Finished(j, s)
    BY <1>2, <1>5 DEF Finished
  <1>7. \A r \in run[j].seen : ~SameProfile(r.email, mem.user[u])
    BY <1>1, <1>2 DEF Course, At, Found, Matching, EmailOf
  <1>8. Finished(j, s) \subseteq UserIds /\ u \in UserIds
    BY <1>1, <1>2 DEF Finished
  <1>9. \A v \in Finished(j, s) : mem'.link[v][s] = mem.link[v][s]
    BY <1>3, <1>6, <1>8
  <1>10. mem'.link[u][s] = ReadyLink(c)
    BY <1>3, <1>8
  <1> HIDE DEF u, c
  <1> USE DEF At
  <1>11. \A v \in Finished(j, s)' : Served(v, s)'
    BY <1>3, <1>6, <1>8 DEF SiteInProgress
  <1>12. NobodyUnknown(j, s)'
    BY <1>2, <1>4, <1>5, <1>6, <1>9, <1>10 DEF SiteInProgress, NobodyUnknown, Linked, c
  <1>13. FinishedClean(j, s)'
    BY <1>2, <1>3, <1>4, <1>5, <1>6, <1>7, <1>9 DEF SiteInProgress, FinishedClean
  <1>14. OthersKept(j, s)'
    BY <1>3, <1>4, <1>5, <1>6 DEF SiteInProgress, OthersKept
  <1>15. ExtrasCaught(j, s)'
    BY <1>4 DEF ExtrasCaught
  <1> QED BY <1>4, <1>11, <1>12, <1>13, <1>14, <1>15 DEF SiteInProgress

Keeping(j, u, c, done) ==
  LET s == run[j].server IN
  /\ <<u, s>> \in run[j].todo /\ Keeps(j, u, s, c) /\ ReadyLink(c) \in Links
  /\ c < nextClient
  /\ \A r \in slave[Target(j)].records \cup run[j].seen :
       r.id = c => SameProfile(r.email, mem.user[u])
  /\ Save(SetLink(mem, u, s, ReadyLink(c)), done)
  /\ run'[j].todo = run[j].todo \ {<<u, s>>}
  /\ run'[j].victims = ClientIds(Found(j, u)) \ {c}

LEMMA KeptUser ==
  ASSUME LinkInv, NEW j \in Jobs, SyncUser(j)
  PROVE  \E u \in Users(mem), done \in BOOLEAN : \E c \in ClientIds(Found(j, u)) :
           Keeping(j, u, c, done)
  BY SyncAims DEF Keeping

\* A record that is kept finishes its user, once the link to it is saved.
LEMMA KeptProgress ==
  ASSUME {"save", "limbo"} \cap Faults = {}, LinkInv, NEW j \in Jobs, InSync(j),
         NEW s, s = run[j].server, SiteInProgress(j, s), SyncUser(j)
  PROVE  run'[j].pc = "duplicates" /\ run'[j].server = s /\ SiteInProgress(j, s)'
  <1>1. /\ s \in Servers(mem) /\ s \in ServerIds /\ mem \in Documents
        /\ Users(mem) \subseteq UserIds /\ mem.user = run[j].snap.user /\ ProfilesDistinct(mem)
        /\ \A r \in run[j].seen : \A q \in run[j].seen : q.id = r.id => q = r
    BY SyncFacts
  <1>2. run[j].pc = "ensure" /\ Moved(j, "duplicates", {"todo", "victims"})
    BY SyncAims
  <1>3. PICK u \in Users(mem), done \in BOOLEAN : \E c \in ClientIds(Found(j, u)) :
          Keeping(j, u, c, done)
    BY KeptUser
  <1>4. PICK c \in ClientIds(Found(j, u)) :
          /\ <<u, s>> \in run[j].todo
          /\ Save(SetLink(mem, u, s, ReadyLink(c)), done)
          /\ run'[j].todo = run[j].todo \ {<<u, s>>}
          /\ run'[j].victims = ClientIds(Found(j, u)) \ {c}
    BY <1>3 DEF Keeping
  <1>5. PICK kept \in run[j].seen : kept.id = c /\ SameProfile(kept.email, mem.user[u])
    BY <1>1, <1>4 DEF ClientIds, Found, Matching, EmailOf
  <1>6. mem' = SetLink(mem, u, s, ReadyLink(c))
    BY <1>4 DEF Save
  <1>7. /\ mem'.user = mem.user /\ mem'.server = mem.server
        /\ \A v \in UserIds : mem'.link[v][s] = IF v = u THEN ReadyLink(c) ELSE mem.link[v][s]
    BY <1>1, <1>6 DEF SetLink, Documents
  <1>8. /\ run'[j].pc = "duplicates" /\ run'[j].server = s /\ run'[j].seen = run[j].seen
    BY <1>2, MovedFields
  <1>9. /\ Address(s)' = Address(s) /\ Users(mem') = Users(mem)
        /\ slave' = slave /\ stray' = stray
    BY <1>7 DEF Address, Users, slaves, SyncUser
  <1>10. Finished(j, s)' = Finished(j, s) \cup {u} /\ u \notin Finished(j, s)
    BY <1>4, <1>9 DEF Finished
  <1>11. Finished(j, s) \subseteq UserIds /\ Finished(j, s) \subseteq Users(mem) /\ u \in UserIds
    BY <1>1 DEF Finished
  <1>12. \A v \in Finished(j, s) : mem'.link[v][s] = mem.link[v][s]
    BY <1>7, <1>10, <1>11
  <1>13. mem'.link[u][s] = ReadyLink(c)
    BY <1>7, <1>11
  <1> USE DEF At
  <1>14. ASSUME NEW v \in Finished(j, s)' PROVE Served(v, s)'
    <2>1. CASE v = u
      <3>1. kept \in slave[Address(s)].records \/ c \in stray
        BY <1>5, <1>10 DEF SiteInProgress, OthersKept
      <3>2. mem'.link[v][s].status = "ready" /\ mem'.link[v][s].client = c
        BY <1>13, <2>1 DEF ReadyLink
      <3>3. SameProfile(kept.email, mem'.user[v]) /\ stray' = stray
        BY <1>5, <1>7, <1>9, <2>1
      <3>4. mem'.server[s].site.address = Address(s) /\ slave' = slave
        BY <1>7, <1>9 DEF Address
      <3> QED BY <1>5, <3>1, <3>2, <3>3, <3>4 DEF Served
    <2>2. CASE v # u
      <3>1. v \in Finished(j, s) /\ Served(v, s)
        BY <1>10, <1>14, <2>2 DEF SiteInProgress
      <3> QED BY <1>7, <1>9, <1>12, <3>1 DEF Served
    <2> QED BY <2>1, <2>2
  <1>15. NobodyUnknown(j, s)'
    BY <1>2, <1>8, <1>9, <1>10, <1>12 DEF SiteInProgress, NobodyUnknown, Linked
  <1>16. FinishedClean(j, s)'
    <2>1. ASSUME NEW v \in Finished(j, s)', NEW r \in run[j].seen \cap slave[Address(s)].records,
                 SameProfile(r.email, mem.user[v])
          PROVE  r.id \in stray \/ mem'.link[v][s] = ReadyLink(r.id) \/ r.id \in run'[j].victims
      <3>1. CASE v = u
        <4>1. r.id \in ClientIds(Found(j, u))
          BY <1>1, <2>1, <3>1 DEF ClientIds, Found, Matching, EmailOf
        <4> QED BY <1>4, <1>13, <3>1, <4>1
      <3>2. CASE v # u
        <4>1. v \in Finished(j, s)
          BY <1>10, <2>1, <3>2
        <4> QED BY <1>2, <1>12, <2>1, <4>1 DEF SiteInProgress, FinishedClean
      <3> QED BY <3>1, <3>2
    <2> QED BY <1>7, <1>8, <1>9, <2>1 DEF FinishedClean
  <1>17. OthersKept(j, s)'
    <2>1. ASSUME NEW v \in Users(mem) \ Finished(j, s)', NEW r \in run[j].seen,
                 SameProfile(r.email, mem.user[v])
          PROVE  /\ r \in slave[Address(s)].records \/ r.id \in stray
                 /\ r.id \notin run'[j].victims
      <3>1. v \notin Finished(j, s) /\ v # u
        BY <1>10, <2>1
      <3>2. r.id \notin ClientIds(Found(j, u))
        <4>1. SUFFICES ASSUME NEW q \in run[j].seen, q.id = r.id, SameProfile(q.email, mem.user[u])
                       PROVE  FALSE
          BY <1>1 DEF ClientIds, Found, Matching, EmailOf
        <4>2. q = r
          BY <1>1, <4>1
        <4> QED BY <1>1, <2>1, <3>1, <4>1, <4>2 DEF ProfilesDistinct, SameProfile
      <3> QED BY <1>4, <2>1, <3>1, <3>2 DEF SiteInProgress, OthersKept
    <2> QED BY <1>7, <1>8, <1>9, <2>1 DEF OthersKept
  <1>18. ExtrasCaught(j, s)'
    BY <1>8 DEF ExtrasCaught
  <1> QED BY <1>8, <1>14, <1>15, <1>16, <1>17, <1>18 DEF SiteInProgress

\* What is removed serves nobody and is no other user's.
LEMMA RemovedProgress ==
  ASSUME LinkInv, NEW j \in Jobs, InSync(j), NEW s, s = run[j].server, SiteInProgress(j, s),
         Removed(j)
  PROVE  run'[j].pc \in Syncing /\ run'[j].server = s /\ SiteInProgress(j, s)'
  <1>1. /\ TypeInv /\ Course(j) /\ s \in Servers(mem) /\ s \in ServerIds /\ mem \in Documents
        /\ Users(mem) \subseteq UserIds /\ slave \in [Addresses -> SlaveStates]
        /\ Target(j) = Address(s) /\ Address(s) \in Addresses
        /\ Kind(j) = "sync" /\ run[j].pc \in InLock
    BY SyncFacts
  <1>2. PICK c \in run[j].victims :
          /\ Only(j, {"victims"}) /\ run'[j].victims = run[j].victims \ {c}
          /\ slave' = [slave EXCEPT ![Target(j)].records = {r \in @ : r.id # c}]
    BY <1>1, RemovingEffect
  <1>3. run[j].pc \in {"duplicates", "extras"} /\ mem' = mem /\ stray' = stray
    BY <1>1 DEF Removed, At, Removing, Course, store
  <1>4. /\ run'[j].pc = run[j].pc /\ run'[j].server = s /\ run'[j].seen = run[j].seen
        /\ run'[j].todo = run[j].todo
    BY <1>2, FieldsKept
  <1>5. slave'[Address(s)].records = {r \in slave[Address(s)].records : r.id # c}
    BY <1>1, <1>2 DEF SlaveStates
  <1>6. Address(s)' = Address(s) /\ Finished(j, s)' = Finished(j, s)
    BY <1>3, <1>4 DEF Address, Finished
  <1>7. \A v \in UserIds : mem.link[v][s] # ReadyLink(c)
    BY <1>1, <1>2, <1>3 DEF LinkInv, VictimsUnlinked, At, Removing
  <1> USE DEF At
  <1>8. ASSUME NEW v \in Finished(j, s) PROVE Served(v, s)'
    <2>1. v \in UserIds /\ mem.link[v][s] \in Links /\ Served(v, s)
      BY <1>1 DEF Documents, SiteInProgress, Finished
    <2>2. \A r \in slave[Address(s)].records :
            r \in slave'[Address(s)].records \/ mem.link[v][s] # ReadyLink(r.id)
      BY <1>5, <1>7, <2>1
    <2> QED BY <1>3, <2>1, <2>2, ServedStays DEF Address
  <1>9. NobodyUnknown(j, s)'
    BY <1>3, <1>4, <1>5, <1>6 DEF SiteInProgress, NobodyUnknown, Linked
  <1>10. FinishedClean(j, s)'
    BY <1>2, <1>3, <1>4, <1>5, <1>6 DEF SiteInProgress, FinishedClean
  <1>11. OthersKept(j, s)'
    <2>1. CASE run[j].pc = "extras"
      <3>1. Finished(j, s) = Users(mem)
        BY <1>1, <2>1 DEF Finished, Course, Serving
      <3> QED BY <1>3, <1>6, <3>1 DEF OthersKept
    <2>2. CASE run[j].pc = "duplicates"
      BY <1>2, <1>3, <1>4, <1>5, <1>6, <2>2 DEF SiteInProgress, OthersKept
    <2> QED BY <1>3, <2>1, <2>2
  <1>12. ExtrasCaught(j, s)'
    BY <1>2, <1>3, <1>4, <1>5, <1>6 DEF SiteInProgress, ExtrasCaught
  <1> QED
    BY <1>3, <1>4, <1>6, <1>8, <1>9, <1>10, <1>11, <1>12 DEF SiteInProgress, Syncing

\* When every user has had its turn, whoever is left over and is no user's is
\* removed.
LEMMA ExtrasProgress ==
  ASSUME LinkInv, NEW j \in Jobs, InSync(j), NEW s, s = run[j].server, SiteInProgress(j, s),
         EnsureDone(j)
  PROVE  run'[j].pc = "extras" /\ run'[j].server = s /\ SiteInProgress(j, s)'
  <1>1. /\ TypeInv /\ Kind(j) = "sync" /\ mem.user = run[j].snap.user
        /\ Users(mem) = Users(run[j].snap)
    BY SyncFacts
  <1>2. /\ run[j].pc = "ensure" /\ Moved(j, "extras", {"victims"})
        /\ run'[j].victims = ClientIds({r \in run[j].seen : ~EmailTaken(run[j].snap, r.email)})
    BY <1>1, EnsureDoneEffect
  <1>3. /\ run'[j].pc = "extras" /\ run'[j].server = s /\ run'[j].seen = run[j].seen
        /\ run'[j].todo = run[j].todo /\ mem' = mem /\ slave' = slave /\ stray' = stray
    BY <1>2, MovedFields DEF EnsureDone, store, slaves
  <1>4. /\ Address(s)' = Address(s) /\ Finished(j, s)' = Finished(j, s)
        /\ \A u : Served(u, s) => Served(u, s)'
    BY <1>3 DEF Address, Finished, Served
  <1> USE DEF At
  <1>5. NobodyUnknown(j, s)' /\ FinishedClean(j, s)' /\ OthersKept(j, s)'
    BY <1>2, <1>3, <1>4 DEF SiteInProgress, NobodyUnknown, FinishedClean, OthersKept, Linked
  <1>6. ASSUME NEW r \in run[j].seen, ~EmailTaken(mem, r.email)
        PROVE  r.id \in run'[j].victims
    <2>1. ~EmailTaken(run[j].snap, r.email)
      BY <1>1, <1>6 DEF EmailTaken
    <2> QED BY <1>2, <2>1 DEF ClientIds
  <1>7. ExtrasCaught(j, s)'
    BY <1>3, <1>4, <1>6 DEF ExtrasCaught
  <1> QED BY <1>3, <1>4, <1>5, <1>7 DEF SiteInProgress

\* The sync comes to a server.
LEMMA ListedProgress ==
  ASSUME LinkInv, NEW j \in Jobs, run[j].pc \in InLock \ {"unlock"}, Kind(j) = "sync", Listed(j)
  PROVE  /\ run'[j].pc = "ensure" /\ run'[j].sites = run[j].sites \ {run'[j].server}
         /\ run'[j].server \in run[j].sites
         /\ \A s : s = run'[j].server => SiteInProgress(j, s)'
  <1>1. /\ TypeInv /\ Users(mem) = Users(run[j].snap)
        /\ Servers(run[j].snap) = Servers(mem) /\ Sound(run[j])
        /\ \A s \in Servers(mem) : AddressOf(j, s) = Address(s)
    BY Knowledge DEF LinkInv, Address
  <1>2. PICK s \in run[j].sites :
          /\ run'[j].sites = run[j].sites \ {s} /\ run'[j].server = s
          /\ Moved(j, "ensure", {"sites", "server", "seen", "verdict", "todo"})
          /\ run'[j].seen = slave[AddressOf(j, s)].records
          /\ run'[j].todo = Users(run[j].snap) \X {s}
    BY <1>1, ListedEffect
  <1>3. run'[j].pc = "ensure" /\ mem' = mem /\ slave' = slave /\ stray' = stray
    BY <1>2 DEF Moved, Listed, store, slaves
  <1>4. s \in Servers(mem) /\ run'[j].seen = slave[Address(s)].records
    BY <1>1, <1>2, <1>3 DEF Sound, Listed, At
  <1>5. Address(s)' = Address(s) /\ Finished(j, s)' = {}
    BY <1>1, <1>2, <1>3 DEF Address, Finished
  <1> USE DEF At
  <1>6. NobodyUnknown(j, s)' /\ FinishedClean(j, s)' /\ OthersKept(j, s)' /\ ExtrasCaught(j, s)'
    BY <1>3, <1>4, <1>5 DEF NobodyUnknown, FinishedClean, OthersKept, ExtrasCaught
  <1>7. SiteInProgress(j, s)'
    BY <1>5, <1>6 DEF SiteInProgress
  <1> QED BY <1>2, <1>3, <1>7

\* The sync is done with a server.
LEMMA SiteDone ==
  ASSUME LinkInv, NEW j \in Jobs, InSync(j), NEW s, s = run[j].server, SiteInProgress(j, s),
         RemoveDone(j), run[j].pc = "extras"
  PROVE  run'[j].pc = "status" /\ SiteTrue(s)'
  <1>1. TypeInv /\ Course(j) /\ Kind(j) = "sync" /\ Users(mem) \subseteq UserIds
    BY SyncFacts
  <1>2. /\ run[j].victims = {}
        /\ run'[j].pc = CASE At(j, {"duplicates"}) -> "ensure"
                          [] At(j, {"extras"}) -> "status"
                          [] At(j, {"purge"}) -> "sites"
    BY <1>1, RemovingEffect DEF Moved
  <1>3. run'[j].pc = "status"
    BY <1>2 DEF At
  <1>4. mem' = mem /\ slave' = slave /\ stray' = stray
    BY DEF RemoveDone, store, slaves
  <1>5. Finished(j, s) = Users(mem)
    BY <1>1 DEF Finished, Course, At, Serving
  <1> USE DEF At
  <1>6. \A u \in Users(mem) : Served(u, s)'
    BY <1>4, <1>5 DEF SiteInProgress, Served
  <1>7. ASSUME NEW r \in slave[Address(s)].records
        PROVE  r.id \in stray \/ Linked(r.id, s, Users(mem))
    <2>1. CASE r \in run[j].seen
      <3>1. EmailTaken(mem, r.email) \/ r.id \in stray
        BY <1>2, <1>7, <2>1 DEF SiteInProgress, ExtrasCaught
      <3>2. ASSUME NEW u \in Users(mem), SameProfile(mem.user[u], r.email)
            PROVE  r.id \in stray \/ mem.link[u][s] = ReadyLink(r.id)
        <4>1. SameProfile(r.email, mem.user[u])
          BY <3>2 DEF SameProfile
        <4> QED BY <1>5, <1>7, <2>1, <3>2, <4>1 DEF SiteInProgress, FinishedClean
      <3> QED BY <3>1, <3>2 DEF EmailTaken, Linked, SameProfile
    <2>2. CASE r \notin run[j].seen
      BY <1>5, <1>7, <2>2 DEF SiteInProgress, NobodyUnknown
    <2> QED BY <2>1, <2>2
  <1>8. SiteTrue(s)'
    BY <1>4, <1>6, <1>7 DEF SiteTrue, Address, Linked
  <1> QED BY <1>3, <1>8

\* One step of the sync at the server it is at.
LEMMA SyncHere ==
  ASSUME {"save", "limbo"} \cap Faults = {}, LinkInv, NEW j \in Jobs, InSync(j),
         NEW s, s = run[j].server, SiteInProgress(j, s), Goes(j), ~Unlock(j), ~run'[j].warned
  PROVE  IF run'[j].pc \in Syncing /\ s = run'[j].server THEN SiteInProgress(j, s)' ELSE SiteTrue(s)'
  <1>1. /\ TypeInv /\ Course(j) /\ Kind(j) = "sync" /\ run[j].pc \in InLock \ {"unlock"}
        /\ s \in Servers(mem) /\ run[j].pc \in Syncing
    BY SyncFacts DEF InSync, At
  <1>2. ~Listed(j) /\ ~ListFails(j) /\ ~SitesDone(j) /\ ~SetServerStatus(j) /\ ~NoId(j)
    BY <1>1 DEF Listed, ListFails, SitesDone, SetServerStatus, NoId, At, Syncing, Linking
  <1>3. ~TableUpdate(j) /\ ~Script(j)
    BY <1>1, SyncSteps
  <1>4. ~RemoveFails(j)
    BY <1>1, RemovingEffect
  <1>5. ASSUME ~Registered(j), ~Removed(j), ~SetUserLink(j), ~SyncUser(j)
        PROVE  /\ \A u \in UserIds : mem'.link[u][s] = mem.link[u][s]
               /\ mem'.user = mem.user /\ mem'.server[s].site = mem.server[s].site
               /\ Undisturbed(Address(s))
    BY <1>1, <1>5, SyncElsewhere DEF SameSites
  <1>6. ASSUME run'[j].pc \in Syncing, run'[j].server = s, SiteInProgress(j, s)'
        PROVE  IF run'[j].pc \in Syncing /\ s = run'[j].server THEN SiteInProgress(j, s)'
                                                               ELSE SiteTrue(s)'
    BY <1>6
  <1>7. CASE Registered(j)
    BY <1>6, <1>7, RegisteredProgress DEF Syncing, Linking
  <1>8. CASE SetUserLink(j)
    BY <1>6, <1>8, LinkProgress DEF Syncing, Linking
  <1>9. CASE SyncUser(j)
    BY <1>6, <1>9, KeptProgress DEF Syncing
  <1>10. CASE Removed(j)
    BY <1>6, <1>10, RemovedProgress
  <1>11. CASE EnsureDone(j)
    BY <1>6, <1>11, ExtrasProgress DEF Syncing
  <1>12. CASE (Conflict(j) \/ RegisterFails(j)) /\ ~Registered(j)
    <2>1. PICK p \in Missing(j), place \in {"link", "adopt"} :
            Move(j, Answer(j, p, place, 0))
      BY <1>12 DEF Conflict, RegisterFails
    <2>2. run[j].pc = "ensure" /\ p \in run[j].todo
      BY <1>12 DEF Missing, Conflict, RegisterFails, At
    <2>3. Moved(j, place, {"user", "server", "reply"}) /\ run'[j].server = p[2]
      BY <1>1, <2>1, AskedEffect
    <2>4. /\ run'[j].pc \in {"link", "adopt"} /\ run'[j].server = s
          /\ run'[j].todo = run[j].todo /\ run'[j].seen = run[j].seen
      BY <1>1, <2>2, <2>3, MovedFields DEF Course
    <2>5. ~Registered(j) /\ ~Removed(j) /\ ~SetUserLink(j) /\ ~SyncUser(j)
      <3>1. ~SyncUser(j)
        BY <1>1, <2>4, SyncUserEffect DEF Moved
      <3> QED BY <1>12, <2>2, <3>1 DEF Removed, SetUserLink, At, Removing
    <2>6. SiteInProgress(j, s)'
      BY <1>5, <2>2, <2>4, <2>5, ProgressStays
    <2> QED BY <1>6, <2>4, <2>6 DEF Syncing, Linking
  <1>13. CASE Adopt(j)
    <2>1. run[j].pc = "adopt" /\ Moved(j, "link", {"reply"})
      BY <1>1, <1>13, AdoptEffect DEF Adopt, At
    <2>2. /\ run'[j].pc = "link" /\ run'[j].server = s
          /\ run'[j].todo = run[j].todo /\ run'[j].seen = run[j].seen
      BY <2>1, MovedFields
    <2>3. ~Registered(j) /\ ~Removed(j) /\ ~SetUserLink(j) /\ ~SyncUser(j)
      BY <2>1 DEF Registered, Removed, SetUserLink, SyncUser, At, Removing
    <2>4. SiteInProgress(j, s)'
      BY <1>5, <2>1, <2>2, <2>3, ProgressStays
    <2> QED BY <1>6, <2>2, <2>4 DEF Syncing, Linking
  <1>14. CASE RemoveDone(j) /\ run[j].pc = "extras"
    BY <1>14, SiteDone DEF Syncing, Linking
  <1>15. CASE RemoveDone(j) /\ run[j].pc # "extras"
    <2>1. run[j].pc = "duplicates"
      BY <1>1, <1>15 DEF RemoveDone, At, Removing, Course
    <2>2. run[j].victims = {} /\ Moved(j, "ensure", {})
      BY <1>1, <1>15, <2>1, RemovingEffect DEF At
    <2>3. /\ run'[j].pc = "ensure" /\ run'[j].server = s
          /\ run'[j].todo = run[j].todo /\ run'[j].seen = run[j].seen
      BY <2>2, MovedFields
    <2>4. ~Registered(j) /\ ~Removed(j) /\ ~SetUserLink(j) /\ ~SyncUser(j)
      BY <2>1, <2>2 DEF Registered, Removed, SetUserLink, SyncUser, At
    <2>5. SiteInProgress(j, s)'
      BY <1>5, <2>1, <2>2, <2>3, <2>4, ProgressStays
    <2> QED BY <1>6, <2>3, <2>5 DEF Syncing, Linking
  <1> QED
    BY <1>2, <1>3, <1>4, <1>7, <1>8, <1>9, <1>10, <1>11, <1>12, <1>13, <1>14, <1>15
    DEF Goes, Work, TableUpdate

LEMMA SyncStep ==
  ASSUME {"save", "limbo"} \cap Faults = {}, LinkInv, [Next]_vars,
         NEW j \in Jobs, run'[j].pc \in InLock, run[j].pc \in InLock => SyncSoFar(j)
  PROVE  SyncSoFar(j)'
  <1> DEFINE f == run[j]  g == run'[j]
  <1>1. KnownInv /\ TypeInv /\ SnapshotInv /\ mem \in Documents
    BY FramesOf DEF LinkInv, SnapshotInv, KnownInv
  <1>2. SUFFICES ASSUME g.op.kind = "sync", ~g.warned, NEW s \in Servers(mem') \ g.sites
                 PROVE  IF g.pc \in Syncing /\ s = g.server THEN SiteInProgress(j, s)'
                                                            ELSE SiteTrue(s)'
    BY DEF SyncSoFar, Kind, At
  <1>3. CASE BeginJob(j)
    BY <1>1, <1>2, <1>3, BeginEffect DEF Kind, store
  <1>4. CASE f.pc \in InLock /\ holder = j /\ g = f /\ Elsewhere
    <2>1. mem'.user = mem.user /\ SameSites(mem, mem') /\ mem'.link = mem.link
      BY <1>1, <1>4, TablesStay, LinksStay
    <2>2. s \in Servers(mem) /\ mem'.server[s].site = mem.server[s].site
      BY <1>2, <2>1 DEF SameSites
    <2>3. Undisturbed(Address(s))
      <3>1. Address(s) \in Addresses
        BY <1>1, <2>2 DEF Address, Documents, Servers, ServerEntries, Sites
      <3> QED BY <1>1, <1>4, <3>1, OthersMeddle
    <2>4. Kind(j) = "sync" /\ SyncSoFar(j) /\ ~f.warned /\ s \notin f.sites
      BY <1>2, <1>4 DEF Kind
    <2>5. CASE f.pc \in Syncing /\ s = f.server
      <3>1. InSync(j) /\ SiteInProgress(j, s)
        BY <2>2, <2>4, <2>5 DEF InSync, At, SyncSoFar
      <3>2. SiteInProgress(j, s)'
        BY <1>4, <2>1, <2>2, <2>3, <2>5, <3>1, ProgressStays
      <3> QED BY <1>4, <2>5, <3>2
    <2>6. CASE ~(f.pc \in Syncing /\ s = f.server)
      <3>1. SiteTrue(s)
        BY <2>2, <2>4, <2>6 DEF At, SyncSoFar
      <3>2. SiteTrue(s)'
        BY <2>1, <2>2, <2>3, <3>1, SiteStays
      <3> QED BY <1>4, <2>6, <3>2
    <2> QED BY <2>5, <2>6
  <1>5. CASE f.pc \in InLock /\ Goes(j) /\ ~Unlock(j)
    <2>1. f.pc \in InLock \ {"unlock"} /\ Course(j)
      BY <1>1, <1>5, WorkKeepsLock DEF SnapshotInv, Goes, At
    <2>2. Kind(j) = "sync"
      <3>1. g.op = f.op
        BY <1>1, <1>5, <2>1, OpStays
      <3> QED BY <1>2, <3>1 DEF Kind
    <2>3. /\ ~TableUpdate(j) /\ ~Script(j) /\ ~f.warned
          /\ Listed(j) \/ ListFails(j) \/ g.sites = f.sites
          /\ g.pc \in Syncing /\ ~Listed(j) => f.pc \in Syncing /\ g.server = f.server
      BY <1>1, <1>2, <1>5, <2>1, <2>2, SyncSteps
    <2>4. ~ListFails(j)
      BY <1>1, <1>2, ListFailsEffect
    <2>5. mem'.user = mem.user /\ SameSites(mem, mem')
      BY <1>1, <1>5, <2>3, TablesStay
    <2>6. s \in Servers(mem) /\ mem'.server[s].site = mem.server[s].site
      BY <1>2, <2>5 DEF SameSites
    <2>7. ASSUME s \notin f.sites, ~(f.pc \in Syncing /\ s = f.server) PROVE SiteTrue(s)'
      <3>1. SiteTrue(s)
        BY <1>5, <2>2, <2>3, <2>6, <2>7 DEF At, SyncSoFar
      <3>2. Registered(j) \/ Removed(j) \/ SetUserLink(j) \/ SyncUser(j) => f.pc \in Syncing
        BY <2>1, <2>2 DEF Registered, Removed, SetUserLink, SyncUser, At, Syncing, Linking,
           Removing, Course
      <3>3. /\ \A u \in UserIds : mem'.link[u][s] = mem.link[u][s]
            /\ Undisturbed(Address(s))
        BY <1>5, <2>1, <2>2, <2>6, <2>7, <3>2, SyncElsewhere
      <3> QED BY <2>5, <2>6, <3>1, <3>3, SiteStays
    <2>8. CASE Listed(j)
      <3>1. /\ g.pc = "ensure" /\ g.sites = f.sites \ {g.server} /\ f.pc = "sites"
            /\ s = g.server => SiteInProgress(j, s)'
        BY <2>1, <2>2, <2>8, ListedProgress DEF Listed, At
      <3>2. s # g.server => SiteTrue(s)'
        BY <1>2, <2>7, <3>1 DEF Syncing, Linking
      <3> QED BY <3>1, <3>2 DEF Syncing, Linking
    <2>9. CASE ~Listed(j) /\ f.pc \in Syncing /\ s = f.server
      <3>1. InSync(j) /\ s \notin f.sites
        BY <1>2, <2>2, <2>3, <2>4, <2>9 DEF InSync, At
      <3>2. SiteInProgress(j, s)
        BY <1>5, <2>2, <2>3, <2>6, <2>9, <3>1 DEF At, SyncSoFar
      <3> QED BY <1>2, <1>5, <2>9, <3>1, <3>2, SyncHere
    <2>10. CASE ~Listed(j) /\ ~(f.pc \in Syncing /\ s = f.server)
      <3>1. s \notin f.sites
        BY <1>2, <2>3, <2>4, <2>10
      <3> QED BY <2>3, <2>7, <2>10, <3>1
    <2> QED BY <2>8, <2>9, <2>10
  <1> QED BY <1>1, <1>3, <1>4, <1>5, StepsOf

LEMMA SyncInit == Init => SyncInv
  <1>1. Init => \A j \in Jobs : ~At(j, InLock)
    BY DEF Init, At, IdleFrame, InLock
  <1> QED BY <1>1, LinkInit DEF SyncInv

\* Where saves of the document succeed, a full sync that reports no warning was
\* authoritative: on every server each user has exactly the record its link
\* names, and nobody else has one, though calls failed and landed late, servers
\* were renamed and Master was killed on the way.  A failed save breaks this:
\* fullSync does not look at the error of setUserLink.
THEOREM SyncsAreAuthoritative ==
  {"save", "limbo"} \cap Faults = {} => (Spec => []SyncIsAuthoritative)
  <1> SUFFICES ASSUME {"save", "limbo"} \cap Faults = {} PROVE Spec => []SyncIsAuthoritative
    OBVIOUS
  <1>1. SyncInv /\ [Next]_vars => SyncInv'
    BY LinkStep, SyncStep DEF SyncInv, At
  <1>2. SyncInv => SyncIsAuthoritative
    <2> SUFFICES ASSUME SyncInv, NEW j \in Jobs, Quiet(j, {"sync"}), NEW s \in Servers(mem)
                 PROVE  SiteTrue(s)
      BY DEF SyncIsAuthoritative, SiteTrue, Linked, Address
    <2>1. /\ SyncSoFar(j) /\ Course(j) /\ run[j].pc = "unlock" /\ ~run[j].failed
          /\ ~run[j].warned /\ Kind(j) = "sync"
      BY DEF SyncInv, LinkInv, SnapshotInv, Quiet, At, InLock, Places
    <2>2. run[j].sites = {}
      BY <2>1 DEF Course, At
    <2> QED BY <2>1, <2>2 DEF SyncSoFar, At, Syncing, Linking
  <1> QED BY <1>1, <1>2, SyncInit, PTL DEF Spec

=============================================================================
