---------------------------- MODULE MasterState ----------------------------
(***************************************************************************)
(* The document Master keeps in master.json (model.go) and the callbacks   *)
(* the handlers and jobs hand to Store.Update.  Every callback is a pure   *)
(* function of the current document; who calls it, when, and what happens  *)
(* when the save fails is the business of ControlPlane.                    *)
(*                                                                         *)
(* Ids are the random ids of util.go.  A table maps every id that may ever *)
(* be drawn to its entry or to "no entry", so the slices of the code are   *)
(* sets here: nothing but the order of work depends on their order.  Keys, *)
(* passwords, tokens, time stamps and error texts are not kept.            *)
(***************************************************************************)
EXTENDS Integers

CONSTANTS
  UserIds,      \* the ids randomID may draw for a user
  ServerIds,    \* the ids randomID may draw for a server
  Emails,       \* profile names as operators and Slaves spell them
  Normal,       \* normalizeEmail: lower case, trimmed
  Addresses,    \* normalized SSH addresses, one per VPS
  Domains,      \* normalized DuckDNS domains
  Names,        \* server display names
  NoUser,       \* no entry in the user table
  NoServer      \* no entry in the server table

Sites == [address : Addresses, domain : Domains]
Statuses == {"ready", "partial", "error"}
ServerEntries == [site : Sites, name : Names, status : Statuses]

ASSUME NormalAssumption == Normal \in [Emails -> Emails]
ASSUME NoEntryAssumption == NoUser \notin Emails /\ NoServer \notin ServerEntries

(* A client is the number of a Slave record; 0 is no client. *)
Clients == Nat
Links == [status : {"none", "error", "ready"}, client : Clients]
NoLink == [status |-> "none", client |-> 0]
ErrorLink == [status |-> "error", client |-> 0]
ReadyLink(c) == [status |-> "ready", client |-> c]

Documents ==
  [server : [ServerIds -> ServerEntries \cup {NoServer}],
   user   : [UserIds -> Emails \cup {NoUser}],
   link   : [UserIds -> [ServerIds -> Links]]]

EmptyDocument ==
  [server |-> [s \in ServerIds |-> NoServer],
   user   |-> [u \in UserIds |-> NoUser],
   link   |-> [u \in UserIds |-> [s \in ServerIds |-> NoLink]]]

Users(d) == {u \in UserIds : d.user[u] # NoUser}
Servers(d) == {s \in ServerIds : d.server[s] # NoServer}

SameProfile(e, f) == Normal[e] = Normal[f]
EmailTaken(d, e) == \E u \in Users(d) : SameProfile(d.user[u], e)
\* Mutant: a server collides only if address and domain are both taken.
SiteTakenByBoth(d, site) == \E s \in Servers(d) : d.server[s].site = site

SiteTaken(d, site) ==
  \E s \in Servers(d) : \/ d.server[s].site.address = site.address
                        \/ d.server[s].site.domain = site.domain

(***************************************************************************)
(* The callbacks.                                                          *)
(***************************************************************************)
\* Mutant: the new user has no map of links.
AddUserWithoutLinks(d, u, e) ==
  [d EXCEPT !.user[u] = e, !.link[u] = [s \in {} |-> NoLink]]

AddUser(d, u, e) ==
  [d EXCEPT !.user[u] = e, !.link[u] = [s \in ServerIds |-> NoLink]]

RemoveUser(d, u) ==
  [d EXCEPT !.user[u] = NoUser, !.link[u] = [s \in ServerIds |-> NoLink]]

AddServer(d, s, site, name) ==
  [d EXCEPT !.server[s] = [site |-> site, name |-> name, status |-> "ready"]]

ForgetServer(d, s) ==
  [d EXCEPT !.server[s] = NoServer,
            !.link = [u \in UserIds |-> [d.link[u] EXCEPT ![s] = NoLink]]]

SetLink(d, u, s, link) == [d EXCEPT !.link[u][s] = link]
SetStatus(d, s, status) == [d EXCEPT !.server[s].status = status]
SetName(d, s, name) == [d EXCEPT !.server[s].name = name]

(***************************************************************************)
(* What makes a document consistent.                                       *)
(***************************************************************************)
LinksResolve(d) ==
  \A u \in UserIds, s \in ServerIds :
    d.link[u][s] # NoLink => u \in Users(d) /\ s \in Servers(d)

ProfilesDistinct(d) ==
  \A u, v \in Users(d) : u # v => ~SameProfile(d.user[u], d.user[v])

SitesDistinct(d) ==
  \A s, t \in Servers(d) :
    s # t => /\ d.server[s].site.address # d.server[t].site.address
             /\ d.server[s].site.domain # d.server[t].site.domain

Consistent(d) == LinksResolve(d) /\ ProfilesDistinct(d) /\ SitesDistinct(d)
=============================================================================
