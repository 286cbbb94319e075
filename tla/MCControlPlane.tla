--------------------------- MODULE MCControlPlane ---------------------------
(***************************************************************************)
(* Small instances of ControlPlane for TLC.  Each cfg picks one document,  *)
(* one set of Slaves, one set of requests and the faults.                  *)
(***************************************************************************)
EXTENDS ControlPlane, TLC

CONSTANTS u1, u2, s1, s2, j1, j2, ann, Ann, bob, a1, a2, d1, d2, blue, red

MCNormal == [e \in Emails |-> IF e = Ann THEN ann ELSE e]

\* Ids and slots are drawn, never compared; the documents of MCUsers and
\* MCServers name no user or no server, those of the other runs do.
Symmetry == Permutations(Jobs)
UserSymmetry == Symmetry \cup Permutations(UserIds)
ServerSymmetry == Symmetry \cup Permutations(ServerIds)

Site(a, d) == [address |-> a, domain |-> d]
Entry(a, d) == [site |-> Site(a, d), name |-> blue, status |-> "ready"]
Record(c, e) == [id |-> c, email |-> e]
Slave(records) == [installed |-> TRUE, records |-> records]

(***************************************************************************)
(* Documents.                                                              *)
(***************************************************************************)
OneServer ==
  [EmptyDocument EXCEPT !.server[s1] = Entry(a1, d1)]
OneUser == [EmptyDocument EXCEPT !.user[u1] = ann]

(***************************************************************************)
(* Slaves.  "Messy" holds a duplicate of ann under another spelling, older *)
(* than the linked record, and a client of nobody.                         *)
(***************************************************************************)
NoSlaves == [a \in Addresses |-> Bare]
EmptySlaves == [a \in Addresses |-> Slave({})]
MessySlaves ==
  [a \in Addresses |->
     Slave({Record(1, Ann), Record(2, ann), Record(3, bob)})]
LinkedToSecond ==
  [OneServer EXCEPT !.user[u1] = ann, !.link[u1][s1] = ReadyLink(2)]

(***************************************************************************)
(* Requests.                                                               *)
(***************************************************************************)
UserRequests ==
  [kind : {"create"}, email : {ann, Ann}] \cup
  [kind : {"retry", "delete"}, user : UserIds] \cup
  [kind : {"sync"}]

SyncRequests ==
  [kind : {"create"}, email : {ann, bob}] \cup
  [kind : {"delete"}, user : UserIds] \cup
  [kind : {"sync"}]

ServerRequests ==
  [kind : {"provision"}, site : {Site(a1, d1), Site(a2, d1)}, name : {blue}] \cup
  [kind : {"cleanup"}, site : {Site(a1, d1)}] \cup
  [kind : {"uninstall", "forget"}, server : ServerIds] \cup
  [kind : {"retry"}, user : UserIds]

CleanupRequests ==
  [kind : {"provision", "cleanup"}, site : {Site(a1, d1)}, name : {blue}]

LiveRequests ==
  [kind : {"create"}, email : {ann}] \cup
  [kind : {"delete"}, user : UserIds] \cup
  [kind : {"uninstall"}, server : ServerIds] \cup
  [kind : {"sync"}]

SaveRequests ==
  [kind : {"provision"}, site : {Site(a1, d1)}, name : {blue}] \cup
  [kind : {"uninstall", "forget"}, server : ServerIds] \cup
  [kind : {"sync"}]
=============================================================================
