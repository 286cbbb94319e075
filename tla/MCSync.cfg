\* One Slave with a duplicate and a foreign client; full syncs beside creates and deletes.
SPECIFICATION Spec
CONSTANTS
  u1 = u1  u2 = u2  s1 = s1  s2 = s2  j1 = j1  j2 = j2
  ann = ann  Ann = Ann  bob = bob  a1 = a1  a2 = a2  d1 = d1  d2 = d2
  blue = blue  red = red
  UserIds = {u1, u2}
  ServerIds = {s1}
  Emails = {ann, Ann, bob}
  Normal <- MCNormal
  Addresses = {a1}
  Domains = {d1}
  Names = {blue}
  NoUser = NoUser
  NoServer = NoServer
  Jobs = {j1, j2}
  Requests <- SyncRequests
  Free = Free
  NoRequest = NoRequest
  Faults = {"late", "crash"}
  InitialDocument <- LinkedToSecond
  InitialSlaves <- MessySlaves
  FirstClient = 4
  MaxClients = 5
  MaxLate = 1
SYMMETRY Symmetry
INVARIANTS SyncIsAuthoritative
