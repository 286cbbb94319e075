\* One server; users are created, retried, deleted and synchronised by two jobs.
SPECIFICATION Spec
CONSTANTS
  u1 = u1  u2 = u2  s1 = s1  s2 = s2  j1 = j1  j2 = j2
  ann = ann  Ann = Ann  bob = bob  a1 = a1  a2 = a2  d1 = d1  d2 = d2
  blue = blue  red = red
  UserIds = {u1, u2}
  ServerIds = {s1}
  Emails = {ann, Ann}
  Normal <- MCNormal
  Addresses = {a1}
  Domains = {d1}
  Names = {blue}
  NoUser = NoUser
  NoServer = NoServer
  Jobs = {j1, j2}
  Requests <- UserRequests
  Free = Free
  NoRequest = NoRequest
  Faults = {"save", "late"}
  InitialDocument <- OneServer
  InitialSlaves <- EmptySlaves
  FirstClient = 1
  MaxClients = 2
  MaxLate = 1
SYMMETRY UserSymmetry
INVARIANTS TypeOK QuietJobsServe DeleteIsComplete
PROPERTIES NoStrayClients
