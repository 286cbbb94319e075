\* Two VPS; servers are set up, cleaned up, dropped and renamed around a user.
SPECIFICATION Spec
CONSTANTS
  u1 = u1  u2 = u2  s1 = s1  s2 = s2  j1 = j1  j2 = j2
  ann = ann  Ann = Ann  bob = bob  a1 = a1  a2 = a2  d1 = d1  d2 = d2
  blue = blue  red = red
  UserIds = {u1}
  ServerIds = {s1, s2}
  Emails = {ann}
  Normal <- MCNormal
  Addresses = {a1, a2}
  Domains = {d1}
  Names = {blue}
  NoUser = NoUser
  NoServer = NoServer
  Jobs = {j1, j2}
  Requests <- ServerRequests
  Free = Free
  NoRequest = NoRequest
  Faults = {"limbo", "crash"}
  InitialDocument <- OneUser
  InitialSlaves <- NoSlaves
  FirstClient = 1
  MaxClients = 1
  MaxLate = 0
SYMMETRY ServerSymmetry
INVARIANTS OneJobAtATime DocumentsConsistent DeletedStayGone
