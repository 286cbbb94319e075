\* Does cleaning up a failed installation spare registered servers?
SPECIFICATION Spec
CONSTANTS
  u1 = u1  u2 = u2  s1 = s1  s2 = s2  j1 = j1  j2 = j2
  ann = ann  Ann = Ann  bob = bob  a1 = a1  a2 = a2  d1 = d1  d2 = d2
  blue = blue  red = red
  UserIds = {u1}
  ServerIds = {s1}
  Emails = {ann}
  Normal <- MCNormal
  Addresses = {a1}
  Domains = {d1}
  Names = {blue}
  NoUser = NoUser
  NoServer = NoServer
  Jobs = {j1, j2}
  Requests <- CleanupRequests
  Free = Free
  NoRequest = NoRequest
  Faults = {}
  InitialDocument <- OneUser
  InitialSlaves <- NoSlaves
  FirstClient = 1
  MaxClients = 1
  MaxLate = 0
SYMMETRY Symmetry
PROPERTIES CleanupSparesRegistered
