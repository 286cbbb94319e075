\* Two requests; an operator who may hurry, broken calls and streams, restarts.
SPECIFICATION FairSpec
CONSTANTS
  Jobs = {j1, j2}
  Sites = {s1, s2}
  NoSite = NoSite
  NoJob = NoJob
  Faults = {"call", "stream", "restart"}
INVARIANTS TypeOK DialogTellsTruth OfferMatches
PROPERTIES NeverStuck
