\* Failing calls, kills and power failures.
SPECIFICATION FairSpec
CONSTANTS
  Updates = {u1, u2, u3}
  Nobody = Nobody
  Main = Main
  Faults = {"io", "kill", "power"}
INVARIANTS TypeOK SeenSurvives OnlyWhole NoGaps
PROPERTIES AtomicSpec ComesUp
