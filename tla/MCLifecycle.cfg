\* Calls of the script, one after the other and at once; kills, reboots, process
\* ids that are used again, and the binary started by hand.
SPECIFICATION Spec
CONSTANTS
  Pids = {p1, p2, p3}
  NoPid = NoPid
  Calls = {c1, c2}
  MaxSaves = 2
  MaxTroubles = 3
  Environment = {"kill", "hand", "reboot", "reuse", "overlap"}
SYMMETRY Symmetry
INVARIANTS TypeOK NoLostUpdates PidFileTrue
PROPERTIES StopStops StrangersSpared StartSucceeds PidFileKept
\* When the calls are used up, the system rests.
CHECK_DEADLOCK FALSE
