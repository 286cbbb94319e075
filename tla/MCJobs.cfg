\* Two jobs, a manager that remembers one, a stream with a short channel; no
\* symmetry, for what must happen.
SPECIFICATION FairSpec
CONSTANTS
  JobIds = {j1, j2}
  Streams = {f1}
  Afters <- MCAfters
  NoJob = NoJob
  MapCap = 1
  LogCap = 2
  ChannelCap = 1
  MaxEvents = 3
\* When every job and every stream has ended, the system rests.
CHECK_DEADLOCK FALSE
INVARIANTS TypeOK ManagerAgrees FollowersMissNothing FollowersInOrder StatusComesLast
PROPERTIES LifeSpec StreamsEnd
