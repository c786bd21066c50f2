SPECIFICATION FairSpec
CONSTANTS
  Pids = {p1, p2, p3}
  Invocations <- MCInvocations
  NoFile = NoFile
  Empty = Empty
  Group = Group
  Dead = Dead
  MaxReuse = 1
INVARIANTS
  TypeOK
  DaemonIsRegistered
  KillsTheDaemon
PROPERTIES
  KillEnds
CHECK_DEADLOCK FALSE
