CONSTANTS
  main = main
  agent1 = agent1
  agent2 = agent2
  none = none
  Agents <- MCAgents
  Main <- main
  None <- none
  Addrs <- MCAddrs
  Values <- MCValues
  NotifyCounts <- MCNotifyCounts
  Procs = 2
SPECIFICATION FairSpec
INVARIANTS
  TypeOK
  ParkedExactly
  NoLostWakeup
  AgentsCounted
  JoinedIsQuiescent
  TrapsOnlyInDeadlock
PROPERTIES
  NoOvertaking
  TimedWaitReturns
  ChangedCellWakes
  ThreadsWaitReturns
CHECK_DEADLOCK FALSE
