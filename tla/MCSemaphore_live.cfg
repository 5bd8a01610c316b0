SPECIFICATION FairSpec
CONSTANTS
  idle = idle
  main = main
  a = a
  b = b
  sem = sem
  Thread = {idle, main, a}
  Idle = idle
  Main = main
  Sem = sem
  List = {sem}
  RT_THREAD_PRIORITY_MAX = 3
  InitPriority <- MCPriority
  InitTick <- MCTick
  Flag <- FifoFlag
  MaxWait = 1
  InitValue = 0
  RT_SEM_VALUE_MAX = 2
  Calls <- LiveCalls
PROPERTY EveryWaitEnds
