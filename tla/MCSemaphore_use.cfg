SPECIFICATION Spec
CONSTANTS
  idle = idle
  main = main
  a = a
  b = b
  sem = sem
  Thread = {idle, main, a, b}
  Idle = idle
  Main = main
  Sem = sem
  List = {sem}
  RT_THREAD_PRIORITY_MAX = 3
  InitPriority <- MCPriority
  InitTick <- MCTick
  Flag <- PrioFlag
  MaxWait = 2
  InitValue = 1
  RT_SEM_VALUE_MAX = 2
  Calls <- UseCalls
INVARIANTS
  NoTokenHeldBack
  WaitersWait
  UrgentFirst
  WakesPreempt
  
 
