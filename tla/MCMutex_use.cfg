SPECIFICATION Spec
CONSTANTS
  idle = idle
  main = main
  a = a
  b = b
  m1 = m1
  m2 = m2
  none = none
  Thread = {idle, main, a, b}
  Idle = idle
  Main = main
  Mutexes = {m1, m2}
  Created <- OneOfThem
  List = {m1, m2}
  NoThread = none
  RT_THREAD_PRIORITY_MAX = 4
  InitPriority <- MCPriority
  InitTick <- MCTick
  Flag <- EitherFlag
  MaxWait = 1
  MaxSleep = 1
  RT_MUTEX_HOLD_MAX = 2
  Calls <- UseCalls
INVARIANTS
  WinnerOwns
  OwnerAgrees
  OwnerInherits
  PriorityRestored
PROPERTY OwnerLetsGo
