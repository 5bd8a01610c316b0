SPECIFICATION Spec
CONSTANTS
  idle = idle
  main = main
  a = a
  b = b
  defunct = defunct
  Thread = {idle, main, a, b}
  Idle = idle
  Main = main
  Defunct = defunct
  List = {defunct}
  Static = {idle, main}
  RT_THREAD_PRIORITY_MAX = 3
  InitPriority <- MCPriority
  InitTick <- MCShort
  Calls <- UseCalls
  MaxSleep = 1
  MaxNest = 1
  Careful = TRUE
INVARIANTS
  ReadyQueue
  StatAgrees
  HighestRuns
  LinkedOnce
  ClosedIsUnused
PROPERTY
  ClosedStaysClosed
