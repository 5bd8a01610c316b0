SPECIFICATION FairSpec
CONSTANTS
  idle = idle
  main = main
  a = a
  b = b
  defunct = defunct
  Thread = {idle, main, a}
  Idle = idle
  Main = main
  Defunct = defunct
  List = {defunct}
  Static = {idle, main}
  RT_THREAD_PRIORITY_MAX = 2
  InitPriority <- MCEqual
  InitTick <- MCTick
  Calls <- LiveCalls
  MaxSleep = 1
  MaxNest = 1
  Careful = TRUE
PROPERTIES
  SleepEnds
  TurnComes
