SPECIFICATION Spec
CONSTANTS
  idle = idle
  main = main
  timer = timer
  a = a
  s1 = s1
  s2 = s2
  s3 = s3
  h1 = h1
  Thread = {idle, main, timer, a}
  Idle = idle
  Main = main
  List = {}
  RT_THREAD_PRIORITY_MAX = 4
  InitPriority <- MCPriority
  InitTick <- MCTick
  T = timer
  Timer = {s1, s2, s3, h1}
  Soft = {s1, s2, s3}
  Setups <- UseSetups
  RT_TICK_MAX = 11
  Times = {1, 2}
  Controlled = {s3}
  MaxLag = 1
  Irq = TRUE
  InGap = FALSE
  Calls <- UseCalls
INVARIANTS
  
  DueInOrder
  TimerThreadWatches
