SPECIFICATION Spec
CONSTANTS
  idle = idle
  main = main
  a = a
  b = b
  box = box
  boxsenders = boxsenders
  pool = pool
  queue = queue
  queuesenders = queuesenders
  event = event
  irq = irq
  b1 = b1
  b2 = b2
  m1 = m1
  mi = mi
  nothing = nothing
  Thread = {idle, main, a, b}
  Idle = idle
  Main = main
  List = {box, boxsenders, pool, queue, queuesenders, event}
  RT_THREAD_PRIORITY_MAX = 3
  InitPriority <- MCPriority
  InitTick <- MCTick
  Flag <- MCFlag
  MaxWait = 1
  Nothing = nothing
  Calls <- UseCalls
  Times <- UseTimes
  Careful = TRUE
  Mb = box
  MbSenders = boxsenders
  Mail = {b1, b2}
  Mp = pool
  Block = {b1, b2}
  Mq = queue
  MqSenders = queuesenders
  max_msgs = 2
  Message = {m1}
  Irq = irq
  IrqMessage = mi
  Event = event
  Bit = {1, 2}
  Request <- UseRequest
  Setups <- UseSetups
INVARIANTS
  OneHolder
  NoWakeUpLost
  DeadlineKept
  WellLinked
  ReceivedWasAsked
PROPERTIES
  
  
  ClearedOnce
