SPECIFICATION SerialFairSpec
CONSTANTS
  idle = idle
  finsh = finsh
  rx = rx
  d1 = d1
  d2 = d2
  nodev = nodev
  Thread = {idle, finsh}
  Idle = idle
  Main = finsh
  List = {rx}
  RT_THREAD_PRIORITY_MAX = 2
  InitPriority <- MCPriority
  InitTick <- MCTick
  Flag <- FifoFlag
  MaxWait = 1
  Sem = rx
  InitValue = 0
  RT_SEM_VALUE_MAX = 2
  Calls <- UseCalls
  Shell = finsh
  Switchers = {finsh}
  Device = {d1, d2}
  Console = d1
  NoDevice = nodev
  bufsz = 3
  Bursts <- UseBursts
INVARIANTS
  KeepsLatest
  ShellNotDeaf
  OpenAgrees
PROPERTY ByteComesToShell
