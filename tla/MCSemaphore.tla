---------------------------- MODULE MCSemaphore ----------------------------
(* Small instances of Semaphore: the idle thread and two or three others.  *)
EXTENDS Semaphore

CONSTANTS idle, main, a, b, sem

MCPriority == [t \in Thread |-> CASE t = idle -> 2
                                  [] t = main -> 1
                                  [] t = a    -> 1
                                  [] OTHER    -> 0]

MCTick == [t \in Thread |-> 1]

FifoFlag == [l \in List |-> "FIFO"]
PrioFlag == [l \in List |-> "PRIO"]

UseCalls == {"take", "release", "irq", "reset", "delete"}
LiveCalls == {"take", "irq"}

=============================================================================
