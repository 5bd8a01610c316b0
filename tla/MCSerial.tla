------------------------------ MODULE MCSerial ------------------------------
(* Small instances of Serial: the idle thread and the shell, the console    *)
(* and a second device.                                                     *)
EXTENDS Serial

CONSTANTS idle, finsh, rx, d1, d2, nodev

MCPriority == [t \in Thread |-> IF t = idle THEN 1 ELSE 0]

MCTick == [t \in Thread |-> 1]

FifoFlag == [l \in List |-> "FIFO"]

UseBursts == {<<1>>, <<2>>, <<1, 2>>}

UseCalls == {"take", "irq"}
=============================================================================
