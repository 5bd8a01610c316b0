------------------------------ MODULE MCMutex ------------------------------
(* Small instances of Mutex: the idle thread and threads of three           *)
(* priorities, with one mutex or two.                                       *)
EXTENDS Mutex

CONSTANTS idle, main, a, b, m1, m2, none

MCPriority == [t \in Thread |-> CASE t = idle -> 3
                                  [] t = main -> 2
                                  [] t = a    -> 1
                                  [] OTHER    -> 0]

MCTick == [t \in Thread |-> 1]

EitherFlag == [l \in List |-> IF l = m1 THEN "FIFO" ELSE "PRIO"]

OneOfThem == {{m1}, {m2}}

UseCalls == {"take", "release", "sleep", "delete"}

=============================================================================
