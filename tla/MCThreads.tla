----------------------------- MODULE MCThreads -----------------------------
(* Small instances of Threads: the idle thread, a main thread and two more. *)
EXTENDS Threads

CONSTANTS idle, main, a, b, defunct

MCPriority == [t \in Thread |-> CASE t = idle -> 2
                                  [] t = main -> 1
                                  [] t = a    -> 1
                                  [] OTHER    -> 0]

\* With two priorities: main and a share theirs.
MCEqual == [t \in Thread |-> IF t = idle THEN 1 ELSE 0]

MCTick == [t \in Thread |-> IF t = main THEN 2 ELSE 1]

MCShort == [t \in Thread |-> 1]

\* The life of a thread, from creation to release, and all that happens to it
\* meanwhile.  rt_thread_control is left out: it does not reschedule.
UseCalls == {"sleep", "suspend", "resume", "suspend other", "critical",
             "create", "startup", "close", "exit"}

\* Calls after which a thread is ready again by itself.
LiveCalls == {"yield", "sleep", "startup", "critical", "priority"}

=============================================================================
