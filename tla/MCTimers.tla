------------------------------ MODULE MCTimers ------------------------------
(* Small instances of Timers: a thread more urgent than the timer thread and *)
(* one less urgent; two soft timers, a soft and a hard one, or a single one.  *)
EXTENDS Timers, TLC

CONSTANTS idle, main, timer, a, s1, s2, s3, h1

MCPriority == [t \in Thread |-> CASE t = idle  -> 3
                                  [] t = main  -> 2
                                  [] t = timer -> 1
                                  [] OTHER     -> 0]

MCTick == [t \in Thread |-> 1]

One(n, p) == [init_tick |-> n, periodic |-> p]

UseSetups == {(s1 :> One(1, FALSE)) @@ (s2 :> One(2, TRUE)),
              (s1 :> One(1, TRUE)) @@ (h1 :> One(2, TRUE)),
              s3 :> One(1, FALSE)}

UseCalls == [t \in Thread |-> CASE t = main -> {"start", "stop", "control"}
                                [] t = a    -> {"start", "sleep"}
                                [] OTHER    -> {}]
=============================================================================
