---------------------------- MODULE MCMessaging ----------------------------
(* Small instances of Messaging: the idle thread and three others, two of   *)
(* them of the same priority, blocks and messages that do not suffice.      *)
EXTENDS Messaging

CONSTANTS idle, main, a, b, box, boxsenders, pool, queue, queuesenders, event, irq,
          b1, b2, m1, mi, nothing

MCPriority == [t \in Thread |-> CASE t = idle -> 2
                                  [] t = main -> 1
                                  [] t = a    -> 1
                                  [] OTHER    -> 0]

MCTick == [t \in Thread |-> 1]

MCFlag == [l \in List |-> IF l \in {queue, queuesenders} THEN "PRIO" ELSE "FIFO"]

UseTimes == [t \in Thread |-> CASE t = main -> {RT_WAITING_FOREVER}
                                [] t = a    -> {0, 1}
                                [] OTHER    -> {RT_WAITING_FOREVER}]

UseSetups == {[objects |-> {"mb", "mp"}, size |-> 1, blocks |-> <<b1, b2>>,
               threads |-> {a, b}],
              [objects |-> {"mb", "mp"}, size |-> 2, blocks |-> <<b1, b2>>,
               threads |-> {b}],
              [objects |-> {"mq"}, size |-> 1, blocks |-> <<>>,
               threads |-> {a, b}],
              [objects |-> {"ev"}, size |-> 1, blocks |-> <<>>,
               threads |-> {a, b}]}

UseRequest ==
  [t \in Thread |->
     CASE t = main -> {<<{1}, [all |-> TRUE, clear |-> TRUE], 0>>}
       [] t = a    -> {<<{1}, [all |-> FALSE, clear |-> c], 1>> : c \in BOOLEAN}
                        \cup {<<{1, 2}, [all |-> x, clear |-> TRUE], 1>> : x \in BOOLEAN}
       [] t = b    -> {<<w, o, RT_WAITING_FOREVER>> : w \in {{1, 2}}, o \in Option}
       [] OTHER    -> {}]

\* main also resets and deletes, b also sends urgent mails and messages.
UseCalls ==
  LET common == {"mbsend", "mbrecv", "alloc", "free", "mqsend", "mqrecv",
                 "evsend", "evrecv"}
  IN  [u \in Thread \cup {Irq} |->
         CASE u = main -> common \cup {"mbreset", "mbdelete", "mpdelete", "mqreset",
                                       "mqdelete", "evreset", "evdelete"}
           [] u = a    -> common
           [] u = b    -> common \cup {"mburgent", "mqurgent"}
           [] u = irq  -> {"mqsend", "evsend"}
           [] OTHER    -> {}]
=============================================================================
