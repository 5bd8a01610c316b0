----------------------------- MODULE Messaging -----------------------------
(***************************************************************************)
(* Threads that pass blocks of a memory pool through a mailbox, the mail   *)
(* being the address of the block, messages through a message queue, or    *)
(* flags through an event.  A thread makes the calls in any order: it      *)
(* allocates a block, sends it, receives one or frees the one it holds.    *)
(***************************************************************************)
EXTENDS Mailbox, MemPool, MessageQueue, Event

CONSTANT Setups  \* applications: the objects they create, the size of the
                 \* mailbox, the blocks of the pool and the threads they start

\* The calls that take more than one step
LongCall == {"mbsend", "mbrecv", "mbdelete", "alloc", "mpdelete", "mqsend",
             "mqrecv", "mqdelete", "evrecv", "evdelete"}

ASSUME MessagingAssumption ==
  /\ Nothing \notin LongCall
  /\ Block \subseteq Mail /\ Nothing \notin Block /\ Block \cap Message = {}
  /\ \A s \in Setups :
       /\ s.size \in Nat \ {0} /\ s.blocks \in Seq(Block)
       /\ \A i, j \in 1 .. Len(s.blocks) : s.blocks[i] = s.blocks[j] => i = j

VARIABLES setup

obj == <<loop, hand, mb, mp, mqown, evown, setup>>
vars == <<k, pc, mode, obj>>

Init ==
  /\ Boot /\ LoopInit
  /\ setup \in Setups
  /\ MbInit(setup.size, "mb" \in setup.objects)
  /\ MpInit(setup.blocks, "mp" \in setup.objects)
  /\ MqInit("mq" \in setup.objects)
  /\ EvInit("ev" \in setup.objects)

Step(t) ==
  \/ MbStep(t) /\ UNCHANGED <<mp, mqown, evown, setup>>
  \/ MpStep(t) /\ UNCHANGED <<mb, mqown, evown, setup>>
  \/ MqStep(t) /\ UNCHANGED <<mb, mp, evown, setup>>
  \/ EvStep(t) /\ UNCHANGED <<mb, mp, mqown, setup>>
  \/ LoopInside(t) /\ UNCHANGED <<mb, mp, mqown, evown, setup>>

Next == \/ \E t \in Thread : Step(t)
        \/ \E u \in setup.threads : Start(Main, u) /\ UNCHANGED obj
        \/ MqIrqSend /\ UNCHANGED <<mb, mp, evown, setup>>
        \/ \E e \in Wanted : EvIrqSend(e) /\ UNCHANGED <<mb, mp, mqown, setup>>
        \/ LoopTick /\ UNCHANGED <<mb, mp, mqown, evown, setup>>

Spec == Init /\ [][Next]_vars

-----------------------------------------------------------------------------
\* The types of the objects and of the kernel data.
TypeOK ==
  /\ LoopTypeOK /\ MbTypeOK /\ MpTypeOK /\ MqTypeOK /\ EvTypeOK
  /\ pc \in [Thread -> {"user", "wait", "woken", "again", "schedule", "link",
                        "linkfirst", "copyout", "delete", "delete1", "purge",
                        "purge1"}]
  /\ hand \in [Thread -> Block \cup Message \cup {Nothing}]

\* A block is in one place at most: free, in the mailbox, or in the hand of one
\* thread (rt_mp_alloc and rt_mb_recv never give it to two); block_free_count
\* counts the free ones ("RT_ASSERT(block_ptr != RT_NULL)").
OneHolder ==
  LET holders(b) == {t \in Thread : hand[t] = b}
      spots(q, b) == {i \in 1 .. Len(q) : q[i] = b}
      places(b) == ({"hand"} \X holders(b)) \cup ({"mail"} \X spots(Mails, b))
                     \cup ({"free"} \X spots(mp.block_list, b))
  IN  /\ \A b \in Block : \A x, y \in places(b) : x = y
      /\ mp.block_free_count = Len(mp.block_list)

\* No thread is left waiting for an object that has been deleted.
NoneWaitsOnDeleted ==
  /\ ~ MbExists => k.list[Mb] = <<>> /\ k.list[MbSenders] = <<>>
  /\ ~ MpExists => k.list[Mp] = <<>>
  /\ ~ MqExists => k.list[Mq] = <<>> /\ k.list[MqSenders] = <<>>
  /\ ~ EvExists => k.list[Event] = <<>>

\* No thread waits for what is there, and none for an object that is gone: in
\* whatever order threads are woken, overtaken, time out or come back, and
\* whatever an interrupt handler sends meanwhile, no wake-up is lost.
NoWakeUpLost ==
  /\ NoMailMissed /\ NoBlockMissed /\ NoMessageMissed /\ NoEventHeldBack
  /\ NoneWaitsOnDeleted

\* The fields are in range, and a thread that was overtaken and waits again, waits
\* no longer than its caller allowed for the whole call ("re-calculate timeout
\* tick").  rt_mp_alloc does so with the interrupts enabled and may wait longer.
DeadlineKept ==
  /\ TypeOK
  /\ \A t \in Thread, l \in {Mb, MbSenders, Mq, MqSenders} :
       Linked(t, l) /\ Has(k.tmr, t) => k.left[t] <= due[t]

Letters == INSTANCE BoundedQueue WITH
  User <- Thread, Device <- {}, size <- mb.size, q <- Mails

\* The mailbox is a bounded queue: whoever is woken, overtaken or times out,
\* each mail leaves the hand of its sender for the queue and the queue for the
\* hand of one receiver, in order.
IsMailbox == Letters!Spec
=============================================================================
