---------------------------- MODULE MessageQueue ----------------------------
(***************************************************************************)
(* A message queue of ipc.c.  The messages are blocks of one pool, linked  *)
(* into the queue or into the free list; block n of the pool is n, RT_NULL *)
(* is 0.  A sender takes a block, copies its message into it with the      *)
(* interrupts enabled and links it then; a receiver unlinks a block,       *)
(* copies and frees it.  The copy touches only the block of its thread: it *)
(* is part of the step that follows it.                                    *)
(***************************************************************************)
EXTENDS WaitLoop

CONSTANTS Mq,          \* mq->parent.suspend_thread
          MqSenders,   \* mq->suspend_sender_thread
          max_msgs,
          Message,     \* the messages of the threads
          IrqMessage   \* that of the interrupt handler

ASSUME MessageQueueAssumption ==
  /\ Mq \in List /\ MqSenders \in List /\ Mq # MqSenders
  /\ max_msgs \in Nat \ {0}
  /\ IrqMessage # Nothing /\ Nothing \notin Message

VARIABLES mq,  \* the other fields of the queue, and the blocks
          msg  \* the block that the call of a thread works on

mqown == <<mq, msg>>

MqBlocks == 1 .. max_msgs
Pointer == 0 .. max_msgs

\* rt_mq_init, rt_mq_create
MqEmpty ==
  [ head |-> 0, tail |-> 0, free |-> max_msgs, entry |-> 0,
    next |-> [b \in MqBlocks |-> b - 1], body |-> [b \in MqBlocks |-> Nothing],
    alive |-> TRUE ]

MqInit(exists) ==
  mq = [MqEmpty EXCEPT !.alive = exists] /\ msg = [t \in Thread |-> 0]

-----------------------------------------------------------------------------
TakeFree(q) == [q EXCEPT !.free = q.next[q.free]]

\* Mutant: a message that finds others in the queue is not copied.
LinkLastUncopied(q, b, v) ==
  LET n == [q.next EXCEPT ![b] = 0]
  IN  [q EXCEPT !.next = IF q.tail # 0 THEN [n EXCEPT ![q.tail] = b] ELSE n,
                !.body[b] = IF q.tail # 0 THEN @ ELSE v,
                !.tail = b, !.head = IF @ = 0 THEN b ELSE @, !.entry = @ + 1]

\* The copy and the link of rt_mq_send_wait
LinkLast(q, b, v) ==
  LET n == [q.next EXCEPT ![b] = 0]
  IN  [q EXCEPT !.next = IF q.tail # 0 THEN [n EXCEPT ![q.tail] = b] ELSE n,
                !.body[b] = v, !.tail = b, !.head = IF @ = 0 THEN b ELSE @,
                !.entry = @ + 1]

\* The copy and the link of rt_mq_urgent
LinkFirst(q, b, v) ==
  [q EXCEPT !.next[b] = q.head, !.body[b] = v, !.head = b,
            !.tail = IF @ = 0 THEN b ELSE @, !.entry = @ + 1]

\* Mutant: the tail still points to the message that has left the queue.
UnlinkKeepsTail(q) == [q EXCEPT !.head = q.next[q.head], !.entry = @ - 1]

UnlinkHead(q) ==
  [q EXCEPT !.head = q.next[q.head],
            !.tail = IF @ = q.head THEN 0 ELSE @, !.entry = @ - 1]

\* A free block holds no message.
MqFree(q, b) == [q EXCEPT !.next[b] = q.free, !.free = b, !.body[b] = Nothing]

\* The blocks reached from block b, at most one more than there are.
Chain(next, b) ==
  LET path[i \in 1 .. max_msgs + 1] ==
        IF i = 1 THEN b ELSE IF path[i - 1] = 0 THEN 0 ELSE next[path[i - 1]]
  IN  SelectSeq(path, LAMBDA p : p # 0)

\* The queue exists; nothing is modelled after a thread comes back to a queue
\* that has been deleted.
MqExists == mq.alive \/ Deleting("mqdelete")

-----------------------------------------------------------------------------
\* rt_mq_send_wait with message v, up to the copy
MqSend(t, v, time, total) ==
  /\ \/ /\ mq.free = 0 /\ time = 0
        /\ Finished(t, "user")
        /\ hand' = [hand EXCEPT ![t] = Nothing]
        /\ UNCHANGED <<k, mqown>>
     \/ /\ mq.free = 0 /\ time # 0
        /\ k' = Wait(SetError(k, t, "EOK"), MqSenders, t, time)
        /\ hand' = [hand EXCEPT ![t] = v]
        /\ Suspended(t, "mqsend", time, total)
        /\ UNCHANGED mqown
     \/ /\ mq.free # 0
        /\ mq' = TakeFree(mq)
        /\ msg' = [msg EXCEPT ![t] = mq.free]
        /\ hand' = [hand EXCEPT ![t] = v]
        /\ Finished(t, "link")
        /\ UNCHANGED k
  /\ UNCHANGED mode

rt_mq_send_wait(t, v, time) == Call(t, "mqsend") /\ mq.alive /\ MqSend(t, v, time, time)

MqSendAgain(t) ==
  /\ At(t, "woken") /\ call[t] = "mqsend" /\ k.error[t] = "EOK" /\ MqExists
  /\ MqSend(t, hand[t], rest[t], due[t])

MqSendFails(t) ==
  /\ At(t, "woken") /\ call[t] = "mqsend" /\ k.error[t] # "EOK"
  /\ Finished(t, "user")
  /\ hand' = [hand EXCEPT ![t] = Nothing]
  /\ UNCHANGED <<k, mode, mqown>>

\* A full queue is an error that changes nothing.
rt_mq_urgent(t, v) ==
  /\ Call(t, "mqurgent") /\ mq.alive
  /\ mq.free # 0
  /\ mq' = TakeFree(mq)
  /\ msg' = [msg EXCEPT ![t] = mq.free]
  /\ hand' = [hand EXCEPT ![t] = v]
  /\ Goto(t, "linkfirst")
  /\ UNCHANGED <<k, mode, loop>>

\* The rest of rt_mq_send_wait and of rt_mq_urgent
MqSendEnd(t) ==
  /\ MqExists
  /\ \/ At(t, "link") /\ mq' = LinkLast(mq, msg[t], hand[t])
     \/ At(t, "linkfirst") /\ mq' = LinkFirst(mq, msg[t], hand[t])
  /\ msg' = [msg EXCEPT ![t] = 0]
  /\ hand' = [hand EXCEPT ![t] = Nothing]
  /\ WakeOne(t, Mq)
  /\ UNCHANGED mode

\* rt_mq_send in an interrupt handler
MqIrqSend ==
  /\ "mqsend" \in Calls[Irq] /\ mq.alive /\ mq.free # 0
  /\ mq' = LinkLast(TakeFree(mq), mq.free, IrqMessage)
  /\ k' = IF k.list[Mq] # <<>> THEN rt_schedule(rt_ipc_list_resume(k, Mq)) ELSE k
  /\ UNCHANGED <<pc, mode, loop, hand, msg>>

\* rt_mq_recv up to the copy
MqRecv(t, time, total, e) ==
  /\ \/ /\ mq.entry = 0 /\ time = 0
        /\ k' = SetError(k, t, e)
        /\ Finished(t, "user")
        /\ UNCHANGED mqown
     \/ /\ mq.entry = 0 /\ time # 0
        /\ k' = Wait(SetError(k, t, "EOK"), Mq, t, time)
        /\ Suspended(t, "mqrecv", time, total)
        /\ UNCHANGED mqown
     \/ /\ mq.entry # 0
        /\ mq' = UnlinkHead(mq)
        /\ msg' = [msg EXCEPT ![t] = mq.head]
        /\ Finished(t, "copyout")
        /\ UNCHANGED k
  /\ UNCHANGED <<mode, hand>>

rt_mq_recv(t, time) == Call(t, "mqrecv") /\ mq.alive /\ MqRecv(t, time, time, k.error[t])

MqRecvAgain(t) ==
  /\ At(t, "woken") /\ call[t] = "mqrecv" /\ k.error[t] = "EOK" /\ MqExists
  /\ MqRecv(t, rest[t], due[t], "ETIMEOUT")

MqRecvEnd(t) ==
  /\ At(t, "copyout") /\ MqExists
  /\ mq' = MqFree(mq, msg[t])
  /\ msg' = [msg EXCEPT ![t] = 0]
  /\ WakeOne(t, MqSenders)
  /\ UNCHANGED <<mode, hand>>

\* rt_mq_control(RT_IPC_CMD_RESET)
MqReset(t) ==
  /\ Call(t, "mqreset") /\ mq.alive
  /\ k' = ResumeAll(ResumeAll(k, Mq), MqSenders)
  /\ mq' = [ForEach(LAMBDA q, b : MqFree(UnlinkHead(q), b), mq, Chain(mq.next, mq.head))
              EXCEPT !.entry = 0]
  /\ Goto(t, "schedule")
  /\ UNCHANGED <<mode, loop, hand, msg>>

\* rt_mq_delete, rt_mq_detach; no other call on the queue begins meanwhile.
MqDelete(t) ==
  /\ Call(t, "mqdelete") /\ mq.alive
  /\ Careful => /\ Served("mqsend") \cup Served("mqrecv") = {}
                /\ \A u \in Thread : msg[u] = 0
  /\ mq' = [mq EXCEPT !.alive = FALSE]
  /\ DeleteBegins(t, "mqdelete")
  /\ UNCHANGED msg

MqDeleting(t) ==
  /\ \/ DeleteTest(t, "mqdelete", Mq, "delete", "delete1")
     \/ DeleteGoesOn(t, "mqdelete", Mq, "delete", "purge")
     \/ DeleteOne(t, "mqdelete", Mq, "delete", "delete1")
     \/ DeleteTest(t, "mqdelete", MqSenders, "purge", "purge1")
     \/ DeleteEnds(t, "mqdelete", MqSenders, "purge")
     \/ DeleteOne(t, "mqdelete", MqSenders, "purge", "purge1")
  /\ mq' = IF pc'[t] = "user" THEN [MqEmpty EXCEPT !.alive = FALSE] ELSE mq
  /\ UNCHANGED msg

-----------------------------------------------------------------------------
MqStep(t) ==
  \/ \E v \in Message : \/ \E time \in Times[t] : rt_mq_send_wait(t, v, time)
                        \/ rt_mq_urgent(t, v)
  \/ \E time \in Times[t] : rt_mq_recv(t, time)
  \/ MqSendAgain(t) \/ MqSendFails(t) \/ MqSendEnd(t) \/ MqRecvAgain(t) \/ MqRecvEnd(t)
  \/ LoopFails(t, "mqrecv") /\ UNCHANGED mqown
  \/ MqReset(t) \/ MqDelete(t) \/ MqDeleting(t)

-----------------------------------------------------------------------------
MqTypeOK ==
  /\ mq \in [ head : Pointer, tail : Pointer, free : Pointer, entry : Pointer,
              next : [MqBlocks -> Pointer],
              body : [MqBlocks -> Message \cup {IrqMessage, Nothing}],
              alive : BOOLEAN ]
  /\ msg \in [Thread -> Pointer]

Queued == Chain(mq.next, mq.head)
FreeBlocks == Chain(mq.next, mq.free)

\* The pointers hold together whatever happens between the two halves of a
\* call: every block is in the queue, in the free list or in the hands of one
\* call, in one place only, entry counts the queue and the tail is its end.
WellLinked ==
  LET queued == Queued
      free == FreeBlocks
      places(q, b) == {i \in DOMAIN q : q[i] = b}
      users(b) == {t \in Thread : msg[t] = b}
  IN  /\ \A b \in MqBlocks : Cardinality(places(queued, b)) + Cardinality(users(b))
                             + Cardinality(places(free, b)) = 1
      /\ mq.entry = Len(queued)
      /\ mq.tail = IF queued = <<>> THEN 0 ELSE queued[Len(queued)]

\* A thread is left waiting for a message, or for a free block, only if woken
\* threads are about to take each one there is, although a message that has
\* been counted on may go to a thread that did not wait.
NoMessageMissed ==
  mq.alive =>
    /\ k.list[Mq] # <<>> => mq.entry <= Cardinality(Served("mqrecv"))
    /\ k.list[MqSenders] # <<>> => Len(FreeBlocks) <= Cardinality(Served("mqsend"))

Contents == LET c == Queued IN [i \in DOMAIN c |-> mq.body[c[i]]]

Messages == INSTANCE BoundedQueue WITH
  User   <- Thread \cup {Irq},
  Device <- {Irq},
  size   <- max_msgs,
  q      <- Contents,
  hand   <- [u \in Thread \cup {Irq} |->
               IF u = Irq THEN IrqMessage
               ELSE IF pc[u] = "copyout" THEN mq.body[msg[u]] ELSE hand[u]]

\* The message queue is a bounded queue: a message that is copied into or out
\* of its block while others use the queue is neither lost, nor duplicated,
\* nor overwritten, and leaves in its turn.
IsMessageQueue == Messages!Spec
=============================================================================
