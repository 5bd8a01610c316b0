------------------------------ MODULE Mailbox ------------------------------
(***************************************************************************)
(* A mailbox of ipc.c: a ring of pointers, with a list of the threads that *)
(* wait for a mail and one of the threads that wait for room.              *)
(***************************************************************************)
EXTENDS WaitLoop

CONSTANTS Mb,         \* mb->parent.suspend_thread
          MbSenders,  \* mb->suspend_sender_thread
          Mail        \* what is sent

ASSUME MailboxAssumption ==
  Mb \in List /\ MbSenders \in List /\ Mb # MbSenders

VARIABLES mb  \* the other fields; a place of msg_pool without a mail is Nothing

\* rt_mb_init, rt_mb_create
MbEmpty(n) ==
  [ size |-> n, msg_pool |-> [i \in 0 .. n - 1 |-> Nothing], entry |-> 0,
    in_offset |-> 0, out_offset |-> 0, alive |-> TRUE ]

MbInit(n, exists) == mb = [MbEmpty(n) EXCEPT !.alive = exists]

\* Its memory has not been released; nothing is modelled after a thread comes
\* back to a mailbox that is no more.
MbExists == mb.alive \/ Deleting("mbdelete")

NextOffset(i) == IF i + 1 >= mb.size THEN 0 ELSE i + 1

Put(v) == [mb EXCEPT !.msg_pool[mb.in_offset] = v, !.in_offset = NextOffset(@),
                     !.entry = @ + 1]

\* Mutant: the mail is stored where the next receiver has already been.
PutUrgentLate(v) ==
  LET o == IF mb.out_offset > 0 THEN mb.out_offset - 1 ELSE mb.size - 1
  IN  [mb EXCEPT !.msg_pool[mb.out_offset] = v, !.out_offset = o, !.entry = @ + 1]

PutUrgent(v) ==
  LET o == IF mb.out_offset > 0 THEN mb.out_offset - 1 ELSE mb.size - 1
  IN  [mb EXCEPT !.msg_pool[o] = v, !.out_offset = o, !.entry = @ + 1]

Get == [mb EXCEPT !.msg_pool[mb.out_offset] = Nothing, !.out_offset = NextOffset(@),
                  !.entry = @ - 1]

-----------------------------------------------------------------------------
\* The loop of rt_mb_send_wait, entered with the interrupts disabled.
MbSend(t, time, total) ==
  /\ \/ /\ mb.entry = mb.size /\ time = 0
        /\ Finished(t, "user")
        /\ UNCHANGED <<k, mb, hand>>
     \/ /\ mb.entry = mb.size /\ time # 0
        /\ k' = Wait(SetError(k, t, "EOK"), MbSenders, t, time)
        /\ Suspended(t, "mbsend", time, total)
        /\ UNCHANGED <<mb, hand>>
     \/ /\ mb.entry < mb.size
        /\ mb' = Put(hand[t])
        /\ hand' = [hand EXCEPT ![t] = Nothing]
        /\ WakeOne(t, Mb)
  /\ UNCHANGED mode

rt_mb_send_wait(t, time) ==
  /\ Call(t, "mbsend") /\ mb.alive /\ hand[t] # Nothing
  /\ MbSend(t, time, time)

MbSendAgain(t) ==
  /\ At(t, "woken") /\ call[t] = "mbsend" /\ k.error[t] = "EOK" /\ MbExists
  /\ MbSend(t, rest[t], due[t])

rt_mb_urgent(t) ==
  /\ Call(t, "mburgent") /\ mb.alive /\ hand[t] # Nothing
  /\ IF mb.entry = mb.size
       THEN UNCHANGED <<k, pc, loop, mb, hand>>
       ELSE /\ mb' = PutUrgent(hand[t])
            /\ hand' = [hand EXCEPT ![t] = Nothing]
            /\ WakeOne(t, Mb)
  /\ UNCHANGED mode

\* The loop of rt_mb_recv; thread->error becomes e when no time is left.
MbRecv(t, time, total, e) ==
  /\ \/ /\ mb.entry = 0 /\ time = 0
        /\ Finished(t, "user")
        /\ k' = SetError(k, t, e)
        /\ UNCHANGED <<mb, hand>>
     \/ /\ mb.entry = 0 /\ time # 0
        /\ k' = Wait(SetError(k, t, "EOK"), Mb, t, time)
        /\ Suspended(t, "mbrecv", time, total)
        /\ UNCHANGED <<mb, hand>>
     \/ /\ mb.entry > 0
        /\ mb' = Get
        /\ hand' = [hand EXCEPT ![t] = mb.msg_pool[mb.out_offset]]
        /\ WakeOne(t, MbSenders)
  /\ UNCHANGED mode

rt_mb_recv(t, time) ==
  /\ Call(t, "mbrecv") /\ mb.alive /\ hand[t] = Nothing
  /\ MbRecv(t, time, time, k.error[t])

MbRecvAgain(t) ==
  /\ At(t, "woken") /\ call[t] = "mbrecv" /\ k.error[t] = "EOK" /\ MbExists
  /\ MbRecv(t, rest[t], due[t], "ETIMEOUT")

\* rt_mb_control(RT_IPC_CMD_RESET)
MbReset(t) ==
  /\ Call(t, "mbreset") /\ mb.alive
  /\ k' = ResumeAll(ResumeAll(k, Mb), MbSenders)
  /\ mb' = MbEmpty(mb.size)
  /\ Goto(t, "schedule")
  /\ UNCHANGED <<mode, loop, hand>>

\* rt_mb_delete, rt_mb_detach; no other call on the mailbox begins meanwhile.
MbDelete(t) ==
  /\ Call(t, "mbdelete") /\ mb.alive
  /\ Careful => Served("mbsend") \cup Served("mbrecv") = {}
  /\ mb' = [mb EXCEPT !.alive = FALSE]
  /\ DeleteBegins(t, "mbdelete")

MbDeleting(t) ==
  /\ \/ DeleteTest(t, "mbdelete", Mb, "delete", "delete1")
     \/ DeleteGoesOn(t, "mbdelete", Mb, "delete", "purge")
     \/ DeleteOne(t, "mbdelete", Mb, "delete", "delete1")
     \/ DeleteTest(t, "mbdelete", MbSenders, "purge", "purge1")
     \/ DeleteEnds(t, "mbdelete", MbSenders, "purge")
     \/ DeleteOne(t, "mbdelete", MbSenders, "purge", "purge1")
  /\ mb' = IF pc'[t] = "user" THEN [MbEmpty(mb.size) EXCEPT !.alive = FALSE] ELSE mb

MbStep(t) ==
  \/ \E time \in Times[t] : rt_mb_send_wait(t, time) \/ rt_mb_recv(t, time)
  \/ MbSendAgain(t) \/ MbRecvAgain(t) \/ rt_mb_urgent(t) \/ MbReset(t)
  \/ (LoopFails(t, "mbsend") \/ LoopFails(t, "mbrecv")) /\ UNCHANGED mb
  \/ MbDelete(t) \/ MbDeleting(t)

-----------------------------------------------------------------------------
\* The mails in the mailbox, the next one to be received first.
Mails == [i \in 1 .. mb.entry |-> mb.msg_pool[(mb.out_offset + i - 1) % mb.size]]

MbTypeOK ==
  LET Offset == 0 .. mb.size - 1
  IN  mb \in [ size : {mb.size}, msg_pool : [Offset -> Mail \cup {Nothing}],
               entry : 0 .. mb.size, in_offset : Offset, out_offset : Offset,
               alive : BOOLEAN ]

\* A thread is left waiting for a mail only if every mail in the mailbox is
\* for a thread that has been woken and has not come to take it, and for room
\* only if a woken sender is about to take each free place: a mail that is
\* taken from under a woken thread (the loops of rt_mb_recv and
\* rt_mb_send_wait) loses no wake-up.
NoMailMissed ==
  mb.alive =>
    /\ k.list[Mb] # <<>> => mb.entry <= Cardinality(Served("mbrecv"))
    /\ k.list[MbSenders] # <<>> => mb.size - mb.entry <= Cardinality(Served("mbsend"))

=============================================================================
