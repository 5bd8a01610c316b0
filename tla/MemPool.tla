------------------------------ MODULE MemPool ------------------------------
(***************************************************************************)
(* A memory pool of mempool.c: a list of free blocks of one size, and a    *)
(* list of the threads that wait for a block.                              *)
(***************************************************************************)
EXTENDS WaitLoop

CONSTANTS Mp,     \* mp->suspend_thread
          Block   \* the blocks

ASSUME MemPoolAssumption == Mp \in List

VARIABLES mp  \* the other fields of the pool

\* rt_mp_init, rt_mp_create; blocks are in the order of their addresses.
MpInit(blocks, exists) ==
  mp = [ block_list |-> blocks, block_free_count |-> Len(blocks), alive |-> exists ]

MpExists == mp.alive \/ Deleting("mpdelete")

\* The thread waits in front of those that came before it.
MpWait(s, t, time) ==
  LET r == rt_thread_suspend(s, t)
      w == [r EXCEPT !.list[Mp] = rt_list_insert_after(@, t)]
  IN  IF time > 0 THEN rt_timer_start(w, t, time) ELSE w

\* Mutant: the block that is handed out stays in the list.
TakeBlockStays == [mp EXCEPT !.block_free_count = @ - 1]

TakeBlock == [mp EXCEPT !.block_free_count = @ - 1, !.block_list = Tail(@)]

\* The loop of rt_mp_alloc, entered with the interrupts disabled.
Alloc(t, time, total) ==
  /\ \/ /\ mp.block_free_count = 0 /\ time = 0
        /\ k' = SetError(k, t, "ETIMEOUT")
        /\ Finished(t, "user")
        /\ UNCHANGED <<mp, hand>>
     \/ /\ mp.block_free_count = 0 /\ time # 0
        /\ k' = MpWait(SetError(k, t, "EOK"), t, time)
        /\ Suspended(t, "alloc", time, total)
        /\ UNCHANGED <<mp, hand>>
     \/ /\ mp.block_free_count # 0
        /\ mp' = TakeBlock
        /\ hand' = [hand EXCEPT ![t] = Head(mp.block_list)]
        /\ Finished(t, "user")
        /\ UNCHANGED k
  /\ UNCHANGED mode

rt_mp_alloc(t, time) ==
  /\ Call(t, "alloc") /\ mp.alive /\ hand[t] = Nothing
  /\ Alloc(t, time, time)

\* time -= rt_tick_get() - before_sleep, with the interrupts enabled
AllocWoken(t) ==
  /\ At(t, "woken") /\ call[t] = "alloc" /\ k.error[t] = "EOK"
  /\ Goto(t, "again")
  /\ UNCHANGED <<k, mode, loop, hand, mp>>

AllocAgain(t) == At(t, "again") /\ MpExists /\ Alloc(t, rest[t], due[t])

\* Mutant: only the thread that finds the pool empty is woken.
FreeWakesAtZero(t) ==
  /\ Call(t, "free") /\ mp.alive /\ hand[t] # Nothing
  /\ mp' = [mp EXCEPT !.block_free_count = @ + 1, !.block_list = <<hand[t]>> \o @]
  /\ hand' = [hand EXCEPT ![t] = Nothing]
  /\ IF k.list[Mp] # <<>> /\ mp.block_free_count = 0
       THEN k' = rt_ipc_list_resume(SetError(k, Head(k.list[Mp]), "EOK"), Mp)
            /\ Goto(t, "schedule")
       ELSE UNCHANGED <<k, pc>>
  /\ UNCHANGED <<mode, loop>>

rt_mp_free(t) ==
  /\ Call(t, "free") /\ mp.alive /\ hand[t] # Nothing
  /\ mp' = [mp EXCEPT !.block_free_count = @ + 1, !.block_list = <<hand[t]>> \o @]
  /\ hand' = [hand EXCEPT ![t] = Nothing]
  /\ IF k.list[Mp] # <<>>
       THEN k' = rt_ipc_list_resume(SetError(k, Head(k.list[Mp]), "EOK"), Mp)
            /\ Goto(t, "schedule")
       ELSE UNCHANGED <<k, pc>>
  /\ UNCHANGED <<mode, loop>>

\* rt_mp_delete, rt_mp_detach; no other call on the pool begins meanwhile.
MpDelete(t) ==
  /\ Call(t, "mpdelete") /\ mp.alive
  /\ Careful => Served("alloc") = {}
  /\ mp' = [mp EXCEPT !.alive = FALSE]
  /\ DeleteBegins(t, "mpdelete")

MpDeleting(t) ==
  /\ \/ DeleteTest(t, "mpdelete", Mp, "delete", "delete1")
     \/ DeleteEnds(t, "mpdelete", Mp, "delete")
     \/ DeleteOne(t, "mpdelete", Mp, "delete", "delete1")
  /\ mp' = IF pc'[t] = "user"
             THEN [block_list |-> <<>>, block_free_count |-> 0, alive |-> FALSE]
             ELSE mp

MpStep(t) ==
  \/ \E time \in Times[t] : rt_mp_alloc(t, time)
  \/ AllocWoken(t) \/ AllocAgain(t) \/ rt_mp_free(t)
  \/ LoopFails(t, "alloc") /\ UNCHANGED mp
  \/ MpDelete(t) \/ MpDeleting(t)

-----------------------------------------------------------------------------
\* Threads that have been woken for a block, and have not come to take it.
Claims == Served("alloc") \cup {t \in Thread : pc[t] = "again"}

MpTypeOK ==
  mp \in [ block_list : Seq(Block), block_free_count : 0 .. Cardinality(Block),
           alive : BOOLEAN ]

\* A thread is left waiting for a block only if a woken thread is about to take
\* each free one, although the block a thread was woken for may go to another
\* (the loop of rt_mp_alloc).
NoBlockMissed ==
  mp.alive /\ k.list[Mp] # <<>> => mp.block_free_count <= Cardinality(Claims)

=============================================================================
