------------------------------ MODULE WaitLoop ------------------------------
(***************************************************************************)
(* The calls of ipc.c and mempool.c that wait in a loop: a thread that has *)
(* been woken tests again what it waited for, because another thread may   *)
(* have been faster, and waits again for the rest of its time.             *)
(***************************************************************************)
EXTENDS Ipc, FiniteSets

CONSTANTS Nothing,  \* no call, or no mail, message or block
          Irq,      \* an interrupt handler
          Calls,    \* the calls each thread, and the interrupt handler, makes
          Times,    \* the timeouts each thread calls with
          Careful   \* it deletes no object whose waiters have been woken

ASSUME WaitLoopAssumption ==
  /\ Irq \notin Thread
  /\ Calls[Idle] = {} /\ \A u \in Thread \cup {Irq} : Nothing \notin Calls[u]
  /\ Times \in [Thread -> SUBSET Timeout]
  /\ Careful \in BOOLEAN

VARIABLES call,  \* the call in which a thread waits
          rest,  \* its timeout, less the ticks since the wait began
          due,   \* the ticks until the end of the time its caller gave it
          hand   \* what a thread has been given and may send or free

loop == <<call, rest, due>>

LoopInit ==
  /\ call = [t \in Thread |-> Nothing]
  /\ rest = [t \in Thread |-> 0]
  /\ due = [t \in Thread |-> 0]
  /\ hand = [t \in Thread |-> Nothing]

\* The application makes call c.
Call(t, c) == At(t, "user") /\ c \in Calls[t]

\* The call of t suspends it, k' being the kernel after that.
Suspended(t, c, time, total) ==
  /\ call' = [call EXCEPT ![t] = c]
  /\ rest' = [rest EXCEPT ![t] = time]
  /\ due' = [due EXCEPT ![t] = total]
  /\ Goto(t, "wait")

\* The call of t is over, apart from what it does at location l.
Finished(t, l) ==
  /\ call' = [call EXCEPT ![t] = Nothing]
  /\ rest' = [rest EXCEPT ![t] = 0]
  /\ due' = [due EXCEPT ![t] = 0]
  /\ Goto(t, l)

\* The call resumes a thread of list l, if there is one, and calls rt_schedule.
WakeOne(t, l) ==
  IF k.list[l] # <<>>
    THEN k' = rt_ipc_list_resume(k, l) /\ Finished(t, "schedule")
    ELSE UNCHANGED k /\ Finished(t, "user")

\* The wait of t in a call c has ended with error e; t has not looked at it yet.
Woken(t, c, e) ==
  /\ pc[t] \in {"wait", "woken"} /\ k.stat[t] # "SUSPEND"
  /\ call[t] = c /\ k.error[t] = e

\* Threads whose wait in call c has ended well and that will look again.
Served(c) == {t \in Thread : Woken(t, c, "EOK")}

\* The call returns thread->error.
LoopFails(t, c) ==
  /\ At(t, "woken") /\ call[t] = c /\ k.error[t] # "EOK"
  /\ Finished(t, "user")
  /\ UNCHANGED <<k, mode, hand>>

Down(n) == IF n > 0 THEN n - 1 ELSE n

\* Mutant: the timeout is not calculated again.
NoElapse == UNCHANGED rest

\* timeout -= rt_tick_get() - tick_delta, and never below 0
Elapse ==
  rest' = [t \in Thread |-> IF pc[t] \in {"wait", "woken"} THEN Down(rest[t])
                                                            ELSE rest[t]]

LoopTick ==
  /\ WholeTick
  /\ Elapse
  /\ due' = [t \in Thread |-> Down(due[t])]
  /\ UNCHANGED <<call, hand>>

\* What a thread does inside the kernel without changing an object.
LoopInside(t) ==
  (WaitSchedule(t) \/ Schedule(t)) /\ UNCHANGED <<loop, hand>>

-----------------------------------------------------------------------------
\* A deleting call c resumes the threads in list l: it tests the list with the
\* interrupts enabled at location test and resumes one at location turn, and
\* goes on at location after, or returns, when the list is empty.  Nothing is
\* modelled after a turn without a thread.
DeleteTest(t, c, l, test, turn) ==
  /\ At(t, test) /\ call[t] = c /\ k.list[l] # <<>>
  /\ Goto(t, turn)
  /\ UNCHANGED <<k, mode, loop, hand>>

DeleteGoesOn(t, c, l, test, after) ==
  /\ At(t, test) /\ call[t] = c /\ k.list[l] = <<>>
  /\ Goto(t, after)
  /\ UNCHANGED <<k, mode, loop, hand>>

DeleteEnds(t, c, l, test) ==
  /\ At(t, test) /\ call[t] = c /\ k.list[l] = <<>>
  /\ Finished(t, "user")
  /\ UNCHANGED <<k, mode, hand>>

DeleteOne(t, c, l, test, turn) ==
  /\ At(t, turn) /\ call[t] = c /\ k.list[l] # <<>>
  /\ k' = ResumeWithError(k, l)
  /\ Goto(t, test)
  /\ UNCHANGED <<mode, loop, hand>>

\* A deleting call begins.
DeleteBegins(t, c) ==
  /\ call' = [call EXCEPT ![t] = c]
  /\ Goto(t, "delete")
  /\ UNCHANGED <<k, mode, rest, due, hand>>

\* It has not ended.
Deleting(c) == \E t \in Thread : call[t] = c

-----------------------------------------------------------------------------
LoopTypeOK ==
  /\ k \in KernelState
  /\ mode = "thread"
  /\ \A t \in Thread : call[t] \in Calls[t] \cup {Nothing}
  /\ rest \in [Thread -> Timeout] /\ due \in [Thread -> Timeout]
=============================================================================
