----------------------------- MODULE Semaphore -----------------------------
(***************************************************************************)
(* A semaphore of ipc.c: threads take and release it, an interrupt handler *)
(* releases it, a timed wait races with the release, and a thread resets   *)
(* or deletes it while others wait.                                        *)
(***************************************************************************)
EXTENDS Ipc

CONSTANTS Sem,               \* sem->parent.suspend_thread
          InitValue,         \* the value rt_sem_init is called with
          RT_SEM_VALUE_MAX,
          Calls              \* the calls the application makes

ASSUME SemaphoreAssumption ==
  /\ Sem \in List
  /\ RT_SEM_VALUE_MAX \in Nat
  /\ InitValue \in 0 .. RT_SEM_VALUE_MAX

VARIABLES value,  \* sem->value
          alive   \* the object has not been deleted

own == <<value, alive>>
vars == <<k, pc, mode, value, alive>>

\* rt_sem_init, rt_sem_create
Init == Boot /\ value = InitValue /\ alive = TRUE

Call(t, c) == At(t, "user") /\ c \in Calls /\ t # Idle /\ alive

-----------------------------------------------------------------------------
\* rt_sem_take; rt_sem_trytake is time = 0.
Take(t, time) ==
  /\ Call(t, "take")
  /\ \/ /\ value > 0
        /\ value' = value - 1
        /\ UNCHANGED <<k, pc>>
     \/ /\ value = 0 /\ time # 0
        /\ k' = Wait(SetError(k, t, "EOK"), Sem, t, time)
        /\ Goto(t, "wait")
        /\ UNCHANGED value
  /\ UNCHANGED <<mode, alive>>

\* rt_sem_release up to rt_hw_interrupt_enable
Release ==
  \/ /\ k.list[Sem] # <<>>
     /\ k' = rt_ipc_list_resume(k, Sem)
     /\ UNCHANGED value
  \/ /\ k.list[Sem] = <<>>
     /\ value' = IF value < RT_SEM_VALUE_MAX THEN value + 1 ELSE value
     /\ UNCHANGED k

rt_sem_release(t) ==
  /\ Call(t, "release")
  /\ Release
  /\ IF k.list[Sem] # <<>> THEN Goto(t, "schedule") ELSE UNCHANGED pc
  /\ UNCHANGED <<mode, alive>>

\* Mutant: the thread that has been resumed does not preempt.
IrqReleaseNoSchedule ==
  /\ mode = "thread" /\ alive /\ "irq" \in Calls
  /\ Release
  /\ UNCHANGED <<pc, mode, alive>>

\* rt_sem_release in an interrupt handler, as finsh_rx_ind calls it; its
\* rt_schedule chooses the thread that executes when the interrupt is left.
IrqRelease ==
  /\ mode = "thread" /\ alive /\ "irq" \in Calls
  /\ \/ /\ k.list[Sem] # <<>>
        /\ k' = rt_schedule(rt_ipc_list_resume(k, Sem))
        /\ UNCHANGED value
     \/ k.list[Sem] = <<>> /\ Release
  /\ UNCHANGED <<pc, mode, alive>>

-----------------------------------------------------------------------------
\* rt_sem_control(RT_IPC_CMD_RESET): the interrupts stay disabled during
\* rt_ipc_list_resume_all.
Reset(t) ==
  /\ Call(t, "reset")
  /\ mode' = "masked"
  /\ Goto(t, "reset")
  /\ UNCHANGED <<k, own>>

ResetOne(t) ==
  /\ At(t, "reset") /\ k.list[Sem] # <<>>
  /\ k' = ResumeWithError(k, Sem)
  /\ UNCHANGED <<pc, mode, own>>

\* Mutant: the value is set while threads still wait.
ResetTooEarly(t, v) ==
  /\ At(t, "reset")
  /\ value' = v % (RT_SEM_VALUE_MAX + 1)
  /\ mode' = "thread"
  /\ Goto(t, "schedule")
  /\ UNCHANGED <<k, alive>>

\* sem->value is 16 bits wide.
ResetEnd(t, v) ==
  /\ At(t, "reset") /\ k.list[Sem] = <<>>
  /\ value' = v % (RT_SEM_VALUE_MAX + 1)
  /\ mode' = "thread"
  /\ Goto(t, "schedule")
  /\ UNCHANGED <<k, alive>>

\* rt_sem_delete and rt_sem_detach: rt_ipc_list_resume_all tests the list with
\* the interrupts enabled.  No other call on the semaphore begins meanwhile.
Delete(t) ==
  /\ Call(t, "delete")
  /\ alive' = FALSE
  /\ Goto(t, "delete")
  /\ UNCHANGED <<k, mode, value>>

-----------------------------------------------------------------------------
Step(t) ==
  \/ \E time \in Timeout : Take(t, time)
  \/ (WaitSchedule(t) \/ Return(t) \/ Schedule(t)) /\ UNCHANGED own
  \/ rt_sem_release(t)
  \/ Reset(t) \/ ResetOne(t) \/ \E v \in 0 .. RT_SEM_VALUE_MAX + 1 : ResetEnd(t, v)
  \/ Delete(t)
  \/ (ResumeAllTest(t, Sem) \/ ResumeAllOne(t, Sem)) /\ UNCHANGED own

Next == \/ \E t \in Thread : Step(t)
        \/ \E u \in Thread : Start(Main, u) /\ UNCHANGED own
        \/ IrqRelease
        \/ Tick /\ UNCHANGED own

Spec == Init /\ [][Next]_vars

\* A thread inside the kernel goes on, the timer keeps interrupting and its
\* handler returns, and so does the device whose handler releases the semaphore.
FairSpec ==
  /\ Spec
  /\ WF_vars(Tick /\ UNCHANGED own)
  /\ SF_vars(\E t \in Thread :
               (WaitSchedule(t) \/ Return(t) \/ Schedule(t)) /\ UNCHANGED own)
  /\ SF_vars(IrqRelease)

-----------------------------------------------------------------------------
\* The types of the semaphore and of the kernel data.
TypeOK ==
  /\ k \in KernelState
  /\ pc \in [Thread -> {"user", "wait", "woken", "schedule", "reset", "delete",
                        "delete1"}]
  /\ mode \in {"thread", "masked", "tick"}
  /\ value \in 0 .. RT_SEM_VALUE_MAX

\* No thread is left waiting while the semaphore has a token: a release that
\* finds the list empty and a take that finds the value 0 never miss each other.
NoTokenHeldBack == value > 0 => k.list[Sem] = <<>>

\* A thread in the list of the semaphore is suspended inside rt_sem_take, and
\* a thread that has started to wait and is not in the list any more has been
\* made ready: no wait is left that nobody will end.
WaitersWait ==
  \A t \in Thread :
    /\ Linked(t, Sem) => k.stat[t] = "SUSPEND" /\ pc[t] \in {"wait", "woken"}
    /\ pc[t] \in {"wait", "woken"} /\ ~ Linked(t, Sem) => k.stat[t] # "SUSPEND"

\* The list of a PRIO semaphore is sorted by priority, so that a release wakes
\* the most urgent waiter (rt_ipc_list_suspend, rt_ipc_list_resume).
UrgentFirst ==
  Flag[Sem] = "PRIO" =>
    \A i, j \in 1 .. Len(k.list[Sem]) :
      i < j => k.prio[k.list[Sem][i]] <= k.prio[k.list[Sem][j]]

\* As long as the semaphore exists no preemption is missed: whatever makes a
\* waiter ready, a thread, an interrupt or its timeout, the most urgent ready
\* thread executes (rt_sem_delete resumes the waiters without rt_schedule).
WakesPreempt == alive => HighestRuns

\* When rt_sem_delete has returned no thread is left in the list of the object,
\* whose memory is released.
NoneWaitsOnDeleted ==
  ~ alive /\ (\A t \in Thread : pc[t] \notin {"delete", "delete1"}) =>
    k.list[Sem] = <<>>

\* A thread that waits is served or told of a failure, whatever the others do
\* (the order of a FIFO list), if the interrupt keeps releasing the semaphore.
EveryWaitEnds == \A t \in Thread : Linked(t, Sem) ~> ~ Linked(t, Sem)

Waiting == {t \in Thread : Linked(t, Sem)}

InCall == {t \in Thread : pc[t] \in {"wait", "woken"} /\ ~ Linked(t, Sem)}

Abstract == INSTANCE CountingSemaphore WITH
  Limit   <- RT_SEM_VALUE_MAX,
  tokens  <- value,
  waiting <- Waiting,
  served  <- {t \in InCall : k.error[t] = "EOK"},
  failed  <- {t \in InCall : k.error[t] # "EOK"}

\* rt_sem_take, rt_sem_release, the timeouts and the reset together implement
\* the counting semaphore: tokens are neither lost nor given twice.
IsCountingSemaphore == Abstract!Spec

=============================================================================
