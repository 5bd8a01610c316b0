------------------------------ MODULE Threads ------------------------------
(***************************************************************************)
(* Threads and the scheduler (thread.c, scheduler.c, idle.c) under the     *)
(* tick interrupt.  The calls that start, suspend, resume and close a      *)
(* thread read its status, unlink it, stop its timer and change its status *)
(* in several steps with the interrupts enabled between them.              *)
(***************************************************************************)
EXTENDS Processor

CONSTANTS Defunct,   \* rt_thread_defunct
          Static,    \* threads of rt_thread_init; the others are on the heap
          Calls,     \* the calls the application makes
          MaxSleep,  \* bound: longest sleep, in ticks
          MaxNest,   \* bound: nesting of rt_enter_critical
          Careful    \* other threads are closed and suspended with the
                     \* scheduler locked, and closed and resumed only while
                     \* their timer does not run

ASSUME ThreadsAssumption ==
  /\ Static \subseteq Thread /\ Idle \in Static
  /\ Defunct \in List
  /\ MaxSleep \in Nat /\ MaxNest \in Nat /\ Careful \in BOOLEAN

VARIABLES tgt,    \* the thread that the call of a thread works on
          freed   \* threads whose stack and object idle has released

own == <<tgt, freed>>
vars == <<k, pc, mode, tgt, freed>>

Location == {"user", "schedule", "sleep", "slept", "suspend1", "resume1",
             "resume2", "close0", "close1", "close2", "exited"}

Init ==
  /\ Boot
  /\ tgt = [t \in Thread |-> t]
  /\ freed = {}

-----------------------------------------------------------------------------
\* What a call may assume.

\* t makes the call c.
Call(t, c) == At(t, "user") /\ c \in Calls /\ t # Idle

\* No other thread is working on u: the application serialises the calls
\* that start, suspend, resume and close one thread.
Unmanaged(u) ==
  \A w \in Thread : tgt[w] = u => pc[w] \notin {"suspend1", "resume1", "resume2",
                                               "close0", "close1", "close2"}

GotoWith(t, l, u) == Goto(t, l) /\ tgt' = [tgt EXCEPT ![t] = u]

-----------------------------------------------------------------------------
\* Calls on the calling thread itself

Yield(t) ==
  /\ Call(t, "yield")
  /\ k' = rt_thread_yield(k)
  /\ UNCHANGED <<pc, mode, tgt, freed>>

\* rt_thread_suspend of the caller; rt_schedule follows.
SuspendSelf(t) ==
  /\ Call(t, "suspend") /\ k.lock = 0
  /\ k' = rt_thread_suspend(k, t)
  /\ Goto(t, "schedule")
  /\ UNCHANGED <<mode, tgt, freed>>

Schedule(t) == ScheduleStep(t, "schedule", "user") /\ UNCHANGED own

\* The node goes to the head of the defunct list, except that a static thread
\* is only detached from the object container.
Bury(s, u) == IF u \in Static THEN s
              ELSE [s EXCEPT !.list[Defunct] = rt_list_insert_after(@, u)]

Closed(s, u) == [s EXCEPT !.stat[u] = "CLOSE", !.yield[u] = FALSE]

rt_thread_exit(t) ==
  /\ Call(t, "exit") /\ k.lock = 0
  /\ k' = rt_schedule(
            Bury(rt_timer_stop(Closed(rt_schedule_remove_thread(k, t), t), t), t))
  /\ Goto(t, "exited")
  /\ UNCHANGED <<mode, tgt, freed>>

rt_enter_critical(t) ==
  /\ Call(t, "critical") /\ k.lock < MaxNest
  /\ k' = [k EXCEPT !.lock = @ + 1]
  /\ UNCHANGED <<pc, mode, tgt, freed>>

rt_exit_critical(t) ==
  /\ Call(t, "critical")
  /\ k' = [k EXCEPT !.lock = IF @ <= 1 THEN 0 ELSE @ - 1]
  /\ IF k.lock <= 1 THEN Goto(t, "schedule") ELSE UNCHANGED pc
  /\ UNCHANGED <<mode, tgt, freed>>

-----------------------------------------------------------------------------
\* Calls on another thread

\* rt_thread_init and rt_thread_create: a thread object that is not in use.
Create(t, u) ==
  /\ Call(t, "create") /\ Unmanaged(u)
  /\ u \in freed \/ (u \in Static /\ k.stat[u] = "CLOSE" /\ u # t)
  /\ k' = [k EXCEPT !.stat[u] = "INIT", !.yield[u] = FALSE,
                    !.prio[u] = InitPriority[u],
                    !.slice[u] = InitTick[u], !.error[u] = "EOK",
                    !.left[u] = 0]
  /\ pc' = [pc EXCEPT ![u] = "user"]
  /\ freed' = freed \ {u}
  /\ UNCHANGED <<mode, tgt>>

\* Mutant: the status of the thread is not checked.
StartupAnyStat(t, u) ==
  /\ Call(t, "startup") /\ Unmanaged(u) /\ u \notin freed \cup {t}
  /\ k.stat[u] \in {"INIT", "CLOSE"}
  /\ k' = [k EXCEPT !.stat[u] = "SUSPEND", !.yield[u] = FALSE,
                    !.prio[u] = InitPriority[u]]
  /\ GotoWith(t, "resume1", u)
  /\ UNCHANGED <<mode, freed>>

\* rt_thread_startup, into its call of rt_thread_resume
Startup(t, u) ==
  /\ Call(t, "startup") /\ Unmanaged(u)
  /\ k.stat[u] = "INIT"
  /\ k' = [k EXCEPT !.stat[u] = "SUSPEND", !.yield[u] = FALSE,
                    !.prio[u] = InitPriority[u]]
  /\ GotoWith(t, "resume1", u)
  /\ UNCHANGED <<mode, freed>>

\* rt_thread_resume: the status is read with the interrupts enabled.
Resume(t, u) ==
  /\ Call(t, "resume") /\ Unmanaged(u)
  /\ u \notin freed /\ k.stat[u] = "SUSPEND"
  /\ Careful => ~ Has(k.tmr, u)
  /\ GotoWith(t, "resume1", u)
  /\ UNCHANGED <<k, mode, freed>>

Resume1(t) ==
  /\ At(t, "resume1")
  /\ k' = ResumeUnlink(k, tgt[t])
  /\ Goto(t, "resume2")
  /\ UNCHANGED <<mode, tgt, freed>>

\* Here and above the callers go on with rt_schedule.
Resume2(t) ==
  /\ At(t, "resume2")
  /\ k' = rt_schedule_insert_thread(k, tgt[t])
  /\ GotoWith(t, "schedule", t)
  /\ UNCHANGED <<mode, freed>>

\* rt_thread_suspend of another thread: the status is read with the
\* interrupts enabled.
SuspendOther(t, u) ==
  /\ Call(t, "suspend other") /\ Unmanaged(u)
  /\ Careful => k.lock > 0
  /\ u \notin {t, Idle} /\ k.stat[u] = "READY"
  /\ GotoWith(t, "suspend1", u)
  /\ UNCHANGED <<k, mode, freed>>

Suspend1(t) ==
  /\ At(t, "suspend1")
  /\ k' = rt_thread_suspend(k, tgt[t])
  /\ GotoWith(t, "user", t)
  /\ UNCHANGED <<mode, freed>>

rt_thread_control(t, u, p) ==
  /\ Call(t, "priority")
  /\ u # Idle /\ u \notin freed /\ k.stat[u] # "CLOSE"
  /\ k' = ChangePriority(k, u, p)
  /\ UNCHANGED <<pc, mode, tgt, freed>>

-----------------------------------------------------------------------------
\* RT_THREAD_CTRL_CLOSE: rt_thread_detach of a static thread, rt_thread_delete
\* of another one, then rt_schedule.

Close(t, u) ==
  /\ Call(t, "close") /\ Unmanaged(u)
  /\ u # Idle /\ u \notin freed /\ k.stat[u] # "CLOSE"
  /\ u = t => k.lock = 0
  /\ Careful /\ u # t => k.lock > 0 /\ ~ Has(k.tmr, u)
  /\ GotoWith(t, "close0", u)
  /\ UNCHANGED <<k, mode, freed>>

\* Mutant: the thread is not taken out of the ready queue.
Close0StaysQueued(t) ==
  /\ At(t, "close0")
  /\ Goto(t, "close1")
  /\ UNCHANGED <<k, mode, tgt, freed>>

Close0(t) ==
  /\ At(t, "close0")
  /\ k' = IF k.stat[tgt[t]] # "INIT"
            THEN rt_schedule_remove_thread(k, tgt[t]) ELSE k
  /\ Goto(t, "close1")
  /\ UNCHANGED <<mode, tgt, freed>>

Close1(t) ==
  /\ At(t, "close1")
  /\ k' = rt_timer_stop(k, tgt[t])
  /\ Goto(t, "close2")
  /\ UNCHANGED <<mode, tgt, freed>>

Close2(t) ==
  /\ At(t, "close2")
  /\ k' = Bury(Closed(k, tgt[t]), tgt[t])
  /\ GotoWith(t, "schedule", t)
  /\ UNCHANGED <<mode, freed>>

rt_thread_idle_excute ==
  /\ At(Idle, "user") /\ k.list[Defunct] # <<>>
  /\ freed' = freed \cup {Head(k.list[Defunct])}
  /\ k' = Unlink(k, Head(k.list[Defunct]))
  /\ UNCHANGED <<pc, mode, tgt>>

-----------------------------------------------------------------------------
OnSelf(t) ==
  \/ Yield(t) \/ \E n \in 0 .. MaxSleep : Call(t, "sleep") /\ Sleep(t, n) /\ UNCHANGED own
  \/ (SleepSchedule(t) \/ Slept(t)) /\ UNCHANGED own
  \/ SuspendSelf(t) \/ Schedule(t)
  \/ rt_thread_exit(t) \/ rt_enter_critical(t) \/ rt_exit_critical(t)

OnOther(t) ==
  \/ \E u \in Thread : \/ Create(t, u) \/ Startup(t, u) \/ Resume(t, u)
                       \/ SuspendOther(t, u) \/ Close(t, u)
                       \/ \E p \in Priority : rt_thread_control(t, u, p)
  \/ Resume1(t) \/ Resume2(t) \/ Suspend1(t)
  \/ Close0(t) \/ Close1(t) \/ Close2(t)

Next == \/ \E t \in Thread : OnSelf(t) \/ OnOther(t)
        \/ rt_thread_idle_excute
        \/ Tick /\ UNCHANGED own

Spec == Init /\ [][Next]_vars

\* A thread that is inside the kernel, or has locked the scheduler, goes on.
Continue(t) ==
  \/ (SleepSchedule(t) \/ Slept(t)) /\ UNCHANGED own
  \/ Schedule(t)
  \/ k.lock > 0 /\ rt_exit_critical(t)
  \/ Resume1(t) \/ Resume2(t) \/ Suspend1(t)
  \/ Close0(t) \/ Close1(t) \/ Close2(t)

\* The timer of the board keeps interrupting, and its handler returns; between
\* two interrupts the current thread executes, so what it is about to do is
\* not postponed for ever (strong fairness: a tick disables its step).
FairSpec == /\ Spec
            /\ WF_vars(Tick /\ UNCHANGED own)
            /\ SF_vars(\E t \in Thread : Continue(t))

-----------------------------------------------------------------------------
\* The types of the kernel data.
TypeOK ==
  /\ k \in KernelState
  /\ pc \in [Thread -> Location]
  /\ tgt \in [Thread -> Thread]
  /\ mode \in {"thread", "tick"}
  /\ freed \subseteq Thread

\* The state of a thread agrees with the lists it is in: only the current thread
\* is RUNNING, a READY thread is queued unless a call is closing it, and only
\* a suspended thread has a running timer.
StatAgrees ==
  /\ TypeOK /\ TimerOnlySuspended
  /\ \A t \in Thread :
    /\ k.stat[t] = "RUNNING" => t = k.cur
    /\ k.stat[t] = "READY" =>
         \/ Linked(t, k.prio[t])
         \/ \E w \in Thread : tgt[w] = t /\ pc[w] \in {"close1", "close2"}

\* A closed thread is in no ready list and has no timer, so that it is never
\* scheduled again (rt_thread_exit, rt_thread_delete, rt_thread_detach), and
\* memory that rt_thread_idle_excute has released is not used by the kernel:
\* its thread is not on the processor and in no list at all.
ClosedIsUnused ==
  /\ \A t \in Thread : k.stat[t] = "CLOSE" =>
       ~ Has(k.tmr, t) /\ \A p \in Priority : ~ Linked(t, p)
  /\ \A t \in freed : /\ t # k.cur /\ ~ Has(k.tmr, t)
                      /\ \A l \in Priority \cup List : ~ Linked(t, l)

\* A sleep ends: the thread is made ready again, be its time 0 or the timer of
\* another thread due in the same tick (rt_timer_check, rt_thread_timeout).
SleepEnds ==
  \A t \in Thread :
    pc[t] \in {"sleep", "slept"} /\ k.stat[t] = "SUSPEND" ~> k.stat[t] # "SUSPEND"

\* Threads of one priority share the processor: each that is ready, with
\* nothing of a higher priority to run, gets its turn (the time slice of
\* rt_tick_increase, the yield flag, rt_schedule and the order of the list).
TurnComes ==
  \A t \in Thread \ {Idle} :
    k.stat[t] = "READY" ~>
      \/ k.stat[t] # "READY"
      \/ \E u \in Thread : k.stat[u] \in {"READY", "RUNNING"} /\ k.prio[u] < k.prio[t]

\* A closed thread stays closed until it is created anew: rt_thread_suspend
\* takes READY and RUNNING threads only, rt_thread_resume suspended ones.
ClosedStaysClosed ==
  [][\A t \in Thread :
       k.stat[t] = "CLOSE" => k'.stat[t] \in {"CLOSE", "INIT"}]_vars

=============================================================================
