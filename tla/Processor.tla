----------------------------- MODULE Processor -----------------------------
(***************************************************************************)
(* The processor: the kernel state k, the control location pc[t] of every  *)
(* thread t, and who executes.  A thread is in its own code at "user", or  *)
(* in a kernel call, which is cut where it enables the interrupts; only    *)
(* the current thread takes steps.  mode is                                *)
(*   "thread"   the current thread executes with the interrupts enabled,   *)
(*   "masked"   it is inside a loop with the interrupts disabled,          *)
(*   "tick"     the tick interrupt is being served.                        *)
(* ISR_ALL_ASM (crt0.flash.S) switches the context after the handler has   *)
(* returned, so no thread executes until the interrupt is left.            *)
(***************************************************************************)
EXTENDS Kernel

CONSTANTS Idle,  \* the idle thread
          Main   \* the thread rt_system_scheduler_start switches to

ASSUME BootAssumption ==
  /\ Idle \in Thread /\ Main \in Thread /\ Idle # Main
  /\ InitPriority[Idle] = RT_THREAD_PRIORITY_MAX - 1
  /\ InitPriority[Main] < InitPriority[Idle]

VARIABLES k, pc, mode

\* The scheduler has been started with the idle thread and the main thread;
\* the other threads have been created.
Boot ==
  /\ k = [ stat  |-> [t \in Thread |-> CASE t = Main -> "RUNNING"
                                         [] t = Idle -> "READY"
                                         [] OTHER    -> "INIT"],
           yield |-> [t \in Thread |-> FALSE],
           prio  |-> InitPriority,
           list  |-> [l \in Priority \cup List |->
                        IF l = InitPriority[Idle] THEN <<Idle>> ELSE <<>>],
           group |-> {InitPriority[Idle]},
           cur   |-> Main,
           lock  |-> 0,
           tmr   |-> <<>>,
           left  |-> [t \in Thread |-> 0],
           slice |-> InitTick,
           error |-> [t \in Thread |-> "EOK"] ]
  /\ pc = [t \in Thread |-> "user"]
  /\ mode = "thread"

\* t executes at location l.
At(t, l) == t = k.cur /\ mode # "tick" /\ pc[t] = l

Goto(t, l) == pc' = [pc EXCEPT ![t] = l]

\* rt_schedule at location l, the last thing a call does before location m.
ScheduleStep(t, l, m) ==
  /\ At(t, l)
  /\ k' = rt_schedule(k)
  /\ Goto(t, m)
  /\ UNCHANGED mode

\* Mutant: the timer is started first, and rt_thread_suspend stops it.
SleepTimerFirst(t, n) ==
  /\ At(t, "user") /\ k.lock = 0
  /\ k' = rt_thread_suspend(rt_timer_start(k, t, n), t)
  /\ Goto(t, "sleep")
  /\ UNCHANGED mode

\* rt_thread_sleep, rt_thread_delay and rt_thread_mdelay
Sleep(t, n) ==
  /\ At(t, "user") /\ k.lock = 0
  /\ k' = rt_timer_start(rt_thread_suspend(k, t), t, n)
  /\ Goto(t, "sleep")
  /\ UNCHANGED mode

SleepSchedule(t) == ScheduleStep(t, "sleep", "slept")

Slept(t) ==
  /\ At(t, "slept")
  /\ k' = [k EXCEPT !.error[t] = IF @ = "ETIMEOUT" THEN "EOK" ELSE @]
  /\ Goto(t, "user")
  /\ UNCHANGED mode

\* rt_thread_startup of a thread that no one else works on.
rt_thread_startup(s, u) ==
  rt_schedule(rt_thread_resume(
    [s EXCEPT !.stat[u] = "SUSPEND", !.prio[u] = InitPriority[u]], u))

Start(t, u) ==
  /\ At(t, "user") /\ k.lock = 0
  /\ k.stat[u] = "INIT"
  /\ k' = rt_thread_startup(k, u)
  /\ UNCHANGED <<pc, mode>>

-----------------------------------------------------------------------------
\* The tick interrupt: rt_tick_increase, then rt_timer_check

TickEnter ==
  /\ mode = "thread"
  /\ mode' = "tick"
  /\ k' = rt_tick_increase(k)
  /\ UNCHANGED pc

TimerExpire ==
  /\ mode = "tick" /\ TimerDue(k)
  /\ k' = rt_thread_timeout(k, Head(k.tmr))
  /\ UNCHANGED <<pc, mode>>

TickLeave ==
  /\ mode = "tick" /\ ~ TimerDue(k)
  /\ mode' = "thread"
  /\ UNCHANGED <<k, pc>>

Tick == TickEnter \/ TimerExpire \/ TickLeave

\* The thread timers that are due, in the order of the list.
rt_timer_check(s) ==
  ForEach(rt_thread_timeout, s, SelectSeq(s.tmr, LAMBDA t : s.left[t] <= 0))

\* The tick interrupt in one step
WholeTick == k' = rt_timer_check(rt_tick_increase(k)) /\ UNCHANGED <<pc, mode>>

-----------------------------------------------------------------------------
Linked(t, l) == Has(k.list[l], t)

\* thread->tlist is linked into one list at most, and once: no list is ever
\* corrupted by inserting a node that is still linked elsewhere
\* (rt_list_insert_before in rt_schedule_insert_thread and rt_ipc_list_suspend,
\* rt_list_insert_after in rt_thread_exit and rt_thread_delete).
LinkedOnce ==
  \A l, m \in Priority \cup List :
    \A i \in 1 .. Len(k.list[l]), j \in 1 .. Len(k.list[m]) :
      k.list[l][i] = k.list[m][j] => l = m /\ i = j

\* The bitmap rt_schedule looks at tells exactly which ready lists hold a
\* thread, and a ready list holds READY threads of its own priority, never
\* the current one.
ReadyQueue ==
  /\ \A p \in Priority : p \in k.group <=> k.list[p] # <<>>
  /\ \A p \in Priority : \A i \in 1 .. Len(k.list[p]) :
       LET t == k.list[p][i]
       IN  k.stat[t] = "READY" /\ k.prio[t] = p /\ t # k.cur

\* rt_schedule finds a thread at the head of the list it picks: the highest
\* priority whose bit is set has a thread queued, as the comment "get highest
\* ready priority thread" of _get_highest_priority_thread takes for granted.
HighestExists ==
  k.group # {} => k.list[Least(k.group)] # <<>>

\* A thread whose timer runs is suspended, as rt_thread_timeout asserts.
TimerOnlySuspended ==
  \A t \in Thread : Has(k.tmr, t) => k.stat[t] = "SUSPEND"

\* The processor executes the code of a thread of the highest priority that
\* is ready: no preemption is missed by a call or by an interrupt.
HighestRuns ==
  pc[k.cur] = "user" /\ mode = "thread" /\ k.lock = 0 =>
    \A t \in Thread : k.stat[t] = "READY" => k.prio[k.cur] <= k.prio[t]

=============================================================================
