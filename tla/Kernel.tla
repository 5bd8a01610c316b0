------------------------------- MODULE Kernel -------------------------------
(***************************************************************************)
(* The data of the scheduler and of the thread timers of RT-Thread, as     *)
(* configured for the UC8088 board (one processor, one-level ready bitmap, *)
(* no signals), and the functions of scheduler.c, thread.c, timer.c and    *)
(* clock.c that change it, and the wait for an IPC object, as operators    *)
(* from a kernel state k to a kernel state.  Every operator is a piece of  *)
(* code that runs with the interrupts disabled; the modules that extend    *)
(* this one say where they are enabled.                                    *)
(*                                                                         *)
(* k.list is where the node thread->tlist may be linked: the ready list of *)
(* a priority, or another list (the suspend list of an IPC object, the     *)
(* list of defunct threads).  k.tmr is the bottom row of rt_timer_list,    *)
(* reduced to the thread timers; k.left is timeout_tick - rt_tick.         *)
(***************************************************************************)
EXTENDS Lists

CONSTANTS Thread,
          RT_THREAD_PRIORITY_MAX,
          List,         \* the lists other than the ready lists
          InitPriority, \* thread->init_priority
          InitTick      \* thread->init_tick

Priority == 0 .. RT_THREAD_PRIORITY_MAX - 1

ASSUME PriorityAssumption ==
  /\ RT_THREAD_PRIORITY_MAX \in Nat
  /\ InitPriority \in [Thread -> Priority]

ASSUME ListAssumption == List \cap Priority = {}

\* A time slice of 0 would be decremented past 0 by the first tick.
ASSUME TickAssumption == InitTick \in [Thread -> Nat \ {0}]

Stat == {"INIT", "READY", "SUSPEND", "RUNNING", "CLOSE"}

Error == {"EOK", "ETIMEOUT", "ERROR"}

KernelState ==
  [ stat  : [Thread -> Stat],        \* thread->stat without its yield flag
    yield : [Thread -> BOOLEAN],     \* RT_THREAD_STAT_YIELD
    prio  : [Thread -> Priority],    \* current_priority and number_mask
    list  : [Priority \cup List -> Seq(Thread)],
    group : SUBSET Priority,         \* rt_thread_ready_priority_group
    cur   : Thread,                  \* rt_current_thread
    lock  : Nat,                     \* rt_scheduler_lock_nest
    tmr   : Seq(Thread),
    left  : [Thread -> Int],
    slice : [Thread -> Nat \ {0}],   \* remaining_tick
    error : [Thread -> Error] ]

\* Thread t is linked into list l of s.
LinkedIn(s, t, l) == Has(s.list[l], t)

\* The position of the first thread of q that f gives more than n, or 0.
FirstAbove(q, f, n) == FirstPlace(q, LAMBDA u : f[u] > n)

\* No thread is in the sequence q twice.
Once(q) == \A i, j \in 1 .. Len(q) : q[i] = q[j] => i = j

-----------------------------------------------------------------------------
\* scheduler.c

\* rt_list_remove(&thread->tlist), wherever the node is linked.
Unlink(k, t) ==
  [k EXCEPT !.list = [l \in Priority \cup List |-> rt_list_remove(@[l], t)]]

rt_schedule_insert_thread(k, t) ==
  IF t = k.cur
    THEN [k EXCEPT !.stat[t] = "RUNNING"]
    ELSE [k EXCEPT !.stat[t] = "READY",
                   !.list[k.prio[t]] = Append(@, t),
                   !.group = @ \cup {k.prio[t]}]

\* Mutant: the bit of the priority is cleared with other threads still queued.
RemoveClearsBit(k, t) == [Unlink(k, t) EXCEPT !.group = @ \ {k.prio[t]}]

\* Mutant: the node of the thread stays in the list.
RemoveLeavesNode(k, t) ==
  IF k.list[k.prio[t]] = <<t>> THEN [k EXCEPT !.group = @ \ {k.prio[t]}] ELSE k

rt_schedule_remove_thread(k, t) ==
  LET u == Unlink(k, t)
  IN  IF u.list[k.prio[t]] = <<>>
        THEN [u EXCEPT !.group = @ \ {k.prio[t]}]
        ELSE u

\* _get_highest_priority_thread
Highest(k) == Head(k.list[Least(k.group)])

\* Whether rt_schedule leaves a running current thread on the processor.
KeepsProcessor(k) ==
  /\ k.stat[k.cur] = "RUNNING"
  /\ \/ k.prio[k.cur] < Least(k.group)
     \/ k.prio[k.cur] = Least(k.group) /\ ~ k.yield[k.cur]

ClearYield(k) ==
  IF k.stat[k.cur] = "RUNNING" THEN [k EXCEPT !.yield[k.cur] = FALSE] ELSE k

\* Mutant: a thread that is preempted is not queued again.
SwitchLosesPreempted(k, to) ==
  [rt_schedule_remove_thread([ClearYield(k) EXCEPT !.cur = to], to)
     EXCEPT !.stat[to] = "RUNNING"]

\* The switch from the current thread to thread to; to = k.cur is allowed.
SwitchTo(k, to) ==
  LET from == k.cur
      s    == [ClearYield(k) EXCEPT !.cur = to]
      i    == IF to # from /\ k.stat[from] = "RUNNING"
                THEN rt_schedule_insert_thread(s, from) ELSE s
  IN  [rt_schedule_remove_thread(i, to) EXCEPT !.stat[to] = "RUNNING"]

\* Mutant: a thread of the same priority never gets its turn.
ScheduleNoYield(k) ==
  IF k.lock # 0 \/ k.group = {} THEN k
  ELSE IF k.stat[k.cur] = "RUNNING" /\ k.prio[k.cur] <= Least(k.group)
         THEN SwitchTo(k, k.cur)
         ELSE SwitchTo(k, Highest(k))

rt_schedule(k) ==
  IF k.lock # 0 \/ k.group = {} THEN k
  ELSE SwitchTo(k, IF KeepsProcessor(k) THEN k.cur ELSE Highest(k))

-----------------------------------------------------------------------------
\* timer.c, for the timers of the threads

rt_timer_stop(k, t) ==
  [k EXCEPT !.tmr = rt_list_remove(@, t), !.left[t] = 0]

\* Before the first timer that times out later than n ticks from now.
TimerInsert(tmr, left, t, n) ==
  LET i == FirstAbove(tmr, left, n)
  IN  IF i = 0 THEN Append(tmr, t) ELSE rt_list_insert_before(tmr, i, t)

\* rt_timer_control(SET_TIME) with n, then rt_timer_start
rt_timer_start(k, t, n) ==
  LET s == rt_timer_stop(k, t)
  IN  [s EXCEPT !.tmr = TimerInsert(s.tmr, s.left, t, n), !.left[t] = n]

-----------------------------------------------------------------------------
\* thread.c

\* rt_thread_suspend, from rt_hw_interrupt_disable on
rt_thread_suspend(k, t) ==
  rt_timer_stop([rt_schedule_remove_thread(k, t) EXCEPT !.stat[t] = "SUSPEND"],
                t)

\* rt_thread_resume from rt_hw_interrupt_disable to rt_hw_interrupt_enable
ResumeUnlink(k, t) == rt_timer_stop(Unlink(k, t), t)

\* Mutant: a thread woken by a release keeps the timer of its wait.
ResumeKeepsTimer(k, t) ==
  IF k.stat[t] # "SUSPEND" THEN k
  ELSE rt_schedule_insert_thread(Unlink(k, t), t)

\* rt_thread_resume when its caller has disabled the interrupts
rt_thread_resume(k, t) ==
  IF k.stat[t] # "SUSPEND" THEN k
  ELSE rt_schedule_insert_thread(ResumeUnlink(k, t), t)

\* Mutant: a thread that times out is left on the list it waits in.
TimeoutStaysLinked(k, t) ==
  LET e == [rt_timer_stop(k, t) EXCEPT !.error[t] = "ETIMEOUT"]
  IN  rt_schedule(rt_schedule_insert_thread(e, t))

\* Mutant: a thread that becomes ready at its timeout does not preempt.
TimeoutNoSchedule(k, t) ==
  LET e == [rt_timer_stop(k, t) EXCEPT !.error[t] = "ETIMEOUT"]
  IN  rt_schedule_insert_thread(Unlink(e, t), t)

\* rt_timer_check takes the timer off its list, rt_thread_timeout does the rest.
rt_thread_timeout(k, t) ==
  LET e == [rt_timer_stop(k, t) EXCEPT !.error[t] = "ETIMEOUT"]
  IN  rt_schedule(rt_schedule_insert_thread(Unlink(e, t), t))

\* RT_THREAD_CTRL_CHANGE_PRIORITY
ChangePriority(k, t, p) ==
  IF k.stat[t] = "READY"
    THEN rt_schedule_insert_thread(
           [rt_schedule_remove_thread(k, t) EXCEPT !.prio[t] = p], t)
    ELSE [k EXCEPT !.prio[t] = p]

rt_thread_yield(k) ==
  rt_schedule([k EXCEPT !.slice[k.cur] = InitTick[k.cur],
                        !.yield[k.cur] = TRUE])

-----------------------------------------------------------------------------
\* clock.c

\* rt_tick_increase up to rt_timer_check
rt_tick_increase(k) ==
  LET s == [k EXCEPT !.left = [t \in Thread |-> IF Has(k.tmr, t)
                                                  THEN k.left[t] - 1 ELSE 0],
                     !.slice[k.cur] = @ - 1]
  IN  IF s.slice[k.cur] # 0 THEN s
      ELSE rt_schedule([s EXCEPT !.slice[k.cur] = InitTick[k.cur],
                                 !.yield[k.cur] = TRUE])

\* The test of rt_timer_check on the first timer of the list.
TimerDue(k) == k.tmr # <<>> /\ k.left[Head(k.tmr)] <= 0

-----------------------------------------------------------------------------
\* The list of the threads that wait for an IPC object, whose flag is "FIFO" or
\* "PRIO"

\* Mutant: a thread waits before those that came first.
InsertFirst(s, l, t, flag) == rt_list_insert_after(s.list[l], t)

\* A FIFO list grows at its end; a PRIO list keeps the more urgent threads
\* first, and the older ones first among equals.
InsertWaiter(s, l, t, flag) ==
  LET i == FirstAbove(s.list[l], s.prio, s.prio[t])
  IN  IF flag = "FIFO" \/ i = 0 THEN Append(s.list[l], t)
                                ELSE rt_list_insert_before(s.list[l], i, t)

rt_ipc_list_suspend(s, l, t, flag) ==
  LET r == rt_thread_suspend(s, t)
  IN  [r EXCEPT !.list[l] = InsertWaiter(r, l, t, flag)]

\* rt_ipc_list_suspend of the caller, and the timer of a wait that has an end.
SuspendOn(s, l, t, flag, time) ==
  LET r == rt_ipc_list_suspend(s, l, t, flag)
  IN  IF time > 0 THEN rt_timer_start(r, t, time) ELSE r

-----------------------------------------------------------------------------
\* When the kernel data are consistent

\* The lists are well formed: none holds a thread twice, no thread is in two,
\* and the bits of the group are those of the ready lists that hold a thread.
WellFormed(s) ==
  /\ s \in KernelState
  /\ \A l \in Priority \cup List : Once(s.list[l])
  /\ \A l, m \in Priority \cup List : \A t \in Thread :
       LinkedIn(s, t, l) /\ LinkedIn(s, t, m) => l = m
  /\ \A p \in Priority : p \in s.group <=> s.list[p] # <<>>
  /\ Once(s.tmr)

\* The status of t agrees with where t is linked and with its timer.
Fits(s, t) ==
  /\ \A p \in Priority :
       LinkedIn(s, t, p) => s.stat[t] = "READY" /\ s.prio[t] = p /\ t # s.cur
  /\ \A l \in List : LinkedIn(s, t, l) => s.stat[t] \in {"SUSPEND", "CLOSE"}
  /\ s.stat[t] = "READY" => LinkedIn(s, t, s.prio[t])
  /\ s.stat[t] = "RUNNING" => t = s.cur
  /\ Has(s.tmr, t) => s.stat[t] = "SUSPEND"

\* Consistent apart from the threads of X, which an operation is working on.
SoundBut(s, X) == WellFormed(s) /\ \A t \in Thread \ X : Fits(s, t)

Sound(s) == SoundBut(s, {})

=============================================================================
