------------------------------- MODULE Timers -------------------------------
(***************************************************************************)
(* The timers of the application (timer.c): hard timers, whose timeout     *)
(* function the tick interrupt calls, and soft timers, whose timeout       *)
(* function the timer thread calls with the interrupts enabled.  rt_tick   *)
(* is a counter that wraps, here at RT_TICK_MAX, and every comparison of   *)
(* two ticks is modulo that.                                               *)
(*                                                                         *)
(* left and want are history: the ticks until a queued timer is due, and   *)
(* whether the last thing that happened to a timer was its start.  So is   *)
(* blind: T took the timeout of a timer, RT_TICK_MAX, for an empty list.   *)
(***************************************************************************)
EXTENDS Processor, FiniteSets, Functions

CONSTANTS T,           \* timer_thread
          Timer, Soft, \* the timers, and those with RT_TIMER_FLAG_SOFT_TIMER
          Setups,      \* timers an application creates: init_tick and periodic
          RT_TICK_MAX,
          Times,       \* values of init_tick
          Controlled,  \* the timers rt_timer_control is called for
          MaxLag,      \* bound: ticks a soft timer is overdue when T is slow
          InGap,       \* soft timers are also started while T is between its
                       \* look at the list and its suspension
          Calls,       \* the calls each thread of the application makes
          Irq          \* interrupt handlers start soft timers

Modulus == RT_TICK_MAX + 1
Half == RT_TICK_MAX \div 2

\* RT_ASSERT(timer->init_tick < RT_TICK_MAX / 2)
ASSUME TimersAssumption ==
  /\ T \in Thread \ {Idle, Main} /\ Soft \subseteq Timer /\ Controlled \subseteq Timer
  /\ RT_TICK_MAX \in Nat /\ MaxLag \in Nat
  /\ \A n \in Times : n \in 1 .. Half - 1
  /\ InGap \in BOOLEAN /\ Irq \in BOOLEAN
  /\ Calls[Idle] = {} /\ Calls[T] = {}

VARIABLES tick,    \* rt_tick
          tl,      \* the lists of timers and the fields of the timers
          status,  \* soft_timer_status
          next,    \* next_timeout of rt_thread_timer_entry
          blind

own == <<tick, tl, status, next, blind>>
vars == <<k, pc, mode, own>>

ListOf(x) == IF x \in Soft THEN "soft" ELSE "hard"

\* rt_timer_init, rt_timer_create; "temp" is list of rt_soft_timer_check.
Created(setup) ==
  [ list  |-> [l \in {"soft", "hard", "temp"} |-> <<>>],
    timer |-> [x \in DOMAIN setup |->
                 [ active |-> FALSE, periodic |-> setup[x].periodic,
                   init_tick |-> setup[x].init_tick, timeout_tick |-> 0,
                   left |-> 0, want |-> FALSE ]] ]

Init ==
  /\ Boot
  /\ tick = 0
  /\ \E setup \in Setups : tl = Created(setup)
  /\ status = "IDLE" /\ next = 0 /\ blind = FALSE

Known == DOMAIN tl.timer

\* a - b in the type rt_tick_t
Diff(a, b) == (a - b) % Modulus

-----------------------------------------------------------------------------
\* Mutant: a timer that is being called stays in the temporary list.
RemovedNotTemp(r, x) ==
  [r EXCEPT !.list = [l \in DOMAIN @ |-> IF l = "temp" THEN @[l] ELSE rt_list_remove(@[l], x)],
            !.timer[x].timeout_tick = 0, !.timer[x].left = 0]

\* _rt_timer_remove; the timeout of a timer in no list is not looked at.
Removed(r, x) ==
  [r EXCEPT !.list = [l \in DOMAIN @ |-> rt_list_remove(@[l], x)],
            !.timer[x].timeout_tick = 0, !.timer[x].left = 0]

Stopped(r, x) ==
  [Removed(r, x) EXCEPT !.timer[x].active = FALSE, !.timer[x].want = FALSE]

\* Mutant: timeouts are compared as numbers.
InsertNoWrap(r, l, x, n) ==
  LET i == FirstPlace(r.list[l], LAMBDA y : r.timer[y].timeout_tick > n)
  IN  IF i = 0 THEN Append(r.list[l], x) ELSE rt_list_insert_before(r.list[l], i, x)

\* Before the first timer that times out later than at tick n.
InsertTimer(r, l, x, n) ==
  LET later(y) == LET d == Diff(r.timer[y].timeout_tick, n) IN d # 0 /\ d < Half
      i == FirstPlace(r.list[l], later)
  IN  IF i = 0 THEN Append(r.list[l], x) ELSE rt_list_insert_before(r.list[l], i, x)

\* rt_timer_start up to rt_hw_interrupt_enable, at tick c
Started(r, x, c) ==
  LET s == Removed(r, x)
      n == (c + s.timer[x].init_tick) % Modulus
  IN  [s EXCEPT !.list[ListOf(x)] = InsertTimer(s, ListOf(x), x, n),
                !.timer[x].timeout_tick = n, !.timer[x].active = TRUE,
                !.timer[x].left = s.timer[x].init_tick, !.timer[x].want = TRUE]

\* The test of the two check functions on the first timer of list l
Due(r, l, c) ==
  r.list[l] # <<>> /\ Diff(c, r.timer[Head(r.list[l])].timeout_tick) < Half

\* The timer leaves its list and is called.
Expired(r, x) ==
  LET s == Removed(r, x)
      p == r.timer[x].periodic
  IN  [s EXCEPT !.list["temp"] = <<x>>, !.timer[x].active = p /\ @,
                !.timer[x].want = p /\ @]

\* After the call: whatever removed the timer from the temporary list decided
\* what becomes of it.
CallOver(r, c) ==
  IF r.list["temp"] = <<>> THEN r
  ELSE LET x == Head(r.list["temp"])
           s == Removed(r, x)
       IN  IF s.timer[x].periodic /\ s.timer[x].active THEN Started(s, x, c) ELSE s

-----------------------------------------------------------------------------
\* The application

Call(t, c) == At(t, "user") /\ c \in Calls[t] /\ k.stat[T] # "INIT"

\* A soft timer may be started now.
StartAllowed(x) ==
  x \in Soft /\ ~ InGap => pc[T] \notin {"suspend", "delta", "delay"}

\* rt_timer_start
StartTimer(t, x) ==
  /\ Call(t, "start") /\ StartAllowed(x)
  /\ tl' = Started(tl, x, tick)
  /\ IF x \in Soft THEN Goto(t, "wake") ELSE UNCHANGED pc
  /\ UNCHANGED <<k, mode, tick, status, next, blind>>

\* The test of rt_timer_start on the timer thread.
TimerThreadIdle == status = "IDLE" /\ k.stat[T] = "SUSPEND"

WakeTest(t) ==
  /\ At(t, "wake")
  /\ Goto(t, IF TimerThreadIdle THEN "resume" ELSE "user")
  /\ UNCHANGED <<k, mode, own>>

WakeResume(t) ==
  /\ At(t, "resume")
  /\ k' = rt_thread_resume(k, T)
  /\ Goto(t, "schedule")
  /\ UNCHANGED <<mode, own>>

\* rt_timer_stop; rt_timer_detach and rt_timer_delete do the same to the lists.
StopTimer(t, x) ==
  /\ Call(t, "stop") /\ tl.timer[x].active
  /\ tl' = Stopped(tl, x)
  /\ UNCHANGED <<k, pc, mode, tick, status, next, blind>>

\* rt_timer_control with SET_TIME, SET_ONESHOT and SET_PERIODIC; the mode of a
\* timer is not changed while its timeout function executes.
ControlTimer(t, x) ==
  /\ Call(t, "control") /\ x \in Controlled
  /\ \/ \E n \in Times : tl' = [tl EXCEPT !.timer[x].init_tick = n]
     \/ /\ ~ Has(tl.list["temp"], x)
        /\ \E p \in BOOLEAN : tl' = [tl EXCEPT !.timer[x].periodic = p]
  /\ UNCHANGED <<k, pc, mode, tick, status, next, blind>>

Application(t) ==
  \/ \E x \in Known : StartTimer(t, x) \/ StopTimer(t, x) \/ ControlTimer(t, x)
  \/ WakeTest(t) \/ WakeResume(t)
  \/ /\ \/ Call(t, "sleep") /\ Sleep(t, 1)
        \/ SleepSchedule(t) \/ Slept(t)
        \/ ScheduleStep(t, "schedule", "user")
     /\ UNCHANGED own

-----------------------------------------------------------------------------
\* The timer thread: "user" is the head of the loop of rt_thread_timer_entry,
\* "check" is rt_soft_timer_check.

\* rt_timer_list_next_timeout; RT_TICK_MAX stands for an empty list.
Look ==
  /\ At(T, "user")
  /\ LET n == IF tl.list["soft"] = <<>> THEN RT_TICK_MAX
              ELSE tl.timer[Head(tl.list["soft"])].timeout_tick
     IN  IF n = RT_TICK_MAX THEN Goto(T, "suspend") /\ UNCHANGED next
                            ELSE Goto(T, "delta") /\ next' = n
  /\ blind' = (tl.list["soft"] # <<>> /\ pc'[T] = "suspend")
  /\ UNCHANGED <<k, mode, tick, tl, status>>

SuspendSelf ==
  /\ At(T, "suspend")
  /\ k' = rt_thread_suspend(k, T)
  /\ Goto(T, "suspended")
  /\ UNCHANGED <<mode, own>>

\* The current tick is read, and the time computed, before the timer of the
\* thread is started.
Delta ==
  /\ At(T, "delta")
  /\ IF Diff(next, tick) < Half
       THEN Goto(T, "delay") /\ next' = Diff(next, tick)
       ELSE Goto(T, "check") /\ next' = 0
  /\ UNCHANGED <<k, mode, tick, tl, status, blind>>

\* rt_thread_delay for n ticks, up to rt_schedule
DelayFor(n) == k' = rt_timer_start(rt_thread_suspend(k, T), T, n)

Delay ==
  /\ At(T, "delay")
  /\ DelayFor(next)
  /\ Goto(T, "suspended") /\ next' = 0
  /\ UNCHANGED <<mode, tick, tl, status, blind>>

\* Mutant: the status stays BUSY after the last call.
CheckStaysBusy(r) ==
  /\ IF Due(r, "soft", tick)
       THEN /\ tl' = Expired(r, Head(r.list["soft"]))
            /\ status' = "BUSY"
            /\ Goto(T, "call")
       ELSE tl' = r /\ UNCHANGED status /\ Goto(T, "user")
  /\ blind' = FALSE
  /\ UNCHANGED <<k, mode, tick, next>>

\* The loop of rt_soft_timer_check, with the lists r, up to the next call.
CheckFrom(r) ==
  /\ IF Due(r, "soft", tick)
       THEN /\ tl' = Expired(r, Head(r.list["soft"]))
            /\ status' = "BUSY"
            /\ Goto(T, "call")
       ELSE tl' = r /\ status' = "IDLE" /\ Goto(T, "user")
  /\ blind' = FALSE
  /\ UNCHANGED <<k, mode, tick, next>>

\* The timeout function stops or starts a timer, or neither, or it sleeps for
\* a tick.  rt_timer_start does not resume its own thread.
Callback ==
  /\ At(T, "call")
  /\ \/ /\ \/ UNCHANGED tl
           \/ \E x \in Known : tl.timer[x].active /\ tl' = Stopped(tl, x)
           \/ \E x \in Known : tl' = Started(tl, x, tick)
        /\ Goto(T, "called")
        /\ UNCHANGED k
     \/ DelayFor(1) /\ Goto(T, "nap") /\ UNCHANGED tl
  /\ UNCHANGED <<mode, tick, status, next, blind>>

TimerThread ==
  \/ Look \/ SuspendSelf \/ Delta \/ Delay \/ Callback
  \/ (ScheduleStep(T, "suspended", "check") \/ ScheduleStep(T, "nap", "called"))
       /\ UNCHANGED own
  \/ At(T, "check") /\ CheckFrom(tl)
  \/ At(T, "called") /\ CheckFrom(CallOver(tl, tick))

-----------------------------------------------------------------------------
\* The tick interrupt

\* A soft timer may be overdue only so long, unless T sleeps: "It supposes that
\* the new tick shall less than the half duration of tick max."
NotTooLate ==
  \/ Has(k.tmr, T)
  \/ \A x \in Range(tl.list["soft"]) : tl.timer[x].left > -MaxLag

Elapsed(r) ==
  LET queued == Range(r.list["soft"]) \cup Range(r.list["hard"])
  IN  [r EXCEPT !.timer = [x \in DOMAIN @ |->
                             IF x \in queued THEN [@[x] EXCEPT !.left = @ - 1] ELSE @[x]]]

\* rt_timer_check with the hard timers r: each one that is due is called, and
\* its timeout function does op.  The period is not 0: none is due again.
rt_timer_check_hard(r, c, op) ==
  LET due == SelectSeq(r.list["hard"],
                       LAMBDA x : Diff(c, r.timer[x].timeout_tick) < Half)
      expire(s, x) ==
        LET e == Expired(s, x)
        IN  CallOver(CASE op = "stop"  -> Stopped(e, x)
                       [] op = "start" -> Started(e, x, c)
                       [] OTHER        -> e, c)
      temp == r.list["temp"]
  IN  [ForEach(expire, [r EXCEPT !.list["temp"] = <<>>], due)
         EXCEPT !.list["temp"] = temp]

HardDue == Due(tl, "hard", (tick + 1) % Modulus)

TickInterrupt(op) ==
  /\ NotTooLate
  /\ WholeTick
  /\ tick' = (tick + 1) % Modulus
  /\ tl' = rt_timer_check_hard(Elapsed(tl), tick', op)
  /\ UNCHANGED <<status, next, blind>>

\* An interrupt handler starts a soft timer.
IrqStart(x) ==
  /\ Irq /\ x \in Soft /\ StartAllowed(x) /\ k.stat[T] # "INIT"
  /\ tl' = Started(tl, x, tick)
  /\ k' = IF TimerThreadIdle THEN rt_schedule(rt_thread_resume(k, T)) ELSE k
  /\ UNCHANGED <<pc, mode, tick, status, next, blind>>

Next ==
  \/ \E t \in Thread : Application(t)
  \/ TimerThread
  \/ \E u \in Thread : Start(Main, u) /\ UNCHANGED own
  \/ \E op \in IF HardDue THEN {"none", "stop", "start"} ELSE {"none"} : TickInterrupt(op)
  \/ \E x \in Known : IrqStart(x)

Spec == Init /\ [][Next]_vars

-----------------------------------------------------------------------------
Queued(x) == Has(tl.list[ListOf(x)], x)

\* The types of the timers and of the kernel data.
TypeOK ==
  /\ k \in KernelState
  /\ pc \in [Thread -> {"user", "sleep", "slept", "wake", "resume", "schedule",
                        "suspend", "suspended", "delta", "delay", "check", "call",
                        "called", "nap"}]
  /\ mode = "thread"
  /\ tick \in 0 .. RT_TICK_MAX /\ next \in 0 .. RT_TICK_MAX
  /\ status \in {"IDLE", "BUSY"}
  /\ \A x \in Known : tl.timer[x].timeout_tick \in 0 .. RT_TICK_MAX

\* A timer runs if and only if it was started and has neither been stopped nor
\* expired for the last time since, whatever its timeout function, the threads
\* and the interrupts do to it while it is called: RT_TIMER_FLAG_ACTIVATED says
\* so, and it is queued once, or is being called and will be started again.
RunsAsAsked ==
  \A x \in Known :
    /\ tl.timer[x].active = tl.timer[x].want
    /\ tl.timer[x].want <=> \/ Queued(x)
                            \/ Has(tl.list["temp"], x) /\ tl.timer[x].periodic
    /\ Len(SelectSeq(tl.list["soft"] \o tl.list["hard"] \o tl.list["temp"],
                     LAMBDA y : y = x)) <= 1

\* Across the wrap of the tick counter the lists stay in the order in which the
\* timers are due, and the tests of rt_timer_check and rt_soft_timer_check find
\* a timer due exactly when its ticks have passed, never before.
DueInOrder ==
  TypeOK /\ \A l \in {"soft", "hard"} :
    LET q == tl.list[l]
    IN  /\ \A i, j \in DOMAIN q : i < j => tl.timer[q[i]].left <= tl.timer[q[j]].left
        /\ \A i \in DOMAIN q :
             Diff(tick, tl.timer[q[i]].timeout_tick) < Half <=> tl.timer[q[i]].left <= 0

\* T has suspended itself in its loop and nobody is about to resume it.
Asleep ==
  /\ pc[T] \in {"suspended", "check"} /\ k.stat[T] = "SUSPEND"
  /\ \A t \in Thread : pc[t] \notin {"wake", "resume"}

\* No soft timer is forgotten: while one is queued the timer thread does not
\* sleep without a timer of its own (rt_timer_start: "resume timer thread to
\* check soft timer"), unless the first was due at RT_TICK_MAX.
TimerThreadWatches ==
  Asleep /\ tl.list["soft"] # <<>> /\ ~ blind => Has(k.tmr, T)

\* The timer thread sleeps without a timer only when there is no soft timer
\* (rt_thread_timer_entry: "no software timer exist, suspend self.").
SuspendedWhenNone ==
  Asleep /\ ~ Has(k.tmr, T) => tl.list["soft"] = <<>>
=============================================================================
