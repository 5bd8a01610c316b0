---------------------------- MODULE ThreadsProofs ----------------------------
(***************************************************************************)
(* Proofs about Threads, for any number of threads and of priorities and   *)
(* any set of calls, provided that the calls on other threads are made as  *)
(* Careful says.                                                           *)
(***************************************************************************)
EXTENDS Threads, KernelProofs

Closing == {"close0", "close1", "close2"}

Managing == Closing \cup {"suspend1", "resume1", "resume2"}

\* The thread that the current thread has unlinked to close it, as a set.
Half(s, p, g) ==
  IF p[s.cur] \in {"close1", "close2"} THEN {g[s.cur]} \ {s.cur} ELSE {}

\* What thread w relies on about the thread u = g[w] that its call works on.
Works(s, p, g, w) ==
  LET u == g[w]
  IN  /\ p[w] \in {"resume1", "resume2"} =>
           s.stat[u] = "SUSPEND" /\ ~ Has(s.tmr, u) /\ u # s.cur
      /\ p[w] \in Closing \cup {"suspend1"} /\ u # w =>
           /\ w = s.cur /\ s.lock # 0 /\ u # Idle /\ ~ Has(s.tmr, u)
           /\ s.stat[u] \in {"INIT", "READY", "SUSPEND"}
      /\ p[w] = "suspend1" => u # w /\ s.stat[u] = "READY"
      /\ p[w] \in Closing /\ u = w =>
           /\ s.stat[w] \in {"READY", "RUNNING"} /\ w # Idle
           /\ w = s.cur => s.lock = 0

\* No two calls work on the same thread.
OneManager(p, g) ==
  \A v, w \in Thread : p[v] \in Managing /\ p[w] \in Managing /\ g[v] = g[w] => v = w

\* Only closed threads of the heap are in a list that is not a ready list.
Buried(s) ==
  \A l \in List : \A t \in Thread :
    LinkedIn(s, t, l) => l = Defunct /\ s.stat[t] = "CLOSE" /\ t \notin Static

Released(s, f) ==
  \A t \in f : s.stat[t] = "CLOSE" /\ t # s.cur /\ Loose(s, t)

\* The invariant but for the status of the current thread, X being the threads
\* whose status does not agree with the lists.
Core(s, p, g, f, X) ==
  /\ p \in [Thread -> Location] /\ g \in [Thread -> Thread] /\ f \subseteq Thread
  /\ X \subseteq Thread /\ SoundBut(s, X) /\ \A u \in X : Loose(s, u)
  /\ \A w \in Thread : Works(s, p, g, w)
  /\ OneManager(p, g) /\ Buried(s) /\ Released(s, f)
  /\ s.stat[Idle] \in {"READY", "RUNNING"}

\* The current thread is running unless it is about to call rt_schedule.
Current(s, p) ==
  \/ s.stat[s.cur] = "RUNNING"
  \/ p[s.cur] \in {"schedule", "sleep"} /\ s.lock = 0

IInv ==
  /\ mode \in {"thread", "tick"}
  /\ Core(k, pc, tgt, freed, Half(k, pc, tgt)) /\ Current(k, pc)

\* The current thread is the most urgent one, unless it is about to call
\* rt_schedule or has locked the scheduler.
Urgent(s, p) ==
  s.lock = 0 /\ p[s.cur] \notin {"schedule", "sleep"} => MostUrgent(s)

\* No closed thread gets another status than that of a new thread.
StaysClosed(s, r) ==
  \A t \in Thread : s.stat[t] = "CLOSE" => r.stat[t] \in {"CLOSE", "INIT"}

\* What every step keeps.  A change of priority does not reschedule.
Keeps(s, p, r, p2) ==
  /\ StaysClosed(s, r)
  /\ "priority" \notin Calls /\ Urgent(s, p) => Urgent(r, p2)

-----------------------------------------------------------------------------
\* The kernel data change for thread t only, and t is not being worked on or
\* in a way its worker can do with.
LEMMA AloneCore ==
  ASSUME NEW s, NEW r, NEW p, NEW g, NEW f, NEW X, NEW Y, NEW t \in Thread,
         Core(s, p, g, f, X), Alone(s, r, t),
         SoundBut(r, Y), Y \subseteq X \cup {t}, t \in Y => Loose(r, t),
         \A w \in Thread : p[w] \in Managing /\ g[w] = t => Works(r, p, g, w),
         t = Idle => r.stat[t] \in {"READY", "RUNNING"},
         t \notin f,
         \A l \in List : LinkedIn(r, t, l) =>
           l = Defunct /\ r.stat[t] = "CLOSE" /\ t \notin Static
  PROVE  Core(r, p, g, f, Y)
  <1>0. /\ p \in [Thread -> Location] /\ g \in [Thread -> Thread] /\ f \subseteq Thread
        /\ Idle \in Thread /\ Y \subseteq Thread
    BY BootAssumption DEF Core
  <1>1. ASSUME NEW u \in Y PROVE Loose(r, u)
    <2>1. CASE u = t
      BY <2>1
    <2>2. CASE u # t
      <3>1. u \in Thread \ {t} /\ Loose(s, u)
        BY <2>2 DEF Core
      <3>. QED BY <3>1 DEF Alone, Loose
    <2>. QED BY <2>1, <2>2
  <1>2. ASSUME NEW w \in Thread PROVE Works(r, p, g, w)
    <2>1. CASE p[w] \notin Managing
      BY <2>1 DEF Works, Managing, Closing
    <2>2. CASE p[w] \in Managing /\ g[w] = t
      BY <2>2
    <2>3. CASE p[w] \in Managing /\ g[w] # t
      <3>1. /\ g[w] \in Thread \ {t} /\ Works(s, p, g, w)
            /\ r.cur = s.cur /\ r.lock = s.lock
            /\ r.stat[g[w]] = s.stat[g[w]]
            /\ Has(r.tmr, g[w]) <=> Has(s.tmr, g[w])
        BY <1>0, <2>3 DEF Core, Alone
      <3>. QED BY <3>1 DEF Works
    <2>. QED BY <2>1, <2>2, <2>3
  <1>3. Buried(r)
    BY DEF Core, Buried, Alone
  <1>4. Released(r, f)
    BY <1>0 DEF Core, Released, Alone, Loose
  <1>5. r.stat[Idle] \in {"READY", "RUNNING"}
    BY <1>0 DEF Core, Alone
  <1>6. OneManager(p, g)
    BY DEF Core
  <1>. QED BY <1>0, <1>1, <1>2, <1>3, <1>4, <1>5, <1>6 DEF Core

\* The yield flags, the times, the slices and the errors change, or the lock
\* as the calls in progress can do with.
LEMMA DataCore ==
  ASSUME NEW s, NEW r \in KernelState, NEW p, NEW g, NEW f, NEW X, Core(s, p, g, f, X),
         r.stat = s.stat, r.prio = s.prio, r.list = s.list, r.group = s.group,
         r.cur = s.cur, r.tmr = s.tmr,
         r.lock = s.lock \/ p[s.cur] \notin Managing
  PROVE  Core(r, p, g, f, X)
  <1>1. SoundBut(r, X)
    BY DataSound DEF Core
  <1>2. ASSUME NEW w \in Thread PROVE Works(r, p, g, w)
    <2>1. Works(s, p, g, w)
      BY DEF Core
    <2>2. CASE r.lock = s.lock
      BY <2>1, <2>2 DEF Works
    <2>3. CASE p[s.cur] \notin Managing
      BY <2>1, <2>3 DEF Works, Managing
    <2>. QED BY <2>2, <2>3
  <1>3. Buried(r) /\ Released(r, f) /\ \A u \in X : Loose(r, u)
    BY DEF Core, Buried, Released, Loose, LinkedIn
  <1>. QED BY <1>1, <1>2, <1>3 DEF Core

\* With the scheduler unlocked no other thread is being closed or suspended.
LEMMA Unlocked ==
  ASSUME NEW s, NEW p, NEW g, NEW f, NEW X, Core(s, p, g, f, X), s.lock = 0,
         NEW w \in Thread
  PROVE  p[w] \in Closing \cup {"suspend1"} => g[w] = w /\ p[w] # "suspend1"
  BY DEF Core, Works

\* rt_schedule with the scheduler unlocked.
LEMMA ScheduleCore ==
  ASSUME NEW s, NEW p, NEW g, NEW f, Core(s, p, g, f, {}), s.lock = 0
  PROVE  LET r == rt_schedule(s)
         IN  /\ Core(r, p, g, f, {}) /\ r.stat[r.cur] = "RUNNING" /\ r.lock = 0
             /\ MostUrgent(r) /\ Rescheduled(s, r)
  <1> DEFINE r == rt_schedule(s)
  <1>1. Sound(s)
    BY DEF Core, Sound
  <1>2. Sound(r) /\ Rescheduled(s, r) /\ MostUrgent(r)
    BY <1>1, ScheduleSound, ScheduleUrgent
  <1>3. r.stat[r.cur] = "RUNNING"
    BY <1>1, ScheduleExecutes DEF Core
  <1> HIDE DEF r
  <1>4. /\ r.lock = 0 /\ r.tmr = s.tmr /\ \A l \in List : r.list[l] = s.list[l]
        /\ \A u \in Thread : s.stat[u] \notin {"READY", "RUNNING"} => r.stat[u] = s.stat[u]
        /\ \A u \in Thread : s.stat[u] \in {"READY", "RUNNING"}
                               => r.stat[u] \in {"READY", "RUNNING"}
    BY <1>2 DEF Rescheduled
  <1>5. ASSUME NEW w \in Thread PROVE Works(r, p, g, w)
    <2>1. Works(s, p, g, w) /\ g[w] \in Thread
      BY DEF Core
    <2>2. p[w] \in Closing \cup {"suspend1"} => g[w] = w /\ p[w] # "suspend1"
      BY Unlocked
    <2>. QED BY <1>3, <1>4, <2>1, <2>2 DEF Works
  <1>6. Buried(r)
    BY <1>4 DEF Core, Buried, LinkedIn
  <1>7. Released(r, f)
    <2>. SUFFICES ASSUME NEW t \in f
                  PROVE  r.stat[t] = "CLOSE" /\ t # r.cur /\ Loose(r, t)
      BY DEF Released
    <2>1. t \in Thread /\ s.stat[t] = "CLOSE" /\ Loose(s, t)
      BY DEF Core, Released
    <2>2. r.stat[t] = "CLOSE" /\ t # r.cur
      BY <1>3, <1>4, <2>1
    <2>3. Fits(r, t)
      BY <1>2, <2>1 DEF Sound, SoundBut
    <2>4. Loose(r, t)
      BY <1>4, <2>1, <2>2, <2>3 DEF Fits, Loose, LinkedIn
    <2>. QED BY <2>2, <2>4
  <1>8. r.stat[Idle] \in {"READY", "RUNNING"}
    BY <1>4, BootAssumption DEF Core
  <1>9. Core(r, p, g, f, {})
    BY <1>2, <1>5, <1>6, <1>7, <1>8 DEF Core, Sound
  <1>. QED BY <1>2, <1>3, <1>4, <1>9 DEF r

\* rt_schedule, which does nothing while the scheduler is locked.
LEMMA AnyScheduleCore ==
  ASSUME NEW s, NEW p, NEW g, NEW f, NEW X, Core(s, p, g, f, X),
         s.lock = 0 => X = {}, s.lock # 0 => s.stat[s.cur] = "RUNNING"
  PROVE  LET r == rt_schedule(s)
         IN  /\ Core(r, p, g, f, X) /\ r.stat[r.cur] = "RUNNING" /\ r.lock = s.lock
             /\ r.lock = 0 => MostUrgent(r)
             /\ r.lock # 0 => r = s
             /\ \A u \in Thread : s.stat[u] = "CLOSE" => r.stat[u] = "CLOSE"
  <1>1. CASE s.lock = 0
    BY <1>1, ScheduleCore DEF Rescheduled
  <1>2. CASE s.lock # 0
    <2>1. rt_schedule(s) = s
      BY <1>2 DEF rt_schedule
    <2>. QED BY <1>2, <2>1
  <1>. QED BY <1>1, <1>2

\* Thread t leaves the call it is in.
LEMMA LeaveCore ==
  ASSUME NEW s, NEW p, NEW g, NEW f, NEW X, Core(s, p, g, f, X), NEW t \in Thread,
         NEW l \in Location \ Managing, NEW h, h \in {g, [g EXCEPT ![t] = t]}
  PROVE  Core(s, [p EXCEPT ![t] = l], h, f, X)
  <1> DEFINE q == [p EXCEPT ![t] = l]
  <1>1. /\ q \in [Thread -> Location] /\ h \in [Thread -> Thread] /\ q[t] = l
        /\ \A w \in Thread \ {t} : q[w] = p[w] /\ h[w] = g[w]
    BY DEF Core
  <1> HIDE DEF q
  <1>2. ASSUME NEW w \in Thread PROVE Works(s, q, h, w)
    <2>1. CASE w = t
      BY Zenon, <1>1, <2>1 DEF Works, Managing, Closing
    <2>2. CASE w # t
      <3>1. Works(s, p, g, w) /\ q[w] = p[w] /\ h[w] = g[w]
        BY <1>1, <2>2 DEF Core
      <3>. QED BY Zenon, <3>1 DEF Works
    <2>. QED BY Zenon, <2>1, <2>2
  <1>3. OneManager(q, h)
    BY <1>1 DEF Core, OneManager
  <1>4. Core(s, q, h, f, X)
    BY <1>1, <1>2, <1>3 DEF Core
  <1>. QED BY <1>4 DEF q

\* Thread t goes to location q[t], to work on a thread no one else works on.
Moves(p, g, q, h, t) ==
  /\ q \in [Thread -> Location] /\ h \in [Thread -> Thread]
  /\ \A w \in Thread \ {t} :
       q[w] = p[w] /\ h[w] = g[w] /\ (g[w] = h[t] => p[w] \notin Managing)

\* Thread t starts to work on a thread, or goes on doing so.
LEMMA WorkCore ==
  ASSUME NEW s, NEW p, NEW g, NEW f, NEW X, Core(s, p, g, f, X), NEW t \in Thread,
         NEW q, NEW h, Moves(p, g, q, h, t), Works(s, q, h, t)
  PROVE  Core(s, q, h, f, X)
  <1>1. ASSUME NEW w \in Thread PROVE Works(s, q, h, w)
    <2>1. CASE w = t
      BY ZenonT(60), <2>1
    <2>2. CASE w # t
      <3>1. Works(s, p, g, w) /\ q[w] = p[w] /\ h[w] = g[w]
        BY <2>2 DEF Core, Moves
      <3>. QED BY <3>1 DEF Works
    <2>. QED BY <2>1, <2>2
  <1>2. OneManager(q, h)
    BY DEF Core, OneManager, Moves
  <1>. QED BY <1>1, <1>2 DEF Core, Moves

-----------------------------------------------------------------------------
\* Two changes for the same thread are one.
LEMMA AloneTransitive ==
  ASSUME NEW a, NEW b, NEW c, NEW t, Alone(a, b, t), Alone(b, c, t)
  PROVE  Alone(a, c, t)
  BY DEF Alone

\* rt_schedule_remove_thread changes the lists for its thread only.
LEMMA RemoveAlone ==
  ASSUME NEW s, NEW X, SoundBut(s, X), NEW t \in Thread,
         \A p \in Priority : LinkedIn(s, t, p) => s.prio[t] = p
  PROVE  LET r == rt_schedule_remove_thread(s, t)
         IN  /\ SoundBut(r, X \cup {t}) /\ Loose(r, t) /\ Alone(s, r, t)
             /\ r.stat = s.stat /\ r.tmr = s.tmr /\ r.prio = s.prio
  <1> DEFINE r == rt_schedule_remove_thread(s, t)
  <1>1. /\ SoundBut(r, X \cup {t}) /\ Loose(r, t)
        /\ SameRest(s, r) /\ r.stat = s.stat /\ r.list = Unlink(s, t).list
    BY RemoveSound, Zenon
  <1> HIDE DEF r
  <1>2. \A l \in Priority \cup List : \A u \in Thread :
          LinkedIn(r, u, l) <=> LinkedIn(s, u, l) /\ u # t
    BY <1>1, UnlinkEffect DEF SoundBut, LinkedIn
  <1>3. Alone(s, r, t)
    BY <1>1, <1>2 DEF Alone, SameRest
  <1>. QED BY <1>1, <1>3 DEF SameRest, r

\* rt_timer_stop changes the timer of its thread only.
LEMMA TimerStopAlone ==
  ASSUME NEW s, NEW X, SoundBut(s, X), NEW t \in Thread
  PROVE  LET r == rt_timer_stop(s, t)
         IN  /\ SoundBut(r, X) /\ Alone(s, r, t) /\ SameButTimers(s, r)
             /\ ~ Has(r.tmr, t)
  <1> DEFINE r == rt_timer_stop(s, t)
  <1>1. /\ SoundBut(r, X) /\ SameButTimers(s, r)
        /\ \A u \in Thread : Has(r.tmr, u) <=> Has(s.tmr, u) /\ u # t
    BY TimerStopSound
  <1> HIDE DEF r
  <1>2. Alone(s, r, t)
    BY <1>1 DEF Alone, SameButTimers, LinkedIn
  <1>. QED BY <1>1, <1>2 DEF r

\* rt_schedule_insert_thread changes the lists and the status of its thread.
LEMMA InsertAlone ==
  ASSUME NEW s, NEW X, SoundBut(s, X), NEW t \in Thread, Loose(s, t), ~ Has(s.tmr, t)
  PROVE  LET r == rt_schedule_insert_thread(s, t)
         IN  /\ SoundBut(r, X \ {t}) /\ Alone(s, r, t) /\ r.prio = s.prio
             /\ r.stat[t] = IF t = s.cur THEN "RUNNING" ELSE "READY"
             /\ \A l \in List : ~ LinkedIn(r, t, l)
             /\ ~ Has(r.tmr, t)
  <1> DEFINE r == rt_schedule_insert_thread(s, t)
  <1>1. /\ SoundBut(r, X \ {t}) /\ SameRest(s, r)
        /\ r.stat = [s.stat EXCEPT ![t] = IF t = s.cur THEN "RUNNING" ELSE "READY"]
        /\ \A l \in Priority \cup List : l # s.prio[t] => r.list[l] = s.list[l]
        /\ \A l \in Priority \cup List : \A u \in Thread :
             u # t => (LinkedIn(r, u, l) <=> LinkedIn(s, u, l))
    BY InsertSound, Zenon
  <1> HIDE DEF r
  <1>2. s.stat \in [Thread -> Stat] /\ s.prio[t] \in Priority
    BY DEF SoundBut, WellFormed, KernelState
  <1>3. Alone(s, r, t)
    BY <1>1, <1>2 DEF Alone, SameRest
  <1>4. \A l \in List : ~ LinkedIn(r, t, l)
    <2>1. \A l \in List : l # s.prio[t]
      BY <1>2, ListAssumption
    <2>. QED BY <1>1, <2>1 DEF Loose, LinkedIn
  <1>. QED BY <1>1, <1>2, <1>3, <1>4 DEF SameRest, r

\* A change for thread t alone that makes no thread ready leaves the current
\* thread the most urgent one.
LEMMA QuietUrgent ==
  ASSUME NEW s, NEW r, NEW p, NEW q, NEW t \in Thread, Alone(s, r, t),
         s.cur \in Thread, t = s.cur => r.prio[t] = s.prio[t],
         r.stat[t] = "READY" => s.stat[t] = "READY" /\ r.prio[t] = s.prio[t],
         p[s.cur] \notin {"schedule", "sleep"}, Urgent(s, p)
  PROVE  Urgent(r, q)
  <1>1. r.cur = s.cur /\ r.lock = s.lock /\ r.prio[s.cur] = s.prio[s.cur]
    BY DEF Alone
  <1>2. \A u \in Thread : r.stat[u] = "READY" => s.stat[u] = "READY" /\ r.prio[u] = s.prio[u]
    BY DEF Alone
  <1>. QED BY Zenon, <1>1, <1>2 DEF Urgent, MostUrgent

-----------------------------------------------------------------------------
\* What a step has to show.
Preserved == IInv' /\ Keeps(k, pc, k', pc')

\* The thread that executes, outside the middle of closing another.
LEMMA Executing ==
  ASSUME IInv, NEW t \in Thread, NEW l, At(t, l), l \notin {"close1", "close2"}
  PROVE  /\ t = k.cur /\ pc[t] = l /\ Core(k, pc, tgt, freed, {})
         /\ Sound(k) /\ k \in KernelState
         /\ pc \in [Thread -> Location] /\ tgt \in [Thread -> Thread]
         /\ l \notin {"schedule", "sleep"} => k.stat[t] = "RUNNING"
         /\ k.lock # 0 => k.stat[t] = "RUNNING"
  <1>1. t = k.cur /\ pc[t] = l
    BY DEF At
  <1>2. Half(k, pc, tgt) = {}
    BY <1>1 DEF Half
  <1>3. Core(k, pc, tgt, freed, {}) /\ Current(k, pc)
    BY Zenon, <1>2 DEF IInv
  <1>4. Sound(k) /\ k \in KernelState
    BY Zenon, <1>3 DEF Core, Sound, SoundBut, WellFormed
  <1>. QED BY <1>1, <1>3, <1>4 DEF Core, Current

\* With the scheduler unlocked, or the current thread elsewhere, no thread is
\* half closed.
LEMMA NoHalf ==
  ASSUME NEW s, NEW p, NEW g, NEW f, NEW X, Core(s, p, g, f, X),
         s.lock = 0 \/ p[s.cur] \notin {"close1", "close2"}
  PROVE  Half(s, p, g) = {}
  <1>1. s.cur \in Thread
    BY DEF Core, SoundBut, WellFormed, KernelState
  <1>2. CASE s.lock = 0
    BY <1>1, <1>2, Unlocked DEF Half, Closing
  <1>3. CASE p[s.cur] \notin {"close1", "close2"}
    BY <1>3 DEF Half
  <1>. QED BY <1>2, <1>3

\* A step that ends with rt_schedule.
LEMMA EndsInSchedule ==
  ASSUME IInv, mode' \in {"thread", "tick"}, NEW c,
         Core(c, pc', tgt', freed', Half(c, pc', tgt')),
         c.lock # 0 => c.stat[c.cur] = "RUNNING",
         \A u \in Thread : k.stat[u] = "CLOSE" => c.stat[u] = "CLOSE",
         k' = rt_schedule(c)
  PROVE  Preserved
  <1> DEFINE X == Half(c, pc', tgt')
  <1>1. c.lock = 0 => X = {}
    BY Zenon, NoHalf
  <1>2. /\ Core(k', pc', tgt', freed', X) /\ k'.stat[k'.cur] = "RUNNING"
        /\ k'.lock = c.lock
        /\ k'.lock = 0 => MostUrgent(k')
        /\ k'.lock # 0 => k' = c
        /\ \A u \in Thread : c.stat[u] = "CLOSE" => k'.stat[u] = "CLOSE"
    <2> HIDE DEF X
    <2>1. Core(c, pc', tgt', freed', X)
      BY DEF X
    <2>. QED BY <1>1, <2>1, AnyScheduleCore
  <1>3. Half(k', pc', tgt') = X
    <2>1. CASE c.lock = 0
      BY Zenon, <1>1, <1>2, <2>1, NoHalf
    <2>2. CASE c.lock # 0
      BY Zenon, <1>2, <2>2
    <2>. QED BY Zenon, <2>1, <2>2
  <1> HIDE DEF X
  <1>4. IInv'
    BY Zenon, <1>2, <1>3 DEF IInv, Current
  <1>5. StaysClosed(k, k') /\ Urgent(k', pc')
    BY <1>2 DEF StaysClosed, Urgent
  <1>. QED BY <1>4, <1>5 DEF Preserved, Keeps

\* A step that does not call rt_schedule.
LEMMA EndsQuietly ==
  ASSUME IInv, mode' \in {"thread", "tick"},
         Core(k', pc', tgt', freed', Half(k', pc', tgt')), Current(k', pc'),
         StaysClosed(k, k'),
         "priority" \notin Calls /\ Urgent(k, pc) => Urgent(k', pc')
  PROVE  Preserved
  BY Zenon DEF Preserved, IInv, Keeps

-----------------------------------------------------------------------------
\* The calls on the calling thread itself

\* rt_thread_yield.
LEMMA YieldKeeps ==
  ASSUME IInv, NEW t \in Thread, Yield(t)
  PROVE  Preserved
  <1>1. At(t, "user") /\ k' = rt_thread_yield(k) /\ pc' = pc /\ tgt' = tgt
        /\ freed' = freed /\ mode' = mode
    BY DEF Yield, Call
  <1>2. /\ t = k.cur /\ pc[t] = "user" /\ Core(k, pc, tgt, freed, {})
        /\ k \in KernelState /\ k.stat[t] = "RUNNING"
    BY <1>1, Executing
  <1> DEFINE c == [k EXCEPT !.slice[k.cur] = InitTick[k.cur], !.yield[k.cur] = TRUE]
  <1>3. /\ c \in KernelState
        /\ c.stat = k.stat /\ c.prio = k.prio /\ c.list = k.list /\ c.group = k.group
        /\ c.cur = k.cur /\ c.tmr = k.tmr /\ c.lock = k.lock
    BY Zenon, <1>2, TickAssumption DEF KernelState
  <1>4. k' = rt_schedule(c)
    BY Zenon, <1>1 DEF rt_thread_yield
  <1> HIDE DEF c
  <1>5. Core(c, pc, tgt, freed, {})
    BY <1>2, <1>3, DataCore
  <1>6. Half(c, pc, tgt) = {}
    BY <1>2, <1>3 DEF Half
  <1>. QED BY <1>1, <1>2, <1>3, <1>4, <1>5, <1>6, EndsInSchedule DEF IInv

\* rt_schedule as the last step of a call
LEMMA ScheduleStepKeeps ==
  ASSUME IInv, NEW t \in Thread, NEW l \in {"schedule", "sleep"},
         NEW m \in {"user", "slept"}, ScheduleStep(t, l, m), UNCHANGED own
  PROVE  Preserved
  <1>1. At(t, l) /\ k' = rt_schedule(k) /\ pc' = [pc EXCEPT ![t] = m] /\ tgt' = tgt
        /\ freed' = freed /\ mode' = mode
    BY DEF ScheduleStep, Goto, own
  <1>2. /\ t = k.cur /\ Core(k, pc, tgt, freed, {}) /\ pc \in [Thread -> Location]
        /\ k.lock # 0 => k.stat[t] = "RUNNING"
    BY <1>1, Executing
  <1>3. Core(k, pc', tgt', freed', {})
    BY Zenon, <1>1, <1>2, LeaveCore DEF Location, Managing, Closing
  <1>4. Half(k, pc', tgt') = {}
    BY <1>1, <1>2 DEF Half
  <1>. QED BY Zenon, <1>1, <1>2, <1>3, <1>4, EndsInSchedule DEF IInv

\* The end of rt_thread_sleep, which clears the error of the time-out.
LEMMA SleptKeeps ==
  ASSUME IInv, NEW t \in Thread, Slept(t), UNCHANGED own
  PROVE  Preserved
  <1>1. /\ At(t, "slept") /\ pc' = [pc EXCEPT ![t] = "user"] /\ tgt' = tgt
        /\ k' = [k EXCEPT !.error[t] = IF @ = "ETIMEOUT" THEN "EOK" ELSE @]
        /\ freed' = freed /\ mode' = mode
    BY DEF Slept, Goto, own
  <1>2. /\ t = k.cur /\ pc[t] = "slept" /\ Core(k, pc, tgt, freed, {})
        /\ k \in KernelState /\ pc \in [Thread -> Location] /\ k.stat[t] = "RUNNING"
    BY <1>1, Executing
  <1>3. /\ k' \in KernelState
        /\ k'.stat = k.stat /\ k'.prio = k.prio /\ k'.list = k.list /\ k'.group = k.group
        /\ k'.cur = k.cur /\ k'.tmr = k.tmr /\ k'.lock = k.lock
    BY Zenon, <1>1, <1>2 DEF KernelState, Error
  <1>4. Core(k', pc, tgt, freed, {})
    BY <1>2, <1>3, DataCore
  <1>5. Core(k', pc', tgt', freed', {})
    BY Zenon, <1>1, <1>4, LeaveCore DEF Location, Managing, Closing
  <1>6. Half(k', pc', tgt') = {}
    BY Zenon, <1>1, <1>2, <1>3 DEF Half
  <1>7. Current(k', pc') /\ StaysClosed(k, k')
    BY Zenon, <1>2, <1>3 DEF Current, StaysClosed
  <1>8. Urgent(k, pc) => Urgent(k', pc')
    BY Zenon, <1>2, <1>3 DEF Urgent, MostUrgent
  <1>. QED BY Zenon, <1>1, <1>5, <1>6, <1>7, <1>8, EndsQuietly DEF IInv

\* rt_enter_critical and rt_exit_critical
LEMMA CriticalKeeps ==
  ASSUME IInv, NEW t \in Thread, rt_enter_critical(t) \/ rt_exit_critical(t)
  PROVE  Preserved
  <1>1. At(t, "user") /\ tgt' = tgt /\ freed' = freed /\ mode' = mode
    BY DEF rt_enter_critical, rt_exit_critical, Call
  <1>2. /\ t = k.cur /\ pc[t] = "user" /\ Core(k, pc, tgt, freed, {})
        /\ k \in KernelState /\ pc \in [Thread -> Location] /\ k.stat[t] = "RUNNING"
    BY <1>1, Executing
  <1>3. k.lock \in Nat
    BY <1>2 DEF KernelState
  <1>4. PICK n \in Nat : /\ k' = [k EXCEPT !.lock = n]
                         /\ \/ n # 0 /\ pc' = pc
                            \/ pc' = [pc EXCEPT ![t] = "schedule"]
    <2>1. CASE rt_enter_critical(t)
      BY <1>3, <2>1 DEF rt_enter_critical
    <2>2. CASE rt_exit_critical(t)
      <3>1. CASE k.lock <= 1
        BY <2>2, <3>1 DEF rt_exit_critical, Goto
      <3>2. CASE ~ k.lock <= 1
        BY <1>3, <2>2, <3>2 DEF rt_exit_critical
      <3>. QED BY <3>1, <3>2
    <2>. QED BY <2>1, <2>2
  <1>5. /\ k' \in KernelState /\ k'.lock = n
        /\ k'.stat = k.stat /\ k'.prio = k.prio /\ k'.list = k.list /\ k'.group = k.group
        /\ k'.cur = k.cur /\ k'.tmr = k.tmr
    BY Zenon, <1>2, <1>4 DEF KernelState
  <1>6. Core(k', pc, tgt, freed, {})
    BY <1>2, <1>5, DataCore DEF Managing, Closing
  <1>7. Core(k', pc', tgt', freed', {})
    BY <1>1, <1>4, <1>6, LeaveCore DEF Location, Managing, Closing
  <1>8. pc'[k'.cur] \in {"user", "schedule"} /\ (n = 0 => pc'[k'.cur] = "schedule")
    BY <1>2, <1>4, <1>5
  <1>9. Half(k', pc', tgt') = {}
    BY Zenon, <1>8 DEF Half
  <1>10. Current(k', pc') /\ StaysClosed(k, k') /\ Urgent(k', pc')
    BY Zenon, <1>2, <1>5, <1>8 DEF Current, StaysClosed, Urgent
  <1>. QED BY <1>1, <1>7, <1>9, <1>10, EndsQuietly DEF IInv

\* No one works on the current thread while it is not closing itself.
LEMMA CurrentUnmanaged ==
  ASSUME NEW s, NEW p, NEW g, NEW f, NEW X, Core(s, p, g, f, X),
         p[s.cur] \notin Managing, NEW w \in Thread, g[w] = s.cur
  PROVE  p[w] \notin Managing
  BY DEF Core, Works, Managing

\* A thread suspends itself.
LEMMA SuspendSelfKeeps ==
  ASSUME IInv, NEW t \in Thread, SuspendSelf(t)
  PROVE  Preserved
  <1>1. /\ At(t, "user") /\ t # Idle /\ k.lock = 0 /\ k' = rt_thread_suspend(k, t)
        /\ pc' = [pc EXCEPT ![t] = "schedule"] /\ tgt' = tgt
        /\ freed' = freed /\ mode' = mode
    BY DEF SuspendSelf, Call, Goto
  <1>2. /\ t = k.cur /\ Core(k, pc, tgt, freed, {}) /\ Sound(k)
        /\ pc \in [Thread -> Location] /\ k.stat[t] = "RUNNING"
    BY <1>1, Executing
  <1>3. Core(k, pc', tgt, freed, {})
    BY Zenon, <1>1, <1>2, LeaveCore DEF Location, Managing, Closing
  <1>4. Sound(k') /\ Loose(k', t) /\ k'.stat[t] = "SUSPEND" /\ Alone(k, k', t)
    BY Zenon, <1>1, <1>2, SuspendSound
  <1>5. pc'[k.cur] = "schedule" /\ k'.cur = k.cur /\ k'.lock = 0
    BY Zenon, <1>1, <1>2, <1>4 DEF Alone
  <1>6. \A w \in Thread : tgt[w] = t => pc'[w] \notin Managing
    BY <1>2, <1>3, <1>5, CurrentUnmanaged DEF Managing, Closing
  <1>7. t \notin freed
    BY <1>2 DEF Core, Released
  <1>8. Core(k', pc', tgt, freed, {})
    BY Zenon, <1>1, <1>3, <1>4, <1>6, <1>7, AloneCore DEF Sound, Loose
  <1>9. Half(k', pc', tgt') = {}
    BY Zenon, <1>5 DEF Half
  <1>10. Current(k', pc') /\ StaysClosed(k, k') /\ Urgent(k', pc')
    BY <1>2, <1>4, <1>5 DEF Current, StaysClosed, Urgent, Alone
  <1>. QED BY Zenon, <1>1, <1>8, <1>9, <1>10, EndsQuietly DEF IInv

\* rt_thread_sleep up to its call of rt_schedule.
LEMMA SleepKeeps ==
  ASSUME IInv, NEW t \in Thread, NEW n \in Int, t # Idle, Sleep(t, n), UNCHANGED own
  PROVE  Preserved
  <1> DEFINE a == rt_thread_suspend(k, t)
  <1>1. /\ At(t, "user") /\ k.lock = 0 /\ k' = rt_timer_start(a, t, n)
        /\ pc' = [pc EXCEPT ![t] = "sleep"] /\ tgt' = tgt
        /\ freed' = freed /\ mode' = mode
    BY DEF Sleep, Goto, own
  <1>2. /\ t = k.cur /\ Core(k, pc, tgt, freed, {}) /\ Sound(k)
        /\ pc \in [Thread -> Location] /\ k.stat[t] = "RUNNING"
    BY <1>1, Executing
  <1>3. Core(k, pc', tgt, freed, {})
    BY ZenonT(60), <1>1, <1>2, LeaveCore DEF Location, Managing, Closing
  <1>4. Sound(a) /\ Loose(a, t) /\ a.stat[t] = "SUSPEND" /\ Alone(k, a, t)
    BY <1>1, <1>2, SuspendSound
  <1> HIDE DEF a
  <1>5. /\ Sound(k') /\ SameButTimers(a, k')
        /\ \A u \in Thread : Has(k'.tmr, u) <=> Has(a.tmr, u) \/ u = t
    BY Zenon, <1>1, <1>4, TimerStartSound DEF Sound
  <1>6. Alone(k, k', t) /\ Loose(k', t) /\ k'.stat[t] = "SUSPEND"
    BY Zenon, <1>4, <1>5 DEF Alone, SameButTimers, Loose, LinkedIn
  <1>7. pc'[k.cur] = "sleep" /\ k'.cur = k.cur /\ k'.lock = 0
    BY Zenon, <1>1, <1>2, <1>6 DEF Alone
  <1>8. \A w \in Thread : tgt[w] = t => pc'[w] \notin Managing
    BY <1>2, <1>3, <1>7, CurrentUnmanaged DEF Managing, Closing
  <1>9. t \notin freed
    BY Zenon, <1>2 DEF Core, Released
  <1>10. Core(k', pc', tgt, freed, {})
    BY Zenon, <1>3, <1>5, <1>6, <1>8, <1>9, AloneCore DEF Sound, Loose
  <1>11. Half(k', pc', tgt') = {}
    BY Zenon, <1>7 DEF Half
  <1>12. Current(k', pc') /\ StaysClosed(k, k') /\ Urgent(k', pc')
    BY <1>2, <1>6, <1>7 DEF Current, StaysClosed, Urgent, Alone
  <1>. QED BY Zenon, <1>1, <1>10, <1>11, <1>12, EndsQuietly DEF IInv

\* Length and elements of two sequences in a row.
LEMMA ConcatElements ==
  ASSUME NEW S, NEW a \in Seq(S), NEW b \in Seq(S)
  PROVE  /\ a \o b \in Seq(S) /\ Len(a \o b) = Len(a) + Len(b)
         /\ \A i \in 1 .. Len(a) + Len(b) :
              (a \o b)[i] = IF i <= Len(a) THEN a[i] ELSE b[i - Len(a)]
  OBVIOUS

\* rt_list_insert_after puts a node at the head of a list that does not hold it.
LEMMA InsertAfterElements ==
  ASSUME NEW d \in Seq(Thread), Once(d), NEW t \in Thread, ~ Has(d, t)
  PROVE  LET q == rt_list_insert_after(d, t)
         IN  /\ q \in Seq(Thread) /\ Once(q)
             /\ \A u \in Thread : Has(q, u) <=> Has(d, u) \/ u = t
  <1> DEFINE c == <<t>>
             q == rt_list_insert_after(d, t)
  <1>1. c \in Seq(Thread) /\ Len(c) = 1 /\ c[1] = t /\ q = c \o d
    BY DEF rt_list_insert_after
  <1>2. Len(d) \in Nat
    OBVIOUS
  <1> HIDE DEF c, q
  <1>3. q \in Seq(Thread) /\ Len(q) = 1 + Len(d)
    BY ZenonT(60), <1>1, ConcatElements
  <1>4. \A i \in 1 .. 1 + Len(d) : q[i] = IF i <= 1 THEN c[i] ELSE d[i - 1]
    <2>1. \A i \in 1 .. Len(c) + Len(d) :
            (c \o d)[i] = IF i <= Len(c) THEN c[i] ELSE d[i - Len(c)]
      BY <1>1, ConcatElements, Zenon
    <2>. QED BY <1>1, <2>1, Zenon
  <1>5. /\ q[1] = t /\ 1 \in 1 .. Len(q)
        /\ \A i \in 1 .. Len(q) : i # 1 => i - 1 \in 1 .. Len(d) /\ q[i] = d[i - 1]
    BY <1>1, <1>2, <1>3, <1>4
  <1>6. Once(q)
    <2>. SUFFICES ASSUME NEW i \in 1 .. Len(q), NEW j \in 1 .. Len(q), q[i] = q[j]
                  PROVE  i = j
      BY DEF Once
    <2>1. CASE i = 1 \/ j = 1
      BY Zenon, <1>5, <2>1 DEF Has
    <2>2. CASE i # 1 /\ j # 1
      <3>1. i - 1 \in 1 .. Len(d) /\ j - 1 \in 1 .. Len(d) /\ d[i - 1] = d[j - 1]
        BY <1>5, <2>2
      <3>2. i - 1 = j - 1
        BY <3>1 DEF Once
      <3>. QED BY <3>2
    <2>. QED BY <2>1, <2>2
  <1>7. ASSUME NEW u \in Thread PROVE Has(q, u) <=> Has(d, u) \/ u = t
    <2>1. ASSUME NEW i \in 1 .. Len(d) PROVE i + 1 \in 1 .. Len(q) /\ q[i + 1] = d[i]
      BY <1>2, <1>3, <1>4
    <2>2. Has(d, u) => Has(q, u)
      BY <2>1 DEF Has
    <2>3. Has(q, u) /\ u # t => Has(d, u)
      BY <1>5 DEF Has
    <2>4. Has(q, t)
      BY Zenon, <1>5 DEF Has
    <2>. QED BY <2>2, <2>3, <2>4
  <1>. QED BY <1>3, <1>6, <1>7 DEF q

\* The node of a closed thread of the heap goes to the defunct list.
LEMMA BurySound ==
  ASSUME NEW s, Sound(s), NEW t \in Thread, Loose(s, t), s.stat[t] = "CLOSE"
  PROVE  LET r == Bury(s, t)
         IN  /\ Sound(r) /\ Alone(s, r, t) /\ r.stat = s.stat /\ r.tmr = s.tmr
             /\ r.prio = s.prio
             /\ \A l \in List : LinkedIn(r, t, l) => l = Defunct /\ t \notin Static
  <1>1. CASE t \in Static
    <2>1. Bury(s, t) = s
      BY Zenon, <1>1 DEF Bury
    <2>. QED BY <2>1 DEF Alone, Loose
  <1>2. CASE t \notin Static
    <2> DEFINE d == s.list[Defunct]
               q == rt_list_insert_after(d, t)
               r == [s EXCEPT !.list[Defunct] = q]
    <2>1. Bury(s, t) = r
      BY Zenon, <1>2 DEF Bury
    <2>2. Defunct \in List /\ d \in Seq(Thread) /\ Once(d) /\ ~ Has(d, t)
      BY ThreadsAssumption DEF Sound, SoundBut, WellFormed, KernelState, Loose, LinkedIn
    <2>3. /\ q \in Seq(Thread) /\ Once(q)
          /\ \A u \in Thread : Has(q, u) <=> Has(s.list[Defunct], u) \/ u = t
      BY <2>2, InsertAfterElements
    <2> HIDE DEF q
    <2>6. /\ Sound(r) /\ r.stat = s.stat /\ r.tmr = s.tmr /\ Kept(s, r)
          /\ r.list[Defunct] = q
          /\ \A m \in Priority \cup List : \A u \in Thread :
               LinkedIn(r, u, m) <=> LinkedIn(s, u, m) \/ (u = t /\ m = Defunct)
      BY ZenonT(60), <2>2, <2>3, EnlistSound
    <2> HIDE DEF r
    <2>7. Alone(s, r, t)
      BY <2>6 DEF Alone, Kept
    <2>8. \A l \in List : LinkedIn(r, t, l) => l = Defunct /\ t \notin Static
      BY <1>2, <2>6 DEF Loose
    <2>. QED BY <2>1, <2>6, <2>7, <2>8 DEF Kept
  <1>. QED BY <1>1, <1>2

\* A thread that is linked nowhere is closed.
LEMMA ClosedSound ==
  ASSUME NEW s, NEW t \in Thread, SoundBut(s, {t}), Loose(s, t), ~ Has(s.tmr, t)
  PROVE  LET r == Closed(s, t)
         IN  /\ Sound(r) /\ Alone(s, r, t) /\ Loose(r, t) /\ r.stat[t] = "CLOSE"
             /\ r.tmr = s.tmr /\ r.prio = s.prio
  <1> DEFINE r == Closed(s, t)
  <1>1. s \in KernelState /\ s.stat \in [Thread -> Stat] /\ "CLOSE" \in Stat
    BY DEF SoundBut, WellFormed, KernelState, Stat
  <1>2. /\ r \in KernelState /\ r.stat = [s.stat EXCEPT ![t] = "CLOSE"]
        /\ r.prio = s.prio /\ r.list = s.list /\ r.group = s.group
        /\ r.cur = s.cur /\ r.tmr = s.tmr /\ r.lock = s.lock
    BY Zenon, <1>1 DEF Closed, KernelState
  <1> HIDE DEF r
  <1>3. SoundBut(r, {t} \ {t})
    BY <1>1, <1>2, StatusSound
  <1>4. Sound(r)
    <2>1. {t} \ {t} = {}
      OBVIOUS
    <2>. QED BY <1>3, <2>1 DEF Sound
  <1>5. Alone(s, r, t) /\ Loose(r, t) /\ r.stat[t] = "CLOSE"
    BY <1>1, <1>2 DEF Alone, Loose, LinkedIn
  <1>. QED BY <1>2, <1>4, <1>5 DEF r

\* rt_thread_exit.
LEMMA ExitKeeps ==
  ASSUME IInv, NEW t \in Thread, rt_thread_exit(t)
  PROVE  Preserved
  <1> DEFINE a == rt_schedule_remove_thread(k, t)
             b == Closed(a, t)
             c == rt_timer_stop(b, t)
             d == Bury(c, t)
  <1>1. /\ At(t, "user") /\ t # Idle /\ k.lock = 0 /\ k' = rt_schedule(d)
        /\ pc' = [pc EXCEPT ![t] = "exited"] /\ tgt' = tgt
        /\ freed' = freed /\ mode' = mode
    BY DEF rt_thread_exit, Call, Goto
  <1>2. /\ t = k.cur /\ Core(k, pc, tgt, freed, {}) /\ Sound(k)
        /\ pc \in [Thread -> Location] /\ k.stat[t] = "RUNNING"
    BY <1>1, Executing
  <1>3. Core(k, pc', tgt, freed, {})
    BY Zenon, <1>1, <1>2, LeaveCore DEF Location, Managing, Closing
  <1>4. Fits(k, t) /\ ~ Has(k.tmr, t)
    BY Zenon, <1>2 DEF Sound, SoundBut, Fits
  <1>5. SoundBut(a, {t}) /\ Loose(a, t) /\ Alone(k, a, t) /\ ~ Has(a.tmr, t)
    <2>1. /\ SoundBut(a, {} \cup {t}) /\ Loose(a, t) /\ Alone(k, a, t)
          /\ a.tmr = k.tmr
      BY <1>2, <1>4, RemoveAlone DEF Sound, Fits
    <2>2. {} \cup {t} = {t}
      BY Zenon
    <2> HIDE DEF a
    <2>. QED BY ZenonT(60), <1>4, <2>1, <2>2
  <1> HIDE DEF a
  <1>6. Sound(b) /\ Alone(a, b, t) /\ Loose(b, t) /\ b.stat[t] = "CLOSE"
    BY Zenon, <1>5, ClosedSound
  <1> HIDE DEF b
  <1>7. Sound(c) /\ Alone(b, c, t) /\ SameButTimers(b, c)
    BY Zenon, <1>6, TimerStopAlone DEF Sound
  <1>8. Loose(c, t) /\ c.stat[t] = "CLOSE"
    BY Zenon, <1>6, <1>7 DEF SameButTimers, Loose, LinkedIn
  <1> HIDE DEF c
  <1>9. /\ Sound(d) /\ Alone(c, d, t) /\ d.stat[t] = "CLOSE"
        /\ \A l \in List : LinkedIn(d, t, l) => l = Defunct /\ t \notin Static
    BY Zenon, <1>7, <1>8, BurySound
  <1> HIDE DEF d
  <1>10. Alone(k, d, t)
    BY Zenon, <1>5, <1>6, <1>7, <1>9, AloneTransitive
  <1>11. pc'[k.cur] = "exited" /\ d.lock = 0 /\ d.cur = k.cur
    BY ZenonT(60), <1>1, <1>2, <1>10 DEF Alone
  <1>12. \A w \in Thread : tgt[w] = t => pc'[w] \notin Managing
    BY SMTT(30), <1>2, <1>3, <1>11, CurrentUnmanaged DEF Managing, Closing
  <1>13. t \notin freed
    BY <1>2 DEF Core, Released
  <1>14. Core(d, pc', tgt, freed, {})
    BY ZenonT(60), <1>1, <1>3, <1>9, <1>10, <1>12, <1>13, AloneCore DEF Sound
  <1>15. Half(d, pc', tgt') = {}
    BY <1>11 DEF Half
  <1>16. \A u \in Thread : k.stat[u] = "CLOSE" => d.stat[u] = "CLOSE"
    BY <1>9, <1>10 DEF Alone
  <1>. QED BY Zenon, <1>1, <1>11, <1>14, <1>15, <1>16, EndsInSchedule DEF IInv

-----------------------------------------------------------------------------
\* The calls on another thread

\* A thread begins to work on thread u.
LEMMA BeginKeeps ==
  ASSUME IInv, NEW t \in Thread, NEW u \in Thread, At(t, "user"), Unmanaged(u),
         NEW l \in Managing \ {"close1", "close2"}, GotoWith(t, l, u),
         UNCHANGED <<k, mode, freed>>, Works(k, pc', tgt', t)
  PROVE  Preserved
  <1>1. /\ pc' = [pc EXCEPT ![t] = l] /\ tgt' = [tgt EXCEPT ![t] = u]
        /\ k' = k /\ freed' = freed /\ mode' = mode
    BY Zenon DEF GotoWith, Goto
  <1>2. /\ t = k.cur /\ Core(k, pc, tgt, freed, {}) /\ pc[t] = "user"
        /\ pc \in [Thread -> Location] /\ k.stat[t] = "RUNNING"
    BY Zenon, Executing
  <1>3. \A w \in Thread \ {t} : tgt[w] = u => pc[w] \notin Managing
    BY Zenon DEF Unmanaged, Managing, Closing
  <1>4. Core(k', pc', tgt', freed', {})
    <2>1. /\ tgt \in [Thread -> Thread] /\ l \in Location
      BY Zenon, <1>2 DEF Core, Managing, Closing, Location
    <2>2. Moves(pc, tgt, pc', tgt', t)
      BY Zenon, <1>1, <1>2, <1>3, <2>1 DEF Moves
    <2>. QED BY <1>1, <1>2, <2>2, WorkCore
  <1>5. pc'[k'.cur] = l
    BY Zenon, <1>1, <1>2
  <1>6. Half(k', pc', tgt') = {}
    BY Zenon, <1>5 DEF Half
  <1>7. Current(k', pc') /\ StaysClosed(k, k') /\ (Urgent(k, pc) => Urgent(k', pc'))
    BY Zenon, <1>1, <1>2 DEF Current, StaysClosed, Urgent
  <1>. QED BY Zenon, <1>1, <1>4, <1>6, <1>7, EndsQuietly DEF IInv

\* rt_thread_resume finds the thread suspended.
LEMMA ResumeKeeps ==
  ASSUME IInv, Careful, NEW t \in Thread, NEW u \in Thread, Resume(t, u)
  PROVE  Preserved
  <1>1. /\ At(t, "user") /\ Unmanaged(u) /\ GotoWith(t, "resume1", u)
        /\ k.stat[u] = "SUSPEND" /\ ~ Has(k.tmr, u) /\ UNCHANGED <<k, mode, freed>>
    BY Zenon DEF Resume, Call
  <1>2. t = k.cur /\ k.stat[t] = "RUNNING" /\ pc \in [Thread -> Location]
        /\ tgt \in [Thread -> Thread]
    BY <1>1, Executing
  <1>3. pc'[t] = "resume1" /\ tgt'[t] = u
    BY Zenon, <1>1, <1>2 DEF GotoWith, Goto
  <1>4. Works(k, pc', tgt', t)
    BY Zenon, <1>1, <1>2, <1>3 DEF Works, Closing
  <1>. QED BY Zenon, <1>1, <1>4, BeginKeeps DEF Managing

\* rt_thread_suspend of another thread finds it ready.
LEMMA SuspendOtherKeeps ==
  ASSUME IInv, Careful, NEW t \in Thread, NEW u \in Thread, SuspendOther(t, u)
  PROVE  Preserved
  <1>1. /\ At(t, "user") /\ Unmanaged(u) /\ GotoWith(t, "suspend1", u)
        /\ k.lock > 0 /\ u # t /\ u # Idle /\ k.stat[u] = "READY"
        /\ UNCHANGED <<k, mode, freed>>
    BY Zenon DEF SuspendOther, Call
  <1>2. /\ t = k.cur /\ Sound(k) /\ k \in KernelState
        /\ pc \in [Thread -> Location] /\ tgt \in [Thread -> Thread]
    BY Zenon, <1>1, Executing
  <1>3. pc'[t] = "suspend1" /\ tgt'[t] = u /\ k.lock # 0
    BY SMTT(30), <1>1, <1>2 DEF GotoWith, Goto, KernelState
  <1>4. ~ Has(k.tmr, u)
    BY Zenon, <1>1, <1>2 DEF Sound, SoundBut, Fits
  <1>5. Works(k, pc', tgt', t)
    BY Zenon, <1>1, <1>2, <1>3, <1>4 DEF Works, Closing
  <1>. QED BY <1>1, <1>5, BeginKeeps DEF Managing

\* rt_thread_delete or rt_thread_detach finds the thread not closed.
LEMMA CloseKeeps ==
  ASSUME IInv, Careful, NEW t \in Thread, NEW u \in Thread, Close(t, u)
  PROVE  Preserved
  <1>1. /\ At(t, "user") /\ Unmanaged(u) /\ GotoWith(t, "close0", u)
        /\ u # Idle /\ k.stat[u] # "CLOSE" /\ (u = t => k.lock = 0)
        /\ (u # t => k.lock > 0 /\ ~ Has(k.tmr, u))
        /\ UNCHANGED <<k, mode, freed>>
    BY Zenon DEF Close, Call
  <1>2. /\ t = k.cur /\ Sound(k) /\ k \in KernelState /\ k.stat[t] = "RUNNING"
        /\ pc \in [Thread -> Location] /\ tgt \in [Thread -> Thread]
    BY Zenon, <1>1, Executing
  <1>3. pc'[t] = "close0" /\ tgt'[t] = u /\ (u # t => k.lock # 0)
    BY SMTT(30), <1>1, <1>2 DEF GotoWith, Goto, KernelState
  <1>4. u # t => k.stat[u] \in {"INIT", "READY", "SUSPEND"}
    <2>1. Fits(k, u) /\ k.stat[u] \in Stat
      BY Zenon, <1>2 DEF Sound, SoundBut, KernelState
    <2>. QED BY Zenon, <1>1, <1>2, <2>1 DEF Fits, Stat
  <1>5. Works(k, pc', tgt', t)
    BY Zenon, <1>1, <1>2, <1>3, <1>4 DEF Works, Closing
  <1>. QED BY Zenon, <1>1, <1>5, BeginKeeps DEF Managing, Closing

\* rt_thread_startup makes a new thread a suspended one and goes on to resume it.
LEMMA StartupKeeps ==
  ASSUME IInv, NEW t \in Thread, NEW u \in Thread, Startup(t, u)
  PROVE  Preserved
  <1>1. /\ At(t, "user") /\ Unmanaged(u) /\ k.stat[u] = "INIT"
        /\ k' = [k EXCEPT !.stat[u] = "SUSPEND", !.yield[u] = FALSE,
                          !.prio[u] = InitPriority[u]]
        /\ pc' = [pc EXCEPT ![t] = "resume1"] /\ tgt' = [tgt EXCEPT ![t] = u]
        /\ freed' = freed /\ mode' = mode
    BY DEF Startup, Call, GotoWith, Goto
  <1>2. /\ t = k.cur /\ Core(k, pc, tgt, freed, {}) /\ Sound(k) /\ k \in KernelState
        /\ pc \in [Thread -> Location] /\ tgt \in [Thread -> Thread]
        /\ k.stat[t] = "RUNNING" /\ pc[t] = "user"
    BY Zenon, <1>1, Executing
  <1>3. Loose(k, u) /\ ~ Has(k.tmr, u) /\ u # k.cur
    BY <1>1, <1>2 DEF Sound, SoundBut, Fits, Loose
  <1>4. /\ k' \in KernelState /\ k'.stat = [k.stat EXCEPT ![u] = "SUSPEND"]
        /\ k'.prio = [k.prio EXCEPT ![u] = InitPriority[u]]
        /\ k'.list = k.list /\ k'.group = k.group
        /\ k'.cur = k.cur /\ k'.tmr = k.tmr /\ k'.lock = k.lock
    BY Zenon, <1>1, <1>2, PriorityAssumption DEF KernelState, Stat
  <1>5. k.stat \in [Thread -> Stat] /\ k.prio \in [Thread -> Priority] /\ "SUSPEND" \in Stat
    BY <1>2 DEF KernelState, Stat
  <1>6. SoundBut(k', {})
    <2>1. SoundBut(k', {} \ {u})
      BY <1>2, <1>3, <1>4, <1>5, StatusSound DEF Sound
    <2>2. {} \ {u} = {}
      BY Zenon
    <2>. QED BY ZenonT(60), <2>1, <2>2
  <1>7. Alone(k, k', u) /\ Loose(k', u) /\ k'.stat[u] = "SUSPEND" /\ ~ Has(k'.tmr, u)
    BY Zenon, <1>3, <1>4, <1>5 DEF Alone, Loose, LinkedIn
  <1>8. \A w \in Thread : tgt[w] = u => pc[w] \notin Managing
    BY <1>1 DEF Unmanaged, Managing, Closing
  <1>9. u \notin freed /\ u # Idle
    BY Zenon, <1>1, <1>2 DEF Core, Released
  <1>10. Core(k', pc, tgt, freed, {})
    BY Zenon, <1>2, <1>6, <1>7, <1>8, <1>9, AloneCore DEF Loose
  <1>11. pc'[t] = "resume1" /\ tgt'[t] = u
    BY Zenon, <1>1, <1>2
  <1>12. Works(k', pc', tgt', t)
    BY Zenon, <1>3, <1>4, <1>7, <1>11 DEF Works, Closing
  <1>13. Core(k', pc', tgt', freed', {})
    <2>1. Moves(pc, tgt, pc', tgt', t)
      BY Zenon, <1>1, <1>2, <1>8 DEF Location, Moves
    <2>. QED BY <1>1, <1>10, <1>12, <2>1, WorkCore
  <1>14. Half(k', pc', tgt') = {}
    BY Zenon, <1>2, <1>4, <1>11 DEF Half
  <1>15. Current(k', pc') /\ StaysClosed(k, k')
    BY SMTT(30), <1>1, <1>2, <1>3, <1>4, <1>5 DEF Current, StaysClosed
  <1>16. Urgent(k, pc) => Urgent(k', pc')
    BY Zenon, <1>2, <1>3, <1>7, QuietUrgent
  <1>. QED BY Zenon, <1>1, <1>13, <1>14, <1>15, <1>16, EndsQuietly DEF IInv

\* The thread that a call is about to make ready.
LEMMA ResumeTarget ==
  ASSUME IInv, NEW t \in Thread, NEW l \in {"resume1", "resume2"}, At(t, l),
         NEW u, u = tgt[t]
  PROVE  /\ u \in Thread \ {t, Idle} /\ u # k.cur /\ u \notin freed
         /\ k.stat[u] = "SUSPEND" /\ ~ Has(k.tmr, u) /\ Loose(k, u)
         /\ \A w \in Thread \ {t} : tgt[w] = u => pc[w] \notin Managing
  <1>1. /\ t = k.cur /\ pc[t] = l /\ Core(k, pc, tgt, freed, {}) /\ Sound(k)
        /\ tgt \in [Thread -> Thread]
    BY SMTT(30), Executing
  <1>2. u \in Thread /\ u # k.cur /\ k.stat[u] = "SUSPEND" /\ ~ Has(k.tmr, u)
    BY Zenon, <1>1 DEF Core, Works
  <1>3. u \notin freed /\ u # Idle
    BY Zenon, <1>1, <1>2 DEF Core, Released
  <1>4. Loose(k, u)
    <2>1. Fits(k, u)
      BY Zenon, <1>1, <1>2 DEF Sound, SoundBut
    <2>2. \A m \in List : ~ LinkedIn(k, u, m)
      BY Zenon, <1>1, <1>2 DEF Core, Buried
    <2>. QED BY Zenon, <1>2, <2>1, <2>2 DEF Fits, Loose
  <1>5. \A w \in Thread \ {t} : tgt[w] = u => pc[w] \notin Managing
    <2>1. pc[t] \in Managing /\ OneManager(pc, tgt)
      BY <1>1 DEF Core, Managing
    <2>. QED BY Zenon, <2>1 DEF OneManager
  <1>. QED BY ZenonT(60), <1>1, <1>2, <1>3, <1>4, <1>5

\* rt_thread_resume takes the thread off its list and stops its timer.
LEMMA Resume1Keeps ==
  ASSUME IInv, NEW t \in Thread, Resume1(t)
  PROVE  Preserved
  <1>0. PICK u : u = tgt[t]
    BY Zenon
  <1> DEFINE b == Unlink(k, u)
  <1>1. /\ At(t, "resume1") /\ k' = rt_timer_stop(b, u)
        /\ pc' = [pc EXCEPT ![t] = "resume2"] /\ tgt' = tgt
        /\ freed' = freed /\ mode' = mode
    BY Zenon, <1>0 DEF Resume1, Goto, ResumeUnlink
  <1>2. /\ t = k.cur /\ Core(k, pc, tgt, freed, {}) /\ Sound(k) /\ k \in KernelState
        /\ pc \in [Thread -> Location] /\ tgt \in [Thread -> Thread]
        /\ k.stat[t] = "RUNNING" /\ pc[t] = "resume1"
    BY Zenon, <1>1, Executing
  <1>3. /\ u \in Thread \ {t, Idle} /\ u # k.cur /\ u \notin freed
        /\ k.stat[u] = "SUSPEND" /\ ~ Has(k.tmr, u) /\ Loose(k, u)
        /\ \A w \in Thread \ {t} : tgt[w] = u => pc[w] \notin Managing
    BY Zenon, <1>0, <1>1, ResumeTarget
  <1>4. u \in Thread
    BY SMTT(30), <1>3
  <1>5. /\ SoundBut(b, {} \cup {u}) /\ Loose(b, u) /\ SameRest(k, b) /\ b.stat = k.stat
        /\ \A l \in Priority \cup List : \A v \in Thread :
             LinkedIn(b, v, l) <=> LinkedIn(k, v, l) /\ v # u
    BY Zenon, <1>2, <1>3, <1>4, UnlinkSound, UnlinkEffect DEF Sound, SoundBut, Loose
  <1> HIDE DEF b
  <1>6. b \in KernelState /\ b.stat = [b.stat EXCEPT ![u] = "SUSPEND"] /\ "SUSPEND" \in Stat
    <2>1. b \in KernelState
      BY Zenon, <1>5 DEF SoundBut, WellFormed
    <2>2. b.stat \in [Thread -> Stat] /\ b.stat[u] = "SUSPEND"
      BY Zenon, <1>3, <1>5, <2>1 DEF KernelState
    <2>. QED BY Zenon, <2>1, <2>2 DEF Stat
  <1>7. SoundBut(b, {})
    <2>1. SoundBut(b, ({} \cup {u}) \ {u})
      BY Zenon, <1>4, <1>5, <1>6, StatusSound
    <2>2. ({} \cup {u}) \ {u} = {}
      BY Zenon
    <2>. QED BY <2>1, <2>2
  <1>8. SoundBut(k', {}) /\ Alone(b, k', u) /\ SameButTimers(b, k') /\ ~ Has(k'.tmr, u)
    BY Zenon, <1>1, <1>4, <1>7, TimerStopAlone
  <1>9. Alone(k, b, u)
    BY ZenonT(60), <1>5 DEF Alone, SameRest
  <1>10. /\ Alone(k, k', u) /\ Loose(k', u) /\ k'.stat[u] = "SUSPEND" /\ k'.cur = k.cur
         /\ k'.prio = k.prio /\ k'.stat = k.stat
    BY SMTT(30), <1>3, <1>5, <1>8, <1>9, AloneTransitive DEF SameButTimers, SameRest, Loose, LinkedIn
  <1>11. /\ Works(k', pc, tgt, t) /\ Works(k', pc', tgt, t)
         /\ pc'[t] = "resume2" /\ pc' \in [Thread -> Location]
    BY ZenonT(60), <1>0, <1>1, <1>2, <1>3, <1>8, <1>10 DEF Works, Closing, Location
  <1>12. Core(k', pc, tgt, freed, {})
    BY ZenonT(60), <1>2, <1>3, <1>4, <1>8, <1>10, <1>11, AloneCore DEF Loose
  <1>13. Core(k', pc', tgt', freed', {})
    <2>1. Moves(pc, tgt, pc', tgt', t)
      BY Zenon, <1>0, <1>1, <1>2, <1>3, <1>11 DEF Moves
    <2>. QED BY Zenon, <1>1, <1>11, <1>12, <2>1, WorkCore
  <1>14. Half(k', pc', tgt') = {}
    BY Zenon, <1>2, <1>10, <1>11 DEF Half
  <1>15. Current(k', pc') /\ StaysClosed(k, k')
    BY Zenon, <1>2, <1>10 DEF Current, StaysClosed
  <1>16. Urgent(k, pc) => Urgent(k', pc')
    BY <1>2, <1>4, <1>10, QuietUrgent
  <1>. QED BY Zenon, <1>1, <1>13, <1>14, <1>15, <1>16, EndsQuietly DEF IInv

\* rt_thread_resume inserts the thread into the ready queue.
LEMMA Resume2Keeps ==
  ASSUME IInv, NEW t \in Thread, Resume2(t)
  PROVE  Preserved
  <1>0. PICK u : u = tgt[t]
    OBVIOUS
  <1>1. /\ At(t, "resume2") /\ k' = rt_schedule_insert_thread(k, u)
        /\ pc' = [pc EXCEPT ![t] = "schedule"] /\ tgt' = [tgt EXCEPT ![t] = t]
        /\ freed' = freed /\ mode' = mode
    BY Zenon, <1>0 DEF Resume2, GotoWith, Goto
  <1>2. /\ t = k.cur /\ Core(k, pc, tgt, freed, {}) /\ Sound(k)
        /\ pc \in [Thread -> Location] /\ tgt \in [Thread -> Thread]
        /\ k.stat[t] = "RUNNING"
    BY <1>1, Executing
  <1>3. /\ u \in Thread \ {t, Idle} /\ u # k.cur /\ u \notin freed
        /\ k.stat[u] = "SUSPEND" /\ ~ Has(k.tmr, u) /\ Loose(k, u)
        /\ \A w \in Thread \ {t} : tgt[w] = u => pc[w] \notin Managing
    BY SMTT(30), <1>0, <1>1, ResumeTarget
  <1>4. u \in Thread
    BY <1>3
  <1>5. Core(k, pc', tgt', freed, {})
    BY Zenon, <1>1, <1>2, LeaveCore DEF Location, Managing, Closing
  <1>6. SoundBut(k', {}) /\ Alone(k, k', u) /\ \A l \in List : ~ LinkedIn(k', u, l)
    <2>1. {} \ {u} = {}
      OBVIOUS
    <2>2. SoundBut(k, {})
      BY Zenon, <1>2 DEF Sound
    <2>3. /\ SoundBut(k', {} \ {u}) /\ Alone(k, k', u)
          /\ \A l \in List : ~ LinkedIn(k', u, l)
      BY ZenonT(60), <1>1, <1>3, <1>4, <2>2, InsertAlone
    <2>. QED BY Zenon, <2>1, <2>3
  <1>7. pc'[t] = "schedule" /\ \A w \in Thread : tgt'[w] = u => pc'[w] \notin Managing
    BY <1>1, <1>2, <1>3 DEF Managing, Closing
  <1>8. Core(k', pc', tgt', freed', {})
    BY ZenonT(60), <1>1, <1>3, <1>4, <1>5, <1>6, <1>7, AloneCore
  <1>9. k'.cur = t /\ k'.stat[t] = "RUNNING"
    BY Zenon, <1>2, <1>3, <1>6 DEF Alone
  <1>10. Half(k', pc', tgt') = {}
    BY ZenonT(60), <1>7, <1>9 DEF Half
  <1>11. Current(k', pc') /\ StaysClosed(k, k') /\ Urgent(k', pc')
    BY <1>3, <1>6, <1>7, <1>9 DEF Current, StaysClosed, Urgent, Alone
  <1>. QED BY Zenon, <1>1, <1>8, <1>10, <1>11, EndsQuietly DEF IInv

\* rt_thread_suspend takes another thread out of the ready queue.
LEMMA Suspend1Keeps ==
  ASSUME IInv, NEW t \in Thread, Suspend1(t)
  PROVE  Preserved
  <1>0. PICK u : u = tgt[t]
    OBVIOUS
  <1>1. /\ At(t, "suspend1") /\ k' = rt_thread_suspend(k, u)
        /\ pc' = [pc EXCEPT ![t] = "user"] /\ tgt' = [tgt EXCEPT ![t] = t]
        /\ freed' = freed /\ mode' = mode
    BY ZenonT(60), <1>0 DEF Suspend1, GotoWith, Goto
  <1>2. /\ t = k.cur /\ Core(k, pc, tgt, freed, {}) /\ Sound(k)
        /\ pc \in [Thread -> Location] /\ tgt \in [Thread -> Thread]
        /\ k.stat[t] = "RUNNING" /\ pc[t] = "suspend1"
    BY <1>1, Executing
  <1>3. u \in Thread /\ u # t /\ u # Idle /\ k.lock # 0 /\ k.stat[u] = "READY"
    BY Zenon, <1>0, <1>2 DEF Core, Works
  <1>4. u \notin freed /\ \A w \in Thread \ {t} : tgt[w] = u => pc[w] \notin Managing
    <2>1. pc[t] \in Managing /\ OneManager(pc, tgt) /\ Released(k, freed)
      BY SMTT(30), <1>2 DEF Core, Managing
    <2>. QED BY Zenon, <1>0, <1>3, <2>1 DEF OneManager, Released
  <1>5. Core(k, pc', tgt', freed, {})
    BY Zenon, <1>1, <1>2, LeaveCore DEF Location, Managing, Closing
  <1>6. Sound(k') /\ Loose(k', u) /\ Alone(k, k', u) /\ k'.stat[u] = "SUSPEND"
    BY ZenonT(60), <1>1, <1>2, <1>3, SuspendSound
  <1>7. pc'[t] = "user" /\ \A w \in Thread : tgt'[w] = u => pc'[w] \notin Managing
    BY SMTT(30), <1>1, <1>2, <1>3, <1>4 DEF Managing, Closing
  <1>8. Core(k', pc', tgt', freed', {})
    BY ZenonT(60), <1>1, <1>3, <1>4, <1>5, <1>6, <1>7, AloneCore DEF Sound, Loose
  <1>9. k'.cur = t /\ k'.stat[t] = "RUNNING" /\ k'.lock # 0
    BY Zenon, <1>2, <1>3, <1>6 DEF Alone
  <1>10. Half(k', pc', tgt') = {}
    BY ZenonT(60), <1>7, <1>9 DEF Half
  <1>11. Current(k', pc') /\ StaysClosed(k, k') /\ Urgent(k', pc')
    BY <1>3, <1>6, <1>7, <1>9 DEF Current, StaysClosed, Urgent, Alone
  <1>. QED BY Zenon, <1>1, <1>8, <1>10, <1>11, EndsQuietly DEF IInv

\* An object that is not in use becomes a new thread.
LEMMA CreateKeeps ==
  ASSUME IInv, NEW t \in Thread, NEW u \in Thread, Create(t, u)
  PROVE  Preserved
  <1>1. /\ At(t, "user") /\ Unmanaged(u)
        /\ u \in freed \/ (u \in Static /\ k.stat[u] = "CLOSE" /\ u # t)
        /\ k' = [k EXCEPT !.stat[u] = "INIT", !.yield[u] = FALSE,
                          !.prio[u] = InitPriority[u],
                          !.slice[u] = InitTick[u], !.error[u] = "EOK",
                          !.left[u] = 0]
        /\ pc' = [pc EXCEPT ![u] = "user"] /\ tgt' = tgt
        /\ freed' = freed \ {u} /\ mode' = mode
    BY DEF Create, Call
  <1>2. /\ t = k.cur /\ Core(k, pc, tgt, freed, {}) /\ Sound(k) /\ k \in KernelState
        /\ pc \in [Thread -> Location] /\ tgt \in [Thread -> Thread]
        /\ k.stat[t] = "RUNNING" /\ pc[t] = "user"
    BY Zenon, <1>1, Executing
  <1>3. Fits(k, u) /\ Buried(k) /\ Released(k, freed)
    BY Zenon, <1>2 DEF Core, Sound, SoundBut
  <1>4. k.stat[u] = "CLOSE" /\ u # t /\ Loose(k, u) /\ ~ Has(k.tmr, u) /\ u # Idle
    <2>1. k.stat[u] = "CLOSE" /\ u # t
      BY SMTT(30), <1>1, <1>2, <1>3 DEF Released
    <2>2. CASE u \in freed
      <3>1. Loose(k, u) /\ k.stat[Idle] \in {"READY", "RUNNING"}
        BY Zenon, <1>2, <1>3, <2>2 DEF Released, Core
      <3>2. ~ Has(k.tmr, u)
        BY Zenon, <1>3, <2>1 DEF Fits
      <3>3. u # Idle
        BY <2>1, <3>1
      <3>. QED BY Zenon, <2>1, <3>1, <3>2, <3>3
    <2>3. CASE u \in Static
      BY Zenon, <1>2, <1>3, <2>1, <2>3 DEF Buried, Fits, Core, Loose
    <2>. QED BY Zenon, <1>1, <2>1, <2>2, <2>3
  <1>5. /\ k' \in KernelState /\ k'.stat = [k.stat EXCEPT ![u] = "INIT"]
        /\ k'.prio = [k.prio EXCEPT ![u] = InitPriority[u]]
        /\ k'.list = k.list /\ k'.group = k.group
        /\ k'.cur = k.cur /\ k'.tmr = k.tmr /\ k'.lock = k.lock
    <2>1. InitPriority[u] \in Priority /\ InitTick[u] \in Nat \ {0} /\ 0 \in Int
      BY PriorityAssumption, TickAssumption
    <2>. QED BY Zenon, <1>1, <1>2, <2>1 DEF KernelState, Stat, Error
  <1>6. k.stat \in [Thread -> Stat] /\ k.prio \in [Thread -> Priority] /\ "INIT" \in Stat
    BY Zenon, <1>2 DEF KernelState, Stat
  <1>7. SoundBut(k', {})
    <2>1. SoundBut(k', {} \ {u})
      <3>1. SoundBut(k, {}) /\ "INIT" # "READY" /\ "INIT" # "RUNNING"
        BY <1>2 DEF Sound
      <3>2. \A w \in Thread \ {u} : k'.prio[w] = k.prio[w]
        BY Zenon, <1>5, <1>6
      <3>. QED BY SMTT(30), <1>4, <1>5, <1>6, <3>1, <3>2, StatusSound
    <2>2. {} \ {u} = {}
      OBVIOUS
    <2>. QED BY <2>1, <2>2
  <1>8. Alone(k, k', u) /\ Loose(k', u) /\ k'.stat[u] = "INIT"
    BY Zenon, <1>4, <1>5, <1>6 DEF Alone, Loose, LinkedIn
  <1>9. \A w \in Thread : tgt[w] = u => pc[w] \notin Managing
    BY Zenon, <1>1 DEF Unmanaged, Managing, Closing
  <1>10. Core(k, pc, tgt, freed', {})
    BY Zenon, <1>1, <1>2 DEF Core, Released
  <1>11. Core(k', pc, tgt, freed', {})
    BY <1>1, <1>4, <1>7, <1>8, <1>9, <1>10, AloneCore DEF Loose
  <1>12. Core(k', pc', tgt', freed', {})
    <2>1. "user" \in Location \ Managing
      BY DEF Location, Managing, Closing
    <2>2. pc' = [pc EXCEPT ![u] = "user"] /\ tgt' = tgt
      BY Zenon, <1>1
    <2>. QED BY Zenon, <1>11, <2>1, <2>2, LeaveCore
  <1>13. k'.cur = t /\ k'.stat[t] = "RUNNING" /\ pc'[t] = "user"
    BY <1>1, <1>2, <1>4, <1>5, <1>6
  <1>14. Half(k', pc', tgt') = {}
    BY Zenon, <1>13 DEF Half
  <1>15. Current(k', pc') /\ StaysClosed(k, k')
    BY Zenon, <1>5, <1>6, <1>13 DEF Current, StaysClosed
  <1>16. Urgent(k, pc) => Urgent(k', pc')
    BY Zenon, <1>2, <1>4, <1>8, QuietUrgent
  <1>. QED BY Zenon, <1>1, <1>12, <1>14, <1>15, <1>16, EndsQuietly DEF IInv

\* RT_THREAD_CTRL_CHANGE_PRIORITY
LEMMA ControlKeeps ==
  ASSUME IInv, NEW t \in Thread, NEW u \in Thread, NEW p \in Priority,
         rt_thread_control(t, u, p)
  PROVE  Preserved
  <1>1. /\ At(t, "user") /\ "priority" \in Calls /\ k' = ChangePriority(k, u, p)
        /\ pc' = pc /\ tgt' = tgt /\ freed' = freed /\ mode' = mode
    BY Zenon DEF rt_thread_control, Call
  <1>2. /\ t = k.cur /\ Core(k, pc, tgt, freed, {}) /\ Sound(k)
        /\ k.stat[t] = "RUNNING" /\ pc[t] = "user"
    BY Zenon, <1>1, Executing
  <1>3. Reranked(k, k')
    BY Zenon, <1>1, <1>2, ChangeSound
  <1>4. /\ Sound(k') /\ k'.stat = k.stat /\ k'.cur = k.cur /\ k'.lock = k.lock
        /\ k'.tmr = k.tmr /\ \A l \in List : k'.list[l] = k.list[l]
    BY SMTT(30), <1>3 DEF Reranked
  <1>5. Core(k', pc', tgt', freed', {})
    <2>1. \A w \in Thread : Works(k', pc, tgt, w)
      BY ZenonT(60), <1>2, <1>4 DEF Core, Works
    <2>2. Buried(k')
      BY Zenon, <1>2, <1>4 DEF Core, Buried, LinkedIn
    <2>3. Released(k', freed)
      <3>1. ASSUME NEW v \in freed PROVE Loose(k', v)
        <4>1. v \in Thread /\ k.stat[v] = "CLOSE" /\ Loose(k, v)
          BY Zenon, <1>2 DEF Core, Released
        <4>2. Fits(k', v)
          BY Zenon, <1>4, <4>1 DEF Sound, SoundBut
        <4>. QED BY Zenon, <1>4, <4>1, <4>2 DEF Fits, Loose, LinkedIn
      <3>. QED BY Zenon, <1>2, <1>4, <3>1 DEF Core, Released
    <2>. QED BY Zenon, <1>1, <1>2, <1>4, <2>1, <2>2, <2>3 DEF Core, Sound
  <1>6. Half(k', pc', tgt') = {}
    BY Zenon, <1>1, <1>2, <1>4 DEF Half
  <1>7. Current(k', pc') /\ StaysClosed(k, k')
    BY SMTT(30), <1>2, <1>4 DEF Current, StaysClosed
  <1>. QED BY Zenon, <1>1, <1>5, <1>6, <1>7, EndsQuietly DEF IInv

-----------------------------------------------------------------------------
\* RT_THREAD_CTRL_CLOSE

\* The thread that the current thread is closing.
LEMMA CloseTarget ==
  ASSUME IInv, NEW t \in Thread, NEW l \in Closing, At(t, l), NEW u, u = tgt[t]
  PROVE  /\ t = k.cur /\ pc[t] = l /\ k.stat[t] = "RUNNING"
         /\ pc \in [Thread -> Location] /\ tgt \in [Thread -> Thread]
         /\ u \in Thread /\ u # Idle /\ u \notin freed /\ ~ Has(k.tmr, u)
         /\ u = t => k.lock = 0
         /\ u # t => k.stat[u] \in {"INIT", "READY", "SUSPEND"}
         /\ \A l2 \in List : ~ LinkedIn(k, u, l2)
         /\ \A w \in Thread \ {t} : tgt[w] = u => pc[w] \notin Managing
         /\ Core(k, pc, tgt, freed, Half(k, pc, tgt))
         /\ Half(k, pc, tgt) = IF l = "close0" THEN {} ELSE {u} \ {t}
  <1>1. /\ t = k.cur /\ pc[t] = l /\ Core(k, pc, tgt, freed, Half(k, pc, tgt))
        /\ Current(k, pc)
    BY Zenon DEF At, IInv
  <1>2. /\ pc \in [Thread -> Location] /\ tgt \in [Thread -> Thread]
        /\ Works(k, pc, tgt, t) /\ OneManager(pc, tgt) /\ Released(k, freed) /\ Buried(k)
        /\ u \in Thread
    BY Zenon, <1>1 DEF Core
  <1>3. k.stat[t] = "RUNNING"
    BY SMTT(30), <1>1 DEF Current, Closing
  <1>4. /\ u # Idle /\ (u = t => k.lock = 0)
        /\ (u # t => k.stat[u] \in {"INIT", "READY", "SUSPEND"} /\ ~ Has(k.tmr, u))
    BY Zenon, <1>1, <1>2 DEF Works
  <1>5. k.stat[u] # "CLOSE"
    BY Zenon, <1>3, <1>4
  <1>6. u \notin freed /\ \A m \in List : ~ LinkedIn(k, u, m)
    BY Zenon, <1>2, <1>5 DEF Released, Buried
  <1>7. \A w \in Thread \ {t} : tgt[w] = u => pc[w] \notin Managing
    BY Zenon, <1>1, <1>2 DEF OneManager, Managing
  <1>8. Half(k, pc, tgt) = IF l = "close0" THEN {} ELSE {u} \ {t}
    BY Zenon, <1>1 DEF Half, Closing
  <1>9. ~ Has(k.tmr, u)
    <2>1. CASE u = t
      <3>1. t \notin Half(k, pc, tgt)
        BY ZenonT(60), <1>8
      <3>2. Fits(k, t)
        BY <1>1, <3>1 DEF Core, SoundBut
      <3>. QED BY Zenon, <1>3, <2>1, <3>2 DEF Fits
    <2>. QED BY Zenon, <1>4, <2>1
  <1>. QED BY Zenon, <1>1, <1>2, <1>3, <1>4, <1>6, <1>7, <1>8, <1>9

\* Nothing more need agree about a larger set of threads.
LEMMA SoundButMore ==
  ASSUME NEW s, NEW X, NEW Y, SoundBut(s, X), X \subseteq Y
  PROVE  SoundBut(s, Y)
  BY Zenon DEF SoundBut

\* A thread that keeps the status RUNNING need not be linked.
LEMMA StaysRunning ==
  ASSUME NEW s, NEW t \in Thread, SoundBut(s, {t}), Loose(s, t), ~ Has(s.tmr, t),
         s.stat[t] = "RUNNING", t = s.cur
  PROVE  SoundBut(s, {})
  <1>1. s \in KernelState /\ s.stat \in [Thread -> Stat] /\ "RUNNING" \in Stat
    BY Zenon DEF SoundBut, WellFormed, KernelState, Stat
  <1>2. s.stat = [s.stat EXCEPT ![t] = "RUNNING"]
    BY Zenon, <1>1
  <1>3. SoundBut(s, {t} \ {t})
    BY Zenon, <1>1, <1>2, StatusSound
  <1>4. {t} \ {t} = {}
    BY SMTT(30)
  <1>. QED BY Zenon, <1>3, <1>4

\* A delete or detach takes the thread out of the ready queue.
LEMMA Close0Keeps ==
  ASSUME IInv, NEW t \in Thread, Close0(t)
  PROVE  Preserved
  <1>0. PICK u : u = tgt[t]
    OBVIOUS
  <1>1. /\ At(t, "close0")
        /\ k' = IF k.stat[u] # "INIT" THEN rt_schedule_remove_thread(k, u) ELSE k
        /\ pc' = [pc EXCEPT ![t] = "close1"] /\ tgt' = tgt
        /\ freed' = freed /\ mode' = mode
    BY SMTT(30), <1>0 DEF Close0, Goto
  <1>2. /\ t = k.cur /\ pc[t] = "close0" /\ k.stat[t] = "RUNNING"
        /\ pc \in [Thread -> Location] /\ tgt \in [Thread -> Thread]
        /\ u \in Thread /\ u # Idle /\ u \notin freed /\ ~ Has(k.tmr, u)
        /\ u # t => k.stat[u] \in {"INIT", "READY", "SUSPEND"}
        /\ \A l \in List : ~ LinkedIn(k, u, l)
        /\ \A w \in Thread \ {t} : tgt[w] = u => pc[w] \notin Managing
        /\ Core(k, pc, tgt, freed, {})
    <2>1. "close0" \in Closing
      BY SMTT(30) DEF Closing
    <2>. QED BY Zenon, <1>0, <1>1, <2>1, CloseTarget
  <1>3. SoundBut(k, {}) /\ Fits(k, u) /\ Works(k, pc, tgt, t)
    BY Zenon, <1>2 DEF Core, SoundBut
  <1>4. /\ SoundBut(k', {u}) /\ Loose(k', u) /\ Alone(k, k', u)
        /\ k'.stat = k.stat /\ k'.tmr = k.tmr /\ k'.prio = k.prio
    <2>1. CASE k.stat[u] = "INIT"
      <3>1. k' = k /\ SoundBut(k, {u})
        BY SMTT(30), <1>1, <1>3, <2>1, SoundButMore
      <3>2. Loose(k, u)
        <4>1. \A p \in Priority : ~ LinkedIn(k, u, p)
          BY Zenon, <1>3, <2>1 DEF Fits
        <4>. QED BY Zenon, <1>2, <4>1 DEF Loose
      <3>. QED BY Zenon, <3>1, <3>2 DEF Alone
    <2>2. CASE k.stat[u] # "INIT"
      <3>1. k' = rt_schedule_remove_thread(k, u)
        BY SMTT(30), <1>1, <2>2
      <3>2. u \in Thread /\ \A p \in Priority : LinkedIn(k, u, p) => k.prio[u] = p
        BY Zenon, <1>2, <1>3 DEF Fits
      <3>3. /\ SoundBut(k', {} \cup {u}) /\ Loose(k', u) /\ Alone(k, k', u)
            /\ k'.stat = k.stat /\ k'.tmr = k.tmr /\ k'.prio = k.prio
        BY <1>3, <3>1, <3>2, RemoveAlone
      <3>4. {} \cup {u} = {u}
        BY SMTT(30)
      <3>. QED BY Zenon, <3>3, <3>4
    <2>. QED BY Zenon, <2>1, <2>2
  <1>5. k'.cur = t /\ k'.lock = k.lock /\ ~ Has(k'.tmr, u)
    BY Zenon, <1>2, <1>4 DEF Alone
  <1>6. SoundBut(k', {u} \ {t})
    <2>1. CASE u = t
      <3>1. SoundBut(k', {}) /\ {u} \ {t} = {}
        BY Zenon, <1>2, <1>4, <1>5, <2>1, StaysRunning
      <3>. QED BY SMTT(30), <3>1
    <2>2. CASE u # t
      <3>1. {u} \ {t} = {u}
        BY SMTT(30), <2>2
      <3>. QED BY Zenon, <1>4, <3>1
    <2>. QED BY <2>1, <2>2
  <1>7. pc'[t] = "close1" /\ pc' \in [Thread -> Location]
    BY Zenon, <1>1, <1>2 DEF Location
  <1>8. Works(k', pc, tgt, t) /\ Works(k', pc', tgt, t)
    BY ZenonT(60), <1>0, <1>2, <1>3, <1>4, <1>5, <1>7 DEF Works, Closing
  <1>9. Core(k', pc, tgt, freed, {u} \ {t})
    <2>1. {u} \ {t} \subseteq {} \cup {u}
      BY Zenon
    <2>2. \A w \in Thread : pc[w] \in Managing /\ tgt[w] = u => Works(k', pc, tgt, w)
      BY Zenon, <1>2, <1>8
    <2>3. \A l \in List : ~ LinkedIn(k', u, l)
      BY Zenon, <1>4 DEF Loose
    <2>. QED BY Zenon, <1>2, <1>4, <1>6, <2>1, <2>2, <2>3, AloneCore
  <1>10. Core(k', pc', tgt', freed', {u} \ {t})
    <2>1. Moves(pc, tgt, pc', tgt', t)
      BY ZenonT(60), <1>0, <1>1, <1>2, <1>7 DEF Moves
    <2>. QED BY Zenon, <1>1, <1>8, <1>9, <2>1, WorkCore
  <1>11. Half(k', pc', tgt') = {u} \ {t}
    BY SMTT(30), <1>0, <1>1, <1>5, <1>7 DEF Half
  <1>12. Current(k', pc') /\ StaysClosed(k, k')
    BY Zenon, <1>2, <1>4, <1>5 DEF Current, StaysClosed
  <1>13. Urgent(k, pc) => Urgent(k', pc')
    BY Zenon, <1>2, <1>4, QuietUrgent
  <1>. QED BY ZenonT(60), <1>1, <1>10, <1>11, <1>12, <1>13, EndsQuietly DEF IInv

\* A delete or detach stops the timer of the thread.
LEMMA Close1Keeps ==
  ASSUME IInv, NEW t \in Thread, Close1(t)
  PROVE  Preserved
  <1>0. PICK u : u = tgt[t]
    OBVIOUS
  <1> DEFINE X == {u} \ {t}
  <1>1. /\ At(t, "close1") /\ k' = rt_timer_stop(k, u)
        /\ pc' = [pc EXCEPT ![t] = "close2"] /\ tgt' = tgt
        /\ freed' = freed /\ mode' = mode
    BY SMTT(30), <1>0 DEF Close1, Goto
  <1>2. /\ t = k.cur /\ pc[t] = "close1" /\ k.stat[t] = "RUNNING"
        /\ pc \in [Thread -> Location] /\ tgt \in [Thread -> Thread]
        /\ u \in Thread /\ u # Idle /\ u \notin freed
        /\ \A l \in List : ~ LinkedIn(k, u, l)
        /\ \A w \in Thread \ {t} : tgt[w] = u => pc[w] \notin Managing
        /\ Core(k, pc, tgt, freed, X)
    <2>1. "close1" \in Closing
      BY Zenon DEF Closing
    <2>2. /\ Core(k, pc, tgt, freed, Half(k, pc, tgt))
          /\ Half(k, pc, tgt) = IF "close1" = "close0" THEN {} ELSE {u} \ {t}
      BY Zenon, <1>0, <1>1, <2>1, CloseTarget
    <2>3. Core(k, pc, tgt, freed, X)
      BY Zenon, <2>2
    <2>. QED BY Zenon, <1>0, <1>1, <2>1, <2>3, CloseTarget
  <1> HIDE DEF X
  <1>3. SoundBut(k, X) /\ Works(k, pc, tgt, t)
    BY Zenon, <1>2 DEF Core
  <1>4. SoundBut(k', X) /\ Alone(k, k', u) /\ SameButTimers(k, k') /\ ~ Has(k'.tmr, u)
    BY Zenon, <1>1, <1>2, <1>3, TimerStopAlone
  <1>5. /\ k'.stat = k.stat /\ k'.prio = k.prio /\ k'.list = k.list
        /\ k'.cur = t /\ k'.lock = k.lock
    BY ZenonT(60), <1>2, <1>4 DEF SameButTimers
  <1>6. pc'[t] = "close2" /\ pc' \in [Thread -> Location]
    BY SMTT(30), <1>1, <1>2 DEF Location
  <1>7. Works(k', pc, tgt, t) /\ Works(k', pc', tgt, t)
    BY ZenonT(60), <1>0, <1>2, <1>3, <1>4, <1>5, <1>6 DEF Works, Closing
  <1>8. Core(k', pc, tgt, freed, X)
    <2>1. X \subseteq X \cup {u} /\ (u \in X => Loose(k', u))
      BY Zenon, <1>2, <1>5 DEF Core, Loose, LinkedIn
    <2>2. \A w \in Thread : pc[w] \in Managing /\ tgt[w] = u => Works(k', pc, tgt, w)
      BY Zenon, <1>2, <1>7
    <2>3. \A l \in List : ~ LinkedIn(k', u, l)
      BY Zenon, <1>2, <1>5 DEF LinkedIn
    <2>4. u \in Thread /\ u # Idle /\ u \notin freed /\ Core(k, pc, tgt, freed, X)
      BY Zenon, <1>2
    <2>5. SoundBut(k', X) /\ Alone(k, k', u)
      BY Zenon, <1>4
    <2>. QED BY ZenonT(60), <2>1, <2>2, <2>3, <2>4, <2>5, AloneCore
  <1>9. Core(k', pc', tgt', freed', X)
    <2>1. Moves(pc, tgt, pc', tgt', t)
      BY Zenon, <1>0, <1>1, <1>2, <1>6 DEF Moves
    <2>. QED BY Zenon, <1>1, <1>7, <1>8, <2>1, WorkCore
  <1>10. Half(k', pc', tgt') = X
    BY Zenon, <1>0, <1>1, <1>5, <1>6 DEF Half, X
  <1>11. Current(k', pc') /\ StaysClosed(k, k')
    BY Zenon, <1>2, <1>5 DEF Current, StaysClosed
  <1>12. Urgent(k, pc) => Urgent(k', pc')
    BY Zenon, <1>2, <1>4, <1>5, QuietUrgent
  <1>. QED BY Zenon, <1>1, <1>9, <1>10, <1>11, <1>12, EndsQuietly DEF IInv

\* A delete or detach closes the thread, for idle to release it.
LEMMA Close2Keeps ==
  ASSUME IInv, NEW t \in Thread, Close2(t)
  PROVE  Preserved
  <1>0. PICK u : u = tgt[t]
    OBVIOUS
  <1> DEFINE X == {u} \ {t}
             b == Closed(k, u)
  <1>1. /\ At(t, "close2") /\ k' = Bury(b, u)
        /\ pc' = [pc EXCEPT ![t] = "schedule"] /\ tgt' = [tgt EXCEPT ![t] = t]
        /\ freed' = freed /\ mode' = mode
    BY <1>0 DEF Close2, GotoWith, Goto
  <1>2. /\ t = k.cur /\ k.stat[t] = "RUNNING"
        /\ pc \in [Thread -> Location] /\ tgt \in [Thread -> Thread]
        /\ u \in Thread /\ u # Idle /\ u \notin freed /\ ~ Has(k.tmr, u)
        /\ u = t => k.lock = 0
        /\ \A l \in List : ~ LinkedIn(k, u, l)
        /\ \A w \in Thread \ {t} : tgt[w] = u => pc[w] \notin Managing
        /\ Core(k, pc, tgt, freed, X)
    <2>1. "close2" \in Closing
      BY SMTT(30) DEF Closing
    <2>2. /\ Core(k, pc, tgt, freed, Half(k, pc, tgt))
          /\ Half(k, pc, tgt) = IF "close2" = "close0" THEN {} ELSE {u} \ {t}
      BY ZenonT(60), <1>0, <1>1, <2>1, CloseTarget
    <2>3. Core(k, pc, tgt, freed, X)
      BY SMTT(30), <2>2
    <2>. QED BY Zenon, <1>0, <1>1, <2>1, <2>3, CloseTarget
  <1>3. SoundBut(k, X)
    BY Zenon, <1>2 DEF Core
  <1>4. SoundBut(k, {u})
    BY <1>3, SoundButMore
  <1>5. Loose(k, u)
    <2>1. CASE u = t
      <3>1. Fits(k, t)
        BY SMTT(30), <1>3 DEF SoundBut
      <3>. QED BY <1>2, <2>1, <3>1 DEF Fits, Loose
    <2>2. CASE u # t
      BY Zenon, <1>2, <2>2 DEF Core
    <2>. QED BY ZenonT(60), <2>1, <2>2
  <1>6. Sound(b) /\ Alone(k, b, u) /\ Loose(b, u) /\ b.stat[u] = "CLOSE"
    BY Zenon, <1>2, <1>4, <1>5, ClosedSound
  <1> HIDE DEF b, X
  <1>7. /\ Sound(k') /\ Alone(b, k', u) /\ k'.stat[u] = "CLOSE"
        /\ \A l \in List : LinkedIn(k', u, l) => l = Defunct /\ u \notin Static
    BY ZenonT(60), <1>1, <1>2, <1>6, BurySound
  <1>8. Alone(k, k', u)
    BY SMTT(30), <1>6, <1>7, AloneTransitive
  <1>9. Core(k, pc', tgt', freed, X)
    <2>1. "schedule" \in Location \ Managing
      BY Zenon DEF Location, Managing, Closing
    <2>. QED BY Zenon, <1>1, <1>2, <2>1, LeaveCore
  <1>10. pc'[t] = "schedule" /\ \A w \in Thread : tgt'[w] = u => pc'[w] \notin Managing
    BY Zenon, <1>1, <1>2 DEF Managing, Closing
  <1>11. Core(k', pc', tgt', freed', {})
    BY ZenonT(60), <1>1, <1>2, <1>7, <1>8, <1>9, <1>10, AloneCore DEF Sound
  <1>12. k'.cur = t /\ k'.lock = k.lock /\ (u # t => k'.stat[t] = "RUNNING")
    BY Zenon, <1>2, <1>8 DEF Alone
  <1>13. Half(k', pc', tgt') = {}
    BY SMTT(30), <1>10, <1>12 DEF Half
  <1>14. Current(k', pc') /\ StaysClosed(k, k') /\ Urgent(k', pc')
    BY ZenonT(60), <1>2, <1>7, <1>8, <1>10, <1>12 DEF Current, StaysClosed, Urgent, Alone
  <1>. QED BY ZenonT(60), <1>1, <1>11, <1>13, <1>14, EndsQuietly DEF IInv

\* rt_thread_idle_excute takes the first thread off the defunct list.
LEMMA IdleKeeps ==
  ASSUME IInv, rt_thread_idle_excute
  PROVE  Preserved
  <1>0. PICK u : u = Head(k.list[Defunct])
    BY Zenon
  <1>1. /\ At(Idle, "user") /\ k.list[Defunct] # <<>> /\ k' = Unlink(k, u)
        /\ freed' = freed \cup {u} /\ pc' = pc /\ tgt' = tgt /\ mode' = mode
    BY Zenon, <1>0 DEF rt_thread_idle_excute
  <1>2. /\ Idle \in Thread /\ Idle = k.cur /\ Core(k, pc, tgt, freed, {}) /\ Sound(k)
        /\ k \in KernelState /\ k.stat[Idle] = "RUNNING" /\ pc[Idle] = "user"
    BY Zenon, <1>1, Executing, BootAssumption
  <1>3. u \in Thread /\ LinkedIn(k, u, Defunct) /\ Defunct \in List
    <2>1. k.list[Defunct] \in Seq(Thread) /\ Defunct \in List
      BY Zenon, <1>2, ThreadsAssumption DEF KernelState
    <2>. QED BY Zenon, <1>0, <1>1, <2>1, EmptyHasNone DEF LinkedIn
  <1>4. k.stat[u] = "CLOSE" /\ u \notin freed /\ Fits(k, u) /\ u # Idle
    <2>1. Buried(k) /\ Released(k, freed) /\ Fits(k, u)
      BY ZenonT(60), <1>2, <1>3 DEF Core, Sound, SoundBut
    <2>. QED BY Zenon, <1>2, <1>3, <2>1 DEF Buried, Released, Loose
  <1>5. ~ Has(k.tmr, u) /\ \A p \in Priority : ~ LinkedIn(k, u, p)
    BY SMTT(30), <1>4 DEF Fits
  <1>6. /\ SoundBut(k', {} \cup {u}) /\ Loose(k', u) /\ SameRest(k, k') /\ k'.stat = k.stat
        /\ \A l \in Priority \cup List : \A v \in Thread :
             LinkedIn(k', v, l) <=> LinkedIn(k, v, l) /\ v # u
    <2>1. SoundBut(k, {}) /\ WellFormed(k)
      BY Zenon, <1>2 DEF Sound, SoundBut
    <2>. QED BY ZenonT(60), <1>1, <1>3, <1>5, <2>1, UnlinkSound, UnlinkEffect
  <1>7. SoundBut(k', {})
    <2>1. k' \in KernelState
      BY Zenon, <1>6 DEF SoundBut, WellFormed
    <2>2. k'.stat \in [Thread -> Stat] /\ k'.stat[u] = "CLOSE" /\ "CLOSE" \in Stat
      BY Zenon, <1>4, <1>6, <2>1 DEF KernelState, Stat
    <2>3. k'.stat = [k'.stat EXCEPT ![u] = "CLOSE"]
      BY Zenon, <2>2
    <2>4. ~ Has(k'.tmr, u)
      BY Zenon, <1>5, <1>6 DEF SameRest
    <2>5. SoundBut(k', ({} \cup {u}) \ {u})
      BY ZenonT(60), <1>3, <1>6, <2>1, <2>2, <2>3, <2>4, StatusSound
    <2>6. ({} \cup {u}) \ {u} = {}
      BY ZenonT(60)
    <2>. QED BY Zenon, <2>5, <2>6
  <1>8. Alone(k, k', u) /\ k'.stat = k.stat /\ k'.cur = k.cur
    BY SMTT(30), <1>6 DEF Alone, SameRest
  <1>9. \A w \in Thread : tgt[w] = u => pc[w] \notin Managing
    BY Zenon, <1>2, <1>4 DEF Core, Works, Managing
  <1>10. Core(k', pc, tgt, freed, {})
    <2>1. {} \subseteq {} \cup {u} /\ u \notin {} /\ \A l \in List : ~ LinkedIn(k', u, l)
      BY SMTT(30), <1>6 DEF Loose
    <2>. QED BY ZenonT(60), <1>2, <1>3, <1>4, <1>7, <1>8, <1>9, <2>1, AloneCore
  <1>11. Core(k', pc', tgt', freed', {})
    <2>1. Released(k', freed \cup {u})
      BY ZenonT(60), <1>2, <1>4, <1>6, <1>8, <1>10 DEF Core, Released
    <2>. QED BY ZenonT(60), <1>1, <1>3, <1>10, <2>1 DEF Core
  <1>12. Half(k', pc', tgt') = {}
    BY ZenonT(60), <1>1, <1>2, <1>8 DEF Half
  <1>13. Current(k', pc') /\ StaysClosed(k, k')
    BY SMTT(30), <1>2, <1>8 DEF Current, StaysClosed
  <1>14. Urgent(k, pc) => Urgent(k', pc')
    BY ZenonT(60), <1>2, <1>3, <1>4, <1>8, QuietUrgent
  <1>. QED BY ZenonT(60), <1>1, <1>11, <1>12, <1>13, <1>14, EndsQuietly DEF IInv

-----------------------------------------------------------------------------
\* The tick interrupt

\* The tick interrupt, up to its end.
LEMMA TickEnterKeeps ==
  ASSUME IInv, TickEnter, UNCHANGED own
  PROVE  Preserved
  <1> DEFINE X == Half(k, pc, tgt)
  <1>1. /\ k' = rt_tick_increase(k) /\ pc' = pc /\ tgt' = tgt /\ freed' = freed
        /\ mode' \in {"thread", "tick"}
    BY Zenon DEF TickEnter, own
  <1>2. Core(k, pc, tgt, freed, X) /\ Current(k, pc) /\ k \in KernelState
    BY Zenon DEF IInv, Core, SoundBut, WellFormed
  <1>3. PICK c \in KernelState : SameButTimes(k, c) /\ k' \in {c, rt_schedule(c)}
    BY Zenon, <1>1, <1>2, TickCounts
  <1>4. /\ c.stat = k.stat /\ c.prio = k.prio /\ c.list = k.list /\ c.group = k.group
        /\ c.cur = k.cur /\ c.tmr = k.tmr /\ c.lock = k.lock
    BY Zenon, <1>3 DEF SameButTimes
  <1>5. X = Half(c, pc, tgt)
    BY Zenon, <1>4 DEF Half
  <1> HIDE DEF X
  <1>6. Core(c, pc, tgt, freed, X)
    BY Zenon, <1>2, <1>4, DataCore
  <1>7. Current(c, pc) /\ StaysClosed(k, c) /\ (Urgent(k, pc) => Urgent(c, pc))
    BY Zenon, <1>2, <1>4 DEF Current, StaysClosed, Urgent, MostUrgent
  <1>8. CASE k' = c
    BY ZenonT(60), <1>1, <1>5, <1>6, <1>7, <1>8, EndsQuietly
  <1>9. CASE k' = rt_schedule(c)
    <2>1. /\ c.lock # 0 => c.stat[c.cur] = "RUNNING"
          /\ \A u \in Thread : k.stat[u] = "CLOSE" => c.stat[u] = "CLOSE"
      BY Zenon, <1>4, <1>7 DEF Current
    <2>. QED BY ZenonT(60), <1>1, <1>5, <1>6, <1>9, <2>1, EndsInSchedule
  <1>. QED BY Zenon, <1>3, <1>8, <1>9

\* rt_thread_timeout does not meet a thread that a call is working on.
LEMMA TimerExpireKeeps ==
  ASSUME IInv, TimerExpire, UNCHANGED own
  PROVE  Preserved
  <1>0. PICK u : u = Head(k.tmr)
    OBVIOUS
  <1> DEFINE X == Half(k, pc, tgt)
             c == TimedOut(k, u)
  <1>1. /\ k.tmr # <<>> /\ k' = rt_schedule(c) /\ pc' = pc /\ tgt' = tgt
        /\ freed' = freed /\ mode' \in {"thread", "tick"}
    BY Zenon, <1>0 DEF TimerExpire, TimerDue, own, rt_thread_timeout, TimedOut
  <1>2. /\ Core(k, pc, tgt, freed, X) /\ Current(k, pc) /\ k \in KernelState
        /\ SoundBut(k, X) /\ \A w \in Thread : Works(k, pc, tgt, w)
    BY Zenon DEF IInv, Core, SoundBut, WellFormed
  <1>3. u \in Thread /\ Has(k.tmr, u)
    BY SMTT(30), <1>0, <1>1, <1>2, EmptyHasNone DEF KernelState
  <1>4. u \notin X
    <2>1. k.cur \in Thread
      BY Zenon, <1>2 DEF KernelState
    <2>2. Works(k, pc, tgt, k.cur)
      BY Zenon, <1>2, <2>1
    <2>3. ASSUME u \in X
          PROVE  pc[k.cur] \in Closing /\ u = tgt[k.cur] /\ u # k.cur
      BY Zenon, <2>3 DEF Half, Closing
    <2>4. ASSUME u \in X PROVE ~ Has(k.tmr, u)
      BY Zenon, <2>2, <2>3, <2>4 DEF Works
    <2>. QED BY Zenon, <1>3, <2>4
  <1> HIDE DEF X
  <1>5. k.stat[u] = "SUSPEND"
    BY Zenon, <1>2, <1>3, <1>4 DEF SoundBut, Fits
  <1>6. /\ SoundBut(c, X) /\ Alone(k, c, u)
        /\ c.stat[u] = IF u = k.cur THEN "RUNNING" ELSE "READY"
        /\ \A l \in List : ~ LinkedIn(c, u, l)
    <2>1. u \in Thread \ X
      BY SMTT(30), <1>3, <1>4
    <2>. QED BY Zenon, <1>2, <1>3, <2>1, TimedOutSound
  <1> HIDE DEF c
  <1>7. \A w \in Thread : tgt[w] = u => pc[w] \notin Managing
    BY ZenonT(60), <1>2, <1>3, <1>5 DEF Works, Managing
  <1>8. u \notin freed
    BY SMTT(30), <1>2, <1>5 DEF Core, Released
  <1>9. Core(c, pc, tgt, freed, X)
    <2>1. X \subseteq X \cup {u} /\ u \notin X /\ c.stat[u] \in {"READY", "RUNNING"}
      BY Zenon, <1>4, <1>6
    <2>. QED BY ZenonT(60), <1>2, <1>3, <1>6, <1>7, <1>8, <2>1, AloneCore
  <1>10. X = Half(c, pc, tgt)
    BY ZenonT(60), <1>6 DEF X, Half, Alone
  <1>11. c.lock # 0 => c.stat[c.cur] = "RUNNING"
    BY SMTT(30), <1>2, <1>6 DEF Current, Alone, KernelState
  <1>12. \A v \in Thread : k.stat[v] = "CLOSE" => c.stat[v] = "CLOSE"
    BY Zenon, <1>5, <1>6 DEF Alone
  <1>. QED BY ZenonT(60), <1>1, <1>9, <1>10, <1>11, <1>12, EndsInSchedule

\* The tick interrupt returns.
LEMMA TickLeaveKeeps ==
  ASSUME IInv, TickLeave, UNCHANGED own
  PROVE  Preserved
  BY Zenon DEF IInv, TickLeave, own, Preserved, Keeps, StaysClosed

-----------------------------------------------------------------------------
\* The invariant is inductive.

\* The invariant holds once the scheduler has started.
LEMMA InitInv ==
  ASSUME Init
  PROVE  IInv /\ Urgent(k, pc)
  <1>1. /\ Sound(k) /\ \A t \in Thread : \A l \in List : ~ LinkedIn(k, t, l)
        /\ pc = [t \in Thread |-> "user"] /\ mode = "thread"
        /\ tgt = [t \in Thread |-> t] /\ freed = {} /\ k.cur = Main /\ k.lock = 0
        /\ k.prio = InitPriority
        /\ k.stat = [t \in Thread |-> CASE t = Main -> "RUNNING"
                                        [] t = Idle -> "READY"
                                        [] OTHER    -> "INIT"]
    BY Zenon, BootSound DEF Init, Boot
  <1>2. /\ Main \in Thread /\ Idle \in Thread /\ Main # Idle
        /\ k.stat[Main] = "RUNNING" /\ k.stat[Idle] = "READY"
        /\ \A t \in Thread : k.stat[t] = "READY" => t = Idle
    BY Zenon, <1>1, BootAssumption
  <1>3. Half(k, pc, tgt) = {} /\ Current(k, pc)
    BY Zenon, <1>1, <1>2 DEF Half, Current
  <1>4. pc \in [Thread -> Location] /\ tgt \in [Thread -> Thread]
        /\ \A w \in Thread : pc[w] \notin Managing
    BY ZenonT(60), <1>1 DEF Location, Managing, Closing
  <1>5. (\A w \in Thread : Works(k, pc, tgt, w)) /\ OneManager(pc, tgt)
    BY <1>4 DEF Works, OneManager, Managing
  <1>6. Buried(k) /\ Released(k, freed)
    BY Zenon, <1>1 DEF Buried, Released
  <1>7. Core(k, pc, tgt, freed, {})
    BY Zenon, <1>1, <1>2, <1>4, <1>5, <1>6 DEF Core, Sound
  <1>8. MostUrgent(k)
    <2>1. InitPriority[Main] <= InitPriority[Idle]
      BY <1>2, BootAssumption, PriorityAssumption DEF Priority
    <2>. QED BY Zenon, <1>1, <1>2, <2>1 DEF MostUrgent
  <1>. QED BY Zenon, <1>1, <1>3, <1>7, <1>8 DEF IInv, Urgent

\* Every step keeps the invariant.
LEMMA NextKeeps ==
  ASSUME Careful, IInv, [Next]_vars
  PROVE  Preserved
  <1>1. CASE UNCHANGED vars
    BY Zenon, <1>1 DEF vars, IInv, Preserved, Keeps, StaysClosed
  <1>2. ASSUME NEW t \in Thread, OnSelf(t) PROVE Preserved
    <2>1. CASE \E n \in 0 .. MaxSleep : Call(t, "sleep") /\ Sleep(t, n) /\ UNCHANGED own
      <3>1. PICK n \in 0 .. MaxSleep : Call(t, "sleep") /\ Sleep(t, n) /\ UNCHANGED own
        BY Zenon, <2>1
      <3>2. n \in Int /\ t # Idle
        BY <3>1, ThreadsAssumption DEF Call
      <3>. QED BY Zenon, <3>1, <3>2, SleepKeeps
    <2>2. CASE SleepSchedule(t) /\ UNCHANGED own
      BY Zenon, <2>2, ScheduleStepKeeps DEF SleepSchedule
    <2>3. CASE Schedule(t)
      BY Zenon, <2>3, ScheduleStepKeeps DEF Schedule
    <2>4. CASE Slept(t) /\ UNCHANGED own
      BY ZenonT(60), <2>4, SleptKeeps
    <2>. QED BY SMTT(30), <1>2, <2>1, <2>2, <2>3, <2>4, YieldKeeps, SuspendSelfKeeps, ExitKeeps,
                CriticalKeeps DEF OnSelf
  <1>3. ASSUME NEW t \in Thread, OnOther(t) PROVE Preserved
    <2>1. ASSUME NEW u \in Thread, \/ Create(t, u) \/ Startup(t, u) \/ Resume(t, u)
                                   \/ SuspendOther(t, u) \/ Close(t, u)
                                   \/ \E p \in Priority : rt_thread_control(t, u, p)
          PROVE Preserved
      BY ZenonT(60), <2>1, CreateKeeps, StartupKeeps, ResumeKeeps, SuspendOtherKeeps, CloseKeeps,
         ControlKeeps
    <2>. QED BY SMTT(30), <1>3, <2>1, Resume1Keeps, Resume2Keeps, Suspend1Keeps, Close0Keeps,
                Close1Keeps, Close2Keeps DEF OnOther
  <1>4. CASE Tick /\ UNCHANGED own
    BY <1>4, TickEnterKeeps, TimerExpireKeeps, TickLeaveKeeps DEF Tick
  <1>. QED BY Zenon, <1>1, <1>2, <1>3, <1>4, IdleKeeps DEF Next

\* The invariant holds in every state.
LEMMA Invariance ==
  ASSUME Careful
  PROVE  Spec => []IInv
  <1>1. Init => IInv
    BY Zenon, InitInv
  <1>2. IInv /\ [Next]_vars => IInv'
    BY Zenon, NextKeeps DEF Preserved
  <1>. QED BY <1>1, <1>2, PTL DEF Spec

\* The thread that is half closed is no exception to the lists.
LEMMA InvLists ==
  ASSUME IInv
  PROVE  LinkedOnce /\ ReadyQueue
  <1> DEFINE X == Half(k, pc, tgt)
  <1>1. /\ SoundBut(k, X) /\ k \in KernelState /\ WellFormed(k)
        /\ \A t \in X : Loose(k, t)
    BY Zenon DEF IInv, Core, SoundBut, WellFormed
  <1> HIDE DEF X
  <1>2. \A l \in Priority \cup List : \A i \in 1 .. Len(k.list[l]) :
          k.list[l][i] \in Thread /\ LinkedIn(k, k.list[l][i], l)
    BY SMTT(30), <1>1 DEF KernelState, LinkedIn, Has
  <1>3. LinkedOnce
    BY Zenon, <1>1, <1>2 DEF LinkedOnce, WellFormed, Once
  <1>4. \A t \in Thread : \A p \in Priority : LinkedIn(k, t, p) => Fits(k, t)
    BY Zenon, <1>1 DEF SoundBut, Loose
  <1>5. ReadyQueue
    BY ZenonT(60), <1>1, <1>2, <1>4 DEF ReadyQueue, WellFormed, Fits
  <1>. QED BY Zenon, <1>3, <1>5

\* What the statuses say, the thread that is half closed included.
LEMMA InvStatuses ==
  ASSUME IInv
  PROVE  StatAgrees /\ ClosedIsUnused
  <1> DEFINE X == Half(k, pc, tgt)
  <1>1. /\ SoundBut(k, X) /\ k \in KernelState /\ Released(k, freed)
        /\ \A w \in Thread : Works(k, pc, tgt, w)
        /\ pc \in [Thread -> Location] /\ tgt \in [Thread -> Thread]
        /\ mode \in {"thread", "tick"} /\ freed \subseteq Thread
    BY Zenon DEF IInv, Core, SoundBut, WellFormed
  <1>2. ASSUME NEW t \in X
        PROVE  /\ k.stat[t] \notin {"RUNNING", "CLOSE"} /\ ~ Has(k.tmr, t)
               /\ \E w \in Thread : tgt[w] = t /\ pc[w] \in {"close1", "close2"}
    <2>1. k.cur \in Thread /\ t = tgt[k.cur] /\ pc[k.cur] \in {"close1", "close2"} /\ t # k.cur
      BY Zenon, <1>1 DEF Half, KernelState
    <2>. QED BY Zenon, <1>1, <2>1 DEF Works, Closing
  <1> HIDE DEF X
  <1>3. \A t \in Thread \ X : Fits(k, t)
    BY Zenon, <1>1 DEF SoundBut
  <1>4. TypeOK
    BY Zenon, <1>1 DEF TypeOK
  <1>5. TimerOnlySuspended
    BY Zenon, <1>2, <1>3 DEF TimerOnlySuspended, Fits
  <1>6. StatAgrees
    BY Zenon, <1>2, <1>3, <1>4, <1>5 DEF StatAgrees, Fits, Linked, LinkedIn
  <1>7. \A t \in Thread : k.stat[t] = "CLOSE" =>
          ~ Has(k.tmr, t) /\ \A p \in Priority : ~ Linked(t, p)
    BY ZenonT(60), <1>2, <1>3 DEF Fits, Linked, LinkedIn
  <1>8. ClosedIsUnused
    BY <1>1, <1>7 DEF ClosedIsUnused, Released, Loose, Linked, LinkedIn
  <1>. QED BY <1>6, <1>8

\* For any threads, priorities and calls, a thread is linked into one list at
\* most and once, whatever the order in which calls on other threads, the tick
\* and its timers interleave (rt_list_insert_before, rt_list_insert_after).
THEOREM ThreadsLinkedOnce ==
  ASSUME Careful
  PROVE  Spec => []LinkedOnce
  <1>1. IInv => LinkedOnce
    BY InvLists
  <1>. QED BY <1>1, Invariance, PTL

\* The bitmap and the ready lists agree with each other and with the threads,
\* also while a thread is being closed (rt_schedule_insert_thread,
\* rt_schedule_remove_thread).
THEOREM ThreadsReadyQueue ==
  ASSUME Careful
  PROVE  Spec => []ReadyQueue
  <1>1. IInv => ReadyQueue
    BY InvLists
  <1>. QED BY <1>1, Invariance, PTL

\* The status of every thread agrees with the lists and the timers, between
\* any two steps of the calls of thread.c.
THEOREM ThreadsStatAgrees ==
  ASSUME Careful
  PROVE  Spec => []StatAgrees
  <1>1. IInv => StatAgrees
    BY InvStatuses
  <1>. QED BY <1>1, Invariance, PTL

\* A closed thread is not scheduled and has no timer, and what
\* rt_thread_idle_excute has released is in no list.
THEOREM ThreadsClosedIsUnused ==
  ASSUME Careful
  PROVE  Spec => []ClosedIsUnused
  <1>1. IInv => ClosedIsUnused
    BY InvStatuses
  <1>. QED BY <1>1, Invariance, PTL

\* No step brings a closed thread back: rt_thread_timeout, rt_thread_resume and
\* rt_schedule do not meet one.
THEOREM ThreadsStayClosed ==
  ASSUME Careful
  PROVE  Spec => ClosedStaysClosed
  <1>1. IInv /\ [Next]_vars =>
          [\A t \in Thread : k.stat[t] = "CLOSE" => k'.stat[t] \in {"CLOSE", "INIT"}]_vars
    BY NextKeeps DEF Preserved, Keeps, StaysClosed
  <1>. QED BY <1>1, Invariance, PTL DEF Spec, ClosedStaysClosed

\* The code of a thread of the highest ready priority executes, unless a
\* priority is changed: RT_THREAD_CTRL_CHANGE_PRIORITY does not reschedule.
THEOREM ThreadsHighestRuns ==
  ASSUME Careful, "priority" \notin Calls
  PROVE  Spec => []HighestRuns
  <1>1. Init => IInv /\ Urgent(k, pc)
    BY Zenon, InitInv
  <1>2. IInv /\ Urgent(k, pc) /\ [Next]_vars => IInv' /\ Urgent(k, pc)'
    BY ZenonT(60), NextKeeps DEF Preserved, Keeps
  <1>3. IInv /\ Urgent(k, pc) => HighestRuns
    BY DEF Urgent, MostUrgent, HighestRuns
  <1>. QED BY <1>1, <1>2, <1>3, PTL DEF Spec

=============================================================================
