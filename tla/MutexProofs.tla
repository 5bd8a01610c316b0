---------------------------- MODULE MutexProofs ----------------------------
(***************************************************************************)
(* A mutex has one owner and hands itself over correctly, for every number *)
(* of threads, of priorities and of mutexes, however they are nested: the  *)
(* steps of a thread inside the kernel and of the tick interrupt keep the  *)
(* invariant of MutexCallProofs too.  With one mutex its owner also        *)
(* inherits the priority of those who wait, and gives it back.             *)
(***************************************************************************)
EXTENDS MutexCallProofs

\* A step of the scheduler or of the tick that no wait notices.
LEMMA QuietStep ==
  ASSUME IInv, mutex' = mutex, want' = want, Types', KernelOK(k'), CurrentRuns',
         k'.error = k.error,
         \A u \in Thread : /\ Same(k, k', u)
                           /\ Taking(u)' <=> Taking(u)
                           /\ Deleting(u)' <=> Deleting(u)
  PROVE  IInv'
  <1>1. Types /\ Idle \in Thread /\ ThreadOK(Idle)
    BY Zenon, BootAssumption DEF IInv
  <1>2. ThreadOK(Idle)'
    BY <1>1, ThreadKept DEF Same
  <1>3. /\ \A l \in List : LinkedIn(k', Idle, l) => LinkedIn(k, Idle, l)
        /\ Deleting(Idle) => Deleting(Idle)'
    BY <1>1 DEF Same
  <1>. QED BY <1>1, <1>2, <1>3, LocalStep

\* A call ends by calling rt_schedule.
LEMMA ScheduleInv ==
  ASSUME IInv, NEW t \in Thread, NEW l, NEW m, ScheduleStep(t, l, m), UNCHANGED own,
         <<l, m>> \in {<<"wait", "woken">>, <<"sleep", "slept">>, <<"schedule", "user">>}
  PROVE  IInv'
  <1>1. /\ pc[t] = l /\ pc' = [pc EXCEPT ![t] = m] /\ k' = rt_schedule(k) /\ mode' = mode
        /\ mutex' = mutex /\ want' = want
    BY DEF ScheduleStep, At, Goto, own
  <1>2. Types /\ KernelOK(k) /\ Sound(k)
    BY DEF IInv, KernelOK
  <1>3. Sound(k') /\ k'.error = k.error /\ k'.lock = k.lock
    BY <1>1, <1>2, ScheduleSound DEF Rescheduled
  <1>4. \A u \in Thread : Same(k, k', u)
    BY <1>1, <1>2, ScheduleSame
  <1>5. k'.stat[k'.cur] = "RUNNING"
    BY Zenon, <1>1, <1>2, IdleReady, ScheduleExecutes DEF KernelOK
  <1>6. KernelOK(k')
    BY Zenon, <1>2, <1>3, <1>4, BootAssumption DEF KernelOK, Same
  <1>7. Types' /\ CurrentRuns'
    BY Zenon, <1>1, <1>2, <1>5 DEF Types, CurrentRuns, Loc
  <1>8. \A u \in Thread : (Taking(u)' <=> Taking(u)) /\ (Deleting(u)' <=> Deleting(u))
    BY SMTT(30), <1>1, <1>2 DEF Types, Taking, Deleting
  <1>. QED BY <1>1, <1>3, <1>4, <1>6, <1>7, <1>8, QuietStep

\* A step of t from location l to location m in which only t is touched: it
\* stores an error, suspends itself in no list, or goes on.
LEMMA GoStep ==
  ASSUME IInv, NEW t \in Thread, NEW l, NEW m \in Loc, At(t, l), l \notin {"wait", "sleep"},
         pc' = [pc EXCEPT ![t] = m], mode' = mode, mutex' = mutex, want' = want,
         KernelOK(k'), CurrentRuns',
         \A u \in Thread \ {t} : Same(k, k', u) /\ k'.error[u] = k.error[u],
         \A n \in List : ~ LinkedIn(k', t, n),
         m \notin {"wait", "woken"},
         l = "delete" => m = "delete1" \/ \A v \in Thread : ~ LinkedIn(k', v, want[t]),
         l # "delete1", m \in {"delete", "delete1"} => l = "delete"
  PROVE  IInv'
  <1>1. Types /\ pc[t] = l /\ ThreadOK(t)
    BY SMTT(30) DEF At, IInv
  <1>2. pc'[t] = m /\ \A u \in Thread \ {t} : pc'[u] = pc[u]
    BY <1>1 DEF Types
  <1>3. Types'
    BY <1>1 DEF Types
  <1>4. ThreadOK(t)'
    BY Zenon, <1>1, <1>2 DEF ThreadOK, Taking, Deleting, Alive
  <1>5. \A u \in Thread \ {t} : /\ Same(k, k', u) /\ k'.error[u] = k.error[u]
                                /\ Taking(u)' <=> Taking(u)
                                /\ Deleting(u)' <=> Deleting(u)
    BY Zenon, <1>2 DEF Taking, Deleting
  <1>6. Deleting(t) => \/ Deleting(t)'
                       \/ \A v \in Thread : ~ LinkedIn(k', v, want[t])
    BY <1>1, <1>2 DEF Deleting
  <1>. QED BY Zenon, <1>3, <1>4, <1>5, <1>6, LocalStep

\* rt_thread_sleep
LEMMA SleepInv ==
  ASSUME IInv, NEW t \in Thread, t # Idle, NEW n \in Int, Sleep(t, n), UNCHANGED own
  PROVE  IInv'
  <1> DEFINE a == rt_thread_suspend(k, t)
  <1>1. /\ At(t, "user") /\ k' = rt_timer_start(a, t, n) /\ pc' = [pc EXCEPT ![t] = "sleep"]
        /\ mode' = mode /\ mutex' = mutex /\ want' = want
    BY DEF Sleep, Goto, own
  <1>2. Types /\ KernelOK(k) /\ Sound(k) /\ t = k.cur
    BY <1>1, AtRuns DEF IInv, KernelOK
  <1>3. /\ Sound(a) /\ Loose(a, t) /\ a.stat[t] = "SUSPEND"
        /\ Kept(k, a) /\ \A u \in Thread \ {t} : Same(k, a, u)
    BY <1>2, SuspendSound
  <1> HIDE DEF a
  <1>4. /\ Sound(k') /\ SameButTimers(a, k')
        /\ \A u \in Thread : Has(k'.tmr, u) <=> Has(a.tmr, u) \/ u = t
    BY Zenon, <1>1, <1>3, TimerStartSound DEF Sound
  <1>5. /\ k'.stat[t] = "SUSPEND" /\ k'.lock = k.lock /\ k'.cur = t /\ k'.error = k.error
        /\ \A l \in List : ~ LinkedIn(k', t, l)
    BY Zenon, <1>2, <1>3, <1>4 DEF SameButTimers, Kept, Loose, LinkedIn
  <1>6. \A u \in Thread \ {t} : Same(k, k', u)
    <2>1. \A u \in Thread \ {t} : Same(a, k', u)
      BY Zenon, <1>4 DEF SameButTimers, Same, LinkedIn
    <2>. QED BY Zenon, <1>3, <2>1, SameTransitive
  <1>7. KernelOK(k')
    BY Zenon, <1>2, <1>4, <1>5, <1>6, KernelStep
  <1>8. CurrentRuns' /\ "sleep" \in Loc
    BY <1>1, <1>2, <1>5 DEF CurrentRuns, Types, Loc
  <1>. QED BY Zenon, <1>1, <1>5, <1>6, <1>7, <1>8, GoStep

\* The end of rt_thread_sleep
LEMMA SleptInv ==
  ASSUME IInv, NEW t \in Thread, Slept(t), UNCHANGED own
  PROVE  IInv'
  <1>1. PICK e : e = IF k.error[t] = "ETIMEOUT" THEN "EOK" ELSE k.error[t]
    OBVIOUS
  <1>2. /\ At(t, "slept") /\ k' = SetError(k, t, e) /\ pc' = [pc EXCEPT ![t] = "user"]
        /\ mode' = mode /\ mutex' = mutex /\ want' = want
    BY Zenon, <1>1 DEF Slept, SetError, Goto, own
  <1>3. e \in Error
    BY Zenon, <1>1 DEF IInv, KernelOK, Sound, SoundBut, WellFormed, KernelState, Error
  <1>4. /\ KernelOK(k') /\ k'.stat[k'.cur] = "RUNNING"
        /\ \A u \in Thread : Same(k, k', u) /\ (u # t => k'.error[u] = k.error[u])
    BY Zenon, <1>2, <1>3, ErrorStep
  <1>5. \A l \in List : ~ LinkedIn(k', t, l)
    BY <1>2, <1>4, AtRuns DEF Same
  <1>6. CurrentRuns' /\ "user" \in Loc
    BY <1>4 DEF CurrentRuns, Loc
  <1>. QED BY Zenon, <1>2, <1>4, <1>5, <1>6, GoStep

\* The end of rt_mutex_take, and the test of the list in rt_mutex_delete
LEMMA LeaveInv ==
  ASSUME IInv, NEW t \in Thread, NEW l, NEW m \in Loc, At(t, l), k' = k,
         pc' = [pc EXCEPT ![t] = m], UNCHANGED <<mode, own>>,
         \/ l = "woken" /\ m = "user"
         \/ l = "delete" /\ m = "delete1"
         \/ l = "delete" /\ m = "user" /\ k.list[want[t]] = <<>>
  PROVE  IInv'
  <1>1. mode' = mode /\ mutex' = mutex /\ want' = want /\ KernelOK(k')
    BY Zenon DEF own, IInv
  <1>2. k.stat[k.cur] = "RUNNING" /\ \A n \in List : ~ LinkedIn(k', t, n)
    BY Zenon, AtRuns
  <1>3. CurrentRuns' /\ \A u \in Thread : Same(k, k', u)
    BY Zenon, <1>2 DEF CurrentRuns, Same
  <1>4. k.list[want[t]] = <<>> => \A v \in Thread : ~ LinkedIn(k', v, want[t])
    BY DEF LinkedIn, Has
  <1>. QED BY Zenon, <1>1, <1>2, <1>3, <1>4, GoStep

\* The current thread still runs after a step that leaves it ready.
LEMMA StillRuns ==
  ASSUME IInv, Sound(k'), pc' = pc,
         \/ /\ k'.cur = k.cur
            /\ k.stat[k.cur] = "RUNNING" => k'.stat[k.cur] \in {"READY", "RUNNING"}
         \/ \E u \in Thread : Executes(k', u)
  PROVE  CurrentRuns'
  <1>1. CASE k'.cur = k.cur /\ k.stat[k.cur] = "RUNNING"
                            /\ k'.stat[k.cur] \in {"READY", "RUNNING"}
    BY Zenon, <1>1, CurrentIsRunning DEF CurrentRuns
  <1>2. CASE k'.cur = k.cur /\ k.stat[k.cur] # "RUNNING"
    BY <1>2 DEF CurrentRuns, IInv
  <1>3. CASE \E u \in Thread : Executes(k', u)
    BY <1>3 DEF Executes, CurrentRuns
  <1>. QED BY Zenon, <1>1, <1>2, <1>3

\* A turn of rt_ipc_list_resume_all in rt_mutex_delete
LEMMA ResumeAllInv ==
  ASSUME IInv, NEW t \in Thread, ResumeAllOne(t, want[t]), UNCHANGED own
  PROVE  IInv'
  <1>0. PICK m : m = want[t]
    OBVIOUS
  <1>1. PICK h : h = Head(k.list[m])
    OBVIOUS
  <1> DEFINE a == SetError(k, h, "ERROR")
  <1>2. /\ At(t, "delete1") /\ k.list[m] # <<>> /\ pc' = [pc EXCEPT ![t] = "delete"]
        /\ mode' = mode /\ mutex' = mutex /\ want' = want
    BY Zenon, <1>0 DEF ResumeAllOne, Goto, own
  <1>3. k' = rt_thread_resume(a, Head(a.list[m]))
    BY Zenon, <1>0, <1>1 DEF ResumeAllOne, ResumeWithError, rt_ipc_list_resume, SetError
  <1>4. Types /\ KernelOK(k) /\ m \in List /\ m \in DOMAIN mutex /\ "ERROR" \in Error
    BY Zenon, <1>0, MutexAssumption DEF IInv, Types, Error
  <1>5. Sound(k) /\ k.list[m] \in Seq(Thread) /\ k.error \in [Thread -> Error]
    BY Zenon, <1>4 DEF KernelOK, Sound, SoundBut, WellFormed, KernelState
  <1>6. h \in Thread /\ LinkedIn(k, h, m)
    BY Zenon, <1>1, <1>2, <1>5, EmptyHasNone DEF LinkedIn
  <1>7. t = k.cur /\ pc[t] = "delete1" /\ k.stat[t] = "RUNNING"
    BY Zenon, <1>2, AtRuns
  <1>8. Taking(h) /\ want[h] = m /\ ~ Alive(m) /\ h # t
    BY <1>0, <1>4, <1>6, <1>7 DEF IInv, ThreadOK, Taking, Deleting
  <1>9. /\ Sound(a) /\ a.list = k.list /\ a.stat = k.stat /\ a.cur = k.cur
        /\ a.lock = k.lock /\ a.error = [k.error EXCEPT ![h] = "ERROR"]
        /\ \A u \in Thread : Same(k, a, u)
    <2>1. LET r == SetError(k, h, "ERROR")
          IN  /\ Sound(r) /\ r.prio = k.prio /\ r.list = k.list
              /\ r.stat = k.stat /\ r.cur = k.cur /\ r.lock = k.lock
              /\ r.error = [k.error EXCEPT ![h] = "ERROR"]
              /\ \A u \in Thread : Same(k, r, u)
      BY ZenonT(60), <1>4, <1>5, <1>6, ErrorSound
    <2>. QED BY Zenon, <2>1
  <1> HIDE DEF a
  <1>10. k' = rt_thread_resume(a, h) /\ a.stat[h] = "SUSPEND"
    BY SMTT(30), <1>1, <1>3, <1>4, <1>6, <1>9, LinkedSuspended
  <1>11. /\ Sound(k') /\ k'.stat[h] \in {"READY", "RUNNING"}
         /\ \A l \in List : ~ LinkedIn(k', h, l)
         /\ Kept(a, k') /\ \A u \in Thread \ {h} : Same(a, k', u)
    BY Zenon, <1>6, <1>9, <1>10, ResumeSound
  <1>12. \A u \in Thread \ {h} : Same(k, k', u) /\ k'.error[u] = k.error[u]
    BY Zenon, <1>5, <1>9, <1>11, SameTransitive DEF Kept
  <1>13. k'.lock = k.lock /\ k'.cur = k.cur
    BY Zenon, <1>9, <1>11 DEF Kept
  <1>14. KernelOK(k')
    BY ZenonT(60), <1>4, <1>6, <1>11, <1>12, <1>13, KernelStep
  <1>15. Types' /\ CurrentRuns'
    <2>1. k'.stat[t] \in {"READY", "RUNNING"}
      BY Zenon, <1>7, <1>8, <1>12 DEF Same
    <2>2. k'.stat[k'.cur] = "RUNNING"
      BY ZenonT(60), <1>7, <1>11, <1>13, <2>1, CurrentIsRunning
    <2>. QED BY Zenon, <1>2, <1>4, <2>2 DEF Types, CurrentRuns, Loc
  <1>16. \A u \in Thread : (Taking(u)' <=> Taking(u)) /\ (Deleting(u)' <=> Deleting(u))
    BY SMTT(30), <1>2, <1>4, <1>7 DEF Types, Taking, Deleting
  <1>17. ThreadOK(h)' /\ ~ Deleting(h)
    BY Zenon, <1>2, <1>8, <1>11, <1>16 DEF ThreadOK, Alive, Taking, Deleting
  <1>. QED BY ZenonT(60), <1>2, <1>6, <1>11, <1>12, <1>14, <1>15, <1>16, <1>17, LocalStep

\* rt_thread_startup
LEMMA StartInv ==
  ASSUME IInv, NEW t \in Thread, NEW u \in Thread, Start(t, u), UNCHANGED own
  PROVE  IInv'
  <1>1. /\ At(t, "user") /\ k.stat[u] = "INIT" /\ k' = rt_thread_startup(k, u)
        /\ pc' = pc /\ mode' = mode /\ mutex' = mutex /\ want' = want
    BY DEF Start, own
  <1>2. Types /\ KernelOK(k) /\ Sound(k) /\ ThreadOK(u)
    BY DEF IInv, KernelOK
  <1>3. LET r == rt_thread_startup(k, u)
        IN  /\ Sound(r) /\ r.stat[u] \in {"READY", "RUNNING"}
            /\ \A l \in List : r.list[l] = k.list[l]
            /\ \A w \in Thread \ {u} : Same(k, r, w)
            /\ r.prio = [k.prio EXCEPT ![u] = InitPriority[u]]
            /\ r.error = k.error /\ r.lock = k.lock
            /\ r.cur = k.cur \/ \E w \in Thread : Executes(r, w)
    BY <1>1, <1>2, StartSound, Zenon
  <1>4. /\ Sound(k') /\ k'.stat[u] \in {"READY", "RUNNING"}
        /\ \A l \in List : k'.list[l] = k.list[l]
        /\ \A w \in Thread \ {u} : Same(k, k', w)
        /\ k'.error = k.error /\ k'.lock = k.lock
        /\ k'.cur = k.cur \/ \E w \in Thread : Executes(k', w)
    BY Zenon, <1>1, <1>3
  <1>5. KernelOK(k')
    BY SMTT(30), <1>2, <1>4, KernelStep
  <1>6. CurrentRuns'
    <2>1. t = k.cur /\ k.stat[t] = "RUNNING"
      BY Zenon, <1>1, AtRuns
    <2>2. k'.stat[t] \in {"READY", "RUNNING"}
      BY Zenon, <1>4, <2>1 DEF Same
    <2>. QED BY ZenonT(60), <1>1, <1>4, <2>1, <2>2, StillRuns
  <1>7. Types' /\ \A w \in Thread : (Taking(w)' <=> Taking(w)) /\ (Deleting(w)' <=> Deleting(w))
    BY SMTT(30), <1>1, <1>2 DEF Types, Taking, Deleting
  <1>8. \A l \in List : LinkedIn(k', u, l) <=> LinkedIn(k, u, l)
    BY <1>4 DEF LinkedIn
  <1>9. ThreadOK(u)'
    BY ZenonT(60), <1>1, <1>2, <1>4, <1>7, <1>8, ThreadKept
  <1>. QED BY ZenonT(60), <1>1, <1>4, <1>5, <1>6, <1>7, <1>8, <1>9, LocalStep

\* The tick interrupt
LEMMA TickInv ==
  ASSUME IInv, Tick, UNCHANGED own
  PROVE  IInv'
  <1>0. /\ pc' = pc /\ mutex' = mutex /\ want' = want /\ mode' \in {"thread", "tick"}
    BY DEF Tick, TickEnter, TimerExpire, TickLeave, own, IInv, Types
  <1>1. Types /\ KernelOK(k) /\ Sound(k) /\ k.cur \in Thread
    BY Zenon DEF IInv, KernelOK, Sound, SoundBut, WellFormed, KernelState
  <1>2. Types' /\ \A u \in Thread : (Taking(u)' <=> Taking(u)) /\ (Deleting(u)' <=> Deleting(u))
    BY Zenon, <1>0, <1>1 DEF Types, Taking, Deleting
  <1>3. CASE TickEnter
    <2>1. /\ Sound(k') /\ k'.lock = k.lock /\ k'.error = k.error
          /\ \A u \in Thread : Same(k, k', u)
          /\ k'.cur = k.cur \/ \E u \in Thread : Executes(k', u)
      BY Zenon, <1>1, <1>3, TickSound DEF TickEnter
    <2>2. KernelOK(k')
      BY Zenon, <1>1, <2>1, BootAssumption DEF KernelOK, Same
    <2>3. k.stat[k.cur] = "RUNNING" => k'.stat[k.cur] \in {"READY", "RUNNING"}
      BY Zenon, <1>1, <2>1 DEF Same
    <2>4. CurrentRuns'
      BY <1>0, <2>1, <2>3, StillRuns
    <2>. QED BY Zenon, <1>0, <1>2, <2>1, <2>2, <2>4, QuietStep
  <1>4. CASE TimerExpire
    <2>1. PICK h : h = Head(k.tmr)
      BY Zenon
    <2>2. k.tmr # <<>> /\ k.tmr \in Seq(Thread) /\ k' = rt_thread_timeout(k, h)
      BY ZenonT(60), <1>1, <1>4, <2>1
         DEF TimerExpire, TimerDue, Sound, SoundBut, WellFormed, KernelState
    <2>3. h \in Thread /\ Has(k.tmr, h)
      BY Zenon, <2>1, <2>2, EmptyHasNone
    <2>4. k.stat[h] = "SUSPEND"
      BY <1>1, <2>3 DEF Sound, SoundBut, Fits
    <2>5. /\ Sound(k') /\ k'.stat[h] \in {"READY", "RUNNING"}
          /\ \A l \in List : ~ LinkedIn(k', h, l)
          /\ k'.lock = k.lock /\ k'.error = [k.error EXCEPT ![h] = "ETIMEOUT"]
          /\ \A u \in Thread \ {h} : Same(k, k', u)
          /\ k'.cur = k.cur \/ \E u \in Thread : Executes(k', u)
      <3>1. LET r == rt_thread_timeout(k, h)
            IN  /\ Sound(r) /\ r.stat[h] \in {"READY", "RUNNING"}
                /\ \A l \in List : ~ LinkedIn(r, h, l)
                /\ ~ Has(r.tmr, h)
                /\ r.prio = k.prio /\ r.lock = k.lock
                /\ r.error = [k.error EXCEPT ![h] = "ETIMEOUT"]
                /\ \A u \in Thread \ {h} : Same(k, r, u)
                /\ \A l \in List : r.list[l] = rt_list_remove(k.list[l], h)
                /\ r.cur = k.cur \/ \E u \in Thread : Executes(r, u)
        BY <1>1, <2>3, TimeoutSound, Zenon
      <3>. QED BY Zenon, <2>2, <3>1
    <2>6. k'.error[h] = "ETIMEOUT" /\ \A u \in Thread \ {h} : k'.error[u] = k.error[u]
      <3>1. k.error \in [Thread -> Error]
        BY Zenon, <1>1 DEF Sound, SoundBut, WellFormed, KernelState
      <3>. QED BY Zenon, <2>3, <2>5, <3>1
    <2>7. KernelOK(k')
      BY Zenon, <1>1, <2>3, <2>5, KernelStep
    <2>8. CurrentRuns'
      <3>1. k.stat[k.cur] = "RUNNING" => k'.stat[k.cur] \in {"READY", "RUNNING"}
        BY <1>1, <2>4, <2>5 DEF Same
      <3>. QED BY Zenon, <1>0, <2>5, <3>1, StillRuns
    <2>9. ThreadOK(h)'
      <3>1. Taking(h) => mutex[want[h]].owner # h /\ want[h] \in List
        BY ZenonT(60), <1>1, <2>3, <2>4, MutexAssumption DEF IInv, ThreadOK, Types
      <3>2. Deleting(h)' => ~ mutex'[want'[h]].alive
        BY Zenon, <1>0, <1>2, <2>3 DEF IInv, ThreadOK, Alive
      <3>. QED BY ZenonT(60), <1>0, <1>2, <2>3, <2>5, <2>6, <3>1, <3>2 DEF ThreadOK, Alive
    <2>10. Deleting(h) => Deleting(h)'
      BY Zenon, <1>2, <2>3
    <2>. QED BY ZenonT(60), <1>0, <1>2, <2>3, <2>5, <2>6, <2>7, <2>8, <2>9, <2>10, LocalStep
  <1>5. CASE TickLeave
    <2>1. k' = k
      BY Zenon, <1>5 DEF TickLeave
    <2>2. CurrentRuns' /\ \A u \in Thread : Same(k, k', u)
      BY Zenon, <1>0, <2>1 DEF IInv, CurrentRuns, Same
    <2>. QED BY Zenon, <1>0, <1>1, <1>2, <2>1, <2>2, QuietStep
  <1>. QED BY Zenon, <1>3, <1>4, <1>5 DEF Tick

-----------------------------------------------------------------------------
\* The invariant holds when the mutexes have been created.
LEMMA InitInv ==
  ASSUME Init
  PROVE  IInv
  <1>1. PICK c \in Created : mutex = [m \in c |-> FreeMutex]
    BY DEF Init
  <1>2. c \subseteq Mutexes /\ c # {} /\ DOMAIN mutex = c
    BY Zenon, <1>1, MutexAssumption
  <1>3. Sound(k) /\ \A t \in Thread : \A l \in List : ~ LinkedIn(k, t, l)
    BY Zenon, BootSound DEF Init
  <1>4. /\ pc = [t \in Thread |-> "user"] /\ mode = "thread" /\ k.cur = Main /\ k.lock = 0
        /\ k.stat = [t \in Thread |-> CASE t = Main -> "RUNNING"
                                        [] t = Idle -> "READY"
                                        [] OTHER    -> "INIT"]
    BY DEF Init, Boot
  <1>5. Main \in Thread /\ Idle \in Thread /\ Idle # Main
    BY BootAssumption
  <1>6. KernelOK(k)
    <2>1. \A t \in Thread : k.stat[t] \in {"RUNNING", "READY", "INIT"}
      BY <1>4
    <2>2. k.stat[Idle] = "READY"
      BY Zenon, <1>4, <1>5
    <2>. QED BY Zenon, <1>3, <1>4, <2>1, <2>2 DEF KernelOK
  <1>7. CurrentRuns
    BY Zenon, <1>4, <1>5 DEF CurrentRuns
  <1>8. Types
    <2>1. want = [t \in Thread |-> CHOOSE m \in DOMAIN mutex : TRUE]
      BY DEF Init
    <2>2. (CHOOSE m \in DOMAIN mutex : TRUE) \in DOMAIN mutex
      BY <1>2
    <2>. QED BY Zenon, <1>2, <1>4, <2>1, <2>2 DEF Types, Loc
  <1>9. ASSUME NEW t \in Thread PROVE ThreadOK(t)
    BY Zenon, <1>3, <1>4 DEF ThreadOK, Taking, Deleting
  <1>10. ASSUME NEW m \in DOMAIN mutex PROVE MutexOK(m)
    <2>1. mutex[m] = FreeMutex /\ m \in List
      BY Zenon, <1>1, <1>2, MutexAssumption
    <2>2. FreeMutex \in Record
      <3>1. 0 \in 0 .. RT_MUTEX_HOLD_MAX
        BY MutexAssumption
      <3>. QED BY Zenon, <3>1 DEF FreeMutex, Record
    <2>. QED BY <1>3, <2>1, <2>2 DEF MutexOK, FreeMutex, Alive
  <1>. QED BY Zenon, <1>6, <1>7, <1>8, <1>9, <1>10 DEF IInv

\* Every step keeps the invariant.
LEMMA NextInv ==
  ASSUME IInv, [Next]_vars
  PROVE  IInv'
  <1>1. ASSUME NEW t \in Thread, NEW m \in DOMAIN mutex, NEW time \in Timeout,
               rt_mutex_take(t, m, time)
        PROVE  IInv'
    <2>1. Call(t, "take") /\ Alive(m) /\ UNCHANGED mode
      BY Zenon, <1>1 DEF rt_mutex_take
    <2>2. TakeAgain(t, m) \/ TakeFree(t, m) \/ TakeWait(t, m, time)
      BY Zenon, <1>1 DEF rt_mutex_take
    <2>. QED BY Zenon, <2>1, <2>2, TakeAgainInv, TakeFreeInv, TakeWaitInv
  <1>2. ASSUME NEW t \in Thread, NEW m \in DOMAIN mutex, rt_mutex_release(t, m)
        PROVE  IInv'
    <2>1. Call(t, "release") /\ Alive(m) /\ UNCHANGED <<mode, want>>
      BY <1>2 DEF rt_mutex_release
    <2>2. CASE mutex[m].owner # t
      <3>1. /\ At(t, "user") /\ k' = SetError(k, t, "ERROR") /\ "ERROR" \in Error
            /\ pc' = pc /\ mode' = mode /\ want' = want /\ mutex' = mutex
        BY Zenon, <1>2, <2>1, <2>2 DEF rt_mutex_release, NotOwner, Call, Error
      <3>. QED BY Zenon, <3>1, OnlyErrorInv
    <2>3. CASE mutex[m].owner = t
      <3>1. HandOver(t, m) \/ SetFree(t, m) \/ ReleaseOne(t, m)
        BY Zenon, <1>2, <2>3 DEF rt_mutex_release
      <3>. QED BY ZenonT(60), <2>1, <2>3, <3>1, HandOverInv, SetFreeInv, ReleaseOneInv
    <2>. QED BY Zenon, <2>2, <2>3
  <1>3. ASSUME NEW t \in Thread, NEW n \in 1 .. MaxSleep, Call(t, "sleep"), Sleep(t, n),
               UNCHANGED own
        PROVE  IInv'
    <2>1. t # Idle /\ n \in Int
      BY <1>3 DEF Call
    <2>. QED BY Zenon, <1>3, <2>1, SleepInv
  <1>4. ASSUME NEW t \in Thread, Inside(t) PROVE IInv'
    <2>1. CASE WaitSchedule(t)
      BY Zenon, <1>4, <2>1, ScheduleInv DEF Inside, WaitSchedule
    <2>2. CASE Schedule(t)
      BY Zenon, <1>4, <2>2, ScheduleInv DEF Inside, Schedule
    <2>3. CASE SleepSchedule(t)
      BY Zenon, <1>4, <2>3, ScheduleInv DEF Inside, SleepSchedule
    <2>4. CASE Slept(t)
      BY <1>4, <2>4, SleptInv DEF Inside
    <2>5. CASE Return(t)
      <3>1. /\ At(t, "woken") /\ k' = k /\ pc' = [pc EXCEPT ![t] = "user"]
            /\ UNCHANGED <<mode, own>> /\ "user" \in Loc
        BY <1>4, <2>5 DEF Inside, Return, Goto, Loc
      <3>. QED BY Zenon, <3>1, LeaveInv
    <2>6. CASE ResumeAllTest(t, want[t])
      <3>1. PICK m : m = IF k.list[want[t]] # <<>> THEN "delete1" ELSE "user"
        BY Zenon
      <3>2. /\ At(t, "delete") /\ k' = k /\ pc' = [pc EXCEPT ![t] = m]
            /\ UNCHANGED <<mode, own>> /\ m \in Loc
        BY Zenon, <1>4, <2>6, <3>1 DEF Inside, ResumeAllTest, Goto, Loc
      <3>3. m = "delete1" \/ (m = "user" /\ k.list[want[t]] = <<>>)
        BY Zenon, <3>1
      <3>. QED BY Zenon, <3>2, <3>3, LeaveInv
    <2>7. CASE ResumeAllOne(t, want[t])
      BY Zenon, <1>4, <2>7, ResumeAllInv DEF Inside
    <2>. QED BY ZenonT(60), <1>4, <2>1, <2>2, <2>3, <2>4, <2>5, <2>6, <2>7 DEF Inside
  <1>5. ASSUME NEW t \in Thread, Step(t) PROVE IInv'
    BY ZenonT(60), <1>1, <1>2, <1>3, <1>4, <1>5, DeleteInv DEF Step
  <1>6. ASSUME NEW u \in Thread, Start(Main, u), UNCHANGED own PROVE IInv'
    BY Zenon, <1>6, StartInv, BootAssumption
  <1>7. CASE UNCHANGED vars
    <2>1. k' = k /\ pc' = pc /\ mode' = mode /\ mutex' = mutex /\ want' = want
      BY Zenon, <1>7 DEF vars
    <2>2. ASSUME NEW t \in Thread PROVE ThreadOK(t)'
      BY Zenon, <2>1 DEF IInv, ThreadOK, Taking, Deleting, Alive
    <2>3. ASSUME NEW m \in DOMAIN mutex PROVE MutexOK(m)'
      BY Zenon, <2>1 DEF IInv, MutexOK, Deleting, Alive
    <2>4. (Types /\ KernelOK(k) /\ CurrentRuns)'
      BY Zenon, <2>1 DEF IInv, Types, CurrentRuns
    <2>. QED BY Zenon, <2>1, <2>2, <2>3, <2>4 DEF IInv
  <1>. QED BY Zenon, <1>5, <1>6, <1>7, TickInv DEF Next

\* The properties of Mutex and of Processor follow from the invariant.
LEMMA InvImplies ==
  ASSUME IInv
  PROVE  /\ OwnerAgrees /\ WinnerOwns
         /\ LinkedOnce /\ ReadyQueue /\ HighestExists /\ TimerOnlySuspended
  <1>1. Types /\ Sound(k) /\ k \in KernelState
    BY Zenon DEF IInv, KernelOK, Sound, SoundBut, WellFormed
  <1>2. LinkedOnce /\ ReadyQueue /\ HighestExists /\ TimerOnlySuspended
    BY <1>1, SoundProperties
  <1>3. WinnerOwns
    BY Zenon DEF IInv, ThreadOK, Taking, WinnerOwns, WaitOver, Waits, Linked, LinkedIn
  <1>4. TypeOK
    BY Zenon, <1>1 DEF IInv, Types, MutexOK, Record, Loc, TypeOK
  <1>5. ASSUME NEW m \in DOMAIN mutex, \A u \in Thread : ~ LinkedIn(k, u, m)
        PROVE  k.list[m] = <<>>
    <2>1. m \in List /\ k.list[m] \in Seq(Thread)
      BY SMTT(30), <1>1, MutexAssumption DEF Types, KernelState
    <2>. QED BY Zenon, <1>5, <2>1, EmptyHasNone DEF LinkedIn
  <1>6. OwnerAgrees
    BY Zenon, <1>4, <1>5 DEF IInv, MutexOK, OwnerAgrees, Deleting
  <1>. QED BY Zenon, <1>2, <1>3, <1>6

\* The invariant holds in every state.
LEMMA Invariance == Spec => []IInv
  <1>1. Init => IInv
    BY InitInv
  <1>2. IInv /\ [Next]_vars => IInv'
    BY NextInv
  <1>. QED BY <1>1, <1>2, PTL DEF Spec

\* For any number of threads, of priorities and of mutexes, nested or not:
\* rt_mutex_take, rt_mutex_release, rt_mutex_delete, rt_thread_delay,
\* rt_thread_startup and the tick interrupt never corrupt a list, the bitmap of
\* the scheduler or the list of the thread timers.
THEOREM MutexSafe ==
  Spec => [](LinkedOnce /\ ReadyQueue /\ HighestExists /\ TimerOnlySuspended)
  <1>1. IInv => LinkedOnce /\ ReadyQueue /\ HighestExists /\ TimerOnlySuspended
    BY InvImplies
  <1>. QED BY <1>1, Invariance, PTL

\* For any number of threads, of priorities and of mutexes, nested or not, a
\* wait in rt_mutex_take ends with RT_EOK exactly if it ends with the ownership,
\* however the handover, the timeout and the deletion race.
THEOREM MutexWinnerOwns == Spec => []WinnerOwns
  <1>1. IInv => WinnerOwns
    BY Zenon, InvImplies
  <1>. QED BY <1>1, Invariance, PTL

\* For any number of threads, of priorities and of mutexes, nested or not,
\* value, owner and hold agree, and nobody waits for a mutex that is free or
\* that rt_mutex_delete has deleted.
THEOREM MutexOwnerAgrees == Spec => []OwnerAgrees
  <1>1. IInv => OwnerAgrees
    BY InvImplies
  <1>. QED BY <1>1, Invariance, PTL

\* A step that takes mutex m away from its owner is a call of the owner.
LEMMA LetsGoStep ==
  ASSUME IInv, [Next]_vars, NEW m \in DOMAIN mutex, NEW o, o = mutex[m].owner,
         mutex'[m].owner # o, o # NoThread
  PROVE  k.cur = o /\ pc[o] = "user"
  <1>1. mutex' # mutex
    BY Zenon
  <1>2. PICK t \in Thread, n \in DOMAIN mutex :
          \/ \E time \in Timeout : rt_mutex_take(t, n, time)
          \/ rt_mutex_release(t, n) \/ Delete(t, n)
    BY Zenon, <1>1 DEF Next, Step, Inside, own, vars
  <1>3. CASE \E time \in Timeout : rt_mutex_take(t, n, time)
    <2>1. TakeAgain(t, n) \/ (TakeFree(t, n) /\ n # m)
      <3>1. TakeAgain(t, n) \/ TakeFree(t, n)
        BY Zenon, <1>1, <1>3 DEF rt_mutex_take, TakeWait
      <3>2. TakeFree(t, n) => n # m
        BY DEF TakeFree, IInv, MutexOK, Record
      <3>. QED BY SMTT(30), <3>1, <3>2
    <2>2. CASE TakeAgain(t, n)
      <3>1. mutex'[m] = mutex[m] \/ \E h : mutex'[m] = [mutex[m] EXCEPT !.hold = h]
        BY <2>2 DEF TakeAgain
      <3>2. mutex[m] \in Record
        BY Zenon DEF IInv, MutexOK
      <3>. QED BY Zenon, <3>1, <3>2 DEF Record
    <2>3. CASE TakeFree(t, n) /\ n # m
      BY Zenon, <2>3 DEF TakeFree
    <2>. QED BY Zenon, <2>1, <2>2, <2>3
  <1>4. CASE rt_mutex_release(t, n)
    <2>1. At(t, "user") /\ mutex[n].owner = t
      BY SMTT(30), <1>1, <1>4 DEF rt_mutex_release, Call, NotOwner
    <2>2. ASSUME n # m PROVE mutex'[m] = mutex[m]
      <3>1. CASE HandOver(t, n)
        BY Zenon, <2>2, <3>1 DEF HandOver
      <3>2. CASE SetFree(t, n)
        BY Zenon, <2>2, <3>2 DEF SetFree
      <3>3. CASE ReleaseOne(t, n)
        BY <2>2, <3>3 DEF ReleaseOne
      <3>. QED BY Zenon, <1>4, <2>1, <3>1, <3>2, <3>3 DEF rt_mutex_release
    <2>. QED BY Zenon, <2>1, <2>2 DEF At
  <1>5. CASE Delete(t, n)
    BY <1>5 DEF Delete
  <1>. QED BY Zenon, <1>2, <1>3, <1>4, <1>5

\* For any number of threads, of priorities and of mutexes: ownership is never
\* taken away; it changes only by a take of the free mutex or by rt_mutex_release
\* of the owner itself, never by a timeout, a deletion or another thread.
THEOREM MutexLetsGo ==
  Spec => OwnerLetsGo
  <1>1. Init => IInv
    BY InitInv
  <1>2. IInv /\ [Next]_vars => IInv'
    BY NextInv
  <1>3. IInv /\ [Next]_vars =>
          [\A m \in DOMAIN mutex :
             LET o == mutex[m].owner
             IN  mutex'[m].owner # o /\ o # NoThread => k.cur = o /\ pc[o] = "user"]_vars
    BY Zenon, LetsGoStep
  <1>. QED BY <1>1, <1>2, <1>3, PTL DEF Spec, OwnerLetsGo

-----------------------------------------------------------------------------
(* Priority inheritance.  original_priority remembers one priority only, so  *)
(* what follows is about an application that uses one mutex.                 *)

\* The application creates one mutex.
OneMutex == \A c \in Created : \A m, n \in c : m = n

\* As long as m exists only its owner may have a priority that is not its own,
\* and m remembers which one it is to get back; the owner is as urgent as every
\* thread that waits, and a PRIO list is sorted.
PriorityOK(m) ==
  /\ \A t \in Thread : t # mutex[m].owner => k.prio[t] = InitPriority[t]
  /\ mutex[m].owner # NoThread =>
       /\ mutex[m].original_priority = InitPriority[mutex[m].owner]
       /\ k.stat[mutex[m].owner] # "INIT"
  /\ \A t \in Thread : LinkedIn(k, t, m) => k.prio[mutex[m].owner] <= k.prio[t]
  /\ Flag[m] = "PRIO" => Ordered(k.list[m], k.prio)

Inherits ==
  /\ \A m, n \in DOMAIN mutex : m = n
  /\ \A m \in DOMAIN mutex : Alive(m) => PriorityOK(m)

\* A step that changes no priority and no owner, and adds no waiting thread.
Unnoticed(m) ==
  /\ mutex'[m].alive => mutex[m].alive
  /\ mutex'[m].owner = mutex[m].owner
  /\ mutex'[m].original_priority = mutex[m].original_priority
  /\ \A t \in Thread : LinkedIn(k', t, m) => LinkedIn(k, t, m)
  /\ Ordered(k.list[m], k.prio) => Ordered(k'.list[m], k.prio)

\* Such a step keeps the invariant.
LEMMA UnnoticedInherits ==
  ASSUME IInv, Inherits, DOMAIN mutex' = DOMAIN mutex, k'.prio = k.prio,
         \A t \in Thread : k'.stat[t] = "INIT" => k.stat[t] = "INIT",
         \A m \in DOMAIN mutex : Unnoticed(m)
  PROVE  Inherits'
  <1>1. ASSUME NEW m \in DOMAIN mutex, mutex'[m].alive PROVE PriorityOK(m)'
    <2>1. /\ PriorityOK(m) /\ Unnoticed(m)
          /\ mutex[m].owner \in Thread \cup {NoThread}
      BY Zenon, <1>1 DEF Inherits, Unnoticed, Alive, IInv, MutexOK, Record
    <2>2. mutex'[m].owner = mutex[m].owner
          /\ mutex'[m].original_priority = mutex[m].original_priority
      BY Zenon, <2>1 DEF Unnoticed
    <2>3. \A t \in Thread : LinkedIn(k', t, m) => k'.prio[mutex'[m].owner] <= k'.prio[t]
      BY Zenon, <2>1, <2>2 DEF PriorityOK, Unnoticed
    <2>4. Flag[m] = "PRIO" => Ordered(k'.list[m], k'.prio)
      BY Zenon, <2>1 DEF PriorityOK, Unnoticed
    <2>. QED BY Zenon, <2>1, <2>2, <2>3, <2>4 DEF PriorityOK
  <1>. QED BY Zenon, <1>1 DEF Inherits, Alive

\* A step that changes neither a mutex nor a list.
LEMMA QuietInherits ==
  ASSUME IInv, Inherits, mutex' = mutex, k'.prio = k.prio,
         \A t \in Thread : k'.stat[t] = "INIT" => k.stat[t] = "INIT",
         \A l \in List : k'.list[l] = k.list[l]
  PROVE  Inherits'
  <1>1. ASSUME NEW m \in DOMAIN mutex PROVE Unnoticed(m)
    <2>1. k'.list[m] = k.list[m]
      BY Zenon, MutexAssumption DEF IInv, Types
    <2>. QED BY Zenon, <2>1 DEF Unnoticed, LinkedIn
  <1>. QED BY Zenon, <1>1, UnnoticedInherits

\* A step that stores an error and changes at most hold.
LEMMA ErrorInherits ==
  ASSUME IInv, Inherits, NEW t \in Thread, NEW e \in Error,
         k' = k \/ k' = SetError(k, t, e), DOMAIN mutex' = DOMAIN mutex,
         \A m \in DOMAIN mutex : /\ mutex'[m].alive => mutex[m].alive
                                 /\ mutex'[m].owner = mutex[m].owner
                                 /\ mutex'[m].original_priority = mutex[m].original_priority
  PROVE  Inherits'
  <1>1. k'.prio = k.prio /\ k'.stat = k.stat /\ k'.list = k.list
    <2>1. Sound(k)
      BY DEF IInv, KernelOK
    <2>2. LET r == SetError(k, t, e)
          IN  /\ Sound(r) /\ r.prio = k.prio /\ r.list = k.list
              /\ r.stat = k.stat /\ r.cur = k.cur /\ r.lock = k.lock
              /\ r.error = [k.error EXCEPT ![t] = e]
              /\ \A u \in Thread : Same(k, r, u)
      BY Zenon, <2>1, ErrorSound
    <2>. QED BY Zenon, <2>2
  <1>2. \A m \in DOMAIN mutex : Unnoticed(m)
    BY Zenon, <1>1 DEF Unnoticed, LinkedIn
  <1>. QED BY Zenon, <1>1, <1>2, UnnoticedInherits

\* Only one mutex is concerned.
LEMMA OneInherits ==
  ASSUME IInv, Inherits, NEW m \in DOMAIN mutex, DOMAIN mutex' = DOMAIN mutex, PriorityOK(m)'
  PROVE  Inherits'
  BY Zenon DEF Inherits

\* rt_mutex_take of the free mutex: its owner has its own priority.
LEMMA TakeFreeInherits ==
  ASSUME IInv, Inherits, NEW t \in Thread, NEW m \in DOMAIN mutex, Call(t, "take"),
         Alive(m), TakeFree(t, m)
  PROVE  Inherits'
  <1>1. At(t, "user") /\ k' = SetError(k, t, "EOK") /\ "EOK" \in Error
    BY Zenon DEF Call, TakeFree, Error
  <1>2. /\ PriorityOK(m) /\ t # NoThread /\ m \in List
        /\ mutex[m].owner = NoThread /\ \A u \in Thread : ~ LinkedIn(k, u, m)
    BY MutexAssumption DEF Inherits, IInv, Types, MutexOK, TakeFree, Record
  <1>3. /\ DOMAIN mutex' = DOMAIN mutex /\ mutex'[m].owner = t
        /\ mutex'[m].original_priority = k.prio[t]
    BY SMTT(30) DEF TakeFree
  <1>4. k'.prio = k.prio /\ k'.stat = k.stat /\ k'.list = k.list
    <2>1. Sound(k)
      BY DEF IInv, KernelOK
    <2>2. LET r == SetError(k, t, "EOK")
          IN  /\ Sound(r) /\ r.prio = k.prio /\ r.list = k.list
              /\ r.stat = k.stat /\ r.cur = k.cur /\ r.lock = k.lock
              /\ r.error = [k.error EXCEPT ![t] = "EOK"]
              /\ \A u \in Thread : Same(k, r, u)
      BY Zenon, <1>1, <2>1, ErrorSound
    <2>. QED BY Zenon, <1>1, <2>2
  <1>5. k.stat[t] = "RUNNING" /\ \A u \in Thread : k.prio[u] = InitPriority[u]
    BY Zenon, <1>1, <1>2, AtRuns, MutexAssumption DEF PriorityOK
  <1>6. PriorityOK(m)'
    BY Zenon, <1>2, <1>3, <1>4, <1>5 DEF PriorityOK, LinkedIn
  <1>. QED BY Zenon, <1>3, <1>6, OneInherits

\* The last release when nobody waits: the priority is restored.
LEMMA SetFreeInherits ==
  ASSUME IInv, Inherits, NEW t \in Thread, NEW m \in DOMAIN mutex, Call(t, "release"),
         Alive(m), mutex[m].owner = t, SetFree(t, m)
  PROVE  Inherits'
  <1>1. At(t, "user") /\ k' = Restore(m) /\ k.list[m] = <<>> /\ m \in List
    BY Zenon, MutexAssumption DEF Call, SetFree, IInv, Types
  <1>2. /\ PriorityOK(m) /\ t # NoThread /\ mutex[m].original_priority = InitPriority[t]
    BY Zenon, MutexAssumption DEF Inherits, PriorityOK
  <1>3. DOMAIN mutex' = DOMAIN mutex /\ mutex'[m].owner = NoThread
    BY Zenon DEF SetFree, FreeMutex
  <1>4. /\ Reranked(k, k') /\ k'.prio[t] = mutex[m].original_priority
        /\ \A u \in Thread \ {t} : k'.prio[u] = k.prio[u]
    BY Zenon, <1>1, RestoreSound
  <1>5. \A u \in Thread : k'.prio[u] = InitPriority[u]
    BY Zenon, <1>2, <1>4 DEF PriorityOK
  <1>6. k'.list[m] = <<>>
    BY Zenon, <1>1, <1>4 DEF Reranked
  <1>7. PriorityOK(m)'
    BY SMTT(30), <1>3, <1>5, <1>6 DEF PriorityOK, LinkedIn, Has, Ordered
  <1>. QED BY Zenon, <1>3, <1>7, OneInherits

\* rt_mutex_take that waits: the owner inherits the priority of the thread.
LEMMA TakeWaitInherits ==
  ASSUME IInv, Inherits, NEW t \in Thread, NEW m \in DOMAIN mutex, NEW time \in Timeout,
         Call(t, "take"), Alive(m), TakeWait(t, m, time)
  PROVE  Inherits'
  <1>0. At(t, "user") /\ t # Idle /\ mutex' = mutex /\ time \in Int
    BY IpcAssumption DEF Call, TakeWait, Timeout, RT_WAITING_FOREVER
  <1>1. CASE time = 0
    <2>1. k' = SetError(k, t, "ETIMEOUT") /\ "ETIMEOUT" \in Error
      BY Zenon, <1>1 DEF TakeWait, Error
    <2>. QED BY Zenon, <1>0, <2>1, ErrorInherits
  <1>2. CASE time # 0
    <2> DEFINE o == mutex[m].owner
    <2>1. k' = Wait(Inherit(SetError(k, t, "EOK"), t, m), m, t, time)
      BY Zenon, <1>2 DEF TakeWait
    <2>2. PriorityOK(m) /\ m \in List /\ MutexOK(m)
      BY Zenon, MutexAssumption DEF Inherits, IInv, Types
    <2>3. o \in Thread /\ o # t /\ o # NoThread
      BY <2>2, MutexAssumption DEF TakeWait, MutexOK, Record
    <2>13. /\ KernelOK(k') /\ Boosted(t, m)
           /\ \A u \in Thread \ {t} : Same(k, k', u) /\ k'.error[u] = k.error[u]
      BY Zenon, <1>0, <2>1, <2>3, WaitStep
    <2>4. /\ \A u \in Thread \ {t} : Same(k, k', u)
          /\ \A u \in Thread \ {o} : k'.prio[u] = k.prio[u]
          /\ k'.prio[o] <= k.prio[o] /\ k'.prio[o] <= k.prio[t]
          /\ Flag[m] = "PRIO" /\ Ordered(k.list[m], k.prio) => Ordered(k'.list[m], k'.prio)
          /\ KernelOK(k')
      BY Zenon, <2>13 DEF Boosted
    <2>5. /\ k.prio \in [Thread -> Int] /\ k'.prio \in [Thread -> Int]
      <3>1. Priority \subseteq Int /\ k \in KernelState /\ k' \in KernelState
        BY Zenon, <2>4, OKTyped DEF IInv
      <3>2. k.prio \in [Thread -> Priority] /\ k'.prio \in [Thread -> Priority]
        BY Zenon, <3>1 DEF KernelState
      <3>. QED BY Zenon, <3>1, <3>2
    <2> HIDE DEF o
    <2>6. ASSUME NEW u \in Thread, LinkedIn(k', u, m) PROVE k'.prio[o] <= k'.prio[u]
      <3>1. CASE u = t
        BY Zenon, <2>3, <2>4, <3>1
      <3>2. CASE u # t
        <4>1. LinkedIn(k, u, m)
          BY Zenon, <2>2, <2>4, <2>6, <3>2 DEF Same
        <4>2. u # o
          BY Zenon, <2>2, <4>1 DEF IInv, ThreadOK, o
        <4>3. k.prio[o] <= k.prio[u] /\ k'.prio[u] = k.prio[u]
          BY Zenon, <2>2, <2>4, <4>1, <4>2 DEF PriorityOK, o
        <4>4. k.prio[o] \in Int /\ k.prio[u] \in Int /\ k'.prio[o] \in Int
          BY Zenon, <2>3, <2>5
        <4>. QED BY SMTT(30), <2>4, <4>3, <4>4
      <3>. QED BY Zenon, <3>1, <3>2
    <2>7. k.stat[o] # "INIT" /\ mutex[m].original_priority = InitPriority[o]
      BY Zenon, <2>2, <2>3 DEF PriorityOK, o
    <2>8. k'.stat[o] # "INIT"
      BY SMTT(30), <2>3, <2>4, <2>7 DEF Same
    <2>9. \A u \in Thread : u # o => k'.prio[u] = InitPriority[u]
      BY Zenon, <2>2, <2>4 DEF PriorityOK, o
    <2>10. Flag[m] = "PRIO" => Ordered(k'.list[m], k'.prio)
      BY Zenon, <2>2, <2>4 DEF PriorityOK
    <2>11. mutex'[m] = mutex[m]
      BY Zenon, <1>0
    <2>12. PriorityOK(m)'
      BY ZenonT(60), <2>6, <2>7, <2>8, <2>9, <2>10, <2>11 DEF PriorityOK, o
    <2>. QED BY Zenon, <1>0, <2>12, OneInherits
  <1>. QED BY Zenon, <1>1, <1>2

\* The last release when threads wait: the old owner gets its priority back,
\* and the new one is as urgent as every thread that still waits.
LEMMA HandOverInherits ==
  ASSUME IInv, Inherits, NEW t \in Thread, NEW m \in DOMAIN mutex, Call(t, "release"),
         Alive(m), mutex[m].owner = t, HandOver(t, m)
  PROVE  Inherits'
  <1>0. PICK u : u = Head(Restore(m).list[m])
    OBVIOUS
  <1>1. /\ At(t, "user") /\ k.list[m] # <<>>
        /\ k' = rt_ipc_list_resume(PassPriority(Restore(m), m, u), m)
    BY <1>0 DEF Call, HandOver
  <1>2. /\ DOMAIN mutex' = DOMAIN mutex /\ mutex'[m].owner = u
        /\ mutex'[m].original_priority = Restore(m).prio[u]
    <2> DEFINE o == Restore(m).prio[u]
    <2>1. /\ DOMAIN mutex' = DOMAIN mutex
          /\ mutex'[m] = [mutex[m] EXCEPT !.owner = u, !.original_priority = o]
      BY Zenon, <1>0 DEF HandOver
    <2> HIDE DEF o
    <2>2. mutex[m] \in Record
      BY DEF IInv, MutexOK
    <2>3. mutex'[m].owner = u /\ mutex'[m].original_priority = o
      BY Zenon, <2>1, <2>2 DEF Record
    <2>. QED BY Zenon, <2>1, <2>3 DEF o
  <1>3. /\ u \in Thread /\ LinkedIn(k, u, m) /\ KernelOK(k') /\ Reprioritised(t, m, u)
        /\ \A w \in Thread \ {u} : Same(k, k', w)
        /\ \A l \in List : ~ LinkedIn(k', u, l)
    BY Zenon, <1>0, <1>1, HandOverStep
  <1>4. PriorityOK(m) /\ m \in List /\ KernelOK(k) /\ t # NoThread
    BY SMTT(30), MutexAssumption DEF Inherits, IInv, Types
  <1>5. /\ k \in KernelState /\ k' \in KernelState /\ Priority \subseteq Int
    BY Zenon, <1>3, <1>4, OKTyped
  <1>6. /\ k.prio \in [Thread -> Priority] /\ k'.prio \in [Thread -> Priority]
        /\ k.list[m] \in Seq(Thread)
    BY Zenon, <1>4, <1>5 DEF KernelState
  <1>7. /\ k'.list[m] = rt_list_remove(k.list[m], u) /\ u # t
        /\ Restore(m).prio[u] = k.prio[u] /\ k'.prio[t] = mutex[m].original_priority
        /\ \A w \in Thread \ {t, u} : k'.prio[w] = k.prio[w]
        /\ \A w \in Thread : Flag[m] = "FIFO" /\ LinkedIn(k, w, m) => k'.prio[u] <= k.prio[w]
        /\ Flag[m] # "FIFO" => k'.prio[u] = k.prio[u]
    BY Zenon, <1>3 DEF Reprioritised
  <1>8. \A w \in Thread : w # u => k'.prio[w] = InitPriority[w]
    <2>1. mutex[m].original_priority = InitPriority[t]
      BY Zenon, <1>4 DEF PriorityOK
    <2>2. \A w \in Thread : w # t => k.prio[w] = InitPriority[w]
      BY Zenon, <1>4 DEF PriorityOK
    <2>. QED BY Zenon, <1>7, <2>1, <2>2
  <1>9. mutex'[m].original_priority = InitPriority[u]
    BY Zenon, <1>2, <1>3, <1>4, <1>7 DEF PriorityOK
  <1>10. k'.stat[u] # "INIT"
    BY Zenon, <1>3 DEF Reprioritised
  <1>11. ASSUME NEW w \in Thread, LinkedIn(k', w, m) PROVE k'.prio[u] <= k'.prio[w]
    <2>1. w # u
      BY Zenon, <1>3, <1>4, <1>11
    <2>2. LinkedIn(k, w, m) /\ w # t
      <3>1. LinkedIn(k, w, m)
        BY Zenon, <1>3, <1>4, <1>11, <2>1 DEF Same
      <3>. QED BY SMTT(30), <1>1, <1>4, <3>1, AtRuns
    <2>3. k'.prio[w] = k.prio[w]
      BY Zenon, <1>7, <2>1, <2>2
    <2>4. CASE Flag[m] = "FIFO"
      BY Zenon, <1>7, <2>2, <2>3, <2>4
    <2>5. CASE Flag[m] = "PRIO"
      <3>1. Ordered(k.list[m], k.prio) /\ k'.prio[u] = k.prio[u]
        BY Zenon, <1>4, <1>7, <2>5 DEF PriorityOK
      <3>2. u = k.list[m][1]
        <4>1. u = Head(k.list[m])
          BY Zenon, <1>3 DEF Reprioritised
        <4>. QED BY <1>1, <1>6, <4>1
      <3>3. PICK i \in 1 .. Len(k.list[m]) : k.list[m][i] = w
        BY Zenon, <2>2 DEF LinkedIn, Has
      <3>4. Len(k.list[m]) \in Nat /\ i # 1
        BY <1>6, <2>1, <3>2, <3>3
      <3>5. 1 \in 1 .. Len(k.list[m]) /\ 1 < i
        BY SMTT(30), <3>3, <3>4
      <3>. QED BY Zenon, <2>3, <3>1, <3>2, <3>3, <3>5 DEF Ordered
    <2>. QED BY Zenon, <1>4, <2>4, <2>5, IpcAssumption
  <1>12. ASSUME Flag[m] = "PRIO" PROVE Ordered(k'.list[m], k'.prio)
    <2>1. Ordered(k'.list[m], k.prio)
      BY ZenonT(60), <1>3, <1>4, <1>5, <1>6, <1>7, <1>12, RemoveOrdered DEF PriorityOK
    <2>2. \A i \in 1 .. Len(k'.list[m]) : k'.list[m][i] \in Thread \ {t}
      <3>1. k'.list[m] \in Seq(Thread) /\ ~ LinkedIn(k', t, m)
        BY ZenonT(60), <1>1, <1>3, <1>4, <1>5, <1>7, AtRuns DEF Same, KernelState
      <3>. QED BY SMTT(30), <3>1 DEF LinkedIn, Has
    <2>3. \A w \in Thread \ {t} : k'.prio[w] = k.prio[w]
      BY SMTT(30), <1>7, <1>12
    <2>. QED BY Zenon, <2>1, <2>2, <2>3 DEF Ordered
  <1>13. PriorityOK(m)'
    BY Zenon, <1>2, <1>8, <1>9, <1>10, <1>11, <1>12 DEF PriorityOK
  <1>. QED BY <1>2, <1>13, OneInherits

\* rt_mutex_take, rt_mutex_release and rt_mutex_delete
LEMMA CallInherits ==
  ASSUME IInv, Inherits, NEW t \in Thread, NEW m \in DOMAIN mutex, NEW time \in Timeout,
         rt_mutex_take(t, m, time) \/ rt_mutex_release(t, m) \/ Delete(t, m)
  PROVE  Inherits'
  <1>0. /\ mutex[m] \in Record /\ "EOK" \in Error /\ "ERROR" \in Error
    BY DEF IInv, MutexOK, Error
  <1>1. ASSUME NEW h, mutex' = [mutex EXCEPT ![m].hold = h], k' = k \/ k' = SetError(k, t, "EOK")
        PROVE  Inherits'
    <2>1. /\ DOMAIN mutex' = DOMAIN mutex /\ mutex'[m] = [mutex[m] EXCEPT !.hold = h]
          /\ \A n \in DOMAIN mutex \ {m} : mutex'[n] = mutex[n]
      BY <1>1
    <2>2. /\ mutex'[m].owner = mutex[m].owner /\ mutex'[m].alive = mutex[m].alive
          /\ mutex'[m].original_priority = mutex[m].original_priority
      BY Zenon, <1>0, <2>1 DEF Record
    <2>. QED BY <1>0, <1>1, <2>1, <2>2, ErrorInherits
  <1>2. CASE rt_mutex_take(t, m, time)
    <2>1. Call(t, "take") /\ Alive(m)
      BY <1>2 DEF rt_mutex_take
    <2>2. CASE TakeAgain(t, m)
      BY Zenon, <1>1, <2>2 DEF TakeAgain
    <2>3. CASE TakeFree(t, m)
      BY Zenon, <2>1, <2>3, TakeFreeInherits
    <2>4. CASE TakeWait(t, m, time)
      BY Zenon, <2>1, <2>4, TakeWaitInherits
    <2>. QED BY SMTT(30), <1>2, <2>2, <2>3, <2>4 DEF rt_mutex_take
  <1>3. CASE rt_mutex_release(t, m)
    <2>1. Call(t, "release") /\ Alive(m)
      BY Zenon, <1>3 DEF rt_mutex_release
    <2>2. CASE mutex[m].owner # t
      <3>1. k' = SetError(k, t, "ERROR") /\ mutex' = mutex
        BY Zenon, <1>3, <2>2 DEF rt_mutex_release, NotOwner
      <3>. QED BY Zenon, <1>0, <3>1, ErrorInherits
    <2>3. CASE mutex[m].owner = t /\ HandOver(t, m)
      BY Zenon, <2>1, <2>3, HandOverInherits
    <2>4. CASE mutex[m].owner = t /\ SetFree(t, m)
      BY <2>1, <2>4, SetFreeInherits
    <2>5. CASE mutex[m].owner = t /\ ReleaseOne(t, m)
      BY Zenon, <1>1, <2>5 DEF ReleaseOne
    <2>. QED BY Zenon, <1>3, <2>2, <2>3, <2>4, <2>5 DEF rt_mutex_release
  <1>4. CASE Delete(t, m)
    <2>1. /\ k' = k /\ DOMAIN mutex' = DOMAIN mutex
          /\ mutex'[m] = [mutex[m] EXCEPT !.alive = FALSE]
          /\ \A n \in DOMAIN mutex \ {m} : mutex'[n] = mutex[n]
      BY <1>4 DEF Delete
    <2>2. /\ mutex'[m].owner = mutex[m].owner /\ mutex'[m].alive = FALSE
          /\ mutex'[m].original_priority = mutex[m].original_priority
      BY Zenon, <1>0, <2>1 DEF Record
    <2>. QED BY Zenon, <1>0, <2>1, <2>2, ErrorInherits
  <1>. QED BY Zenon, <1>2, <1>3, <1>4

\* rt_schedule changes no priority and no list of waiting threads.
LEMMA ScheduleInherits ==
  ASSUME IInv, Inherits, mutex' = mutex, k' = rt_schedule(k)
  PROVE  Inherits'
  <1>1. Sound(k)
    BY Zenon DEF IInv, KernelOK
  <1>2. Rescheduled(k, k')
    BY Zenon, <1>1, ScheduleSound
  <1>. QED BY Zenon, <1>2, QuietInherits DEF Rescheduled

\* The steps inside a call, and rt_thread_sleep
LEMMA InsideInherits ==
  ASSUME IInv, Inherits, NEW t \in Thread,
         Inside(t) \/ \E n \in 1 .. MaxSleep : Sleep(t, n) /\ UNCHANGED own
  PROVE  Inherits'
  <1>0. mutex' = mutex /\ Sound(k)
    BY Zenon DEF Inside, own, IInv, KernelOK
  <1>1. CASE k' = k
    BY Zenon, <1>0, <1>1, QuietInherits
  <1>2. CASE WaitSchedule(t) \/ Schedule(t) \/ SleepSchedule(t)
    <2>1. k' = rt_schedule(k)
      BY Zenon, <1>2 DEF WaitSchedule, Schedule, SleepSchedule, ScheduleStep
    <2>. QED BY Zenon, <1>0, <2>1, ScheduleInherits
  <1>3. CASE Slept(t)
    <2>1. PICK e : e = IF k.error[t] = "ETIMEOUT" THEN "EOK" ELSE k.error[t]
      OBVIOUS
    <2>2. k' = SetError(k, t, e)
      BY Zenon, <1>3, <2>1 DEF Slept, SetError
    <2>3. e \in Error
      BY Zenon, <2>1, <1>0 DEF Sound, SoundBut, WellFormed, KernelState, Error
    <2>. QED BY Zenon, <1>0, <2>2, <2>3, ErrorInherits
  <1>4. CASE ResumeAllOne(t, want[t])
    <2>1. Deleting(t) /\ want[t] \in DOMAIN mutex
      BY Zenon, <1>4 DEF ResumeAllOne, At, Deleting, IInv, Types
    <2>2. ~ Alive(want[t])
      BY Zenon, <2>1 DEF IInv, ThreadOK
    <2>. QED BY Zenon, <1>0, <2>1, <2>2 DEF Inherits, Alive
  <1>5. ASSUME NEW n \in 1 .. MaxSleep, Sleep(t, n) PROVE Inherits'
    <2> DEFINE a == rt_thread_suspend(k, t)
    <2>1. At(t, "user") /\ k' = rt_timer_start(a, t, n) /\ n \in Int
      BY SMTT(30), <1>5 DEF Sleep
    <2>2. \A l \in List : ~ LinkedIn(k, t, l)
      BY SMTT(30), <2>1, AtRuns
    <2>3. /\ Sound(a) /\ Loose(a, t) /\ a.stat[t] = "SUSPEND"
          /\ Kept(k, a) /\ \A u \in Thread \ {t} : Same(k, a, u)
          /\ \A l \in List : ~ LinkedIn(k, t, l) => a.list[l] = k.list[l]
      BY Zenon, <1>0, SuspendSound
    <2> HIDE DEF a
    <2>4. SameButTimers(a, k')
      BY Zenon, <2>1, <2>3, TimerStartSound DEF Sound
    <2>5. k'.prio = k.prio /\ \A l \in List : k'.list[l] = k.list[l]
      BY Zenon, <2>2, <2>3, <2>4 DEF SameButTimers, Kept
    <2>6. \A u \in Thread : k'.stat[u] = "INIT" => k.stat[u] = "INIT"
      BY Zenon, <2>3, <2>4 DEF SameButTimers, Same
    <2>. QED BY Zenon, <1>0, <2>5, <2>6, QuietInherits
  <1>6. CASE Return(t) \/ ResumeAllTest(t, want[t])
    BY Zenon, <1>1, <1>6 DEF Return, ResumeAllTest
  <1>. QED BY Zenon, <1>2, <1>3, <1>4, <1>5, <1>6 DEF Inside

\* rt_thread_startup gives a thread its own priority, and it owns nothing yet.
LEMMA StartInherits ==
  ASSUME IInv, Inherits, NEW t \in Thread, NEW u \in Thread, Start(t, u), UNCHANGED own
  PROVE  Inherits'
  <1>1. k.stat[u] = "INIT" /\ k' = rt_thread_startup(k, u) /\ mutex' = mutex /\ Sound(k)
    BY DEF Start, own, IInv, KernelOK
  <1>2. LET r == rt_thread_startup(k, u)
        IN  /\ r.stat[u] \in {"READY", "RUNNING"}
            /\ \A l \in List : r.list[l] = k.list[l]
            /\ \A w \in Thread \ {u} : Same(k, r, w)
            /\ r.prio = [k.prio EXCEPT ![u] = InitPriority[u]]
    BY <1>1, StartSound, Zenon
  <1>3. CASE \E m \in DOMAIN mutex : Alive(m)
    <2>1. PICK m \in DOMAIN mutex : Alive(m)
      BY Zenon, <1>3
    <2>2. k.prio[u] = InitPriority[u]
      BY Zenon, <1>1, <2>1, MutexAssumption DEF Inherits, PriorityOK
    <2>3. k.prio \in [Thread -> Priority]
      BY Zenon, <1>1 DEF Sound, SoundBut, WellFormed, KernelState
    <2>4. k'.prio = k.prio /\ \A l \in List : k'.list[l] = k.list[l]
      BY Zenon, <1>1, <1>2, <2>2, <2>3
    <2>5. \A w \in Thread : k'.stat[w] = "INIT" => k.stat[w] = "INIT"
      BY Zenon, <1>1, <1>2 DEF Same
    <2>. QED BY Zenon, <1>1, <2>4, <2>5, QuietInherits
  <1>4. CASE \A m \in DOMAIN mutex : ~ Alive(m)
    BY Zenon, <1>1, <1>4 DEF Inherits, Alive
  <1>. QED BY Zenon, <1>3, <1>4

\* The tick interrupt changes no priority; a timeout takes a thread off a list.
LEMMA TickInherits ==
  ASSUME IInv, Inherits, Tick, UNCHANGED own
  PROVE  Inherits'
  <1>0. mutex' = mutex /\ Sound(k) /\ k \in KernelState
    BY Zenon DEF own, IInv, KernelOK, Sound, SoundBut, WellFormed
  <1>1. CASE TickEnter
    <2>1. /\ k'.prio = k.prio /\ \A u \in Thread : Same(k, k', u)
          /\ \A l \in List : k'.list[l] = k.list[l]
      BY Zenon, <1>0, <1>1, TickSound DEF TickEnter
    <2>2. \A u \in Thread : k'.stat[u] = "INIT" => k.stat[u] = "INIT"
      BY Zenon, <2>1 DEF Same
    <2>. QED BY Zenon, <1>0, <2>1, <2>2, QuietInherits
  <1>2. CASE TimerExpire
    <2>1. PICK h : h = Head(k.tmr)
      BY Zenon
    <2>2. k.tmr # <<>> /\ k.tmr \in Seq(Thread) /\ k' = rt_thread_timeout(k, h)
      BY Zenon, <1>0, <1>2, <2>1 DEF TimerExpire, TimerDue, KernelState
    <2>3. h \in Thread /\ Has(k.tmr, h)
      BY <2>1, <2>2, EmptyHasNone
    <2>4. LET r == rt_thread_timeout(k, h)
          IN  /\ r.stat[h] \in {"READY", "RUNNING"} /\ r.prio = k.prio
              /\ \A l \in List : ~ LinkedIn(r, h, l)
              /\ \A u \in Thread \ {h} : Same(k, r, u)
              /\ \A l \in List : r.list[l] = rt_list_remove(k.list[l], h)
      BY <1>0, <2>3, TimeoutSound, Zenon
    <2>5. /\ k'.stat[h] \in {"READY", "RUNNING"} /\ k'.prio = k.prio
          /\ \A l \in List : ~ LinkedIn(k', h, l)
          /\ \A u \in Thread \ {h} : Same(k, k', u)
          /\ \A l \in List : k'.list[l] = rt_list_remove(k.list[l], h)
      BY Zenon, <2>2, <2>4
    <2>6. \A u \in Thread : k'.stat[u] = "INIT" => k.stat[u] = "INIT"
      BY Zenon, <2>5 DEF Same
    <2>7. ASSUME NEW m \in DOMAIN mutex PROVE Unnoticed(m)
      <3>1. m \in List
        BY Zenon, MutexAssumption DEF IInv, Types
      <3>2. \A u \in Thread : LinkedIn(k', u, m) => LinkedIn(k, u, m)
        BY <2>5, <3>1 DEF Same
      <3>3. Priority \subseteq Int
        BY DEF Priority
      <3>4. k.list[m] \in Seq(Thread) /\ k.prio \in [Thread -> Int]
        BY Zenon, <1>0, <3>1, <3>3 DEF KernelState
      <3>5. Ordered(k.list[m], k.prio) => Ordered(k'.list[m], k.prio)
        BY SMTT(30), <2>3, <2>5, <3>1, <3>4, RemoveOrdered
      <3>. QED BY Zenon, <1>0, <3>2, <3>5 DEF Unnoticed
    <2>. QED BY Zenon, <1>0, <2>5, <2>6, <2>7, UnnoticedInherits
  <1>3. CASE TickLeave
    BY Zenon, <1>0, <1>3, QuietInherits DEF TickLeave
  <1>. QED BY Zenon, <1>1, <1>2, <1>3 DEF Tick

\* Every step keeps what the invariant says of the priorities.
LEMMA NextInherits ==
  ASSUME IInv, Inherits, [Next]_vars
  PROVE  Inherits'
  <1>1. ASSUME NEW t \in Thread, Step(t) PROVE Inherits'
    <2>1. 0 \in Timeout
      BY IpcAssumption DEF Timeout
    <2>2. ASSUME NEW m \in DOMAIN mutex, rt_mutex_release(t, m) \/ Delete(t, m)
          PROVE  Inherits'
      BY Zenon, <2>1, <2>2, CallInherits
    <2>3. ASSUME NEW m \in DOMAIN mutex, NEW time \in Timeout, rt_mutex_take(t, m, time)
          PROVE  Inherits'
      BY Zenon, <2>3, CallInherits
    <2>. QED BY Zenon, <1>1, <2>2, <2>3, InsideInherits DEF Step
  <1>2. ASSUME NEW u \in Thread, Start(Main, u), UNCHANGED own PROVE Inherits'
    BY Zenon, <1>2, StartInherits, BootAssumption
  <1>3. CASE UNCHANGED vars
    BY Zenon, <1>3, QuietInherits DEF vars
  <1>. QED BY Zenon, <1>1, <1>2, <1>3, TickInherits DEF Next

\* The invariant holds when one mutex has been created.
LEMMA InitInherits ==
  ASSUME OneMutex, Init
  PROVE  Inherits
  <1>1. PICK c \in Created : mutex = [m \in c |-> FreeMutex]
    BY DEF Init
  <1>2. c \subseteq Mutexes /\ DOMAIN mutex = c
    BY <1>1, MutexAssumption
  <1>3. Sound(k) /\ k.prio = InitPriority /\ \A t \in Thread : \A l \in List : ~ LinkedIn(k, t, l)
    BY Zenon, BootSound DEF Init, Boot
  <1>4. ASSUME NEW m \in DOMAIN mutex PROVE PriorityOK(m)
    <2>1. m \in List /\ mutex[m].owner = NoThread
      BY Zenon, <1>1, <1>2, MutexAssumption DEF FreeMutex
    <2>2. k.list[m] \in Seq(Thread)
      BY SMTT(30), <1>3, <2>1 DEF Sound, SoundBut, WellFormed, KernelState
    <2>3. k.list[m] = <<>>
      BY SMTT(30), <1>3, <2>1, <2>2, EmptyHasNone DEF LinkedIn
    <2>. QED BY <1>3, <2>1, <2>3 DEF PriorityOK, Ordered
  <1>. QED BY Zenon, <1>2, <1>4 DEF Inherits, OneMutex

\* What is proved of the priorities holds in every state.
LEMMA InheritsAlways ==
  ASSUME OneMutex
  PROVE  Spec => [](IInv /\ Inherits)
  <1>1. Init => IInv /\ Inherits
    BY Zenon, InitInv, InitInherits
  <1>2. IInv /\ Inherits /\ [Next]_vars => (IInv /\ Inherits)'
    BY NextInv, NextInherits
  <1>. QED BY <1>1, <1>2, PTL DEF Spec

\* For any number of threads and of priorities, FIFO or PRIO, the owner of the
\* mutex an application uses is as urgent as every thread that waits for it,
\* whatever takes, handovers and timeouts come in between: the inheritance of
\* rt_mutex_take and the new priority rt_mutex_release gives to the next owner
\* leave no inversion.
THEOREM MutexOwnerInherits ==
  ASSUME OneMutex
  PROVE  Spec => []OwnerInherits
  <1>1. IInv /\ Inherits => OwnerInherits
    BY Zenon DEF Inherits, PriorityOK, OwnerInherits, Waits, Linked, LinkedIn
  <1>. QED BY <1>1, InheritsAlways, PTL

\* For any number of threads and of priorities a thread that does not own the
\* mutex an application uses runs at its own priority: rt_mutex_release gives
\* back what rt_mutex_take and the handover changed.
THEOREM MutexPriorityRestored ==
  ASSUME OneMutex
  PROVE  Spec => []PriorityRestored
  <1>1. IInv /\ Inherits => PriorityRestored
    <2>1. SUFFICES ASSUME IInv, Inherits, NEW t \in Thread,
                          \A m \in DOMAIN mutex : Alive(m) /\ mutex[m].owner # t
                   PROVE  k.prio[t] = InitPriority[t]
      BY DEF PriorityRestored
    <2>2. want[t] \in DOMAIN mutex
      BY <2>1 DEF IInv, Types
    <2>. QED BY Zenon, <2>1, <2>2 DEF Inherits, PriorityOK
  <1>. QED BY <1>1, InheritsAlways, PTL

=============================================================================
