-------------------------- MODULE SemaphoreProofs --------------------------
(***************************************************************************)
(* The semaphore is safe for every number of threads, of priorities and of *)
(* tokens, and implements CountingSemaphore.                               *)
(***************************************************************************)
EXTENDS Semaphore, KernelProofs

\* What the kernel data say of the threads that wait: they are the suspended
\* ones, and nothing has been stored in the error of a thread that waits.  The
\* idle thread never waits.
Waits(s) ==
  /\ Sound(s) /\ s.lock = 0
  /\ \A t \in Thread : s.stat[t] # "CLOSE"
  /\ \A t \in Thread : s.stat[t] = "SUSPEND" <=> LinkedIn(s, t, Sem)
  /\ \A t \in Thread : LinkedIn(s, t, Sem) => s.error[t] = "EOK"
  /\ s.stat[Idle] # "SUSPEND" /\ s.stat[Idle] # "INIT"
  /\ Flag[Sem] = "PRIO" => Ordered(s.list[Sem], s.prio)

\* The current thread has been given the processor, or has suspended itself
\* and is about to call rt_schedule.
CurrentRuns == k.stat[k.cur] = "RUNNING" \/ pc[k.cur] = "wait"

\* A thread is in the list of the semaphore only inside rt_sem_take.
WaitersInTake ==
  \A t \in Thread : LinkedIn(k, t, Sem) => pc[t] \in {"wait", "woken"}

\* The inductive invariant.
IInv ==
  /\ TypeOK /\ Waits(k) /\ WaitersInTake /\ CurrentRuns
  /\ NoTokenHeldBack /\ NoneWaitsOnDeleted

-----------------------------------------------------------------------------
\* A change of the kernel data that no waiting thread notices.
LEMMA QuietWaits ==
  ASSUME NEW s, NEW r, Waits(s), Sound(r), \A u \in Thread : Same(s, r, u),
         r.error = s.error, r.lock = s.lock, r.prio = s.prio,
         r.list[Sem] = s.list[Sem]
  PROVE  /\ Waits(r)
         /\ \A u \in Thread : LinkedIn(r, u, Sem) <=> LinkedIn(s, u, Sem)
  BY SemaphoreAssumption, BootAssumption DEF Waits, Same, LinkedIn

\* One thread is taken off the list of the semaphore and made ready.
LEMMA WokenWaits ==
  ASSUME NEW s, NEW r, Waits(s), Sound(r), NEW h \in Thread,
         r.stat[h] \in {"READY", "RUNNING"},
         \A l \in List : ~ LinkedIn(r, h, l),
         \A u \in Thread \ {h} : Same(s, r, u) /\ r.error[u] = s.error[u],
         r.lock = s.lock, r.prio = s.prio,
         r.list[Sem] = rt_list_remove(s.list[Sem], h)
  PROVE  /\ Waits(r)
         /\ \A u \in Thread : LinkedIn(r, u, Sem) <=> LinkedIn(s, u, Sem) /\ u # h
  <1>1. Sem \in List /\ Idle \in Thread
    BY SemaphoreAssumption, BootAssumption
  <1>2. \A u \in Thread : LinkedIn(r, u, Sem) <=> LinkedIn(s, u, Sem) /\ u # h
    BY <1>1 DEF Same
  <1>3. Flag[Sem] = "PRIO" => Ordered(r.list[Sem], r.prio)
    <2>1. Priority \subseteq Int
      BY PriorityAssumption DEF Priority
    <2>2. s.list[Sem] \in Seq(Thread) /\ s.prio \in [Thread -> Int]
      BY ZenonT(60), <1>1, <2>1 DEF Waits, Sound, SoundBut, WellFormed, KernelState
    <2>. QED BY <2>2, RemoveOrdered DEF Waits
  <1>. QED BY <1>1, <1>2, <1>3 DEF Waits, Same

-----------------------------------------------------------------------------
\* The first waiting thread is resumed: by a release, or with an error by
\* rt_ipc_list_resume_all.
LEMMA ResumeWaits ==
  ASSUME NEW s, Waits(s), s.list[Sem] # <<>>
  PROVE  /\ Head(s.list[Sem]) \in Thread /\ LinkedIn(s, Head(s.list[Sem]), Sem)
         /\ LET h == Head(s.list[Sem])
                r == rt_ipc_list_resume(s, Sem)
            IN  /\ Waits(r) /\ r.cur = s.cur /\ r.error = s.error
                /\ \A u \in Thread : LinkedIn(r, u, Sem) <=> LinkedIn(s, u, Sem) /\ u # h
                /\ s.stat[s.cur] = "RUNNING" => r.stat[r.cur] = "RUNNING"
         /\ LET h == Head(s.list[Sem])
                r == ResumeWithError(s, Sem)
            IN  /\ Waits(r) /\ r.cur = s.cur
                /\ r.error = [s.error EXCEPT ![h] = "ERROR"]
                /\ \A u \in Thread : LinkedIn(r, u, Sem) <=> LinkedIn(s, u, Sem) /\ u # h
                /\ s.stat[s.cur] = "RUNNING" => r.stat[r.cur] = "RUNNING"
  <1> DEFINE h == Head(s.list[Sem])
             e == [s EXCEPT !.error[h] = "ERROR"]
  <1>0. Sem \in List /\ Sound(s) /\ s \in KernelState
    BY SemaphoreAssumption DEF Waits, Sound, SoundBut, WellFormed
  <1>1. s.list[Sem] \in Seq(Thread)
    BY <1>0 DEF KernelState
  <1>2. h \in Thread /\ LinkedIn(s, h, Sem)
    BY <1>1, EmptyHasNone DEF LinkedIn
  <1>3. /\ e \in KernelState
        /\ e.error = [s.error EXCEPT ![h] = "ERROR"] /\ s.error \in [Thread -> Error]
        /\ e.stat = s.stat /\ e.prio = s.prio /\ e.list = s.list /\ e.group = s.group
        /\ e.cur = s.cur /\ e.tmr = s.tmr /\ e.lock = s.lock
    BY Zenon, <1>0 DEF KernelState, Error
  <1>4. rt_ipc_list_resume(s, Sem) = rt_thread_resume(s, h)
    BY DEF rt_ipc_list_resume
  <1>5. ResumeWithError(s, Sem) = rt_thread_resume(e, h)
    BY <1>3 DEF rt_ipc_list_resume, ResumeWithError
  <1> HIDE DEF h, e
  <1>6. Sound(e)
    BY Zenon, <1>0, <1>3, DataSound DEF Sound
  <1>7. s.stat[h] = "SUSPEND" /\ e.stat[h] = "SUSPEND"
    BY <1>2, <1>3 DEF Waits
  <1>8. ASSUME NEW a, Sound(a), a.stat = s.stat, a.prio = s.prio, a.list = s.list,
               a.cur = s.cur, a.tmr = s.tmr, a.lock = s.lock,
               \A u \in Thread \ {h} : a.error[u] = s.error[u]
        PROVE  LET r == rt_thread_resume(a, h)
               IN  /\ Waits(r) /\ r.cur = s.cur /\ r.error = a.error
                   /\ \A u \in Thread :
                        LinkedIn(r, u, Sem) <=> LinkedIn(s, u, Sem) /\ u # h
                   /\ s.stat[s.cur] = "RUNNING" => r.stat[r.cur] = "RUNNING"
    <2> DEFINE r == rt_thread_resume(a, h)
    <2>1. /\ Sound(r) /\ r.stat[h] \in {"READY", "RUNNING"}
          /\ \A l \in List : ~ LinkedIn(r, h, l)
          /\ Kept(a, r) /\ \A u \in Thread \ {h} : Same(a, r, u)
          /\ \A l \in List : r.list[l] = rt_list_remove(a.list[l], h)
      BY <1>2, <1>7, <1>8, ResumeSound
    <2> HIDE DEF r
    <2>2. \A u \in Thread \ {h} : Same(s, r, u) /\ r.error[u] = s.error[u]
      BY <1>8, <2>1 DEF Same, Kept, LinkedIn
    <2>3. /\ r.lock = s.lock /\ r.prio = s.prio /\ r.cur = s.cur /\ r.error = a.error
          /\ r.list[Sem] = rt_list_remove(s.list[Sem], h)
      BY Zenon, <1>0, <1>8, <2>1 DEF Kept
    <2>4. /\ Waits(r)
          /\ \A u \in Thread : LinkedIn(r, u, Sem) <=> LinkedIn(s, u, Sem) /\ u # h
      BY Zenon, <1>2, <2>1, <2>2, <2>3, WokenWaits
    <2>5. ASSUME s.stat[s.cur] = "RUNNING" PROVE r.stat[r.cur] = "RUNNING"
      <3>1. s.cur \in Thread /\ s.cur # h
        BY Zenon, <1>0, <1>7, <2>5 DEF KernelState
      <3>2. r.stat[s.cur] \in {"READY", "RUNNING"} /\ Fits(r, s.cur) /\ r.prio[s.cur] \in Priority
        BY ZenonT(60), <2>1, <2>2, <2>5, <3>1 DEF Same, Sound, SoundBut, WellFormed, KernelState
      <3>. QED BY Zenon, <2>3, <3>2 DEF Fits
    <2>. QED BY Zenon, <2>3, <2>4, <2>5 DEF r
  <1>9. \A u \in Thread \ {h} : e.error[u] = s.error[u]
    BY <1>3
  <1>10. /\ Waits(rt_thread_resume(s, h)) /\ rt_thread_resume(s, h).cur = s.cur
         /\ rt_thread_resume(s, h).error = s.error
         /\ \A u \in Thread : LinkedIn(rt_thread_resume(s, h), u, Sem)
                                <=> LinkedIn(s, u, Sem) /\ u # h
         /\ s.stat[s.cur] = "RUNNING" =>
              rt_thread_resume(s, h).stat[rt_thread_resume(s, h).cur] = "RUNNING"
    BY Zenon, <1>0, <1>8
  <1>11. /\ Waits(rt_thread_resume(e, h)) /\ rt_thread_resume(e, h).cur = s.cur
         /\ rt_thread_resume(e, h).error = e.error
         /\ \A u \in Thread : LinkedIn(rt_thread_resume(e, h), u, Sem)
                                <=> LinkedIn(s, u, Sem) /\ u # h
         /\ s.stat[s.cur] = "RUNNING" =>
              rt_thread_resume(e, h).stat[rt_thread_resume(e, h).cur] = "RUNNING"
    BY Zenon, <1>3, <1>6, <1>8, <1>9
  <1>. QED BY Zenon, <1>2, <1>3, <1>4, <1>5, <1>10, <1>11 DEF h

\* rt_schedule does not change who waits.
LEMMA ScheduleWaits ==
  ASSUME NEW s, Waits(s)
  PROVE  LET r == rt_schedule(s)
         IN  /\ Waits(r) /\ r.error = s.error
             /\ \A u \in Thread : LinkedIn(r, u, Sem) <=> LinkedIn(s, u, Sem)
             /\ r.list[Sem] = s.list[Sem]
             /\ r.stat[r.cur] = "RUNNING"
  <1> DEFINE r == rt_schedule(s)
  <1>1. Sound(s)
    BY DEF Waits
  <1>2. Sound(r) /\ Rescheduled(s, r) /\ \A u \in Thread : Same(s, r, u)
    BY Zenon, <1>1, ScheduleSound, ScheduleSame
  <1>3. r.stat[r.cur] = "RUNNING"
    <2>1. s.stat[Idle] \in Stat /\ Idle \in Thread
      BY <1>1, BootAssumption DEF Sound, SoundBut, WellFormed, KernelState
    <2>2. s.stat[Idle] \in {"READY", "RUNNING"} /\ s.lock = 0
      BY <2>1 DEF Waits, Stat
    <2>. QED BY Zenon, <1>1, <2>2, ScheduleExecutes
  <1> HIDE DEF r
  <1>4. /\ r.error = s.error /\ r.lock = s.lock /\ r.prio = s.prio
        /\ r.list[Sem] = s.list[Sem]
    BY <1>2, SemaphoreAssumption DEF Rescheduled
  <1>5. /\ Waits(r)
        /\ \A u \in Thread : LinkedIn(r, u, Sem) <=> LinkedIn(s, u, Sem)
    BY <1>2, <1>4, QuietWaits
  <1>. QED BY Zenon, <1>3, <1>4, <1>5 DEF r

-----------------------------------------------------------------------------
\* Every step of the semaphore is a step of CountingSemaphore or changes
\* nothing of it.
Refines == [Abstract!Next]_(Abstract!vars)

\* A thread inside rt_sem_take, before or after it has been woken.
Taking(u) == pc[u] \in {"wait", "woken"}

\* The invariant holds after a step that adds no waiting thread.
LEMMA InvStep ==
  ASSUME IInv, TypeOK', Waits(k'), CurrentRuns',
         \A u \in Thread : LinkedIn(k', u, Sem) => LinkedIn(k, u, Sem) /\ Taking(u)',
         value' > 0 => value > 0 \/ k'.list[Sem] = <<>>,
         ~ alive' /\ (\A t \in Thread : pc'[t] \notin {"delete", "delete1"}) =>
           \/ ~ alive /\ \A t \in Thread : pc[t] \notin {"delete", "delete1"}
           \/ k'.list[Sem] = <<>>
  PROVE  IInv'
  <1>1. Sem \in List /\ k \in KernelState /\ k' \in KernelState
    BY SemaphoreAssumption DEF IInv, TypeOK
  <1>2. k.list[Sem] = <<>> => k'.list[Sem] = <<>>
    <2>1. k.list[Sem] \in Seq(Thread) /\ k'.list[Sem] \in Seq(Thread)
      BY Zenon, <1>1 DEF KernelState
    <2>. QED BY Zenon, <2>1, EmptyHasNone DEF LinkedIn
  <1>3. WaitersInTake'
    BY DEF WaitersInTake, Taking
  <1>4. NoTokenHeldBack' /\ NoneWaitsOnDeleted'
    BY <1>2 DEF IInv, NoTokenHeldBack, NoneWaitsOnDeleted
  <1>. QED BY <1>3, <1>4 DEF IInv

\* A step that changes nothing of the counting semaphore.
LEMMA StutterStep ==
  ASSUME value' = value,
         \A u \in Thread : /\ LinkedIn(k', u, Sem) <=> LinkedIn(k, u, Sem)
                           /\ Taking(u)' <=> Taking(u)
                           /\ k'.error[u] = k.error[u]
  PROVE  Refines
  <1>1. Waiting' = Waiting /\ InCall' = InCall
    BY DEF Waiting, InCall, Linked, LinkedIn, Taking
  <1>2. /\ {t \in InCall : k.error[t] = "EOK"}' = {t \in InCall : k.error[t] = "EOK"}
        /\ {t \in InCall : k.error[t] # "EOK"}' = {t \in InCall : k.error[t] # "EOK"}
    BY <1>1 DEF InCall
  <1>. QED BY <1>1, <1>2 DEF Refines, Abstract!vars

\* A step that takes h off the list: h has been given a token, or its call has
\* failed, according to its error.
LEMMA WakeStep ==
  ASSUME NEW h \in Thread, IInv, LinkedIn(k, h, Sem), value' = value,
         \A u \in Thread : /\ LinkedIn(k', u, Sem) <=> LinkedIn(k, u, Sem) /\ u # h
                           /\ Taking(u)' <=> Taking(u)
                           /\ u # h => k'.error[u] = k.error[u]
  PROVE  Refines
  <1>1. Taking(h)
    BY DEF IInv, WaitersInTake, Taking
  <1>2. Waiting' = Waiting \ {h} /\ h \in Waiting
    BY DEF Waiting, Linked, LinkedIn
  <1>3. InCall' = InCall \cup {h} /\ h \notin InCall
    BY Zenon, <1>1 DEF InCall, Linked, LinkedIn, Taking
  <1>4. CASE k'.error[h] = "EOK"
    <2>1. {t \in InCall : k.error[t] = "EOK"}' = {t \in InCall : k.error[t] = "EOK"} \cup {h}
      BY Zenon, <1>3, <1>4 DEF InCall
    <2>2. {t \in InCall : k.error[t] # "EOK"}' = {t \in InCall : k.error[t] # "EOK"}
      BY Zenon, <1>3, <1>4 DEF InCall
    <2>3. Abstract!Release
      BY Zenon, <1>2, <2>1, <2>2 DEF Abstract!Release
    <2>. QED BY <2>3 DEF Refines, Abstract!Next
  <1>5. CASE k'.error[h] # "EOK"
    <2>1. {t \in InCall : k.error[t] # "EOK"}' = {t \in InCall : k.error[t] # "EOK"} \cup {h}
      BY Zenon, <1>3, <1>5 DEF InCall
    <2>2. {t \in InCall : k.error[t] = "EOK"}' = {t \in InCall : k.error[t] = "EOK"}
      BY Zenon, <1>3, <1>5 DEF InCall
    <2>3. Abstract!Fail(h)
      BY Zenon, <1>2, <2>1, <2>2 DEF Abstract!Fail
    <2>. QED BY <2>3 DEF Refines, Abstract!Next
  <1>. QED BY <1>4, <1>5

-----------------------------------------------------------------------------
\* What the invariant says of a thread t that executes at location l.
LEMMA AtRuns ==
  ASSUME IInv, NEW t \in Thread, NEW l, At(t, l)
  PROVE  /\ t = k.cur /\ pc[t] = l
         /\ l # "wait" => k.stat[t] = "RUNNING" /\ ~ LinkedIn(k, t, Sem)
  <1>1. t = k.cur /\ pc[t] = l
    BY DEF At
  <1>2. ASSUME l # "wait" PROVE k.stat[t] = "RUNNING"
    BY <1>1, <1>2 DEF IInv, CurrentRuns
  <1>. QED BY <1>1, <1>2 DEF IInv, Waits

\* rt_sem_take
LEMMA TakeStep ==
  ASSUME IInv, NEW t \in Thread, NEW time \in Timeout, Take(t, time)
  PROVE  IInv' /\ Refines /\ k'.cur = k.cur
  <1>0. At(t, "user") /\ t # Idle /\ alive /\ alive' = alive /\ mode' = mode
    BY DEF Take, Call
  <1>1. t = k.cur /\ pc[t] = "user" /\ k.stat[t] = "RUNNING" /\ ~ LinkedIn(k, t, Sem)
    BY <1>0, AtRuns
  <1>2. CASE value > 0 /\ value' = value - 1 /\ UNCHANGED <<k, pc>>
    <2>1. TypeOK'
      BY <1>0, <1>2, SemaphoreAssumption DEF IInv, TypeOK
    <2>2. IInv'
      BY Zenon, <1>0, <1>2, <2>1 DEF IInv, Waits, WaitersInTake, CurrentRuns, NoTokenHeldBack,
                              NoneWaitsOnDeleted, TypeOK
    <2>3. t \notin Waiting /\ t \notin InCall
      BY <1>1 DEF Waiting, InCall, Linked, LinkedIn
    <2>4. Waiting' = Waiting /\ InCall' = InCall
      BY <1>2 DEF Waiting, InCall, Linked
    <2>5. Abstract!Take(t)
      BY Zenon, <1>2, <2>3, <2>4 DEF Abstract!Take, Abstract!Free
    <2>. QED BY Zenon, <1>2, <2>2, <2>5 DEF Refines, Abstract!Next
  <1>3. CASE /\ value = 0 /\ time # 0
             /\ k' = Wait(SetError(k, t, "EOK"), Sem, t, time)
             /\ Goto(t, "wait") /\ UNCHANGED value
    <2> DEFINE s == SetError(k, t, "EOK")
    <2>1. /\ Sem \in List /\ time \in Int /\ k \in KernelState /\ Sound(k)
      BY SemaphoreAssumption, IpcAssumption DEF Timeout, RT_WAITING_FOREVER, IInv, Waits, TypeOK
    <2>2. /\ s \in KernelState /\ s.error = [k.error EXCEPT ![t] = "EOK"]
          /\ k.error \in [Thread -> Error]
          /\ s.stat = k.stat /\ s.prio = k.prio /\ s.list = k.list /\ s.group = k.group
          /\ s.cur = k.cur /\ s.tmr = k.tmr /\ s.lock = k.lock
      BY Zenon, <2>1 DEF SetError, KernelState, Error
    <2>3. k' = Wait(s, Sem, t, time)
      BY Zenon, <1>3
    <2> HIDE DEF s
    <2>4. Sound(s) /\ ~ LinkedIn(s, t, Sem)
      BY Zenon, <1>1, <2>1, <2>2, DataSound DEF Sound, LinkedIn
    <2>5. /\ Sound(k') /\ k'.stat[t] = "SUSPEND" /\ LinkedIn(k', t, Sem)
          /\ Kept(s, k') /\ \A u \in Thread \ {t} : Same(s, k', u)
          /\ Flag[Sem] = "PRIO" /\ Ordered(s.list[Sem], s.prio) => Ordered(k'.list[Sem], s.prio)
      BY Zenon, <2>1, <2>3, <2>4, WaitSound DEF Wait
    <2>6. ASSUME NEW u \in Thread \ {t}
          PROVE  /\ LinkedIn(k', u, Sem) <=> LinkedIn(k, u, Sem)
                 /\ k'.stat[u] # "CLOSE" /\ k'.error[u] = k.error[u]
                 /\ k'.stat[u] = "SUSPEND" <=> k.stat[u] = "SUSPEND"
                 /\ k'.stat[u] = "INIT" <=> k.stat[u] = "INIT"
      BY <2>1, <2>2, <2>5 DEF Same, Kept, LinkedIn, IInv, Waits
    <2>7. k'.lock = 0 /\ k'.prio = k.prio /\ k'.cur = k.cur /\ k'.error[t] = "EOK"
      BY <2>2, <2>5 DEF Kept, IInv, Waits
    <2>8. Waits(k')
      BY <1>0, <2>2, <2>5, <2>6, <2>7, BootAssumption DEF Waits, IInv
    <2>9. pc' = [pc EXCEPT ![t] = "wait"] /\ pc'[t] = "wait"
          /\ \A u \in Thread \ {t} : pc'[u] = pc[u]
      BY Zenon, <1>3 DEF Goto, IInv, TypeOK
    <2>10. TypeOK'
      BY Zenon, <1>0, <1>3, <2>5, <2>9 DEF IInv, TypeOK, Sound, SoundBut, WellFormed
    <2>11. CurrentRuns' /\ WaitersInTake'
      BY Zenon, <1>1, <2>6, <2>7, <2>9 DEF CurrentRuns, WaitersInTake, IInv
    <2>12. NoTokenHeldBack' /\ NoneWaitsOnDeleted'
      BY <1>0, <1>3, SemaphoreAssumption DEF NoTokenHeldBack, NoneWaitsOnDeleted, IInv, TypeOK
    <2>13. Waiting' = Waiting \cup {t} /\ t \notin Waiting
      BY Zenon, <1>1, <2>5, <2>6 DEF Waiting, Linked, LinkedIn
    <2>14. InCall' = InCall /\ t \notin InCall
      BY SMTT(30), <1>1, <2>5, <2>6, <2>9 DEF InCall, Linked, LinkedIn
    <2>15. /\ {u \in InCall : k.error[u] = "EOK"}' = {u \in InCall : k.error[u] = "EOK"}
           /\ {u \in InCall : k.error[u] # "EOK"}' = {u \in InCall : k.error[u] # "EOK"}
      BY <2>6, <2>14 DEF InCall
    <2>16. Abstract!Wait(t)
      BY Zenon, <1>3, <2>13, <2>14, <2>15 DEF Abstract!Wait, Abstract!Free
    <2>. QED BY Zenon, <2>7, <2>8, <2>10, <2>11, <2>12, <2>16 DEF Refines, Abstract!Next, IInv
  <1>. QED BY <1>2, <1>3 DEF Take

\* The steps in which a call on the semaphore ends by calling rt_schedule.
LEMMA ScheduleStepStep ==
  ASSUME IInv, NEW t \in Thread, NEW l, NEW m, ScheduleStep(t, l, m), UNCHANGED own,
         <<l, m>> \in {<<"wait", "woken">>, <<"schedule", "user">>}
  PROVE  IInv' /\ Refines
  <1>1. At(t, l) /\ k' = rt_schedule(k) /\ mode' = mode /\ value' = value /\ alive' = alive
    BY Zenon DEF ScheduleStep, own
  <1>2. t = k.cur /\ pc[t] = l /\ pc' = [pc EXCEPT ![t] = m]
    BY Zenon, <1>1, AtRuns DEF ScheduleStep, Goto
  <1>3. /\ Waits(k') /\ k'.error = k.error
        /\ \A u \in Thread : LinkedIn(k', u, Sem) <=> LinkedIn(k, u, Sem)
        /\ k'.list[Sem] = k.list[Sem] /\ k'.stat[k'.cur] = "RUNNING"
    BY Zenon, <1>1, ScheduleWaits DEF IInv
  <1>4. \A u \in Thread : /\ Taking(u)' <=> Taking(u)
                          /\ pc'[u] \notin {"delete", "delete1"} =>
                               pc[u] \notin {"delete", "delete1"}
    BY Zenon, <1>2 DEF Taking, IInv, TypeOK
  <1>5. TypeOK'
    BY Zenon, <1>1, <1>2, <1>3 DEF IInv, TypeOK, Waits, Sound, SoundBut, WellFormed
  <1>6. IInv'
    <2>1. \A u \in Thread : LinkedIn(k', u, Sem) => LinkedIn(k, u, Sem) /\ Taking(u)'
      BY Zenon, <1>3, <1>4 DEF IInv, WaitersInTake, Taking
    <2>2. CurrentRuns'
      BY Zenon, <1>3 DEF CurrentRuns
    <2>. QED BY Zenon, <1>1, <1>3, <1>4, <1>5, <2>1, <2>2, InvStep
  <1>7. Refines
    BY Zenon, <1>1, <1>3, <1>4, StutterStep
  <1>. QED BY Zenon, <1>6, <1>7

\* The end of rt_sem_take
LEMMA ReturnStep ==
  ASSUME IInv, NEW t \in Thread, Return(t), UNCHANGED own
  PROVE  IInv' /\ Refines
  <1>1. At(t, "woken") /\ k' = k /\ mode' = mode /\ value' = value /\ alive' = alive
    BY DEF Return, own
  <1>2. /\ t = k.cur /\ pc[t] = "woken" /\ pc' = [pc EXCEPT ![t] = "user"]
        /\ k.stat[t] = "RUNNING" /\ ~ LinkedIn(k, t, Sem)
    BY <1>1, AtRuns DEF Return, Goto
  <1>3. TypeOK'
    BY Zenon, <1>1, <1>2 DEF IInv, TypeOK
  <1>4. /\ pc'[t] = "user" /\ \A u \in Thread \ {t} : pc'[u] = pc[u]
    BY Zenon, <1>2 DEF IInv, TypeOK
  <1>5. IInv'
    <2>1. \A u \in Thread : LinkedIn(k', u, Sem) => LinkedIn(k, u, Sem) /\ Taking(u)'
      BY Zenon, <1>1, <1>2, <1>4 DEF IInv, WaitersInTake, Taking
    <2>2. CurrentRuns' /\ Waits(k')
      BY Zenon, <1>1, <1>2 DEF CurrentRuns, IInv, Waits
    <2>3. \A u \in Thread : pc'[u] \notin {"delete", "delete1"} =>
                              pc[u] \notin {"delete", "delete1"}
      BY Zenon, <1>2, <1>4
    <2>. QED BY Zenon, <1>1, <1>3, <2>1, <2>2, <2>3, InvStep
  <1>6. Waiting' = Waiting
    BY Zenon, <1>1 DEF Waiting, Linked
  <1>7. InCall' = InCall \ {t} /\ t \in InCall
    BY Zenon, <1>1, <1>2, <1>4 DEF InCall, Linked, LinkedIn
  <1>8. /\ {u \in InCall : k.error[u] = "EOK"}' = {u \in InCall : k.error[u] = "EOK"} \ {t}
        /\ {u \in InCall : k.error[u] # "EOK"}' = {u \in InCall : k.error[u] # "EOK"} \ {t}
    BY Zenon, <1>1, <1>7
  <1>9. Abstract!Return(t)
    BY Zenon, <1>1, <1>6, <1>7, <1>8 DEF Abstract!Return
  <1>. QED BY <1>5, <1>9 DEF Refines, Abstract!Next

\* A token is added when nobody waits: tokens of CountingSemaphore grow, or
\* the value is at its limit and stays.
LEMMA CountStep ==
  ASSUME IInv, k.list[Sem] = <<>>, UNCHANGED <<k, pc>>,
         value' = IF value < RT_SEM_VALUE_MAX THEN value + 1 ELSE value
  PROVE  Refines
  <1>1. Waiting' = Waiting /\ InCall' = InCall /\ k' = k
    BY DEF Waiting, InCall, Linked
  <1>2. Waiting = {}
    BY DEF Waiting, Linked, Has
  <1>3. CASE value < RT_SEM_VALUE_MAX
    <2>1. Abstract!Release
      BY Zenon, <1>1, <1>2, <1>3 DEF Abstract!Release
    <2>. QED BY Zenon, <2>1 DEF Refines, Abstract!Next
  <1>4. CASE ~ (value < RT_SEM_VALUE_MAX)
    BY Zenon, <1>1, <1>4 DEF Refines, Abstract!vars
  <1>. QED BY Zenon, <1>3, <1>4

\* rt_sem_release in a thread
LEMMA ReleaseStep ==
  ASSUME IInv, NEW t \in Thread, rt_sem_release(t)
  PROVE  IInv' /\ Refines
  <1>0. At(t, "user") /\ alive /\ alive' = alive /\ mode' = mode /\ Release
    BY DEF rt_sem_release, Call
  <1>1. t = k.cur /\ pc[t] = "user" /\ k.stat[t] = "RUNNING" /\ ~ LinkedIn(k, t, Sem)
    BY <1>0, AtRuns
  <1>2. CASE k.list[Sem] # <<>>
    <2> DEFINE h == Head(k.list[Sem])
    <2>1. k' = rt_ipc_list_resume(k, Sem) /\ value' = value /\ pc' = [pc EXCEPT ![t] = "schedule"]
      BY <1>0, <1>2 DEF rt_sem_release, Release, Goto
    <2>2. /\ h \in Thread /\ LinkedIn(k, h, Sem)
          /\ Waits(k') /\ k'.cur = k.cur /\ k'.error = k.error
          /\ \A u \in Thread : LinkedIn(k', u, Sem) <=> LinkedIn(k, u, Sem) /\ u # h
          /\ k'.stat[k'.cur] = "RUNNING"
      BY Zenon, <1>1, <1>2, <2>1, ResumeWaits DEF IInv
    <2> HIDE DEF h
    <2>3. \A u \in Thread : Taking(u)' <=> Taking(u)
      BY Zenon, <1>1, <2>1 DEF Taking, IInv, TypeOK
    <2>4. TypeOK'
      BY Zenon, <1>0, <2>1, <2>2 DEF IInv, TypeOK, Waits, Sound, SoundBut, WellFormed
    <2>5. IInv'
      <3>1. \A u \in Thread : LinkedIn(k', u, Sem) => LinkedIn(k, u, Sem) /\ Taking(u)'
        BY Zenon, <2>2, <2>3 DEF IInv, WaitersInTake, Taking
      <3>2. CurrentRuns'
        BY Zenon, <2>2 DEF CurrentRuns
      <3>. QED BY Zenon, <1>0, <2>1, <2>2, <2>4, <3>1, <3>2, InvStep
    <2>6. Refines
      BY Zenon, <2>1, <2>2, <2>3, WakeStep
    <2>. QED BY Zenon, <2>5, <2>6
  <1>3. CASE k.list[Sem] = <<>>
    <2>1. /\ UNCHANGED <<k, pc>>
          /\ value' = IF value < RT_SEM_VALUE_MAX THEN value + 1 ELSE value
      BY <1>0, <1>3 DEF rt_sem_release, Release
    <2>2. TypeOK'
      BY SMTT(30), <1>0, <2>1, SemaphoreAssumption DEF IInv, TypeOK
    <2>3. IInv'
      BY Zenon, <1>0, <1>3, <2>1, <2>2 DEF IInv, Waits, WaitersInTake, CurrentRuns,
                                    NoTokenHeldBack, NoneWaitsOnDeleted
    <2>. QED BY Zenon, <1>3, <2>1, <2>3, CountStep
  <1>. QED BY Zenon, <1>2, <1>3

\* rt_sem_release in an interrupt handler
LEMMA IrqReleaseStep ==
  ASSUME IInv, IrqRelease
  PROVE  IInv' /\ Refines
  <1>0. alive /\ alive' = alive /\ mode' = mode /\ pc' = pc
    BY DEF IrqRelease
  <1>1. CASE k.list[Sem] # <<>>
    <2> DEFINE h == Head(k.list[Sem])
               s == rt_ipc_list_resume(k, Sem)
    <2>1. k' = rt_schedule(s) /\ value' = value
      BY <1>1 DEF IrqRelease, Release
    <2>2. /\ h \in Thread /\ LinkedIn(k, h, Sem)
          /\ Waits(s) /\ s.error = k.error
          /\ \A u \in Thread : LinkedIn(s, u, Sem) <=> LinkedIn(k, u, Sem) /\ u # h
      BY Zenon, <1>1, ResumeWaits DEF IInv
    <2> HIDE DEF h, s
    <2>3. /\ Waits(k') /\ k'.error = k.error
          /\ \A u \in Thread : LinkedIn(k', u, Sem) <=> LinkedIn(k, u, Sem) /\ u # h
          /\ k'.stat[k'.cur] = "RUNNING"
      BY Zenon, <2>1, <2>2, ScheduleWaits
    <2>4. \A u \in Thread : Taking(u)' <=> Taking(u)
      BY Zenon, <1>0 DEF Taking
    <2>5. TypeOK'
      BY Zenon, <1>0, <2>1, <2>3 DEF IInv, TypeOK, Waits, Sound, SoundBut, WellFormed
    <2>6. IInv'
      <3>1. \A u \in Thread : LinkedIn(k', u, Sem) => LinkedIn(k, u, Sem) /\ Taking(u)'
        BY Zenon, <2>3, <2>4 DEF IInv, WaitersInTake, Taking
      <3>2. CurrentRuns'
        BY Zenon, <2>3 DEF CurrentRuns
      <3>. QED BY Zenon, <1>0, <2>1, <2>3, <2>5, <3>1, <3>2, InvStep
    <2>7. Refines
      BY Zenon, <2>1, <2>2, <2>3, <2>4, WakeStep
    <2>. QED BY Zenon, <2>6, <2>7
  <1>2. CASE k.list[Sem] = <<>>
    <2>1. /\ UNCHANGED <<k, pc>>
          /\ value' = IF value < RT_SEM_VALUE_MAX THEN value + 1 ELSE value
      BY <1>2 DEF IrqRelease, Release
    <2>2. TypeOK'
      BY <1>0, <2>1, SemaphoreAssumption DEF IInv, TypeOK
    <2>3. IInv'
      BY Zenon, <1>0, <1>2, <2>1, <2>2 DEF IInv, Waits, WaitersInTake, CurrentRuns,
                                    NoTokenHeldBack, NoneWaitsOnDeleted
    <2>. QED BY <1>2, <2>1, <2>3, CountStep
  <1>. QED BY Zenon, <1>1, <1>2

\* A turn of rt_ipc_list_resume_all, in rt_sem_control and in rt_sem_delete
LEMMA ResumeAllStep ==
  ASSUME IInv, NEW t \in Thread, NEW l, NEW m, At(t, l), k.list[Sem] # <<>>,
         k' = ResumeWithError(k, Sem), pc' = [pc EXCEPT ![t] = m],
         UNCHANGED <<mode, own>>,
         <<l, m>> \in {<<"reset", "reset">>, <<"delete1", "delete">>}
  PROVE  IInv' /\ Refines
  <1> DEFINE h == Head(k.list[Sem])
  <1>1. t = k.cur /\ pc[t] = l /\ k.stat[t] = "RUNNING"
    BY Zenon, AtRuns
  <1>2. /\ h \in Thread /\ LinkedIn(k, h, Sem)
        /\ Waits(k') /\ k'.cur = k.cur
        /\ k'.error = [k.error EXCEPT ![h] = "ERROR"]
        /\ \A u \in Thread : LinkedIn(k', u, Sem) <=> LinkedIn(k, u, Sem) /\ u # h
        /\ k'.stat[k'.cur] = "RUNNING"
    BY SMTT(30), <1>1, ResumeWaits DEF IInv
  <1> HIDE DEF h
  <1>3. value' = value /\ alive' = alive /\ mode' = mode
    BY Zenon DEF own
  <1>4. \A u \in Thread : /\ Taking(u)' <=> Taking(u)
                          /\ pc'[u] \notin {"delete", "delete1"} =>
                               pc[u] \notin {"delete", "delete1"}
    BY <1>1 DEF Taking, IInv, TypeOK
  <1>5. TypeOK'
    BY Zenon, <1>2, <1>3 DEF IInv, TypeOK, Waits, Sound, SoundBut, WellFormed
  <1>6. IInv'
    <2>1. \A u \in Thread : LinkedIn(k', u, Sem) => LinkedIn(k, u, Sem) /\ Taking(u)'
      BY Zenon, <1>2, <1>4 DEF IInv, WaitersInTake, Taking
    <2>2. CurrentRuns'
      BY Zenon, <1>2 DEF CurrentRuns
    <2>. QED BY Zenon, <1>2, <1>3, <1>4, <1>5, <2>1, <2>2, InvStep
  <1>7. \A u \in Thread : u # h => k'.error[u] = k.error[u]
    BY Zenon, <1>2 DEF IInv, TypeOK, KernelState
  <1>8. Refines
    BY Zenon, <1>2, <1>3, <1>4, <1>7, WakeStep
  <1>. QED BY Zenon, <1>6, <1>8

\* A step of a call that leaves the kernel data alone
LEMMA LocalStep ==
  ASSUME IInv, NEW t \in Thread, NEW l, NEW m, At(t, l), k' = k,
         pc' = [pc EXCEPT ![t] = m], value' = value,
         mode' \in {"thread", "masked", "tick"},
         l \in {"user", "delete"}, m \in {"user", "reset", "delete", "delete1"},
         \/ alive' = alive /\ m \in {"reset", "delete1"} /\ (m = "reset" => alive)
         \/ m = "delete" \/ (alive' = alive /\ k.list[Sem] = <<>>)
  PROVE  IInv' /\ Refines
  <1>1. t = k.cur /\ pc[t] = l /\ k.stat[t] = "RUNNING" /\ ~ LinkedIn(k, t, Sem)
    BY Zenon, AtRuns
  <1>2. pc'[t] = m /\ \A u \in Thread \ {t} : pc'[u] = pc[u]
    BY Zenon DEF IInv, TypeOK
  <1>3. TypeOK'
    BY Zenon DEF IInv, TypeOK
  <1>4. \A u \in Thread : Taking(u)' <=> Taking(u)
    BY Zenon, <1>1, <1>2 DEF Taking
  <1>5. Waits(k') /\ CurrentRuns'
    BY Zenon, <1>1 DEF IInv, Waits, CurrentRuns
  <1>6. \A u \in Thread : LinkedIn(k', u, Sem) => LinkedIn(k, u, Sem) /\ Taking(u)'
    BY Zenon, <1>4 DEF IInv, WaitersInTake, Taking
  <1>7. ~ alive' /\ (\A u \in Thread : pc'[u] \notin {"delete", "delete1"}) =>
          \/ ~ alive /\ \A u \in Thread : pc[u] \notin {"delete", "delete1"}
          \/ k'.list[Sem] = <<>>
    BY SMTT(30), <1>1, <1>2
  <1>8. IInv'
    BY Zenon, <1>3, <1>5, <1>6, <1>7, InvStep
  <1>9. Refines
    BY Zenon, <1>4, StutterStep
  <1>. QED BY Zenon, <1>8, <1>9

\* The end of rt_sem_control: nobody waits, and the value is set.
LEMMA ResetEndStep ==
  ASSUME IInv, NEW t \in Thread, NEW v \in 0 .. RT_SEM_VALUE_MAX + 1, ResetEnd(t, v)
  PROVE  IInv' /\ Refines
  <1>0. /\ At(t, "reset") /\ k.list[Sem] = <<>> /\ k' = k /\ alive' = alive
        /\ value' = v % (RT_SEM_VALUE_MAX + 1) /\ mode' = "thread"
        /\ pc' = [pc EXCEPT ![t] = "schedule"]
    BY Zenon DEF ResetEnd, Goto
  <1>1. t = k.cur /\ pc[t] = "reset" /\ k.stat[t] = "RUNNING"
    BY Zenon, <1>0, AtRuns
  <1>2. value' \in 0 .. RT_SEM_VALUE_MAX
    BY <1>0, SemaphoreAssumption
  <1>3. TypeOK'
    BY Zenon, <1>0, <1>2 DEF IInv, TypeOK
  <1>4. \A u \in Thread : /\ Taking(u)' <=> Taking(u)
                          /\ ~ LinkedIn(k', u, Sem)
    BY <1>0, <1>1 DEF Taking, IInv, TypeOK, LinkedIn, Has
  <1>5. IInv'
    <2>1. Waits(k') /\ CurrentRuns'
      BY Zenon, <1>0, <1>1 DEF IInv, Waits, CurrentRuns
    <2>. QED BY Zenon, <1>0, <1>3, <1>4, <2>1, InvStep
  <1>6. Waiting' = Waiting /\ InCall' = InCall /\ Waiting = {}
    BY Zenon, <1>0, <1>4 DEF Waiting, InCall, Linked, LinkedIn, Taking
  <1>7. Abstract!Reset
    BY Zenon, <1>0, <1>2, <1>6 DEF Abstract!Reset
  <1>. QED BY Zenon, <1>5, <1>7 DEF Refines, Abstract!Next

\* rt_thread_startup
LEMMA StartStep ==
  ASSUME IInv, NEW t \in Thread, NEW u \in Thread, Start(t, u), UNCHANGED own
  PROVE  IInv' /\ Refines
  <1>0. /\ At(t, "user") /\ k.stat[u] = "INIT" /\ pc' = pc /\ mode' = mode
        /\ value' = value /\ alive' = alive
        /\ k' = rt_thread_startup(k, u)
    BY DEF Start, own
  <1>1. t = k.cur /\ k.stat[t] = "RUNNING" /\ Waits(k) /\ Sound(k) /\ k \in KernelState
    <2>1. t = k.cur /\ k.stat[t] = "RUNNING"
      BY <1>0, AtRuns
    <2>2. Waits(k) /\ k \in KernelState
      BY Zenon DEF IInv, TypeOK
    <2>3. Sound(k)
      BY Zenon, <2>2 DEF Waits
    <2>. QED BY Zenon, <2>1, <2>2, <2>3
  <1>2. /\ Sound(k') /\ k'.stat[u] \in {"READY", "RUNNING"}
        /\ \A l \in List : k'.list[l] = k.list[l]
        /\ \A w \in Thread \ {u} : Same(k, k', w)
        /\ k'.prio = [k.prio EXCEPT ![u] = InitPriority[u]]
        /\ k'.error = k.error /\ k'.lock = k.lock
        /\ k'.cur = k.cur \/ \E w \in Thread : Executes(k', w)
    <2>1. LET r == rt_thread_startup(k, u)
          IN  /\ Sound(r) /\ r.stat[u] \in {"READY", "RUNNING"}
              /\ \A l \in List : r.list[l] = k.list[l]
              /\ \A w \in Thread \ {u} : Same(k, r, w)
              /\ r.prio = [k.prio EXCEPT ![u] = InitPriority[u]]
              /\ r.error = k.error /\ r.lock = k.lock
              /\ r.cur = k.cur \/ \E w \in Thread : Executes(r, w)
      BY <1>0, <1>1, StartSound, ZenonT(60)
    <2>. QED BY <1>0, <2>1
  <1>3. k'.list[Sem] = k.list[Sem]
    BY SMTT(30), <1>2, SemaphoreAssumption
  <1>4. \A w \in Thread : LinkedIn(k', w, Sem) <=> LinkedIn(k, w, Sem)
    BY Zenon, <1>3 DEF LinkedIn
  <1>5. ~ LinkedIn(k, u, Sem)
    BY <1>0, <1>1 DEF Waits
  <1>6. Flag[Sem] = "PRIO" => Ordered(k'.list[Sem], k'.prio)
    <2>1. \A i \in 1 .. Len(k.list[Sem]) : k.list[Sem][i] # u
      BY Zenon, <1>5 DEF LinkedIn, Has
    <2>2. k.prio \in [Thread -> Priority] /\ k.list[Sem] \in Seq(Thread)
      BY Zenon, <1>1, SemaphoreAssumption DEF KernelState
    <2>3. \A i \in 1 .. Len(k.list[Sem]) : k'.prio[k.list[Sem][i]] = k.prio[k.list[Sem][i]]
      BY <1>2, <2>1, <2>2
    <2>4. Flag[Sem] = "PRIO" => Ordered(k.list[Sem], k.prio)
      BY Zenon, <1>1 DEF Waits
    <2>5. Ordered(k.list[Sem], k.prio) => Ordered(k.list[Sem], k'.prio)
      BY <2>3 DEF Ordered
    <2>. QED BY Zenon, <1>3, <2>4, <2>5
  <1>7. Waits(k')
    <2>1. Idle \in Thread /\ u # Idle
      BY Zenon, <1>0, <1>1, BootAssumption DEF Waits
    <2>2. \A w \in Thread : /\ k'.stat[w] # "CLOSE"
                            /\ k'.stat[w] = "SUSPEND" <=> LinkedIn(k', w, Sem)
      <3>1. ASSUME NEW w \in Thread, w # u
            PROVE  k'.stat[w] = "CLOSE" <=> k.stat[w] = "CLOSE"
        BY Zenon, <1>2, <3>1 DEF Same
      <3>2. ASSUME NEW w \in Thread, w # u
            PROVE  k'.stat[w] = "SUSPEND" <=> k.stat[w] = "SUSPEND"
        BY Zenon, <1>2, <3>2 DEF Same
      <3>. QED BY SMTT(30), <1>1, <1>2, <1>4, <1>5, <3>1, <3>2 DEF Waits
    <2>3. k'.stat[Idle] # "SUSPEND" /\ k'.stat[Idle] # "INIT"
      BY Zenon, <1>1, <1>2, <2>1 DEF Waits, Same
    <2>4. \A w \in Thread : LinkedIn(k', w, Sem) => k'.error[w] = "EOK"
      BY SMTT(30), <1>1, <1>2, <1>4 DEF Waits
    <2>5. k'.lock = 0
      BY Zenon, <1>1, <1>2 DEF Waits
    <2>. QED BY Zenon, <1>2, <1>6, <2>2, <2>3, <2>4, <2>5 DEF Waits
  <1>8. CurrentRuns'
    <2>1. CASE k'.cur = k.cur
      <3>1. k'.stat[k'.cur] \in {"READY", "RUNNING"}
        BY <1>0, <1>1, <1>2, <2>1 DEF Same
      <3>. QED BY Zenon, <1>2, <3>1, CurrentIsRunning DEF CurrentRuns
    <2>2. CASE \E w \in Thread : Executes(k', w)
      BY Zenon, <2>2 DEF Executes, CurrentRuns
    <2>. QED BY Zenon, <1>2, <2>1, <2>2
  <1>9. TypeOK'
    BY Zenon, <1>0, <1>2 DEF IInv, TypeOK, Sound, SoundBut, WellFormed
  <1>10. \A w \in Thread : Taking(w)' <=> Taking(w)
    BY SMTT(30), <1>0 DEF Taking
  <1>11. IInv'
    <2>1. \A w \in Thread : LinkedIn(k', w, Sem) => LinkedIn(k, w, Sem) /\ Taking(w)'
      BY Zenon, <1>4, <1>10 DEF IInv, WaitersInTake, Taking
    <2>. QED BY Zenon, <1>0, <1>7, <1>8, <1>9, <2>1, InvStep
  <1>12. Refines
    BY Zenon, <1>0, <1>2, <1>4, <1>10, StutterStep
  <1>. QED BY <1>11, <1>12

\* The tick interrupt
LEMMA TickStep ==
  ASSUME IInv, Tick, UNCHANGED own
  PROVE  IInv' /\ Refines
  <1>0. pc' = pc /\ value' = value /\ alive' = alive /\ mode' \in {"thread", "masked", "tick"}
    BY Zenon DEF Tick, TickEnter, TimerExpire, TickLeave, own, IInv, TypeOK
  <1>1. Waits(k) /\ Sound(k) /\ k \in KernelState /\ k.cur \in Thread
    BY DEF IInv, Waits, TypeOK, KernelState
  <1>2. \A u \in Thread : Taking(u)' <=> Taking(u)
    BY Zenon, <1>0 DEF Taking
  <1>3. ASSUME Waits(k'), \A u \in Thread : LinkedIn(k', u, Sem) => LinkedIn(k, u, Sem),
               \/ /\ k'.cur = k.cur
                  /\ k.stat[k.cur] = "RUNNING" => k'.stat[k.cur] \in {"READY", "RUNNING"}
               \/ \E u \in Thread : Executes(k', u)
        PROVE  IInv'
    <2>1. TypeOK'
      BY Zenon, <1>0, <1>3 DEF IInv, TypeOK, Waits, Sound, SoundBut, WellFormed
    <2>2. CurrentRuns'
      <3>1. CASE k'.cur = k.cur /\ k.stat[k.cur] = "RUNNING"
                                /\ k'.stat[k.cur] \in {"READY", "RUNNING"}
        BY Zenon, <1>3, <3>1, CurrentIsRunning DEF CurrentRuns, Waits
      <3>2. CASE k'.cur = k.cur /\ k.stat[k.cur] # "RUNNING"
        BY <1>0, <3>2 DEF CurrentRuns, IInv
      <3>3. CASE \E u \in Thread : Executes(k', u)
        BY Zenon, <3>3 DEF Executes, CurrentRuns
      <3>. QED BY Zenon, <1>3, <3>1, <3>2, <3>3
    <2>3. \A u \in Thread : LinkedIn(k', u, Sem) => LinkedIn(k, u, Sem) /\ Taking(u)'
      BY Zenon, <1>2, <1>3 DEF IInv, WaitersInTake, Taking
    <2>. QED BY <1>0, <1>3, <2>1, <2>2, <2>3, InvStep
  <1>4. CASE TickEnter
    <2>1. /\ Sound(k')
          /\ k'.prio = k.prio /\ k'.lock = k.lock /\ k'.error = k.error
          /\ \A u \in Thread : Same(k, k', u)
          /\ \A l \in List : k'.list[l] = k.list[l]
          /\ k'.cur = k.cur \/ \E u \in Thread : Executes(k', u)
      BY Zenon, <1>1, <1>4, TickSound DEF TickEnter
    <2>2. k'.list[Sem] = k.list[Sem]
      BY Zenon, <2>1, SemaphoreAssumption
    <2>3. /\ Waits(k')
          /\ \A u \in Thread : LinkedIn(k', u, Sem) <=> LinkedIn(k, u, Sem)
      BY Zenon, <1>1, <2>1, <2>2, QuietWaits
    <2>4. k.stat[k.cur] = "RUNNING" => k'.stat[k.cur] \in {"READY", "RUNNING"}
      BY Zenon, <1>1, <2>1 DEF Same
    <2>5. Refines
      BY Zenon, <1>0, <1>2, <2>1, <2>3, StutterStep
    <2>. QED BY Zenon, <1>3, <2>1, <2>3, <2>4, <2>5
  <1>5. CASE TimerExpire
    <2> DEFINE h == Head(k.tmr)
    <2>1. k.tmr # <<>> /\ k.tmr \in Seq(Thread) /\ k' = rt_thread_timeout(k, h)
      BY Zenon, <1>1, <1>5 DEF TimerExpire, TimerDue, KernelState
    <2>2. h \in Thread /\ Has(k.tmr, h)
      BY Zenon, <2>1, EmptyHasNone
    <2>3. LinkedIn(k, h, Sem)
      BY Zenon, <1>1, <2>2 DEF Waits, Sound, SoundBut, Fits
    <2> HIDE DEF h
    <2>4. /\ Sound(k') /\ k'.stat[h] \in {"READY", "RUNNING"}
          /\ \A l \in List : ~ LinkedIn(k', h, l)
          /\ k'.prio = k.prio /\ k'.lock = k.lock
          /\ k'.error = [k.error EXCEPT ![h] = "ETIMEOUT"]
          /\ \A u \in Thread \ {h} : Same(k, k', u)
          /\ \A l \in List : k'.list[l] = rt_list_remove(k.list[l], h)
          /\ k'.cur = k.cur \/ \E u \in Thread : Executes(k', u)
      <3>1. LET r == rt_thread_timeout(k, h)
            IN  /\ Sound(r) /\ r.stat[h] \in {"READY", "RUNNING"}
                /\ \A l \in List : ~ LinkedIn(r, h, l)
                /\ ~ Has(r.tmr, h)
                /\ r.prio = k.prio /\ r.lock = k.lock
                /\ r.error = [k.error EXCEPT ![h] = "ETIMEOUT"]
                /\ \A u \in Thread \ {h} : Same(k, r, u)
                /\ \A l \in List : r.list[l] = rt_list_remove(k.list[l], h)
                /\ r.cur = k.cur \/ \E u \in Thread : Executes(r, u)
        BY <1>1, <2>2, TimeoutSound, Zenon
      <3>. QED BY <2>1, <3>1
    <2>5. \A u \in Thread \ {h} : k'.error[u] = k.error[u]
      BY Zenon, <1>1, <2>4 DEF KernelState
    <2>6. k'.list[Sem] = rt_list_remove(k.list[Sem], h)
      BY <2>4, SemaphoreAssumption
    <2>7. /\ Waits(k')
          /\ \A u \in Thread : LinkedIn(k', u, Sem) <=> LinkedIn(k, u, Sem) /\ u # h
      <3>1. \A u \in Thread \ {h} : Same(k, k', u) /\ k'.error[u] = k.error[u]
        BY <2>4, <2>5
      <3>. QED BY Zenon, <1>1, <2>2, <2>4, <2>6, <3>1, WokenWaits
    <2>8. k.stat[k.cur] = "RUNNING" => k'.stat[k.cur] \in {"READY", "RUNNING"}
      BY Zenon, <1>1, <2>4 DEF Same
    <2>9. Refines
      BY Zenon, <1>0, <1>2, <2>2, <2>3, <2>5, <2>7, WakeStep
    <2>. QED BY Zenon, <1>3, <2>4, <2>7, <2>8, <2>9
  <1>6. CASE TickLeave
    <2>1. k' = k
      BY <1>6 DEF TickLeave
    <2>2. Refines
      BY Zenon, <1>0, <1>2, <2>1, StutterStep
    <2>3. Waits(k')
      BY Zenon, <1>1, <2>1
    <2>. QED BY Zenon, <1>3, <2>1, <2>2, <2>3
  <1>. QED BY Zenon, <1>4, <1>5, <1>6 DEF Tick

-----------------------------------------------------------------------------
\* The invariant holds when the semaphore has been initialised.
LEMMA InitInv ==
  ASSUME Init
  PROVE  IInv /\ Abstract!Init
  <1>1. Sound(k) /\ \A t \in Thread : \A l \in List : ~ LinkedIn(k, t, l)
    BY BootSound DEF Init
  <1>2. /\ pc = [t \in Thread |-> "user"] /\ mode = "thread" /\ value = InitValue
        /\ alive = TRUE /\ k.cur = Main /\ k.lock = 0
        /\ k.stat = [t \in Thread |-> CASE t = Main -> "RUNNING"
                                        [] t = Idle -> "READY"
                                        [] OTHER    -> "INIT"]
    BY DEF Init, Boot
  <1>3. Sem \in List /\ Main \in Thread /\ Idle \in Thread /\ Idle # Main
    BY Zenon, SemaphoreAssumption, BootAssumption
  <1>4. k.list[Sem] = <<>> /\ k \in KernelState
    <2>1. k \in KernelState
      BY Zenon, <1>1 DEF Sound, SoundBut, WellFormed
    <2>. QED BY Zenon, <1>1, <1>3, <2>1, EmptyHasNone DEF LinkedIn, KernelState
  <1>5. \A t \in Thread : k.stat[t] \in {"RUNNING", "READY", "INIT"}
    BY <1>2
  <1>6. k.stat[Main] = "RUNNING" /\ k.stat[Idle] = "READY"
    BY Zenon, <1>2, <1>3
  <1>7. Waits(k)
    <2>1. Ordered(k.list[Sem], k.prio)
      BY <1>4 DEF Ordered
    <2>. QED BY Zenon, <1>1, <1>2, <1>3, <1>5, <1>6, <2>1 DEF Waits
  <1>8. TypeOK
    BY Zenon, <1>2, <1>4, SemaphoreAssumption DEF TypeOK
  <1>9. IInv
    BY Zenon, <1>1, <1>2, <1>3, <1>4, <1>6, <1>7, <1>8
       DEF IInv, WaitersInTake, CurrentRuns, NoTokenHeldBack, NoneWaitsOnDeleted
  <1>10. Waiting = {} /\ InCall = {}
    BY Zenon, <1>1, <1>2, <1>3 DEF Waiting, InCall, Linked, LinkedIn
  <1>. QED BY Zenon, <1>2, <1>9, <1>10, SemaphoreAssumption DEF Abstract!Init

\* Every step keeps the invariant and implements CountingSemaphore.
LEMMA NextInv ==
  ASSUME IInv, [Next]_vars
  PROVE  IInv' /\ Refines
  <1>1. ASSUME NEW t \in Thread, Step(t) PROVE IInv' /\ Refines
    <2>1. ASSUME NEW time \in Timeout, Take(t, time) PROVE IInv' /\ Refines
      BY Zenon, <2>1, TakeStep
    <2>2. CASE WaitSchedule(t) /\ UNCHANGED own
      BY Zenon, <2>2, ScheduleStepStep DEF WaitSchedule
    <2>3. CASE Return(t) /\ UNCHANGED own
      BY Zenon, <2>3, ReturnStep
    <2>4. CASE Schedule(t) /\ UNCHANGED own
      BY <2>4, ScheduleStepStep DEF Schedule
    <2>5. CASE rt_sem_release(t)
      BY <2>5, ReleaseStep
    <2>6. CASE Reset(t)
      <3>1. /\ At(t, "user") /\ alive /\ k' = k /\ value' = value /\ alive' = alive
            /\ mode' = "masked" /\ pc' = [pc EXCEPT ![t] = "reset"]
        BY <2>6 DEF Reset, Call, Goto, own
      <3>. QED BY Zenon, <3>1, LocalStep
    <2>7. CASE ResetOne(t)
      <3>1. pc' = [pc EXCEPT ![t] = "reset"] /\ At(t, "reset")
        BY <2>7 DEF ResetOne, At, IInv, TypeOK
      <3>. QED BY Zenon, <2>7, <3>1, ResumeAllStep DEF ResetOne
    <2>8. ASSUME NEW v \in 0 .. RT_SEM_VALUE_MAX + 1, ResetEnd(t, v) PROVE IInv' /\ Refines
      BY <2>8, ResetEndStep
    <2>9. CASE Delete(t)
      <3>1. /\ At(t, "user") /\ k' = k /\ value' = value /\ mode' = mode
            /\ pc' = [pc EXCEPT ![t] = "delete"] /\ mode \in {"thread", "masked", "tick"}
        BY <2>9 DEF Delete, Call, Goto, IInv, TypeOK
      <3>. QED BY Zenon, <3>1, LocalStep
    <2>10. CASE ResumeAllTest(t, Sem) /\ UNCHANGED own
      <3> DEFINE m == IF k.list[Sem] # <<>> THEN "delete1" ELSE "user"
      <3>1. /\ At(t, "delete") /\ k' = k /\ value' = value /\ alive' = alive /\ mode' = mode
            /\ pc' = [pc EXCEPT ![t] = m] /\ mode \in {"thread", "masked", "tick"}
        BY <2>10 DEF ResumeAllTest, Goto, own, IInv, TypeOK
      <3>2. m \in {"user", "delete1"} /\ (m = "delete1" \/ k.list[Sem] = <<>>)
        OBVIOUS
      <3> HIDE DEF m
      <3>. QED BY Zenon, <3>1, <3>2, LocalStep
    <2>11. CASE ResumeAllOne(t, Sem) /\ UNCHANGED own
      BY Zenon, <2>11, ResumeAllStep DEF ResumeAllOne, Goto
    <2>. QED
      BY SMTT(30), <1>1, <2>1, <2>2, <2>3, <2>4, <2>5, <2>6, <2>7, <2>8, <2>9, <2>10, <2>11
             DEF Step
  <1>2. ASSUME NEW u \in Thread, Start(Main, u), UNCHANGED own PROVE IInv' /\ Refines
    BY <1>2, StartStep, BootAssumption
  <1>3. CASE IrqRelease
    BY Zenon, <1>3, IrqReleaseStep
  <1>4. CASE Tick /\ UNCHANGED own
    BY Zenon, <1>4, TickStep
  <1>5. CASE UNCHANGED vars
    <2>1. /\ k' = k /\ pc' = pc /\ mode' = mode /\ value' = value /\ alive' = alive
      BY Zenon, <1>5 DEF vars
    <2>2. IInv'
      BY <2>1 DEF IInv, TypeOK, Waits, WaitersInTake, CurrentRuns, NoTokenHeldBack,
                  NoneWaitsOnDeleted
    <2>3. Refines
      BY <2>1, StutterStep DEF Taking
    <2>. QED BY Zenon, <2>2, <2>3
  <1>. QED BY Zenon, <1>1, <1>2, <1>3, <1>4, <1>5 DEF Next

\* The properties of Semaphore and of Processor follow from the invariant.
LEMMA InvImplies ==
  ASSUME IInv
  PROVE  /\ TypeOK /\ NoTokenHeldBack /\ WaitersWait /\ UrgentFirst /\ NoneWaitsOnDeleted
         /\ LinkedOnce /\ ReadyQueue /\ HighestExists /\ TimerOnlySuspended
  <1>1. TypeOK /\ NoTokenHeldBack /\ NoneWaitsOnDeleted /\ Waits(k)
    BY Zenon DEF IInv
  <1>2. LinkedOnce /\ ReadyQueue /\ HighestExists /\ TimerOnlySuspended
    BY Zenon, <1>1, SoundProperties DEF Waits
  <1>3. WaitersWait
    BY Zenon, <1>1 DEF IInv, Waits, WaitersInTake, WaitersWait, Linked, LinkedIn
  <1>4. UrgentFirst
    BY <1>1 DEF Waits, UrgentFirst, Ordered
  <1>. QED BY Zenon, <1>1, <1>2, <1>3, <1>4

-----------------------------------------------------------------------------
\* A thread inside rt_sem_delete
Deleting(t) == pc[t] \in {"delete", "delete1"}

\* As long as the semaphore exists nobody deletes it, and the most urgent
\* thread executes except where the current one is about to call rt_schedule.
Urgent ==
  alive => /\ \A t \in Thread : ~ Deleting(t)
           /\ pc[k.cur] \notin {"wait", "schedule", "reset"} => MostUrgent(k)

\* A step of the current thread that ends before a call of rt_schedule
LEMMA BeforeSchedule ==
  ASSUME IInv, Urgent, NEW t \in Thread, t = k.cur, k'.cur = k.cur, alive' = alive,
         NEW l \in {"wait", "schedule", "reset"}, pc' = [pc EXCEPT ![t] = l]
  PROVE  Urgent'
  <1>1. pc'[t] = l /\ \A u \in Thread \ {t} : pc'[u] = pc[u]
    BY Zenon DEF IInv, TypeOK
  <1>. QED BY Zenon, <1>1 DEF Urgent, Deleting

\* A step that ends with a call of rt_schedule, or that makes no thread ready
LEMMA AfterSchedule ==
  ASSUME Urgent, alive' => alive, \A u \in Thread : Deleting(u)' => Deleting(u),
         MostUrgent(k')
  PROVE  Urgent'
  BY DEF Urgent, Deleting

\* A step of an interrupt or of a thread that changes no location
LEMMA SameUrgent ==
  ASSUME Urgent, alive' = alive, pc' = pc, k' = k
  PROVE  Urgent'
  BY Zenon DEF Urgent, Deleting

\* No step of a thread misses a preemption.
LEMMA ThreadUrgent ==
  ASSUME IInv, Urgent, NEW t \in Thread, Step(t)
  PROVE  Urgent'
  <1>0. Waits(k) /\ Sound(k) /\ k.lock = 0
    BY DEF IInv, Waits
  <1>1. ASSUME NEW time \in Timeout, Take(t, time) PROVE Urgent'
    <2>1. t = k.cur /\ alive' = alive
      BY <1>1 DEF Take, Call, At
    <2>2. CASE UNCHANGED <<k, pc>>
      BY <2>1, <2>2, SameUrgent
    <2>3. CASE k' = Wait(SetError(k, t, "EOK"), Sem, t, time) /\ Goto(t, "wait")
      <3>1. k'.cur = k.cur
        BY Zenon, <1>1, TakeStep
      <3>. QED BY Zenon, <2>1, <2>3, <3>1, BeforeSchedule DEF Goto
    <2>. QED BY <1>1, <2>2, <2>3 DEF Take
  <1>2. ASSUME NEW l \in {"wait", "schedule"}, NEW m \in {"woken", "user"},
               ScheduleStep(t, l, m), UNCHANGED own
        PROVE  Urgent'
    <2>1. k' = rt_schedule(k) /\ pc' = [pc EXCEPT ![t] = m] /\ alive' = alive
      BY Zenon, <1>2 DEF ScheduleStep, Goto, own
    <2>2. MostUrgent(k')
      BY Zenon, <1>0, <2>1, ScheduleUrgent
    <2>3. \A u \in Thread : Deleting(u)' => Deleting(u)
      BY Zenon, <2>1 DEF Deleting, IInv, TypeOK
    <2>. QED BY <2>1, <2>2, <2>3, AfterSchedule
  <1>3. CASE Return(t) /\ UNCHANGED own
    <2>1. /\ t = k.cur /\ pc[t] = "woken" /\ pc' = [pc EXCEPT ![t] = "user"]
          /\ alive' = alive /\ k' = k
      BY Zenon, <1>3 DEF Return, At, Goto, own
    <2>2. \A u \in Thread : Deleting(u)' => Deleting(u)
      BY Zenon, <2>1 DEF Deleting, IInv, TypeOK
    <2>3. alive => MostUrgent(k')
      BY Zenon, <2>1 DEF Urgent
    <2>. QED BY Zenon, <2>1, <2>2, <2>3, AfterSchedule DEF Urgent
  <1>4. CASE rt_sem_release(t)
    <2>1. t = k.cur /\ alive' = alive /\ Release
      BY <1>4 DEF rt_sem_release, Call, At
    <2>2. CASE k.list[Sem] # <<>>
      <3>1. k' = rt_ipc_list_resume(k, Sem) /\ pc' = [pc EXCEPT ![t] = "schedule"]
        BY <1>4, <2>2 DEF rt_sem_release, Release, Goto
      <3>2. k'.cur = k.cur
        BY Zenon, <1>0, <2>2, <3>1, ResumeWaits
      <3>. QED BY Zenon, <2>1, <3>1, <3>2, BeforeSchedule
    <2>3. CASE k.list[Sem] = <<>>
      <3>1. k' = k /\ pc' = pc
        BY <1>4, <2>3 DEF rt_sem_release, Release
      <3>. QED BY <2>1, <3>1, SameUrgent
    <2>. QED BY <2>2, <2>3
  <1>5. CASE Reset(t)
    <2>1. t = k.cur /\ alive' = alive /\ k' = k /\ pc' = [pc EXCEPT ![t] = "reset"]
      BY <1>5 DEF Reset, Call, At, Goto, own
    <2>. QED BY Zenon, <2>1, BeforeSchedule
  <1>6. CASE ResetOne(t)
    <2>1. /\ t = k.cur /\ alive' = alive /\ pc' = [pc EXCEPT ![t] = "reset"]
          /\ k.list[Sem] # <<>> /\ k' = ResumeWithError(k, Sem)
      BY <1>6 DEF ResetOne, At, own, IInv, TypeOK
    <2>2. k'.cur = k.cur
      BY Zenon, <1>0, <2>1, ResumeWaits
    <2>. QED BY Zenon, <2>1, <2>2, BeforeSchedule
  <1>7. ASSUME NEW v \in 0 .. RT_SEM_VALUE_MAX + 1, ResetEnd(t, v) PROVE Urgent'
    <2>1. t = k.cur /\ alive' = alive /\ k' = k /\ pc' = [pc EXCEPT ![t] = "schedule"]
      BY Zenon, <1>7 DEF ResetEnd, At, Goto
    <2>. QED BY Zenon, <2>1, BeforeSchedule
  <1>8. CASE Delete(t)
    BY Zenon, <1>8 DEF Delete, Urgent
  <1>9. CASE (ResumeAllTest(t, Sem) \/ ResumeAllOne(t, Sem)) /\ UNCHANGED own
    <2>1. Deleting(t) /\ alive' = alive
      BY Zenon, <1>9 DEF ResumeAllTest, ResumeAllOne, At, Deleting, own
    <2>. QED BY Zenon, <2>1 DEF Urgent
  <1>10. ASSUME WaitSchedule(t) \/ Schedule(t), UNCHANGED own PROVE Urgent'
    BY Zenon, <1>2, <1>10 DEF WaitSchedule, Schedule
  <1>. QED BY SMTT(30), <1>1, <1>3, <1>4, <1>5, <1>6, <1>7, <1>8, <1>9, <1>10 DEF Step

\* No step at all misses a preemption.
LEMMA NextUrgent ==
  ASSUME IInv, Urgent, [Next]_vars
  PROVE  Urgent'
  <1>0. Waits(k) /\ Sound(k) /\ k.lock = 0
    BY Zenon DEF IInv, Waits
  <1>1. ASSUME NEW u \in Thread, Start(Main, u), UNCHANGED own PROVE Urgent'
    <2>1. /\ k.stat[u] = "INIT" /\ k' = rt_thread_startup(k, u)
          /\ pc' = pc /\ alive' = alive
      BY <1>1 DEF Start, own
    <2>2. LET r == rt_thread_startup(k, u) IN k.lock = 0 => MostUrgent(r)
      BY <1>0, <2>1, StartSound, Zenon
    <2>3. MostUrgent(k')
      BY Zenon, <1>0, <2>1, <2>2
    <2>4. \A w \in Thread : Deleting(w)' => Deleting(w)
      BY Zenon, <2>1 DEF Deleting
    <2>. QED BY <2>1, <2>3, <2>4, AfterSchedule
  <1>2. CASE IrqRelease
    <2>1. pc' = pc /\ alive' = alive
      BY Zenon, <1>2 DEF IrqRelease
    <2>2. CASE k.list[Sem] # <<>>
      <3> DEFINE r == rt_ipc_list_resume(k, Sem)
      <3>1. k' = rt_schedule(r)
        BY <1>2, <2>2 DEF IrqRelease, Release
      <3>2. Waits(r)
        BY Zenon, <1>0, <2>2, ResumeWaits
      <3> HIDE DEF r
      <3>3. MostUrgent(k')
        BY Zenon, <3>1, <3>2, ScheduleUrgent DEF Waits
      <3>4. \A w \in Thread : Deleting(w)' => Deleting(w)
        BY Zenon, <2>1 DEF Deleting
      <3>. QED BY Zenon, <2>1, <3>3, <3>4, AfterSchedule
    <2>3. CASE k.list[Sem] = <<>>
      <3>1. k' = k
        BY <1>2, <2>3 DEF IrqRelease, Release
      <3>. QED BY Zenon, <2>1, <3>1, SameUrgent
    <2>. QED BY Zenon, <2>2, <2>3
  <1>3. CASE Tick /\ UNCHANGED own
    <2>1. pc' = pc /\ alive' = alive
      BY <1>3 DEF Tick, TickEnter, TimerExpire, TickLeave, own
    <2>2. \A w \in Thread : Deleting(w)' => Deleting(w)
      BY <2>1 DEF Deleting
    <2>3. CASE TickEnter
      <3>1. k' = rt_tick_increase(k)
        BY Zenon, <2>3 DEF TickEnter
      <3>2. MostUrgent(k') \/ (k'.cur = k.cur /\ ~ MostUrgent(k))
        BY Zenon, <1>0, <3>1, TickUrgent
      <3>3. CASE MostUrgent(k')
        BY Zenon, <2>1, <2>2, <3>3, AfterSchedule
      <3>4. CASE k'.cur = k.cur /\ ~ MostUrgent(k)
        BY Zenon, <2>1, <2>2, <3>4 DEF Urgent
      <3>. QED BY Zenon, <3>2, <3>3, <3>4
    <2>4. CASE TimerExpire
      <3>1. k.tmr # <<>> /\ k.tmr \in Seq(Thread) /\ k' = rt_thread_timeout(k, Head(k.tmr))
        BY Zenon, <2>4 DEF TimerExpire, TimerDue, IInv, TypeOK, KernelState
      <3>2. Head(k.tmr) \in Thread /\ Has(k.tmr, Head(k.tmr))
        BY Zenon, <3>1, EmptyHasNone
      <3>3. MostUrgent(k')
        BY Zenon, <1>0, <3>1, <3>2, TimeoutUrgent
      <3>. QED BY Zenon, <2>1, <2>2, <3>3, AfterSchedule
    <2>5. CASE TickLeave
      BY Zenon, <2>1, <2>5, SameUrgent DEF TickLeave
    <2>. QED BY Zenon, <1>3, <2>3, <2>4, <2>5 DEF Tick
  <1>4. CASE UNCHANGED vars
    BY <1>4, SameUrgent DEF vars
  <1>. QED BY Zenon, <1>1, <1>2, <1>3, <1>4, ThreadUrgent DEF Next

\* The invariant holds in every state.
LEMMA Invariance == Spec => [](IInv /\ Urgent)
  <1>1. Init => IInv
    BY InitInv
  <1>2. Init => Urgent
    <2>1. SUFFICES ASSUME Init PROVE Urgent
      OBVIOUS
    <2>2. /\ pc = [t \in Thread |-> "user"] /\ k.cur = Main
          /\ k.stat = [t \in Thread |-> CASE t = Main -> "RUNNING"
                                          [] t = Idle -> "READY"
                                          [] OTHER    -> "INIT"]
          /\ k.prio = InitPriority
      BY <2>1 DEF Init, Boot
    <2>3. MostUrgent(k)
      <3>1. \A t \in Thread : k.stat[t] = "READY" => t = Idle
        BY <2>2
      <3>2. k.prio[Main] <= k.prio[Idle]
        BY <2>2, BootAssumption, PriorityAssumption DEF Priority
      <3>. QED BY <2>2, <3>1, <3>2 DEF MostUrgent
    <2>. QED BY <2>2, <2>3 DEF Urgent, Deleting
  <1>3. IInv /\ Urgent /\ [Next]_vars => (IInv /\ Urgent)'
    BY NextInv, NextUrgent
  <1>. QED BY <1>1, <1>2, <1>3, PTL DEF Spec

\* For any number of threads, priorities and tokens: rt_sem_take,
\* rt_sem_release, rt_sem_control, rt_sem_delete, rt_thread_startup and the
\* tick interrupt never corrupt a list, the bitmap of the scheduler or the list
\* of the thread timers.
THEOREM SemaphoreSafe ==
  Spec => [](TypeOK /\ LinkedOnce /\ ReadyQueue /\ HighestExists /\ TimerOnlySuspended)
  <1>1. IInv => TypeOK /\ LinkedOnce /\ ReadyQueue /\ HighestExists /\ TimerOnlySuspended
    BY InvImplies
  <1>. QED BY <1>1, Invariance, PTL

\* For any number of threads, priorities and tokens a release that finds the
\* list empty and a take that finds the value 0 never miss each other.
THEOREM SemaphoreNoTokenHeldBack == Spec => []NoTokenHeldBack
  <1>1. IInv => NoTokenHeldBack
    BY Zenon, InvImplies
  <1>. QED BY <1>1, Invariance, PTL

\* For any number of threads, priorities and tokens a thread in the list of the
\* semaphore is suspended inside rt_sem_take, and one that rt_sem_release,
\* rt_ipc_list_resume_all or its timer has taken off the list is not suspended.
THEOREM SemaphoreWaitersWait == Spec => []WaitersWait
  <1>1. IInv => WaitersWait
    BY Zenon, InvImplies
  <1>. QED BY <1>1, Invariance, PTL

\* For any number of threads and priorities the list rt_ipc_list_suspend builds
\* for a PRIO semaphore is sorted, so that a release wakes the most urgent.
THEOREM SemaphoreUrgentFirst == Spec => []UrgentFirst
  <1>1. IInv => UrgentFirst
    BY Zenon, InvImplies
  <1>. QED BY <1>1, Invariance, PTL

\* For any number of threads no thread is left in the list of a semaphore when
\* rt_sem_delete has returned, though rt_ipc_list_resume_all tests the list
\* with the interrupts enabled.
THEOREM SemaphoreNoneWaitsOnDeleted == Spec => []NoneWaitsOnDeleted
  <1>1. IInv => NoneWaitsOnDeleted
    BY InvImplies
  <1>. QED BY <1>1, Invariance, PTL

\* For any number of threads, priorities and tokens no preemption is missed as
\* long as the semaphore exists: whichever of a release, an interrupt, a reset
\* and a timeout makes a waiter ready, rt_schedule is called before a thread
\* that is less urgent goes on.
THEOREM SemaphoreWakesPreempt == Spec => []WakesPreempt
  <1>1. IInv /\ Urgent => WakesPreempt
    BY DEF Urgent, WakesPreempt, HighestRuns, MostUrgent
  <1>. QED BY <1>1, Invariance, PTL

\* For any number of threads, priorities and tokens the semaphore implements
\* the counting semaphore: a token is given to one thread or counted, and a
\* call of rt_sem_take ends in exactly one way, whatever releases, timeouts,
\* resets and deletions do at the same time.
THEOREM SemaphoreImplements ==
  Spec => IsCountingSemaphore
  <1>1. Init => IInv /\ Abstract!Init
    BY InitInv
  <1>2. IInv /\ [Next]_vars => IInv' /\ [Abstract!Next]_(Abstract!vars)
    BY NextInv DEF Refines
  <1>. QED BY <1>1, <1>2, PTL DEF Spec, IsCountingSemaphore, Abstract!Spec

=============================================================================
