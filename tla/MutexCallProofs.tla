-------------------------- MODULE MutexCallProofs --------------------------
(***************************************************************************)
(* The inductive invariant of Mutex, and why rt_mutex_take,                *)
(* rt_mutex_release and rt_mutex_delete keep it.                           *)
(***************************************************************************)
EXTENDS Mutex, KernelProofs

Loc == {"user", "sleep", "slept", "wait", "woken", "schedule", "delete", "delete1"}

Record == [ value : {0, 1}, owner : Thread \cup {NoThread},
            hold : 0 .. RT_MUTEX_HOLD_MAX,
            original_priority : Priority \cup {NoPriority},
            alive : BOOLEAN ]

Types ==
  /\ pc \in [Thread -> Loc] /\ mode \in {"thread", "tick"}
  /\ DOMAIN mutex \subseteq Mutexes /\ want \in [Thread -> DOMAIN mutex]

\* The kernel data are consistent, and the idle thread never waits.
KernelOK(s) ==
  /\ Sound(s) /\ s.lock = 0
  /\ \A t \in Thread : s.stat[t] # "CLOSE"
  /\ s.stat[Idle] # "SUSPEND" /\ s.stat[Idle] # "INIT"

\* The current thread has been given the processor, or has suspended itself
\* and is about to call rt_schedule.
CurrentRuns == k.stat[k.cur] = "RUNNING" \/ pc[k.cur] \in {"wait", "sleep"}

\* A thread inside rt_mutex_take, and one inside rt_mutex_delete.
Taking(t) == pc[t] \in {"wait", "woken"}
Deleting(t) == pc[t] \in {"delete", "delete1"}

\* A thread waits only in the list of the mutex it wants and does not own, and
\* no error is stored for it; when its wait is over, it is not suspended, and it
\* owns the mutex or has an error, and not both.
ThreadOK(t) ==
  /\ \A l \in List : LinkedIn(k, t, l) =>
       Taking(t) /\ want[t] = l /\ k.error[t] = "EOK" /\ mutex[l].owner # t
  /\ Taking(t) /\ k.stat[t] = "SUSPEND" => LinkedIn(k, t, want[t])
  /\ Taking(t) /\ ~ LinkedIn(k, t, want[t]) /\ Alive(want[t]) =>
       (k.error[t] = "EOK" <=> mutex[want[t]].owner = t)
  /\ Deleting(t) => ~ Alive(want[t])

\* The fields of a mutex agree; nobody waits for a mutex that is free, nor for
\* one that has been deleted.
MutexOK(m) ==
  /\ mutex[m] \in Record
  /\ mutex[m].value = 1 <=> mutex[m].owner = NoThread
  /\ mutex[m].hold = 0 <=> mutex[m].owner = NoThread
  /\ mutex[m].owner # NoThread => mutex[m].original_priority \in Priority
  /\ mutex[m].owner = NoThread => \A u \in Thread : ~ LinkedIn(k, u, m)
  /\ \/ Alive(m)
     \/ \A u \in Thread : ~ LinkedIn(k, u, m)
     \/ \E t \in Thread : Deleting(t) /\ want[t] = m

\* The inductive invariant.
IInv ==
  /\ Types /\ KernelOK(k) /\ CurrentRuns
  /\ \A t \in Thread : ThreadOK(t)
  /\ \A m \in DOMAIN mutex : MutexOK(m)

-----------------------------------------------------------------------------
\* The idle thread is ready or running.
LEMMA IdleReady ==
  ASSUME NEW s, KernelOK(s)
  PROVE  s.stat[Idle] \in {"READY", "RUNNING"}
  <1>1. s.stat[Idle] \in Stat
    BY BootAssumption DEF KernelOK, Sound, SoundBut, WellFormed, KernelState
  <1>. QED BY <1>1, BootAssumption DEF KernelOK, Stat

\* Consistent kernel data are typed, and priorities are integers.
LEMMA OKTyped ==
  ASSUME NEW s, KernelOK(s)
  PROVE  s \in KernelState /\ Priority \subseteq Int
  BY DEF KernelOK, Sound, SoundBut, WellFormed, Priority

\* The kernel data stay consistent if x, not the idle thread, is suspended, or
\* if x is made ready, and nothing happens to the others.
LEMMA KernelStep ==
  ASSUME NEW s, NEW r, KernelOK(s), Sound(r), r.lock = s.lock, NEW x \in Thread,
         r.stat[x] \in {"READY", "RUNNING"} \/ (r.stat[x] = "SUSPEND" /\ x # Idle),
         \A u \in Thread \ {x} : Same(s, r, u)
  PROVE  KernelOK(r)
  BY BootAssumption DEF KernelOK, Same

\* What the invariant says of a thread t that executes at location l.
LEMMA AtRuns ==
  ASSUME IInv, NEW t \in Thread, NEW l, At(t, l), l \notin {"wait", "sleep"}
  PROVE  /\ t = k.cur /\ pc[t] = l /\ k.stat[t] = "RUNNING"
         /\ \A m \in List : ~ LinkedIn(k, t, m)
  <1>1. t = k.cur /\ pc[t] = l /\ k.stat[t] = "RUNNING" /\ Fits(k, t)
    BY DEF At, IInv, CurrentRuns, KernelOK, Sound, SoundBut
  <1>. QED BY <1>1 DEF Fits

\* A thread that is linked is suspended.
LEMMA LinkedSuspended ==
  ASSUME NEW s, KernelOK(s), NEW t \in Thread, NEW l \in List, LinkedIn(s, t, l)
  PROVE  s.stat[t] = "SUSPEND"
  BY DEF KernelOK, Sound, SoundBut, Fits

\* A step keeps what the invariant says of a thread that does not notice it.
LEMMA ThreadKept ==
  ASSUME Types, NEW u \in Thread, ThreadOK(u),
         \A l \in List : LinkedIn(k', u, l) <=> LinkedIn(k, u, l),
         k'.stat[u] = "SUSPEND" => k.stat[u] = "SUSPEND",
         k'.error[u] = k.error[u], want'[u] = want[u],
         Taking(u)' <=> Taking(u), Deleting(u)' => Deleting(u),
         \A m \in DOMAIN mutex : /\ mutex'[m].owner = u <=> mutex[m].owner = u
                                 /\ mutex'[m].alive => mutex[m].alive
  PROVE  ThreadOK(u)'
  <1>1. want[u] \in DOMAIN mutex /\ want[u] \in List
    BY MutexAssumption DEF Types
  <1>2. ASSUME NEW l \in List, LinkedIn(k', u, l)
        PROVE  Taking(u)' /\ want'[u] = l /\ k'.error[u] = "EOK" /\ mutex'[l].owner # u
    BY <1>1, <1>2 DEF ThreadOK
  <1>3. ASSUME Taking(u)', ~ LinkedIn(k', u, want'[u]), mutex'[want'[u]].alive
        PROVE  k'.error[u] = "EOK" <=> mutex'[want'[u]].owner = u
    BY <1>1, <1>3 DEF ThreadOK, Alive
  <1>4. ASSUME Deleting(u)' PROVE ~ mutex'[want'[u]].alive
    BY <1>1, <1>4 DEF ThreadOK, Alive
  <1>5. ASSUME Taking(u)', k'.stat[u] = "SUSPEND" PROVE LinkedIn(k', u, want'[u])
    BY <1>1, <1>5 DEF ThreadOK
  <1>. QED BY <1>2, <1>3, <1>4, <1>5 DEF ThreadOK, Alive

\* A thread in its own code, or in a call that neither waits nor deletes.
LEMMA ThreadFree ==
  ASSUME NEW u \in Thread, ~ Taking(u)', ~ Deleting(u)',
         \A l \in List : ~ LinkedIn(k', u, l)
  PROVE  ThreadOK(u)'
  BY DEF ThreadOK

\* A step keeps what the invariant says of a mutex that it does not change.
LEMMA MutexKept ==
  ASSUME NEW m \in DOMAIN mutex, MutexOK(m), mutex'[m] = mutex[m],
         \A u \in Thread : LinkedIn(k', u, m) => LinkedIn(k, u, m),
         \A u \in Thread : Deleting(u) /\ want[u] = m =>
           \/ Deleting(u)' /\ want'[u] = m
           \/ \A v \in Thread : ~ LinkedIn(k', v, m)
  PROVE  MutexOK(m)'
  BY DEF MutexOK, Alive

-----------------------------------------------------------------------------
\* A step that changes no mutex and is noticed by thread t only.
LEMMA LocalStep ==
  ASSUME IInv, NEW t \in Thread, mutex' = mutex, want' = want, Types',
         KernelOK(k'), CurrentRuns',
         \A u \in Thread \ {t} : /\ Same(k, k', u) /\ k'.error[u] = k.error[u]
                                 /\ Taking(u)' <=> Taking(u)
                                 /\ Deleting(u)' <=> Deleting(u),
         \A l \in List : LinkedIn(k', t, l) => LinkedIn(k, t, l),
         ThreadOK(t)',
         Deleting(t) => \/ Deleting(t)'
                        \/ \A v \in Thread : ~ LinkedIn(k', v, want[t])
  PROVE  IInv'
  <1>1. ASSUME NEW u \in Thread PROVE ThreadOK(u)'
    <2>1. CASE u = t
      BY Zenon, <2>1
    <2>2. CASE u # t
      <3>1. Types /\ ThreadOK(u) /\ want'[u] = want[u]
        BY DEF IInv
      <3>2. \A m \in DOMAIN mutex : /\ mutex'[m].owner = u <=> mutex[m].owner = u
                                    /\ mutex'[m].alive => mutex[m].alive
        OBVIOUS
      <3>. QED BY <2>2, <3>1, <3>2, ThreadKept DEF Same
    <2>. QED BY <2>1, <2>2
  <1>2. ASSUME NEW m \in DOMAIN mutex PROVE MutexOK(m)'
    <2>1. m \in List /\ MutexOK(m)
      BY MutexAssumption DEF IInv, Types
    <2>2. \A u \in Thread : LinkedIn(k', u, m) => LinkedIn(k, u, m)
      BY <2>1 DEF Same
    <2>. QED BY <2>1, <2>2, MutexKept
  <1>. QED BY <1>1, <1>2 DEF IInv

\* A step in which thread t, in its own code, changes mutex m and is or was its
\* owner.
LEMMA OwnStep ==
  ASSUME IInv, NEW t \in Thread, NEW m \in DOMAIN mutex,
         DOMAIN mutex' = DOMAIN mutex, want' = want, pc' = pc, mode' = mode,
         \A n \in DOMAIN mutex \ {m} : mutex'[n] = mutex[n],
         {mutex[m].owner, mutex'[m].owner} \subseteq {t, NoThread},
         mutex'[m].alive => mutex[m].alive,
         At(t, "user"), KernelOK(k'), k'.stat[k'.cur] = "RUNNING",
         \A u \in Thread : Same(k, k', u) /\ (u # t => k'.error[u] = k.error[u]),
         MutexOK(m)'
  PROVE  IInv'
  <1>1. pc[t] = "user" /\ \A l \in List : ~ LinkedIn(k, t, l)
    BY AtRuns
  <1>2. ASSUME NEW u \in Thread PROVE ThreadOK(u)'
    <2>1. CASE u = t
      BY Zenon, <1>1, <2>1, ThreadFree DEF Taking, Deleting, Same
    <2>2. CASE u # t
      <3>1. Types /\ ThreadOK(u) /\ want'[u] = want[u]
            /\ (Taking(u)' <=> Taking(u)) /\ (Deleting(u)' => Deleting(u))
        BY DEF IInv, Taking, Deleting
      <3>2. \A n \in DOMAIN mutex : /\ mutex'[n].owner = u <=> mutex[n].owner = u
                                    /\ mutex'[n].alive => mutex[n].alive
        BY <2>2, MutexAssumption
      <3>. QED BY Zenon, <2>2, <3>1, <3>2, ThreadKept DEF Same
    <2>. QED BY Zenon, <2>1, <2>2
  <1>3. ASSUME NEW n \in DOMAIN mutex, n # m PROVE MutexOK(n)'
    <2>1. n \in List /\ MutexOK(n)
      BY Zenon, MutexAssumption DEF IInv, Types
    <2>2. \A u \in Thread : LinkedIn(k', u, n) => LinkedIn(k, u, n)
      BY Zenon, <2>1 DEF Same
    <2>. QED BY Zenon, <1>3, <2>1, <2>2, MutexKept DEF Deleting
  <1>4. Types' /\ CurrentRuns'
    BY DEF IInv, Types, CurrentRuns
  <1>. QED BY <1>2, <1>3, <1>4 DEF IInv

-----------------------------------------------------------------------------
\* Storing an error changes nothing else.
LEMMA ErrorSound ==
  ASSUME NEW s, Sound(s), NEW t \in Thread, NEW e \in Error
  PROVE  LET r == SetError(s, t, e)
         IN  /\ Sound(r) /\ r.prio = s.prio /\ r.list = s.list
             /\ r.stat = s.stat /\ r.cur = s.cur /\ r.lock = s.lock
             /\ r.error = [s.error EXCEPT ![t] = e]
             /\ \A u \in Thread : Same(s, r, u)
  <1> DEFINE r == SetError(s, t, e)
  <1>1. s \in KernelState /\ SoundBut(s, {})
    BY DEF Sound, SoundBut, WellFormed
  <1>2. /\ r \in KernelState /\ r.error = [s.error EXCEPT ![t] = e]
        /\ r.stat = s.stat /\ r.prio = s.prio /\ r.list = s.list /\ r.group = s.group
        /\ r.cur = s.cur /\ r.lock = s.lock /\ r.tmr = s.tmr
    BY Zenon, <1>1 DEF KernelState, SetError
  <1> HIDE DEF r
  <1>3. Sound(r)
    BY <1>1, <1>2, DataSound DEF Sound
  <1>4. \A u \in Thread : Same(s, r, u)
    BY <1>2 DEF Same, LinkedIn
  <1>. QED BY Zenon, <1>2, <1>3, <1>4 DEF r

\* The kernel data after an error has been stored for t, which executes.
LEMMA ErrorStep ==
  ASSUME IInv, NEW t \in Thread, NEW l, At(t, l), l \notin {"wait", "sleep"},
         NEW e \in Error, k' = SetError(k, t, e)
  PROVE  /\ KernelOK(k') /\ k'.stat[k'.cur] = "RUNNING" /\ k.prio[t] \in Priority
         /\ \A u \in Thread : Same(k, k', u) /\ (u # t => k'.error[u] = k.error[u])
  <1>0. Sound(k)
    BY DEF IInv, KernelOK
  <1>1. KernelOK(k) /\ t = k.cur /\ k.stat[t] = "RUNNING"
    BY AtRuns DEF IInv
  <1>2. k.error \in [Thread -> Error] /\ k.prio \in [Thread -> Priority]
    BY Zenon, <1>0 DEF Sound, SoundBut, WellFormed, KernelState
  <1>3. /\ Sound(k') /\ k'.stat = k.stat /\ k'.cur = k.cur /\ k'.lock = k.lock
        /\ k'.error = [k.error EXCEPT ![t] = e]
        /\ \A u \in Thread : Same(k, k', u)
    <2>1. LET r == SetError(k, t, e)
          IN  /\ Sound(r) /\ r.prio = k.prio /\ r.list = k.list
              /\ r.stat = k.stat /\ r.cur = k.cur /\ r.lock = k.lock
              /\ r.error = [k.error EXCEPT ![t] = e]
              /\ \A u \in Thread : Same(k, r, u)
      BY Zenon, <1>0, ErrorSound
    <2>. QED BY <2>1
  <1>4. KernelOK(k')
    BY <1>1, <1>3 DEF KernelOK
  <1>. QED BY Zenon, <1>1, <1>2, <1>3, <1>4

\* rt_mutex_take by the owner
LEMMA TakeAgainInv ==
  ASSUME IInv, NEW t \in Thread, NEW m \in DOMAIN mutex, Call(t, "take"), Alive(m),
         TakeAgain(t, m), UNCHANGED mode
  PROVE  IInv'
  <1> DEFINE h == mutex[m].hold
             h1 == IF h < RT_MUTEX_HOLD_MAX THEN h + 1 ELSE h
  <1>1. /\ At(t, "user") /\ k' = SetError(k, t, "EOK") /\ pc' = pc /\ want' = want
        /\ mode' = mode /\ "EOK" \in Error
    BY DEF Call, TakeAgain, Error
  <1>2. /\ KernelOK(k') /\ k'.stat[k'.cur] = "RUNNING"
        /\ \A u \in Thread : Same(k, k', u) /\ (u # t => k'.error[u] = k.error[u])
    BY Zenon, <1>1, ErrorStep
  <1>3. MutexOK(m) /\ mutex[m] \in Record /\ mutex[m].owner = t /\ t # NoThread
    BY MutexAssumption DEF IInv, MutexOK, TakeAgain
  <1>4. /\ DOMAIN mutex' = DOMAIN mutex
        /\ \A n \in DOMAIN mutex \ {m} : mutex'[n] = mutex[n]
        /\ mutex'[m] = [mutex[m] EXCEPT !.hold = h1]
    BY DEF TakeAgain
  <1>5. h1 \in 0 .. RT_MUTEX_HOLD_MAX /\ h1 # 0 /\ h # 0
    BY <1>3, MutexAssumption DEF MutexOK, Record
  <1> HIDE DEF h1, h
  <1>6. /\ mutex'[m] \in Record /\ mutex'[m].hold = h1
        /\ mutex'[m].owner = t /\ mutex'[m].value = mutex[m].value
        /\ mutex'[m].original_priority = mutex[m].original_priority
        /\ mutex'[m].alive = mutex[m].alive
    BY Zenon, <1>3, <1>4, <1>5 DEF Record
  <1>7. MutexOK(m)'
    BY <1>3, <1>5, <1>6 DEF MutexOK, Alive
  <1>. QED BY ZenonT(60), <1>1, <1>2, <1>3, <1>4, <1>6, <1>7, OwnStep

\* rt_mutex_take of a free mutex
LEMMA TakeFreeInv ==
  ASSUME IInv, NEW t \in Thread, NEW m \in DOMAIN mutex, Call(t, "take"), Alive(m),
         TakeFree(t, m), UNCHANGED mode
  PROVE  IInv'
  <1>1. /\ At(t, "user") /\ k' = SetError(k, t, "EOK") /\ pc' = pc /\ want' = want
        /\ mode' = mode /\ "EOK" \in Error
    BY DEF Call, TakeFree, Error
  <1>2. /\ KernelOK(k') /\ k'.stat[k'.cur] = "RUNNING" /\ k.prio[t] \in Priority
        /\ \A u \in Thread : Same(k, k', u) /\ (u # t => k'.error[u] = k.error[u])
    BY Zenon, <1>1, ErrorStep
  <1>3. /\ MutexOK(m) /\ mutex[m] \in Record /\ t # NoThread
        /\ mutex[m].value = 1 /\ mutex[m].owner = NoThread /\ mutex[m].hold = 0
    BY MutexAssumption DEF IInv, MutexOK, TakeFree, Record
  <1>4. /\ DOMAIN mutex' = DOMAIN mutex
        /\ \A n \in DOMAIN mutex \ {m} : mutex'[n] = mutex[n]
        /\ mutex'[m] = [ mutex[m] EXCEPT !.value = 0, !.owner = t, !.hold = 1,
                                         !.original_priority = k.prio[t] ]
    BY <1>3 DEF TakeFree
  <1>5. /\ mutex'[m] \in Record /\ mutex'[m].hold = 1
        /\ mutex'[m].owner = t /\ mutex'[m].value = 0
        /\ mutex'[m].original_priority = k.prio[t]
        /\ mutex'[m].alive = mutex[m].alive
    <2>1. 1 \in 0 .. RT_MUTEX_HOLD_MAX
      BY MutexAssumption
    <2>. QED BY Zenon, <1>2, <1>3, <1>4, <2>1 DEF Record
  <1>6. MutexOK(m)'
    BY <1>2, <1>3, <1>5 DEF MutexOK, Alive
  <1>7. /\ {mutex[m].owner, mutex'[m].owner} \subseteq {t, NoThread}
        /\ mutex'[m].alive => mutex[m].alive
    BY Zenon, <1>3, <1>5
  <1>. QED BY Zenon, <1>1, <1>2, <1>4, <1>6, <1>7, OwnStep

\* A call that only stores an error: rt_mutex_take that may not wait, and
\* rt_mutex_release by a thread that is not the owner.
LEMMA OnlyErrorInv ==
  ASSUME IInv, NEW t \in Thread, At(t, "user"), NEW e \in Error,
         k' = SetError(k, t, e), pc' = pc, mode' = mode, want' = want, mutex' = mutex
  PROVE  IInv'
  <1>1. /\ KernelOK(k') /\ k'.stat[k'.cur] = "RUNNING"
        /\ \A u \in Thread : Same(k, k', u) /\ (u # t => k'.error[u] = k.error[u])
    BY ErrorStep
  <1>2. pc[t] = "user" /\ \A l \in List : ~ LinkedIn(k, t, l)
    BY Zenon, AtRuns
  <1>3. \A l \in List : ~ LinkedIn(k', t, l)
    BY <1>1, <1>2 DEF Same
  <1>4. ThreadOK(t)' /\ ~ Deleting(t)
    BY Zenon, <1>2, <1>3, ThreadFree DEF Taking, Deleting
  <1>5. Types' /\ CurrentRuns'
    BY Zenon, <1>1 DEF IInv, Types, CurrentRuns
  <1>6. \A u \in Thread \ {t} : /\ Same(k, k', u) /\ k'.error[u] = k.error[u]
                                /\ Taking(u)' <=> Taking(u)
                                /\ Deleting(u)' <=> Deleting(u)
    BY <1>1 DEF Taking, Deleting
  <1>. QED BY SMTT(30), <1>1, <1>3, <1>4, <1>5, <1>6, LocalStep

\* The owner t gets the priority back that it had when it took the mutex.
LEMMA RestoreSound ==
  ASSUME IInv, NEW t \in Thread, NEW m \in DOMAIN mutex, At(t, "user"),
         mutex[m].owner = t
  PROVE  LET r == Restore(m)
         IN  /\ Reranked(k, r) /\ KernelOK(r) /\ r.stat[r.cur] = "RUNNING"
             /\ r.prio[t] = mutex[m].original_priority
             /\ \A u \in Thread \ {t} : r.prio[u] = k.prio[u]
  <1> DEFINE r == Restore(m)
  <1>1. Sound(k) /\ KernelOK(k) /\ k.cur = t /\ k.stat[t] = "RUNNING"
    BY Zenon, AtRuns DEF IInv, KernelOK
  <1>2. mutex[m].original_priority \in Priority
    BY MutexAssumption DEF IInv, MutexOK
  <1>3. \/ r = k /\ k.prio[t] = mutex[m].original_priority
        \/ r = ChangePriority(k, t, mutex[m].original_priority)
    BY DEF Restore
  <1>4. Reranked(k, k)
    BY <1>1 DEF Reranked
  <1>5. /\ Reranked(k, ChangePriority(k, t, mutex[m].original_priority))
        /\ ChangePriority(k, t, mutex[m].original_priority).prio[t] =
             mutex[m].original_priority
        /\ \A u \in Thread \ {t} :
             ChangePriority(k, t, mutex[m].original_priority).prio[u] = k.prio[u]
    BY Zenon, <1>1, <1>2, ChangeSound
  <1> HIDE DEF r
  <1>8. /\ r.prio[t] = mutex[m].original_priority
        /\ \A u \in Thread \ {t} : r.prio[u] = k.prio[u]
    <2>1. k.prio \in [Thread -> Priority]
      BY <1>1 DEF Sound, SoundBut, WellFormed, KernelState
    <2>. QED BY <1>3, <1>5, <2>1
  <1>6. Reranked(k, r)
    BY <1>3, <1>4, <1>5
  <1>7. KernelOK(r) /\ r.stat[r.cur] = "RUNNING"
    BY <1>1, <1>6 DEF Reranked, KernelOK
  <1>. QED BY Zenon, <1>6, <1>7, <1>8 DEF r

\* The last release of a mutex nobody waits for
LEMMA SetFreeInv ==
  ASSUME IInv, NEW t \in Thread, NEW m \in DOMAIN mutex, Call(t, "release"), Alive(m),
         mutex[m].owner = t, SetFree(t, m), UNCHANGED <<mode, want>>
  PROVE  IInv'
  <1>1. /\ At(t, "user") /\ k' = Restore(m) /\ pc' = pc /\ want' = want /\ mode' = mode
        /\ k.list[m] = <<>> /\ m \in List
    BY Zenon, MutexAssumption DEF Call, SetFree, IInv, Types
  <1>2. Reranked(k, k') /\ KernelOK(k') /\ k'.stat[k'.cur] = "RUNNING"
    BY Zenon, <1>1, RestoreSound
  <1>3. \A u \in Thread : Same(k, k', u) /\ (u # t => k'.error[u] = k.error[u])
    BY Zenon, <1>2, RerankedSame DEF Reranked
  <1>4. \A u \in Thread : ~ LinkedIn(k', u, m)
    BY <1>1, <1>2 DEF Reranked, LinkedIn, Has
  <1>5. MutexOK(m) /\ mutex[m] \in Record /\ t # NoThread /\ mutex[m].value = 0
    BY MutexAssumption DEF IInv, MutexOK, Record
  <1>6. /\ DOMAIN mutex' = DOMAIN mutex
        /\ \A n \in DOMAIN mutex \ {m} : mutex'[n] = mutex[n]
        /\ mutex'[m] = [FreeMutex EXCEPT !.value = 1]
    BY <1>5 DEF SetFree
  <1>7. /\ mutex'[m] \in Record /\ mutex'[m].value = 1 /\ mutex'[m].hold = 0
        /\ mutex'[m].owner = NoThread /\ mutex'[m].alive
    <2>1. 0 \in 0 .. RT_MUTEX_HOLD_MAX
      BY MutexAssumption
    <2>. QED BY Zenon, <1>6, <2>1 DEF FreeMutex, Record
  <1>8. MutexOK(m)'
    BY Zenon, <1>4, <1>7 DEF MutexOK, Alive
  <1>9. /\ {mutex[m].owner, mutex'[m].owner} \subseteq {t, NoThread}
        /\ mutex'[m].alive => mutex[m].alive
    BY <1>7 DEF Alive
  <1>. QED BY Zenon, <1>1, <1>2, <1>3, <1>6, <1>8, <1>9, OwnStep

\* A release that is not the last
LEMMA ReleaseOneInv ==
  ASSUME IInv, NEW t \in Thread, NEW m \in DOMAIN mutex, Call(t, "release"), Alive(m),
         mutex[m].owner = t, ReleaseOne(t, m), UNCHANGED <<mode, want>>
  PROVE  IInv'
  <1> DEFINE h == mutex[m].hold
  <1>1. At(t, "user") /\ k' = k /\ pc' = pc /\ want' = want /\ mode' = mode /\ h > 1
    BY Zenon DEF Call, ReleaseOne
  <1>2. /\ KernelOK(k') /\ k'.stat[k'.cur] = "RUNNING"
        /\ \A u \in Thread : Same(k, k', u) /\ (u # t => k'.error[u] = k.error[u])
    BY Zenon, <1>1, AtRuns DEF IInv, Same
  <1>3. MutexOK(m) /\ mutex[m] \in Record /\ mutex[m].owner = t /\ t # NoThread
    BY MutexAssumption DEF IInv, MutexOK
  <1>4. /\ DOMAIN mutex' = DOMAIN mutex
        /\ \A n \in DOMAIN mutex \ {m} : mutex'[n] = mutex[n]
        /\ mutex'[m] = [mutex[m] EXCEPT !.hold = h - 1]
    BY Zenon DEF ReleaseOne
  <1>5. h - 1 \in 0 .. RT_MUTEX_HOLD_MAX /\ h - 1 # 0 /\ h # 0
    BY <1>1, <1>3, MutexAssumption DEF Record
  <1> HIDE DEF h
  <1>6. /\ mutex'[m] \in Record /\ mutex'[m].hold = h - 1
        /\ mutex'[m].owner = t /\ mutex'[m].value = mutex[m].value
        /\ mutex'[m].original_priority = mutex[m].original_priority
        /\ mutex'[m].alive = mutex[m].alive
    BY Zenon, <1>3, <1>4, <1>5 DEF Record
  <1>7. MutexOK(m)'
    BY Zenon, <1>3, <1>5, <1>6 DEF MutexOK, Alive
  <1>8. {mutex[m].owner, mutex'[m].owner} \subseteq {t, NoThread}
    BY Zenon, <1>3, <1>6
  <1>. QED BY Zenon, <1>1, <1>2, <1>4, <1>6, <1>7, <1>8, OwnStep

-----------------------------------------------------------------------------
\* What a wait of t for m does to the priorities and to the list of m.
Boosted(t, m) ==
  /\ \A u \in Thread \ {mutex[m].owner} : k'.prio[u] = k.prio[u]
  /\ k'.prio[mutex[m].owner] <= k.prio[mutex[m].owner]
  /\ k'.prio[mutex[m].owner] <= k.prio[t]
  /\ Flag[m] = "PRIO" /\ Ordered(k.list[m], k.prio) => Ordered(k'.list[m], k'.prio)

\* The kernel data when t begins to wait for m: the owner may have got its
\* priority, and t is suspended in the list of m.
LEMMA WaitStep ==
  ASSUME IInv, NEW t \in Thread, NEW m \in DOMAIN mutex, NEW time \in Int, t # Idle,
         At(t, "user"), mutex[m].owner \in Thread,
         k' = Wait(Inherit(SetError(k, t, "EOK"), t, m), m, t, time)
  PROVE  /\ KernelOK(k') /\ k'.cur = t /\ LinkedIn(k', t, m) /\ k'.error[t] = "EOK"
         /\ \A l \in List : LinkedIn(k', t, l) => l = m
         /\ \A u \in Thread \ {t} : Same(k, k', u) /\ k'.error[u] = k.error[u]
         /\ Boosted(t, m)
  <1> DEFINE a == SetError(k, t, "EOK")
             b == Inherit(a, t, m)
             o == mutex[m].owner
  <1>0. Sound(k) /\ m \in List /\ "EOK" \in Error
    BY MutexAssumption DEF IInv, KernelOK, Types, Error
  <1>1. t = k.cur /\ KernelOK(k) /\ \A l \in List : ~ LinkedIn(k, t, l)
    BY AtRuns DEF IInv
  <1>2. LET r == a
        IN  /\ Sound(r) /\ r.prio = k.prio /\ r.list = k.list
            /\ r.stat = k.stat /\ r.cur = k.cur /\ r.lock = k.lock
            /\ r.error = [k.error EXCEPT ![t] = "EOK"]
            /\ \A u \in Thread : Same(k, r, u)
    BY Zenon, <1>0, ErrorSound
  <1>3. a.error[t] = "EOK" /\ \A u \in Thread \ {t} : a.error[u] = k.error[u]
    <2>1. k.error \in [Thread -> Error]
      BY Zenon, <1>0 DEF Sound, SoundBut, WellFormed, KernelState
    <2>. QED BY Zenon, <1>2, <2>1
  <1>4. \/ b = a /\ ~ (a.prio[t] < a.prio[o])
        \/ b = ChangePriority(a, o, a.prio[t]) /\ a.prio[t] < a.prio[o]
    BY Zenon DEF Inherit
  <1>5. a.prio[t] \in Priority
    BY Zenon, <1>0, <1>2 DEF Sound, SoundBut, WellFormed, KernelState
  <1> HIDE DEF a
  <1>6. Reranked(a, b)
    <2>1. Reranked(a, a)
      BY <1>2 DEF Reranked
    <2>2. Reranked(a, ChangePriority(a, o, a.prio[t]))
      BY Zenon, <1>2, <1>5, ChangeSound
    <2>. QED BY <1>4, <2>1, <2>2
  <1>14. /\ \A u \in Thread \ {o} : b.prio[u] = k.prio[u]
         /\ b.prio[o] <= k.prio[o] /\ b.prio[o] <= k.prio[t]
    <2>1. k.prio \in [Thread -> Priority] /\ Priority \subseteq Int
      BY SMTT(30), <1>0 DEF Sound, SoundBut, WellFormed, KernelState, Priority
    <2>2. /\ ChangePriority(a, o, a.prio[t]).prio[o] = a.prio[t]
          /\ \A u \in Thread \ {o} : ChangePriority(a, o, a.prio[t]).prio[u] = a.prio[u]
      BY <1>2, <1>5, ChangeSound
    <2>3. k.prio[o] \in Int /\ k.prio[t] \in Int
      BY Zenon, <2>1
    <2>. QED BY <1>2, <1>4, <2>1, <2>2, <2>3
  <1>7. k' = Wait(b, m, t, time)
    BY Zenon DEF a
  <1> HIDE DEF b
  <1>8. Sound(b) /\ ~ LinkedIn(b, t, m)
    BY Zenon, <1>0, <1>1, <1>2, <1>6 DEF Reranked, LinkedIn
  <1>9. /\ Sound(k') /\ k'.stat[t] = "SUSPEND" /\ LinkedIn(k', t, m)
        /\ Kept(b, k') /\ \A u \in Thread \ {t} : Same(b, k', u)
        /\ Flag[m] = "PRIO" /\ Ordered(b.list[m], b.prio) => Ordered(k'.list[m], b.prio)
    BY SMTT(30), <1>0, <1>7, <1>8, WaitSound DEF Wait
  <1>10. \A u \in Thread \ {t} : Same(k, k', u)
    BY SMTT(30), <1>2, <1>6, <1>9, RerankedSame, SameTransitive
  <1>11. k'.cur = k.cur /\ k'.lock = k.lock /\ k'.error = a.error
    BY Zenon, <1>2, <1>6, <1>9 DEF Reranked, Kept
  <1>12. KernelOK(k')
    BY Zenon, <1>1, <1>9, <1>10, <1>11, KernelStep
  <1>13. \A l \in List : LinkedIn(k', t, l) => l = m
    BY Zenon, <1>0, <1>9 DEF Sound, SoundBut, WellFormed
  <1>15. Ordered(k.list[m], k.prio) => Ordered(b.list[m], b.prio)
    <2>1. b.list[m] = k.list[m] /\ k.list[m] \in Seq(Thread)
      BY SMTT(30), <1>0, <1>2, <1>6 DEF Reranked, Sound, SoundBut, WellFormed, KernelState
    <2>2. ~ LinkedIn(k, o, m)
      BY Zenon, <1>0 DEF IInv, ThreadOK
    <2>3. \A i \in 1 .. Len(k.list[m]) : k.list[m][i] \in Thread \ {o}
      BY <2>1, <2>2 DEF LinkedIn, Has
    <2>4. \A i \in 1 .. Len(k.list[m]) : b.prio[k.list[m][i]] = k.prio[k.list[m][i]]
      BY Zenon, <1>14, <2>3
    <2>. QED BY Zenon, <2>1, <2>4 DEF Ordered
  <1>16. k'.prio = b.prio
    BY Zenon, <1>9 DEF Kept
  <1>17. Boosted(t, m)
    BY <1>9, <1>14, <1>15, <1>16 DEF Boosted
  <1>. QED BY <1>1, <1>3, <1>9, <1>10, <1>11, <1>12, <1>13, <1>17

\* rt_mutex_take of a mutex another thread owns
LEMMA TakeWaitInv ==
  ASSUME IInv, NEW t \in Thread, NEW m \in DOMAIN mutex, NEW time \in Timeout,
         Call(t, "take"), Alive(m), TakeWait(t, m, time), UNCHANGED mode
  PROVE  IInv'
  <1>0. At(t, "user") /\ t # Idle /\ mode' = mode /\ mutex' = mutex /\ time \in Int
    BY IpcAssumption DEF Call, TakeWait, Timeout, RT_WAITING_FOREVER
  <1>1. CASE time = 0
    <2>1. k' = SetError(k, t, "ETIMEOUT") /\ pc' = pc /\ want' = want /\ "ETIMEOUT" \in Error
      BY Zenon, <1>1 DEF TakeWait, Error
    <2>. QED BY Zenon, <1>0, <2>1, OnlyErrorInv
  <1>2. CASE time # 0
    <2>1. /\ k' = Wait(Inherit(SetError(k, t, "EOK"), t, m), m, t, time)
          /\ pc' = [pc EXCEPT ![t] = "wait"] /\ want' = [want EXCEPT ![t] = m]
      BY Zenon, <1>2 DEF TakeWait, Goto
    <2>2. Types /\ m \in List /\ MutexOK(m) /\ pc[t] = "user"
      BY Zenon, <1>0, MutexAssumption, AtRuns DEF IInv, Types
    <2>3. mutex[m].owner \in Thread /\ mutex[m].owner # t
      BY <2>2 DEF TakeWait, MutexOK, Record
    <2>4. /\ KernelOK(k') /\ k'.cur = t /\ LinkedIn(k', t, m) /\ k'.error[t] = "EOK"
          /\ \A l \in List : LinkedIn(k', t, l) => l = m
          /\ \A u \in Thread \ {t} : Same(k, k', u) /\ k'.error[u] = k.error[u]
      BY Zenon, <1>0, <2>1, <2>3, WaitStep
    <2>5. /\ pc'[t] = "wait" /\ want'[t] = m
          /\ \A u \in Thread \ {t} : pc'[u] = pc[u] /\ want'[u] = want[u]
      BY Zenon, <2>1, <2>2 DEF Types
    <2>6. Types' /\ CurrentRuns'
      BY SMTT(30), <1>0, <2>1, <2>2, <2>4, <2>5 DEF Types, CurrentRuns, Loc
    <2>7. ThreadOK(t)'
      BY Zenon, <1>0, <2>3, <2>4, <2>5 DEF ThreadOK, Taking, Deleting
    <2>8. ASSUME NEW u \in Thread \ {t} PROVE ThreadOK(u)'
      <3>1. /\ ThreadOK(u) /\ Same(k, k', u) /\ k'.error[u] = k.error[u]
            /\ want'[u] = want[u] /\ (Taking(u)' <=> Taking(u))
            /\ (Deleting(u)' <=> Deleting(u))
        BY Zenon, <2>4, <2>5 DEF IInv, Taking, Deleting
      <3>. QED BY Zenon, <1>0, <2>2, <3>1, ThreadKept DEF Same
    <2>9. ASSUME NEW n \in DOMAIN mutex, n # m PROVE MutexOK(n)'
      <3>1. MutexOK(n) /\ n \in List
        BY Zenon, MutexAssumption DEF IInv, Types
      <3>2. \A u \in Thread : LinkedIn(k', u, n) => LinkedIn(k, u, n)
        BY Zenon, <2>4, <2>9, <3>1 DEF Same
      <3>3. \A u \in Thread : Deleting(u) /\ want[u] = n => Deleting(u)' /\ want'[u] = n
        BY Zenon, <2>2, <2>5 DEF Deleting
      <3>. QED BY Zenon, <1>0, <3>1, <3>2, <3>3, MutexKept
    <2>10. MutexOK(m)'
      BY <1>0, <2>2, <2>3, MutexAssumption DEF MutexOK, Alive
    <2>. QED BY Zenon, <1>0, <2>4, <2>6, <2>7, <2>8, <2>9, <2>10 DEF IInv
  <1>. QED BY Zenon, <1>1, <1>2

\* What a handover of m by t to u does to the priorities and to the list of m.
Reprioritised(t, m, u) ==
  /\ u = Head(k.list[m]) /\ k'.list[m] = rt_list_remove(k.list[m], u) /\ u # t
  /\ k'.stat[u] \in {"READY", "RUNNING"}
  /\ Restore(m).prio[u] = k.prio[u] /\ k'.prio[t] = mutex[m].original_priority
  /\ \A w \in Thread \ {t, u} : k'.prio[w] = k.prio[w]
  /\ \A w \in Thread : Flag[m] = "FIFO" /\ LinkedIn(k, w, m) => k'.prio[u] <= k.prio[w]
  /\ Flag[m] # "FIFO" => k'.prio[u] = k.prio[u]

\* The kernel data when the owner t hands m over to the first thread u that
\* waits for it: priorities change, and u is made ready.
LEMMA HandOverStep ==
  ASSUME IInv, NEW t \in Thread, NEW m \in DOMAIN mutex, At(t, "user"),
         mutex[m].owner = t, k.list[m] # <<>>, NEW u, u = Head(Restore(m).list[m]),
         k' = rt_ipc_list_resume(PassPriority(Restore(m), m, u), m)
  PROVE  /\ u \in Thread /\ LinkedIn(k, u, m) /\ Restore(m).prio[u] \in Priority
         /\ KernelOK(k') /\ k'.stat[k'.cur] = "RUNNING" /\ k'.error = k.error
         /\ \A l \in List : ~ LinkedIn(k', u, l)
         /\ k'.stat[u] # "SUSPEND"
         /\ \A w \in Thread \ {u} : Same(k, k', w)
         /\ Reprioritised(t, m, u)
  <1> DEFINE r == Restore(m)
             p == rt_ipc_get_highest_priority(r, m)
             q == PassPriority(r, m, u)
  <1>1. /\ Reranked(k, r) /\ KernelOK(r) /\ r.stat[r.cur] = "RUNNING"
        /\ r.prio[t] = mutex[m].original_priority
        /\ \A w \in Thread \ {t} : r.prio[w] = k.prio[w]
    BY RestoreSound
  <1>2. m \in List /\ KernelOK(k) /\ k \in KernelState /\ t = k.cur
    BY Zenon, MutexAssumption, AtRuns DEF IInv, Types, KernelOK, Sound, SoundBut, WellFormed
  <1>3. \/ q = r /\ (Flag[m] # "FIFO" \/ r.prio[u] = p)
        \/ q = ChangePriority(r, u, p) /\ Flag[m] = "FIFO"
    BY Zenon DEF PassPriority
  <1>4. p = Least({RT_THREAD_PRIORITY_MAX - 1}
                    \cup {r.prio[r.list[m][i]] : i \in 1 .. Len(r.list[m])})
    BY Zenon DEF rt_ipc_get_highest_priority
  <1>5. k' = rt_thread_resume(q, Head(q.list[m])) /\ u = Head(r.list[m])
    BY DEF rt_ipc_list_resume
  <1> HIDE DEF r, p, q
  <1>6. Sound(r) /\ r.prio \in [Thread -> Priority] /\ r.list[m] \in Seq(Thread)
    BY Zenon, <1>1, <1>2 DEF KernelOK, Sound, SoundBut, WellFormed, KernelState
  <1>7. r.list[m] = k.list[m]
    BY Zenon, <1>1, <1>2 DEF Reranked
  <1>8. u \in Thread /\ LinkedIn(k, u, m) /\ r.prio[u] \in Priority
    BY Zenon, <1>5, <1>6, <1>7, EmptyHasNone DEF LinkedIn
  <1>9. p \in Priority /\ \A w \in Thread : LinkedIn(r, w, m) => p <= r.prio[w]
    <2> DEFINE I == {RT_THREAD_PRIORITY_MAX - 1}
                      \cup {r.prio[r.list[m][i]] : i \in 1 .. Len(r.list[m])}
    <2>1. I \subseteq Priority
      <3>1. InitPriority[Idle] \in Priority /\ InitPriority[Idle] = RT_THREAD_PRIORITY_MAX - 1
        BY Zenon, BootAssumption, PriorityAssumption
      <3>2. \A i \in 1 .. Len(r.list[m]) : r.list[m][i] \in Thread
        BY <1>6
      <3>. QED BY Zenon, <1>6, <3>1, <3>2
    <2>2. I # {} /\ Priority \subseteq Nat
      BY DEF Priority
    <2> HIDE DEF I
    <2>3. Least(I) \in I /\ \A i \in I : Least(I) <= i
      BY Zenon, <2>1, <2>2, LeastElement
    <2>4. ASSUME NEW w \in Thread, LinkedIn(r, w, m) PROVE r.prio[w] \in I
      BY Zenon, <2>4 DEF I, LinkedIn, Has
    <2>5. p = Least(I)
      BY Zenon, <1>4 DEF I
    <2>. QED BY Zenon, <2>1, <2>3, <2>4, <2>5
  <1>10. Reranked(r, q)
    <2>1. Reranked(r, r)
      BY <1>6 DEF Reranked
    <2>2. Reranked(r, ChangePriority(r, u, p))
      BY Zenon, <1>6, <1>8, <1>9, ChangeSound
    <2>. QED BY Zenon, <1>3, <2>1, <2>2
  <1>11. k' = rt_thread_resume(q, u)
    BY ZenonT(60), <1>2, <1>5, <1>10 DEF Reranked
  <1>12. Sound(q) /\ q.stat[u] = "SUSPEND"
    BY <1>1, <1>2, <1>8, <1>10, LinkedSuspended DEF Reranked
  <1>13. /\ Sound(k') /\ k'.stat[u] \in {"READY", "RUNNING"}
         /\ \A l \in List : ~ LinkedIn(k', u, l)
         /\ Kept(q, k') /\ \A w \in Thread \ {u} : Same(q, k', w)
         /\ \A l \in List : k'.list[l] = rt_list_remove(q.list[l], u)
    BY ZenonT(60), <1>8, <1>11, <1>12, ResumeSound
  <1>14. ASSUME NEW w \in Thread \ {u} PROVE Same(k, k', w)
    <2>1. Same(k, r, w) /\ Same(r, q, w)
      BY <1>1, <1>10, RerankedSame
    <2>2. Same(q, k', w)
      BY Zenon, <1>13
    <2>. QED BY Zenon, <2>1, <2>2, SameTransitive
  <1>15. k'.cur = k.cur /\ k'.lock = k.lock /\ k'.error = k.error
    BY Zenon, <1>1, <1>10, <1>13 DEF Reranked, Kept
  <1>16. KernelOK(k')
    BY Zenon, <1>2, <1>8, <1>13, <1>14, <1>15, KernelStep
  <1>17. k'.stat[k'.cur] = "RUNNING"
    <2>1. k.stat[t] = "RUNNING"
      BY AtRuns
    <2>2. k'.stat[t] \in {"READY", "RUNNING"}
      BY Zenon, <1>13, <1>14, <2>1 DEF Same
    <2>. QED BY Zenon, <1>2, <1>13, <1>15, <2>2, CurrentIsRunning
  <1>18. k'.list[m] = rt_list_remove(k.list[m], u) /\ u # t
    <2>1. q.list[m] = k.list[m]
      BY Zenon, <1>2, <1>7, <1>10 DEF Reranked
    <2>2. u # t
      BY ZenonT(60), <1>2, <1>8, AtRuns
    <2>. QED BY Zenon, <1>2, <1>13, <2>1, <2>2
  <1>19. /\ k'.prio = q.prio /\ r.prio[u] = k.prio[u]
         /\ \A w \in Thread \ {u} : q.prio[w] = r.prio[w]
         /\ Flag[m] = "FIFO" => q.prio[u] = p
    <2>1. /\ ChangePriority(r, u, p).prio[u] = p
          /\ \A w \in Thread \ {u} : ChangePriority(r, u, p).prio[w] = r.prio[w]
      <3>1. Sound(r) /\ u \in Thread /\ p \in Priority
        BY Zenon, <1>6, <1>8, <1>9
      <3>. QED BY <3>1, ChangeSound
    <2>2. k'.prio = q.prio /\ r.prio[u] = k.prio[u]
      BY Zenon, <1>1, <1>8, <1>13, <1>18 DEF Kept
    <2>. QED BY Zenon, <1>3, <1>6, <1>8, <2>1, <2>2
  <1>20. /\ k'.prio[t] = mutex[m].original_priority
         /\ \A w \in Thread \ {t, u} : k'.prio[w] = k.prio[w]
    BY ZenonT(60), <1>1, <1>18, <1>19
  <1>21. ASSUME Flag[m] = "FIFO", NEW w \in Thread, LinkedIn(k, w, m)
         PROVE  k'.prio[u] <= k.prio[w]
    <2>1. LinkedIn(r, w, m) /\ w # t
      BY SMTT(30), <1>2, <1>7, <1>21, AtRuns DEF LinkedIn
    <2>. QED BY ZenonT(60), <1>1, <1>9, <1>19, <1>21, <2>1
  <1>22. Flag[m] # "FIFO" => k'.prio[u] = k.prio[u]
    BY Zenon, <1>3, <1>19
  <1>23. Reprioritised(t, m, u)
    BY Zenon, <1>5, <1>7, <1>13, <1>18, <1>19, <1>20, <1>21, <1>22 DEF Reprioritised, r
  <1>. QED BY ZenonT(60), <1>8, <1>13, <1>14, <1>15, <1>16, <1>17, <1>23
       DEF r

\* The last release when threads wait
LEMMA HandOverInv ==
  ASSUME IInv, NEW t \in Thread, NEW m \in DOMAIN mutex, Call(t, "release"), Alive(m),
         mutex[m].owner = t, HandOver(t, m), UNCHANGED <<mode, want>>
  PROVE  IInv'
  <1>0. PICK u : u = Head(Restore(m).list[m])
    OBVIOUS
  <1> DEFINE o == Restore(m).prio[u]
  <1>1. /\ At(t, "user") /\ mode' = mode /\ want' = want /\ pc' = [pc EXCEPT ![t] = "schedule"]
        /\ k.list[m] # <<>>
        /\ k' = rt_ipc_list_resume(PassPriority(Restore(m), m, u), m)
    BY Zenon, <1>0 DEF Call, HandOver, Goto
  <1>2. /\ DOMAIN mutex' = DOMAIN mutex
        /\ \A n \in DOMAIN mutex \ {m} : mutex'[n] = mutex[n]
        /\ mutex'[m] = [mutex[m] EXCEPT !.owner = u, !.original_priority = o]
    BY <1>0 DEF HandOver
  <1>3. /\ u \in Thread /\ LinkedIn(k, u, m) /\ o \in Priority
        /\ KernelOK(k') /\ k'.stat[k'.cur] = "RUNNING" /\ k'.error = k.error
        /\ \A l \in List : ~ LinkedIn(k', u, l)
        /\ k'.stat[u] # "SUSPEND"
        /\ \A w \in Thread \ {u} : Same(k, k', w)
    BY Zenon, <1>0, <1>1, HandOverStep
  <1> HIDE DEF o
  <1>4. Types /\ m \in List /\ MutexOK(m) /\ mutex[m] \in Record
    BY Zenon, MutexAssumption DEF IInv, Types, MutexOK
  <1>5. pc[t] = "user" /\ \A l \in List : ~ LinkedIn(k, t, l)
    BY SMTT(30), <1>1, AtRuns
  <1>6. pc'[t] = "schedule" /\ \A w \in Thread \ {t} : pc'[w] = pc[w]
    BY Zenon, <1>1, <1>4 DEF Types
  <1>7. /\ mutex'[m] \in Record /\ mutex'[m].owner = u /\ mutex'[m].original_priority = o
        /\ mutex'[m].value = mutex[m].value /\ mutex'[m].hold = mutex[m].hold
        /\ mutex'[m].alive = mutex[m].alive
    BY Zenon, <1>2, <1>3, <1>4 DEF Record
  <1>8. Types' /\ CurrentRuns'
    BY SMTT(30), <1>1, <1>2, <1>3, <1>4, <1>6 DEF Types, CurrentRuns, Loc
  <1>9. ThreadOK(u)'
    <2>1. Taking(u) /\ want[u] = m /\ k.error[u] = "EOK" /\ u # t
      BY ZenonT(60), <1>3, <1>4, <1>5 DEF IInv, ThreadOK
    <2>2. Taking(u)' /\ ~ Deleting(u)' /\ want'[u] = m /\ k'.error[u] = "EOK"
      BY Zenon, <1>1, <1>3, <1>6, <2>1 DEF Taking, Deleting
    <2>. QED BY Zenon, <1>3, <1>7, <2>2 DEF ThreadOK
  <1>10. ThreadOK(t)'
    <2>1. \A l \in List : ~ LinkedIn(k', t, l)
      BY <1>3, <1>5 DEF Same
    <2>. QED BY Zenon, <1>6, <2>1, ThreadFree DEF Taking, Deleting
  <1>11. ASSUME NEW w \in Thread, w # u, w # t PROVE ThreadOK(w)'
    <2>1. /\ ThreadOK(w) /\ Same(k, k', w) /\ k'.error[w] = k.error[w]
          /\ want'[w] = want[w] /\ (Taking(w)' <=> Taking(w))
          /\ (Deleting(w)' <=> Deleting(w))
      BY Zenon, <1>1, <1>3, <1>6, <1>11 DEF IInv, Taking, Deleting
    <2>2. \A n \in DOMAIN mutex : /\ mutex'[n].owner = w <=> mutex[n].owner = w
                                  /\ mutex'[n].alive => mutex[n].alive
      BY Zenon, <1>2, <1>7, <1>11
    <2>. QED BY Zenon, <1>4, <2>1, <2>2, ThreadKept DEF Same
  <1>12. MutexOK(m)'
    BY Zenon, <1>3, <1>4, <1>7, MutexAssumption DEF MutexOK, Alive
  <1>13. ASSUME NEW n \in DOMAIN mutex, n # m PROVE MutexOK(n)'
    <2>1. MutexOK(n) /\ n \in List /\ mutex'[n] = mutex[n]
      BY Zenon, <1>2, <1>13, MutexAssumption DEF IInv, Types
    <2>2. \A w \in Thread : LinkedIn(k', w, n) => LinkedIn(k, w, n)
      BY Zenon, <1>3, <2>1 DEF Same
    <2>3. \A w \in Thread : Deleting(w) /\ want[w] = n => Deleting(w)' /\ want'[w] = n
      BY Zenon, <1>1, <1>5, <1>6 DEF Deleting
    <2>. QED BY Zenon, <2>1, <2>2, <2>3, MutexKept
  <1>. QED BY ZenonT(60), <1>2, <1>3, <1>8, <1>9, <1>10, <1>11, <1>12, <1>13 DEF IInv

\* rt_mutex_delete begins: the mutex may not be used any more.
LEMMA DeleteInv ==
  ASSUME IInv, NEW t \in Thread, NEW m \in DOMAIN mutex, Delete(t, m)
  PROVE  IInv'
  <1>1. /\ At(t, "user") /\ mode' = mode /\ k' = k /\ want' = [want EXCEPT ![t] = m]
        /\ pc' = [pc EXCEPT ![t] = "delete"]
        /\ DOMAIN mutex' = DOMAIN mutex
        /\ \A n \in DOMAIN mutex \ {m} : mutex'[n] = mutex[n]
        /\ mutex'[m] = [mutex[m] EXCEPT !.alive = FALSE]
    BY Zenon DEF Delete, Call, Goto
  <1>2. Types /\ m \in List /\ MutexOK(m) /\ mutex[m] \in Record
    BY MutexAssumption DEF IInv, Types, MutexOK
  <1>3. /\ t = k.cur /\ pc[t] = "user" /\ k.stat[t] = "RUNNING"
        /\ \A l \in List : ~ LinkedIn(k, t, l)
    BY <1>1, AtRuns
  <1>4. /\ pc'[t] = "delete" /\ want'[t] = m
        /\ \A u \in Thread \ {t} : pc'[u] = pc[u] /\ want'[u] = want[u]
    BY <1>1, <1>2 DEF Types
  <1>5. /\ mutex'[m] \in Record /\ ~ mutex'[m].alive /\ mutex'[m].owner = mutex[m].owner
        /\ mutex'[m].original_priority = mutex[m].original_priority
        /\ mutex'[m].value = mutex[m].value /\ mutex'[m].hold = mutex[m].hold
    BY Zenon, <1>1, <1>2 DEF Record
  <1>6. Types' /\ CurrentRuns' /\ KernelOK(k')
    BY <1>1, <1>2, <1>3, <1>4 DEF IInv, Types, CurrentRuns, Loc
  <1>7. ThreadOK(t)'
    BY Zenon, <1>1, <1>3, <1>4, <1>5 DEF ThreadOK, Taking, Alive
  <1>8. ASSUME NEW u \in Thread \ {t} PROVE ThreadOK(u)'
    <2>1. /\ ThreadOK(u) /\ want'[u] = want[u] /\ (Taking(u)' <=> Taking(u))
          /\ (Deleting(u)' <=> Deleting(u))
      BY <1>4 DEF IInv, Taking, Deleting
    <2>2. \A n \in DOMAIN mutex : /\ mutex'[n].owner = u <=> mutex[n].owner = u
                                  /\ mutex'[n].alive => mutex[n].alive
      BY Zenon, <1>1, <1>5
    <2>. QED BY ZenonT(60), <1>1, <1>2, <2>1, <2>2, ThreadKept
  <1>9. MutexOK(m)'
    <2>1. Deleting(t)' /\ want'[t] = m
      BY <1>4 DEF Deleting
    <2>. QED BY ZenonT(60), <1>1, <1>2, <1>5, <2>1 DEF MutexOK
  <1>10. ASSUME NEW n \in DOMAIN mutex, n # m PROVE MutexOK(n)'
    <2>1. MutexOK(n) /\ mutex'[n] = mutex[n]
      BY Zenon, <1>1, <1>10 DEF IInv
    <2>2. \A u \in Thread : Deleting(u) /\ want[u] = n => Deleting(u)' /\ want'[u] = n
      BY SMTT(30), <1>3, <1>4 DEF Deleting
    <2>. QED BY <1>1, <2>1, <2>2, MutexKept
  <1>. QED BY Zenon, <1>1, <1>6, <1>7, <1>8, <1>9, <1>10 DEF IInv

=============================================================================
