------------------------------- MODULE Mutex -------------------------------
(***************************************************************************)
(* Mutexes of ipc.c: recursive ownership, the handover of a released mutex *)
(* to a waiting thread, and the inheritance of the priority of a waiting   *)
(* thread by the owner.  A mutex is named by the list of its waiters.      *)
(***************************************************************************)
EXTENDS Ipc

CONSTANTS Mutexes,
          Created,            \* the sets of mutexes the application may create
          NoThread,           \* RT_NULL
          RT_MUTEX_HOLD_MAX,
          MaxSleep,           \* bound: longest sleep, in ticks
          Calls               \* the calls the application makes

ASSUME MutexAssumption ==
  /\ Mutexes \subseteq List /\ Created \subseteq (SUBSET Mutexes) \ {{}}
  /\ NoThread \notin Thread
  /\ RT_MUTEX_HOLD_MAX \in Nat \ {0}

VARIABLES mutex,  \* the fields of the mutexes that have been created
          want    \* the mutex that the call of a thread works on

own == <<mutex, want>>
vars == <<k, pc, mode, mutex, want>>

\* original_priority of a mutex without an owner is 0xff.
NoPriority == RT_THREAD_PRIORITY_MAX

FreeMutex == [ value |-> 1, owner |-> NoThread, hold |-> 0,
               original_priority |-> NoPriority, alive |-> TRUE ]

\* rt_mutex_init, rt_mutex_create
Init ==
  /\ Boot
  /\ \E c \in Created : mutex = [m \in c |-> FreeMutex]
  /\ want = [t \in Thread |-> CHOOSE m \in DOMAIN mutex : TRUE]

\* It has not been deleted.
Alive(m) == mutex[m].alive

Call(t, c) == At(t, "user") /\ c \in Calls /\ t # Idle

-----------------------------------------------------------------------------
\* rt_mutex_take by the owner
TakeAgain(t, m) ==
  /\ mutex[m].owner = t
  /\ mutex' = [mutex EXCEPT ![m].hold = IF @ < RT_MUTEX_HOLD_MAX THEN @ + 1 ELSE @]
  /\ k' = SetError(k, t, "EOK")
  /\ UNCHANGED <<pc, want>>

\* hold is 0 here, so it is below RT_MUTEX_HOLD_MAX.
TakeFree(t, m) ==
  /\ mutex[m].owner # t /\ mutex[m].value > 0
  /\ mutex' = [mutex EXCEPT ![m].value = @ - 1, ![m].owner = t, ![m].hold = @ + 1,
                            ![m].original_priority = k.prio[t]]
  /\ k' = SetError(k, t, "EOK")
  /\ UNCHANGED <<pc, want>>

\* The owner gets the priority of the thread t that is about to wait.
Inherit(s, t, m) ==
  LET o == mutex[m].owner
  IN  IF s.prio[t] < s.prio[o] THEN ChangePriority(s, o, s.prio[t]) ELSE s

TakeWait(t, m, time) ==
  /\ mutex[m].owner # t /\ mutex[m].value = 0
  /\ IF time = 0
       THEN k' = SetError(k, t, "ETIMEOUT") /\ UNCHANGED <<pc, want>>
       ELSE /\ k' = Wait(Inherit(SetError(k, t, "EOK"), t, m), m, t, time)
            /\ Goto(t, "wait")
            /\ want' = [want EXCEPT ![t] = m]
  /\ UNCHANGED mutex

rt_mutex_take(t, m, time) ==
  /\ Call(t, "take") /\ Alive(m)
  /\ TakeAgain(t, m) \/ TakeFree(t, m) \/ TakeWait(t, m, time)
  /\ UNCHANGED mode

-----------------------------------------------------------------------------
Restore(m) ==
  LET o == mutex[m].owner
  IN  IF mutex[m].original_priority # k.prio[o]
        THEN ChangePriority(k, o, mutex[m].original_priority) ELSE k

\* Mutant: the new owner runs at its own priority.
PassPriorityUnchanged(s, m, u) == s

\* The new owner u of a FIFO mutex gets the priority of the most urgent waiter.
PassPriority(s, m, u) ==
  LET p == rt_ipc_get_highest_priority(s, m)
  IN  IF Flag[m] = "FIFO" /\ s.prio[u] # p THEN ChangePriority(s, u, p) ELSE s

\* The last release when threads wait: the first one becomes the owner.
HandOver(t, m) ==
  /\ mutex[m].hold = 1 /\ k.list[m] # <<>>
  /\ LET r == Restore(m)
         u == Head(r.list[m])
     IN  /\ mutex' = [mutex EXCEPT ![m].owner = u,
                                   ![m].original_priority = r.prio[u]]
         /\ k' = rt_ipc_list_resume(PassPriority(r, m, u), m)
  /\ Goto(t, "schedule")

\* Mutant: the priority of the owner is not restored.
SetFreeBoosted(t, m) ==
  /\ mutex[m].hold = 1 /\ k.list[m] = <<>>
  /\ mutex' = [mutex EXCEPT ![m] = FreeMutex]
  /\ UNCHANGED <<k, pc>>

\* Mutant: the owner of the free mutex is not cleared.
SetFreeKeepsOwner(t, m) ==
  /\ mutex[m].hold = 1 /\ k.list[m] = <<>>
  /\ k' = Restore(m)
  /\ mutex' = [mutex EXCEPT ![m].value = 1, ![m].hold = 0]
  /\ UNCHANGED pc

\* The last release when no thread waits; value is 0 here, so it is below
\* RT_MUTEX_VALUE_MAX.
SetFree(t, m) ==
  /\ mutex[m].hold = 1 /\ k.list[m] = <<>>
  /\ k' = Restore(m)
  /\ mutex' = [mutex EXCEPT ![m] = [FreeMutex EXCEPT !.value = mutex[m].value + 1]]
  /\ UNCHANGED pc

ReleaseOne(t, m) ==
  /\ mutex[m].hold > 1
  /\ mutex' = [mutex EXCEPT ![m].hold = @ - 1]
  /\ UNCHANGED <<k, pc>>

\* A thread that is not the owner only gets an error.
NotOwner(t, m) ==
  /\ k' = SetError(k, t, "ERROR")
  /\ UNCHANGED <<mutex, pc>>

\* Mutant: any thread may release the mutex.
ReleaseByAnyone(t, m) ==
  /\ Call(t, "release") /\ Alive(m)
  /\ IF mutex[m].owner = NoThread THEN NotOwner(t, m)
     ELSE HandOver(t, m) \/ SetFree(t, m) \/ ReleaseOne(t, m)
  /\ UNCHANGED <<mode, want>>

rt_mutex_release(t, m) ==
  /\ Call(t, "release") /\ Alive(m)
  /\ IF mutex[m].owner # t THEN NotOwner(t, m)
     ELSE HandOver(t, m) \/ SetFree(t, m) \/ ReleaseOne(t, m)
  /\ UNCHANGED <<mode, want>>

-----------------------------------------------------------------------------
\* rt_mutex_delete and rt_mutex_detach; no other call on m begins meanwhile.
Delete(t, m) ==
  /\ Call(t, "delete") /\ Alive(m)
  /\ mutex' = [mutex EXCEPT ![m].alive = FALSE]
  /\ want' = [want EXCEPT ![t] = m]
  /\ Goto(t, "delete")
  /\ UNCHANGED <<k, mode>>

Inside(t) ==
  /\ \/ WaitSchedule(t) \/ Return(t) \/ Schedule(t)
     \/ SleepSchedule(t) \/ Slept(t)
     \/ ResumeAllTest(t, want[t]) \/ ResumeAllOne(t, want[t])
  /\ UNCHANGED own

Step(t) ==
  \/ \E m \in DOMAIN mutex : \/ \E time \in Timeout : rt_mutex_take(t, m, time)
                             \/ rt_mutex_release(t, m) \/ Delete(t, m)
  \/ \E n \in 1 .. MaxSleep : Call(t, "sleep") /\ Sleep(t, n) /\ UNCHANGED own
  \/ Inside(t)

Next == \/ \E t \in Thread : Step(t)
        \/ \E u \in Thread : Start(Main, u) /\ UNCHANGED own
        \/ Tick /\ UNCHANGED own

Spec == Init /\ [][Next]_vars

-----------------------------------------------------------------------------
\* The types of the mutexes and of the kernel data.
TypeOK ==
  /\ k \in KernelState
  /\ pc \in [Thread -> {"user", "sleep", "slept", "wait", "woken", "schedule",
                        "delete", "delete1"}]
  /\ mode \in {"thread", "tick"}
  /\ want \in [Thread -> DOMAIN mutex]
  /\ \A m \in DOMAIN mutex :
       mutex[m] \in [ value : {0, 1}, owner : Thread \cup {NoThread},
                      hold : 0 .. RT_MUTEX_HOLD_MAX,
                      original_priority : Priority \cup {NoPriority},
                      alive : BOOLEAN ]

\* A thread that waits for m, and one whose wait for m is over.
Waits(t, m) == Linked(t, m)
WaitOver(t) == pc[t] \in {"wait", "woken"} /\ ~ Waits(t, want[t]) /\ Alive(want[t])

\* The call of a thread that waited returns RT_EOK if and only if the thread
\* owns the mutex: a handover and a timeout never both, or neither, end a wait
\* (rt_mutex_release, rt_thread_timeout).
WinnerOwns ==
  \A t \in Thread :
    WaitOver(t) => (k.error[t] = "EOK" <=> mutex[want[t]].owner = t)

\* value, owner and hold are in range and agree, and only a mutex that is owned
\* has waiters: none waits for one that is free, nor for one that has been
\* deleted, whose memory is released.
OwnerAgrees ==
  /\ TypeOK
  /\ \A m \in DOMAIN mutex : Alive(m) =>
       /\ mutex[m].value = 1 <=> mutex[m].owner = NoThread
       /\ mutex[m].hold = 0 <=> mutex[m].owner = NoThread
       /\ mutex[m].owner = NoThread => k.list[m] = <<>>
  /\ \A m \in DOMAIN mutex :
       \/ Alive(m) \/ k.list[m] = <<>>
       \/ \E t \in Thread : pc[t] \in {"delete", "delete1"} /\ want[t] = m

\* The owner of a mutex is as urgent as every thread that waits for it
\* (rt_mutex_take: "change the owner thread priority of mutex").
OwnerInherits ==
  \A m \in DOMAIN mutex : \A t \in Thread :
    Alive(m) /\ Waits(t, m) => k.prio[mutex[m].owner] <= k.prio[t]

\* A thread that owns no mutex has its own priority again
\* (rt_mutex_release: "change the owner thread to original priority"), unless
\* a mutex has been deleted under its owner.
PriorityRestored ==
  \A t \in Thread :
    (\A m \in DOMAIN mutex : Alive(m) /\ mutex[m].owner # t) =>
      k.prio[t] = InitPriority[t]

\* Ownership changes only by a take of the free mutex or by a release of its
\* owner; it is never taken away from a thread.
OwnerLetsGo ==
  [][\A m \in DOMAIN mutex :
       LET o == mutex[m].owner
       IN  mutex'[m].owner # o /\ o # NoThread =>
             k.cur = o /\ pc[o] = "user"]_vars

=============================================================================
