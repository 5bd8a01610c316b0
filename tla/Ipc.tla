-------------------------------- MODULE Ipc --------------------------------
(***************************************************************************)
(* What the IPC objects of ipc.c share: the list of suspended threads, the *)
(* wait of a thread in it, and the steps of a call after it has suspended  *)
(* its caller.  A call that waits suspends the caller with the interrupts  *)
(* disabled, is at "wait" until it has called rt_schedule, and at "woken"  *)
(* until it has looked at thread->error.                                   *)
(***************************************************************************)
EXTENDS Processor

CONSTANTS Flag,    \* "FIFO" or "PRIO", the flag of the object a list belongs to
          MaxWait  \* bound: longest timed wait, in ticks

RT_WAITING_FOREVER == -1

Timeout == {RT_WAITING_FOREVER} \cup 0 .. MaxWait

ASSUME IpcAssumption == Flag \in [List -> {"FIFO", "PRIO"}] /\ MaxWait \in Nat

-----------------------------------------------------------------------------
\* The caller is suspended in list l, until time has passed.
Wait(s, l, t, time) == SuspendOn(s, l, t, Flag[l], time)

rt_ipc_list_resume(s, l) == rt_thread_resume(s, Head(s.list[l]))

\* One turn of rt_ipc_list_resume_all
ResumeWithError(s, l) ==
  rt_ipc_list_resume([s EXCEPT !.error[Head(s.list[l])] = "ERROR"], l)

rt_ipc_get_highest_priority(s, l) ==
  Least({RT_THREAD_PRIORITY_MAX - 1}
          \cup {s.prio[s.list[l][i]] : i \in 1 .. Len(s.list[l])})

-----------------------------------------------------------------------------
SetError(s, t, e) == [s EXCEPT !.error[t] = e]

WaitSchedule(t) == ScheduleStep(t, "wait", "woken")

\* The call looks at thread->error and returns.
Return(t) ==
  /\ At(t, "woken")
  /\ Goto(t, "user")
  /\ UNCHANGED <<k, mode>>

Schedule(t) == ScheduleStep(t, "schedule", "user")

\* rt_ipc_list_resume_all of a call that deletes or detaches the object with
\* list l: the list is tested with the interrupts enabled.
ResumeAllTest(t, l) ==
  /\ At(t, "delete")
  /\ Goto(t, IF k.list[l] # <<>> THEN "delete1" ELSE "user")
  /\ UNCHANGED <<k, mode>>

\* Mutant: only the first of the suspended threads is resumed.
ResumeOnlyFirst(t, l) ==
  /\ At(t, "delete1") /\ k.list[l] # <<>>
  /\ k' = ResumeWithError(k, l)
  /\ Goto(t, "user")
  /\ UNCHANGED mode

\* Nothing is modelled after a turn that finds the list empty.
ResumeAllOne(t, l) ==
  /\ At(t, "delete1") /\ k.list[l] # <<>>
  /\ k' = ResumeWithError(k, l)
  /\ Goto(t, "delete")
  /\ UNCHANGED mode

-----------------------------------------------------------------------------
\* rt_ipc_list_resume_all with the interrupts disabled, in one step
ResumeAll(s, l) ==
  ForEach(LAMBDA r, t : rt_thread_resume(SetError(r, t, "ERROR"), t),
          s, s.list[l])

=============================================================================
