------------------------------- MODULE Event -------------------------------
(***************************************************************************)
(* An event of ipc.c: a set of flags that threads and interrupt handlers   *)
(* set, and threads that wait for all or for one of some flags and may     *)
(* clear them on receipt.  The event_set and event_info of a thread are    *)
(* kept while its call waits; nobody looks at them at other times.         *)
(***************************************************************************)
EXTENDS WaitLoop

CONSTANTS Event,    \* event->parent.suspend_thread
          Bit,      \* the flags in use
          Request   \* the flags, options and timeouts each thread calls
                    \* rt_event_recv with

Option == [all : BOOLEAN, clear : BOOLEAN]

Wanted == SUBSET Bit \ {{}}

ASSUME EventAssumption ==
  /\ Event \in List
  /\ \A t \in Thread : Request[t] \subseteq Wanted \X Option \X Timeout

VARIABLES set,         \* event->set
          event_set,   \* thread->event_set
          event_info,  \* thread->event_info
          asked,       \* the set a thread called rt_event_recv with
          evalive      \* the object has not been deleted

evown == <<set, event_set, event_info, asked, evalive>>

NoOption == [all |-> FALSE, clear |-> FALSE]

\* rt_event_init, rt_event_create
EvInit(exists) ==
  /\ set = {} /\ evalive = exists
  /\ event_set = [t \in Thread |-> {}] /\ asked = [t \in Thread |-> {}]
  /\ event_info = [t \in Thread |-> NoOption]

EvExists == evalive \/ Deleting("evdelete")

\* Flags e satisfy a thread that waits for flags w with option o.
Satisfied(o, w, e) == IF o.all THEN w \subseteq e ELSE w \cap e # {}

-----------------------------------------------------------------------------
\* Mutant: a flag is cleared only after all the threads have been looked at.
VisitClearsLate(s, t) ==
  IF ~ Satisfied(event_info[t], s.event_set[t], s.set) THEN s
  ELSE LET w == IF event_info[t].all THEN s.event_set[t]
                                     ELSE s.event_set[t] \cap s.set
       IN  [s EXCEPT !.k = rt_thread_resume(@, t), !.event_set[t] = w]

\* Mutant: a thread that asked for one of some flags is given all that are set.
VisitGivesAll(s, t) ==
  IF ~ Satisfied(event_info[t], s.event_set[t], s.set) THEN s
  ELSE LET w == IF event_info[t].all THEN s.event_set[t] ELSE s.set
       IN  [ k         |-> rt_thread_resume(s.k, t),
             event_set |-> [s.event_set EXCEPT ![t] = w],
             set       |-> IF event_info[t].clear THEN s.set \ w ELSE s.set ]

\* The loop of rt_event_send looks at thread t.
Visit(s, t) ==
  IF ~ Satisfied(event_info[t], s.event_set[t], s.set) THEN s
  ELSE LET w == IF event_info[t].all THEN s.event_set[t]
                                     ELSE s.event_set[t] \cap s.set
       IN  [ k         |-> rt_thread_resume(s.k, t),
             event_set |-> [s.event_set EXCEPT ![t] = w],
             set       |-> IF event_info[t].clear THEN s.set \ w ELSE s.set ]

\* rt_event_send with flags e up to rt_hw_interrupt_enable
EvSend(e) ==
  ForEach(Visit, [k |-> k, event_set |-> event_set, set |-> set \cup e],
          k.list[Event])

Sent(r) ==
  /\ set' = r.set /\ event_set' = r.event_set
  /\ UNCHANGED <<loop, hand, event_info, asked, evalive>>

rt_event_send(t, e) ==
  /\ Call(t, "evsend") /\ evalive
  /\ k' = EvSend(e).k /\ Sent(EvSend(e))
  /\ IF EvSend(e).k # k THEN Goto(t, "schedule") ELSE UNCHANGED pc
  /\ UNCHANGED mode

\* rt_event_send in an interrupt handler
EvIrqSend(e) ==
  /\ "evsend" \in Calls[Irq] /\ evalive
  /\ k' = IF EvSend(e).k # k THEN rt_schedule(EvSend(e).k) ELSE k
  /\ Sent(EvSend(e))
  /\ UNCHANGED <<pc, mode>>

rt_event_recv(t, w, o, time) ==
  /\ Call(t, "evrecv") /\ evalive
  /\ \/ /\ Satisfied(o, w, set)
        /\ set' = IF o.clear THEN set \ w ELSE set
        /\ k' = SetError(k, t, "EOK")
        /\ UNCHANGED <<pc, loop, event_set, event_info, asked>>
     \/ /\ ~ Satisfied(o, w, set) /\ time = 0
        /\ k' = SetError(k, t, "ETIMEOUT")
        /\ UNCHANGED <<pc, loop, set, event_set, event_info, asked>>
     \/ /\ ~ Satisfied(o, w, set) /\ time # 0
        /\ event_set' = [event_set EXCEPT ![t] = w]
        /\ event_info' = [event_info EXCEPT ![t] = o]
        /\ asked' = [asked EXCEPT ![t] = w]
        /\ k' = Wait(SetError(k, t, "EOK"), Event, t, time)
        /\ Suspended(t, "evrecv", 0, 0)
        /\ UNCHANGED set
  /\ UNCHANGED <<mode, hand, evalive>>

\* The call looks at thread->error, stores event_set for its caller and returns.
EvRecvEnd(t) ==
  /\ At(t, "woken") /\ call[t] = "evrecv"
  /\ Finished(t, "user")
  /\ event_set' = [event_set EXCEPT ![t] = {}]
  /\ event_info' = [event_info EXCEPT ![t] = NoOption]
  /\ asked' = [asked EXCEPT ![t] = {}]
  /\ UNCHANGED <<k, mode, hand, set, evalive>>

\* rt_event_control(RT_IPC_CMD_RESET)
EvReset(t) ==
  /\ Call(t, "evreset") /\ evalive
  /\ k' = ResumeAll(k, Event)
  /\ set' = {}
  /\ Goto(t, "schedule")
  /\ UNCHANGED <<mode, loop, hand, event_set, event_info, asked, evalive>>

\* rt_event_delete, rt_event_detach; no other call on the event begins meanwhile.
EvDelete(t) ==
  /\ Call(t, "evdelete") /\ evalive
  /\ evalive' = FALSE
  /\ DeleteBegins(t, "evdelete")
  /\ UNCHANGED <<set, event_set, event_info, asked>>

EvDeleting(t) ==
  /\ \/ DeleteTest(t, "evdelete", Event, "delete", "delete1")
     \/ DeleteEnds(t, "evdelete", Event, "delete")
     \/ DeleteOne(t, "evdelete", Event, "delete", "delete1")
  /\ set' = IF pc'[t] = "user" THEN {} ELSE set
  /\ UNCHANGED <<event_set, event_info, asked, evalive>>

EvStep(t) ==
  \/ \E e \in Wanted : rt_event_send(t, e)
  \/ \E r \in Request[t] : rt_event_recv(t, r[1], r[2], r[3])
  \/ EvRecvEnd(t) \/ EvReset(t) \/ EvDelete(t) \/ EvDeleting(t)

-----------------------------------------------------------------------------
EvTypeOK ==
  /\ set \in SUBSET Bit
  /\ event_set \in [Thread -> SUBSET Bit] /\ asked \in [Thread -> SUBSET Bit]
  /\ event_info \in [Thread -> Option]

\* No thread waits for flags that are set, whatever sequence of sends, receipts
\* that clear, timeouts and resets came before.
NoEventHeldBack ==
  evalive => \A t \in Thread :
    Has(k.list[Event], t) => ~ Satisfied(event_info[t], event_set[t], set)

\* A call that waited and returns RT_EOK reports what it was called for: all
\* the flags it asked for, or some of them and no others.
ReceivedWasAsked ==
  \A t \in Thread :
    call[t] = "evrecv" /\ ~ Linked(t, Event) /\ k.error[t] = "EOK" =>
      /\ event_set[t] # {} /\ event_set[t] \subseteq asked[t]
      /\ event_info[t].all => event_set[t] = asked[t]

\* A flag that a thread clears on receipt is given to no thread behind it in
\* the list (rt_event_send: "clear event"), and is off afterwards.
ClearedOnce ==
  [][LET q == k.list[Event]
         Got(t) == ~ Has(k'.list[Event], t) /\ k'.error[t] = "EOK"
     IN  \A i \in 1 .. Len(q) :
           Got(q[i]) /\ event_info[q[i]].clear =>
             /\ event_set'[q[i]] \cap set' = {}
             /\ \A j \in i + 1 .. Len(q) :
                  Got(q[j]) => event_set'[q[i]] \cap event_set'[q[j]] = {}]_<<k, set, event_set>>
=============================================================================
