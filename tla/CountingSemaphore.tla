------------------------- MODULE CountingSemaphore -------------------------
(***************************************************************************)
(* What a semaphore promises: a count of tokens, and threads of which each *)
(* call to take one ends in exactly one way, with a token or without.  A   *)
(* token is given to a waiting thread or counted, and never both, and a    *)
(* call that has been given a token does not fail any more.                *)
(***************************************************************************)
EXTENDS Naturals

CONSTANTS Thread, Limit

VARIABLES tokens,
          waiting,  \* threads whose call waits
          served,   \* threads whose call has been given a token and is to return
          failed    \* threads whose call has failed and is to return

vars == <<tokens, waiting, served, failed>>

Free(t) == t \notin waiting \cup served \cup failed

Init == tokens \in 0 .. Limit /\ waiting = {} /\ served = {} /\ failed = {}

Take(t) ==
  /\ Free(t) /\ tokens > 0
  /\ tokens' = tokens - 1
  /\ UNCHANGED <<waiting, served, failed>>

Wait(t) ==
  /\ Free(t) /\ tokens = 0
  /\ waiting' = waiting \cup {t}
  /\ UNCHANGED <<tokens, served, failed>>

Release ==
  \/ /\ waiting = {} /\ tokens < Limit
     /\ tokens' = tokens + 1
     /\ UNCHANGED <<waiting, served, failed>>
  \/ \E t \in waiting : /\ waiting' = waiting \ {t}
                        /\ served' = served \cup {t}
                        /\ UNCHANGED <<tokens, failed>>

\* The wait times out, or is ended by a reset or a deletion.
Fail(t) ==
  /\ t \in waiting
  /\ waiting' = waiting \ {t}
  /\ failed' = failed \cup {t}
  /\ UNCHANGED <<tokens, served>>

Return(t) ==
  /\ t \in served \cup failed
  /\ served' = served \ {t}
  /\ failed' = failed \ {t}
  /\ UNCHANGED <<tokens, waiting>>

Reset ==
  /\ waiting = {}
  /\ tokens' \in 0 .. Limit
  /\ UNCHANGED <<waiting, served, failed>>

Next == \/ \E t \in Thread : Take(t) \/ Wait(t) \/ Fail(t) \/ Return(t)
        \/ Release \/ Reset

Spec == Init /\ [][Next]_vars

=============================================================================
