---------------------------- MODULE BoundedQueue ----------------------------
(***************************************************************************)
(* What a mailbox and a message queue promise.  Items pass from the hand   *)
(* of one user through a queue to the hand of another; each user gets the  *)
(* item at the front, ordinary items join at the back, urgent ones at the  *)
(* front, and a reset drops them all.                                      *)
(***************************************************************************)
EXTENDS Naturals, Sequences

CONSTANTS User,
          Device,  \* users that always have the same item to send
          Nothing

VARIABLES size,  \* the number of items there is room for; it does not change
          q,     \* the items in the queue
          hand   \* the item a user holds, or Nothing

Init == q = <<>> /\ \A u \in User \ Device : hand[u] = Nothing

Sends(u) ==
  /\ Len(q) < size /\ hand[u] # Nothing
  /\ hand' = IF u \in Device THEN hand ELSE [hand EXCEPT ![u] = Nothing]
  /\ \/ q' = Append(q, hand[u])
     \/ q' = <<hand[u]>> \o q

Receives(u) ==
  /\ q # <<>> /\ hand[u] = Nothing /\ u \notin Device
  /\ hand' = [hand EXCEPT ![u] = Head(q)]
  /\ q' = Tail(q)

\* A user makes an item of its own or uses one up.
Handles(u) ==
  /\ \E v \in {hand'[u]} : hand' = [hand EXCEPT ![u] = v]
  /\ u \notin Device
  /\ hand[u] = Nothing \/ hand'[u] = Nothing
  /\ UNCHANGED q

Clear == q' = <<>> /\ UNCHANGED hand

Next == /\ Clear \/ \E u \in User : Sends(u) \/ Receives(u) \/ Handles(u)
        /\ UNCHANGED size

Spec == Init /\ [][Next]_<<size, q, hand>>
=============================================================================
