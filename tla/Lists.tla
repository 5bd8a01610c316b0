------------------------------- MODULE Lists -------------------------------
(***************************************************************************)
(* The doubly linked lists of rtservice.h.  A list is the sequence of the  *)
(* threads (or timers) whose nodes follow its head.  The proofs extend     *)
(* this module, which is why it has these few operators of its own: each   *)
(* definition of a larger library would burden every proof obligation.     *)
(***************************************************************************)
EXTENDS Integers, Sequences

Least(S) == CHOOSE x \in S : \A y \in S : x <= y

\* t is linked into the list q.
Has(q, t) == \E i \in 1 .. Len(q) : q[i] = t

\* The first place of q whose element satisfies P, or 0.
FirstPlace(q, P(_)) ==
  LET I == {i \in 1 .. Len(q) : P(q[i])}
  IN  IF I = {} THEN 0 ELSE Least(I)

\* After the head of q
rt_list_insert_after(q, t) == <<t>> \o q

\* Before the node at place i of q
rt_list_insert_before(q, i, t) ==
  SubSeq(q, 1, i - 1) \o <<t>> \o SubSeq(q, i, Len(q))

DropAt(q, i) == SubSeq(q, 1, i - 1) \o SubSeq(q, i + 1, Len(q))

\* A node that is not linked is its own neighbour: nothing changes.
rt_list_remove(q, t) ==
  IF Has(q, t) THEN DropAt(q, FirstPlace(q, LAMBDA u : u = t)) ELSE q

\* The state s after op has been applied to the elements of q in their order.
ForEach(op(_, _), s, q) ==
  LET after[i \in 0 .. Len(q)] == IF i = 0 THEN s ELSE op(after[i - 1], q[i])
  IN  after[Len(q)]
=============================================================================
