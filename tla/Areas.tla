------------------------------- MODULE Areas -------------------------------
(***************************************************************************)
(* What a heap promises: it gives out areas of its memory that lie apart   *)
(* from each other until they are given back.                              *)
(***************************************************************************)
EXTENDS Integers

CONSTANT Size  \* bytes of the memory

VARIABLE area  \* the bytes of each area that is given out, by its address

\* n bytes at address p are in the memory and touch no area but that of p.
Fits(p, n) ==
  /\ p \in Nat /\ n \in Nat \ {0} /\ p + n <= Size
  /\ \A q \in DOMAIN area \ {p} : p + n <= q \/ q + area[q] <= p

Give(p, n) ==
  /\ p \notin DOMAIN area /\ Fits(p, n)
  /\ area' = [q \in DOMAIN area \cup {p} |-> IF q = p THEN n ELSE area[q]]

Resize(p, n) ==
  /\ p \in DOMAIN area /\ Fits(p, n)
  /\ area' = [area EXCEPT ![p] = n]

TakeBack(p) ==
  /\ p \in DOMAIN area
  /\ area' = [q \in DOMAIN area \ {p} |-> area[q]]

Init == DOMAIN area = {}

Next == \/ \E p \in DOMAIN area' : Give(p, area'[p]) \/ Resize(p, area'[p])
        \/ \E p \in DOMAIN area : TakeBack(p)

Spec == Init /\ [][Next]_area
=============================================================================
