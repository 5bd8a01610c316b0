------------------------------ MODULE ByteFifo ------------------------------
(***************************************************************************)
(* What a ring buffer promises to its callers: a queue of at most Size     *)
(* bytes that never reorders, duplicates or invents a byte.  put drops the *)
(* END of a block that does not fit, putchar refuses, the two forced       *)
(* variants drop the OLDEST bytes instead.                                 *)
(***************************************************************************)
EXTENDS Integers, Sequences

CONSTANTS Size,   \* capacity in bytes
          Byte,   \* the bytes
          Blocks  \* the blocks a caller may write, sequences over Byte

VARIABLES q,      \* the bytes held, oldest first
          out     \* what the last operation handed back

Least(a, b) == IF a <= b THEN a ELSE b

\* The last n elements of s.
Newest(s, n) == SubSeq(s, Len(s) - n + 1, Len(s))

FifoInit == q = <<>> /\ out = <<>>

\* A block is appended up to the free room; the rest of it is dropped.
Put(s) ==
  LET n == Least(Len(s), Size - Len(q))
  IN  q' = q \o SubSeq(s, 1, n) /\ out' = <<n>>

\* A block is appended whole; the oldest bytes make room for it.
PutForce(s) ==
  LET all == q \o s
  IN  q' = Newest(all, Least(Len(all), Size)) /\ out' = <<Least(Len(s), Size)>>

\* The oldest n bytes are handed over, all of them when fewer are held.
Get(n) ==
  LET k == Least(n, Len(q))
  IN  out' = SubSeq(q, 1, k) /\ q' = SubSeq(q, k + 1, Len(q))

\* Some oldest bytes are handed over without a copy: at least one if any.
Peek ==
  \E k \in 0 .. Len(q) :
     /\ k = 0 => q = <<>>
     /\ out' = SubSeq(q, 1, k)
     /\ q' = SubSeq(q, k + 1, Len(q))

Reset == q' = <<>> /\ out' = <<>>

FifoNext ==
  \/ \E s \in Blocks : Put(s) \/ PutForce(s)
  \/ \E c \in Byte : Put(<<c>>) \/ PutForce(<<c>>)
  \/ \E n \in 0 .. Size + 1 : Get(n)
  \/ Peek
  \/ Reset

=============================================================================
