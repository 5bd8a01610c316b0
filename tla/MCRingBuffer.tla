---------------------------- MODULE MCRingBuffer ----------------------------
(* Instance for TLC: a pool of 6 bytes (4 usable) and two byte values.      *)
EXTENDS RingBuffer

MCByte == {7, 8}

\* Every block of up to two bytes, and longer ones, up to one byte more than the
\* ring holds, in which neighbours differ.
MCBlocks ==
  UNION {[1 .. n -> MCByte] : n \in 0 .. 2}
    \cup {[i \in 1 .. n |-> 7 + ((i + d) % 2)] : n \in 3 .. 5, d \in 0 .. 1}

=============================================================================
