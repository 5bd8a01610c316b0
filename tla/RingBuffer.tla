----------------------------- MODULE RingBuffer -----------------------------
(***************************************************************************)
(* The ring buffer of the device drivers (ringbuffer.c): two indices, each *)
(* with a mirror bit.  Equal indices in the same mirror mean empty, equal  *)
(* indices in different mirrors mean full, so all the room can be used.    *)
(* An operation runs to its end before the next one starts: the callers    *)
(* hold a mutex or mask interrupts around it (pipe.c).                     *)
(***************************************************************************)
EXTENDS Integers, Sequences

CONSTANTS PoolSize,  \* bytes of the pool handed to rt_ringbuffer_init
          Byte,      \* the bytes
          Blocks     \* the blocks written in one call

RT_ALIGN_SIZE == 4

RT_ALIGN_DOWN(size) == size - (size % RT_ALIGN_SIZE)

buffer_size == RT_ALIGN_DOWN(PoolSize)

\* A pool of 1..3 bytes passes the assertion size > 0 of rt_ringbuffer_init
\* and is then rounded down to nothing; the index has 15 bits.
ASSUME PoolAssumption ==
  PoolSize \in Nat /\ RT_ALIGN_SIZE <= PoolSize /\ PoolSize <= 32767

ASSUME BlocksAssumption == Blocks \subseteq Seq(Byte)

VARIABLES buffer,        \* buffer_ptr[0 .. buffer_size - 1]
          read_mirror, read_index,
          write_mirror, write_index,
          out            \* what the last call handed back

vars == <<buffer, read_mirror, read_index, write_mirror, write_index, out>>

Index == 0 .. buffer_size - 1

Min2(a, b) == IF a <= b THEN a ELSE b

rt_ringbuffer_status ==
  IF read_index = write_index
    THEN IF read_mirror = write_mirror THEN "EMPTY" ELSE "FULL"
    ELSE "HALFFULL"

rt_ringbuffer_data_len ==
  CASE rt_ringbuffer_status = "EMPTY" -> 0
    [] rt_ringbuffer_status = "FULL"  -> buffer_size
    [] OTHER -> IF write_index > read_index
                  THEN write_index - read_index
                  ELSE buffer_size - (read_index - write_index)

rt_ringbuffer_space_len == buffer_size - rt_ringbuffer_data_len

\* Slot reached from slot i by going n <= buffer_size slots forward.
Forward(i, n) == IF i + n >= buffer_size THEN i + n - buffer_size ELSE i + n

\* Number of slots from slot i forward to slot j.
Distance(i, j) == IF j >= i THEN j - i ELSE j - i + buffer_size

\* The one or two memcpy calls that store s from write_index on.
CopyIn(s) ==
  [i \in Index |-> LET k == Distance(write_index, i)
                   IN  IF k < Len(s) THEN s[k + 1] ELSE buffer[i]]

\* The one or two memcpy calls that load n bytes from read_index on.
CopyOut(n) == [k \in 1 .. n |-> buffer[Forward(read_index, k - 1)]]

Init ==
  /\ buffer \in [Index -> Byte]
  /\ read_mirror = 0 /\ read_index = 0
  /\ write_mirror = 0 /\ write_index = 0
  /\ out = <<>>

\* Mutant: the second half of the ring is entered without flipping its mirror.
WriteOnKeepsMirror(n) ==
  /\ UNCHANGED write_mirror
  /\ write_index' = IF buffer_size - write_index > n
                      THEN write_index + n ELSE n - (buffer_size - write_index)

\* Advance of the write side by n bytes: the branch on the end of the mirror.
WriteOn(n) ==
  IF buffer_size - write_index > n
    THEN write_index' = write_index + n /\ UNCHANGED write_mirror
    ELSE /\ write_mirror' = 1 - write_mirror
         /\ write_index' = n - (buffer_size - write_index)

\* Advance of the read side by n bytes.
ReadOn(n) ==
  IF buffer_size - read_index > n
    THEN read_index' = read_index + n /\ UNCHANGED read_mirror
    ELSE /\ read_mirror' = 1 - read_mirror
         /\ read_index' = n - (buffer_size - read_index)

rt_ringbuffer_put(s) ==
  LET length == Min2(Len(s), rt_ringbuffer_space_len)
  IN  /\ out' = <<length>>
      /\ UNCHANGED <<read_mirror, read_index>>
      /\ IF rt_ringbuffer_space_len = 0
           THEN UNCHANGED <<buffer, write_mirror, write_index>>
           ELSE /\ buffer' = CopyIn(SubSeq(s, 1, length))
                /\ WriteOn(length)

rt_ringbuffer_put_force(s) ==
  LET length == Min2(Len(s), buffer_size)
      block  == SubSeq(s, Len(s) - length + 1, Len(s))
      drops  == length > rt_ringbuffer_space_len
  IN  /\ out' = <<length>>
      /\ buffer' = CopyIn(block)
      /\ WriteOn(length)
      /\ IF drops THEN read_index' = write_index' ELSE UNCHANGED read_index
      /\ IF drops /\ ~(buffer_size - write_index > length)
           THEN read_mirror' = 1 - read_mirror
           ELSE UNCHANGED read_mirror

rt_ringbuffer_get(n) ==
  LET length == Min2(n, rt_ringbuffer_data_len)
  IN  /\ UNCHANGED <<buffer, write_mirror, write_index>>
      /\ IF rt_ringbuffer_data_len = 0
           THEN out' = <<>> /\ UNCHANGED <<read_mirror, read_index>>
           ELSE out' = CopyOut(length) /\ ReadOn(length)

\* The bytes up to the end of the mirror, handed over in place.
rt_ringbuffer_peak ==
  LET size == Min2(rt_ringbuffer_data_len, buffer_size - read_index)
  IN  /\ UNCHANGED <<buffer, write_mirror, write_index>>
      /\ out' = CopyOut(size)
      /\ IF size = 0
           THEN UNCHANGED <<read_mirror, read_index>>
           ELSE ReadOn(size)

rt_ringbuffer_putchar(ch) ==
  /\ UNCHANGED <<read_mirror, read_index>>
  /\ IF rt_ringbuffer_space_len = 0
       THEN out' = <<0>> /\ UNCHANGED <<buffer, write_mirror, write_index>>
       ELSE /\ out' = <<1>>
            /\ buffer' = [buffer EXCEPT ![write_index] = ch]
            /\ IF write_index = buffer_size - 1
                 THEN write_mirror' = 1 - write_mirror /\ write_index' = 0
                 ELSE write_index' = write_index + 1 /\ UNCHANGED write_mirror

\* Mutant: the byte just overwritten stays the next one to be read.
PutcharForceKeepsReader(ch) ==
  /\ out' = <<1>>
  /\ buffer' = [buffer EXCEPT ![write_index] = ch]
  /\ WriteOn(1)
  /\ UNCHANGED <<read_mirror, read_index>>

rt_ringbuffer_putchar_force(ch) ==
  LET full == rt_ringbuffer_status = "FULL"
  IN  /\ out' = <<1>>
      /\ buffer' = [buffer EXCEPT ![write_index] = ch]
      /\ IF write_index = buffer_size - 1
           THEN /\ write_mirror' = 1 - write_mirror /\ write_index' = 0
                /\ read_mirror' = IF full THEN 1 - read_mirror ELSE read_mirror
           ELSE /\ write_index' = write_index + 1
                /\ UNCHANGED <<write_mirror, read_mirror>>
      /\ read_index' = IF full THEN write_index' ELSE read_index

rt_ringbuffer_getchar ==
  /\ UNCHANGED <<buffer, write_mirror, write_index>>
  /\ IF rt_ringbuffer_data_len = 0
       THEN out' = <<>> /\ UNCHANGED <<read_mirror, read_index>>
       ELSE /\ out' = <<buffer[read_index]>>
            /\ IF read_index = buffer_size - 1
                 THEN read_mirror' = 1 - read_mirror /\ read_index' = 0
                 ELSE read_index' = read_index + 1 /\ UNCHANGED read_mirror

rt_ringbuffer_reset ==
  /\ read_mirror' = 0 /\ read_index' = 0
  /\ write_mirror' = 0 /\ write_index' = 0
  /\ out' = <<>>
  /\ UNCHANGED buffer

\* Every operation but rt_ringbuffer_put_force.
NextUnforced ==
  \/ \E s \in Blocks : rt_ringbuffer_put(s)
  \/ \E ch \in Byte : rt_ringbuffer_putchar(ch)
  \/ \E ch \in Byte : rt_ringbuffer_putchar_force(ch)
  \/ \E n \in 0 .. buffer_size + 1 : rt_ringbuffer_get(n)
  \/ rt_ringbuffer_peak
  \/ rt_ringbuffer_getchar
  \/ rt_ringbuffer_reset

Next == NextUnforced \/ \E s \in Blocks : rt_ringbuffer_put_force(s)

Spec == Init /\ [][Next]_vars

-----------------------------------------------------------------------------
(* Properties *)

Contents == CopyOut(rt_ringbuffer_data_len)

\* Every field stays in the range its bit field and the pool give it.
TypeOK ==
  /\ buffer \in [Index -> Byte]
  /\ read_mirror \in 0 .. 1 /\ read_index \in Index
  /\ write_mirror \in 0 .. 1 /\ write_index \in Index
  /\ out \in Seq(Nat \cup Byte)

\* The writer is never more than one lap ahead of the reader, and the reader
\* never ahead of the writer: what the mirror bits of rt_ringbuffer_status
\* stand for, whatever mix of wrapping calls came before.
OneLapAhead ==
  /\ read_mirror = write_mirror => read_index <= write_index
  /\ read_mirror # write_mirror => write_index <= read_index

Fifo == INSTANCE ByteFifo WITH Size <- buffer_size, q <- Contents

\* Seen through its contents the ring buffer is a byte queue: put, get, peak,
\* putchar, putchar_force, getchar and reset lose, reorder or invent no byte
\* at any position of the two indices, forced block writes before it or not.
RefinesFifo ==
  Fifo!FifoInit /\ [][NextUnforced => [Fifo!FifoNext]_<<Contents, out>>]_vars

\* rt_ringbuffer_put_force, as its comment says, discards old data only: the
\* block it accepted is held afterwards.
ForcedBlockIsHeld ==
  [][\A s \in Blocks : rt_ringbuffer_put_force(s) => Fifo!PutForce(s)]_vars
=============================================================================
