-------------------------- MODULE RingBufferProofs --------------------------
(***************************************************************************)
(* Proofs about RingBuffer, for every pool size and every set of bytes.    *)
(***************************************************************************)
EXTENDS RingBuffer, TLAPS

Inv == TypeOK /\ OneLapAhead

\* The usable size is a positive number.
LEMMA SizePositive == buffer_size \in Nat /\ buffer_size > 0
  <1>1. PoolSize \in Nat /\ PoolSize >= 4
    BY PoolAssumption DEF RT_ALIGN_SIZE
  <1>2. PoolSize % 4 \in 0 .. 3
    BY <1>1
  <1>. QED BY <1>1, <1>2 DEF buffer_size, RT_ALIGN_DOWN, RT_ALIGN_SIZE

\* The number of bytes held never exceeds the size, in either mirror.
LEMMA DataLenBounds ==
  ASSUME Inv
  PROVE  /\ rt_ringbuffer_data_len \in 0 .. buffer_size
         /\ rt_ringbuffer_space_len \in 0 .. buffer_size
         /\ read_mirror = write_mirror
              => rt_ringbuffer_data_len = write_index - read_index
         /\ read_mirror # write_mirror
              => rt_ringbuffer_data_len = buffer_size - (read_index - write_index)
  BY SizePositive
  DEF Inv, TypeOK, OneLapAhead, Index, rt_ringbuffer_data_len,
      rt_ringbuffer_space_len, rt_ringbuffer_status

\* Loading and storing bytes stays within the pool.
LEMMA CopyTypes ==
  ASSUME Inv
  PROVE  /\ \A s \in Seq(Byte) : CopyIn(s) \in [Index -> Byte]
         /\ \A n \in 0 .. buffer_size : CopyOut(n) \in Seq(Nat \cup Byte)
  <1>1. ASSUME NEW s \in Seq(Byte), NEW i \in Index
        PROVE  LET k == Distance(write_index, i)
               IN  (IF k < Len(s) THEN s[k + 1] ELSE buffer[i]) \in Byte
    BY SizePositive DEF Inv, TypeOK, Index, Distance
  <1>2. ASSUME NEW n \in 0 .. buffer_size, NEW k \in 1 .. n
        PROVE  buffer[Forward(read_index, k - 1)] \in Nat \cup Byte
    BY SizePositive DEF Inv, TypeOK, Index, Forward
  <1>. QED BY <1>1, <1>2, SizePositive DEF CopyIn, CopyOut

\* The four index fields are in range.
IndexOK ==
  /\ read_mirror \in 0 .. 1 /\ read_index \in 0 .. buffer_size - 1
  /\ write_mirror \in 0 .. 1 /\ write_index \in 0 .. buffer_size - 1

DataOK == buffer \in [Index -> Byte] /\ out \in Seq(Nat \cup Byte)

\* The parts of the invariant.
LEMMA InvParts == Inv <=> DataOK /\ IndexOK /\ OneLapAhead
  BY DEF Inv, TypeOK, IndexOK, DataOK, Index

\* A one-element tuple is a sequence over any set with its element.
LEMMA OneElement == ASSUME NEW S, NEW x \in S PROVE <<x>> \in Seq(S)
  OBVIOUS

\* Moving the write side over free room only keeps the one-lap relation.
LEMMA WriteOnKeeps ==
  ASSUME IndexOK, OneLapAhead, NEW n \in 0 .. rt_ringbuffer_space_len,
         rt_ringbuffer_space_len # 0,
         WriteOn(n), UNCHANGED <<read_mirror, read_index>>
  PROVE  IndexOK' /\ OneLapAhead'
  BY SizePositive DEF IndexOK, OneLapAhead, WriteOn, rt_ringbuffer_space_len,
                      rt_ringbuffer_data_len, rt_ringbuffer_status

\* Moving the read side over held bytes only keeps the one-lap relation.
LEMMA ReadOnKeeps ==
  ASSUME IndexOK, OneLapAhead, NEW n \in 0 .. rt_ringbuffer_data_len,
         rt_ringbuffer_data_len # 0,
         ReadOn(n), UNCHANGED <<write_mirror, write_index>>
  PROVE  IndexOK' /\ OneLapAhead'
  BY SizePositive DEF IndexOK, OneLapAhead, ReadOn,
                      rt_ringbuffer_data_len, rt_ringbuffer_status

\* A forced block that overruns the reader takes the reader along.
LEMMA ForceKeeps ==
  ASSUME IndexOK, OneLapAhead, NEW n \in 0 .. buffer_size,
         n > rt_ringbuffer_space_len, WriteOn(n), read_index' = write_index'
  PROVE  /\ read_mirror' \in 0 .. 1 => IndexOK'
         /\ OneLapAhead'
  BY SizePositive DEF IndexOK, OneLapAhead, WriteOn, rt_ringbuffer_space_len,
                      rt_ringbuffer_data_len, rt_ringbuffer_status

\* The ranges and the one-lap relation hold at initialisation.
LEMMA InvInit == Init => Inv
  BY SizePositive DEF Init, Inv, TypeOK, OneLapAhead, Index

\* Every call preserves them.
LEMMA InvNext == Inv /\ [Next]_vars => Inv'
  <1>. SUFFICES ASSUME Inv, [Next]_vars PROVE Inv'
    OBVIOUS
  <1>0. /\ rt_ringbuffer_data_len \in 0 .. buffer_size
        /\ rt_ringbuffer_space_len \in 0 .. buffer_size
        /\ IndexOK /\ OneLapAhead /\ DataOK
        /\ buffer_size \in Nat /\ buffer_size > 0
    BY SizePositive, DataLenBounds, InvParts
  <1>. SUFFICES DataOK' /\ IndexOK' /\ OneLapAhead'
    BY InvParts, PTL
  <1>1. ASSUME NEW s \in Blocks, rt_ringbuffer_put(s)
        PROVE  DataOK' /\ IndexOK' /\ OneLapAhead'
    <2>1. s \in Seq(Byte)
      BY BlocksAssumption DEF BlocksAssumption
    <2>. DEFINE n == Min2(Len(s), rt_ringbuffer_space_len)
    <2>2. n \in 0 .. rt_ringbuffer_space_len /\ n \in 0 .. Len(s)
      BY <1>0, <2>1 DEF Min2
    <2>3. SubSeq(s, 1, n) \in Seq(Byte)
      BY <2>1, <2>2
    <2>4. DataOK'
      <3>1. buffer' \in [Index -> Byte]
        BY Zenon, <1>0, <1>1, <2>3, CopyTypes DEF rt_ringbuffer_put, DataOK
      <3>2. n \in Nat \cup Byte
        BY <1>0, <2>2
      <3>3. out' \in Seq(Nat \cup Byte)
        BY <1>1, <3>2, OneElement DEF rt_ringbuffer_put
      <3>. QED BY <3>1, <3>3 DEF DataOK
    <2>5. CASE rt_ringbuffer_space_len = 0
      BY <1>0, <1>1, <2>4, <2>5 DEF rt_ringbuffer_put, IndexOK, OneLapAhead
    <2>6. CASE rt_ringbuffer_space_len # 0
      BY <1>0, <1>1, <2>2, <2>4, <2>6, WriteOnKeeps DEF rt_ringbuffer_put
    <2>. QED BY <2>5, <2>6
  <1>2. ASSUME NEW ch \in Byte, rt_ringbuffer_putchar(ch)
        PROVE  DataOK' /\ IndexOK' /\ OneLapAhead'
    <2>1. DataOK'
      <3>1. buffer' \in [Index -> Byte]
        BY <1>0, <1>2 DEF rt_ringbuffer_putchar, DataOK
      <3>2. <<0>> \in Seq(Nat \cup Byte) /\ <<1>> \in Seq(Nat \cup Byte)
        BY OneElement
      <3>. QED BY Zenon, <1>2, <3>1, <3>2 DEF rt_ringbuffer_putchar, DataOK
    <2>2. CASE rt_ringbuffer_space_len = 0
      BY <1>0, <1>2, <2>1, <2>2 DEF rt_ringbuffer_putchar, IndexOK, OneLapAhead
    <2>3. CASE rt_ringbuffer_space_len # 0
      <3>1. WriteOn(1)
        BY <1>0, <1>2, <2>3 DEF rt_ringbuffer_putchar, WriteOn, IndexOK
      <3>. QED BY <1>0, <1>2, <2>1, <2>3, <3>1, WriteOnKeeps DEF rt_ringbuffer_putchar
    <2>. QED BY <2>2, <2>3
  <1>3. ASSUME NEW ch \in Byte, rt_ringbuffer_putchar_force(ch)
        PROVE  DataOK' /\ IndexOK' /\ OneLapAhead'
    <2>1. DataOK'
      <3>1. buffer' \in [Index -> Byte]
        BY Zenon, <1>0, <1>3 DEF rt_ringbuffer_putchar_force, DataOK
      <3>2. <<1>> \in Seq(Nat \cup Byte)
        BY OneElement
      <3>. QED BY <1>3, <3>1, <3>2 DEF rt_ringbuffer_putchar_force, DataOK
    <2>2. IndexOK' /\ OneLapAhead'
      BY <1>0, <1>3 DEF rt_ringbuffer_putchar_force, rt_ringbuffer_status,
                        IndexOK, OneLapAhead
    <2>. QED BY <2>1, <2>2
  <1>4. ASSUME NEW n \in 0 .. buffer_size + 1, rt_ringbuffer_get(n)
        PROVE  DataOK' /\ IndexOK' /\ OneLapAhead'
    <2>. DEFINE k == Min2(n, rt_ringbuffer_data_len)
    <2>1. k \in 0 .. rt_ringbuffer_data_len /\ k \in 0 .. buffer_size
      BY <1>0 DEF Min2
    <2>2. CopyOut(k) \in Seq(Nat \cup Byte)
      BY <2>1, CopyTypes
    <2>3. CASE rt_ringbuffer_data_len = 0
      BY <1>0, <1>4, <2>3 DEF rt_ringbuffer_get, DataOK, IndexOK, OneLapAhead
    <2>4. CASE rt_ringbuffer_data_len # 0
      <3>1. DataOK'
        BY <1>0, <1>4, <2>2, <2>4 DEF rt_ringbuffer_get, DataOK
      <3>. QED BY <1>0, <1>4, <2>1, <2>4, <3>1, ReadOnKeeps DEF rt_ringbuffer_get
    <2>. QED BY <2>3, <2>4
  <1>5. ASSUME rt_ringbuffer_peak PROVE DataOK' /\ IndexOK' /\ OneLapAhead'
    <2>. DEFINE k == Min2(rt_ringbuffer_data_len, buffer_size - read_index)
    <2>1. /\ k \in 0 .. rt_ringbuffer_data_len /\ k \in 0 .. buffer_size
          /\ k # 0 => rt_ringbuffer_data_len # 0
      BY <1>0 DEF Min2, IndexOK
    <2>2. CopyOut(k) \in Seq(Nat \cup Byte)
      BY <2>1, CopyTypes
    <2>3. DataOK'
      BY <1>0, <1>5, <2>2 DEF rt_ringbuffer_peak, DataOK
    <2>4. CASE k = 0
      BY <1>0, <1>5, <2>3, <2>4 DEF rt_ringbuffer_peak, IndexOK, OneLapAhead
    <2>5. CASE k # 0
      BY <1>0, <1>5, <2>1, <2>3, <2>5, ReadOnKeeps DEF rt_ringbuffer_peak
    <2>. QED BY <2>4, <2>5
  <1>6. ASSUME rt_ringbuffer_getchar PROVE DataOK' /\ IndexOK' /\ OneLapAhead'
    <2>1. CASE rt_ringbuffer_data_len = 0
      BY <1>0, <1>6, <2>1 DEF rt_ringbuffer_getchar, DataOK, IndexOK, OneLapAhead
    <2>2. CASE rt_ringbuffer_data_len # 0
      <3>1. ReadOn(1)
        BY <1>0, <1>6, <2>2 DEF rt_ringbuffer_getchar, ReadOn, IndexOK
      <3>2. <<buffer[read_index]>> \in Seq(Nat \cup Byte)
        <4>1. buffer[read_index] \in Nat \cup Byte
          BY <1>0 DEF DataOK, IndexOK, Index
        <4>. QED BY <4>1, OneElement
      <3>3. DataOK'
        BY Zenon, <1>0, <1>6, <2>2, <3>2 DEF rt_ringbuffer_getchar, DataOK
      <3>. QED BY <1>0, <1>6, <2>2, <3>1, <3>3, ReadOnKeeps DEF rt_ringbuffer_getchar
    <2>. QED BY <2>1, <2>2
  <1>7. ASSUME rt_ringbuffer_reset PROVE DataOK' /\ IndexOK' /\ OneLapAhead'
    BY <1>0, <1>7 DEF rt_ringbuffer_reset, DataOK, IndexOK, OneLapAhead
  <1>8. ASSUME NEW s \in Blocks, rt_ringbuffer_put_force(s)
        PROVE  DataOK' /\ IndexOK' /\ OneLapAhead'
    <2>1. s \in Seq(Byte)
      BY BlocksAssumption DEF BlocksAssumption
    <2>. DEFINE n == Min2(Len(s), buffer_size)
    <2>2. n \in 0 .. buffer_size /\ n \in 0 .. Len(s)
      BY <1>0, <2>1 DEF Min2
    <2>3. SubSeq(s, Len(s) - n + 1, Len(s)) \in Seq(Byte)
      BY <2>1, <2>2
    <2>4. DataOK'
      <3>1. buffer' \in [Index -> Byte]
        BY Zenon, <1>8, <2>3, CopyTypes DEF rt_ringbuffer_put_force
      <3>2. n \in Nat \cup Byte
        BY <1>0, <2>2
      <3>3. out' \in Seq(Nat \cup Byte)
        BY <1>8, <3>2, OneElement DEF rt_ringbuffer_put_force
      <3>. QED BY <3>1, <3>3 DEF DataOK
    <2>5. CASE n > rt_ringbuffer_space_len
      <3>1. read_mirror' \in 0 .. 1
        BY <1>0, <1>8 DEF rt_ringbuffer_put_force, IndexOK
      <3>. QED BY <1>0, <1>8, <2>2, <2>4, <2>5, <3>1, ForceKeeps
               DEF rt_ringbuffer_put_force
    <2>6. CASE ~(n > rt_ringbuffer_space_len)
      <3>1. /\ WriteOn(n) /\ UNCHANGED <<read_mirror, read_index>>
            /\ n \in 0 .. rt_ringbuffer_space_len
        BY <1>0, <1>8, <2>2, <2>6 DEF rt_ringbuffer_put_force
      <3>2. CASE rt_ringbuffer_space_len # 0
        BY <1>0, <2>4, <3>1, <3>2, WriteOnKeeps
      <3>3. CASE rt_ringbuffer_space_len = 0
        BY <1>0, <2>4, <3>1, <3>3 DEF WriteOn, IndexOK, OneLapAhead
      <3>. QED BY <3>2, <3>3
    <2>. QED BY <2>5, <2>6
  <1>9. CASE UNCHANGED vars
    BY <1>0, <1>9 DEF vars, DataOK, IndexOK, OneLapAhead
  <1>. QED BY <1>1, <1>2, <1>3, <1>4, <1>5, <1>6, <1>7, <1>8, <1>9 DEF Next, NextUnforced

\* For every pool size, every set of bytes and any sequence of calls, forced
\* ones included, the fields keep their ranges and the write side stays within
\* one lap of the read side.
THEOREM RingSafe == Spec => []OneLapAhead
  <1>1. Inv => OneLapAhead
    BY DEF Inv
  <1>. QED BY InvInit, InvNext, <1>1, PTL DEF Spec

-----------------------------------------------------------------------------
(* The ring buffer implements the byte queue *)

\* The bytes held, by position: Contents is a sequence of data_len bytes.
ContentsOK ==
  /\ Contents \in Seq(Byte) /\ Len(Contents) = rt_ringbuffer_data_len
  /\ rt_ringbuffer_data_len \in 0 .. buffer_size
  /\ \A k \in 1 .. rt_ringbuffer_data_len :
       /\ Contents[k] = buffer[Forward(read_index, k - 1)]
       /\ Forward(read_index, k - 1) \in Index

\* The bytes held are those the indices delimit, whatever the mirrors.
LEMMA ContentsElements == Inv => ContentsOK
  <1>. SUFFICES ASSUME Inv PROVE ContentsOK
    OBVIOUS
  <1>1. rt_ringbuffer_data_len \in 0 .. buffer_size
    BY DataLenBounds
  <1>2. ASSUME NEW k \in 1 .. rt_ringbuffer_data_len
        PROVE  Forward(read_index, k - 1) \in Index
    BY <1>1, SizePositive DEF Inv, TypeOK, Index, Forward
  <1>3. buffer \in [Index -> Byte]
    BY DEF Inv, TypeOK
  <1>. QED BY <1>1, <1>2, <1>3 DEF ContentsOK, Contents, CopyOut

\* Sequences of the same length with the same elements are equal.
LEMMA SameElements ==
  ASSUME NEW S, NEW a \in Seq(S), NEW b \in Seq(S), NEW m \in Nat,
         Len(a) = m, Len(b) = m, \A k \in 1 .. m : a[k] = b[k]
  PROVE  a = b
  OBVIOUS

\* Functions on the slots with the same values are equal.
LEMMA SameFunction ==
  ASSUME NEW f \in [Index -> Byte], NEW g \in [Index -> Byte],
         \A i \in Index : f[i] = g[i]
  PROVE  f = g
  OBVIOUS

\* All of a sequence is the sequence.
LEMMA WholeSequence ==
  ASSUME NEW S, NEW a \in Seq(S)
  PROVE  SubSeq(a, 1, Len(a)) = a
  OBVIOUS

\* Length and elements of a concatenation.
LEMMA ConcatElements ==
  ASSUME NEW S, NEW a \in Seq(S), NEW b \in Seq(S)
  PROVE  /\ a \o b \in Seq(S) /\ Len(a \o b) = Len(a) + Len(b)
         /\ \A k \in 1 .. Len(a) + Len(b) :
              (a \o b)[k] = IF k <= Len(a) THEN a[k] ELSE b[k - Len(a)]
  OBVIOUS

\* Length and elements of what is left of a sequence without its first n.
LEMMA TailElements ==
  ASSUME NEW S, NEW a \in Seq(S), NEW n \in 0 .. Len(a)
  PROVE  /\ SubSeq(a, n + 1, Len(a)) \in Seq(S)
         /\ Len(SubSeq(a, n + 1, Len(a))) = Len(a) - n
         /\ \A k \in 1 .. Len(a) - n : SubSeq(a, n + 1, Len(a))[k] = a[n + k]
  OBVIOUS

\* What the calls to memcpy load is the oldest n bytes of the queue.
LEMMA FirstBytes ==
  ASSUME Inv, NEW n \in 0 .. rt_ringbuffer_data_len
  PROVE  CopyOut(n) = SubSeq(Contents, 1, n)
  <1>1. ContentsOK
    BY ContentsElements
  <1>2. /\ CopyOut(n) \in Seq(Byte) /\ Len(CopyOut(n)) = n
        /\ \A k \in 1 .. n : CopyOut(n)[k] = Contents[k]
    <2>1. ASSUME NEW k \in 1 .. n
          PROVE  buffer[Forward(read_index, k - 1)] \in Byte
                 /\ buffer[Forward(read_index, k - 1)] = Contents[k]
      BY <1>1 DEF ContentsOK, Inv, TypeOK
    <2>2. n \in Nat
      BY <1>1 DEF ContentsOK
    <2>. QED BY <2>1, <2>2 DEF CopyOut
  <1>3. /\ SubSeq(Contents, 1, n) \in Seq(Byte) /\ Len(SubSeq(Contents, 1, n)) = n
        /\ \A k \in 1 .. n : SubSeq(Contents, 1, n)[k] = Contents[k]
    BY <1>1 DEF ContentsOK
  <1>4. n \in Nat
    BY <1>1 DEF ContentsOK
  <1>. QED BY <1>2, <1>3, <1>4, SameElements

\* Writing n bytes into free room makes the queue n bytes longer.
LEMMA LenAfterWrite ==
  ASSUME IndexOK, OneLapAhead, NEW n \in 0 .. rt_ringbuffer_space_len,
         WriteOn(n), UNCHANGED <<read_mirror, read_index>>
  PROVE  rt_ringbuffer_data_len' = rt_ringbuffer_data_len + n
  BY SizePositive DEF IndexOK, OneLapAhead, WriteOn, rt_ringbuffer_space_len,
                      rt_ringbuffer_data_len, rt_ringbuffer_status

\* Reading n of the bytes held makes it n bytes shorter.
LEMMA LenAfterRead ==
  ASSUME IndexOK, OneLapAhead, NEW n \in 0 .. rt_ringbuffer_data_len,
         ReadOn(n), UNCHANGED <<write_mirror, write_index>>
  PROVE  rt_ringbuffer_data_len' = rt_ringbuffer_data_len - n
  BY SizePositive DEF IndexOK, OneLapAhead, ReadOn,
                      rt_ringbuffer_data_len, rt_ringbuffer_status

\* The slot a position of the queue is stored in, seen from the write index:
\* the bytes held come last and the free room, which is filled next, first.
LEMMA SlotDistance ==
  ASSUME Inv, NEW k \in 1 .. buffer_size
  PROVE  Distance(write_index, Forward(read_index, k - 1))
           = IF k > rt_ringbuffer_data_len
               THEN k - 1 - rt_ringbuffer_data_len
               ELSE k - 1 + rt_ringbuffer_space_len
  <1> DEFINE d == rt_ringbuffer_data_len
  <1>1. /\ d \in 0 .. buffer_size /\ rt_ringbuffer_space_len = buffer_size - d
        /\ read_mirror = write_mirror => d = write_index - read_index
        /\ read_mirror # write_mirror => d = buffer_size - (read_index - write_index)
    BY DataLenBounds DEF rt_ringbuffer_space_len
  <1>2. /\ buffer_size \in Nat /\ read_index \in 0 .. buffer_size - 1
        /\ write_index \in 0 .. buffer_size - 1
    BY SizePositive DEF Inv, TypeOK, Index
  <1> HIDE DEF d
  <1>3. CASE read_mirror = write_mirror
    BY <1>1, <1>2, <1>3 DEF d, Distance, Forward
  <1>4. CASE read_mirror # write_mirror
    BY <1>1, <1>2, <1>4 DEF d, Distance, Forward
  <1>. QED BY <1>3, <1>4

\* Storing a block that fits appends it to the queue.
LEMMA Appends ==
  ASSUME Inv, Inv', NEW b \in Seq(Byte), Len(b) <= rt_ringbuffer_space_len,
         buffer' = CopyIn(b), WriteOn(Len(b)),
         UNCHANGED <<read_mirror, read_index>>
  PROVE  Contents' = Contents \o b
  <1>1. ContentsOK /\ ContentsOK'
    BY ContentsElements, PTL
  <1>2. rt_ringbuffer_data_len' = rt_ringbuffer_data_len + Len(b)
    BY LenAfterWrite, InvParts, DataLenBounds
  <1>3. /\ rt_ringbuffer_data_len \in 0 .. buffer_size
        /\ rt_ringbuffer_space_len = buffer_size - rt_ringbuffer_data_len
        /\ buffer_size \in Nat
    BY DataLenBounds, SizePositive DEF rt_ringbuffer_space_len
  <1>4. ASSUME NEW k \in 1 .. rt_ringbuffer_data_len + Len(b)
        PROVE  Contents'[k] = (Contents \o b)[k]
    <2>1. /\ Contents'[k] = buffer'[Forward(read_index, k - 1)]
          /\ Forward(read_index, k - 1) \in Index
      BY <1>1, <1>2 DEF ContentsOK, Forward, Index
    <2>2. k \in 1 .. buffer_size
      BY <1>3
    <2>3. CASE k > rt_ringbuffer_data_len
      <3>1. Distance(write_index, Forward(read_index, k - 1)) = k - 1 - rt_ringbuffer_data_len
        BY <2>2, <2>3, SlotDistance
      <3>2. Contents'[k] = b[k - rt_ringbuffer_data_len]
        BY <1>3, <2>1, <2>3, <3>1 DEF CopyIn
      <3>. QED BY <1>1, <1>3, <2>3, <3>2 DEF ContentsOK
    <2>4. CASE ~(k > rt_ringbuffer_data_len)
      <3>1. Distance(write_index, Forward(read_index, k - 1)) = k - 1 + rt_ringbuffer_space_len
        BY <2>2, <2>4, SlotDistance
      <3>2. Contents'[k] = buffer[Forward(read_index, k - 1)]
        BY <1>3, <2>1, <2>4, <3>1 DEF CopyIn
      <3>. QED BY <1>1, <1>3, <2>4, <3>2 DEF ContentsOK
    <2>. QED BY Zenon, <2>3, <2>4
  <1>5. Contents' \in Seq(Byte) /\ Len(Contents') = rt_ringbuffer_data_len + Len(b)
    BY <1>1, <1>2 DEF ContentsOK
  <1>6. /\ Contents \o b \in Seq(Byte)
        /\ Len(Contents \o b) = rt_ringbuffer_data_len + Len(b)
    BY Zenon, <1>1, ConcatElements DEF ContentsOK
  <1>. QED BY <1>4, <1>5, <1>6, SameElements

\* Moving the read side takes the oldest bytes, those CopyOut handed over.
LEMMA Takes ==
  ASSUME Inv, Inv', NEW n \in 0 .. rt_ringbuffer_data_len, ReadOn(n),
         UNCHANGED <<buffer, write_mirror, write_index>>
  PROVE  /\ CopyOut(n) = SubSeq(Contents, 1, n)
         /\ Contents' = SubSeq(Contents, n + 1, Len(Contents))
  <1>1. ContentsOK /\ ContentsOK'
    BY ContentsElements, PTL
  <1>2. rt_ringbuffer_data_len' = rt_ringbuffer_data_len - n
    BY LenAfterRead, InvParts
  <1>3. CopyOut(n) = SubSeq(Contents, 1, n)
    BY FirstBytes
  <1>4. ASSUME NEW k \in 1 .. rt_ringbuffer_data_len - n
        PROVE  Contents'[k] = Contents[n + k]
    <2>1. Contents'[k] = buffer[Forward(read_index', k - 1)]
      BY <1>1, <1>2 DEF ContentsOK, Forward, Index
    <2>2. Forward(read_index', k - 1) = Forward(read_index, n + k - 1)
      <3>1. /\ rt_ringbuffer_data_len \in 0 .. buffer_size /\ buffer_size \in Nat
            /\ read_index \in 0 .. buffer_size - 1
        BY <1>1, SizePositive DEF ContentsOK, Inv, TypeOK, Index
      <3>. QED BY <3>1 DEF Forward, ReadOn
    <2>3. n + k \in 1 .. rt_ringbuffer_data_len
      BY <1>1 DEF ContentsOK
    <2>. QED BY <1>1, <2>1, <2>2, <2>3 DEF ContentsOK
  <1>5. Contents' \in Seq(Byte) /\ Len(Contents') = rt_ringbuffer_data_len - n
    BY <1>1, <1>2 DEF ContentsOK
  <1>6. /\ SubSeq(Contents, n + 1, Len(Contents)) \in Seq(Byte)
        /\ Len(SubSeq(Contents, n + 1, Len(Contents))) = rt_ringbuffer_data_len - n
        /\ \A k \in 1 .. rt_ringbuffer_data_len - n :
             SubSeq(Contents, n + 1, Len(Contents))[k] = Contents[n + k]
    <2>1. /\ Contents \in Seq(Byte) /\ Len(Contents) = rt_ringbuffer_data_len
          /\ n \in 0 .. Len(Contents)
      BY <1>1 DEF ContentsOK
    <2>. QED BY <2>1, TailElements
  <1>7. Contents' = SubSeq(Contents, n + 1, Len(Contents))
    <2>1. rt_ringbuffer_data_len - n \in Nat
      BY <1>1 DEF ContentsOK
    <2>. QED BY <1>4, <1>5, <1>6, <2>1, SameElements
  <1>. QED BY <1>3, <1>7

\* rt_ringbuffer_put appends what fits of the block and reports its length.
LEMMA PutImplements ==
  ASSUME Inv, Inv', NEW s \in Blocks, rt_ringbuffer_put(s)
  PROVE  Fifo!Put(s)
  <1> DEFINE n == Min2(Len(s), rt_ringbuffer_space_len)
             b == SubSeq(s, 1, n)
  <1>1. s \in Seq(Byte)
    BY BlocksAssumption DEF BlocksAssumption
  <1>2. ContentsOK /\ ContentsOK'
    BY ContentsElements, PTL
  <1>3. /\ n \in 0 .. rt_ringbuffer_space_len /\ n \in 0 .. Len(s)
        /\ n = Fifo!Least(Len(s), buffer_size - Len(Contents))
    BY <1>1, <1>2, DataLenBounds, SizePositive
    DEF Min2, ContentsOK, Fifo!Least, rt_ringbuffer_space_len
  <1>4. b \in Seq(Byte) /\ Len(b) = n
    BY <1>1, <1>3
  <1> HIDE DEF b
  <1>5. Contents' = Contents \o b
    <2>1. CASE rt_ringbuffer_space_len = 0
      <3>1. Contents' = Contents
        BY <2>1 DEF rt_ringbuffer_put, Contents, CopyOut, Forward,
             rt_ringbuffer_data_len, rt_ringbuffer_status
      <3>2. Len(b) = 0
        BY <1>3, <1>4, <2>1
      <3>. QED BY <1>2, <1>4, <3>1, <3>2 DEF ContentsOK
    <2>2. CASE rt_ringbuffer_space_len # 0
      <3>1. /\ buffer' = CopyIn(b) /\ WriteOn(Len(b))
            /\ UNCHANGED <<read_mirror, read_index>>
        BY <1>4, <2>2 DEF rt_ringbuffer_put, b
      <3>2. Len(b) <= rt_ringbuffer_space_len
        BY <1>3, <1>4, DataLenBounds
      <3>. QED BY <1>4, <3>1, <3>2, Appends
    <2>. QED BY <2>1, <2>2
  <1>6. out' = <<n>>
    BY DEF rt_ringbuffer_put
  <1>. QED BY <1>3, <1>5, <1>6 DEF Fifo!Put, b

\* Storing one byte at the write index is storing a block of one byte.
LEMMA OneByte ==
  ASSUME Inv, NEW ch \in Byte
  PROVE  /\ <<ch>> \in Seq(Byte) /\ Len(<<ch>>) = 1
         /\ [buffer EXCEPT ![write_index] = ch] = CopyIn(<<ch>>)
  <1>1. ASSUME NEW i \in Index
        PROVE  /\ Distance(write_index, i) \in Nat
               /\ Distance(write_index, i) < 1 <=> i = write_index
    BY SizePositive DEF Inv, TypeOK, Index, Distance
  <1>2. buffer \in [Index -> Byte] /\ write_index \in Index
    BY DEF Inv, TypeOK
  <1>3. ASSUME NEW i \in Index
        PROVE  [buffer EXCEPT ![write_index] = ch][i] = CopyIn(<<ch>>)[i]
    <2>1. CASE i = write_index
      <3>1. Distance(write_index, i) = 0
        BY <1>1, <2>1
      <3>. QED BY <1>2, <2>1, <3>1 DEF CopyIn
    <2>2. CASE i # write_index
      <3>1. ~ (Distance(write_index, i) < 1)
        BY <1>1, <2>2
      <3>. QED BY <1>2, <2>2, <3>1 DEF CopyIn
    <2>. QED BY <2>1, <2>2
  <1>4. <<ch>> \in Seq(Byte) /\ Len(<<ch>>) = 1
    OBVIOUS
  <1>5. /\ [buffer EXCEPT ![write_index] = ch] \in [Index -> Byte]
        /\ CopyIn(<<ch>>) \in [Index -> Byte]
    BY Zenon, <1>2, <1>4, CopyTypes
  <1>. QED BY Zenon, <1>3, <1>4, <1>5, SameFunction

\* rt_ringbuffer_putchar appends the byte or, on a full buffer, refuses it.
LEMMA PutcharImplements ==
  ASSUME Inv, Inv', NEW ch \in Byte, rt_ringbuffer_putchar(ch)
  PROVE  Fifo!Put(<<ch>>)
  <1>1. ContentsOK
    BY ContentsElements
  <1>2. /\ rt_ringbuffer_space_len \in 0 .. buffer_size
        /\ rt_ringbuffer_space_len = buffer_size - Len(Contents)
    BY <1>1, DataLenBounds DEF ContentsOK, rt_ringbuffer_space_len
  <1>3. CASE rt_ringbuffer_space_len = 0
    <2>1. Contents' = Contents
      BY <1>3 DEF rt_ringbuffer_putchar, Contents, CopyOut, Forward,
           rt_ringbuffer_data_len, rt_ringbuffer_status
    <2>2. Contents \o SubSeq(<<ch>>, 1, 0) = Contents
      BY <1>1 DEF ContentsOK
    <2>3. Fifo!Least(Len(<<ch>>), buffer_size - Len(Contents)) = 0
      BY <1>2, <1>3 DEF Fifo!Least
    <2>4. out' = <<0>>
      BY <1>3 DEF rt_ringbuffer_putchar
    <2>. QED BY <2>1, <2>2, <2>3, <2>4 DEF Fifo!Put
  <1>4. CASE rt_ringbuffer_space_len # 0
    <2>1. /\ buffer' = CopyIn(<<ch>>) /\ WriteOn(1) /\ out' = <<1>>
          /\ UNCHANGED <<read_mirror, read_index>>
      <3>1. WriteOn(1)
        BY <1>4, SizePositive DEF rt_ringbuffer_putchar, WriteOn, Inv, TypeOK, Index
      <3>. QED BY <1>4, <3>1, OneByte DEF rt_ringbuffer_putchar
    <2>2. 1 <= rt_ringbuffer_space_len
      BY <1>2, <1>4
    <2>3. Contents' = Contents \o <<ch>>
      BY Zenon, <2>1, <2>2, OneByte, Appends
    <2>4. SubSeq(<<ch>>, 1, 1) = <<ch>>
      BY Zenon, OneByte, WholeSequence
    <2>5. Fifo!Least(Len(<<ch>>), buffer_size - Len(Contents)) = 1
      BY <1>2, <1>4, SizePositive DEF Fifo!Least
    <2>. QED BY <2>1, <2>3, <2>4, <2>5 DEF Fifo!Put
  <1>. QED BY <1>3, <1>4

\* rt_ringbuffer_putchar_force on a full buffer replaces the oldest byte.
LEMMA ReplacesOldest ==
  ASSUME Inv, Inv', NEW ch \in Byte, rt_ringbuffer_putchar_force(ch),
         rt_ringbuffer_status = "FULL"
  PROVE  Contents' = SubSeq(Contents \o <<ch>>, 2, Len(Contents \o <<ch>>))
  <1>1. ContentsOK /\ ContentsOK'
    BY ContentsElements, PTL
  <1>2. /\ read_index \in 0 .. buffer_size - 1 /\ read_index = write_index
        /\ buffer_size \in Nat /\ buffer_size > 0
        /\ read_mirror \in 0 .. 1 /\ write_mirror \in 0 .. 1
        /\ read_mirror # write_mirror
    BY SizePositive DEF Inv, TypeOK, Index, rt_ringbuffer_status
  <1>3. /\ read_index' = IF read_index = buffer_size - 1 THEN 0 ELSE read_index + 1
        /\ write_index' = read_index' /\ read_mirror' # write_mirror'
    BY <1>2 DEF rt_ringbuffer_putchar_force
  <1>4. rt_ringbuffer_data_len = buffer_size /\ rt_ringbuffer_data_len' = buffer_size
    BY <1>2, <1>3 DEF rt_ringbuffer_data_len, rt_ringbuffer_status
  <1>5. /\ Contents \in Seq(Byte) /\ Len(Contents) = buffer_size
        /\ Contents' \in Seq(Byte) /\ Len(Contents') = buffer_size
        /\ <<ch>> \in Seq(Byte) /\ Len(<<ch>>) = 1 /\ <<ch>>[1] = ch
    BY <1>1, <1>4 DEF ContentsOK
  <1> DEFINE all == Contents \o <<ch>>
  <1>6. /\ all \in Seq(Byte) /\ Len(all) = buffer_size + 1
        /\ \A j \in 1 .. buffer_size + 1 :
             all[j] = IF j <= buffer_size THEN Contents[j] ELSE ch
    <2>1. \A j \in 1 .. buffer_size + 1 : ~ (j <= buffer_size) => j - buffer_size = 1
      BY <1>2
    <2>. QED BY <1>2, <1>5, <2>1, ConcatElements
  <1> HIDE DEF all
  <1>7. ASSUME NEW j \in 1 .. buffer_size PROVE Contents'[j] = all[j + 1]
    <2>1. Contents'[j] = buffer'[Forward(read_index', j - 1)]
      BY <1>1, <1>4 DEF ContentsOK, Forward, Index
    <2>2. buffer' = [buffer EXCEPT ![read_index] = ch] /\ buffer \in [Index -> Byte]
      BY <1>2 DEF rt_ringbuffer_putchar_force, Inv, TypeOK
    <2>3. CASE j = buffer_size
      <3>1. Forward(read_index', j - 1) = read_index /\ read_index \in Index
        BY <1>2, <1>3, <2>3 DEF Forward, Index
      <3>2. Contents'[j] = ch
        BY <2>1, <2>2, <3>1
      <3>. QED BY <1>2, <1>6, <2>3, <3>2
    <2>4. CASE j # buffer_size
      <3>1. /\ Forward(read_index', j - 1) = Forward(read_index, j)
            /\ Forward(read_index, j) \in Index
            /\ Forward(read_index, j) # read_index
            /\ j + 1 \in 1 .. buffer_size /\ (j + 1) - 1 = j
        BY <1>2, <1>3, <2>4 DEF Forward, Index
      <3>2. Contents[j + 1] = buffer[Forward(read_index, j)]
        BY <1>1, <1>4, <3>1 DEF ContentsOK
      <3>3. Contents'[j] = Contents[j + 1]
        BY <2>1, <2>2, <3>1, <3>2
      <3>. QED BY <1>2, <1>6, <3>1, <3>3
    <2>. QED BY <2>3, <2>4
  <1>8. /\ SubSeq(all, 2, Len(all)) \in Seq(Byte)
        /\ Len(SubSeq(all, 2, Len(all))) = buffer_size
        /\ \A j \in 1 .. buffer_size : SubSeq(all, 2, Len(all))[j] = all[j + 1]
    <2>1. 1 \in 0 .. Len(all) /\ 1 + 1 = 2 /\ Len(all) - 1 = buffer_size
      BY <1>2, <1>6
    <2>2. /\ SubSeq(all, 1 + 1, Len(all)) \in Seq(Byte)
          /\ Len(SubSeq(all, 1 + 1, Len(all))) = Len(all) - 1
          /\ \A j \in 1 .. Len(all) - 1 : SubSeq(all, 1 + 1, Len(all))[j] = all[1 + j]
      BY <1>6, <2>1, TailElements
    <2>. QED BY <2>1, <2>2
  <1>9. Contents' = SubSeq(all, 2, Len(all))
    BY <1>2, <1>5, <1>7, <1>8, SameElements
  <1>. QED BY <1>9 DEF all

\* rt_ringbuffer_putchar_force always keeps the new byte.
LEMMA PutcharForceImplements ==
  ASSUME Inv, Inv', NEW ch \in Byte, rt_ringbuffer_putchar_force(ch)
  PROVE  Fifo!PutForce(<<ch>>)
  <1> DEFINE all == Contents \o <<ch>>
  <1>1. ContentsOK
    BY ContentsElements
  <1>2. /\ Contents \in Seq(Byte) /\ Len(Contents) = rt_ringbuffer_data_len
        /\ rt_ringbuffer_data_len \in 0 .. buffer_size
        /\ rt_ringbuffer_space_len = buffer_size - rt_ringbuffer_data_len
        /\ buffer_size \in Nat /\ buffer_size > 0
    BY <1>1, SizePositive DEF ContentsOK, rt_ringbuffer_space_len
  <1>3. all \in Seq(Byte) /\ Len(all) = rt_ringbuffer_data_len + 1
    BY <1>2, OneByte, ConcatElements
  <1>4. rt_ringbuffer_status = "FULL" <=> rt_ringbuffer_data_len = buffer_size
    BY SizePositive DEF Inv, TypeOK, OneLapAhead, Index, rt_ringbuffer_data_len,
       rt_ringbuffer_status
  <1>5. out' = <<Fifo!Least(Len(<<ch>>), buffer_size)>>
    BY <1>2 DEF rt_ringbuffer_putchar_force, Fifo!Least
  <1>6. CASE rt_ringbuffer_status = "FULL"
    <2>1. Fifo!Least(Len(all), buffer_size) = buffer_size
          /\ Len(all) - buffer_size + 1 = 2
      BY <1>2, <1>3, <1>4, <1>6 DEF Fifo!Least
    <2>2. Contents' = SubSeq(all, 2, Len(all))
      BY <1>6, ReplacesOldest
    <2>. QED BY <1>5, <2>1, <2>2 DEF Fifo!PutForce, Fifo!Newest
  <1>7. CASE rt_ringbuffer_status # "FULL"
    <2>1. /\ buffer' = CopyIn(<<ch>>) /\ WriteOn(1)
          /\ UNCHANGED <<read_mirror, read_index>>
      <3>1. WriteOn(1)
        BY SizePositive DEF rt_ringbuffer_putchar_force, WriteOn, Inv, TypeOK, Index
      <3>. QED BY Zenon, <1>7, <3>1, OneByte DEF rt_ringbuffer_putchar_force
    <2>2. 1 <= rt_ringbuffer_space_len
      BY <1>2, <1>4, <1>7
    <2>3. Contents' = all
      BY Zenon, <2>1, <2>2, OneByte, Appends
    <2>4. Fifo!Least(Len(all), buffer_size) = Len(all) /\ Len(all) - Len(all) + 1 = 1
      BY <1>2, <1>3, <1>4, <1>7 DEF Fifo!Least
    <2>5. SubSeq(all, 1, Len(all)) = all
      BY <1>3, WholeSequence
    <2>. QED BY Zenon, <1>5, <2>3, <2>4, <2>5 DEF Fifo!PutForce, Fifo!Newest
  <1>. QED BY <1>6, <1>7

\* On an empty buffer a read hands over nothing and changes nothing.
LEMMA NothingToRead ==
  ASSUME Inv, rt_ringbuffer_data_len = 0, out' = <<>>,
         UNCHANGED <<buffer, read_mirror, read_index, write_mirror, write_index>>
  PROVE  /\ Contents = <<>> /\ Contents' = <<>> /\ Len(Contents) = 0
         /\ out' = SubSeq(Contents, 1, 0)
         /\ Contents' = SubSeq(Contents, 1, Len(Contents))
  <1>1. Contents \in Seq(Byte) /\ Len(Contents) = 0
    BY ContentsElements DEF ContentsOK
  <1>2. Contents' = Contents
    BY DEF Contents, CopyOut, Forward, rt_ringbuffer_data_len, rt_ringbuffer_status
  <1>. QED BY <1>1, <1>2

\* rt_ringbuffer_get hands over the oldest bytes, at most n.
LEMMA GetImplements ==
  ASSUME Inv, Inv', NEW n \in 0 .. buffer_size + 1, rt_ringbuffer_get(n)
  PROVE  Fifo!Get(n)
  <1>1. /\ Len(Contents) = rt_ringbuffer_data_len
        /\ rt_ringbuffer_data_len \in 0 .. buffer_size /\ buffer_size \in Nat
    BY ContentsElements, SizePositive DEF ContentsOK
  <1>2. CASE rt_ringbuffer_data_len = 0
    <2>1. /\ out' = <<>>
          /\ UNCHANGED <<buffer, read_mirror, read_index, write_mirror, write_index>>
      BY <1>2 DEF rt_ringbuffer_get
    <2>2. Fifo!Least(n, Len(Contents)) = 0
      BY <1>1, <1>2 DEF Fifo!Least
    <2>. QED BY <1>2, <2>1, <2>2, NothingToRead DEF Fifo!Get
  <1>3. CASE rt_ringbuffer_data_len # 0
    <2> DEFINE m == Min2(n, rt_ringbuffer_data_len)
    <2>1. m \in 0 .. rt_ringbuffer_data_len /\ m = Fifo!Least(n, Len(Contents))
      BY <1>1 DEF Min2, Fifo!Least
    <2>2. /\ out' = CopyOut(m) /\ ReadOn(m)
          /\ UNCHANGED <<buffer, write_mirror, write_index>>
      BY <1>3 DEF rt_ringbuffer_get
    <2> HIDE DEF m
    <2>3. /\ CopyOut(m) = SubSeq(Contents, 1, m)
          /\ Contents' = SubSeq(Contents, m + 1, Len(Contents))
      BY <2>1, <2>2, Takes
    <2>. QED BY <2>1, <2>2, <2>3 DEF Fifo!Get
  <1>. QED BY <1>2, <1>3

\* rt_ringbuffer_peak hands over oldest bytes, at least one if any is held.
LEMMA PeakImplements ==
  ASSUME Inv, Inv', rt_ringbuffer_peak
  PROVE  Fifo!Peek
  <1> DEFINE m == Min2(rt_ringbuffer_data_len, buffer_size - read_index)
  <1>1. /\ Len(Contents) = rt_ringbuffer_data_len /\ Contents \in Seq(Byte)
        /\ rt_ringbuffer_data_len \in 0 .. buffer_size /\ buffer_size \in Nat
        /\ read_index \in 0 .. buffer_size - 1
    BY ContentsElements, SizePositive DEF ContentsOK, Inv, TypeOK, Index
  <1>2. m \in 0 .. rt_ringbuffer_data_len /\ (m = 0 => rt_ringbuffer_data_len = 0)
    BY <1>1 DEF Min2
  <1>3. /\ out' = CopyOut(m) /\ (m = 0 => UNCHANGED <<read_mirror, read_index>>)
        /\ (m # 0 => ReadOn(m)) /\ UNCHANGED <<buffer, write_mirror, write_index>>
    BY DEF rt_ringbuffer_peak
  <1> HIDE DEF m
  <1>4. m = 0 => ReadOn(m)
    BY <1>1, <1>3 DEF ReadOn
  <1>5. /\ CopyOut(m) = SubSeq(Contents, 1, m)
        /\ Contents' = SubSeq(Contents, m + 1, Len(Contents))
    BY <1>2, <1>3, <1>4, Takes
  <1>6. m = 0 => Contents = <<>>
    BY <1>1, <1>2
  <1>. QED BY <1>1, <1>2, <1>3, <1>5, <1>6 DEF Fifo!Peek

\* rt_ringbuffer_getchar hands over the oldest byte.
LEMMA GetcharImplements ==
  ASSUME Inv, Inv', rt_ringbuffer_getchar
  PROVE  Fifo!Get(1)
  <1>1. /\ Len(Contents) = rt_ringbuffer_data_len
        /\ rt_ringbuffer_data_len \in 0 .. buffer_size /\ buffer_size \in Nat
        /\ read_index \in 0 .. buffer_size - 1 /\ buffer \in [Index -> Byte]
    BY ContentsElements, SizePositive DEF ContentsOK, Inv, TypeOK, Index
  <1>2. CASE rt_ringbuffer_data_len = 0
    <2>1. /\ out' = <<>>
          /\ UNCHANGED <<buffer, read_mirror, read_index, write_mirror, write_index>>
      BY <1>2 DEF rt_ringbuffer_getchar
    <2>2. Fifo!Least(1, Len(Contents)) = 0
      BY <1>1, <1>2 DEF Fifo!Least
    <2>. QED BY <1>2, <2>1, <2>2, NothingToRead DEF Fifo!Get
  <1>3. CASE rt_ringbuffer_data_len # 0
    <2>1. 1 \in 0 .. rt_ringbuffer_data_len /\ Fifo!Least(1, Len(Contents)) = 1
      BY <1>1, <1>3 DEF Fifo!Least
    <2>2. /\ out' = <<buffer[read_index]>> /\ ReadOn(1)
          /\ UNCHANGED <<buffer, write_mirror, write_index>>
      BY <1>1, <1>3 DEF rt_ringbuffer_getchar, ReadOn
    <2>3. CopyOut(1) = <<buffer[read_index]>>
      <3>1. Forward(read_index, 0) = read_index
        BY <1>1 DEF Forward
      <3>2. CopyOut(1) = [j \in 1 .. 1 |-> buffer[read_index]]
        BY <3>1 DEF CopyOut
      <3>. QED BY <3>2
    <2>4. /\ CopyOut(1) = SubSeq(Contents, 1, 1)
          /\ Contents' = SubSeq(Contents, 1 + 1, Len(Contents))
      BY <2>1, <2>2, Takes
    <2>. QED BY SMTT(30), <2>1, <2>2, <2>3, <2>4 DEF Fifo!Get
  <1>. QED BY <1>2, <1>3

\* rt_ringbuffer_reset empties the queue.
LEMMA ResetImplements ==
  ASSUME Inv', rt_ringbuffer_reset
  PROVE  Fifo!Reset
  <1>1. rt_ringbuffer_data_len' = 0 /\ out' = <<>>
    BY DEF rt_ringbuffer_reset, rt_ringbuffer_data_len, rt_ringbuffer_status
  <1>2. ContentsOK'
    BY ContentsElements, PTL
  <1>3. Contents' \in Seq(Byte) /\ Len(Contents') = 0
    BY <1>1, <1>2 DEF ContentsOK
  <1>. QED BY <1>1, <1>3 DEF Fifo!Reset

\* For every pool size, every set of bytes and of blocks, the ring buffer
\* implements the byte queue: whatever calls came before, forced block writes
\* included, put, get, peak, putchar, putchar_force, getchar and reset act on
\* the bytes held as on a first-in first-out queue of buffer_size bytes.
THEOREM RingImplements == Spec => RefinesFifo
  <1>1. Init => Fifo!FifoInit
    <2>1. Init => Contents \in Seq(Byte) /\ Len(Contents) = 0
      <3>1. Init => rt_ringbuffer_data_len = 0
        BY DEF Init, rt_ringbuffer_data_len, rt_ringbuffer_status
      <3>. QED BY <3>1, InvInit, ContentsElements DEF ContentsOK
    <2>. QED BY <2>1 DEF Init, Fifo!FifoInit
  <1>2. Inv /\ Inv' /\ NextUnforced => Fifo!FifoNext
    <2>. SUFFICES ASSUME Inv, Inv', NextUnforced PROVE Fifo!FifoNext
      OBVIOUS
    <2>1. ASSUME NEW s \in Blocks, rt_ringbuffer_put(s) PROVE Fifo!FifoNext
      BY <2>1, PutImplements DEF Fifo!FifoNext
    <2>2. ASSUME NEW ch \in Byte, rt_ringbuffer_putchar(ch) PROVE Fifo!FifoNext
      BY <2>2, PutcharImplements DEF Fifo!FifoNext
    <2>3. ASSUME NEW ch \in Byte, rt_ringbuffer_putchar_force(ch) PROVE Fifo!FifoNext
      BY <2>3, PutcharForceImplements DEF Fifo!FifoNext
    <2>4. ASSUME NEW n \in 0 .. buffer_size + 1, rt_ringbuffer_get(n)
          PROVE  Fifo!FifoNext
      BY <2>4, GetImplements DEF Fifo!FifoNext
    <2>5. CASE rt_ringbuffer_peak
      BY <2>5, PeakImplements DEF Fifo!FifoNext
    <2>6. CASE rt_ringbuffer_getchar
      <3>1. 1 \in 0 .. buffer_size + 1
        BY SizePositive
      <3>. QED BY <2>6, <3>1, GetcharImplements DEF Fifo!FifoNext
    <2>7. CASE rt_ringbuffer_reset
      BY <2>7, ResetImplements DEF Fifo!FifoNext
    <2>. QED BY <2>1, <2>2, <2>3, <2>4, <2>5, <2>6, <2>7 DEF NextUnforced
  <1>3. Inv /\ Inv' => [NextUnforced => [Fifo!FifoNext]_<<Contents, out>>]_vars
    BY <1>2
  <1>. QED BY <1>1, <1>3, InvInit, InvNext, PTL DEF Spec, RefinesFifo
=============================================================================
