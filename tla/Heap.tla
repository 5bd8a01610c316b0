-------------------------------- MODULE Heap --------------------------------
(***************************************************************************)
(* The heap of mem.c: blocks, each with a header, that fill the memory     *)
(* without a gap and are linked both ways; a free block is found from the  *)
(* lowest one on, split if it is large, and joined to its free neighbours  *)
(* when it is released.  An address is the offset from heap_ptr.  heap_sem *)
(* makes what is between its take and its release one step; rt_realloc     *)
(* gives it back before it calls rt_malloc and rt_free.                    *)
(***************************************************************************)
EXTENDS Integers, FiniteSetsExt

CONSTANTS mem_size_aligned,
          SIZEOF_STRUCT_MEM, MIN_SIZE,
          Sizes,   \* the sizes the application asks for
          User     \* the threads

RT_ALIGN_SIZE == 4

RT_ALIGN(n) == ((n + RT_ALIGN_SIZE - 1) \div RT_ALIGN_SIZE) * RT_ALIGN_SIZE

MIN_SIZE_ALIGNED == RT_ALIGN(MIN_SIZE)

\* rt_system_heap_init is given memory for one block at least, and a size is
\* far enough below 2^32 to be aligned.
ASSUME HeapAssumption ==
  /\ SIZEOF_STRUCT_MEM \in Nat \ {0} /\ MIN_SIZE \in Nat \ {0}
  /\ mem_size_aligned \in Nat /\ MIN_SIZE_ALIGNED <= mem_size_aligned
  /\ Sizes \subseteq Nat

VARIABLES heap,      \* the headers that are linked: used, next, prev
          lfree,     \* the lowest free block
          used_mem,  \* rt_memory_info
          area,      \* the pointers the application has, and their sizes
          job        \* what is left of a thread's rt_realloc

vars == <<heap, lfree, used_mem, area, job>>

H == SIZEOF_STRUCT_MEM
heap_end == mem_size_aligned + H

NoJob == [do |-> "none", old |-> 0, size |-> 0]

\* rt_system_heap_init
Init ==
  /\ heap = [p \in {0, heap_end} |->
               IF p = 0 THEN [used |-> FALSE, next |-> heap_end, prev |-> 0]
                        ELSE [used |-> TRUE, next |-> heap_end, prev |-> heap_end]]
  /\ lfree = 0 /\ used_mem = 0
  /\ area = [p \in {} |-> 0]
  /\ job = [u \in User |-> NoJob]

\* The bytes of block p, with and without its header
Span(h, p) == h[p].next - p
Room(h, p) == h[p].next - (p + H)

-----------------------------------------------------------------------------
\* Block p keeps size bytes; the rest becomes a free block.  The header at the
\* end of the heap does not learn of it.
Split(h, p, size) ==
  LET q == p + H + size
      n == h[p].next
  IN  [r \in DOMAIN h \cup {q} |->
         CASE r = q -> [used |-> FALSE, next |-> n, prev |-> p]
           [] r = p -> [h[p] EXCEPT !.next = q]
           [] r = n /\ n # heap_end -> [h[n] EXCEPT !.prev = q]
           [] OTHER -> h[r]]

\* Block q becomes part of block p.
Join(h, p, q) ==
  LET n == h[q].next
  IN  [r \in DOMAIN h \ {q} |->
         CASE r = p -> [h[p] EXCEPT !.next = n]
           [] r = n -> [h[n] EXCEPT !.prev = p]
           [] OTHER -> h[r]]

\* The two halves of plug_holes, for the heap s.h with the lowest free block s.l
PlugForward(s, p) ==
  LET n == s.h[p].next
  IN  IF p # n /\ ~ s.h[n].used /\ n # heap_end
        THEN [h |-> Join(s.h, p, n), l |-> IF s.l = n THEN p ELSE s.l]
        ELSE s

PlugBackward(s, p) ==
  LET q == s.h[p].prev
  IN  IF q # p /\ ~ s.h[q].used
        THEN [h |-> Join(s.h, q, p), l |-> IF s.l = p THEN q ELSE s.l]
        ELSE s

plug_holes(s, p) == PlugBackward(PlugForward(s, p), p)

\* Mutant: a block freed below the lowest one goes unnoticed.
LowestUnmoved(p) == lfree

\* The block p is free and may be the lowest one.
Lowest(p) == IF p < lfree THEN p ELSE lfree

-----------------------------------------------------------------------------
\* rt_malloc

SizeOf(n) == IF RT_ALIGN(n) < MIN_SIZE_ALIGNED THEN MIN_SIZE_ALIGNED ELSE RT_ALIGN(n)

\* Mutant: the room is measured to the end of the heap.
SuitsToEnd(p, size) ==
  /\ p \in DOMAIN heap /\ lfree <= p /\ p < mem_size_aligned - size
  /\ ~ heap[p].used /\ heap_end - (p + H) >= size

\* The test of the loop on block p
Suits(p, size) ==
  /\ p \in DOMAIN heap /\ lfree <= p /\ p < mem_size_aligned - size
  /\ ~ heap[p].used /\ Room(heap, p) >= size

\* p is where the loop ends: the blocks before it do not suit.
FirstFit(p, size) ==
  /\ Suits(p, size)
  /\ \A q \in DOMAIN heap : Suits(q, size) => p <= q

\* The heap after block p has been given out
Taken(p, size) ==
  LET h == [heap EXCEPT ![p].used = TRUE]
  IN  IF Room(heap, p) >= size + H + MIN_SIZE_ALIGNED THEN Split(h, p, size) ELSE h

\* l is where the search for the next free block after p ends.
NextFree(h, p, l) ==
  /\ l \in DOMAIN h /\ p <= l
  /\ ~ h[l].used \/ l = heap_end
  /\ \A r \in DOMAIN h : p <= r /\ r < l => h[r].used

\* The block at p is given out for size bytes.
TakeBlock(p, size) ==
  /\ FirstFit(p, size)
  /\ heap' = Taken(p, size)
  /\ used_mem' = used_mem + Span(heap', p)
  /\ IF p = lfree THEN \E l \in DOMAIN heap' : NextFree(heap', p, l) /\ lfree' = l
                  ELSE UNCHANGED lfree
  /\ area' = [q \in DOMAIN area \cup {p + H} |-> IF q = p + H THEN size ELSE area[q]]

\* A request for nothing, for too much, or for more than any block has is
\* refused, which changes nothing.
rt_malloc(u, n) ==
  /\ job[u] = NoJob
  /\ n # 0 /\ RT_ALIGN(n) <= mem_size_aligned
  /\ \E p \in DOMAIN heap : TakeBlock(p, SizeOf(n))
  /\ UNCHANGED job

-----------------------------------------------------------------------------
\* Mutant: the bytes are counted after the next block has been joined.
ReleaseCountsJoined(a) ==
  LET p == a - H
      s == [h |-> [heap EXCEPT ![p].used = FALSE], l |-> Lowest(p)]
      r == plug_holes(s, p)
  IN  /\ heap' = r.h /\ lfree' = r.l
      /\ used_mem' = used_mem - Span(PlugForward(s, p).h, p)
      /\ area' = [q \in DOMAIN area \ {a} |-> area[q]]

\* rt_free of pointer a, of block a - H
ReleaseBlock(a) ==
  LET p == a - H
      r == plug_holes([h |-> [heap EXCEPT ![p].used = FALSE], l |-> Lowest(p)], p)
  IN  /\ heap' = r.h /\ lfree' = r.l
      /\ used_mem' = used_mem - Span(heap, p)
      /\ area' = [q \in DOMAIN area \ {a} |-> area[q]]

\* The application hands a pointer to one call at a time.
Free(a) == a \in DOMAIN area /\ \A u \in User : job[u].do # "none" => job[u].old # a

rt_free(u, a) ==
  /\ job[u] = NoJob /\ Free(a)
  /\ ReleaseBlock(a)
  /\ UNCHANGED job

-----------------------------------------------------------------------------
\* rt_realloc of a; RT_NULL and the size 0 are rt_malloc and rt_free, and more
\* than the heap has is refused.

ReallocSame(u, a, size) ==
  /\ Room(heap, a - H) = size
  /\ area' = [area EXCEPT ![a] = size]
  /\ UNCHANGED <<heap, lfree, used_mem, job>>

Shrinks(p, size) == size + H + MIN_SIZE < Room(heap, p)

ReallocShrink(u, a, size) ==
  LET p == a - H
      q == a + size
      r == plug_holes([h |-> Split(heap, p, size), l |-> Lowest(q)], q)
  IN  /\ Shrinks(p, size)
      /\ heap' = r.h /\ lfree' = r.l
      /\ used_mem' = used_mem - (Room(heap, p) - size)
      /\ area' = [area EXCEPT ![a] = size]
      /\ UNCHANGED job

\* The block is too small, or not large enough to be split.
ReallocMove(u, a, size) ==
  /\ Room(heap, a - H) # size /\ ~ Shrinks(a - H, size)
  /\ job' = [job EXCEPT ![u] = [do |-> "malloc", old |-> a, size |-> size]]
  /\ UNCHANGED <<heap, lfree, used_mem, area>>

rt_realloc(u, a, n) ==
  /\ job[u] = NoJob /\ Free(a)
  /\ n # 0 /\ RT_ALIGN(n) <= mem_size_aligned
  /\ \/ ReallocSame(u, a, RT_ALIGN(n))
     \/ ReallocShrink(u, a, RT_ALIGN(n))
     \/ ReallocMove(u, a, RT_ALIGN(n))

\* rt_malloc of the new size; if it is refused the old block stays.
ReallocMalloc(u) ==
  LET size == SizeOf(job[u].size)
  IN  /\ job[u].do = "malloc"
      /\ \/ /\ \E p \in DOMAIN heap : TakeBlock(p, size)
            /\ job' = [job EXCEPT ![u].do = "free"]
         \/ /\ \A p \in DOMAIN heap : ~ Suits(p, size)
            /\ job' = [job EXCEPT ![u] = NoJob]
            /\ UNCHANGED <<heap, lfree, used_mem, area>>

ReallocFree(u) ==
  /\ job[u].do = "free"
  /\ ReleaseBlock(job[u].old)
  /\ job' = [job EXCEPT ![u] = NoJob]

-----------------------------------------------------------------------------
Step(u) ==
  \/ \E n \in Sizes : rt_malloc(u, n)
  \/ \E a \in DOMAIN area : rt_free(u, a)
  \/ \E a \in DOMAIN area, n \in Sizes : rt_realloc(u, a, n)
  \/ ReallocMalloc(u) \/ ReallocFree(u)

Next == \E u \in User : Step(u)

Spec == Init /\ [][Next]_vars

-----------------------------------------------------------------------------
Header == [used : BOOLEAN, next : 0 .. heap_end, prev : 0 .. heap_end]

\* The types of the headers and of the other variables.
TypeOK ==
  /\ DOMAIN heap \subseteq 0 .. heap_end /\ heap \in [DOMAIN heap -> Header]
  /\ lfree \in DOMAIN heap /\ used_mem \in Int
  /\ DOMAIN area \subseteq Nat /\ area \in [DOMAIN area -> Nat]
  /\ job \in [User -> [do : {"none", "malloc", "free"}, old : Nat, size : Nat]]

\* The blocks lie one behind the other from 0 to heap_end, next and prev lead
\* from each to its neighbours; only the prev of heap_end may be out of date.
Chained(h) ==
  /\ {0, heap_end} \subseteq DOMAIN h
  /\ h[0].prev = 0 /\ h[heap_end].used
  /\ \A p \in DOMAIN h \ {heap_end} :
       /\ h[p].next \in DOMAIN h /\ p + H <= h[p].next
       /\ \A q \in DOMAIN h : q <= p \/ h[p].next <= q
       /\ h[p].next # heap_end => h[h[p].next].prev = p
       /\ p # 0 => h[p].prev \in DOMAIN h /\ h[h[p].prev].next = p

\* There are not "2 unused structs in a row" (rt_malloc).
NoTwoFree(h) == \A p \in DOMAIN h : ~ h[p].used => h[h[p].next].used

\* l is the "lowest free block", or heap_end if there is none.
LowestFree(h, l) ==
  /\ ~ h[l].used \/ l = heap_end
  /\ \A p \in DOMAIN h : ~ h[p].used => l <= p

\* Whatever calls came before, the blocks fill the memory and are linked both
\* ways, no two free blocks are neighbours and no free block is below the one
\* where rt_malloc begins to search (rt_malloc, rt_realloc, plug_holes).
HeapInOrder == TypeOK /\ Chained(heap) /\ NoTwoFree(heap) /\ LowestFree(heap, lfree)

\* The block of every pointer in the areas ar is in use and large enough, and
\* no other block is in use.
Held(h, ar) ==
  /\ \A a \in DOMAIN ar :
       /\ a - H \in DOMAIN h \ {heap_end} /\ h[a - H].used
       /\ 0 < ar[a] /\ ar[a] <= Room(h, a - H)
  /\ \A p \in DOMAIN h \ {heap_end} : h[p].used => p + H \in DOMAIN ar

\* No memory is lost: the blocks in use are those of the application, also when
\* rt_realloc has been interrupted between its parts, and rt_memory_info
\* reports their bytes.
NothingLeaks ==
  /\ Held(heap, area)
  /\ used_mem = MapThenSumSet(LAMBDA p : Span(heap, p),
                              {p \in DOMAIN heap \ {heap_end} : heap[p].used})

Allocator == INSTANCE Areas WITH Size <- heap_end

\* rt_malloc, rt_realloc and rt_free give out memory of the heap, each byte to
\* one owner at a time, and change no area but that of their caller.
IsAllocator == Allocator!Spec

=============================================================================
