----------------------------- MODULE HeapProofs -----------------------------
(***************************************************************************)
(* The heap of mem.c stays in order and implements the allocator of Areas, *)
(* for every size of the memory, every set of requests and any number of   *)
(* threads.  The links are followed one step at a time only: each lemma is *)
(* about a block and its two neighbours.                                   *)
(***************************************************************************)
EXTENDS Heap, TLAPS

\* The headers h have their types and are linked.
Good(h) ==
  /\ DOMAIN h \subseteq 0 .. heap_end /\ h \in [DOMAIN h -> Header]
  /\ Chained(h)

\* The headers g have the used blocks of h, and nothing but blocks of h.
SameUsed(h, g) ==
  /\ \A r \in DOMAIN h : h[r].used =>
       r \in DOMAIN g /\ g[r].used /\ g[r].next = h[r].next
  /\ \A r \in DOMAIN g : r \in DOMAIN h /\ g[r].used = h[r].used

-----------------------------------------------------------------------------
\* The constants of mem.c: a header has a size, the heap room for one block.
LEMMA EndFacts == H \in Nat /\ 0 < H /\ heap_end \in Nat /\ mem_size_aligned \in Nat
                  /\ heap_end = mem_size_aligned + H
  BY HeapAssumption DEF H, heap_end

\* RT_ALIGN rounds up (rtdef.h).
LEMMA AlignUp ==
  ASSUME NEW n \in Nat
  PROVE  RT_ALIGN(n) \in Nat /\ n <= RT_ALIGN(n)
  BY DEF RT_ALIGN, RT_ALIGN_SIZE

\* A block of rt_malloc has room for what was asked for.
LEMMA SizeFacts ==
  ASSUME NEW n \in Nat, 0 < n
  PROVE  SizeOf(n) \in Nat /\ n <= SizeOf(n) /\ MIN_SIZE_ALIGNED \in Nat
         /\ 0 < MIN_SIZE_ALIGNED
  BY AlignUp, HeapAssumption DEF SizeOf, MIN_SIZE_ALIGNED

\* Splitting a block off keeps the blocks linked (rt_malloc, rt_realloc).
LEMMA SplitGood ==
  ASSUME NEW h, Good(h), NEW p \in DOMAIN h \ {heap_end}, NEW size \in Nat,
         p + H + size + H <= h[p].next,
         NEW q, q = p + H + size, NEW g, g = Split(h, p, size)
  PROVE  /\ Good(g) /\ q \notin DOMAIN h /\ DOMAIN g = DOMAIN h \cup {q}
         /\ q # heap_end
         /\ g[p].next = q /\ g[q] = [used |-> FALSE, next |-> h[p].next, prev |-> p]
         /\ \A r \in DOMAIN h : /\ g[r].used = h[r].used
                                /\ r # p => g[r].next = h[r].next
PROOF
  <1>. DEFINE n == h[p].next
  <1>0. /\ p \in Nat /\ n \in DOMAIN h /\ n \in Nat /\ q \in Nat
        /\ p < q /\ q < n /\ q \in 0 .. heap_end /\ p \in 0 .. heap_end
        /\ p + H <= q /\ q + H <= n /\ n <= heap_end
    BY EndFacts DEF Good, Chained
  <1>1. q \notin DOMAIN h /\ q # heap_end /\ n # p /\ q # p /\ q # n
    BY <1>0, EndFacts DEF Good, Chained
  <1>2. DOMAIN g = DOMAIN h \cup {q}
    BY DEF Split
  <1>3. g[q] = [used |-> FALSE, next |-> n, prev |-> p]
    BY <1>1 DEF Split
  <1>4. g[p] = [h[p] EXCEPT !.next = q]
    BY <1>1 DEF Split
  <1>5. n # heap_end => g[n] = [h[n] EXCEPT !.prev = q]
    BY <1>0, <1>1 DEF Split
  <1>6. \A r \in DOMAIN h : r # p /\ (r # n \/ n = heap_end) => g[r] = h[r]
    BY <1>1 DEF Split
  <1>7. \A r \in DOMAIN h : h[r] \in Header
    BY DEF Good
  <1>8. \A r \in DOMAIN h : /\ g[r] \in Header /\ g[r].used = h[r].used
                            /\ r # p => g[r].next = h[r].next
                            /\ r # n \/ n = heap_end => g[r].prev = h[r].prev
    BY <1>0, <1>1, <1>4, <1>5, <1>6, <1>7 DEF Header
  <1>9. g[q] \in Header /\ g[p].next = q /\ (n # heap_end => g[n].prev = q)
    BY <1>0, <1>3, <1>4, <1>5, <1>7 DEF Header
  <1>10. g \in [DOMAIN g -> Header]
    <2>1. g = [r \in DOMAIN g |-> g[r]]
      BY DEF Split
    <2>. QED
      BY <2>1, <1>2, <1>8, <1>9
  <1>11. DOMAIN g \subseteq 0 .. heap_end
    BY <1>0, <1>2 DEF Good
  <1>12. Chained(g)
    <2>1. {0, heap_end} \subseteq DOMAIN g /\ g[0].prev = 0 /\ g[heap_end].used
      <3>1. n # 0
        BY <1>0, EndFacts
      <3>. QED
        BY <3>1, <1>2, <1>8 DEF Good, Chained
    <2>2. ASSUME NEW r \in DOMAIN g \ {heap_end}
          PROVE  /\ g[r].next \in DOMAIN g /\ r + H <= g[r].next
                 /\ \A s \in DOMAIN g : s <= r \/ g[r].next <= s
                 /\ g[r].next # heap_end => g[g[r].next].prev = r
                 /\ r # 0 => g[r].prev \in DOMAIN g /\ g[g[r].prev].next = r
      <3>0. \A s \in DOMAIN h : s \in Nat
        BY EndFacts DEF Good
      <3>1. CASE r = q
        BY <3>0, <3>1, <1>0, <1>1, <1>2, <1>3, <1>9 DEF Good, Chained
      <3>2. CASE r = p
        <4>1. p # 0 => h[p].prev \in DOMAIN h /\ h[h[p].prev].next = p /\ h[p].prev # p
          BY <1>0, <1>1 DEF Good, Chained
        <4>. QED
          BY <3>0, <3>2, <4>1, <1>0, <1>1, <1>2, <1>3, <1>8, <1>9 DEF Good, Chained
      <3>3. CASE r \in DOMAIN h /\ r # p
        <4>1. r <= p \/ n <= r
          BY <3>3 DEF Good, Chained
        <4>2. p <= r \/ h[r].next <= p
          BY <3>3 DEF Good, Chained
        <4>3. h[r].next \in DOMAIN h /\ h[r].next \in Nat /\ r + H <= h[r].next /\ r \in Nat
          BY <3>0, <3>3 DEF Good, Chained
        <4>4. h[r].next # n
          BY <4>1, <4>2, <4>3, <3>3, <1>0, EndFacts
        <4>5. g[r].next = h[r].next
          BY <3>3, <1>8
        <4>6. \A s \in DOMAIN g : s <= r \/ g[r].next <= s
          <5>1. q <= r \/ h[r].next <= q
            BY <4>1, <4>2, <4>3, <3>3, <1>0
          <5>. QED
            BY <3>3, <4>5, <5>1, <1>2 DEF Good, Chained
        <4>7. g[r].next # heap_end => g[g[r].next].prev = r
          BY <3>3, <4>3, <4>4, <4>5, <1>8 DEF Good, Chained
        <4>8. ASSUME r # 0 PROVE g[r].prev \in DOMAIN g /\ g[g[r].prev].next = r
          <5>1. h[r].prev \in DOMAIN h /\ h[h[r].prev].next = r
            BY <3>3, <4>8 DEF Good, Chained
          <5>2. CASE r = n
            BY <5>2, <1>2, <1>3, <1>9
          <5>3. CASE r # n
            BY <5>1, <5>3, <3>3, <1>2, <1>8
          <5>. QED
            BY <5>2, <5>3
        <4>. QED
          BY <4>3, <4>5, <4>6, <4>7, <4>8, <1>2
      <3>. QED
        BY <3>1, <3>2, <3>3, <1>2
    <2>. QED
      BY <2>1, <2>2 DEF Chained
  <1>. QED
    BY <1>1, <1>2, <1>3, <1>8, <1>9, <1>10, <1>11, <1>12 DEF Good

\* Making a block part of the block before it keeps the blocks linked
\* (plug_holes).
LEMMA JoinGood ==
  ASSUME NEW h, Good(h), NEW p \in DOMAIN h \ {heap_end},
         NEW q, q = h[p].next, q # heap_end, NEW g, g = Join(h, p, q)
  PROVE  /\ Good(g) /\ q \in DOMAIN h /\ p < q /\ p \in DOMAIN g
         /\ DOMAIN g = DOMAIN h \ {q} /\ g[p].next = h[q].next
         /\ \A r \in DOMAIN g : /\ g[r].used = h[r].used
                                /\ r # p => g[r].next = h[r].next
                                /\ r # heap_end /\ r < q => g[r].prev = h[r].prev
PROOF
  <1>. DEFINE n == h[q].next
  <1>0. /\ p \in Nat /\ q \in DOMAIN h /\ q \in Nat /\ n \in DOMAIN h /\ n \in Nat
        /\ p + H <= q /\ q + H <= n /\ p < q /\ q < n /\ n # 0
    BY EndFacts DEF Good, Chained
  <1>1. DOMAIN g = DOMAIN h \ {q} /\ p \in DOMAIN g /\ n \in DOMAIN g
    BY <1>0 DEF Join
  <1>2. g[p] = [h[p] EXCEPT !.next = n]
    BY <1>0 DEF Join
  <1>3. g[n] = [h[n] EXCEPT !.prev = p]
    BY <1>0 DEF Join
  <1>4. \A r \in DOMAIN g : r # p /\ r # n => g[r] = h[r]
    BY DEF Join
  <1>5. \A r \in DOMAIN h : h[r] \in Header /\ r \in Nat /\ r \in 0 .. heap_end
    BY EndFacts DEF Good
  <1>6. \A r \in DOMAIN g : /\ g[r] \in Header /\ g[r].used = h[r].used
                            /\ r # p => g[r].next = h[r].next
                            /\ r # n => g[r].prev = h[r].prev
    BY <1>0, <1>1, <1>2, <1>3, <1>4, <1>5 DEF Header
  <1>7. g[p].next = n /\ g[n].prev = p
    BY <1>0, <1>1, <1>2, <1>3, <1>5 DEF Header
  <1>8. g \in [DOMAIN g -> Header]
    <2>1. g = [r \in DOMAIN g |-> g[r]]
      BY DEF Join
    <2>. QED
      BY <2>1, <1>6
  <1>9. Chained(g)
    <2>1. {0, heap_end} \subseteq DOMAIN g /\ g[0].prev = 0 /\ g[heap_end].used
      BY <1>0, <1>1, <1>6 DEF Good, Chained
    <2>2. ASSUME NEW r \in DOMAIN g \ {heap_end}
          PROVE  /\ g[r].next \in DOMAIN g /\ r + H <= g[r].next
                 /\ \A s \in DOMAIN g : s <= r \/ g[r].next <= s
                 /\ g[r].next # heap_end => g[g[r].next].prev = r
                 /\ r # 0 => g[r].prev \in DOMAIN g /\ g[g[r].prev].next = r
      <3>0. r \in DOMAIN h /\ r # q /\ r \in Nat
        BY <1>1, <1>5
      <3>1. CASE r = p
        <4>1. g[r].next \in DOMAIN g /\ r + H <= g[r].next
          BY <3>1, <1>0, <1>1, <1>7, EndFacts
        <4>2. \A s \in DOMAIN g : s <= r \/ g[r].next <= s
          <5>1. ASSUME NEW s \in DOMAIN g PROVE s <= p \/ n <= s
            <6>1. s \in DOMAIN h /\ s # q /\ s \in Nat
              BY <1>1, <1>5
            <6>2. s <= p \/ q <= s
              BY <6>1 DEF Good, Chained
            <6>3. s <= q \/ n <= s
              BY <6>1, <1>0 DEF Good, Chained
            <6>. QED
              BY <6>1, <6>2, <6>3, <1>0
          <5>. QED
            BY <5>1, <3>1, <1>7
        <4>3. g[r].next # heap_end => g[g[r].next].prev = r
          BY <3>1, <1>7
        <4>4. ASSUME r # 0 PROVE g[r].prev \in DOMAIN g /\ g[g[r].prev].next = r
          <5>1. h[p].prev \in DOMAIN h /\ h[h[p].prev].next = p /\ g[p].prev = h[p].prev
            BY <3>1, <4>4, <1>0, <1>1, <1>6 DEF Good, Chained
          <5>2. h[p].prev # p /\ h[p].prev # q
            BY <5>1, <1>0, <1>5
          <5>. QED
            BY <5>1, <5>2, <3>1, <1>1, <1>6
        <4>. QED
          BY <4>1, <4>2, <4>3, <4>4
      <3>2. CASE r # p
        <4>1. /\ h[r].next \in DOMAIN h /\ h[r].next \in Nat /\ r + H <= h[r].next
              /\ g[r].next = h[r].next
          BY <3>0, <3>2, <1>5, <1>6 DEF Good, Chained
        <4>2. h[r].next # q
          <5>1. r <= p \/ q <= r
            BY <3>0 DEF Good, Chained
          <5>2. p <= r \/ h[r].next <= p
            BY <3>0, <3>2 DEF Good, Chained
          <5>. QED
            BY <5>1, <5>2, <4>1, <3>0, <3>2, <1>0, EndFacts
        <4>3. h[r].next # n
          <5>1. r <= q \/ n <= r
            BY <3>0, <1>0 DEF Good, Chained
          <5>2. q <= r \/ h[r].next <= q
            BY <3>0, <3>2, <1>0 DEF Good, Chained
          <5>. QED
            BY <5>1, <5>2, <4>1, <3>0, <1>0, EndFacts
        <4>4. \A s \in DOMAIN g : s <= r \/ g[r].next <= s
          BY <3>0, <4>1, <1>1 DEF Good, Chained
        <4>5. g[r].next # heap_end => g[g[r].next].prev = r
          BY <3>0, <4>1, <4>2, <4>3, <1>1, <1>6 DEF Good, Chained
        <4>6. ASSUME r # 0 PROVE g[r].prev \in DOMAIN g /\ g[g[r].prev].next = r
          <5>1. CASE r = n
            BY <5>1, <1>1, <1>7
          <5>2. CASE r # n
            <6>1. h[r].prev \in DOMAIN h /\ h[h[r].prev].next = r /\ g[r].prev = h[r].prev
              BY <3>0, <4>6, <5>2, <1>6 DEF Good, Chained
            <6>2. h[r].prev # q /\ h[r].prev # p
              BY <6>1, <5>2, <3>0
            <6>. QED
              BY <6>1, <6>2, <1>1, <1>6
          <5>. QED
            BY <5>1, <5>2
        <4>. QED
          BY <4>1, <4>2, <4>4, <4>5, <4>6, <1>1
      <3>. QED
        BY <3>1, <3>2
    <2>. QED
      BY <2>1, <2>2 DEF Chained
  <1>10. DOMAIN g \subseteq 0 .. heap_end
    BY <1>1, <1>5
  <1>. QED
    BY <1>0, <1>1, <1>5, <1>6, <1>7, <1>8, <1>9, <1>10 DEF Good

-----------------------------------------------------------------------------
\* No two free blocks are neighbours, but for p and its neighbours.
Around(h, p) ==
  \A r \in DOMAIN h : ~ h[r].used /\ r # p /\ h[r].next # p => h[h[r].next].used

\* A free block is joined to the next one, if that is free.
LEMMA PlugForwardGood ==
  ASSUME NEW h, NEW l \in DOMAIN h, Good(h), LowestFree(h, l),
         NEW p \in DOMAIN h \ {heap_end}, ~ h[p].used, Around(h, p),
         NEW t, t = PlugForward([h |-> h, l |-> l], p)
  PROVE  /\ Good(t.h) /\ t.l \in DOMAIN t.h /\ LowestFree(t.h, t.l)
         /\ p \in DOMAIN t.h \ {heap_end} /\ ~ t.h[p].used /\ Around(t.h, p)
         /\ t.h[t.h[p].next].used /\ SameUsed(h, t.h)
         /\ t = [h |-> t.h, l |-> t.l]
PROOF
  <1>. DEFINE n == h[p].next
  <1>0. n \in DOMAIN h /\ p \in Nat /\ n \in Nat /\ p # n /\ h[heap_end].used /\ p < n
    BY EndFacts DEF Good, Chained
  <1>1. CASE h[n].used
    <2>1. t = [h |-> h, l |-> l]
      BY <1>1 DEF PlugForward
    <2>. QED
      BY <1>1, <2>1 DEF SameUsed
  <1>2. CASE ~ h[n].used
    <2>. DEFINE g == Join(h, p, n)
    <2>0. n # heap_end
      BY <1>0, <1>2
    <2>1. t.h = g /\ t.l = (IF l = n THEN p ELSE l) /\ t = [h |-> t.h, l |-> t.l]
      BY <1>0, <1>2, <2>0 DEF PlugForward
    <2>2. /\ Good(g) /\ p \in DOMAIN g
          /\ DOMAIN g = DOMAIN h \ {n} /\ g[p].next = h[n].next
          /\ \A r \in DOMAIN g : g[r].used = h[r].used /\ (r # p => g[r].next = h[r].next)
      BY <2>0, JoinGood
    <2>3. l <= p
      BY DEF LowestFree
    <2>4. \A r \in DOMAIN h : r \in Nat
      BY EndFacts DEF Good
    <2>5. t.l = l /\ l # n
      BY <1>0, <2>1, <2>3, <2>4
    <2>6. LowestFree(g, l) /\ l \in DOMAIN g
      BY <2>2, <2>5 DEF LowestFree
    <2>7. h[n].next # p /\ h[n].next # n /\ h[n].next \in DOMAIN h
      BY <1>0, <2>0, <2>4, EndFacts DEF Good, Chained
    <2>8. h[h[n].next].used
      BY <1>0, <1>2, <2>7 DEF Around
    <2>9. g[g[p].next].used
      BY <2>2, <2>7, <2>8
    <2>10. Around(g, p)
      <3>1. ASSUME NEW r \in DOMAIN g, ~ g[r].used, r # p, g[r].next # p
            PROVE  g[g[r].next].used
        <4>1. r \in DOMAIN h /\ ~ h[r].used /\ g[r].next = h[r].next /\ r # n
          BY <3>1, <2>2
        <4>2. h[h[r].next].used
          BY <3>1, <4>1 DEF Around
        <4>3. r # heap_end
          BY <4>1, <1>0
        <4>4. h[r].next \in DOMAIN h /\ h[r].next # n
          BY <4>1, <4>2, <4>3, <1>2 DEF Good, Chained
        <4>. QED
          BY <4>1, <4>2, <4>4, <2>2
      <3>. QED
        BY <3>1 DEF Around
    <2>11. SameUsed(h, g)
      BY <1>2, <2>2 DEF SameUsed
    <2>. QED
      BY <2>1, <2>2, <2>5, <2>6, <2>9, <2>10, <2>11
  <1>. QED
    BY <1>1, <1>2

\* A free block becomes part of the one before it, if that is free.
LEMMA PlugBackwardGood ==
  ASSUME NEW h, NEW l \in DOMAIN h, Good(h), LowestFree(h, l),
         NEW p \in DOMAIN h \ {heap_end}, ~ h[p].used, Around(h, p), h[h[p].next].used,
         NEW t, t = PlugBackward([h |-> h, l |-> l], p)
  PROVE  /\ Good(t.h) /\ t.l \in DOMAIN t.h /\ LowestFree(t.h, t.l)
         /\ NoTwoFree(t.h) /\ SameUsed(h, t.h)
PROOF
  <1>. DEFINE q == h[p].prev
  <1>0. \A r \in DOMAIN h : r \in Nat
    BY EndFacts DEF Good
  <1>1. \A r \in DOMAIN h : ~ h[r].used /\ h[r].next = p => r = q
    BY DEF Good, Chained
  <1>2. CASE q = p \/ h[q].used
    <2>1. t = [h |-> h, l |-> l]
      BY <1>2 DEF PlugBackward
    <2>2. NoTwoFree(h)
      <3>1. ASSUME NEW r \in DOMAIN h, ~ h[r].used PROVE h[h[r].next].used
        <4>1. CASE r = p
          BY <4>1
        <4>2. CASE r # p
          BY <3>1, <4>2, <1>1, <1>2 DEF Around
        <4>. QED
          BY <4>1, <4>2
      <3>. QED
        BY <3>1 DEF NoTwoFree
    <2>. QED
      BY <2>1, <2>2 DEF SameUsed
  <1>3. CASE q # p /\ ~ h[q].used
    <2>. DEFINE g == Join(h, q, p)
    <2>0. q \in DOMAIN h /\ h[q].next = p /\ q # heap_end /\ p # 0
      BY <1>3 DEF Good, Chained
    <2>1. t.h = g /\ t.l = (IF l = p THEN q ELSE l)
      BY <1>3 DEF PlugBackward
    <2>2. /\ Good(g) /\ q < p /\ q \in DOMAIN g
          /\ DOMAIN g = DOMAIN h \ {p} /\ g[q].next = h[p].next
          /\ \A r \in DOMAIN g : g[r].used = h[r].used /\ (r # q => g[r].next = h[r].next)
      BY <2>0, JoinGood
    <2>3. l <= q
      BY <1>3, <2>0 DEF LowestFree
    <2>4. t.l = l /\ l # p
      BY <1>0, <2>0, <2>1, <2>2, <2>3
    <2>5. LowestFree(g, l) /\ l \in DOMAIN g
      BY <2>2, <2>4 DEF LowestFree
    <2>6. NoTwoFree(g)
      <3>0. h[p].next \in DOMAIN h /\ h[p].next # p
        BY DEF Good, Chained
      <3>1. ASSUME NEW r \in DOMAIN g, ~ g[r].used PROVE g[g[r].next].used
        <4>1. CASE r = q
          BY <4>1, <3>0, <2>2
        <4>2. CASE r # q
          <5>1. r \in DOMAIN h /\ ~ h[r].used /\ r # p /\ g[r].next = h[r].next
            BY <3>1, <4>2, <2>2
          <5>2. h[r].next # p
            BY <5>1, <4>2, <1>1
          <5>3. h[h[r].next].used
            BY <5>1, <5>2 DEF Around
          <5>4. h[r].next \in DOMAIN h
            BY <5>1 DEF Good, Chained
          <5>. QED
            BY <5>1, <5>2, <5>3, <5>4, <2>2
        <4>. QED
          BY <4>1, <4>2
      <3>. QED
        BY <3>1 DEF NoTwoFree
    <2>7. SameUsed(h, g)
      BY <1>3, <2>0, <2>2 DEF SameUsed
    <2>. QED
      BY <2>1, <2>2, <2>4, <2>5, <2>6, <2>7
  <1>. QED
    BY <1>2, <1>3

\* plug_holes leaves no two free blocks side by side.
LEMMA PlugGood ==
  ASSUME NEW h, NEW l \in DOMAIN h, Good(h), LowestFree(h, l),
         NEW p \in DOMAIN h \ {heap_end}, ~ h[p].used, Around(h, p),
         NEW t, t = plug_holes([h |-> h, l |-> l], p)
  PROVE  /\ Good(t.h) /\ t.l \in DOMAIN t.h /\ LowestFree(t.h, t.l)
         /\ NoTwoFree(t.h) /\ SameUsed(h, t.h)
PROOF
  <1>. DEFINE s == PlugForward([h |-> h, l |-> l], p)
  <1>1. /\ Good(s.h) /\ s.l \in DOMAIN s.h /\ LowestFree(s.h, s.l)
        /\ p \in DOMAIN s.h \ {heap_end} /\ ~ s.h[p].used /\ Around(s.h, p)
        /\ s.h[s.h[p].next].used /\ SameUsed(h, s.h) /\ s = [h |-> s.h, l |-> s.l]
    BY PlugForwardGood
  <1>2. t = PlugBackward([h |-> s.h, l |-> s.l], p)
    BY <1>1 DEF plug_holes
  <1>3. /\ Good(t.h) /\ t.l \in DOMAIN t.h /\ LowestFree(t.h, t.l)
        /\ NoTwoFree(t.h) /\ SameUsed(s.h, t.h)
    BY <1>1, <1>2, PlugBackwardGood
  <1>4. SameUsed(h, t.h)
    BY <1>1, <1>3 DEF SameUsed
  <1>. QED
    BY <1>3, <1>4

-----------------------------------------------------------------------------
PutToUse(h, p) == [h EXCEPT ![p].used = TRUE]
SetFree(h, p) == [h EXCEPT ![p].used = FALSE]

\* A block that is put to use stays linked (rt_malloc).
LEMMA UseGood ==
  ASSUME NEW h, Good(h), NEW p \in DOMAIN h \ {heap_end},
         NEW g, g = PutToUse(h, p)
  PROVE  /\ Good(g) /\ DOMAIN g = DOMAIN h /\ g[p].used
         /\ \A r \in DOMAIN h : /\ g[r].next = h[r].next
                                /\ r # p => g[r].used = h[r].used
PROOF
  <1>1. DOMAIN g = DOMAIN h
    BY DEF PutToUse
  <1>2. \A r \in DOMAIN h : h[r] \in Header
    BY DEF Good
  <1>3. g[p] = [h[p] EXCEPT !.used = TRUE] /\ \A r \in DOMAIN h : r # p => g[r] = h[r]
    BY DEF PutToUse
  <1>4. \A r \in DOMAIN h : /\ g[r] \in Header
                            /\ g[r].next = h[r].next /\ g[r].prev = h[r].prev
                            /\ r # p => g[r].used = h[r].used
    <2>1. ASSUME NEW r \in DOMAIN h, r # p
          PROVE  g[r] \in Header /\ g[r] = h[r]
      BY <1>2, <1>3, <2>1
    <2>2. g[p] \in Header /\ g[p].next = h[p].next /\ g[p].prev = h[p].prev
      <3>1. h[p] \in Header
        BY <1>2
      <3>. QED BY Zenon, <1>3, <3>1 DEF Header
    <2>. QED BY Zenon, <2>1, <2>2
  <1>5. g[p].used
    BY <1>2, <1>3 DEF Header
  <1>6. g \in [DOMAIN g -> Header]
    <2>1. g = [r \in DOMAIN g |-> g[r]]
      BY Zenon DEF PutToUse
    <2>. QED
      BY <2>1, <1>1, <1>4
  <1>7. Chained(g)
    BY <1>1, <1>4, <1>5 DEF Good, Chained
  <1>. QED
    BY <1>1, <1>4, <1>5, <1>6, <1>7 DEF Good

\* A block that is freed stays linked (rt_free).
LEMMA FreeGood ==
  ASSUME NEW h, Good(h), NEW p \in DOMAIN h \ {heap_end},
         NEW g, g = SetFree(h, p)
  PROVE  /\ Good(g) /\ DOMAIN g = DOMAIN h /\ ~ g[p].used
         /\ \A r \in DOMAIN h : /\ g[r].next = h[r].next
                                /\ r # p => g[r].used = h[r].used
PROOF
  <1>1. DOMAIN g = DOMAIN h
    BY DEF SetFree
  <1>2. \A r \in DOMAIN h : h[r] \in Header
    BY DEF Good
  <1>3. g[p] = [h[p] EXCEPT !.used = FALSE] /\ \A r \in DOMAIN h : r # p => g[r] = h[r]
    BY DEF SetFree
  <1>4. \A r \in DOMAIN h : /\ g[r] \in Header
                            /\ g[r].next = h[r].next /\ g[r].prev = h[r].prev
                            /\ r # p => g[r].used = h[r].used
    <2>1. ASSUME NEW r \in DOMAIN h, r # p
          PROVE  g[r] \in Header /\ g[r] = h[r]
      BY <1>2, <1>3, <2>1
    <2>2. g[p] \in Header /\ g[p].next = h[p].next /\ g[p].prev = h[p].prev
      <3>1. h[p] \in Header
        BY <1>2
      <3>. QED BY Zenon, <1>3, <3>1 DEF Header
    <2>. QED BY Zenon, <2>1, <2>2
  <1>5. ~ g[p].used
    BY <1>2, <1>3 DEF Header
  <1>6. g \in [DOMAIN g -> Header]
    <2>1. g = [r \in DOMAIN g |-> g[r]]
      BY Zenon DEF SetFree
    <2>. QED
      BY <2>1, <1>1, <1>4
  <1>7. Chained(g)
    BY <1>1, <1>4 DEF Good, Chained
  <1>. QED
    BY <1>1, <1>4, <1>5, <1>6, <1>7 DEF Good

\* What the application holds depends on the used blocks alone.
LEMMA HeldKept ==
  ASSUME NEW h, NEW g, NEW ar, SameUsed(h, g), Held(h, ar)
  PROVE  Held(g, ar)
PROOF
  <1>1. ASSUME NEW a \in DOMAIN ar
        PROVE  /\ a - H \in DOMAIN g \ {heap_end} /\ g[a - H].used
               /\ 0 < ar[a] /\ ar[a] <= Room(g, a - H)
    <2>1. /\ a - H \in DOMAIN h \ {heap_end} /\ h[a - H].used
          /\ 0 < ar[a] /\ ar[a] <= Room(h, a - H)
      BY DEF Held
    <2>2. a - H \in DOMAIN g /\ g[a - H].used /\ g[a - H].next = h[a - H].next
      BY <2>1 DEF SameUsed
    <2>. QED
      BY <2>1, <2>2 DEF Room
  <1>2. ASSUME NEW p \in DOMAIN g \ {heap_end}, g[p].used PROVE p + H \in DOMAIN ar
    BY <1>2 DEF SameUsed, Held
  <1>. QED
    BY <1>1, <1>2 DEF Held

\* The memory of the application that a call may touch
AreaOK(ar) == DOMAIN ar \subseteq Nat /\ ar \in [DOMAIN ar -> Nat]

\* n bytes that end before the next block touch no area of another block.
LEMMA FitsBlock ==
  ASSUME Good(heap), AreaOK(area), Held(heap, area),
         NEW p \in DOMAIN heap \ {heap_end}, NEW n \in Nat, 0 < n,
         p + H + n <= heap[p].next
  PROVE  Allocator!Fits(p + H, n)
PROOF
  <1>1. /\ p \in Nat /\ heap[p].next \in Nat /\ p + H \in Nat
        /\ p + H + n <= heap_end
    BY EndFacts DEF Good, Chained
  <1>2. ASSUME NEW b \in DOMAIN area \ {p + H}
        PROVE  (p + H) + n <= b \/ b + area[b] <= p + H
    <2>1. /\ b \in Nat /\ area[b] \in Nat /\ b - H \in DOMAIN heap \ {heap_end}
          /\ area[b] <= Room(heap, b - H)
      BY DEF AreaOK, Held
    <2>2. b - H \in Nat /\ heap[b - H].next \in Nat /\ b - H # p
      BY <2>1, <1>1, EndFacts DEF Good, Chained
    <2>3. area[b] <= heap[b - H].next - b
      BY <2>1, <2>2, EndFacts DEF Room
    <2>4. b - H <= p \/ heap[p].next <= b - H
      BY <2>1 DEF Good, Chained
    <2>5. p <= b - H \/ heap[b - H].next <= p
      BY <2>1 DEF Good, Chained
    <2>. QED
      BY <1>1, <2>1, <2>2, <2>3, <2>4, <2>5, EndFacts
  <1>. QED
    BY <1>1, <1>2 DEF Allocator!Fits

\* What every call of the heap keeps.
HeapOK ==
  /\ Good(heap) /\ NoTwoFree(heap) /\ lfree \in DOMAIN heap /\ LowestFree(heap, lfree)
  /\ used_mem \in Int /\ AreaOK(area) /\ Held(heap, area)

\* The header of a block that is given out leaves room for size bytes.
LEMMA TakenGood ==
  ASSUME HeapOK, NEW p \in DOMAIN heap, NEW size \in Nat, 0 < size, Suits(p, size),
         NEW g, g = Taken(p, size)
  PROVE  /\ p # heap_end /\ Good(g) /\ NoTwoFree(g) /\ DOMAIN heap \subseteq DOMAIN g
         /\ p + H + size <= heap[p].next /\ p + H + size <= g[p].next /\ g[p].used
         /\ \A r \in DOMAIN heap \ {p} : g[r].used = heap[r].used /\ g[r].next = heap[r].next
         /\ \A r \in DOMAIN g \ DOMAIN heap : ~ g[r].used /\ p < r
PROOF
  <1>. DEFINE h == [heap EXCEPT ![p].used = TRUE]
  <1>0. /\ p # heap_end /\ ~ heap[p].used /\ heap[heap[p].next].used
        /\ p \in Nat /\ heap[p].next \in Nat /\ heap[p].next \in DOMAIN heap
        /\ p + H + size <= heap[p].next
    <2>1. p # heap_end /\ ~ heap[p].used
      BY DEF Suits, HeapOK, Good, Chained
    <2>2. heap[p].next \in DOMAIN heap /\ p \in Nat /\ heap[p].next \in Nat
      BY <2>1, EndFacts DEF HeapOK, Good, Chained
    <2>3. heap[heap[p].next].used
      BY <2>1 DEF HeapOK, NoTwoFree
    <2>4. p + H + size <= heap[p].next
      BY <2>2, EndFacts DEF Suits, Room
    <2>. QED
      BY <2>1, <2>2, <2>3, <2>4
  <1>6. g = IF Room(heap, p) >= size + H + MIN_SIZE_ALIGNED THEN Split(h, p, size) ELSE h
    BY DEF Taken
  <1>7. h = PutToUse(heap, p) /\ Good(heap)
    BY DEF HeapOK, PutToUse
  <1>. HIDE DEF h
  <1>1. /\ Good(h) /\ DOMAIN h = DOMAIN heap /\ h[p].used
        /\ \A r \in DOMAIN heap : /\ h[r].next = heap[r].next
                                  /\ r # p => h[r].used = heap[r].used
    BY <1>0, <1>7, UseGood
  <1>2. \A r \in DOMAIN heap : heap[r].used => h[r].used
    BY <1>1
  <1>3. \A r \in DOMAIN heap : ~ heap[r].used => heap[r].next \in DOMAIN heap
                                                 /\ heap[heap[r].next].used
    BY DEF HeapOK, Good, Chained, NoTwoFree
  <1>4. CASE g = h
    <2>1. NoTwoFree(h)
      BY <1>1, <1>2, <1>3 DEF NoTwoFree
    <2>. QED
      BY <1>0, <1>1, <1>4, <2>1
  <1>5. CASE g # h
    <2>. DEFINE q == p + H + size
    <2>1. g = Split(h, p, size) /\ Room(heap, p) >= size + H + MIN_SIZE_ALIGNED
      BY <1>5, <1>6
    <2>2. p + H + size + H <= h[p].next
      BY <1>0, <1>1, <2>1, SizeFacts, EndFacts DEF Room
    <2>3. /\ Good(g) /\ q \notin DOMAIN h /\ DOMAIN g = DOMAIN h \cup {q}
          /\ g[p].next = q /\ g[q] = [used |-> FALSE, next |-> h[p].next, prev |-> p]
          /\ \A r \in DOMAIN h : /\ g[r].used = h[r].used
                                 /\ r # p => g[r].next = h[r].next
      <3>1. p \in DOMAIN h \ {heap_end} /\ Good(h)
        BY <1>0, <1>1
      <3>. QED
        BY <3>1, <2>1, <2>2, SplitGood
    <2>4. NoTwoFree(g)
      <3>1. ASSUME NEW r \in DOMAIN g, ~ g[r].used PROVE g[g[r].next].used
        <4>1. CASE r = q
          BY <4>1, <1>0, <1>1, <1>2, <2>3
        <4>2. CASE r # q
          <5>1. r \in DOMAIN heap /\ ~ h[r].used /\ r # p /\ g[r].next = heap[r].next
            BY <3>1, <4>2, <1>1, <2>3
          <5>2. ~ heap[r].used
            BY <5>1, <1>1
          <5>. QED
            BY <5>1, <5>2, <1>1, <1>2, <1>3, <2>3
        <4>. QED
          BY <4>1, <4>2
      <3>. QED
        BY <3>1 DEF NoTwoFree
    <2>5. \A r \in DOMAIN g \ DOMAIN heap : ~ g[r].used /\ p < r
      BY <1>0, <1>1, <2>3, EndFacts
    <2>. QED
      BY <1>0, <1>1, <2>3, <2>4, <2>5, EndFacts
  <1>. QED
    BY <1>4, <1>5

\* rt_malloc gives out one new area and keeps the heap in order.
LEMMA TakeGood ==
  ASSUME HeapOK, NEW p \in DOMAIN heap, NEW size \in Nat, 0 < size, TakeBlock(p, size)
  PROVE  /\ HeapOK' /\ DOMAIN area \subseteq DOMAIN area'
         /\ Allocator!Give(p + H, size) /\ p + H \in DOMAIN area' /\ area'[p + H] = size
PROOF
  <1>0. Suits(p, size) /\ heap' = Taken(p, size)
    BY DEF TakeBlock, FirstFit
  <1>1. /\ p # heap_end /\ Good(heap') /\ NoTwoFree(heap') /\ DOMAIN heap \subseteq DOMAIN heap'
        /\ p + H + size <= heap[p].next /\ p + H + size <= heap'[p].next /\ heap'[p].used
        /\ \A r \in DOMAIN heap \ {p} : heap'[r].used = heap[r].used
                                        /\ heap'[r].next = heap[r].next
        /\ \A r \in DOMAIN heap' \ DOMAIN heap : ~ heap'[r].used /\ p < r
    BY <1>0, TakenGood
  <1>2. ~ heap[p].used /\ lfree \in DOMAIN heap /\ LowestFree(heap, lfree)
    BY <1>0 DEF Suits, HeapOK
  <1>3. /\ \A r \in DOMAIN heap : r \in Nat
        /\ \A r \in DOMAIN heap' : r \in Nat /\ heap'[r].next \in Nat
    BY <1>1, EndFacts DEF HeapOK, Good, Header
  <1>4. \A r \in DOMAIN heap' : ~ heap'[r].used => lfree <= r /\ r # p
    <2>1. lfree <= p
      BY <1>2 DEF LowestFree
    <2>2. ASSUME NEW r \in DOMAIN heap', ~ heap'[r].used PROVE lfree <= r /\ r # p
      <3>1. CASE r \in DOMAIN heap
        BY <2>2, <3>1, <1>1, <1>2 DEF LowestFree
      <3>2. CASE r \notin DOMAIN heap
        BY <2>1, <3>2, <1>1, <1>2, <1>3
      <3>. QED
        BY <3>1, <3>2
    <2>. QED
      BY <2>2
  <1>5. lfree' \in DOMAIN heap' /\ LowestFree(heap', lfree')
    <2>1. CASE p = lfree
      <3>1. PICK l \in DOMAIN heap' : NextFree(heap', p, l) /\ lfree' = l
        BY <2>1 DEF TakeBlock
      <3>2. /\ ~ heap'[l].used \/ l = heap_end
            /\ \A r \in DOMAIN heap' : p <= r /\ r < l => heap'[r].used
        BY <3>1 DEF NextFree
      <3>3. ASSUME NEW r \in DOMAIN heap', ~ heap'[r].used PROVE l <= r
        BY <3>2, <3>3, <2>1, <1>3, <1>4
      <3>. QED
        BY <3>1, <3>2, <3>3 DEF LowestFree
    <2>2. CASE p # lfree
      <3>1. lfree' = lfree
        BY <2>2 DEF TakeBlock
      <3>2. ~ heap'[lfree].used \/ lfree = heap_end
        BY <2>2, <1>1, <1>2 DEF LowestFree
      <3>. QED
        BY <3>1, <3>2, <1>1, <1>2, <1>4 DEF LowestFree
    <2>. QED
      BY <2>1, <2>2
  <1>6. used_mem' \in Int
    <2>1. used_mem' = used_mem + (heap'[p].next - p) /\ used_mem \in Int
      BY DEF TakeBlock, Span, HeapOK
    <2>. QED
      BY <2>1, <1>1, <1>3
  <1>7. area' = [q \in DOMAIN area \cup {p + H} |-> IF q = p + H THEN size ELSE area[q]]
    BY DEF TakeBlock
  <1>8. p + H \in Nat /\ p + H - H = p
    BY <1>3, EndFacts
  <1>9. p + H \notin DOMAIN area
    BY <1>2, <1>3, <1>8, EndFacts DEF HeapOK, Held
  <1>10. AreaOK(area')
    BY <1>7, <1>8 DEF HeapOK, AreaOK
  <1>11. Held(heap', area')
    <2>1. ASSUME NEW a \in DOMAIN area'
          PROVE  /\ a - H \in DOMAIN heap' \ {heap_end} /\ heap'[a - H].used
                 /\ 0 < area'[a] /\ area'[a] <= Room(heap', a - H)
      <3>1. CASE a = p + H
        <4>1. area'[a] = size /\ a - H = p
          BY <3>1, <1>3, <1>7, <1>8, EndFacts
        <4>2. size <= Room(heap', p)
          BY <1>1, <1>3, EndFacts DEF Room
        <4>. QED
          BY <4>1, <4>2, <1>1
      <3>2. CASE a # p + H
        <4>1. a \in DOMAIN area /\ area'[a] = area[a]
          BY <3>2, <1>7
        <4>2. /\ a - H \in DOMAIN heap \ {heap_end} /\ heap[a - H].used
              /\ 0 < area[a] /\ area[a] <= Room(heap, a - H)
          BY <4>1 DEF HeapOK, Held
        <4>3. a - H # p
          BY <4>2, <1>2
        <4>. QED
          BY <4>1, <4>2, <4>3, <1>1 DEF Room
      <3>. QED
        BY <3>1, <3>2
    <2>2. ASSUME NEW r \in DOMAIN heap' \ {heap_end}, heap'[r].used PROVE r + H \in DOMAIN area'
      <3>1. r \in DOMAIN heap
        BY <2>2, <1>1
      <3>2. r # p => r + H \in DOMAIN area
        BY <2>2, <3>1, <1>1 DEF HeapOK, Held
      <3>. QED
        BY <3>2, <1>7
    <2>. QED
      BY <2>1, <2>2 DEF Held
  <1>12. Allocator!Give(p + H, size)
    <2>1. Allocator!Fits(p + H, size)
      BY <1>1, FitsBlock DEF HeapOK
    <2>. QED
      BY <2>1, <1>7, <1>9 DEF Allocator!Give
  <1>. QED
    BY <1>1, <1>5, <1>6, <1>7, <1>10, <1>11, <1>12 DEF HeapOK

\* rt_free takes one area back and keeps the heap in order.
LEMMA ReleaseGood ==
  ASSUME HeapOK, NEW a \in DOMAIN area, ReleaseBlock(a)
  PROVE  HeapOK' /\ Allocator!TakeBack(a) /\ DOMAIN area' = DOMAIN area \ {a}
PROOF
  <1>. DEFINE p == a - H
              h == [heap EXCEPT ![p].used = FALSE]
              l == Lowest(p)
              t == plug_holes([h |-> h, l |-> l], p)
  <1>1. p \in DOMAIN heap \ {heap_end} /\ heap[p].used /\ Good(heap)
    BY DEF HeapOK, Held
  <1>2. heap' = t.h /\ lfree' = t.l
    BY DEF ReleaseBlock
  <1>3. /\ area' = [q \in DOMAIN area \ {a} |-> area[q]]
        /\ used_mem' = used_mem - (heap[p].next - p)
    BY DEF ReleaseBlock, Span
  <1>4. h = SetFree(heap, p)
    BY DEF SetFree
  <1>. HIDE DEF h
  <1>5. /\ Good(h) /\ DOMAIN h = DOMAIN heap /\ ~ h[p].used
        /\ \A r \in DOMAIN heap : /\ h[r].next = heap[r].next
                                  /\ r # p => h[r].used = heap[r].used
    BY <1>1, <1>4, FreeGood
  <1>6. \A r \in DOMAIN heap : r \in Nat /\ heap[r].next \in Nat
    BY <1>1, EndFacts DEF Good, Header
  <1>7. l \in DOMAIN h /\ LowestFree(h, l)
    <2>1. lfree \in DOMAIN heap /\ LowestFree(heap, lfree)
      BY DEF HeapOK
    <2>2. l = (IF p < lfree THEN p ELSE lfree)
      BY DEF Lowest
    <2>3. p # lfree \/ p = heap_end
      BY <2>1, <1>1 DEF LowestFree
    <2>. QED
      BY <2>1, <2>2, <2>3, <1>1, <1>5, <1>6 DEF LowestFree
  <1>8. Around(h, p)
    <2>1. NoTwoFree(heap)
      BY DEF HeapOK
    <2>2. \A r \in DOMAIN heap : r # heap_end => heap[r].next \in DOMAIN heap
      BY <1>1 DEF Good, Chained
    <2>3. heap[heap_end].used
      BY <1>1 DEF Good, Chained
    <2>. QED
      BY <2>1, <2>2, <2>3, <1>1, <1>5 DEF Around, NoTwoFree
  <1>. HIDE DEF l
  <1>9. /\ Good(t.h) /\ t.l \in DOMAIN t.h /\ LowestFree(t.h, t.l)
        /\ NoTwoFree(t.h) /\ SameUsed(h, t.h)
    BY <1>1, <1>5, <1>7, <1>8, PlugGood
  <1>10. a \in Nat /\ p + H = a
    BY EndFacts DEF HeapOK, AreaOK
  <1>. HIDE DEF p
  <1>11. Held(h, area')
    <2>1. ASSUME NEW b \in DOMAIN area'
          PROVE  /\ b - H \in DOMAIN h \ {heap_end} /\ h[b - H].used
                 /\ 0 < area'[b] /\ area'[b] <= Room(h, b - H)
      <3>1. b \in DOMAIN area /\ b # a /\ area'[b] = area[b]
        BY <1>3
      <3>2. /\ b - H \in DOMAIN heap \ {heap_end} /\ heap[b - H].used
            /\ 0 < area[b] /\ area[b] <= Room(heap, b - H)
        BY <3>1 DEF HeapOK, Held
      <3>3. b - H # p
        BY <3>1, <1>10, EndFacts DEF HeapOK, AreaOK
      <3>. QED
        BY <3>1, <3>2, <3>3, <1>5 DEF Room
    <2>2. ASSUME NEW r \in DOMAIN h \ {heap_end}, h[r].used PROVE r + H \in DOMAIN area'
      <3>1. r \in DOMAIN heap /\ heap[r].used /\ r # p /\ r \in Nat
        BY <2>2, <1>5, <1>6
      <3>2. r + H \in DOMAIN area
        BY <2>2, <3>1 DEF HeapOK, Held
      <3>3. r + H # a
        BY <3>1, <1>1, <1>6, <1>10, EndFacts
      <3>. QED
        BY <3>2, <3>3, <1>3
    <2>. QED
      BY <2>1, <2>2 DEF Held
  <1>12. Held(heap', area')
    BY <1>2, <1>9, <1>11, HeldKept
  <1>13. AreaOK(area') /\ used_mem' \in Int
    BY <1>1, <1>3, <1>6 DEF HeapOK, AreaOK
  <1>14. Allocator!TakeBack(a)
    BY SMTT(30), <1>3 DEF Allocator!TakeBack
  <1>. QED
    BY <1>2, <1>3, <1>9, <1>12, <1>13, <1>14 DEF HeapOK

\* rt_realloc splits the end of a block off and keeps the heap in order.
LEMMA ShrinkGood ==
  ASSUME HeapOK, NEW u, NEW a \in DOMAIN area, NEW size \in Nat, 0 < size,
         ReallocShrink(u, a, size)
  PROVE  /\ HeapOK' /\ DOMAIN area' = DOMAIN area
         /\ area'[a] = size /\ Allocator!Resize(a, size)
PROOF
  <1>. DEFINE p == a - H
              q == a + size
              g == Split(heap, p, size)
              l == Lowest(q)
              t == plug_holes([h |-> g, l |-> l], q)
  <1>1. p \in DOMAIN heap \ {heap_end} /\ heap[p].used /\ Good(heap)
    BY DEF HeapOK, Held
  <1>2. heap' = t.h /\ lfree' = t.l
    BY DEF ReallocShrink
  <1>3. /\ area' = [area EXCEPT ![a] = size]
        /\ used_mem' = used_mem - (heap[p].next - (p + H) - size)
    BY DEF ReallocShrink, Room
  <1>4. \A r \in DOMAIN heap : r \in Nat /\ heap[r].next \in Nat
    BY <1>1, EndFacts DEF Good, Header
  <1>5. a \in Nat /\ p + H = a /\ q = p + H + size
    BY EndFacts DEF HeapOK, AreaOK
  <1>6. p + H + size + H <= heap[p].next
    BY <1>1, <1>4, EndFacts, HeapAssumption DEF ReallocShrink, Shrinks, Room
  <1>7. Allocator!Resize(a, size)
    <2>1. Allocator!Fits(p + H, size)
      BY <1>1, <1>4, <1>6, EndFacts, FitsBlock DEF HeapOK
    <2>. QED
      BY <2>1, <1>3, <1>5 DEF Allocator!Resize
  <1>. HIDE DEF p, q, g, l
  <1>8. /\ Good(g) /\ q \notin DOMAIN heap /\ DOMAIN g = DOMAIN heap \cup {q}
        /\ q # heap_end
        /\ g[p].next = q /\ g[q] = [used |-> FALSE, next |-> heap[p].next, prev |-> p]
        /\ \A r \in DOMAIN heap : /\ g[r].used = heap[r].used
                                  /\ r # p => g[r].next = heap[r].next
    BY SMTT(30), <1>1, <1>5, <1>6, SplitGood DEF g
  <1>9. l \in DOMAIN g /\ LowestFree(g, l)
    <2>1. lfree \in DOMAIN heap /\ LowestFree(heap, lfree)
      BY DEF HeapOK
    <2>2. l = (IF q < lfree THEN q ELSE lfree)
      BY DEF Lowest, l
    <2>3. q \in Nat /\ ~ g[q].used
      BY <1>1, <1>4, <1>5, <1>8, EndFacts
    <2>. QED
      BY <2>1, <2>2, <2>3, <1>4, <1>8 DEF LowestFree
  <1>10. Around(g, q)
    <2>1. NoTwoFree(heap)
      BY DEF HeapOK
    <2>2. \A r \in DOMAIN heap : r # heap_end => heap[r].next \in DOMAIN heap
      BY <1>1 DEF Good, Chained
    <2>3. heap[heap_end].used
      BY <1>1 DEF Good, Chained
    <2>. QED
      BY <2>1, <2>2, <2>3, <1>1, <1>8 DEF Around, NoTwoFree
  <1>11. /\ Good(t.h) /\ t.l \in DOMAIN t.h /\ LowestFree(t.h, t.l)
         /\ NoTwoFree(t.h) /\ SameUsed(g, t.h)
    <2>1. q \in DOMAIN g \ {heap_end} /\ ~ g[q].used
      BY <1>8
    <2>. QED
      BY <2>1, <1>8, <1>9, <1>10, PlugGood
  <1>12. DOMAIN area' = DOMAIN area /\ area'[a] = size
         /\ \A b \in DOMAIN area : b # a => area'[b] = area[b]
    BY <1>3
  <1>13. Held(g, area')
    <2>1. ASSUME NEW b \in DOMAIN area'
          PROVE  /\ b - H \in DOMAIN g \ {heap_end} /\ g[b - H].used
                 /\ 0 < area'[b] /\ area'[b] <= Room(g, b - H)
      <3>0. b \in DOMAIN area /\ b \in Nat
        BY <1>12 DEF HeapOK, AreaOK
      <3>1. /\ b - H \in DOMAIN heap \ {heap_end} /\ heap[b - H].used
            /\ 0 < area[b] /\ area[b] <= Room(heap, b - H)
        BY <3>0 DEF HeapOK, Held
      <3>2. CASE b = a
        <4>1. b - H = p /\ area'[b] = size
          BY <3>2, <1>12 DEF p
        <4>2. size <= Room(g, p)
          BY <1>1, <1>4, <1>5, <1>8, EndFacts DEF Room
        <4>. QED
          BY <4>1, <4>2, <3>1, <1>8
      <3>3. CASE b # a
        <4>1. b - H # p
          BY <3>0, <3>3, <1>5, EndFacts
        <4>. QED
          BY <4>1, <3>0, <3>1, <3>3, <1>8, <1>12 DEF Room
      <3>. QED
        BY <3>2, <3>3
    <2>2. ASSUME NEW r \in DOMAIN g \ {heap_end}, g[r].used PROVE r + H \in DOMAIN area'
      <3>1. r \in DOMAIN heap /\ heap[r].used
        BY <2>2, <1>8
      <3>. QED
        BY <2>2, <3>1, <1>12 DEF HeapOK, Held
    <2>. QED
      BY <2>1, <2>2 DEF Held
  <1>14. Held(heap', area')
    BY <1>2, <1>11, <1>13, HeldKept
  <1>15. AreaOK(area') /\ used_mem' \in Int
    BY <1>1, <1>3, <1>4, EndFacts DEF HeapOK, AreaOK
  <1>. QED
    BY <1>2, <1>7, <1>11, <1>12, <1>14, <1>15 DEF HeapOK

-----------------------------------------------------------------------------
\* What is left of a call of rt_realloc: the old pointer is still valid and no
\* other call has it.
JobsOK ==
  /\ job \in [User -> [do : {"none", "malloc", "free"}, old : Nat, size : Nat]]
  /\ \A u \in User : job[u].do # "none" => job[u].old \in DOMAIN area /\ 0 < job[u].size
  /\ \A u, v \in User :
       u # v /\ job[u].do # "none" /\ job[v].do # "none" => job[u].old # job[v].old

\* The inductive invariant.
IInv == HeapOK /\ JobsOK

\* rt_system_heap_init makes one free block.
LEMMA InitOK == Init => IInv
PROOF
  <1>. SUFFICES ASSUME Init PROVE IInv
    OBVIOUS
  <1>1. /\ DOMAIN heap = {0, heap_end} /\ heap_end # 0
        /\ heap[0] = [used |-> FALSE, next |-> heap_end, prev |-> 0]
        /\ heap[heap_end] = [used |-> TRUE, next |-> heap_end, prev |-> heap_end]
    BY EndFacts DEF Init
  <1>2. DOMAIN heap \subseteq 0 .. heap_end /\ heap \in [DOMAIN heap -> Header]
    <2>1. heap = [p \in DOMAIN heap |-> heap[p]]
      BY DEF Init
    <2>2. heap[0] \in Header /\ heap[heap_end] \in Header
      BY <1>1, EndFacts DEF Header
    <2>3. \A p \in DOMAIN heap : heap[p] \in Header
      BY Zenon, <1>1, <2>2
    <2>4. DOMAIN heap \subseteq 0 .. heap_end
      BY <1>1, EndFacts
    <2>. QED
      BY <2>1, <2>3, <2>4
  <1>3. Chained(heap)
    BY <1>1, EndFacts DEF Chained
  <1>4. NoTwoFree(heap) /\ LowestFree(heap, lfree) /\ lfree \in DOMAIN heap
    BY <1>1, EndFacts DEF Init, NoTwoFree, LowestFree
  <1>5. DOMAIN area = {} /\ AreaOK(area) /\ used_mem \in Int
    BY DEF Init, AreaOK
  <1>6. Held(heap, area)
    BY <1>1, <1>5 DEF Held
  <1>7. JobsOK
    BY DEF Init, JobsOK, NoJob
  <1>. QED
    BY <1>2, <1>3, <1>4, <1>5, <1>6, <1>7 DEF IInv, HeapOK, Good

\* rt_realloc to the size the block has already
LEMMA SameGood ==
  ASSUME HeapOK, NEW u, NEW a \in DOMAIN area, NEW size \in Nat, 0 < size,
         ReallocSame(u, a, size)
  PROVE  /\ HeapOK' /\ DOMAIN area' = DOMAIN area
         /\ area'[a] = size /\ Allocator!Resize(a, size)
PROOF
  <1>. DEFINE p == a - H
  <1>1. p \in DOMAIN heap \ {heap_end} /\ heap[p].used /\ Good(heap) /\ a \in Nat
    BY DEF HeapOK, Held, AreaOK
  <1>2. /\ area' = [area EXCEPT ![a] = size] /\ Room(heap, p) = size
        /\ heap' = heap /\ lfree' = lfree /\ used_mem' = used_mem
    BY DEF ReallocSame
  <1>3. p \in Nat /\ heap[p].next \in Nat /\ p + H = a
    BY <1>1, EndFacts DEF Good, Header
  <1>4. p + H + size <= heap[p].next
    BY <1>2, <1>3, EndFacts DEF Room
  <1>5. Allocator!Fits(p + H, size)
    BY <1>1, <1>4, FitsBlock DEF HeapOK
  <1>6. Allocator!Resize(a, size)
    BY <1>2, <1>3, <1>5 DEF Allocator!Resize
  <1>7. DOMAIN area' = DOMAIN area /\ area'[a] = size
         /\ \A b \in DOMAIN area : b # a => area'[b] = area[b]
    BY <1>2
  <1>8. AreaOK(area')
    BY <1>2 DEF HeapOK, AreaOK
  <1>9. Held(heap, area')
    <2>1. ASSUME NEW b \in DOMAIN area'
          PROVE  /\ b - H \in DOMAIN heap \ {heap_end} /\ heap[b - H].used
                 /\ 0 < area'[b] /\ area'[b] <= Room(heap, b - H)
      <3>1. CASE b = a
        BY <3>1, <1>1, <1>2, <1>7
      <3>2. CASE b # a
        BY <3>2, <1>7 DEF HeapOK, Held
      <3>. QED
        BY <3>1, <3>2
    <2>2. \A r \in DOMAIN heap \ {heap_end} : heap[r].used => r + H \in DOMAIN area'
      BY <1>7 DEF HeapOK, Held
    <2>. QED
      BY <2>1, <2>2 DEF Held
  <1>. QED
    BY <1>2, <1>6, <1>7, <1>8, <1>9 DEF HeapOK

\* Every call keeps the heap in order and does to the areas what the
\* allocator may do.
LEMMA NextOK == IInv /\ [Next]_vars => IInv' /\ [Allocator!Next]_area
PROOF
  <1>. SUFFICES ASSUME IInv, [Next]_vars PROVE IInv' /\ [Allocator!Next]_area
    OBVIOUS
  <1>0. HeapOK /\ JobsOK
    BY DEF IInv
  <1>1. ASSUME NEW u \in User, NEW n \in Sizes, rt_malloc(u, n)
        PROVE  IInv' /\ Allocator!Next
    <2>0. n \in Nat /\ 0 < n
      BY <1>1, HeapAssumption DEF rt_malloc
    <2>1. PICK p \in DOMAIN heap : TakeBlock(p, SizeOf(n))
      BY <1>1 DEF rt_malloc
    <2>2. /\ HeapOK' /\ DOMAIN area \subseteq DOMAIN area'
          /\ Allocator!Give(p + H, SizeOf(n))
          /\ p + H \in DOMAIN area' /\ area'[p + H] = SizeOf(n)
      <3>1. SizeOf(n) \in Nat /\ 0 < SizeOf(n)
        BY <2>0, SizeFacts
      <3>. QED
        BY <3>1, <2>1, <1>0, TakeGood
    <2>3. JobsOK'
      BY <1>0, <1>1, <2>2 DEF rt_malloc, JobsOK
    <2>. QED
      BY <2>2, <2>3 DEF IInv, Allocator!Next
  <1>2. ASSUME NEW u \in User, NEW a \in DOMAIN area, rt_free(u, a)
        PROVE  IInv' /\ Allocator!Next
    <2>1. HeapOK' /\ Allocator!TakeBack(a) /\ DOMAIN area' = DOMAIN area \ {a}
      BY <1>0, <1>2, ReleaseGood DEF rt_free
    <2>2. JobsOK'
      BY <1>0, <1>2, <2>1 DEF rt_free, Free, JobsOK
    <2>. QED
      BY <2>1, <2>2 DEF IInv, Allocator!Next
  <1>3. ASSUME NEW u \in User, NEW a \in DOMAIN area, NEW n \in Sizes, rt_realloc(u, a, n)
        PROVE  IInv' /\ [Allocator!Next]_area
    <2>. DEFINE size == RT_ALIGN(n)
    <2>0. size \in Nat /\ 0 < size
      BY <1>3, HeapAssumption, AlignUp DEF rt_realloc
    <2>. HIDE DEF size
    <2>1. CASE ReallocSame(u, a, size)
      <3>1. /\ HeapOK' /\ DOMAIN area' = DOMAIN area
            /\ area'[a] = size /\ Allocator!Resize(a, size)
        BY <1>0, <2>0, <2>1, SameGood
      <3>2. JobsOK'
        BY <1>0, <2>1, <3>1 DEF ReallocSame, JobsOK
      <3>. QED
        BY <3>1, <3>2 DEF IInv, Allocator!Next
    <2>2. CASE ReallocShrink(u, a, size)
      <3>1. /\ HeapOK' /\ DOMAIN area' = DOMAIN area
            /\ area'[a] = size /\ Allocator!Resize(a, size)
        BY <1>0, <2>0, <2>2, ShrinkGood
      <3>2. job' = job
        BY <2>2 DEF ReallocShrink
      <3>3. JobsOK'
        BY <1>0, <3>1, <3>2 DEF JobsOK
      <3>. QED
        BY <3>1, <3>3 DEF IInv, Allocator!Next
    <2>3. CASE ReallocMove(u, a, size)
      <3>1. /\ heap' = heap /\ lfree' = lfree /\ used_mem' = used_mem /\ area' = area
            /\ job' = [job EXCEPT ![u] = [do |-> "malloc", old |-> a, size |-> size]]
        BY <2>3 DEF ReallocMove
      <3>2. HeapOK'
        BY <1>0, <3>1 DEF HeapOK
      <3>3. a \in Nat /\ \A v \in User : job[v].do # "none" => job[v].old # a
        BY <1>0, <1>3 DEF HeapOK, AreaOK, rt_realloc, Free
      <3>4. JobsOK'
        BY <1>0, <2>0, <3>1, <3>3 DEF JobsOK
      <3>. QED
        BY <3>1, <3>2, <3>4 DEF IInv
    <2>. QED
      BY <1>3, <2>1, <2>2, <2>3 DEF rt_realloc, size
  <1>4. ASSUME NEW u \in User, ReallocMalloc(u)
        PROVE  IInv' /\ [Allocator!Next]_area
    <2>. DEFINE size == SizeOf(job[u].size)
    <2>0. size \in Nat /\ 0 < size /\ job[u].do = "malloc"
      <3>1. job[u].size \in Nat /\ 0 < job[u].size /\ job[u].do = "malloc"
        BY <1>0, <1>4 DEF JobsOK, ReallocMalloc
      <3>. QED
        BY <3>1, SizeFacts
    <2>1. ASSUME NEW p \in DOMAIN heap, TakeBlock(p, size),
                 job' = [job EXCEPT ![u].do = "free"]
          PROVE  IInv' /\ Allocator!Next
      <3>1. /\ HeapOK' /\ DOMAIN area \subseteq DOMAIN area'
            /\ Allocator!Give(p + H, size)
            /\ p + H \in DOMAIN area' /\ area'[p + H] = size
        BY <1>0, <2>0, <2>1, TakeGood
      <3>2. JobsOK'
        BY <1>0, <2>0, <2>1, <3>1 DEF JobsOK
      <3>. QED
        BY <3>1, <3>2 DEF IInv, Allocator!Next
    <2>2. ASSUME job' = [job EXCEPT ![u] = NoJob], UNCHANGED <<heap, lfree, used_mem, area>>
          PROVE  IInv' /\ UNCHANGED area
      <3>1. HeapOK'
        BY <1>0, <2>2 DEF HeapOK
      <3>2. JobsOK'
        BY <1>0, <2>2 DEF JobsOK, NoJob
      <3>. QED
        BY <2>2, <3>1, <3>2 DEF IInv
    <2>. QED
      BY <1>4, <2>1, <2>2 DEF ReallocMalloc
  <1>5. ASSUME NEW u \in User, ReallocFree(u) PROVE IInv' /\ Allocator!Next
    <2>0. /\ job[u].do = "free" /\ ReleaseBlock(job[u].old)
          /\ job' = [job EXCEPT ![u] = NoJob]
      BY <1>5 DEF ReallocFree
    <2>1. job[u].old \in DOMAIN area
      BY <1>0, <2>0 DEF JobsOK
    <2>2. /\ HeapOK' /\ Allocator!TakeBack(job[u].old)
          /\ DOMAIN area' = DOMAIN area \ {job[u].old}
      BY <1>0, <2>0, <2>1, ReleaseGood
    <2>3. JobsOK'
      BY <1>0, <2>0, <2>2 DEF JobsOK, NoJob
    <2>. QED
      BY <2>1, <2>2, <2>3 DEF IInv, Allocator!Next
  <1>6. CASE UNCHANGED vars
    <2>1. HeapOK' /\ JobsOK'
      BY <1>0, <1>6 DEF vars, HeapOK, JobsOK
    <2>. QED
      BY <2>1, <1>6 DEF vars, IInv
  <1>. QED
    BY <1>1, <1>2, <1>3, <1>4, <1>5, <1>6 DEF Next, Step

\* The inductive invariant holds in every state.
LEMMA Invariance == Spec => []IInv
PROOF
  <1>1. IInv /\ [Next]_vars => IInv'
    BY NextOK
  <1>. QED
    BY <1>1, InitOK, PTL DEF Spec

\* After any sequence of calls, and inside rt_realloc, the blocks fill the
\* memory and are linked both ways, no two free blocks are neighbours and the
\* search of rt_malloc begins at the lowest free one.
THEOREM HeapSafe == Spec => []HeapInOrder
PROOF
  <1>1. IInv => HeapInOrder
    BY DEF IInv, HeapOK, JobsOK, AreaOK, Good, HeapInOrder, TypeOK
  <1>. QED
    BY <1>1, Invariance, PTL

\* The blocks in use are those whose pointers the application has, and each
\* has room for what was asked for.
THEOREM HeapHeld == Spec => []Held(heap, area)
PROOF
  <1>1. IInv => Held(heap, area)
    BY DEF IInv, HeapOK
  <1>. QED
    BY <1>1, Invariance, PTL

\* rt_malloc, rt_realloc and rt_free implement the allocator: no byte is ever
\* given to two owners.
THEOREM HeapImplements == Spec => IsAllocator
PROOF
  <1>1. Init => Allocator!Init
    BY DEF Init, Allocator!Init
  <1>2. IInv /\ [Next]_vars => [Allocator!Next]_area
    BY NextOK
  <1>. QED
    BY <1>1, <1>2, Invariance, PTL DEF Spec, IsAllocator, Allocator!Spec

=============================================================================
