---------------------------- MODULE KernelProofs ----------------------------
(***************************************************************************)
(* The operations on lists of threads and the operators of Kernel keep the *)
(* kernel data consistent, for any number of threads, of priorities and of *)
(* lists; the data are consistent when the scheduler has been started, and *)
(* consistent data have the properties that Processor states.              *)
(***************************************************************************)
EXTENDS Processor, WellFoundedInduction, TLAPS

-----------------------------------------------------------------------------
\* Lists: what rt_list_remove, rt_list_insert_before and the search for the
\* place of an insertion return.


\* A set of natural numbers that is not empty has a least element.
LEMMA LeastElement ==
  ASSUME NEW I, I \subseteq Nat, I # {}
  PROVE  Least(I) \in I /\ \A j \in I : Least(I) <= j
  <1> DEFINE R == {ss \in Nat \X Nat : ss[1] < ss[2]}
  <1>1. R = OpToRel(<, Nat)
    BY Zenon DEF OpToRel
  <1>2. ASSUME NEW x \in Nat, NEW y \in Nat, ~ (<<y, x>> \in R)
        PROVE  x <= y
    BY <1>2, SMT
  <1> HIDE DEF R
  <1>3. IsWellFoundedOn(R, Nat)
    BY NatLessThanWellFounded, <1>1, Zenon
  <1>4. \E x \in I : \A y \in I : ~ (<<y, x>> \in R)
    BY <1>3, WFMin, Zenon
  <1>5. \E x \in I : \A y \in I : x <= y
    BY <1>4, <1>2, Zenon
  <1>. QED BY <1>5, Zenon DEF Least

\* Removing position i of a sequence moves the later elements up.
LEMMA RemoveAtElements ==
  ASSUME NEW S, NEW q \in Seq(S), NEW i \in 1 .. Len(q)
  PROVE  /\ DropAt(q, i) \in Seq(S)
         /\ Len(DropAt(q, i)) = Len(q) - 1
         /\ \A j \in 1 .. Len(q) - 1 :
              DropAt(q, i)[j] = IF j < i THEN q[j] ELSE q[j + 1]
  <1> DEFINE a == SubSeq(q, 1, i - 1)
             b == SubSeq(q, i + 1, Len(q))
  <1>1. a \in Seq(S) /\ Len(a) = i - 1 /\ \A j \in 1 .. i - 1 : a[j] = q[j]
    BY SMT
  <1>2. b \in Seq(S) /\ Len(b) = Len(q) - i /\ \A j \in 1 .. Len(q) - i : b[j] = q[j + i]
    BY SMT
  <1> HIDE DEF a, b
  <1> DEFINE e == a \o b
  <1>3. /\ e \in Seq(S) /\ Len(e) = Len(a) + Len(b)
        /\ \A j \in 1 .. Len(a) + Len(b) :
             e[j] = IF j <= Len(a) THEN a[j] ELSE b[j - Len(a)]
    <2>1. a \in Seq(S) /\ b \in Seq(S)
      BY <1>1, <1>2
    <2>. QED BY <2>1, SMT
  <1> HIDE DEF e
  <1>4. Len(e) = Len(q) - 1
    BY <1>1, <1>2, <1>3
  <1>5. ASSUME NEW j \in 1 .. Len(q) - 1
        PROVE  e[j] = IF j < i THEN q[j] ELSE q[j + 1]
    <2>1. CASE j < i
      <3>1. j \in 1 .. i - 1 /\ j <= Len(a) /\ j \in 1 .. Len(a) + Len(b)
        BY <1>1, <1>2, <2>1
      <3>. QED BY <1>1, <1>3, <2>1, <3>1
    <2>2. CASE ~ (j < i)
      <3>1. /\ j - (i - 1) \in 1 .. Len(q) - i /\ (j - (i - 1)) + i = j + 1
            /\ ~ (j <= Len(a)) /\ j \in 1 .. Len(a) + Len(b)
        BY <1>1, <1>2, <2>2
      <3>2. e[j] = b[j - (i - 1)]
        BY <1>1, <1>3, <3>1
      <3>3. b[j - (i - 1)] = q[j + 1]
        BY <1>2, <3>1
      <3>. QED BY <2>2, <3>2, <3>3
    <2>. QED BY <2>1, <2>2
  <1>6. DropAt(q, i) = e
    BY DEF DropAt, a, b, e
  <1>. QED BY <1>3, <1>4, <1>5, <1>6

\* The elements of a sequence that holds nothing twice after rt_list_remove.
LEMMA RemoveFirstElements ==
  ASSUME NEW q \in Seq(Thread), NEW t \in Thread, Once(q)
  PROVE  /\ rt_list_remove(q, t) \in Seq(Thread)
         /\ Once(rt_list_remove(q, t))
         /\ \A u \in Thread :
              Has(rt_list_remove(q, t), u) <=> Has(q, u) /\ u # t
  <1>1. CASE ~ Has(q, t)
    BY <1>1 DEF Has, rt_list_remove
  <1>2. CASE Has(q, t)
    <2> DEFINE I == {i \in 1 .. Len(q) : q[i] = t}
               r == rt_list_remove(q, t)
    <2>1. PICK n \in 1 .. Len(q) : q[n] = t /\ r = DropAt(q, n)
      <3>1. I \subseteq Nat /\ I # {}
        BY <1>2 DEF Has
      <3>2. Least(I) \in I
        BY Zenon, <3>1, LeastElement
      <3>3. r = DropAt(q, Least(I))
        BY <1>2, <3>1 DEF Has, rt_list_remove, FirstPlace
      <3>. QED BY Zenon, <3>2, <3>3
    <2> HIDE DEF r
    <2>2. /\ r \in Seq(Thread) /\ Len(r) = Len(q) - 1
          /\ \A j \in 1 .. Len(q) - 1 : r[j] = IF j < n THEN q[j] ELSE q[j + 1]
      BY Zenon, <2>1, RemoveAtElements
    <2>3. Once(r)
      <3>1. SUFFICES ASSUME NEW i \in 1 .. Len(r), NEW j \in 1 .. Len(r), r[i] = r[j]
                     PROVE  i = j
        BY DEF Once
      <3>2. PICK a \in 1 .. Len(q) : a = (IF i < n THEN i ELSE i + 1) /\ r[i] = q[a]
        BY <2>2
      <3>3. PICK b \in 1 .. Len(q) : b = (IF j < n THEN j ELSE j + 1) /\ r[j] = q[b]
        BY <2>2
      <3>4. a = b
        BY Zenon, <3>1, <3>2, <3>3 DEF Once
      <3>. QED BY <2>2, <3>2, <3>3, <3>4
    <2>4. ASSUME NEW u \in Thread PROVE Has(r, u) => Has(q, u) /\ u # t
      BY <2>1, <2>2 DEF Has, Once
    <2>5. ASSUME NEW u \in Thread, Has(q, u), u # t PROVE Has(r, u)
      <3>1. PICK i \in 1 .. Len(q) : q[i] = u
        BY <2>5 DEF Has
      <3>2. CASE i < n
        BY <3>1, <3>2, <2>2 DEF Has
      <3>3. CASE i > n
        <4>1. i - 1 \in 1 .. Len(q) - 1 /\ ~ (i - 1 < n) /\ (i - 1) + 1 = i
          BY <3>3
        <4>. QED BY Zenon, <3>1, <4>1, <2>2 DEF Has
      <3>. QED BY <3>1, <3>2, <3>3, <2>1, <2>5
    <2>. QED BY <2>2, <2>3, <2>4, <2>5 DEF r
  <1>. QED BY <1>1, <1>2

\* The elements of a sequence after rt_list_insert_before of its head.
LEMMA AppendElements ==
  ASSUME NEW q \in Seq(Thread), NEW t \in Thread, Once(q), ~ Has(q, t)
  PROVE  /\ Append(q, t) \in Seq(Thread)
         /\ Append(q, t) # <<>>
         /\ Once(Append(q, t))
         /\ \A u \in Thread : Has(Append(q, t), u) <=> Has(q, u) \/ u = t
  <1> DEFINE r == Append(q, t)
  <1>1. /\ r \in Seq(Thread) /\ Len(r) = Len(q) + 1
        /\ \A i \in 1 .. Len(q) : r[i] = q[i]
        /\ r[Len(q) + 1] = t
    OBVIOUS
  <1> HIDE DEF r
  <1>2. Once(r)
    BY <1>1 DEF Once, Has
  <1>3. ASSUME NEW u \in Thread PROVE Has(r, u) <=> Has(q, u) \/ u = t
    BY <1>1 DEF Has
  <1>4. r # <<>>
    BY <1>1
  <1>. QED BY <1>1, <1>2, <1>3, <1>4 DEF r

\* A sequence is empty exactly if it has no element.
LEMMA EmptyHasNone ==
  ASSUME NEW q \in Seq(Thread)
  PROVE  /\ q = <<>> <=> \A t \in Thread : ~ Has(q, t)
         /\ q # <<>> => Head(q) \in Thread /\ Has(q, Head(q))
  BY DEF Has

\* Inserting before position i of a sequence moves the later elements down.
LEMMA InsertAtElements ==
  ASSUME NEW S, NEW q \in Seq(S), NEW i \in 1 .. Len(q), NEW x \in S
  PROVE  /\ rt_list_insert_before(q, i, x) \in Seq(S)
         /\ Len(rt_list_insert_before(q, i, x)) = Len(q) + 1
         /\ \A j \in 1 .. Len(q) + 1 :
              rt_list_insert_before(q, i, x)[j] = IF j < i THEN q[j]
                                     ELSE IF j = i THEN x ELSE q[j - 1]
  <1> DEFINE a == SubSeq(q, 1, i - 1)
             b == SubSeq(q, i, Len(q))
             c == <<x>>
             d == a \o c
             e == d \o b
  <1>1. a \in Seq(S) /\ Len(a) = i - 1 /\ \A j \in 1 .. i - 1 : a[j] = q[j]
    BY SMT
  <1>2. /\ b \in Seq(S) /\ Len(b) = Len(q) - i + 1
        /\ \A j \in 1 .. Len(q) - i + 1 : b[j] = q[j + i - 1]
    BY SMT
  <1>3. c \in Seq(S) /\ Len(c) = 1 /\ c[1] = x
    OBVIOUS
  <1> HIDE DEF a, b, c
  <1>4. /\ d \in Seq(S) /\ Len(d) = Len(a) + Len(c)
        /\ \A j \in 1 .. Len(a) + Len(c) :
             d[j] = IF j <= Len(a) THEN a[j] ELSE c[j - Len(a)]
    <2>1. a \in Seq(S) /\ c \in Seq(S)
      BY <1>1, <1>3
    <2>. QED BY <2>1, SMT
  <1> HIDE DEF d
  <1>5. /\ Len(d) = i
        /\ \A j \in 1 .. i : d[j] = IF j < i THEN q[j] ELSE x
    BY <1>1, <1>3, <1>4
  <1>6. /\ e \in Seq(S) /\ Len(e) = Len(d) + Len(b)
        /\ \A j \in 1 .. Len(d) + Len(b) :
             e[j] = IF j <= Len(d) THEN d[j] ELSE b[j - Len(d)]
    <2>1. d \in Seq(S) /\ b \in Seq(S)
      BY <1>2, <1>4
    <2>. QED BY <2>1, SMT
  <1> HIDE DEF e
  <1>7. Len(e) = Len(q) + 1
    BY <1>2, <1>5, <1>6
  <1>8. ASSUME NEW j \in 1 .. Len(q) + 1
        PROVE  e[j] = IF j < i THEN q[j] ELSE IF j = i THEN x ELSE q[j - 1]
    BY <1>2, <1>5, <1>6
  <1>9. rt_list_insert_before(q, i, x) = e
    BY DEF rt_list_insert_before, a, b, c, d, e
  <1>. QED BY Zenon, <1>6, <1>7, <1>8, <1>9

\* The elements after an insertion before an element or at the end.
LEMMA InsertElements ==
  ASSUME NEW q \in Seq(Thread), NEW t \in Thread, Once(q), ~ Has(q, t),
         NEW i \in 1 .. Len(q)
  PROVE  /\ rt_list_insert_before(q, i, t) \in Seq(Thread)
         /\ Once(rt_list_insert_before(q, i, t))
         /\ \A u \in Thread :
              Has(rt_list_insert_before(q, i, t), u) <=> Has(q, u) \/ u = t
  <1> DEFINE r == rt_list_insert_before(q, i, t)
  <1>1. /\ r \in Seq(Thread) /\ Len(r) = Len(q) + 1
        /\ \A j \in 1 .. Len(q) + 1 :
             r[j] = IF j < i THEN q[j] ELSE IF j = i THEN t ELSE q[j - 1]
    BY InsertAtElements
  <1> HIDE DEF r
  <1>2. Once(r)
    <2>1. \A j \in 1 .. Len(q) : q[j] # t
      BY DEF Has
    <2>2. ASSUME NEW x \in 1 .. Len(r), NEW y \in 1 .. Len(r), r[x] = r[y]
          PROVE  x = y
      <3>0. \A z \in 1 .. Len(r) : z # i => r[z] # t
        <4>1. ASSUME NEW z \in 1 .. Len(r), z # i PROVE r[z] # t
          <5>1. CASE z < i
            BY <1>1, <2>1, <5>1
          <5>2. CASE z > i
            BY <1>1, <2>1, <5>2
          <5>. QED BY <5>1, <5>2, <4>1
        <4>. QED BY <4>1
      <3>4. i \in 1 .. Len(r) /\ r[i] = t
        BY <1>1
      <3>1. CASE x = i
        BY <2>2, <3>0, <3>1, <3>4
      <3>2. CASE y = i
        BY <2>2, <3>0, <3>2, <3>4
      <3>3. CASE x # i /\ y # i
        <4> DEFINE v == IF x < i THEN x ELSE x - 1
                   w == IF y < i THEN y ELSE y - 1
        <4>1. v \in 1 .. Len(q) /\ r[x] = q[v]
          BY <1>1, <3>3
        <4>2. w \in 1 .. Len(q) /\ r[y] = q[w]
          BY <1>1, <3>3
        <4>3. v = w
          BY Zenon, <2>2, <4>1, <4>2 DEF Once
        <4>. QED BY <1>1, <3>3, <4>3
      <3>. QED BY <3>1, <3>2, <3>3
    <2>. QED BY <2>2 DEF Once
  <1>3. ASSUME NEW u \in Thread, Has(r, u) PROVE Has(q, u) \/ u = t
    <2>1. PICK j \in 1 .. Len(q) + 1 : r[j] = u
      BY <1>1, <1>3 DEF Has
    <2>2. CASE j < i
      <3>1. j \in 1 .. Len(q) /\ q[j] = u
        BY <1>1, <2>1, <2>2
      <3>. QED BY <3>1 DEF Has
    <2>3. CASE j = i
      BY <1>1, <2>1, <2>3
    <2>4. CASE j > i
      <3>1. j - 1 \in 1 .. Len(q) /\ q[j - 1] = u
        BY <1>1, <2>1, <2>4
      <3>. QED BY <3>1 DEF Has
    <2>. QED BY <2>1, <2>2, <2>3, <2>4
  <1>4. ASSUME NEW u \in Thread, Has(q, u) PROVE Has(r, u)
    <2>1. PICK j \in 1 .. Len(q) : q[j] = u
      BY <1>4 DEF Has
    <2>2. CASE j < i
      BY <2>1, <2>2, <1>1 DEF Has
    <2>3. CASE j >= i
      <3>1. /\ j + 1 \in 1 .. Len(q) + 1 /\ ~ (j + 1 < i) /\ j + 1 # i
            /\ (j + 1) - 1 = j
        BY <2>3
      <3>. QED BY Zenon, <2>1, <3>1, <1>1 DEF Has
    <2>. QED BY <2>2, <2>3
  <1>5. Has(r, t)
    <2>1. i \in 1 .. Len(r) /\ r[i] = t
      BY <1>1
    <2>. QED BY <2>1 DEF Has
  <1>. QED BY <1>1, <1>2, <1>3, <1>4, <1>5 DEF r

\* FirstAbove returns 0 if f gives no thread of q more than n, and else the
\* first position of one to which it does.
LEMMA FirstAbovePosition ==
  ASSUME NEW q \in Seq(Thread), NEW f, NEW n
  PROVE  LET i == FirstAbove(q, f, n)
         IN  /\ i \in 0 .. Len(q)
             /\ i = 0 => \A j \in 1 .. Len(q) : ~ (f[q[j]] > n)
             /\ i # 0 => f[q[i]] > n /\ \A j \in 1 .. Len(q) : j < i => ~ (f[q[j]] > n)
  <1> DEFINE I == {j \in 1 .. Len(q) : f[q[j]] > n}
             i == FirstAbove(q, f, n)
  <1>1. i = IF I # {} THEN Least(I) ELSE 0
    BY DEF FirstAbove, FirstPlace
  <1>2. Len(q) \in Nat /\ I \subseteq Nat /\ I \subseteq 1 .. Len(q)
    OBVIOUS
  <1> HIDE DEF i
  <1>3. CASE I = {}
    <2>1. i = 0
      BY <1>1, <1>3, Zenon
    <2>2. \A j \in 1 .. Len(q) : ~ (f[q[j]] > n)
      BY <1>3
    <2>. QED BY <1>2, <2>1, <2>2 DEF i
  <1>4. CASE I # {}
    <2>1. i = Least(I) /\ Least(I) \in I /\ \A j \in I : Least(I) <= j
      BY <1>1, <1>2, <1>4, LeastElement, Zenon
    <2>2. i \in 1 .. Len(q) /\ f[q[i]] > n
      BY <2>1
    <2>3. \A j \in I : i <= j
      BY <2>1, Zenon
    <2>4. \A j \in 1 .. Len(q) : j < i => ~ (f[q[j]] > n)
      BY <1>2, <2>2, <2>3
    <2>. QED BY <1>2, <2>2, <2>4 DEF i
  <1>. QED BY <1>3, <1>4

\* The threads of q are in the order of f.
Ordered(q, f) == \A i, j \in 1 .. Len(q) : i < j => f[q[i]] <= f[q[j]]

\* A thread that f does not put before any other is appended in order.
LEMMA AppendOrdered ==
  ASSUME NEW q \in Seq(Thread), NEW f \in [Thread -> Int], NEW t \in Thread,
         Ordered(q, f), \A j \in 1 .. Len(q) : ~ (f[q[j]] > f[t])
  PROVE  Ordered(Append(q, t), f)
  <1> DEFINE r == Append(q, t)
  <1>1. /\ Len(r) = Len(q) + 1 /\ r[Len(q) + 1] = t
        /\ \A j \in 1 .. Len(q) : r[j] = q[j]
    OBVIOUS
  <1>2. Len(q) \in Nat /\ f[t] \in Int /\ \A j \in 1 .. Len(q) : f[q[j]] \in Int
    OBVIOUS
  <1> HIDE DEF r
  <1>3. ASSUME NEW m \in 1 .. Len(r), NEW n \in 1 .. Len(r), m < n
        PROVE  f[r[m]] <= f[r[n]]
    <2>1. m \in 1 .. Len(q) /\ r[m] = q[m]
      BY <1>1, <1>2, <1>3
    <2>2. CASE n = Len(q) + 1
      BY <1>1, <1>2, <2>1, <2>2
    <2>3. CASE n # Len(q) + 1
      <3>1. n \in 1 .. Len(q) /\ r[n] = q[n]
        BY <1>1, <1>2, <2>3
      <3>. QED BY <1>3, <2>1, <3>1 DEF Ordered
    <2>. QED BY <2>2, <2>3
  <1>. QED BY Zenon, <1>3 DEF Ordered, r

\* A thread is inserted in order before the first one that f puts after it.
LEMMA InsertAtOrdered ==
  ASSUME NEW q \in Seq(Thread), NEW f \in [Thread -> Int], NEW t \in Thread,
         Ordered(q, f), NEW i \in 1 .. Len(q), f[q[i]] > f[t],
         \A j \in 1 .. Len(q) : j < i => ~ (f[q[j]] > f[t])
  PROVE  Ordered(rt_list_insert_before(q, i, t), f)
  <1> DEFINE r == rt_list_insert_before(q, i, t)
  <1>1. /\ r \in Seq(Thread) /\ Len(r) = Len(q) + 1
        /\ \A j \in 1 .. Len(q) + 1 :
             r[j] = IF j < i THEN q[j] ELSE IF j = i THEN t ELSE q[j - 1]
    BY InsertAtElements
  <1>2. Len(q) \in Nat /\ f[t] \in Int /\ \A j \in 1 .. Len(q) : f[q[j]] \in Int
    OBVIOUS
  <1> HIDE DEF r
  <1>3. ASSUME NEW m \in 1 .. Len(r), NEW n \in 1 .. Len(r), m < n
        PROVE  f[r[m]] <= f[r[n]]
    <2>1. m \in 1 .. Len(q) + 1 /\ n \in 1 .. Len(q) + 1
      BY <1>1
    <2>2. CASE n < i
      <3>1. m \in 1 .. Len(q) /\ n \in 1 .. Len(q) /\ m < i
        BY <1>2, <1>3, <2>1, <2>2
      <3>2. r[m] = q[m] /\ r[n] = q[n]
        BY <1>1, <2>1, <2>2, <3>1
      <3>. QED BY Zenon, <1>3, <3>1, <3>2 DEF Ordered
    <2>3. CASE n = i
      <3>1. m \in 1 .. Len(q) /\ m < i
        BY <1>2, <1>3, <2>1, <2>3
      <3>2. r[m] = q[m] /\ r[n] = t
        BY <1>1, <2>1, <2>3, <3>1
      <3>. QED BY <1>2, <3>1, <3>2
    <2>4. CASE n > i
      <3>1. n - 1 \in 1 .. Len(q) /\ i <= n - 1 /\ ~ (n < i) /\ n # i
        BY <1>2, <2>1, <2>4
      <3>a. r[n] = q[n - 1]
        BY <1>1, <2>1, <3>1
      <3>2. f[q[i]] <= f[q[n - 1]]
        <4>1. CASE i = n - 1
          BY <1>2, <4>1
        <4>2. CASE i < n - 1
          BY <3>1, <4>2 DEF Ordered
        <4>. QED BY <1>2, <3>1, <4>1, <4>2
      <3>3. CASE m < i
        <4>1. m \in 1 .. Len(q) /\ m < n - 1
          BY <1>2, <2>1, <3>1, <3>3
        <4>2. r[m] = q[m]
          BY <1>1, <2>1, <3>3
        <4>. QED BY Zenon, <3>1, <3>a, <4>1, <4>2 DEF Ordered
      <3>4. CASE m = i
        <4>1. r[m] = t
          BY <1>1, <2>1, <3>4
        <4>. QED BY <1>2, <3>1, <3>a, <3>2, <4>1
      <3>5. CASE m > i
        <4>1. m - 1 \in 1 .. Len(q) /\ m - 1 < n - 1 /\ ~ (m < i) /\ m # i
          BY <1>2, <1>3, <2>1, <3>5
        <4>2. r[m] = q[m - 1]
          BY <1>1, <2>1, <4>1
        <4>. QED BY Zenon, <3>1, <3>a, <4>1, <4>2 DEF Ordered
      <3>. QED BY <2>1, <3>3, <3>4, <3>5
    <2>. QED BY <2>1, <2>2, <2>3, <2>4
  <1>. QED BY <1>3 DEF Ordered, r

\* Taking one position out of the sequence leaves it in order.
LEMMA RemoveAtOrdered ==
  ASSUME NEW q \in Seq(Thread), NEW f \in [Thread -> Int], Ordered(q, f),
         NEW i \in 1 .. Len(q)
  PROVE  Ordered(DropAt(q, i), f)
  <1> DEFINE r == DropAt(q, i)
             at(j) == IF j < i THEN j ELSE j + 1
  <1>1. /\ r \in Seq(Thread) /\ Len(r) = Len(q) - 1
        /\ \A j \in 1 .. Len(q) - 1 : r[j] = IF j < i THEN q[j] ELSE q[j + 1]
    BY RemoveAtElements
  <1> HIDE DEF r
  <1>2. Len(q) \in Nat /\ i \in Nat
    OBVIOUS
  <1>3. ASSUME NEW j \in 1 .. Len(q) - 1
        PROVE  at(j) \in 1 .. Len(q) /\ r[j] = q[at(j)]
    <2>1. CASE j < i
      <3>1. at(j) = j /\ j \in 1 .. Len(q)
        BY <1>2, <2>1
      <3>. QED BY Zenon, <1>1, <2>1, <3>1
    <2>2. CASE ~ (j < i)
      <3>1. at(j) = j + 1 /\ j + 1 \in 1 .. Len(q)
        BY <1>2, <2>2
      <3>. QED BY <1>1, <2>2, <3>1
    <2>. QED BY <2>1, <2>2
  <1>4. \A m, n \in 1 .. Len(q) - 1 : m < n => at(m) < at(n)
    BY <1>2
  <1> HIDE DEF at
  <1>5. ASSUME NEW m \in 1 .. Len(r), NEW n \in 1 .. Len(r), m < n
        PROVE  f[r[m]] <= f[r[n]]
    <2>1. m \in 1 .. Len(q) - 1 /\ n \in 1 .. Len(q) - 1
      BY <1>1
    <2>. QED BY Zenon, <1>3, <1>4, <1>5, <2>1 DEF Ordered
  <1>. QED BY <1>5 DEF Ordered, r

\* Taking a thread off the sequence leaves it in order.
LEMMA RemoveOrdered ==
  ASSUME NEW q \in Seq(Thread), NEW f \in [Thread -> Int], NEW t \in Thread,
         Ordered(q, f)
  PROVE  Ordered(rt_list_remove(q, t), f)
  <1>1. CASE ~ Has(q, t)
    BY <1>1 DEF Has, rt_list_remove
  <1>2. CASE Has(q, t)
    <2> DEFINE I == {j \in 1 .. Len(q) : q[j] = t}
    <2>1. I \subseteq Nat /\ I # {}
      BY <1>2 DEF Has
    <2>2. Least(I) \in I
      BY Zenon, <2>1, LeastElement
    <2>3. rt_list_remove(q, t) = DropAt(q, Least(I))
      BY <1>2, <2>1 DEF Has, rt_list_remove, FirstPlace
    <2>4. Least(I) \in 1 .. Len(q)
      BY <2>2
    <2>5. Ordered(DropAt(q, Least(I)), f)
      <3> HIDE DEF I
      <3>. QED BY <2>4, RemoveAtOrdered
    <2>. QED BY <2>3, <2>5
  <1>. QED BY <1>1, <1>2

-----------------------------------------------------------------------------
\* The functions of the kernel


\* t is linked into no list.
Loose(s, t) == \A l \in Priority \cup List : ~ LinkedIn(s, t, l)

\* r differs from s in the lists, the group and the statuses at most.
SameRest(s, r) ==
  /\ r.yield = s.yield /\ r.prio = s.prio /\ r.cur = s.cur /\ r.lock = s.lock
  /\ r.tmr = s.tmr /\ r.left = s.left /\ r.slice = s.slice /\ r.error = s.error

\* A thread stays consistent if nothing changes that its consistency is about.
LEMMA FitsKept ==
  ASSUME NEW s, NEW r, NEW u \in Thread, Fits(s, u),
         s.prio[u] \in Priority,
         r.stat[u] = s.stat[u], r.prio[u] = s.prio[u], r.cur = u <=> s.cur = u,
         \A l \in Priority \cup List : LinkedIn(r, u, l) <=> LinkedIn(s, u, l),
         Has(r.tmr, u) => Has(s.tmr, u)
  PROVE  Fits(r, u)
  BY DEF Fits

-----------------------------------------------------------------------------
\* rt_list_remove changes the lists only, and there only where t is linked.
LEMMA UnlinkEffect ==
  ASSUME NEW s, WellFormed(s), NEW t \in Thread
  PROVE  /\ Unlink(s, t) \in KernelState
         /\ SameRest(s, Unlink(s, t)) /\ Unlink(s, t).stat = s.stat
         /\ Unlink(s, t).group = s.group
         /\ \A l \in Priority \cup List : Once(Unlink(s, t).list[l])
         /\ \A l \in Priority \cup List : \A u \in Thread :
              LinkedIn(Unlink(s, t), u, l) <=> LinkedIn(s, u, l) /\ u # t
         /\ \A l \in Priority \cup List :
              ~ LinkedIn(s, t, l) => Unlink(s, t).list[l] = s.list[l]
  <1> DEFINE f == [l \in Priority \cup List |-> rt_list_remove(s.list[l], t)]
  <1>1. ASSUME NEW l \in Priority \cup List
        PROVE  /\ f[l] \in Seq(Thread) /\ Once(f[l])
               /\ \A u \in Thread : Has(f[l], u) <=> Has(s.list[l], u) /\ u # t
    BY Zenon, RemoveFirstElements DEF WellFormed, KernelState
  <1>2. Unlink(s, t) = [s EXCEPT !.list = f]
    BY DEF WellFormed, KernelState, Unlink
  <1> HIDE DEF f
  <1>3. f \in [Priority \cup List -> Seq(Thread)]
    BY Zenon, <1>1 DEF f
  <1>4. ASSUME NEW l \in Priority \cup List, ~ Has(s.list[l], t)
        PROVE  f[l] = s.list[l]
    BY <1>4 DEF f, rt_list_remove, Has
  <1>5. /\ Unlink(s, t) \in KernelState /\ Unlink(s, t).list = f
        /\ SameRest(s, Unlink(s, t)) /\ Unlink(s, t).stat = s.stat
        /\ Unlink(s, t).group = s.group
    BY Zenon, <1>2, <1>3 DEF WellFormed, KernelState, SameRest
  <1>. QED BY <1>1, <1>4, <1>5 DEF LinkedIn

\* Unlinking a thread that is in no ready list.
LEMMA UnlinkSound ==
  ASSUME NEW s, NEW X, SoundBut(s, X), NEW t \in Thread,
         \A p \in Priority : ~ LinkedIn(s, t, p)
  PROVE  SoundBut(Unlink(s, t), X \cup {t}) /\ Loose(Unlink(s, t), t)
  <1> DEFINE r == Unlink(s, t)
  <1>1. /\ r \in KernelState /\ SameRest(s, r)
        /\ r.stat = s.stat /\ r.group = s.group
        /\ \A l \in Priority \cup List : Once(r.list[l])
        /\ \A l \in Priority \cup List : \A u \in Thread :
             LinkedIn(r, u, l) <=> LinkedIn(s, u, l) /\ u # t
    BY UnlinkEffect DEF SoundBut
  <1> HIDE DEF r
  <1>2. /\ r.stat = s.stat /\ r.prio = s.prio /\ r.cur = s.cur
        /\ r.group = s.group /\ r.tmr = s.tmr
    BY <1>1 DEF SameRest
  <1>3. ASSUME NEW p \in Priority PROVE r.list[p] # <<>> <=> s.list[p] # <<>>
    <2>1. r.list[p] \in Seq(Thread) /\ s.list[p] \in Seq(Thread)
      BY <1>1 DEF SoundBut, WellFormed, KernelState
    <2>2. \A u \in Thread : Has(r.list[p], u) <=> Has(s.list[p], u)
      BY <1>1 DEF LinkedIn
    <2>. QED BY <2>1, <2>2, EmptyHasNone
  <1>4. WellFormed(r)
    BY <1>1, <1>2, <1>3 DEF SoundBut, WellFormed
  <1>5. ASSUME NEW u \in Thread \ (X \cup {t}) PROVE Fits(r, u)
    <2>1. Fits(s, u) /\ s.prio[u] \in Priority
      BY DEF SoundBut, WellFormed, KernelState
    <2>. QED BY <1>1, <1>2, <2>1, FitsKept
  <1>. QED BY <1>1, <1>4, <1>5 DEF SoundBut, Loose, r

\* rt_schedule_remove_thread of a thread that is queued, if at all, in the
\* ready list of its priority or in a list of waiting threads.
LEMMA RemoveSound ==
  ASSUME NEW s, NEW X, SoundBut(s, X), NEW t \in Thread,
         \A p \in Priority : LinkedIn(s, t, p) => s.prio[t] = p
  PROVE  LET r == rt_schedule_remove_thread(s, t)
         IN  /\ SoundBut(r, X \cup {t}) /\ Loose(r, t)
             /\ SameRest(s, r) /\ r.stat = s.stat
             /\ r.list = Unlink(s, t).list
  <1> DEFINE v == Unlink(s, t)
             r == rt_schedule_remove_thread(s, t)
  <1>1. /\ v \in KernelState /\ SameRest(s, v)
        /\ v.stat = s.stat /\ v.group = s.group
        /\ \A l \in Priority \cup List : Once(v.list[l])
        /\ \A l \in Priority \cup List : \A u \in Thread :
             LinkedIn(v, u, l) <=> LinkedIn(s, u, l) /\ u # t
    BY UnlinkEffect DEF SoundBut
  <1>2. /\ r = [v EXCEPT !.group = r.group]
        /\ r.group = IF v.list[s.prio[t]] = <<>> THEN v.group \ {s.prio[t]} ELSE v.group
    BY Zenon, <1>1 DEF rt_schedule_remove_thread, KernelState
  <1> HIDE DEF r, v
  <1>3. /\ r.stat = s.stat /\ r.prio = s.prio /\ r.cur = s.cur
        /\ r.tmr = s.tmr /\ r.list = v.list /\ r \in KernelState
        /\ v.group = s.group /\ SameRest(s, r)
    <2>1. r.group \in SUBSET Priority
      BY <1>1, <1>2 DEF KernelState
    <2>2. /\ r \in KernelState /\ SameRest(v, r) /\ r.list = v.list /\ r.stat = v.stat
      BY Zenon, <1>1, <1>2, <2>1 DEF KernelState, SameRest
    <2>. QED BY <1>1, <2>2 DEF SameRest
  <1>4. ASSUME NEW p \in Priority PROVE p \in r.group <=> r.list[p] # <<>>
    <2>1. s.list[p] \in Seq(Thread) /\ v.list[p] \in Seq(Thread) /\ s.prio[t] \in Priority
      BY <1>1 DEF SoundBut, WellFormed, KernelState
    <2>2. p # s.prio[t] => (v.list[p] # <<>> <=> s.list[p] # <<>>)
      BY <1>1, <2>1, EmptyHasNone DEF LinkedIn
    <2>3. v.list[p] # <<>> => s.list[p] # <<>>
      BY <1>1, <2>1, EmptyHasNone DEF LinkedIn
    <2>. QED BY <1>2, <1>3, <2>2, <2>3 DEF SoundBut, WellFormed
  <1>5. \A l \in Priority \cup List : \A u \in Thread :
          LinkedIn(r, u, l) <=> LinkedIn(s, u, l) /\ u # t
    BY <1>1, <1>3 DEF LinkedIn
  <1>6. WellFormed(r)
    BY <1>1, <1>3, <1>4, <1>5 DEF SoundBut, WellFormed
  <1>7. ASSUME NEW u \in Thread \ (X \cup {t}) PROVE Fits(r, u)
    <2>1. Fits(s, u) /\ s.prio[u] \in Priority
      BY DEF SoundBut, WellFormed, KernelState
    <2>. QED BY <1>3, <1>5, <2>1, FitsKept
  <1>. QED BY <1>3, <1>5, <1>6, <1>7 DEF SoundBut, Loose, r, v

\* rt_schedule_insert_thread of a thread that is linked nowhere and has no
\* timer running makes it consistent.
LEMMA InsertSound ==
  ASSUME NEW s, NEW X, SoundBut(s, X), NEW t \in Thread,
         Loose(s, t), ~ Has(s.tmr, t)
  PROVE  LET r == rt_schedule_insert_thread(s, t)
         IN  /\ SoundBut(r, X \ {t})
             /\ SameRest(s, r)
             /\ r.stat = [s.stat EXCEPT ![t] = IF t = s.cur THEN "RUNNING" ELSE "READY"]
             /\ \A l \in Priority \cup List : l # s.prio[t] => r.list[l] = s.list[l]
             /\ \A l \in Priority \cup List : \A u \in Thread :
                  u # t => (LinkedIn(r, u, l) <=> LinkedIn(s, u, l))
  <1> DEFINE r == rt_schedule_insert_thread(s, t)
             p == s.prio[t]
  <1>0. /\ s \in KernelState /\ p \in Priority /\ s.list[p] \in Seq(Thread)
        /\ Once(s.list[p]) /\ ~ Has(s.list[p], t)
    BY DEF SoundBut, WellFormed, KernelState, Loose, LinkedIn
  <1>1. CASE t = s.cur
    <2>1. r = [s EXCEPT !.stat[t] = "RUNNING"]
      BY <1>1 DEF rt_schedule_insert_thread
    <2> HIDE DEF r
    <2>2. /\ r.stat = [s.stat EXCEPT ![t] = "RUNNING"] /\ r.list = s.list
          /\ r.group = s.group /\ r.prio = s.prio /\ r.cur = s.cur /\ r.tmr = s.tmr
          /\ r \in KernelState /\ SameRest(s, r)
      BY Zenon, <1>0, <2>1 DEF KernelState, Stat, SameRest
    <2>3. WellFormed(r)
      BY Zenon, <2>2 DEF SoundBut, WellFormed, LinkedIn
    <2>4. \A u \in Thread \ (X \ {t}) : Fits(r, u)
      BY SMTT(30), <1>0, <1>1, <2>2 DEF SoundBut, WellFormed, KernelState, Fits, LinkedIn, Loose
    <2>. QED BY <1>1, <2>2, <2>3, <2>4 DEF SoundBut, LinkedIn, r
  <1>2. CASE t # s.cur
    <2>1. r = [s EXCEPT !.stat[t] = "READY", !.list[p] = Append(s.list[p], t),
                        !.group = s.group \cup {p}]
      BY Zenon, <1>0, <1>2 DEF rt_schedule_insert_thread, KernelState
    <2> DEFINE q == Append(s.list[p], t)
    <2>2. /\ q \in Seq(Thread) /\ q # <<>> /\ Once(q)
          /\ \A u \in Thread : Has(q, u) <=> Has(s.list[p], u) \/ u = t
      BY <1>0, AppendElements
    <2> HIDE DEF r, q
    <2>3. /\ r.stat = [s.stat EXCEPT ![t] = "READY"]
          /\ r.list = [s.list EXCEPT ![p] = q]
          /\ r.group = s.group \cup {p} /\ r.prio = s.prio /\ r.cur = s.cur
          /\ r.tmr = s.tmr
          /\ r \in KernelState /\ SameRest(s, r)
      BY Zenon, <1>0, <2>1, <2>2 DEF KernelState, Stat, q, SameRest
    <2>4. /\ \A l \in Priority \cup List : l # p => r.list[l] = s.list[l]
          /\ r.list[p] = q
      BY <1>0, <2>3 DEF KernelState
    <2>5. \A l \in Priority \cup List : \A u \in Thread :
            LinkedIn(r, u, l) <=> LinkedIn(s, u, l) \/ (u = t /\ l = p)
      BY Zenon, <2>2, <2>4 DEF LinkedIn
    <2>6. \A m \in Priority : m \in r.group <=> r.list[m] # <<>>
      BY Zenon, <2>2, <2>3, <2>4 DEF SoundBut, WellFormed
    <2>7. WellFormed(r)
      <3>1. \A l \in Priority \cup List : Once(r.list[l])
        BY <2>2, <2>4 DEF SoundBut, WellFormed
      <3>2. \A l, m \in Priority \cup List : \A u \in Thread :
              LinkedIn(r, u, l) /\ LinkedIn(r, u, m) => l = m
        BY <2>5 DEF SoundBut, WellFormed, Loose
      <3>. QED BY <2>3, <2>6, <3>1, <3>2 DEF SoundBut, WellFormed
    <2>8. ASSUME NEW u \in Thread \ (X \cup {t}) PROVE Fits(r, u)
      <3>1. Fits(s, u) /\ s.prio[u] \in Priority /\ r.stat[u] = s.stat[u]
        BY <1>0, <2>3 DEF SoundBut, WellFormed, KernelState
      <3>. QED BY Zenon, <2>3, <2>5, <3>1, FitsKept
    <2>9. Fits(r, t)
      <3>1. r.stat[t] = "READY" /\ LinkedIn(r, t, p) /\ r.prio[t] = p /\ t # r.cur
        BY <1>0, <1>2, <2>3, <2>5 DEF KernelState
      <3>2. \A l \in Priority \cup List : LinkedIn(r, t, l) => l = p
        BY <2>5 DEF Loose
      <3>. QED BY Zenon, <1>0, <2>3, <3>1, <3>2, ListAssumption DEF Fits
    <2>. QED BY <1>2, <2>3, <2>4, <2>5, <2>7, <2>8, <2>9 DEF SoundBut, r
  <1>. QED BY <1>1, <1>2

\* Consistency is not about the yield flag, the time that is left, the slice,
\* the error and the lock of the scheduler.
LEMMA DataSound ==
  ASSUME NEW s, NEW r \in KernelState, NEW X, SoundBut(s, X),
         r.stat = s.stat, r.prio = s.prio, r.list = s.list, r.group = s.group,
         r.cur = s.cur, r.tmr = s.tmr
  PROVE  SoundBut(r, X)
  <1>1. WellFormed(r)
    BY DEF SoundBut, WellFormed, LinkedIn
  <1>2. ASSUME NEW u \in Thread \ X PROVE Fits(r, u)
    BY DEF SoundBut, Fits, LinkedIn
  <1>. QED BY <1>1, <1>2 DEF SoundBut

\* A thread that is linked nowhere gets a status other than READY, and any
\* priority.
LEMMA StatusSound ==
  ASSUME NEW s, NEW X, SoundBut(s, X), NEW t \in Thread, Loose(s, t),
         NEW v \in Stat, v # "READY", v = "RUNNING" => t = s.cur,
         Has(s.tmr, t) => v = "SUSPEND",
         NEW r \in KernelState, r.stat = [s.stat EXCEPT ![t] = v],
         \A u \in Thread \ {t} : r.prio[u] = s.prio[u],
         r.list = s.list, r.group = s.group, r.cur = s.cur, r.tmr = s.tmr
  PROVE  SoundBut(r, X \ {t})
  <1>1. s.stat \in [Thread -> Stat] /\ s.prio \in [Thread -> Priority]
    BY Zenon DEF SoundBut, WellFormed, KernelState
  <1>2. WellFormed(r)
    BY DEF SoundBut, WellFormed, LinkedIn
  <1>3. Fits(r, t)
    BY <1>1 DEF Fits, Loose, LinkedIn
  <1>4. ASSUME NEW u \in Thread \ X, u # t PROVE Fits(r, u)
    <2>1. /\ Fits(s, u) /\ r.stat[u] = s.stat[u] /\ r.prio[u] = s.prio[u]
          /\ s.prio[u] \in Priority /\ u \in Thread
      BY <1>1, <1>4 DEF SoundBut
    <2>. QED BY Zenon, <2>1, FitsKept DEF LinkedIn
  <1>. QED BY <1>2, <1>3, <1>4 DEF SoundBut

\* A thread that is linked nowhere gets a status other than READY.
LEMMA StatSound ==
  ASSUME NEW s, NEW X, SoundBut(s, X), NEW t \in Thread, Loose(s, t),
         NEW v \in Stat, v # "READY", v = "RUNNING" => t = s.cur,
         Has(s.tmr, t) => v = "SUSPEND"
  PROVE  SoundBut([s EXCEPT !.stat[t] = v], X \ {t})
  <1> DEFINE r == [s EXCEPT !.stat[t] = v]
  <1>1. /\ r \in KernelState /\ r.stat = [s.stat EXCEPT ![t] = v]
        /\ r.prio = s.prio /\ r.list = s.list /\ r.group = s.group
        /\ r.cur = s.cur /\ r.tmr = s.tmr
    BY Zenon DEF SoundBut, WellFormed, KernelState
  <1> HIDE DEF r
  <1>2. SoundBut(r, X \ {t})
    BY Zenon, <1>1, StatusSound
  <1>. QED BY <1>2 DEF r

-----------------------------------------------------------------------------
\* What rt_schedule changes at most: two threads swap READY and RUNNING.
Rescheduled(s, r) ==
  /\ r.prio = s.prio /\ r.tmr = s.tmr /\ r.left = s.left /\ r.error = s.error
  /\ r.slice = s.slice /\ r.lock = s.lock
  /\ \A l \in List : r.list[l] = s.list[l]
  /\ \A u \in Thread : \/ r.stat[u] = s.stat[u]
                       \/ {r.stat[u], s.stat[u]} \subseteq {"READY", "RUNNING"}

\* Thread t has the processor.
Executes(s, t) == s.cur = t /\ s.stat[t] = "RUNNING"

\* The current thread keeps the processor.
LEMMA StaySound ==
  ASSUME NEW s, Sound(s), s.stat[s.cur] = "RUNNING"
  PROVE  /\ Sound(SwitchTo(s, s.cur)) /\ Rescheduled(s, SwitchTo(s, s.cur))
         /\ Executes(SwitchTo(s, s.cur), s.cur)
  <1> DEFINE t == s.cur
             s1 == [ClearYield(s) EXCEPT !.cur = t]
             r1 == rt_schedule_remove_thread(s1, t)
             r == [r1 EXCEPT !.stat[t] = "RUNNING"]
  <1>0. s \in KernelState /\ t \in Thread
    BY DEF Sound, SoundBut, WellFormed, KernelState
  <1>1. /\ s1 \in KernelState
        /\ s1.tmr = s.tmr /\ s1.cur = t /\ s1.prio = s.prio /\ s1.left = s.left
        /\ s1.error = s.error /\ s1.slice = s.slice /\ s1.lock = s.lock
        /\ s1.stat = s.stat /\ s1.list = s.list /\ s1.group = s.group
    BY Zenon, <1>0 DEF ClearYield, KernelState
  <1>2. SwitchTo(s, s.cur) = r
    BY DEF SwitchTo
  <1> HIDE DEF s1
  <1>3. SoundBut(s1, {}) /\ s1.cur = t /\ s1.stat = s.stat
    BY Zenon, <1>0, <1>1, DataSound DEF Sound
  <1>4. /\ \A l \in Priority \cup List : ~ LinkedIn(s1, t, l)
        /\ ~ Has(s1.tmr, t)
    BY Zenon, <1>0, <1>3 DEF SoundBut, Fits
  <1>5. /\ SoundBut(r1, {t}) /\ Loose(r1, t)
        /\ SameRest(s1, r1) /\ r1.stat = s1.stat
        /\ r1.list = Unlink(s1, t).list
    <2>1. /\ SoundBut(r1, {} \cup {t}) /\ Loose(r1, t)
          /\ SameRest(s1, r1) /\ r1.stat = s1.stat
          /\ r1.list = Unlink(s1, t).list
      BY <1>0, <1>3, <1>4, RemoveSound, Zenon
    <2>2. {} \cup {t} = {t}
      BY Zenon
    <2>. QED BY <2>1, <2>2
  <1>6. \A l \in Priority \cup List : r1.list[l] = s1.list[l]
    BY <1>0, <1>3, <1>4, <1>5, UnlinkEffect DEF SoundBut
  <1> HIDE DEF r1
  <1>7. /\ r1.tmr = s.tmr /\ r1.cur = t /\ r1.prio = s.prio /\ r1.left = s.left
        /\ r1.error = s.error /\ r1.slice = s.slice /\ r1.lock = s.lock
        /\ r1.stat = s.stat /\ s1.list = s.list /\ s1.tmr = s.tmr
    BY <1>1, <1>5 DEF SameRest
  <1>8. Sound(r)
    <2>1. SoundBut(r, {t} \ {t})
      <3>1. "RUNNING" \in Stat /\ ~ Has(r1.tmr, t) /\ t = r1.cur
        BY <1>4, <1>7 DEF Stat
      <3>. QED BY Zenon, <1>0, <1>5, <3>1, StatSound
    <2>2. {t} \ {t} = {}
      OBVIOUS
    <2>. QED BY <2>1, <2>2 DEF Sound
  <1>9. Rescheduled(s, r)
    <2>1. r1 \in KernelState
      BY <1>5 DEF SoundBut, WellFormed
    <2>2. /\ r.prio = s.prio /\ r.tmr = s.tmr /\ r.left = s.left
          /\ r.error = s.error /\ r.slice = s.slice /\ r.lock = s.lock
          /\ r.list = r1.list
          /\ r.stat = [s.stat EXCEPT ![t] = "RUNNING"]
      BY <1>7, <2>1 DEF KernelState
    <2>3. s.stat \in [Thread -> Stat]
      BY <1>0 DEF KernelState
    <2>4. r.stat = s.stat
      BY <1>0, <2>2, <2>3
    <2>. QED BY Zenon, <1>6, <1>7, <2>2, <2>4 DEF Rescheduled
  <1>10. Executes(r, t)
    <2>1. r1 \in KernelState
      BY <1>5 DEF SoundBut, WellFormed
    <2>. QED BY <1>0, <1>7, <2>1 DEF Executes, KernelState
  <1>. QED BY <1>2, <1>8, <1>9, <1>10

\* The processor is given to another thread, one that is queued.
LEMMA SwitchSound ==
  ASSUME NEW s, Sound(s), NEW to \in Thread, to # s.cur, s.stat[to] = "READY"
  PROVE  /\ Sound(SwitchTo(s, to)) /\ Rescheduled(s, SwitchTo(s, to))
         /\ Executes(SwitchTo(s, to), to)
  <1> DEFINE from == s.cur
             s1 == [ClearYield(s) EXCEPT !.cur = to]
             i == IF s.stat[from] = "RUNNING"
                    THEN rt_schedule_insert_thread(s1, from) ELSE s1
             r1 == rt_schedule_remove_thread(i, to)
             r == [r1 EXCEPT !.stat[to] = "RUNNING"]
  <1>0. /\ s \in KernelState /\ from \in Thread /\ Fits(s, from) /\ Fits(s, to)
        /\ s.stat \in [Thread -> Stat] /\ s.prio \in [Thread -> Priority]
    BY DEF Sound, SoundBut, WellFormed, KernelState
  <1>1. /\ s1 \in KernelState
        /\ s1.tmr = s.tmr /\ s1.cur = to /\ s1.prio = s.prio /\ s1.left = s.left
        /\ s1.error = s.error /\ s1.slice = s.slice /\ s1.lock = s.lock
        /\ s1.stat = s.stat /\ s1.list = s.list /\ s1.group = s.group
    BY Zenon, <1>0 DEF ClearYield, KernelState
  <1>2. SwitchTo(s, to) = r
    BY DEF SwitchTo
  <1> HIDE DEF s1, from
  <1>3. SoundBut(s1, {from, to})
    <2>1. WellFormed(s1)
      BY <1>1 DEF Sound, SoundBut, WellFormed, LinkedIn
    <2>2. ASSUME NEW u \in Thread \ {from, to} PROVE Fits(s1, u)
      <3>1. Fits(s, u) /\ s.prio[u] \in Priority
        BY Zenon, <1>0 DEF Sound, SoundBut
      <3>. QED BY <1>1, <3>1, FitsKept DEF LinkedIn, from
    <2>. QED BY <2>1, <2>2 DEF SoundBut
  <1>4. /\ \A p \in Priority : LinkedIn(s1, to, p) => s1.prio[to] = p
        /\ ~ Has(s1.tmr, to)
        /\ \A l \in List : ~ LinkedIn(s1, to, l)
    BY Zenon, <1>0, <1>1 DEF Fits, LinkedIn
  <1>5. /\ SoundBut(i, {to})
        /\ i.cur = to /\ i.tmr = s.tmr /\ i.prio = s.prio /\ i.left = s.left
        /\ i.error = s.error /\ i.slice = s.slice /\ i.lock = s.lock
        /\ \A l \in List : i.list[l] = s.list[l]
        /\ \A l \in Priority \cup List : LinkedIn(i, to, l) <=> LinkedIn(s1, to, l)
        /\ \A u \in Thread : \/ i.stat[u] = s.stat[u]
                             \/ {i.stat[u], s.stat[u]} \subseteq {"READY", "RUNNING"}
    <2>1. CASE s.stat[from] = "RUNNING"
      <3>1. Loose(s1, from) /\ ~ Has(s1.tmr, from)
        BY <1>0, <1>1, <2>1 DEF Fits, LinkedIn, Loose, from
      <3>2. LET j == rt_schedule_insert_thread(s1, from)
            IN  /\ SoundBut(j, {from, to} \ {from})
                /\ SameRest(s1, j)
                /\ j.stat = [s1.stat EXCEPT ![from] =
                               IF from = s1.cur THEN "RUNNING" ELSE "READY"]
                /\ \A l \in Priority \cup List :
                     l # s1.prio[from] => j.list[l] = s1.list[l]
                /\ \A l \in Priority \cup List : \A u \in Thread :
                     u # from => (LinkedIn(j, u, l) <=> LinkedIn(s1, u, l))
        BY <1>0, <1>3, <3>1, InsertSound, Zenon
      <3>a. i = rt_schedule_insert_thread(s1, from)
        BY Zenon, <2>1
      <3> HIDE DEF i
      <3>3. /\ SoundBut(i, {from, to} \ {from}) /\ SameRest(s1, i)
            /\ i.stat = [s1.stat EXCEPT ![from] =
                           IF from = s1.cur THEN "RUNNING" ELSE "READY"]
            /\ \A l \in Priority \cup List : l # s1.prio[from] => i.list[l] = s1.list[l]
            /\ \A l \in Priority \cup List : \A u \in Thread :
                 u # from => (LinkedIn(i, u, l) <=> LinkedIn(s1, u, l))
        BY <3>2, <3>a
      <3>4. {from, to} \ {from} = {to}
        BY DEF from
      <3>5. \A l \in List : l # s1.prio[from]
        BY Zenon, <1>0, <1>1, ListAssumption
      <3>6. \A u \in Thread : \/ i.stat[u] = s.stat[u]
                              \/ {i.stat[u], s.stat[u]} \subseteq {"READY", "RUNNING"}
        BY <1>0, <1>1, <2>1, <3>3
      <3>7. \A l \in List : i.list[l] = s.list[l]
        BY <1>1, <3>3, <3>5
      <3>8. \A l \in Priority \cup List : LinkedIn(i, to, l) <=> LinkedIn(s1, to, l)
        BY <3>3 DEF from
      <3>9. SoundBut(i, {to})
        BY Zenon, <3>3, <3>4
      <3>. QED BY Zenon, <1>1, <3>3, <3>6, <3>7, <3>8, <3>9 DEF SameRest
    <2>2. CASE s.stat[from] # "RUNNING"
      <3>1. i = s1
        BY Zenon, <2>2
      <3> HIDE DEF i
      <3>2. Fits(s1, from)
        BY Zenon, <1>0, <1>1, <2>2 DEF Fits, LinkedIn, from
      <3>3. SoundBut(s1, {to})
        BY <1>3, <3>2 DEF SoundBut
      <3>. QED BY <1>1, <3>1, <3>3
    <2>. QED BY Zenon, <2>1, <2>2
  <1> HIDE DEF i
  <1>6. /\ SoundBut(r1, {to} \cup {to}) /\ Loose(r1, to)
        /\ SameRest(i, r1) /\ r1.stat = i.stat
        /\ r1.list = Unlink(i, to).list
    <2>1. \A p \in Priority : LinkedIn(i, to, p) => i.prio[to] = p
      BY <1>1, <1>4, <1>5
    <2>. QED BY <1>5, <2>1, RemoveSound, Zenon
  <1>7. \A l \in List : r1.list[l] = s.list[l]
    <2>1. \A l \in List : ~ LinkedIn(i, to, l)
      BY Zenon, <1>4, <1>5
    <2>2. WellFormed(i)
      BY <1>5 DEF SoundBut
    <2>. QED BY <1>5, <1>6, <2>1, <2>2, UnlinkEffect
  <1> HIDE DEF r1
  <1>8. Sound(r)
    <2>1. SoundBut(r, ({to} \cup {to}) \ {to})
      <3>1. "RUNNING" \in Stat /\ ~ Has(r1.tmr, to) /\ to = r1.cur
        BY <1>1, <1>4, <1>5, <1>6 DEF Stat, SameRest
      <3>. QED BY Zenon, <1>6, <3>1, StatSound
    <2>2. ({to} \cup {to}) \ {to} = {}
      BY Zenon
    <2>. QED BY <2>1, <2>2 DEF Sound
  <1>9. Rescheduled(s, r)
    <2>1. r1 \in KernelState
      BY <1>6 DEF SoundBut, WellFormed
    <2>2. /\ r.prio = r1.prio /\ r.tmr = r1.tmr /\ r.left = r1.left
          /\ r.error = r1.error /\ r.slice = r1.slice /\ r.lock = r1.lock
          /\ r.list = r1.list
          /\ r.stat = [r1.stat EXCEPT ![to] = "RUNNING"]
          /\ r1.stat \in [Thread -> Stat]
      BY Zenon, <2>1 DEF KernelState
    <2> HIDE DEF r
    <2>3. \A u \in Thread : \/ r.stat[u] = s.stat[u]
                            \/ {r.stat[u], s.stat[u]} \subseteq {"READY", "RUNNING"}
      BY <1>5, <1>6, <2>2
    <2>. QED BY <1>5, <1>6, <1>7, <2>2, <2>3 DEF Rescheduled, SameRest
  <1>10. Executes(r, to)
    <2>1. r1 \in KernelState
      BY <1>6 DEF SoundBut, WellFormed
    <2>. QED BY Zenon, <1>5, <1>6, <2>1 DEF Executes, KernelState, SameRest
  <1>. QED BY Zenon, <1>2, <1>8, <1>9, <1>10

\* rt_schedule keeps the kernel data consistent.
LEMMA ScheduleSound ==
  ASSUME NEW s, Sound(s)
  PROVE  /\ Sound(rt_schedule(s)) /\ Rescheduled(s, rt_schedule(s))
         /\ \/ rt_schedule(s) = s /\ (s.lock # 0 \/ s.group = {})
            \/ \E t \in Thread : Executes(rt_schedule(s), t)
  <1>0. /\ s \in KernelState /\ s.cur \in Thread
        /\ \A p \in Priority : p \in s.group => s.list[p] # <<>>
    BY Zenon DEF Sound, SoundBut, WellFormed, KernelState
  <1>1. CASE s.lock # 0 \/ s.group = {}
    BY <1>1 DEF rt_schedule, Rescheduled
  <1>2. CASE ~ (s.lock # 0 \/ s.group = {}) /\ KeepsProcessor(s)
    <2>1. rt_schedule(s) = SwitchTo(s, s.cur) /\ s.stat[s.cur] = "RUNNING"
      BY Zenon, <1>2 DEF rt_schedule, KeepsProcessor
    <2>. QED BY <1>0, <2>1, StaySound
  <1>3. CASE ~ (s.lock # 0 \/ s.group = {}) /\ ~ KeepsProcessor(s)
    <2>1. rt_schedule(s) = SwitchTo(s, Highest(s))
      BY <1>3 DEF rt_schedule
    <2> DEFINE p == Least(s.group)
               to == Head(s.list[p])
    <2>0. Priority \subseteq Nat
      BY PriorityAssumption DEF Priority
    <2>2. s.group \subseteq Nat /\ s.group # {} /\ s.group \subseteq Priority
      BY Zenon, <1>0, <1>3, <2>0 DEF KernelState
    <2>3. p \in s.group
      BY <2>2, LeastElement
    <2>4. p \in Priority /\ s.list[p] \in Seq(Thread) /\ s.list[p] # <<>>
      BY <1>0, <2>2, <2>3 DEF KernelState
    <2> HIDE DEF p
    <2>5. to \in Thread /\ LinkedIn(s, to, p)
      BY <2>4, EmptyHasNone DEF LinkedIn
    <2>6. to # s.cur /\ s.stat[to] = "READY"
      BY <2>4, <2>5 DEF Sound, SoundBut, Fits
    <2>7. Highest(s) = to
      BY DEF Highest, p
    <2>. QED BY <2>1, <2>5, <2>6, <2>7, SwitchSound
  <1>. QED BY Zenon, <1>1, <1>2, <1>3

-----------------------------------------------------------------------------
\* r differs from s in the timers at most.
SameButTimers(s, r) ==
  /\ r.stat = s.stat /\ r.yield = s.yield /\ r.prio = s.prio /\ r.list = s.list
  /\ r.group = s.group /\ r.cur = s.cur /\ r.lock = s.lock
  /\ r.slice = s.slice /\ r.error = s.error

\* Consistency is kept when the list of the timers changes and holds no timer
\* of a thread that is not suspended.
LEMMA TimerListSound ==
  ASSUME NEW s, NEW r \in KernelState, NEW X, SoundBut(s, X), SameButTimers(s, r),
         Once(r.tmr),
         \A u \in Thread \ X : Has(r.tmr, u) => s.stat[u] = "SUSPEND"
  PROVE  SoundBut(r, X)
  <1>1. WellFormed(r)
    BY Zenon DEF SoundBut, WellFormed, LinkedIn, SameButTimers
  <1>2. ASSUME NEW u \in Thread \ X PROVE Fits(r, u)
    BY DEF SoundBut, Fits, LinkedIn, SameButTimers
  <1>. QED BY <1>1, <1>2 DEF SoundBut

\* rt_timer_stop takes the timer of t off the list.
LEMMA TimerStopSound ==
  ASSUME NEW s, NEW X, SoundBut(s, X), NEW t \in Thread
  PROVE  /\ SoundBut(rt_timer_stop(s, t), X)
         /\ SameButTimers(s, rt_timer_stop(s, t))
         /\ \A u \in Thread :
              Has(rt_timer_stop(s, t).tmr, u) <=> Has(s.tmr, u) /\ u # t
  <1> DEFINE r == rt_timer_stop(s, t)
             q == rt_list_remove(s.tmr, t)
  <1>1. s \in KernelState /\ s.tmr \in Seq(Thread) /\ Once(s.tmr)
    BY DEF SoundBut, WellFormed, KernelState
  <1>2. /\ q \in Seq(Thread) /\ Once(q)
        /\ \A u \in Thread : Has(q, u) <=> Has(s.tmr, u) /\ u # t
    BY <1>1, RemoveFirstElements
  <1> HIDE DEF q
  <1>3. r = [s EXCEPT !.tmr = q, !.left[t] = 0]
    BY <1>1 DEF rt_timer_stop, q, KernelState
  <1> HIDE DEF r
  <1>4. r \in KernelState /\ SameButTimers(s, r) /\ r.tmr = q
    <2>1. q \in Seq(Thread) /\ s \in KernelState /\ 0 \in Int
      BY <1>1, <1>2
    <2>. QED BY Zenon, <1>3, <2>1 DEF KernelState, SameButTimers
  <1>5. \A u \in Thread \ X : Has(r.tmr, u) => s.stat[u] = "SUSPEND"
    BY <1>2, <1>4 DEF SoundBut, Fits
  <1>6. SoundBut(r, X)
    BY <1>2, <1>4, <1>5, TimerListSound
  <1>. QED BY Zenon, <1>2, <1>4, <1>6 DEF r

\* rt_timer_start puts the timer of a suspended thread t into the list, where
\* it is no more than once even if it was running before.
LEMMA TimerStartSound ==
  ASSUME NEW s, NEW X, SoundBut(s, X), NEW t \in Thread, NEW n \in Int,
         s.stat[t] = "SUSPEND"
  PROVE  /\ SoundBut(rt_timer_start(s, t, n), X)
         /\ SameButTimers(s, rt_timer_start(s, t, n))
         /\ \A u \in Thread :
              Has(rt_timer_start(s, t, n).tmr, u) <=> Has(s.tmr, u) \/ u = t
  <1> DEFINE v == rt_timer_stop(s, t)
             q == TimerInsert(v.tmr, v.left, t, n)
             r == rt_timer_start(s, t, n)
  <1>1. /\ SoundBut(v, X) /\ SameButTimers(s, v)
        /\ \A u \in Thread : Has(v.tmr, u) <=> Has(s.tmr, u) /\ u # t
    BY TimerStopSound
  <1>2. r = [v EXCEPT !.tmr = q, !.left[t] = n]
    BY DEF rt_timer_start
  <1> HIDE DEF v, r
  <1>3. v \in KernelState /\ v.tmr \in Seq(Thread) /\ Once(v.tmr) /\ ~ Has(v.tmr, t)
    BY Zenon, <1>1 DEF SoundBut, WellFormed, KernelState
  <1>4. /\ q \in Seq(Thread) /\ Once(q)
        /\ \A u \in Thread : Has(q, u) <=> Has(v.tmr, u) \/ u = t
    <2> DEFINE i == FirstAbove(v.tmr, v.left, n)
    <2>1. i \in 0 .. Len(v.tmr)
      BY <1>3, FirstAbovePosition
    <2>2. q = IF i = 0 THEN Append(v.tmr, t) ELSE rt_list_insert_before(v.tmr, i, t)
      BY DEF TimerInsert
    <2> HIDE DEF i, q
    <2>3. CASE i = 0
      BY Zenon, <1>3, <2>2, <2>3, AppendElements
    <2>4. CASE i # 0
      <3>1. i \in 1 .. Len(v.tmr) /\ q = rt_list_insert_before(v.tmr, i, t)
        BY <1>3, <2>1, <2>2, <2>4
      <3>. QED BY <1>3, <3>1, InsertElements
    <2>. QED BY Zenon, <2>3, <2>4
  <1> HIDE DEF q
  <1>5. r \in KernelState /\ SameButTimers(v, r) /\ r.tmr = q
    BY Zenon, <1>2, <1>3, <1>4 DEF KernelState, SameButTimers
  <1>6. \A u \in Thread \ X : Has(r.tmr, u) => v.stat[u] = "SUSPEND"
    BY Zenon, <1>1, <1>4, <1>5 DEF SoundBut, Fits, SameButTimers
  <1>7. SoundBut(r, X)
    BY Zenon, <1>1, <1>4, <1>5, <1>6, TimerListSound
  <1>8. SameButTimers(s, r)
    BY Zenon, <1>1, <1>5 DEF SameButTimers
  <1>9. \A u \in Thread : Has(r.tmr, u) <=> Has(s.tmr, u) \/ u = t
    BY Zenon, <1>1, <1>4, <1>5
  <1>. QED BY <1>7, <1>8, <1>9 DEF r

-----------------------------------------------------------------------------
\* Nothing that a call may change about thread u is changed, except that u may
\* have got or lost the processor.
Same(s, r, u) ==
  /\ \/ r.stat[u] = s.stat[u]
     \/ {r.stat[u], s.stat[u]} \subseteq {"READY", "RUNNING"}
  /\ \A l \in List : LinkedIn(r, u, l) <=> LinkedIn(s, u, l)
  /\ Has(r.tmr, u) <=> Has(s.tmr, u)

\* The parts of the kernel state that suspending and resuming leave alone.
Kept(s, r) ==
  /\ r.prio = s.prio /\ r.cur = s.cur /\ r.lock = s.lock /\ r.error = s.error

\* Nothing that consistency is about changes for a thread other than t.
Alone(s, r, t) ==
  /\ r.cur = s.cur /\ r.lock = s.lock
  /\ \A u \in Thread \ {t} :
       /\ r.stat[u] = s.stat[u] /\ r.prio[u] = s.prio[u]
       /\ Has(r.tmr, u) <=> Has(s.tmr, u)
       /\ \A l \in Priority \cup List : LinkedIn(r, u, l) <=> LinkedIn(s, u, l)

\* rt_thread_suspend takes t off every list and stops its timer.
LEMMA SuspendSound ==
  ASSUME NEW s, Sound(s), NEW t \in Thread
  PROVE  LET r == rt_thread_suspend(s, t)
         IN  /\ Sound(r) /\ Loose(r, t) /\ r.stat[t] = "SUSPEND"
             /\ ~ Has(r.tmr, t)
             /\ Kept(s, r) /\ \A u \in Thread \ {t} : Same(s, r, u)
             /\ \A l \in List : ~ LinkedIn(s, t, l) => r.list[l] = s.list[l]
             /\ Alone(s, r, t)
  <1> DEFINE a == rt_schedule_remove_thread(s, t)
             b == [a EXCEPT !.stat[t] = "SUSPEND"]
             r == rt_timer_stop(b, t)
  <1>1. r = rt_thread_suspend(s, t)
    BY DEF rt_thread_suspend
  <1>2. /\ SoundBut(a, {} \cup {t}) /\ Loose(a, t)
        /\ SameRest(s, a) /\ a.stat = s.stat
        /\ a.list = Unlink(s, t).list
    <2>1. SoundBut(s, {}) /\ \A p \in Priority : LinkedIn(s, t, p) => s.prio[t] = p
      BY Zenon DEF Sound, SoundBut, Fits
    <2>. QED BY <2>1, RemoveSound, Zenon
  <1>3. /\ \A l \in Priority \cup List : \A u \in Thread :
             LinkedIn(a, u, l) <=> LinkedIn(s, u, l) /\ u # t
        /\ \A l \in List : ~ LinkedIn(s, t, l) => a.list[l] = s.list[l]
    BY <1>2, UnlinkEffect DEF Sound, SoundBut, LinkedIn
  <1> HIDE DEF a
  <1>4. a \in KernelState
    BY <1>2 DEF SoundBut, WellFormed
  <1>5. SoundBut(b, ({} \cup {t}) \ {t})
    <2>1. "SUSPEND" \in Stat /\ "SUSPEND" # "READY" /\ "SUSPEND" # "RUNNING"
      BY DEF Stat
    <2>. QED BY <1>2, <2>1, StatSound
  <1>6. /\ b.stat = [a.stat EXCEPT ![t] = "SUSPEND"] /\ a.stat \in [Thread -> Stat]
        /\ b.list = a.list /\ SameRest(a, b)
    BY <1>4 DEF KernelState, SameRest
  <1> HIDE DEF b
  <1>7. Sound(b)
    <2>1. ({} \cup {t}) \ {t} = {}
      OBVIOUS
    <2>. QED BY <1>5, <2>1 DEF Sound
  <1>8. /\ Sound(r) /\ SameButTimers(b, r)
        /\ \A u \in Thread : Has(r.tmr, u) <=> Has(b.tmr, u) /\ u # t
    BY Zenon, <1>7, TimerStopSound DEF Sound
  <1> HIDE DEF r
  <1>9. Loose(r, t)
    BY Zenon, <1>2, <1>6, <1>8 DEF Loose, LinkedIn, SameButTimers
  <1>10. Kept(s, r) /\ r.stat[t] = "SUSPEND" /\ ~ Has(r.tmr, t)
    BY <1>2, <1>6, <1>8 DEF Kept, SameRest, SameButTimers
  <1>11. (\A u \in Thread \ {t} : Same(s, r, u)) /\ Alone(s, r, t)
    <2>1. ASSUME NEW u \in Thread \ {t}
          PROVE  /\ r.stat[u] = s.stat[u]
                 /\ \A l \in Priority \cup List : LinkedIn(r, u, l) <=> LinkedIn(s, u, l)
                 /\ Has(r.tmr, u) <=> Has(s.tmr, u)
      <3>1. r.stat[u] = s.stat[u]
        BY Zenon, <1>2, <1>6, <1>8 DEF SameButTimers
      <3>2. \A l \in Priority \cup List : LinkedIn(r, u, l) <=> LinkedIn(s, u, l)
        BY <1>3, <1>6, <1>8 DEF SameButTimers, LinkedIn
      <3>3. Has(r.tmr, u) <=> Has(s.tmr, u)
        BY Zenon, <1>2, <1>6, <1>8 DEF SameRest
      <3>. QED BY Zenon, <3>1, <3>2, <3>3
    <2>. QED BY <1>10, <2>1 DEF Same, Alone, Kept
  <1>12. \A l \in List : ~ LinkedIn(s, t, l) => r.list[l] = s.list[l]
    BY <1>3, <1>6, <1>8 DEF SameButTimers
  <1>. QED BY <1>1, <1>8, <1>9, <1>10, <1>11, <1>12

\* A thread that is suspended or closed and linked nowhere is put into a list
\* of waiting or of defunct threads.
LEMMA EnlistSound ==
  ASSUME NEW s, Sound(s), NEW t \in Thread, Loose(s, t),
         s.stat[t] \in {"SUSPEND", "CLOSE"}, NEW l \in List, NEW q \in Seq(Thread), Once(q),
         \A u \in Thread : Has(q, u) <=> Has(s.list[l], u) \/ u = t
  PROVE  LET r == [s EXCEPT !.list[l] = q]
         IN  /\ Sound(r) /\ r.stat = s.stat /\ r.tmr = s.tmr /\ Kept(s, r)
             /\ r.list[l] = q
             /\ \A m \in Priority \cup List : \A u \in Thread :
                  LinkedIn(r, u, m) <=> LinkedIn(s, u, m) \/ (u = t /\ m = l)
  <1> DEFINE r == [s EXCEPT !.list[l] = q]
  <1>0. s \in KernelState /\ l \in Priority \cup List /\ l \notin Priority
    BY ListAssumption DEF Sound, SoundBut, WellFormed
  <1>1. /\ r \in KernelState /\ r.list = [s.list EXCEPT ![l] = q]
        /\ SameRest(s, r) /\ r.stat = s.stat /\ r.group = s.group
    BY Zenon, <1>0 DEF KernelState, SameRest
  <1> HIDE DEF r
  <1>2. r.list[l] = q /\ \A m \in Priority \cup List : m # l => r.list[m] = s.list[m]
    BY Zenon, <1>0, <1>1 DEF KernelState
  <1>3. \A m \in Priority \cup List : \A u \in Thread :
          LinkedIn(r, u, m) <=> LinkedIn(s, u, m) \/ (u = t /\ m = l)
    BY Zenon, <1>2 DEF LinkedIn
  <1>4. WellFormed(r)
    <2>1. \A m \in Priority \cup List : Once(r.list[m])
      BY Zenon, <1>2 DEF Sound, SoundBut, WellFormed
    <2>2. \A m, n \in Priority \cup List : \A u \in Thread :
            LinkedIn(r, u, m) /\ LinkedIn(r, u, n) => m = n
      BY <1>3 DEF Sound, SoundBut, WellFormed, Loose
    <2>3. \A p \in Priority : p \in r.group <=> r.list[p] # <<>>
      BY Zenon, <1>0, <1>1, <1>2 DEF Sound, SoundBut, WellFormed
    <2>. QED BY Zenon, <1>1, <2>1, <2>2, <2>3 DEF Sound, SoundBut, WellFormed, SameRest
  <1>5. ASSUME NEW u \in Thread PROVE Fits(r, u)
    <2>1. Fits(s, u) /\ s.prio[u] \in Priority
      BY <1>0 DEF Sound, SoundBut, KernelState
    <2>2. r.prio = s.prio /\ r.cur = s.cur /\ r.tmr = s.tmr
      BY Zenon, <1>1 DEF SameRest
    <2>3. CASE u # t
      BY Zenon, <1>1, <1>3, <2>1, <2>2, <2>3, FitsKept
    <2>4. CASE u = t
      BY Zenon, <1>0, <1>1, <1>3, <2>1, <2>2, <2>4 DEF Fits
    <2>. QED BY <2>3, <2>4
  <1>. QED BY Zenon, <1>1, <1>2, <1>3, <1>4, <1>5 DEF Sound, SoundBut, SameRest, Kept, r

\* rt_thread_resume of a suspended thread takes it off the list it waits in,
\* stops its timer and makes it ready.
LEMMA ResumeSound ==
  ASSUME NEW s, Sound(s), NEW t \in Thread, s.stat[t] = "SUSPEND"
  PROVE  LET r == rt_thread_resume(s, t)
         IN  /\ Sound(r) /\ r.stat[t] \in {"READY", "RUNNING"}
             /\ \A l \in List : ~ LinkedIn(r, t, l)
             /\ ~ Has(r.tmr, t)
             /\ Kept(s, r) /\ \A u \in Thread \ {t} : Same(s, r, u)
             /\ \A l \in List : r.list[l] = rt_list_remove(s.list[l], t)
  <1> DEFINE a == Unlink(s, t)
             b == rt_timer_stop(a, t)
             r == rt_schedule_insert_thread(b, t)
  <1>1. r = rt_thread_resume(s, t)
    BY DEF rt_thread_resume, ResumeUnlink
  <1>2. SoundBut(a, {} \cup {t}) /\ Loose(a, t)
    <2>1. SoundBut(s, {}) /\ \A p \in Priority : ~ LinkedIn(s, t, p)
      BY Zenon DEF Sound, SoundBut, Fits
    <2>. QED BY <2>1, UnlinkSound, Zenon
  <1>3. /\ SameRest(s, a) /\ a.stat = s.stat
        /\ \A l \in Priority \cup List : \A u \in Thread :
             LinkedIn(a, u, l) <=> LinkedIn(s, u, l) /\ u # t
    BY UnlinkEffect DEF Sound, SoundBut
  <1>4. \A l \in Priority \cup List : a.list[l] = rt_list_remove(s.list[l], t)
    BY Zenon DEF Sound, SoundBut, WellFormed, KernelState, Unlink
  <1> HIDE DEF a
  <1>5. /\ SoundBut(b, {} \cup {t}) /\ SameButTimers(a, b)
        /\ \A u \in Thread : Has(b.tmr, u) <=> Has(a.tmr, u) /\ u # t
    BY Zenon, <1>2, TimerStopSound
  <1> HIDE DEF b
  <1>6. Loose(b, t) /\ ~ Has(b.tmr, t)
    BY <1>2, <1>5 DEF Loose, LinkedIn, SameButTimers
  <1>7. /\ SoundBut(r, ({} \cup {t}) \ {t})
        /\ SameRest(b, r)
        /\ r.stat = [b.stat EXCEPT ![t] = IF t = b.cur THEN "RUNNING" ELSE "READY"]
        /\ \A l \in Priority \cup List : l # b.prio[t] => r.list[l] = b.list[l]
        /\ \A l \in Priority \cup List : \A u \in Thread :
             u # t => (LinkedIn(r, u, l) <=> LinkedIn(b, u, l))
    BY <1>5, <1>6, InsertSound, Zenon
  <1> HIDE DEF r
  <1>8. /\ b.stat \in [Thread -> Stat] /\ b.prio[t] \in Priority
        /\ \A l \in List : l # b.prio[t]
    BY <1>5, ListAssumption DEF SoundBut, WellFormed, KernelState
  <1>9. \A l \in List : r.list[l] = b.list[l]
    BY Zenon, <1>7, <1>8
  <1>10. Sound(r)
    <2>1. ({} \cup {t}) \ {t} = {}
      BY Zenon
    <2>. QED BY Zenon, <1>7, <2>1 DEF Sound
  <1>11. r.stat[t] \in {"READY", "RUNNING"} /\ ~ Has(r.tmr, t)
    BY Zenon, <1>6, <1>7, <1>8 DEF SameRest
  <1>12. \A l \in List : ~ LinkedIn(r, t, l)
    BY Zenon, <1>6, <1>9 DEF Loose, LinkedIn
  <1>13. Kept(s, r)
    BY Zenon, <1>3, <1>5, <1>7 DEF Kept, SameRest, SameButTimers
  <1>14. ASSUME NEW u \in Thread \ {t} PROVE Same(s, r, u)
    <2>1. r.stat[u] = s.stat[u]
      BY <1>3, <1>5, <1>7, <1>8 DEF SameButTimers
    <2>2. \A l \in List : LinkedIn(r, u, l) <=> LinkedIn(s, u, l)
      BY Zenon, <1>3, <1>5, <1>9 DEF SameButTimers, LinkedIn
    <2>3. Has(r.tmr, u) <=> Has(s.tmr, u)
      BY Zenon, <1>3, <1>5, <1>7 DEF SameRest
    <2>. QED BY Zenon, <2>1, <2>2, <2>3 DEF Same
  <1>15. \A l \in List : r.list[l] = rt_list_remove(s.list[l], t)
    BY Zenon, <1>4, <1>5, <1>9 DEF SameButTimers
  <1>. QED BY Zenon, <1>1, <1>10, <1>11, <1>12, <1>13, <1>14, <1>15

\* rt_schedule leaves alone what Same is about.
LEMMA ScheduleSame ==
  ASSUME NEW s, Sound(s), NEW u \in Thread
  PROVE  Same(s, rt_schedule(s), u)
  BY Zenon, ScheduleSound DEF Rescheduled, Same, LinkedIn

\* Same is transitive.
LEMMA SameTransitive ==
  ASSUME NEW a, NEW b, NEW c, NEW u, Same(a, b, u), Same(b, c, u)
  PROVE  Same(a, c, u)
  BY Zenon DEF Same

\* rt_thread_timeout up to its call of rt_schedule.
TimedOut(s, t) ==
  rt_schedule_insert_thread(
    Unlink([rt_timer_stop(s, t) EXCEPT !.error[t] = "ETIMEOUT"], t), t)

\* rt_thread_timeout, called for a timer that is in the list, takes its thread
\* off the list it waits in and makes it ready.
LEMMA TimedOutSound ==
  ASSUME NEW s, NEW X, SoundBut(s, X), NEW t \in Thread \ X, Has(s.tmr, t)
  PROVE  LET c == TimedOut(s, t)
         IN  /\ SoundBut(c, X) /\ Alone(s, c, t) /\ c.prio = s.prio
             /\ c.stat[t] = IF t = s.cur THEN "RUNNING" ELSE "READY"
             /\ \A l \in List : ~ LinkedIn(c, t, l)
             /\ ~ Has(c.tmr, t)
             /\ c.error = [s.error EXCEPT ![t] = "ETIMEOUT"]
             /\ \A l \in List : c.list[l] = rt_list_remove(s.list[l], t)
  <1> DEFINE a == rt_timer_stop(s, t)
             e == [a EXCEPT !.error[t] = "ETIMEOUT"]
             b == Unlink(e, t)
             c == rt_schedule_insert_thread(b, t)
  <1>1. c = TimedOut(s, t)
    BY Zenon DEF TimedOut
  <1>2. s.stat[t] = "SUSPEND"
    BY DEF SoundBut, Fits
  <1>3. /\ SoundBut(a, X) /\ SameButTimers(s, a)
        /\ \A u \in Thread : Has(a.tmr, u) <=> Has(s.tmr, u) /\ u # t
    BY TimerStopSound
  <1> HIDE DEF a
  <1>4. /\ a \in KernelState /\ e \in KernelState
        /\ e.error = [a.error EXCEPT ![t] = "ETIMEOUT"]
        /\ e.stat = a.stat /\ e.prio = a.prio /\ e.list = a.list
        /\ e.group = a.group /\ e.cur = a.cur /\ e.tmr = a.tmr /\ e.lock = a.lock
    BY Zenon, <1>3 DEF SoundBut, WellFormed, KernelState, Error
  <1> HIDE DEF e
  <1>5. SoundBut(e, X)
    BY Zenon, <1>3, <1>4, DataSound
  <1>6. /\ e.error = [s.error EXCEPT ![t] = "ETIMEOUT"]
        /\ e.stat = s.stat /\ e.prio = s.prio /\ e.list = s.list
        /\ e.lock = s.lock /\ e.cur = s.cur
        /\ \A u \in Thread : Has(e.tmr, u) <=> Has(s.tmr, u) /\ u # t
    BY <1>3, <1>4 DEF SameButTimers
  <1>7. SoundBut(b, X \cup {t}) /\ Loose(b, t)
    <2>1. \A p \in Priority : ~ LinkedIn(e, t, p)
      BY Zenon, <1>2, <1>5, <1>6 DEF SoundBut, Fits
    <2>. QED BY <1>5, <2>1, UnlinkSound, Zenon
  <1>8. /\ SameRest(e, b) /\ b.stat = e.stat
        /\ \A l \in Priority \cup List : \A u \in Thread :
             LinkedIn(b, u, l) <=> LinkedIn(e, u, l) /\ u # t
    BY <1>5, UnlinkEffect DEF SoundBut
  <1>9. \A l \in Priority \cup List : b.list[l] = rt_list_remove(e.list[l], t)
    BY <1>5 DEF SoundBut, WellFormed, KernelState, Unlink
  <1> HIDE DEF b
  <1>10. /\ SoundBut(c, (X \cup {t}) \ {t})
         /\ SameRest(b, c)
         /\ c.stat = [b.stat EXCEPT ![t] = IF t = b.cur THEN "RUNNING" ELSE "READY"]
         /\ \A l \in Priority \cup List : l # b.prio[t] => c.list[l] = b.list[l]
         /\ \A l \in Priority \cup List : \A u \in Thread :
              u # t => (LinkedIn(c, u, l) <=> LinkedIn(b, u, l))
    <2>1. ~ Has(b.tmr, t)
      BY Zenon, <1>6, <1>8 DEF SameRest
    <2>. QED BY <1>7, <2>1, InsertSound, Zenon
  <1> HIDE DEF c
  <1>11. SoundBut(c, X)
    <2>1. (X \cup {t}) \ {t} = X
      OBVIOUS
    <2>. QED BY <1>10, <2>1
  <1>12. /\ b.stat \in [Thread -> Stat] /\ b.prio[t] \in Priority
         /\ \A l \in List : l # b.prio[t]
    <2>1. b \in KernelState /\ t \in Thread
      BY Zenon, <1>7 DEF SoundBut, WellFormed
    <2>. QED BY Zenon, <2>1, ListAssumption DEF KernelState
  <1>13. \A l \in List : c.list[l] = b.list[l]
    BY Zenon, <1>10, <1>12
  <1>14. Alone(s, c, t) /\ c.prio = s.prio
    <2>1. c.cur = s.cur /\ c.lock = s.lock /\ c.prio = s.prio
      BY Zenon, <1>6, <1>8, <1>10 DEF SameRest
    <2>2. ASSUME NEW u \in Thread \ {t}
          PROVE  /\ c.stat[u] = s.stat[u]
                 /\ Has(c.tmr, u) <=> Has(s.tmr, u)
                 /\ \A l \in Priority \cup List : LinkedIn(c, u, l) <=> LinkedIn(s, u, l)
      <3>1. c.stat[u] = s.stat[u]
        BY <1>6, <1>8, <1>10, <1>12
      <3>2. \A l \in Priority \cup List : LinkedIn(c, u, l) <=> LinkedIn(s, u, l)
        BY Zenon, <1>6, <1>8, <1>10 DEF LinkedIn
      <3>3. Has(c.tmr, u) <=> Has(s.tmr, u)
        BY Zenon, <1>6, <1>8, <1>10 DEF SameRest
      <3>. QED BY Zenon, <3>1, <3>2, <3>3
    <2>. QED BY Zenon, <2>1, <2>2 DEF Alone
  <1>15. c.stat[t] = IF t = s.cur THEN "RUNNING" ELSE "READY"
    BY Zenon, <1>6, <1>8, <1>10, <1>12 DEF SameRest
  <1>16. \A l \in List : ~ LinkedIn(c, t, l)
    BY Zenon, <1>7, <1>13 DEF Loose, LinkedIn
  <1>17. ~ Has(c.tmr, t) /\ c.error = [s.error EXCEPT ![t] = "ETIMEOUT"]
    BY Zenon, <1>6, <1>8, <1>10 DEF SameRest
  <1>18. \A l \in List : c.list[l] = rt_list_remove(s.list[l], t)
    BY Zenon, <1>6, <1>9, <1>13
  <1>. QED BY <1>1, <1>11, <1>14, <1>15, <1>16, <1>17, <1>18

\* rt_thread_timeout, called for a timer that is in the list, ends the wait of
\* the thread with ETIMEOUT.
LEMMA TimeoutSound ==
  ASSUME NEW s, Sound(s), NEW t \in Thread, Has(s.tmr, t)
  PROVE  LET r == rt_thread_timeout(s, t)
         IN  /\ Sound(r) /\ r.stat[t] \in {"READY", "RUNNING"}
             /\ \A l \in List : ~ LinkedIn(r, t, l)
             /\ ~ Has(r.tmr, t)
             /\ r.prio = s.prio /\ r.lock = s.lock
             /\ r.error = [s.error EXCEPT ![t] = "ETIMEOUT"]
             /\ \A u \in Thread \ {t} : Same(s, r, u)
             /\ \A l \in List : r.list[l] = rt_list_remove(s.list[l], t)
             /\ r.cur = s.cur \/ \E u \in Thread : Executes(r, u)
  <1> DEFINE c == TimedOut(s, t)
             r == rt_schedule(c)
  <1>1. r = rt_thread_timeout(s, t)
    BY DEF rt_thread_timeout, TimedOut
  <1>2. /\ SoundBut(c, {}) /\ Alone(s, c, t) /\ c.prio = s.prio
        /\ c.stat[t] = IF t = s.cur THEN "RUNNING" ELSE "READY"
        /\ \A l \in List : ~ LinkedIn(c, t, l)
        /\ ~ Has(c.tmr, t)
        /\ c.error = [s.error EXCEPT ![t] = "ETIMEOUT"]
        /\ \A l \in List : c.list[l] = rt_list_remove(s.list[l], t)
    <2>1. SoundBut(s, {}) /\ t \in Thread \ {}
      BY DEF Sound
    <2>. QED BY <2>1, TimedOutSound, ZenonT(60)
  <1> HIDE DEF c
  <1>3. Sound(c) /\ c.cur = s.cur /\ c.lock = s.lock /\ c.prio = s.prio
    BY <1>2 DEF Sound, Alone
  <1>4. ASSUME NEW u \in Thread \ {t} PROVE Same(s, c, u)
    BY <1>2 DEF Alone, Same
  <1>5. /\ Sound(r) /\ Rescheduled(c, r)
        /\ r.cur = s.cur \/ \E u \in Thread : Executes(r, u)
    BY <1>3, ScheduleSound
  <1>6. \A u \in Thread \ {t} : Same(s, r, u)
    BY Zenon, <1>3, <1>4, ScheduleSame, SameTransitive
  <1> HIDE DEF r
  <1>7. r.stat[t] \in {"READY", "RUNNING"}
    BY Zenon, <1>2, <1>5 DEF Rescheduled
  <1>8. \A l \in List : ~ LinkedIn(r, t, l)
    BY Zenon, <1>2, <1>5 DEF Rescheduled, LinkedIn
  <1>9. /\ ~ Has(r.tmr, t) /\ r.prio = s.prio /\ r.lock = s.lock
        /\ r.error = [s.error EXCEPT ![t] = "ETIMEOUT"]
        /\ \A l \in List : r.list[l] = rt_list_remove(s.list[l], t)
    BY <1>2, <1>3, <1>5 DEF Rescheduled
  <1>. QED BY <1>1, <1>5, <1>6, <1>7, <1>8, <1>9

\* r differs from s in the yield flags, the times that are left and the slices.
SameButTimes(s, r) ==
  /\ r.stat = s.stat /\ r.prio = s.prio /\ r.list = s.list /\ r.group = s.group
  /\ r.cur = s.cur /\ r.tmr = s.tmr /\ r.lock = s.lock /\ r.error = s.error

\* rt_tick_increase counts the time down and calls rt_schedule at the end of a
\* slice.
LEMMA TickCounts ==
  ASSUME NEW s \in KernelState
  PROVE  \E c \in KernelState :
           SameButTimes(s, c) /\ rt_tick_increase(s) \in {c, rt_schedule(c)}
  <1> DEFINE n == s.slice[s.cur] - 1
             f == [t \in Thread |-> IF Has(s.tmr, t) THEN s.left[t] - 1 ELSE 0]
             g == [s.slice EXCEPT ![s.cur] = n]
             h == [s.slice EXCEPT ![s.cur] = InitTick[s.cur]]
             y == [s.yield EXCEPT ![s.cur] = TRUE]
             a == [s EXCEPT !.left = f, !.slice = g]
             b == [s EXCEPT !.left = f, !.slice = h, !.yield = y]
  <1>1. /\ s.cur \in Thread /\ s.slice \in [Thread -> Nat \ {0}]
        /\ s.left \in [Thread -> Int] /\ s.yield \in [Thread -> BOOLEAN] /\ n \in Nat
    BY DEF KernelState
  <1>2. f \in [Thread -> Int]
    BY <1>1
  <1>3. rt_tick_increase(s) = IF n # 0 THEN a ELSE rt_schedule(b)
    BY Zenon, <1>1 DEF rt_tick_increase, KernelState
  <1> HIDE DEF f, n
  <1>4. CASE n # 0
    <2>1. g \in [Thread -> Nat \ {0}]
      BY <1>1, <1>4
    <2> HIDE DEF g
    <2>2. a \in KernelState /\ SameButTimes(s, a)
      BY Zenon, <1>1, <1>2, <2>1 DEF KernelState, SameButTimes
    <2> HIDE DEF a
    <2>. QED BY <1>3, <1>4, <2>2
  <1>5. CASE n = 0
    <2>1. h \in [Thread -> Nat \ {0}] /\ y \in [Thread -> BOOLEAN]
      BY <1>1, TickAssumption
    <2> HIDE DEF h, y
    <2>2. b \in KernelState /\ SameButTimes(s, b)
      BY Zenon, <1>1, <1>2, <2>1 DEF KernelState, SameButTimes
    <2> HIDE DEF b
    <2>. QED BY <1>3, <1>5, <2>2
  <1>. QED BY <1>4, <1>5, <1>1

\* rt_tick_increase gives up the processor at most.
LEMMA TickSound ==
  ASSUME NEW s, Sound(s)
  PROVE  LET r == rt_tick_increase(s)
         IN  /\ Sound(r)
             /\ r.prio = s.prio /\ r.lock = s.lock /\ r.error = s.error
             /\ \A u \in Thread : Same(s, r, u)
             /\ \A l \in List : r.list[l] = s.list[l]
             /\ r.cur = s.cur \/ \E u \in Thread : Executes(r, u)
  <1> DEFINE r == rt_tick_increase(s)
  <1>1. s \in KernelState
    BY DEF Sound, SoundBut, WellFormed
  <1>2. PICK c \in KernelState : SameButTimes(s, c) /\ r \in {c, rt_schedule(c)}
    BY <1>1, TickCounts
  <1> HIDE DEF r
  <1>3. Sound(c)
    BY Zenon, <1>2, DataSound DEF Sound, SameButTimes
  <1>4. \A u \in Thread : Same(s, c, u)
    BY Zenon, <1>2 DEF Same, SameButTimes, LinkedIn
  <1>5. CASE r = c
    BY Zenon, <1>2, <1>3, <1>4, <1>5 DEF SameButTimes, r
  <1>6. CASE r = rt_schedule(c)
    <2>1. /\ Sound(r) /\ Rescheduled(c, r)
          /\ r.cur = s.cur \/ \E u \in Thread : Executes(r, u)
      BY Zenon, <1>2, <1>3, <1>6, ScheduleSound DEF SameButTimes
    <2>2. \A u \in Thread : Same(s, r, u)
      BY Zenon, <1>3, <1>4, <1>6, ScheduleSame, SameTransitive
    <2>. QED BY Zenon, <1>2, <2>1, <2>2 DEF Rescheduled, SameButTimes, r
  <1>. QED BY Zenon, <1>2, <1>5, <1>6

-----------------------------------------------------------------------------
\* The kernel data are consistent when the scheduler has been started.
LEMMA BootSound ==
  ASSUME Boot
  PROVE  Sound(k) /\ \A t \in Thread : \A l \in List : ~ LinkedIn(k, t, l)
  <1> DEFINE p == InitPriority[Idle]
  <1>0. /\ p \in Priority /\ Idle \in Thread /\ Main \in Thread /\ Idle # Main
        /\ InitPriority \in [Thread -> Priority] /\ p \notin List
    BY BootAssumption, PriorityAssumption, ListAssumption
  <1>1. /\ k.stat = [t \in Thread |-> CASE t = Main -> "RUNNING"
                                        [] t = Idle -> "READY"
                                        [] OTHER    -> "INIT"]
        /\ k.prio = InitPriority /\ k.group = {p} /\ k.cur = Main /\ k.tmr = <<>>
        /\ k.list = [l \in Priority \cup List |-> IF l = p THEN <<Idle>> ELSE <<>>]
    BY DEF Boot
  <1>2. k \in KernelState
    <2>1. k.stat \in [Thread -> Stat]
      BY <1>1 DEF Stat
    <2>2. k.list \in [Priority \cup List -> Seq(Thread)]
      BY <1>0, <1>1
    <2>. QED BY <1>0, <2>1, <2>2, TickAssumption DEF Boot, KernelState, Error
  <1> HIDE DEF p
  <1>3. \A l \in Priority \cup List : k.list[l] = IF l = p THEN <<Idle>> ELSE <<>>
    BY Zenon, <1>1
  <1>4. \A l \in Priority \cup List : \A t \in Thread :
          LinkedIn(k, t, l) <=> l = p /\ t = Idle
    BY <1>0, <1>3 DEF LinkedIn, Has
  <1>5. WellFormed(k)
    <2>1. \A l \in Priority \cup List : Once(k.list[l])
      BY <1>3 DEF Once
    <2>2. \A m \in Priority : m \in k.group <=> k.list[m] # <<>>
      BY <1>1, <1>3
    <2>3. Once(k.tmr)
      BY <1>1 DEF Once
    <2>. QED BY Zenon, <1>2, <1>4, <2>1, <2>2, <2>3 DEF WellFormed
  <1>6. ASSUME NEW t \in Thread PROVE Fits(k, t)
    <2>1. ~ Has(k.tmr, t)
      BY <1>1 DEF Has
    <2>2. /\ t = Main => k.stat[t] = "RUNNING"
          /\ t = Idle => k.stat[t] = "READY"
          /\ t # Main /\ t # Idle => k.stat[t] = "INIT"
      BY <1>0, <1>1
    <2>. QED BY <1>0, <1>1, <1>4, <2>1, <2>2 DEF Fits, p
  <1>. QED BY <1>0, <1>4, <1>5, <1>6 DEF Sound, SoundBut

\* Consistent kernel data have the properties that Processor states.
LEMMA SoundProperties ==
  ASSUME Sound(k)
  PROVE  LinkedOnce /\ ReadyQueue /\ HighestExists /\ TimerOnlySuspended
  <1>1. WellFormed(k) /\ k \in KernelState /\ \A t \in Thread : Fits(k, t)
    BY DEF Sound, SoundBut, WellFormed
  <1>2. \A l \in Priority \cup List : \A i \in 1 .. Len(k.list[l]) :
          k.list[l][i] \in Thread /\ LinkedIn(k, k.list[l][i], l)
    BY SMTT(30), <1>1 DEF KernelState, LinkedIn, Has
  <1>3. LinkedOnce
    BY <1>1, <1>2 DEF LinkedOnce, WellFormed, Once
  <1>4. ReadyQueue
    BY <1>1, <1>2 DEF ReadyQueue, WellFormed, Fits
  <1>5. HighestExists
    <2>1. Priority \subseteq Nat
      BY PriorityAssumption DEF Priority
    <2>2. k.group \subseteq Nat /\ k.group \subseteq Priority
      BY Zenon, <1>1, <2>1 DEF KernelState
    <2>3. k.group # {} => Least(k.group) \in k.group
      BY Zenon, <2>2, LeastElement
    <2>. QED BY <1>1, <2>2, <2>3 DEF HighestExists, WellFormed
  <1>6. TimerOnlySuspended
    BY Zenon, <1>1 DEF TimerOnlySuspended, Fits
  <1>. QED BY Zenon, <1>3, <1>4, <1>5, <1>6

-----------------------------------------------------------------------------
\* A current thread that is not suspended is RUNNING.
LEMMA CurrentIsRunning ==
  ASSUME NEW s, Sound(s), s.stat[s.cur] \in {"READY", "RUNNING"}
  PROVE  s.stat[s.cur] = "RUNNING"
  <1>1. s.cur \in Thread /\ Fits(s, s.cur) /\ s.prio[s.cur] \in Priority
    BY DEF Sound, SoundBut, WellFormed, KernelState
  <1>. QED BY Zenon, <1>1 DEF Fits

\* rt_schedule gives the processor to some thread: the idle thread is there.
LEMMA ScheduleExecutes ==
  ASSUME NEW s, Sound(s), s.lock = 0, s.stat[Idle] \in {"READY", "RUNNING"}
  PROVE  rt_schedule(s).stat[rt_schedule(s).cur] = "RUNNING"
  <1>1. Fits(s, Idle) /\ Idle \in Thread /\ s.prio[Idle] \in Priority
    BY Zenon, BootAssumption DEF Sound, SoundBut, WellFormed, KernelState
  <1>2. CASE s.group # {}
    BY Zenon, <1>2, ScheduleSound DEF Executes
  <1>3. CASE s.group = {}
    <2>1. rt_schedule(s) = s
      BY Zenon, <1>3 DEF rt_schedule
    <2>2. s.stat[Idle] # "READY"
      <3>1. s.list[s.prio[Idle]] = <<>>
        BY Zenon, <1>1, <1>3 DEF Sound, SoundBut, WellFormed
      <3>. QED BY <1>1, <3>1 DEF Fits, LinkedIn, Has
    <2>. QED BY Zenon, <1>1, <2>1, <2>2 DEF Fits
  <1>. QED BY Zenon, <1>2, <1>3

-----------------------------------------------------------------------------
\* No thread that is ready is more urgent than the current one.
MostUrgent(s) ==
  \A t \in Thread : s.stat[t] = "READY" => s.prio[s.cur] <= s.prio[t]

\* rt_schedule picks a thread of the highest priority that is ready: the bitmap
\* tells where to look, and a thread that is preempted is not more urgent.
LEMMA ScheduleUrgent ==
  ASSUME NEW s, Sound(s), s.lock = 0
  PROVE  MostUrgent(rt_schedule(s))
  <1> DEFINE r == rt_schedule(s)
             m == Least(s.group)
  <1>1. SUFFICES ASSUME NEW u \in Thread, r.stat[u] = "READY"
                 PROVE  r.prio[r.cur] <= r.prio[u]
    BY Zenon DEF MostUrgent
  <1>2. /\ s.prio \in [Thread -> Priority] /\ s.cur \in Thread
        /\ s.stat \in [Thread -> Stat] /\ s.group \subseteq Priority
        /\ s.list \in [Priority \cup List -> Seq(Thread)]
        /\ \A p \in Priority : p \in s.group <=> s.list[p] # <<>>
        /\ \A t \in Thread : Fits(s, t)
    BY Zenon DEF Sound, SoundBut, WellFormed, KernelState
  <1>3. Sound(r) /\ Rescheduled(s, r)
    BY ScheduleSound
  <1>4. Priority \subseteq Nat
    BY PriorityAssumption DEF Priority
  <1>5. ASSUME NEW t \in Thread, s.stat[t] = "READY" PROVE s.prio[t] \in s.group
    <2>1. LinkedIn(s, t, s.prio[t]) /\ s.prio[t] \in Priority
      BY Zenon, <1>2, <1>5 DEF Fits
    <2>2. s.list[s.prio[t]] # <<>>
      BY <2>1 DEF LinkedIn, Has
    <2>. QED BY Zenon, <1>2, <2>1, <2>2
  <1>6. u # r.cur
    <2>1. Fits(r, u) /\ r.prio[u] \in Priority
      BY <1>2, <1>3 DEF Sound, SoundBut, Rescheduled
    <2>. QED BY Zenon, <1>1, <2>1 DEF Fits
  <1>7. s.stat[u] = "READY" \/ (s.stat[u] = "RUNNING" /\ u = s.cur)
    <2>1. s.stat[u] \in {"READY", "RUNNING"}
      BY <1>1, <1>3 DEF Rescheduled
    <2>2. s.stat[u] = "RUNNING" => u = s.cur
      <3>1. Fits(s, u)
        BY Zenon, <1>2
      <3>. QED BY Zenon, <3>1 DEF Fits
    <2>. QED BY Zenon, <2>1, <2>2
  <1>8. r.prio = s.prio
    BY Zenon, <1>3 DEF Rescheduled
  <1> HIDE DEF r
  <1>9. CASE s.group = {}
    <2>1. r = s
      BY Zenon, <1>9 DEF r, rt_schedule
    <2>. QED BY Zenon, <1>5, <1>6, <1>7, <1>9, <2>1
  <1>10. CASE s.group # {}
    <2>1. m \in s.group /\ \A p \in s.group : m <= p
      BY Zenon, <1>2, <1>4, <1>10, LeastElement
    <2> HIDE DEF m
    <2>2. CASE KeepsProcessor(s)
      <3>1. r = SwitchTo(s, s.cur) /\ s.stat[s.cur] = "RUNNING"
        BY Zenon, <1>10, <2>2 DEF r, rt_schedule, KeepsProcessor
      <3>2. r.cur = s.cur
        BY Zenon, <3>1, StaySound DEF Executes
      <3>3. s.prio[s.cur] <= m
        <4>1. s.prio[s.cur] < m \/ s.prio[s.cur] = m
          BY <2>2 DEF KeepsProcessor, m
        <4>2. s.prio[s.cur] \in Nat /\ m \in Nat
          BY Zenon, <1>2, <1>4, <2>1
        <4>. QED BY <4>1, <4>2
      <3>4. m <= s.prio[u]
        BY Zenon, <1>5, <1>6, <1>7, <2>1, <3>2
      <3>5. s.prio[s.cur] \in Nat /\ m \in Nat /\ s.prio[u] \in Nat
        BY Zenon, <1>2, <1>4, <2>1
      <3>. QED BY <1>8, <3>2, <3>3, <3>4, <3>5
    <2>3. CASE ~ KeepsProcessor(s)
      <3> DEFINE to == Head(s.list[m])
      <3>1. r = SwitchTo(s, to)
        BY Zenon, <1>10, <2>3 DEF r, rt_schedule, Highest, m
      <3>2. m \in Priority /\ s.list[m] \in Seq(Thread) /\ s.list[m] # <<>>
        BY <1>2, <2>1
      <3>3. to \in Thread /\ LinkedIn(s, to, m)
        BY Zenon, <3>2, EmptyHasNone DEF LinkedIn
      <3> HIDE DEF to
      <3>4. to # s.cur /\ s.stat[to] = "READY" /\ s.prio[to] = m
        BY Zenon, <1>2, <3>2, <3>3 DEF Fits
      <3>5. r.cur = to
        BY Zenon, <3>1, <3>3, <3>4, SwitchSound DEF Executes
      <3>6. m <= s.prio[u]
        <4>1. CASE s.stat[u] = "READY"
          BY <1>5, <2>1, <4>1
        <4>2. CASE s.stat[u] = "RUNNING" /\ u = s.cur
          <5>1. s.prio[u] \in Nat /\ m \in Nat
            BY Zenon, <1>2, <1>4, <2>1
          <5>2. ~ (s.prio[u] < m)
            BY <2>3, <4>2 DEF KeepsProcessor, m
          <5>. QED BY <5>1, <5>2
        <4>. QED BY <1>7, <4>1, <4>2
      <3>. QED BY Zenon, <1>8, <3>4, <3>5, <3>6
    <2>. QED BY <2>2, <2>3
  <1>. QED BY Zenon, <1>9, <1>10

\* The tick makes no thread ready: it counts, and may call rt_schedule.
LEMMA TickUrgent ==
  ASSUME NEW s, Sound(s), s.lock = 0
  PROVE  \/ MostUrgent(rt_tick_increase(s))
         \/ rt_tick_increase(s).cur = s.cur /\ ~ MostUrgent(s)
  <1>1. s \in KernelState
    BY DEF Sound, SoundBut, WellFormed
  <1>2. PICK c \in KernelState :
          SameButTimes(s, c) /\ rt_tick_increase(s) \in {c, rt_schedule(c)}
    BY Zenon, <1>1, TickCounts
  <1>3. Sound(c) /\ c.lock = 0 /\ c.cur = s.cur /\ (MostUrgent(s) => MostUrgent(c))
    BY <1>2, DataSound DEF Sound, SameButTimes, MostUrgent
  <1>. QED BY Zenon, <1>2, <1>3, ScheduleUrgent

\* rt_thread_timeout ends by calling rt_schedule.
LEMMA TimeoutUrgent ==
  ASSUME NEW s, Sound(s), s.lock = 0, NEW t \in Thread, Has(s.tmr, t)
  PROVE  MostUrgent(rt_thread_timeout(s, t))
  <1> DEFINE c == TimedOut(s, t)
  <1>1. SoundBut(s, {}) /\ t \in Thread \ {}
    BY DEF Sound
  <1>2. SoundBut(c, {}) /\ Alone(s, c, t)
    BY <1>1, TimedOutSound, Zenon
  <1>3. rt_thread_timeout(s, t) = rt_schedule(c)
    BY Zenon DEF rt_thread_timeout, TimedOut
  <1> HIDE DEF c
  <1>4. Sound(c) /\ c.lock = 0
    BY Zenon, <1>2 DEF Sound, Alone
  <1>. QED BY <1>3, <1>4, ScheduleUrgent

-----------------------------------------------------------------------------
\* rt_thread_startup of a thread in the INIT state makes it ready.
LEMMA StartSound ==
  ASSUME NEW s, Sound(s), NEW t \in Thread, s.stat[t] = "INIT"
  PROVE  LET r == rt_thread_startup(s, t)
         IN  /\ Sound(r) /\ r.stat[t] \in {"READY", "RUNNING"}
             /\ \A l \in List : r.list[l] = s.list[l]
             /\ \A u \in Thread \ {t} : Same(s, r, u)
             /\ r.prio = [s.prio EXCEPT ![t] = InitPriority[t]]
             /\ r.error = s.error /\ r.lock = s.lock
             /\ r.cur = s.cur \/ \E u \in Thread : Executes(r, u)
             /\ s.lock = 0 => MostUrgent(r)
  <1> DEFINE p == InitPriority[t]
             a == [s EXCEPT !.stat[t] = "SUSPEND", !.prio[t] = p]
             b == rt_thread_resume(a, t)
             r == rt_schedule(b)
  <1>0. s \in KernelState /\ p \in Priority
    BY PriorityAssumption DEF Sound, SoundBut, WellFormed
  <1>1. /\ a \in KernelState
        /\ a.stat = [s.stat EXCEPT ![t] = "SUSPEND"] /\ s.stat \in [Thread -> Stat]
        /\ a.prio = [s.prio EXCEPT ![t] = p] /\ s.prio \in [Thread -> Priority]
        /\ a.list = s.list /\ a.group = s.group /\ a.cur = s.cur /\ a.tmr = s.tmr
        /\ a.error = s.error /\ a.lock = s.lock
    BY Zenon, <1>0 DEF KernelState, Stat
  <1> HIDE DEF a, p
  <1>2. Loose(s, t) /\ ~ Has(s.tmr, t)
    <2>1. Fits(s, t)
      BY DEF Sound, SoundBut
    <2>. QED BY <2>1 DEF Fits, Loose
  <1>3. Sound(a)
    <2>1. SoundBut(s, {}) /\ {} \ {t} = {}
      BY Zenon DEF Sound
    <2>2. "SUSPEND" \in Stat /\ \A u \in Thread \ {t} : a.prio[u] = s.prio[u]
      BY Zenon, <1>1 DEF Stat
    <2>3. SoundBut(a, {} \ {t})
      BY <1>1, <1>2, <2>1, <2>2, StatusSound
    <2>. QED BY <2>1, <2>3 DEF Sound
  <1>4. a.stat[t] = "SUSPEND"
    BY Zenon, <1>1
  <1>5. /\ Sound(b) /\ b.stat[t] \in {"READY", "RUNNING"}
        /\ Kept(a, b) /\ \A u \in Thread \ {t} : Same(a, b, u)
        /\ \A l \in List : b.list[l] = rt_list_remove(a.list[l], t)
    BY Zenon, <1>3, <1>4, ResumeSound
  <1> HIDE DEF b
  <1>6. \A l \in List : b.list[l] = s.list[l]
    <2>1. ASSUME NEW q, ~ Has(q, t) PROVE rt_list_remove(q, t) = q
      BY <2>1 DEF rt_list_remove, Has
    <2>2. \A l \in List : ~ Has(s.list[l], t)
      BY Zenon, <1>2 DEF Loose, LinkedIn
    <2>. QED BY <1>1, <1>5, <2>1, <2>2
  <1>7. ASSUME NEW u \in Thread \ {t} PROVE Same(s, b, u)
    <2>1. Same(s, a, u)
      BY Zenon, <1>1 DEF Same, LinkedIn
    <2>. QED BY Zenon, <1>5, <2>1, SameTransitive
  <1>8. /\ Sound(r) /\ Rescheduled(b, r)
        /\ r.cur = b.cur \/ \E u \in Thread : Executes(r, u)
    BY Zenon, <1>5, ScheduleSound
  <1>9. \A u \in Thread \ {t} : Same(s, r, u)
    BY Zenon, <1>5, <1>7, ScheduleSame, SameTransitive
  <1>13. s.lock = 0 => MostUrgent(r)
    BY Zenon, <1>1, <1>5, ScheduleUrgent DEF Kept
  <1> HIDE DEF r
  <1>10. r.stat[t] \in {"READY", "RUNNING"}
    BY Zenon, <1>5, <1>8 DEF Rescheduled
  <1>11. /\ r.prio = [s.prio EXCEPT ![t] = p] /\ r.error = s.error /\ r.lock = s.lock
         /\ r.cur = s.cur \/ \E u \in Thread : Executes(r, u)
         /\ \A l \in List : r.list[l] = s.list[l]
    BY ZenonT(60), <1>1, <1>5, <1>6, <1>8 DEF Rescheduled, Kept
  <1>12. r = rt_thread_startup(s, t)
    BY DEF r, b, a, p, rt_thread_startup
  <1>. QED BY Zenon, <1>8, <1>9, <1>10, <1>11, <1>12, <1>13 DEF p

-----------------------------------------------------------------------------
\* What a change of priorities leaves alone.
Reranked(s, r) ==
  /\ Sound(r) /\ r.stat = s.stat /\ r.cur = s.cur /\ r.lock = s.lock
  /\ r.error = s.error /\ r.tmr = s.tmr
  /\ \A l \in List : r.list[l] = s.list[l]

\* RT_THREAD_CTRL_CHANGE_PRIORITY moves a READY thread to the list of its new
\* priority and keeps the kernel data consistent.
LEMMA ChangeSound ==
  ASSUME NEW s, Sound(s), NEW t \in Thread, NEW p \in Priority
  PROVE  /\ Reranked(s, ChangePriority(s, t, p))
         /\ ChangePriority(s, t, p).prio[t] = p
         /\ \A u \in Thread \ {t} : ChangePriority(s, t, p).prio[u] = s.prio[u]
  <1> DEFINE r == ChangePriority(s, t, p)
  <1>0. /\ s \in KernelState /\ WellFormed(s) /\ Fits(s, t) /\ s.prio[t] \in Priority
        /\ SoundBut(s, {})
    BY Zenon DEF Sound, SoundBut, WellFormed, KernelState
  <1>1. CASE s.stat[t] = "READY"
    <2> DEFINE a == rt_schedule_remove_thread(s, t)
               b == [a EXCEPT !.prio[t] = p]
    <2>1. r = rt_schedule_insert_thread(b, t)
      BY SMTT(30), <1>1 DEF ChangePriority
    <2>2. /\ t # s.cur /\ ~ Has(s.tmr, t)
          /\ \A q \in Priority : LinkedIn(s, t, q) => s.prio[t] = q
          /\ \A l \in List : ~ LinkedIn(s, t, l)
      BY Zenon, <1>0, <1>1 DEF Fits
    <2>3. /\ SoundBut(a, {} \cup {t}) /\ Loose(a, t)
          /\ SameRest(s, a) /\ a.stat = s.stat /\ a.list = Unlink(s, t).list
      BY Zenon, <1>0, <2>2, RemoveSound
    <2>4. \A l \in List : a.list[l] = s.list[l]
      <3>1. \A l \in Priority \cup List :
              ~ LinkedIn(s, t, l) => Unlink(s, t).list[l] = s.list[l]
        BY Zenon, <1>0, UnlinkEffect
      <3>. HIDE DEF a
      <3>. QED BY <2>2, <2>3, <3>1
    <2> HIDE DEF a
    <2>5. a \in KernelState /\ WellFormed(a)
      BY Zenon, <2>3 DEF SoundBut, WellFormed
    <2>6. /\ b \in KernelState
          /\ b.prio = [a.prio EXCEPT ![t] = p] /\ a.prio \in [Thread -> Priority]
          /\ b.stat = a.stat /\ b.list = a.list /\ b.group = a.group /\ b.cur = a.cur
          /\ b.tmr = a.tmr /\ b.lock = a.lock /\ b.error = a.error
      BY Zenon, <2>5 DEF KernelState
    <2> HIDE DEF b
    <2>7. SoundBut(b, {t})
      <3>1. WellFormed(b)
        BY Zenon, <2>5, <2>6 DEF WellFormed, LinkedIn
      <3>2. ASSUME NEW u \in Thread \ {t} PROVE Fits(b, u)
        <4>1. Fits(a, u) /\ b.prio[u] = a.prio[u] /\ a.prio[u] \in Priority
          BY Zenon, <2>3, <2>6 DEF SoundBut
        <4>. QED BY Zenon, <2>6, <4>1, FitsKept DEF LinkedIn
      <3>. QED BY Zenon, <3>1, <3>2 DEF SoundBut
    <2>8. Loose(b, t) /\ ~ Has(b.tmr, t) /\ b.prio[t] = p /\ b.cur = s.cur
      BY Zenon, <2>2, <2>3, <2>6 DEF Loose, LinkedIn, SameRest
    <2>9. /\ SoundBut(r, {t} \ {t}) /\ SameRest(b, r)
          /\ r.stat = [b.stat EXCEPT ![t] = IF t = b.cur THEN "RUNNING" ELSE "READY"]
          /\ \A l \in Priority \cup List : l # b.prio[t] => r.list[l] = b.list[l]
      BY SMTT(30), <2>1, <2>7, <2>8, InsertSound
    <2> HIDE DEF r
    <2>10. Sound(r)
      <3>1. {t} \ {t} = {}
        BY Zenon
      <3>. QED BY <2>9, <3>1 DEF Sound
    <2>11. r.stat = s.stat
      <3>1. s.stat \in [Thread -> Stat] /\ r.stat = [s.stat EXCEPT ![t] = "READY"]
        BY ZenonT(60), <1>0, <2>2, <2>3, <2>6, <2>8, <2>9 DEF KernelState
      <3>. QED BY <1>1, <3>1
    <2>12. \A l \in List : r.list[l] = s.list[l]
      BY <2>4, <2>6, <2>8, <2>9, ListAssumption
    <2>13. Reranked(s, r)
      BY Zenon, <2>3, <2>6, <2>9, <2>10, <2>11, <2>12 DEF Reranked, SameRest
    <2>14. r.prio = [s.prio EXCEPT ![t] = p] /\ s.prio \in [Thread -> Priority]
      BY Zenon, <2>3, <2>6, <2>9 DEF SameRest
    <2>. QED BY Zenon, <2>13, <2>14 DEF r
  <1>2. CASE s.stat[t] # "READY"
    <2>1. r = [s EXCEPT !.prio[t] = p]
      BY <1>2 DEF ChangePriority
    <2> HIDE DEF r
    <2>2. /\ r \in KernelState
          /\ r.prio = [s.prio EXCEPT ![t] = p] /\ s.prio \in [Thread -> Priority]
          /\ r.stat = s.stat /\ r.list = s.list /\ r.group = s.group /\ r.cur = s.cur
          /\ r.tmr = s.tmr /\ r.lock = s.lock /\ r.error = s.error
      BY Zenon, <1>0, <2>1 DEF KernelState
    <2>3. WellFormed(r)
      BY Zenon, <1>0, <2>2 DEF WellFormed, LinkedIn
    <2>4. Fits(r, t)
      BY Zenon, <1>0, <1>2, <2>2 DEF Fits, LinkedIn
    <2>5. ASSUME NEW u \in Thread, u # t PROVE Fits(r, u)
      <3>1. Fits(s, u) /\ r.prio[u] = s.prio[u] /\ s.prio[u] \in Priority
        BY Zenon, <1>0, <2>2, <2>5 DEF SoundBut
      <3>. QED BY Zenon, <2>2, <3>1, FitsKept DEF LinkedIn
    <2>. QED BY <2>2, <2>3, <2>4, <2>5 DEF Reranked, Sound, SoundBut, r
  <1>. QED BY SMTT(30), <1>1, <1>2

\* What a change of priorities leaves alone of a thread.
LEMMA RerankedSame ==
  ASSUME NEW s, NEW r, Reranked(s, r), NEW u \in Thread
  PROVE  Same(s, r, u)
  BY Zenon DEF Reranked, Same, LinkedIn

-----------------------------------------------------------------------------
\* The wait for an IPC object.

\* InsertWaiter adds t to the list, and keeps a PRIO list in order.
LEMMA InsertWaiterElements ==
  ASSUME NEW s, NEW l, NEW flag, NEW t \in Thread, s.list[l] \in Seq(Thread), Once(s.list[l]),
         ~ Has(s.list[l], t), s.prio \in [Thread -> Int]
  PROVE  LET q == InsertWaiter(s, l, t, flag)
         IN  /\ q \in Seq(Thread) /\ Once(q)
             /\ \A u \in Thread : Has(q, u) <=> Has(s.list[l], u) \/ u = t
             /\ flag = "PRIO" /\ Ordered(s.list[l], s.prio) => Ordered(q, s.prio)
  <1> DEFINE w == s.list[l]
             f == s.prio
             i == FirstAbove(w, f, f[t])
             q == InsertWaiter(s, l, t, flag)
  <1>1. q = IF flag = "FIFO" \/ i = 0 THEN Append(w, t) ELSE rt_list_insert_before(w, i, t)
    BY DEF InsertWaiter
  <1>2. w \in Seq(Thread) /\ Once(w) /\ ~ Has(w, t) /\ f \in [Thread -> Int]
    BY Zenon
  <1> HIDE DEF w, f
  <1>3. /\ i \in 0 .. Len(w)
        /\ i = 0 => \A j \in 1 .. Len(w) : ~ (f[w[j]] > f[t])
        /\ i # 0 => f[w[i]] > f[t] /\ \A j \in 1 .. Len(w) : j < i => ~ (f[w[j]] > f[t])
    BY Zenon, <1>2, FirstAbovePosition
  <1> HIDE DEF i, q
  <1>4. CASE flag = "FIFO" \/ i = 0
    <2>1. q = Append(w, t)
      BY Zenon, <1>1, <1>4
    <2>2. /\ q \in Seq(Thread) /\ Once(q)
          /\ \A u \in Thread : Has(q, u) <=> Has(w, u) \/ u = t
      BY <1>2, <2>1, AppendElements
    <2>3. ASSUME flag = "PRIO", Ordered(w, f) PROVE Ordered(q, f)
      <3>1. i = 0
        BY Zenon, <1>4, <2>3
      <3>. QED BY Zenon, <1>2, <1>3, <2>1, <2>3, <3>1, AppendOrdered
    <2>. QED BY Zenon, <2>2, <2>3 DEF q, w, f
  <1>5. CASE ~ (flag = "FIFO" \/ i = 0)
    <2>1. q = rt_list_insert_before(w, i, t) /\ i # 0
      BY Zenon, <1>1, <1>5
    <2>2. i \in 1 .. Len(w) /\ f[w[i]] > f[t]
      BY <1>2, <1>3, <2>1
    <2>3. /\ q \in Seq(Thread) /\ Once(q)
          /\ \A u \in Thread : Has(q, u) <=> Has(w, u) \/ u = t
      BY <1>2, <2>1, <2>2, InsertElements
    <2>4. ASSUME Ordered(w, f) PROVE Ordered(q, f)
      BY Zenon, <1>2, <1>3, <2>1, <2>2, <2>4, InsertAtOrdered
    <2>. QED BY Zenon, <2>3, <2>4 DEF q, w, f
  <1>. QED BY Zenon, <1>4, <1>5

\* A call that waits suspends its thread in the list l and nowhere else.
LEMMA WaitSound ==
  ASSUME NEW s, Sound(s), NEW t \in Thread, NEW l \in List, ~ LinkedIn(s, t, l),
         NEW flag, NEW time \in Int
  PROVE  LET r == SuspendOn(s, l, t, flag, time)
         IN  /\ Sound(r) /\ r.stat[t] = "SUSPEND" /\ LinkedIn(r, t, l)
             /\ Kept(s, r) /\ \A u \in Thread \ {t} : Same(s, r, u)
             /\ flag = "PRIO" /\ Ordered(s.list[l], s.prio) => Ordered(r.list[l], s.prio)
  <1> DEFINE v == rt_thread_suspend(s, t)
             q == InsertWaiter(v, l, t, flag)
             a == [v EXCEPT !.list[l] = q]
             r == IF time > 0 THEN rt_timer_start(a, t, time) ELSE a
  <1>1. r = SuspendOn(s, l, t, flag, time)
    BY Zenon DEF SuspendOn, rt_ipc_list_suspend
  <1>2. /\ Sound(v) /\ Loose(v, t) /\ v.stat[t] = "SUSPEND"
        /\ ~ Has(v.tmr, t)
        /\ Kept(s, v) /\ \A u \in Thread \ {t} : Same(s, v, u)
        /\ v.list[l] = s.list[l]
    BY Zenon, SuspendSound
  <1> HIDE DEF v
  <1>3. /\ v.list[l] \in Seq(Thread) /\ Once(v.list[l]) /\ ~ Has(v.list[l], t)
        /\ v.prio \in [Thread -> Int]
    <2>1. Priority \subseteq Int /\ l \in Priority \cup List
      BY PriorityAssumption DEF Priority
    <2>2. WellFormed(v)
      BY Zenon, <1>2 DEF Sound, SoundBut
    <2>. QED BY Zenon, <1>2, <2>1, <2>2 DEF WellFormed, KernelState, Loose, LinkedIn
  <1>4. /\ q \in Seq(Thread) /\ Once(q)
        /\ \A u \in Thread : Has(q, u) <=> Has(v.list[l], u) \/ u = t
        /\ flag = "PRIO" /\ Ordered(v.list[l], v.prio) => Ordered(q, v.prio)
    BY Zenon, <1>3, InsertWaiterElements
  <1> HIDE DEF q
  <1>5. /\ Sound(a) /\ a.stat = v.stat /\ a.tmr = v.tmr /\ Kept(v, a)
        /\ a.list[l] = q
        /\ \A m \in Priority \cup List : \A u \in Thread :
             LinkedIn(a, u, m) <=> LinkedIn(v, u, m) \/ (u = t /\ m = l)
    BY ZenonT(60), <1>2, <1>4, EnlistSound
  <1> HIDE DEF a
  <1>6. a.stat[t] = "SUSPEND" /\ LinkedIn(a, t, l) /\ Kept(s, a)
    BY Zenon, <1>2, <1>5 DEF Kept
  <1>7. ASSUME NEW u \in Thread \ {t} PROVE Same(s, a, u)
    <2>1. Same(v, a, u)
      BY Zenon, <1>5 DEF Same
    <2>. QED BY Zenon, <1>2, <2>1, SameTransitive
  <1>8. flag = "PRIO" /\ Ordered(s.list[l], s.prio) => Ordered(a.list[l], s.prio)
    BY Zenon, <1>2, <1>4, <1>5 DEF Kept
  <1>9. CASE ~ (time > 0)
    BY Zenon, <1>1, <1>5, <1>6, <1>7, <1>8, <1>9
  <1>10. CASE time > 0
    <2> DEFINE b == rt_timer_start(a, t, time)
    <2>1. /\ Sound(b) /\ SameButTimers(a, b)
          /\ \A u \in Thread : Has(b.tmr, u) <=> Has(a.tmr, u) \/ u = t
      BY Zenon, <1>5, <1>6, TimerStartSound DEF Sound
    <2>2. r = b
      BY Zenon, <1>10
    <2> HIDE DEF b
    <2>3. b.stat[t] = "SUSPEND" /\ LinkedIn(b, t, l) /\ Kept(s, b) /\ b.list = a.list
      BY Zenon, <1>6, <2>1 DEF SameButTimers, Kept, LinkedIn
    <2>4. ASSUME NEW u \in Thread \ {t} PROVE Same(s, b, u)
      <3>1. Same(a, b, u)
        BY <2>1 DEF Same, SameButTimers, LinkedIn
      <3>. QED BY Zenon, <1>7, <3>1, SameTransitive
    <2>. QED BY Zenon, <1>1, <1>8, <2>1, <2>2, <2>3, <2>4
  <1>. QED BY Zenon, <1>9, <1>10

=============================================================================
