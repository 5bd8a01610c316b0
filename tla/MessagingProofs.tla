-------------------------- MODULE MessagingProofs --------------------------
(***************************************************************************)
(* Proofs about the mailbox and the memory pool of Messaging, for every    *)
(* number of threads and of blocks and every size of the mailbox.  They    *)
(* are about the objects only: no proof looks into the kernel data.        *)
(***************************************************************************)
EXTENDS Messaging, TLAPS

\* What joining the end of a list does to its elements.
LEMMA AppendOnce ==
  ASSUME NEW S, NEW q \in Seq(S), NEW x \in S
  PROVE  /\ \A y : Has(Append(q, x), y) <=> Has(q, y) \/ y = x
         /\ Once(q) /\ ~ Has(q, x) => Once(Append(q, x))
  <1> DEFINE r == Append(q, x)
  <1>1. /\ Len(q) \in Nat /\ Len(r) = Len(q) + 1
        /\ \A i \in 1 .. Len(q) : r[i] = q[i]
        /\ r[Len(q) + 1] = x
    OBVIOUS
  <1> HIDE DEF r
  <1>2. \A y : Has(r, y) <=> Has(q, y) \/ y = x
    BY <1>1 DEF Has
  <1>3. Once(q) /\ ~ Has(q, x) => Once(r)
    BY <1>1 DEF Has, Once
  <1>. QED BY <1>2, <1>3 DEF r

\* What joining the front of a list does to its elements.
LEMMA ConsOnce ==
  ASSUME NEW S, NEW q \in Seq(S), NEW x \in S
  PROVE  /\ <<x>> \o q \in Seq(S) /\ Len(<<x>> \o q) = Len(q) + 1
         /\ \A y : Has(<<x>> \o q, y) <=> Has(q, y) \/ y = x
         /\ Once(q) /\ ~ Has(q, x) => Once(<<x>> \o q)
  <1> DEFINE r == <<x>> \o q
  <1>1. /\ Len(q) \in Nat /\ r \in Seq(S) /\ Len(r) = Len(q) + 1
        /\ \A i \in 1 .. Len(q) : r[i + 1] = q[i]
        /\ r[1] = x
    OBVIOUS
  <1> HIDE DEF r
  <1>2. \A j \in 1 .. Len(r) : j = 1 \/ (j - 1 \in 1 .. Len(q) /\ r[j] = q[j - 1])
    BY <1>1
  <1>3. /\ 1 \in 1 .. Len(r)
        /\ \A i \in 1 .. Len(q) : i + 1 \in 1 .. Len(r) /\ r[i + 1] = q[i]
    BY <1>1
  <1>4. ASSUME NEW y PROVE Has(r, y) <=> Has(q, y) \/ y = x
    <2>1. ASSUME Has(r, y) PROVE Has(q, y) \/ y = x
      BY <1>1, <1>2, <2>1 DEF Has
    <2>2. ASSUME Has(q, y) \/ y = x PROVE Has(r, y)
      BY <1>1, <1>3, <2>2 DEF Has
    <2>. QED BY <2>1, <2>2
  <1>5. ASSUME Once(q), ~ Has(q, x) PROVE Once(r)
    <2>1. ASSUME NEW i \in 1 .. Len(r), NEW j \in 1 .. Len(r), r[i] = r[j]
          PROVE  i = j
      <3>1. CASE i = 1 /\ j # 1
        BY <1>1, <1>2, <1>5, <2>1, <3>1 DEF Has
      <3>2. CASE j = 1 /\ i # 1
        BY <1>1, <1>2, <1>5, <2>1, <3>2 DEF Has
      <3>3. CASE i # 1 /\ j # 1
        <4>1. i - 1 \in 1 .. Len(q) /\ j - 1 \in 1 .. Len(q) /\ q[i - 1] = q[j - 1]
          BY <1>2, <2>1, <3>3
        <4>2. i - 1 = j - 1
          BY <1>5, <4>1 DEF Once
        <4>. QED BY <1>1, <4>2
      <3>. QED BY <3>1, <3>2, <3>3
    <2>. QED BY <2>1 DEF Once
  <1>. QED BY <1>1, <1>4, <1>5 DEF r

\* What taking the first element does to those of a list.
LEMMA TailOnce ==
  ASSUME NEW S, NEW q \in Seq(S), q # <<>>
  PROVE  /\ Tail(q) \in Seq(S) /\ Len(Tail(q)) = Len(q) - 1 /\ Head(q) \in S
         /\ \A y : Has(q, y) <=> Has(Tail(q), y) \/ y = Head(q)
         /\ Once(q) => Once(Tail(q)) /\ ~ Has(Tail(q), Head(q))
  <1> DEFINE r == Tail(q)
             x == Head(q)
  <1>1. /\ Len(q) \in Nat \ {0} /\ r \in Seq(S) /\ Len(r) = Len(q) - 1 /\ x \in S
        /\ \A i \in 1 .. Len(r) : r[i] = q[i + 1]
        /\ q[1] = x
    OBVIOUS
  <1> HIDE DEF r, x
  <1>2. \A j \in 1 .. Len(q) : j = 1 \/ (j - 1 \in 1 .. Len(r) /\ q[j] = r[j - 1])
    BY <1>1
  <1>3. \A y : Has(q, y) <=> Has(r, y) \/ y = x
    BY <1>1, <1>2 DEF Has
  <1>4. Once(q) => Once(r) /\ ~ Has(r, x)
    BY <1>1, <1>2 DEF Has, Once
  <1>. QED BY <1>1, <1>3, <1>4 DEF r, x

-----------------------------------------------------------------------------
\* The ring of the mailbox: in_offset is entry places after out_offset.
Around(i) == IF i < mb.size THEN i ELSE i - mb.size

RingOK ==
  /\ MbTypeOK /\ mb.size \in Nat \ {0}
  /\ mb.in_offset = Around(mb.out_offset + mb.entry)

\* The remainder of a place that is less than a lap too far.
LEMMA Lap ==
  ASSUME NEW n \in Nat \ {0}, NEW x \in 0 .. n + n - 1
  PROVE  x % n = IF x < n THEN x ELSE x - n
  OBVIOUS

\* The mails are the places of the ring from out_offset on.
MailsOK ==
  /\ Mails \in Seq(Mail \cup {Nothing}) /\ Len(Mails) = mb.entry
  /\ \A i \in 1 .. mb.entry :
       /\ Mails[i] = mb.msg_pool[Around(mb.out_offset + i - 1)]
       /\ Around(mb.out_offset + i - 1) \in 0 .. mb.size - 1

\* The mails are the entry places of the ring from out_offset on.
LEMMA MailsElements == RingOK => MailsOK
  <1> SUFFICES ASSUME RingOK PROVE MailsOK
    OBVIOUS
  <1>1. /\ mb.size \in Nat \ {0} /\ mb.entry \in 0 .. mb.size
        /\ mb.out_offset \in 0 .. mb.size - 1
        /\ mb.msg_pool \in [0 .. mb.size - 1 -> Mail \cup {Nothing}]
    BY DEF RingOK, MbTypeOK
  <1>2. ASSUME NEW i \in 1 .. mb.entry
        PROVE  /\ (mb.out_offset + i - 1) % mb.size = Around(mb.out_offset + i - 1)
               /\ Around(mb.out_offset + i - 1) \in 0 .. mb.size - 1
    <2>1. mb.out_offset + i - 1 \in 0 .. mb.size + mb.size - 1
      BY <1>1
    <2>2. (mb.out_offset + i - 1) % mb.size = Around(mb.out_offset + i - 1)
      BY Zenon, <1>1, <2>1, Lap DEF Around
    <2>. QED BY <1>1, <2>1, <2>2 DEF Around
  <1>3. /\ Mails = [i \in 1 .. mb.entry |-> mb.msg_pool[(mb.out_offset + i - 1) % mb.size]]
        /\ \A i \in 1 .. mb.entry :
             mb.msg_pool[(mb.out_offset + i - 1) % mb.size] \in Mail \cup {Nothing}
        /\ mb.entry \in Nat
    BY <1>1, <1>2 DEF Mails
  <1>4. Mails \in Seq(Mail \cup {Nothing}) /\ Len(Mails) = mb.entry
    BY <1>3
  <1>. QED BY <1>2, <1>3, <1>4 DEF MailsOK

\* Sequences of the same length with the same elements are equal.
LEMMA SameElements ==
  ASSUME NEW S, NEW a \in Seq(S), NEW b \in Seq(S), Len(a) = Len(b),
         \A i \in 1 .. Len(a) : a[i] = b[i]
  PROVE  a = b
  OBVIOUS

\* What of the mailbox the places of its offsets do not change.
Refilled(n) == mb'.size = mb.size /\ mb'.alive = mb.alive /\ mb'.entry = n

\* A mail that is stored at in_offset joins the end of the queue.
LEMMA PutMails ==
  ASSUME RingOK, mb.entry < mb.size, NEW v \in Mail, mb' = Put(v)
  PROVE  RingOK' /\ Mails' = Append(Mails, v) /\ Refilled(mb.entry + 1)
  <1>1. /\ mb.size \in Nat \ {0} /\ mb.entry \in 0 .. mb.size - 1
        /\ mb.out_offset \in 0 .. mb.size - 1 /\ mb.in_offset \in 0 .. mb.size - 1
        /\ mb.msg_pool \in [0 .. mb.size - 1 -> Mail \cup {Nothing}]
        /\ mb.alive \in BOOLEAN
        /\ mb.in_offset = Around(mb.out_offset + mb.entry)
    BY DEF RingOK, MbTypeOK
  <1>2. mb' = [ size |-> mb.size,
                msg_pool |-> [mb.msg_pool EXCEPT ![mb.in_offset] = v],
                entry |-> mb.entry + 1, in_offset |-> NextOffset(mb.in_offset),
                out_offset |-> mb.out_offset, alive |-> mb.alive ]
    BY Zenon DEF RingOK, MbTypeOK, Put
  <1>3. /\ mb'.size = mb.size /\ mb'.alive = mb.alive /\ mb'.entry = mb.entry + 1
        /\ mb'.out_offset = mb.out_offset /\ mb'.in_offset = NextOffset(mb.in_offset)
        /\ mb'.msg_pool = [mb.msg_pool EXCEPT ![mb.in_offset] = v]
    BY <1>2
  <1>4. NextOffset(mb.in_offset) \in 0 .. mb.size - 1
    BY <1>1 DEF NextOffset
  <1>5. NextOffset(mb.in_offset) = Around(mb.out_offset + (mb.entry + 1))
    BY SMTT(30), <1>1 DEF NextOffset, Around
  <1>6. MbTypeOK'
    BY <1>1, <1>2, <1>3, <1>4 DEF MbTypeOK
  <1>7. RingOK'
    BY Zenon, <1>1, <1>3, <1>5, <1>6 DEF RingOK, Around
  <1>8. /\ Mails' \in Seq(Mail \cup {Nothing}) /\ Len(Mails') = mb.entry + 1
        /\ \A i \in 1 .. mb.entry + 1 :
             Mails'[i] = mb'.msg_pool[Around(mb.out_offset + i - 1)]
    <2>1. MailsOK'
      BY <1>7, MailsElements, PTL
    <2>. QED BY <1>3, <2>1 DEF MailsOK, Around
  <1>9. ASSUME NEW i \in 1 .. mb.entry + 1 PROVE Mails'[i] = Append(Mails, v)[i]
    <2>1. /\ Mails \in Seq(Mail \cup {Nothing}) /\ Len(Mails) = mb.entry
          /\ i <= mb.entry => /\ Mails[i] = mb.msg_pool[Around(mb.out_offset + i - 1)]
                              /\ Around(mb.out_offset + i - 1) \in 0 .. mb.size - 1
      BY <1>1, MailsElements DEF MailsOK
    <2>2. CASE i = mb.entry + 1
      <3>1. Around(mb.out_offset + i - 1) = mb.in_offset
        BY <1>1, <2>2 DEF Around
      <3>. QED BY SMTT(30), <1>1, <1>3, <1>8, <2>1, <2>2, <3>1
    <2>3. CASE i <= mb.entry
      <3>1. Around(mb.out_offset + i - 1) # mb.in_offset
        BY SMTT(30), <1>1, <2>3 DEF Around
      <3>2. Mails'[i] = Mails[i]
        BY Zenon, <1>1, <1>3, <1>8, <2>1, <2>3, <3>1
      <3>3. i \in 1 .. Len(Mails)
        BY <1>1, <2>1, <2>3
      <3>4. Append(Mails, v)[i] = Mails[i]
        BY <2>1, <3>3
      <3>. QED BY <3>2, <3>4
    <2>4. i = mb.entry + 1 \/ i <= mb.entry
      BY <1>1
    <2>. QED BY Zenon, <2>2, <2>3, <2>4
  <1>10. Append(Mails, v) \in Seq(Mail \cup {Nothing}) /\ Len(Append(Mails, v)) = mb.entry + 1
    BY MailsElements DEF MailsOK
  <1>. QED BY Zenon, <1>3, <1>7, <1>8, <1>9, <1>10, SameElements DEF Refilled

\* A mail that is stored before out_offset joins the front of the queue.
LEMMA UrgentMails ==
  ASSUME RingOK, mb.entry # mb.size, NEW v \in Mail, mb' = PutUrgent(v)
  PROVE  RingOK' /\ Mails' = <<v>> \o Mails /\ Refilled(mb.entry + 1)
  <1> DEFINE o == IF mb.out_offset > 0 THEN mb.out_offset - 1 ELSE mb.size - 1
  <1>1. /\ mb.size \in Nat \ {0} /\ mb.entry \in 0 .. mb.size - 1
        /\ mb.out_offset \in 0 .. mb.size - 1 /\ mb.in_offset \in 0 .. mb.size - 1
        /\ mb.msg_pool \in [0 .. mb.size - 1 -> Mail \cup {Nothing}]
        /\ mb.alive \in BOOLEAN
        /\ mb.in_offset = Around(mb.out_offset + mb.entry)
    BY DEF RingOK, MbTypeOK
  <1>2. mb' = [ size |-> mb.size, msg_pool |-> [mb.msg_pool EXCEPT ![o] = v],
                entry |-> mb.entry + 1, in_offset |-> mb.in_offset,
                out_offset |-> o, alive |-> mb.alive ]
    BY Zenon DEF RingOK, MbTypeOK, PutUrgent
  <1>3. /\ mb'.size = mb.size /\ mb'.alive = mb.alive /\ mb'.entry = mb.entry + 1
        /\ mb'.out_offset = o /\ mb'.in_offset = mb.in_offset
        /\ mb'.msg_pool = [mb.msg_pool EXCEPT ![o] = v]
    BY <1>2
  <1>4. o \in 0 .. mb.size - 1
    BY <1>1
  <1>5. mb.in_offset = Around(o + (mb.entry + 1))
    <2>1. /\ mb.size \in Nat \ {0} /\ mb.entry \in 0 .. mb.size - 1
          /\ mb.out_offset \in 0 .. mb.size - 1
          /\ mb.in_offset = Around(mb.out_offset + mb.entry)
      BY <1>1
    <2>2. CASE mb.out_offset > 0
      <3>1. o + (mb.entry + 1) = mb.out_offset + mb.entry
        BY <2>1, <2>2
      <3>. QED BY <2>1, <3>1
    <2>3. CASE ~ (mb.out_offset > 0)
      BY <2>1, <2>3 DEF Around
    <2>. QED BY <2>2, <2>3
  <1>51. ASSUME NEW i \in 1 .. mb.entry
         PROVE  /\ Around(o + (i + 1) - 1) = Around(mb.out_offset + i - 1)
                /\ Around(mb.out_offset + i - 1) # o
    <2>1. /\ mb.size \in Nat \ {0} /\ mb.entry \in 0 .. mb.size - 1
          /\ mb.out_offset \in 0 .. mb.size - 1 /\ i \in Nat /\ 1 <= i /\ i <= mb.entry
      BY <1>1
    <2>2. CASE mb.out_offset > 0
      BY <2>1, <2>2 DEF Around
    <2>3. CASE ~ (mb.out_offset > 0)
      BY <2>1, <2>3 DEF Around
    <2>. QED BY <2>2, <2>3
  <1>52. Around(o + 1 - 1) = o
    BY <1>1 DEF Around
  <1> HIDE DEF o
  <1>6. MbTypeOK'
    BY <1>1, <1>2, <1>3, <1>4 DEF MbTypeOK
  <1>7. RingOK'
    BY <1>1, <1>3, <1>5, <1>6 DEF RingOK, Around
  <1>8. /\ Mails' \in Seq(Mail \cup {Nothing}) /\ Len(Mails') = mb.entry + 1
        /\ \A i \in 1 .. mb.entry + 1 : Mails'[i] = mb'.msg_pool[Around(o + i - 1)]
    <2>1. MailsOK'
      BY <1>7, MailsElements, PTL
    <2>. QED BY <1>3, <2>1 DEF MailsOK, Around
  <1>9. MailsOK
    BY MailsElements
  <1>10. /\ <<v>> \o Mails \in Seq(Mail \cup {Nothing})
         /\ Len(<<v>> \o Mails) = mb.entry + 1
         /\ (<<v>> \o Mails)[1] = v
         /\ \A i \in 1 .. mb.entry : (<<v>> \o Mails)[i + 1] = Mails[i]
    BY <1>9 DEF MailsOK
  <1>11. ASSUME NEW j \in 1 .. mb.entry + 1 PROVE Mails'[j] = (<<v>> \o Mails)[j]
    <2>1. CASE j = 1
      BY <1>1, <1>3, <1>4, <1>8, <1>10, <1>52, <2>1
    <2>2. CASE j # 1
      <3>1. PICK i \in 1 .. mb.entry : j = i + 1
        BY <1>1, <2>2
      <3>2. /\ Mails'[i + 1] = mb'.msg_pool[Around(mb.out_offset + i - 1)]
            /\ Around(mb.out_offset + i - 1) # o
            /\ Around(mb.out_offset + i - 1) \in 0 .. mb.size - 1
            /\ Mails[i] = mb.msg_pool[Around(mb.out_offset + i - 1)]
        BY Zenon, <1>8, <1>9, <1>51, <3>1 DEF MailsOK
      <3>3. Mails'[i + 1] = Mails[i]
        BY <1>1, <1>3, <3>2
      <3>. QED BY <1>10, <3>1, <3>3
    <2>. QED BY Zenon, <2>1, <2>2
  <1>12. Mails' = <<v>> \o Mails
    BY Zenon, <1>8, <1>10, <1>11, SameElements
  <1>. QED BY <1>3, <1>7, <1>12 DEF Refilled

\* The mail at out_offset is the first of the queue.
LEMMA GetMails ==
  ASSUME RingOK, mb.entry > 0, mb' = Get
  PROVE  /\ RingOK' /\ Mails' = Tail(Mails) /\ Refilled(mb.entry - 1)
         /\ Mails # <<>> /\ Head(Mails) = mb.msg_pool[mb.out_offset]
  <1>1. /\ mb.size \in Nat \ {0} /\ mb.entry \in 1 .. mb.size
        /\ mb.out_offset \in 0 .. mb.size - 1 /\ mb.in_offset \in 0 .. mb.size - 1
        /\ mb.msg_pool \in [0 .. mb.size - 1 -> Mail \cup {Nothing}]
        /\ mb.alive \in BOOLEAN
        /\ mb.in_offset = Around(mb.out_offset + mb.entry)
    BY DEF RingOK, MbTypeOK
  <1>2. mb' = [ size |-> mb.size,
                msg_pool |-> [mb.msg_pool EXCEPT ![mb.out_offset] = Nothing],
                entry |-> mb.entry - 1, in_offset |-> mb.in_offset,
                out_offset |-> NextOffset(mb.out_offset), alive |-> mb.alive ]
    BY Zenon DEF RingOK, MbTypeOK, Get
  <1>3. /\ mb'.size = mb.size /\ mb'.alive = mb.alive /\ mb'.entry = mb.entry - 1
        /\ mb'.out_offset = NextOffset(mb.out_offset) /\ mb'.in_offset = mb.in_offset
        /\ mb'.msg_pool = [mb.msg_pool EXCEPT ![mb.out_offset] = Nothing]
    BY <1>2
  <1>4. NextOffset(mb.out_offset) \in 0 .. mb.size - 1
    BY <1>1 DEF NextOffset
  <1>5. mb.in_offset = Around(NextOffset(mb.out_offset) + (mb.entry - 1))
    BY SMTT(30), <1>1 DEF NextOffset, Around
  <1>51. ASSUME NEW i \in 1 .. mb.entry - 1
         PROVE  /\ Around(NextOffset(mb.out_offset) + i - 1)
                     = Around(mb.out_offset + (i + 1) - 1)
                /\ Around(mb.out_offset + (i + 1) - 1) # mb.out_offset
    <2>1. /\ mb.size \in Nat \ {0} /\ mb.entry \in 1 .. mb.size
          /\ mb.out_offset \in 0 .. mb.size - 1 /\ i \in Nat /\ 1 <= i /\ i < mb.entry
      BY <1>1
    <2>2. CASE mb.out_offset + 1 >= mb.size
      BY <2>1, <2>2 DEF NextOffset, Around
    <2>3. CASE ~ (mb.out_offset + 1 >= mb.size)
      BY <2>1, <2>3 DEF NextOffset, Around
    <2>. QED BY <2>2, <2>3
  <1>6. MbTypeOK'
    BY <1>1, <1>2, <1>3, <1>4 DEF MbTypeOK
  <1>7. RingOK'
    BY Zenon, <1>1, <1>3, <1>5, <1>6 DEF RingOK, Around
  <1>8. /\ Mails' \in Seq(Mail \cup {Nothing}) /\ Len(Mails') = mb.entry - 1
        /\ \A i \in 1 .. mb.entry - 1 :
             Mails'[i] = mb'.msg_pool[Around(NextOffset(mb.out_offset) + i - 1)]
    <2>1. MailsOK'
      BY <1>7, MailsElements, PTL
    <2>. QED BY <1>3, <2>1 DEF MailsOK, Around
  <1>9. MailsOK
    BY MailsElements
  <1>10. /\ Mails # <<>> /\ Head(Mails) = Mails[1]
         /\ Tail(Mails) \in Seq(Mail \cup {Nothing}) /\ Len(Tail(Mails)) = mb.entry - 1
         /\ \A i \in 1 .. mb.entry - 1 : Tail(Mails)[i] = Mails[i + 1]
    BY <1>1, <1>9 DEF MailsOK
  <1>11. Mails[1] = mb.msg_pool[mb.out_offset]
    BY <1>1, <1>9 DEF MailsOK, Around
  <1>12. ASSUME NEW i \in 1 .. mb.entry - 1 PROVE Mails'[i] = Tail(Mails)[i]
    <2>1. i + 1 \in 1 .. mb.entry
      BY <1>1
    <2>2. /\ Mails'[i] = mb'.msg_pool[Around(mb.out_offset + (i + 1) - 1)]
          /\ Around(mb.out_offset + (i + 1) - 1) # mb.out_offset
          /\ Around(mb.out_offset + (i + 1) - 1) \in 0 .. mb.size - 1
          /\ Mails[i + 1] = mb.msg_pool[Around(mb.out_offset + (i + 1) - 1)]
      BY Zenon, <1>8, <1>9, <1>51, <2>1 DEF MailsOK
    <2>. QED BY Zenon, <1>1, <1>3, <1>10, <2>2
  <1>. QED BY <1>3, <1>7, <1>8, <1>10, <1>11, <1>12, SameElements DEF Refilled

\* The mailbox without its mails.
Emptied(e) ==
  [ size |-> mb.size, msg_pool |-> [i \in 0 .. mb.size - 1 |-> Nothing],
    entry |-> 0, in_offset |-> 0, out_offset |-> 0, alive |-> e ]

\* A mailbox that has been emptied.
LEMMA EmptyMails ==
  ASSUME mb.size \in Nat \ {0}, NEW e \in BOOLEAN, mb' = Emptied(e)
  PROVE  RingOK' /\ Mails' = <<>> /\ mb'.size = mb.size /\ mb'.alive = e /\ mb'.entry = 0
  <1>1. mb' = [ size |-> mb.size, msg_pool |-> [i \in 0 .. mb.size - 1 |-> Nothing],
                entry |-> 0, in_offset |-> 0, out_offset |-> 0, alive |-> e ]
    BY DEF Emptied
  <1>2. /\ mb'.size = mb.size /\ mb'.alive = e /\ mb'.entry = 0
        /\ mb'.in_offset = 0 /\ mb'.out_offset = 0
    BY <1>1
  <1>3. MbTypeOK'
    BY <1>1, <1>2 DEF MbTypeOK
  <1>4. RingOK'
    BY <1>2, <1>3 DEF RingOK, Around
  <1>5. MailsOK'
    BY <1>4, MailsElements, PTL
  <1>. QED BY <1>2, <1>4, <1>5 DEF MailsOK

-----------------------------------------------------------------------------
Location == {"user", "wait", "woken", "again", "schedule", "link", "linkfirst",
             "copyout", "delete", "delete1", "purge", "purge1"}

MqCalls == {"mqsend", "mqrecv", "mqdelete"}
MqPlaces == {"link", "linkfirst", "copyout"}

\* What a thread has in its hand in the course of its calls.
HandOK(t) ==
  /\ \/ hand[t] \in Block \cup {Nothing}
     \/ call[t] = "mqsend" \/ pc[t] \in {"link", "linkfirst"}
  /\ pc[t] \in {"user", "schedule"} \cup MqPlaces => call[t] = Nothing
  /\ call[t] = "mbsend" => hand[t] \in Block
  /\ call[t] \in {"mbrecv", "alloc"} => hand[t] = Nothing
  /\ pc[t] = "again" => call[t] = "alloc"

\* A block is in the hand of one thread, in the mailbox or free.
PlacesOK ==
  /\ mp \in [block_list : Seq(Block), block_free_count : Nat, alive : BOOLEAN]
  /\ mp.block_free_count = Len(mp.block_list)
  /\ Mails \in Seq(Block) /\ Once(Mails) /\ Once(mp.block_list)
  /\ \A t, u \in Thread : hand[t] \in Block /\ hand[t] = hand[u] => t = u
  /\ \A b \in Block : ~ (Has(Mails, b) /\ Has(mp.block_list, b))
  /\ \A t \in Thread : hand[t] \in Block =>
       ~ Has(Mails, hand[t]) /\ ~ Has(mp.block_list, hand[t])

Types ==
  /\ pc \in [Thread -> Location] /\ call \in [Thread -> LongCall \cup {Nothing}]
  /\ hand \in [Thread -> Block \cup Message \cup {Nothing}]

IInv == Types /\ RingOK /\ PlacesOK /\ \A t \in Thread : HandOK(t)

\* A thread puts the block it has into the mailbox.
LEMMA SendPlaces ==
  ASSUME IInv, NEW t \in Thread, hand[t] \in Block,
         Mails' = Append(Mails, hand[t]) \/ Mails' = <<hand[t]>> \o Mails,
         hand' = [hand EXCEPT ![t] = Nothing], mp' = mp
  PROVE  PlacesOK'
  <1>1. /\ Mails \in Seq(Block) /\ Once(Mails) /\ ~ Has(Mails, hand[t])
        /\ ~ Has(mp.block_list, hand[t]) /\ PlacesOK
    BY DEF IInv, PlacesOK
  <1>2. /\ Mails' \in Seq(Block) /\ Once(Mails')
        /\ \A y : Has(Mails', y) <=> Has(Mails, y) \/ y = hand[t]
    <2>1. CASE Mails' = Append(Mails, hand[t])
      BY <1>1, <2>1, AppendOnce
    <2>2. CASE Mails' = <<hand[t]>> \o Mails
      BY ZenonT(60), <1>1, <2>2, ConsOnce
    <2>. QED BY <2>1, <2>2
  <1>3. /\ hand'[t] = Nothing /\ Nothing \notin Block
        /\ \A u \in Thread \ {t} : hand'[u] = hand[u] /\ (hand[u] \in Block => hand[u] # hand[t])
    BY <1>1, MessagingAssumption DEF IInv, Types, PlacesOK
  <1>4. \A b \in Block : ~ (Has(Mails', b) /\ Has(mp'.block_list, b))
    BY Zenon, <1>1, <1>2 DEF PlacesOK
  <1>5. ASSUME NEW u \in Thread, hand'[u] \in Block
        PROVE  ~ Has(Mails', hand'[u]) /\ ~ Has(mp'.block_list, hand'[u])
    BY ZenonT(60), <1>1, <1>2, <1>3, <1>5 DEF PlacesOK
  <1>6. \A u, w \in Thread : hand'[u] \in Block /\ hand'[u] = hand'[w] => u = w
    BY <1>1, <1>3 DEF PlacesOK
  <1>. QED BY Zenon, <1>1, <1>2, <1>4, <1>5, <1>6 DEF PlacesOK

\* A thread takes the first mail.
LEMMA RecvPlaces ==
  ASSUME IInv, NEW t \in Thread, Mails # <<>>, Mails' = Tail(Mails),
         hand' = [hand EXCEPT ![t] = Head(Mails)], mp' = mp
  PROVE  PlacesOK' /\ Head(Mails) \in Block
  <1>1. Mails \in Seq(Block) /\ Once(Mails) /\ PlacesOK
    BY DEF IInv, PlacesOK
  <1>2. /\ Mails' \in Seq(Block) /\ Once(Mails') /\ Head(Mails) \in Block
        /\ \A y : Has(Mails, y) <=> Has(Mails', y) \/ y = Head(Mails)
        /\ ~ Has(Mails', Head(Mails))
    BY Zenon, <1>1, TailOnce
  <1>3. /\ hand'[t] = Head(Mails)
        /\ \A u \in Thread \ {t} : hand'[u] = hand[u] /\ hand[u] # Head(Mails)
    BY <1>1, <1>2 DEF IInv, Types, PlacesOK
  <1>4. \A b \in Block : ~ (Has(Mails', b) /\ Has(mp'.block_list, b))
    BY <1>1, <1>2 DEF PlacesOK
  <1>5. ASSUME NEW u \in Thread, hand'[u] \in Block
        PROVE  ~ Has(Mails', hand'[u]) /\ ~ Has(mp'.block_list, hand'[u])
    BY Zenon, <1>1, <1>2, <1>3, <1>5 DEF PlacesOK
  <1>6. \A u, w \in Thread : hand'[u] \in Block /\ hand'[u] = hand'[w] => u = w
    BY <1>1, <1>3 DEF PlacesOK
  <1>. QED BY Zenon, <1>1, <1>2, <1>4, <1>5, <1>6 DEF PlacesOK

\* A thread takes the first free block.
LEMMA AllocPlaces ==
  ASSUME IInv, NEW t \in Thread, mp.block_free_count # 0, mp' = TakeBlock,
         hand' = [hand EXCEPT ![t] = Head(mp.block_list)], mb' = mb
  PROVE  PlacesOK' /\ Head(mp.block_list) \in Block /\ mp'.alive = mp.alive
  <1> DEFINE q == mp.block_list
             r == mp'.block_list
  <1>1. /\ q \in Seq(Block) /\ Once(q) /\ q # <<>> /\ PlacesOK
        /\ mp.block_free_count = Len(q) /\ mp.block_free_count \in Nat
    BY DEF IInv, PlacesOK
  <1>2. /\ mp' = [block_list |-> Tail(q), block_free_count |-> mp.block_free_count - 1,
                  alive |-> mp.alive]
        /\ mp.alive \in BOOLEAN
    BY Zenon, <1>1 DEF PlacesOK, TakeBlock
  <1>3. /\ r = Tail(q) /\ r \in Seq(Block) /\ Len(r) = Len(q) - 1 /\ Once(r)
        /\ Head(q) \in Block /\ \A y : Has(q, y) <=> Has(r, y) \/ y = Head(q)
        /\ ~ Has(r, Head(q))
    BY <1>1, <1>2, TailOnce
  <1>4. /\ mp' \in [block_list : Seq(Block), block_free_count : Nat, alive : BOOLEAN]
        /\ mp'.block_free_count = Len(r) /\ mp'.alive = mp.alive
    BY <1>1, <1>2, <1>3
  <1>5. Mails' = Mails
    BY Zenon DEF Mails
  <1>6. /\ hand'[t] = Head(q)
        /\ \A u \in Thread \ {t} : hand'[u] = hand[u] /\ hand[u] # Head(q)
    BY <1>1, <1>3 DEF IInv, Types, PlacesOK
  <1> HIDE DEF q, r
  <1>7. \A b \in Block : ~ (Has(Mails', b) /\ Has(r, b))
    BY <1>1, <1>3, <1>5 DEF PlacesOK, q
  <1>8. ASSUME NEW u \in Thread, hand'[u] \in Block
        PROVE  ~ Has(Mails', hand'[u]) /\ ~ Has(r, hand'[u])
    <2>1. CASE u = t
      BY Zenon, <1>1, <1>3, <1>5, <1>6, <2>1 DEF PlacesOK, q
    <2>2. CASE u # t
      BY Zenon, <1>1, <1>3, <1>5, <1>6, <1>8, <2>2 DEF PlacesOK, q
    <2>. QED BY <2>1, <2>2
  <1>9. \A u, w \in Thread : hand'[u] \in Block /\ hand'[u] = hand'[w] => u = w
    BY <1>1, <1>6 DEF PlacesOK
  <1>. QED BY Zenon, <1>1, <1>3, <1>4, <1>5, <1>7, <1>8, <1>9 DEF PlacesOK, q, r

\* The pool with block b added.
WithBlock(b) ==
  [mp EXCEPT !.block_free_count = @ + 1, !.block_list = <<b>> \o @]

\* A thread frees the block it has.
LEMMA FreePlaces ==
  ASSUME IInv, NEW t \in Thread, hand[t] \in Block, mp' = WithBlock(hand[t]),
         hand' = [hand EXCEPT ![t] = Nothing], mb' = mb
  PROVE  PlacesOK' /\ mp'.alive = mp.alive
  <1> DEFINE q == mp.block_list
             r == mp'.block_list
  <1>1. /\ q \in Seq(Block) /\ Once(q) /\ ~ Has(q, hand[t]) /\ PlacesOK
        /\ mp.block_free_count = Len(q) /\ mp.block_free_count \in Nat
    BY DEF IInv, PlacesOK
  <1>2. /\ mp' = [block_list |-> <<hand[t]>> \o q,
                  block_free_count |-> mp.block_free_count + 1, alive |-> mp.alive]
        /\ mp.alive \in BOOLEAN
    BY Zenon, <1>1 DEF PlacesOK, WithBlock
  <1>21. r = <<hand[t]>> \o q
    BY <1>2
  <1> HIDE DEF q
  <1>3. /\ r \in Seq(Block) /\ Len(r) = Len(q) + 1 /\ Once(r)
        /\ \A y : Has(r, y) <=> Has(q, y) \/ y = hand[t]
    BY <1>1, <1>21, ConsOnce
  <1>4. /\ mp' \in [block_list : Seq(Block), block_free_count : Nat, alive : BOOLEAN]
        /\ mp'.block_free_count = Len(r) /\ mp'.alive = mp.alive
    BY <1>1, <1>2, <1>3
  <1>5. Mails' = Mails
    BY ZenonT(60) DEF Mails
  <1>6. /\ hand'[t] = Nothing /\ Nothing \notin Block
        /\ \A u \in Thread \ {t} : hand'[u] = hand[u] /\ (hand[u] \in Block => hand[u] # hand[t])
    BY <1>1, MessagingAssumption DEF IInv, Types, PlacesOK
  <1> HIDE DEF q, r
  <1>7. \A b \in Block : ~ (Has(Mails', b) /\ Has(r, b))
    BY Zenon, <1>1, <1>3, <1>5 DEF PlacesOK, q
  <1>8. ASSUME NEW u \in Thread, hand'[u] \in Block
        PROVE  ~ Has(Mails', hand'[u]) /\ ~ Has(r, hand'[u])
    BY ZenonT(60), <1>1, <1>3, <1>5, <1>6, <1>8 DEF PlacesOK, q
  <1>9. \A u, w \in Thread : hand'[u] \in Block /\ hand'[u] = hand'[w] => u = w
    BY <1>1, <1>6 DEF PlacesOK
  <1>. QED BY ZenonT(60), <1>1, <1>3, <1>4, <1>5, <1>7, <1>8, <1>9 DEF PlacesOK, q, r

\* A thread gets something that is no block, or the blocks in the mailbox or
\* in the pool are lost.
LEMMA DropPlaces ==
  ASSUME IInv,
         \A u \in Thread : hand'[u] \in Block => hand'[u] = hand[u],
         Mails' = Mails \/ Mails' = <<>>,
         mp' = mp \/ mp' = [mp EXCEPT !.alive = FALSE]
           \/ mp' = [block_list |-> <<>>, block_free_count |-> 0, alive |-> FALSE]
  PROVE  PlacesOK'
  <1>1. PlacesOK
    BY DEF IInv
  <1>2. /\ <<>> \in Seq(Block) /\ Len(<<>>) = 0 /\ Once(<<>>) /\ \A y : ~ Has(<<>>, y)
    BY DEF Once, Has
  <1>3. /\ mp' \in [block_list : Seq(Block), block_free_count : Nat, alive : BOOLEAN]
        /\ mp'.block_free_count = Len(mp'.block_list)
        /\ mp'.block_list = mp.block_list \/ mp'.block_list = <<>>
    <2>1. CASE mp' = mp
      BY <1>1, <2>1 DEF PlacesOK
    <2>2. CASE mp' = [mp EXCEPT !.alive = FALSE]
      BY Zenon, <1>1, <2>2 DEF PlacesOK
    <2>3. CASE mp' = [block_list |-> <<>>, block_free_count |-> 0, alive |-> FALSE]
      BY <1>2, <2>3
    <2>. QED BY <2>1, <2>2, <2>3
  <1>4. /\ Mails' \in Seq(Block) /\ Once(Mails') /\ Once(mp'.block_list)
        /\ \A y : Has(Mails', y) => Has(Mails, y)
        /\ \A y : Has(mp'.block_list, y) => Has(mp.block_list, y)
    BY Zenon, <1>1, <1>2, <1>3 DEF PlacesOK
  <1>. QED BY Zenon, <1>1, <1>3, <1>4 DEF PlacesOK

-----------------------------------------------------------------------------
\* Nothing of threads other than t changes.
Only(t) ==
  /\ pc' \in [Thread -> Location] /\ call' \in [Thread -> LongCall \cup {Nothing}]
  /\ hand' \in [Thread -> Block \cup Message \cup {Nothing}]
  /\ \A u \in Thread \ {t} : pc'[u] = pc[u] /\ call'[u] = call[u] /\ hand'[u] = hand[u]

\* The invariant after a step of thread t.
LEMMA StepInv ==
  ASSUME IInv, NEW t \in Thread, Only(t), RingOK', PlacesOK', HandOK(t)'
  PROVE  IInv'
  <1>1. ASSUME NEW u \in Thread PROVE HandOK(u)'
    <2>1. CASE u = t
      BY Zenon, <2>1
    <2>2. CASE u # t
      <3>1. HandOK(u) /\ pc'[u] = pc[u] /\ call'[u] = call[u] /\ hand'[u] = hand[u]
        BY <2>2 DEF IInv, Only
      <3>. QED BY Zenon, <3>1 DEF HandOK
    <2>. QED BY <2>1, <2>2
  <1>. QED BY <1>1 DEF IInv, Types, Only

\* A step that leaves the mailbox alone.
LEMMA SameRing ==
  ASSUME IInv, mb' = mb \/ mb' = [mb EXCEPT !.alive = FALSE]
  PROVE  RingOK' /\ Mails' = Mails /\ mb'.size = mb.size /\ mb'.entry = mb.entry
  <1>1. RingOK
    BY DEF IInv
  <1>2. mb' \in [ size : {mb.size}, msg_pool : [0 .. mb.size - 1 -> Mail \cup {Nothing}],
                  entry : 0 .. mb.size, in_offset : 0 .. mb.size - 1,
                  out_offset : 0 .. mb.size - 1, alive : BOOLEAN ]
    BY Zenon, <1>1 DEF RingOK, MbTypeOK
  <1>3. /\ mb'.size = mb.size /\ mb'.entry = mb.entry /\ mb'.msg_pool = mb.msg_pool
        /\ mb'.in_offset = mb.in_offset /\ mb'.out_offset = mb.out_offset
    BY <1>1 DEF RingOK, MbTypeOK
  <1>4. MbTypeOK'
    BY <1>2, <1>3 DEF MbTypeOK
  <1>5. RingOK'
    BY <1>1, <1>3, <1>4 DEF RingOK, Around
  <1>6. Mails' = Mails
    BY <1>3 DEF Mails
  <1>. QED BY <1>3, <1>5, <1>6

\* The hand of thread t alone changes, to v.
Gets(t, v) == hand' = [hand EXCEPT ![t] = v]

\* A step that ends a call of t, or takes it to its end at location l.
LEMMA FinishedOnly ==
  ASSUME IInv, NEW t \in Thread, NEW l \in Location, Finished(t, l),
         NEW v \in Block \cup Message \cup {Nothing}, Gets(t, v)
  PROVE  Only(t) /\ pc'[t] = l /\ call'[t] = Nothing /\ hand'[t] = v
  BY Zenon DEF IInv, Types, Finished, Goto, Only, Gets

\* A step that suspends t in a call c.
LEMMA SuspendedOnly ==
  ASSUME IInv, NEW t \in Thread, NEW c \in LongCall, NEW time, NEW total,
         Suspended(t, c, time, total),
         NEW v \in Block \cup Message \cup {Nothing}, Gets(t, v)
  PROVE  Only(t) /\ pc'[t] = "wait" /\ call'[t] = c /\ hand'[t] = v
  <1>1. "wait" \in Location
    BY DEF Location
  <1>. QED BY <1>1, Zenon DEF IInv, Types, Suspended, Goto, Only, Gets

\* A step that takes t to another location of its call.
LEMMA GotoOnly ==
  ASSUME IInv, NEW t \in Thread, NEW l \in Location, Goto(t, l),
         NEW c \in LongCall \cup {Nothing}, call' = [call EXCEPT ![t] = c],
         NEW v \in Block \cup Message \cup {Nothing}, Gets(t, v)
  PROVE  Only(t) /\ pc'[t] = l /\ call'[t] = c /\ hand'[t] = v
  BY Zenon DEF IInv, Types, Goto, Only, Gets

\* A hand and a call that do not change.
LEMMA SameHand ==
  ASSUME IInv, NEW t \in Thread
  PROVE  /\ hand' = hand => Gets(t, hand[t])
         /\ call' = call => call' = [call EXCEPT ![t] = call[t]]
         /\ pc' = pc => Goto(t, pc[t])
         /\ hand[t] \in Block \cup Message \cup {Nothing}
         /\ call[t] \in LongCall \cup {Nothing} /\ pc[t] \in Location
  <1>1. Types
    BY DEF IInv
  <1>2. /\ hand = [hand EXCEPT ![t] = hand[t]] /\ call = [call EXCEPT ![t] = call[t]]
        /\ pc = [pc EXCEPT ![t] = pc[t]]
    BY Zenon, <1>1 DEF Types
  <1>. QED BY <1>1, <1>2 DEF Types, Gets, Goto

\* A thread that is in no call has a block or nothing.
LEMMA FreeHand ==
  ASSUME NEW t \in Thread, call[t] = Nothing, pc[t] \in {"user", "schedule"},
         hand[t] \in Block \cup {Nothing}
  PROVE  HandOK(t)
  BY Zenon, MessagingAssumption DEF HandOK, MqPlaces, LongCall

\* What a thread that makes a call has in its hand.
LEMMA UserHand ==
  ASSUME IInv, NEW t \in Thread, pc[t] = "user"
  PROVE  call[t] = Nothing /\ hand[t] \in Block \cup {Nothing}
  BY MessagingAssumption DEF IInv, HandOK, LongCall

-----------------------------------------------------------------------------
\* No block has been allocated, and none can be.
NoBlocks ==
  /\ ~ mp.alive /\ mb.entry = 0
  /\ \A t \in Thread : call[t] # "alloc" /\ hand[t] \notin Block

\* No thread is in a call on the message queue, and none can make one.
NoMq ==
  ~ mq.alive /\ \A t \in Thread : call[t] \notin MqCalls /\ pc[t] \notin MqPlaces

\* A step of the bounded queue that the mailbox is.
LetterStep == [Letters!Next]_<<mb.size, Mails, hand>>

\* What each step establishes.
StepOK ==
  /\ IInv'
  /\ NoBlocks => NoBlocks'
  /\ NoMq => NoMq'
  /\ NoBlocks \/ NoMq => LetterStep

\* What is left to show for a step of thread t.
LEMMA ThreadStepOK ==
  ASSUME IInv, NEW t \in Thread, Only(t), RingOK', PlacesOK', HandOK(t)',
         NoBlocks => /\ ~ mp'.alive /\ mb'.entry = 0
                     /\ call'[t] # "alloc" /\ hand'[t] \notin Block,
         NoMq => ~ mq'.alive /\ call'[t] \notin MqCalls /\ pc'[t] \notin MqPlaces,
         NoBlocks \/ NoMq => LetterStep
  PROVE  StepOK
  <1>1. IInv'
    BY Zenon, StepInv
  <1>2. NoBlocks => NoBlocks'
    BY Zenon DEF NoBlocks, Only
  <1>3. NoMq => NoMq'
    BY DEF NoMq, Only
  <1>. QED BY Zenon, <1>1, <1>2, <1>3 DEF StepOK

\* A step that changes neither the mailbox nor what threads hold.
LEMMA SameLetters ==
  ASSUME mb'.size = mb.size, Mails' = Mails, hand' = hand
  PROVE  LetterStep
  BY DEF LetterStep

\* The three steps of the mailbox as steps of the bounded queue.
LEMMA SendLetter ==
  ASSUME IInv, NEW t \in Thread, hand[t] \in Block, mb.entry < mb.size,
         mb'.size = mb.size, Gets(t, Nothing),
         Mails' = Append(Mails, hand[t]) \/ Mails' = <<hand[t]>> \o Mails
  PROVE  LetterStep
  <1>1. Len(Mails) = mb.entry
    BY MailsElements DEF IInv, MailsOK
  <1>2. hand[t] # Nothing
    BY MessagingAssumption
  <1>3. Letters!Sends(t)
    BY Zenon, <1>1, <1>2 DEF Letters!Sends, Gets
  <1>. QED BY Zenon, <1>3 DEF LetterStep, Letters!Next

\* A thread takes the first mail.
LEMMA ReceiveLetter ==
  ASSUME NEW t \in Thread, hand[t] = Nothing, mb'.size = mb.size, Mails # <<>>,
         Gets(t, Head(Mails)), Mails' = Tail(Mails)
  PROVE  LetterStep
  <1>1. Letters!Receives(t)
    BY Zenon DEF Letters!Receives, Gets
  <1>. QED BY Zenon, <1>1 DEF LetterStep, Letters!Next

\* A thread gets an item or gives it up; the mailbox is not involved.
LEMMA HandleLetter ==
  ASSUME IInv, NEW t \in Thread, NEW v, Gets(t, v), hand[t] = Nothing \/ v = Nothing,
         mb'.size = mb.size, Mails' = Mails
  PROVE  LetterStep
  <1>1. hand'[t] = v
    BY DEF IInv, Types, Gets
  <1>2. Letters!Handles(t)
    BY Zenon, <1>1 DEF Letters!Handles, Gets
  <1>. QED BY Zenon, <1>2 DEF LetterStep, Letters!Next

\* The mailbox is emptied.
LEMMA ClearLetters ==
  ASSUME mb'.size = mb.size, Mails' = <<>>, hand' = hand
  PROVE  LetterStep
  BY Zenon DEF LetterStep, Letters!Next, Letters!Clear

-----------------------------------------------------------------------------
\* A mail of t has been stored and a receiver is woken.
LEMMA SentStep ==
  ASSUME IInv, NEW t \in Thread, hand[t] \in Block, mb.entry < mb.size,
         mb' = Put(hand[t]) \/ mb' = PutUrgent(hand[t]), Gets(t, Nothing),
         NEW l \in {"user", "schedule"}, Finished(t, l), mp' = mp, mq' = mq
  PROVE  StepOK
  <1>1. RingOK /\ mb.entry # mb.size /\ hand[t] \in Mail
    BY MessagingAssumption DEF IInv, RingOK, MbTypeOK
  <1>2. /\ RingOK' /\ Refilled(mb.entry + 1)
        /\ Mails' = Append(Mails, hand[t]) \/ Mails' = <<hand[t]>> \o Mails
    BY Zenon, <1>1, PutMails, UrgentMails
  <1>3. Only(t) /\ pc'[t] = l /\ call'[t] = Nothing /\ hand'[t] = Nothing
    BY FinishedOnly DEF Location
  <1>4. PlacesOK'
    BY Zenon, <1>2, SendPlaces DEF Gets
  <1>5. HandOK(t)'
    BY Zenon, <1>3, MessagingAssumption DEF HandOK, MqPlaces, LongCall
  <1>6. ~ NoBlocks
    BY Zenon DEF NoBlocks
  <1>7. NoMq => ~ mq'.alive /\ call'[t] \notin MqCalls /\ pc'[t] \notin MqPlaces
    BY <1>3, MessagingAssumption DEF NoMq, MqCalls, MqPlaces, LongCall
  <1>8. LetterStep
    BY Zenon, <1>2, SendLetter DEF Refilled
  <1>. QED BY Zenon, <1>2, <1>3, <1>4, <1>5, <1>6, <1>7, <1>8, ThreadStepOK

\* A step of t that changes no object but its own hand and place.
LEMMA QuietThread ==
  ASSUME IInv, NEW t \in Thread, Only(t), HandOK(t)', hand' = hand,
         mb' = mb, mp' = mp, mq' = mq, call'[t] # "alloc" \/ mp.alive \/ call[t] = "alloc",
         call'[t] \notin MqCalls, pc'[t] \notin MqPlaces
  PROVE  StepOK
  <1>1. RingOK' /\ Mails' = Mails /\ mb'.size = mb.size
    BY SameRing
  <1>2. PlacesOK'
    BY Zenon, <1>1, DropPlaces
  <1>3. LetterStep
    BY Zenon, <1>1, SameLetters
  <1>4. NoBlocks => /\ ~ mp'.alive /\ mb'.entry = 0
                    /\ call'[t] # "alloc" /\ hand'[t] \notin Block
    BY Zenon DEF NoBlocks
  <1>5. NoMq => ~ mq'.alive /\ call'[t] \notin MqCalls /\ pc'[t] \notin MqPlaces
    BY Zenon DEF NoMq
  <1>. QED BY <1>1, <1>2, <1>3, <1>4, <1>5, ThreadStepOK

\* The loop of rt_mb_send_wait.
LEMMA MbSendStep ==
  ASSUME IInv, NEW t \in Thread, hand[t] \in Block, NEW time, NEW total,
         MbSend(t, time, total), mp' = mp, mq' = mq
  PROVE  StepOK
  <1>0. /\ hand[t] \in Block \cup Message \cup {Nothing}
        /\ hand' = hand => Gets(t, hand[t])
    BY SameHand
  <1>1. CASE Finished(t, "user") /\ UNCHANGED <<k, mb, hand>>
    <2>1. Only(t) /\ pc'[t] = "user" /\ call'[t] = Nothing /\ hand'[t] = hand[t]
      BY Zenon, <1>0, <1>1, FinishedOnly DEF Location
    <2>2. HandOK(t)'
      BY Zenon, <2>1, MessagingAssumption DEF HandOK, MqPlaces, LongCall
    <2>3. /\ call'[t] # "alloc" /\ call'[t] \notin MqCalls /\ pc'[t] \notin MqPlaces
      BY Zenon, <2>1, MessagingAssumption DEF MqCalls, MqPlaces, LongCall
    <2>. QED BY Zenon, <1>1, <2>1, <2>2, <2>3, QuietThread
  <1>2. CASE Suspended(t, "mbsend", time, total) /\ UNCHANGED <<mb, hand>>
    <2>1. Only(t) /\ pc'[t] = "wait" /\ call'[t] = "mbsend" /\ hand'[t] = hand[t]
      BY Zenon, <1>0, <1>2, SuspendedOnly DEF LongCall
    <2>2. HandOK(t)'
      BY <2>1 DEF HandOK, MqPlaces
    <2>3. /\ call'[t] # "alloc" /\ call'[t] \notin MqCalls /\ pc'[t] \notin MqPlaces
      BY <2>1 DEF MqCalls, MqPlaces
    <2>. QED BY Zenon, <1>2, <2>1, <2>2, <2>3, QuietThread
  <1>3. CASE /\ mb.entry < mb.size /\ mb' = Put(hand[t])
             /\ hand' = [hand EXCEPT ![t] = Nothing] /\ WakeOne(t, Mb)
    <2>1. PICK l \in {"user", "schedule"} : Finished(t, l)
      BY <1>3 DEF WakeOne
    <2>. QED BY Zenon, <1>3, <2>1, SentStep DEF Gets
  <1>. QED BY <1>1, <1>2, <1>3 DEF MbSend

\* The loop of rt_mb_recv.
LEMMA MbRecvStep ==
  ASSUME IInv, NEW t \in Thread, hand[t] = Nothing, NEW time, NEW total, NEW e,
         MbRecv(t, time, total, e), mp' = mp, mq' = mq
  PROVE  StepOK
  <1>0. /\ hand[t] \in Block \cup Message \cup {Nothing}
        /\ hand' = hand => Gets(t, hand[t])
    BY SameHand
  <1>1. CASE Finished(t, "user") /\ UNCHANGED <<mb, hand>>
    <2>1. Only(t) /\ pc'[t] = "user" /\ call'[t] = Nothing /\ hand'[t] = hand[t]
      BY Zenon, <1>0, <1>1, FinishedOnly DEF Location
    <2>2. HandOK(t)'
      BY Zenon, <2>1, MessagingAssumption DEF HandOK, MqPlaces, LongCall
    <2>3. /\ call'[t] # "alloc" /\ call'[t] \notin MqCalls /\ pc'[t] \notin MqPlaces
      BY Zenon, <2>1, MessagingAssumption DEF MqCalls, MqPlaces, LongCall
    <2>. QED BY Zenon, <1>1, <2>1, <2>2, <2>3, QuietThread
  <1>2. CASE Suspended(t, "mbrecv", time, total) /\ UNCHANGED <<mb, hand>>
    <2>1. Only(t) /\ pc'[t] = "wait" /\ call'[t] = "mbrecv" /\ hand'[t] = hand[t]
      BY Zenon, <1>0, <1>2, SuspendedOnly DEF LongCall
    <2>2. HandOK(t)'
      BY Zenon, <2>1 DEF HandOK, MqPlaces
    <2>3. /\ call'[t] # "alloc" /\ call'[t] \notin MqCalls /\ pc'[t] \notin MqPlaces
      BY Zenon, <2>1 DEF MqCalls, MqPlaces
    <2>. QED BY Zenon, <1>2, <2>1, <2>2, <2>3, QuietThread
  <1>3. CASE /\ mb.entry > 0 /\ mb' = Get
             /\ hand' = [hand EXCEPT ![t] = mb.msg_pool[mb.out_offset]]
             /\ WakeOne(t, MbSenders)
    <2>1. PICK l \in {"user", "schedule"} : Finished(t, l)
      BY Zenon, <1>3 DEF WakeOne
    <2>2. /\ RingOK' /\ Mails' = Tail(Mails) /\ Refilled(mb.entry - 1)
          /\ Mails # <<>> /\ Head(Mails) = mb.msg_pool[mb.out_offset]
      BY <1>3, GetMails DEF IInv
    <2>3. Gets(t, Head(Mails))
      BY Zenon, <1>3, <2>2 DEF Gets
    <2>4. PlacesOK' /\ Head(Mails) \in Block
      BY Zenon, <2>2, <2>3, RecvPlaces DEF Gets
    <2>5. Only(t) /\ pc'[t] = l /\ call'[t] = Nothing /\ hand'[t] = Head(Mails)
      BY Zenon, <2>1, <2>3, <2>4, FinishedOnly DEF Location
    <2>6. HandOK(t)'
      BY Zenon, <2>4, <2>5, MessagingAssumption DEF HandOK, MqPlaces, LongCall
    <2>7. ~ NoBlocks
      BY <1>3 DEF NoBlocks
    <2>8. NoMq => ~ mq'.alive /\ call'[t] \notin MqCalls /\ pc'[t] \notin MqPlaces
      BY Zenon, <2>5, MessagingAssumption DEF NoMq, MqCalls, MqPlaces, LongCall
    <2>9. LetterStep
      BY Zenon, <2>2, <2>3, ReceiveLetter DEF Refilled
    <2>. QED BY Zenon, <2>2, <2>4, <2>5, <2>6, <2>7, <2>8, <2>9, ThreadStepOK
  <1>. QED BY Zenon, <1>1, <1>2, <1>3 DEF MbRecv

\* A call of t returns and has changed nothing.
LEMMA EndStep ==
  ASSUME IInv, NEW t \in Thread, Finished(t, "user"), hand' = hand,
         hand[t] \in Block \cup {Nothing}, mb' = mb, mp' = mp, mq' = mq
  PROVE  StepOK
  <1>1. Only(t) /\ pc'[t] = "user" /\ call'[t] = Nothing /\ hand'[t] = hand[t]
    BY Zenon, SameHand, FinishedOnly DEF Location
  <1>2. HandOK(t)'
    BY <1>1, MessagingAssumption DEF HandOK, MqPlaces, LongCall
  <1>3. /\ call'[t] # "alloc" /\ call'[t] \notin MqCalls /\ pc'[t] \notin MqPlaces
    BY <1>1, MessagingAssumption DEF MqCalls, MqPlaces, LongCall
  <1>. QED BY Zenon, <1>1, <1>2, <1>3, QuietThread

\* A call of t goes on at another location.
LEMMA GoStep ==
  ASSUME IInv, NEW t \in Thread, NEW l \in Location, Goto(t, l), call' = call,
         hand' = hand, mb' = mb, mp' = mp, mq' = mq, pc[t] \notin MqPlaces,
         l \notin MqPlaces, l \in {"user", "schedule"} => call[t] = Nothing,
         l = "again" => call[t] = "alloc"
  PROVE  StepOK
  <1>1. Only(t) /\ pc'[t] = l /\ call'[t] = call[t] /\ hand'[t] = hand[t]
    BY Zenon, SameHand, GotoOnly
  <1>2. HandOK(t)
    BY Zenon DEF IInv
  <1>3. HandOK(t)'
    BY <1>1, <1>2 DEF HandOK, MqPlaces
  <1>4. RingOK' /\ Mails' = Mails /\ mb'.size = mb.size
    BY SameRing
  <1>5. PlacesOK'
    BY Zenon, <1>4, DropPlaces
  <1>6. LetterStep
    BY <1>4, SameLetters
  <1>7. NoBlocks => /\ ~ mp'.alive /\ mb'.entry = 0
                    /\ call'[t] # "alloc" /\ hand'[t] \notin Block
    BY Zenon, <1>1 DEF NoBlocks
  <1>8. NoMq => ~ mq'.alive /\ call'[t] \notin MqCalls /\ pc'[t] \notin MqPlaces
    BY Zenon, <1>1 DEF NoMq
  <1>. QED BY Zenon, <1>1, <1>3, <1>4, <1>5, <1>6, <1>7, <1>8, ThreadStepOK

DeletePlaces == {"delete", "delete1", "purge", "purge1"}

\* Thread t is in the deleting call c and goes on or returns.
Deletes(t, c) ==
  /\ pc[t] \in DeletePlaces /\ call[t] = c /\ Only(t) /\ hand' = hand
  /\ \/ pc'[t] \in DeletePlaces /\ call'[t] = c
     \/ pc'[t] = "user" /\ call'[t] = Nothing

\* The steps of a delete change only where its caller is.
LEMMA DeletingStep ==
  ASSUME IInv, NEW t \in Thread, NEW c, NEW l, NEW test \in DeletePlaces,
         NEW next \in DeletePlaces,
         \/ DeleteTest(t, c, l, test, next) \/ DeleteGoesOn(t, c, l, test, next)
         \/ DeleteEnds(t, c, l, test) \/ DeleteOne(t, c, l, test, next)
  PROVE  Deletes(t, c)
  <1>0. /\ hand' = hand => Gets(t, hand[t])
        /\ call' = call => call' = [call EXCEPT ![t] = call[t]]
        /\ hand[t] \in Block \cup Message \cup {Nothing}
        /\ call[t] \in LongCall \cup {Nothing}
        /\ test \in Location /\ next \in Location
    BY SameHand DEF DeletePlaces, Location
  <1>1. CASE DeleteTest(t, c, l, test, next)
    <2>1. /\ pc[t] = test /\ call[t] = c /\ Goto(t, next) /\ hand' = hand /\ call' = call
      BY Zenon, <1>1 DEF DeleteTest, At, loop
    <2>2. Only(t) /\ pc'[t] = next /\ call'[t] = c
      BY <1>0, <2>1, GotoOnly
    <2>. QED BY Zenon, <2>1, <2>2 DEF Deletes
  <1>2. CASE DeleteGoesOn(t, c, l, test, next)
    <2>1. /\ pc[t] = test /\ call[t] = c /\ Goto(t, next) /\ hand' = hand /\ call' = call
      BY Zenon, <1>2 DEF DeleteGoesOn, At, loop
    <2>2. Only(t) /\ pc'[t] = next /\ call'[t] = c
      BY <1>0, <2>1, GotoOnly
    <2>. QED BY Zenon, <2>1, <2>2 DEF Deletes
  <1>3. CASE DeleteEnds(t, c, l, test)
    <2>1. /\ pc[t] = test /\ call[t] = c /\ Finished(t, "user") /\ hand' = hand
      BY <1>3 DEF DeleteEnds, At
    <2>2. Only(t) /\ pc'[t] = "user" /\ call'[t] = Nothing
      BY <1>0, <2>1, FinishedOnly DEF Location
    <2>. QED BY ZenonT(60), <2>1, <2>2 DEF Deletes
  <1>4. CASE DeleteOne(t, c, l, test, next)
    <2>1. /\ pc[t] = next /\ call[t] = c /\ Goto(t, test) /\ hand' = hand /\ call' = call
      BY Zenon, <1>4 DEF DeleteOne, At, loop
    <2>2. Only(t) /\ pc'[t] = test /\ call'[t] = c
      BY Zenon, <1>0, <2>1, GotoOnly
    <2>. QED BY Zenon, <2>1, <2>2 DEF Deletes
  <1>. QED BY <1>1, <1>2, <1>3, <1>4

\* What a deleting call c leaves in the hand of its thread.
LEMMA DeletesHand ==
  ASSUME IInv, NEW t \in Thread, NEW c \in {"mbdelete", "mpdelete", "mqdelete", "evdelete"},
         Deletes(t, c)
  PROVE  /\ HandOK(t)' /\ hand'[t] = hand[t] /\ call'[t] # "alloc" /\ call[t] = c
         /\ pc'[t] \notin MqPlaces
         /\ c # "mqdelete" => call'[t] \notin MqCalls
  <1>1. HandOK(t) /\ hand'[t] = hand[t]
    BY Zenon DEF IInv, Deletes
  <1>2. hand[t] \in Block \cup {Nothing}
    BY Zenon, <1>1 DEF HandOK, Deletes, DeletePlaces
  <1>. QED BY <1>1, <1>2, MessagingAssumption
           DEF HandOK, Deletes, DeletePlaces, MqPlaces, MqCalls, LongCall

\* The mailbox is emptied, by rt_mb_control or at the end of its deletion.
LEMMA EmptiedStep ==
  ASSUME IInv, NEW t \in Thread, Only(t), HandOK(t)', hand' = hand, NEW e \in BOOLEAN,
         mb' = Emptied(e), mp' = mp, mq' = mq,
         call'[t] # "alloc", call'[t] \notin MqCalls, pc'[t] \notin MqPlaces
  PROVE  StepOK
  <1>1. RingOK' /\ Mails' = <<>> /\ mb'.size = mb.size /\ mb'.entry = 0
    BY Zenon, EmptyMails DEF IInv, RingOK
  <1>2. PlacesOK'
    BY Zenon, <1>1, DropPlaces
  <1>3. LetterStep
    BY Zenon, <1>1, ClearLetters
  <1>4. NoBlocks => /\ ~ mp'.alive /\ mb'.entry = 0
                    /\ call'[t] # "alloc" /\ hand'[t] \notin Block
    BY ZenonT(60), <1>1 DEF NoBlocks
  <1>5. NoMq => ~ mq'.alive /\ call'[t] \notin MqCalls /\ pc'[t] \notin MqPlaces
    BY DEF NoMq
  <1>. QED BY Zenon, <1>1, <1>2, <1>3, <1>4, <1>5, ThreadStepOK

\* An object other than the message queue is marked as deleted, or a step of its
\* deletion is taken that changes neither the mails nor the free blocks.
LEMMA MarkStep ==
  ASSUME IInv, NEW t \in Thread, Only(t), HandOK(t)', hand' = hand,
         mb' = mb \/ mb' = [mb EXCEPT !.alive = FALSE],
         \/ mp' = mp \/ mp' = [mp EXCEPT !.alive = FALSE]
         \/ mp' = [block_list |-> <<>>, block_free_count |-> 0, alive |-> FALSE],
         mq' = mq, call'[t] # "alloc", call'[t] \notin MqCalls, pc'[t] \notin MqPlaces
  PROVE  StepOK
  <1>1. RingOK' /\ Mails' = Mails /\ mb'.size = mb.size /\ mb'.entry = mb.entry
    BY SameRing
  <1>2. PlacesOK'
    BY <1>1, DropPlaces
  <1>3. LetterStep
    BY Zenon, <1>1, SameLetters
  <1>4. NoBlocks => /\ ~ mp'.alive /\ mb'.entry = 0
                    /\ call'[t] # "alloc" /\ hand'[t] \notin Block
    <2>1. mp \in [block_list : Seq(Block), block_free_count : Nat, alive : BOOLEAN]
      BY DEF IInv, PlacesOK
    <2>. QED BY <1>1, <2>1 DEF NoBlocks
  <1>5. NoMq => ~ mq'.alive /\ call'[t] \notin MqCalls /\ pc'[t] \notin MqPlaces
    BY Zenon DEF NoMq
  <1>. QED BY <1>1, <1>2, <1>3, <1>4, <1>5, ThreadStepOK

\* A deleting call c begins.
LEMMA BeginsHand ==
  ASSUME IInv, NEW t \in Thread, NEW c \in {"mbdelete", "mpdelete", "mqdelete", "evdelete"},
         pc[t] = "user", DeleteBegins(t, c)
  PROVE  /\ Only(t) /\ HandOK(t)' /\ hand' = hand /\ call'[t] = c
         /\ call'[t] # "alloc" /\ pc'[t] \notin MqPlaces
         /\ c # "mqdelete" => call'[t] \notin MqCalls
  <1>1. /\ Goto(t, "delete") /\ call' = [call EXCEPT ![t] = c] /\ hand' = hand
        /\ hand[t] \in Block \cup {Nothing}
    BY UserHand DEF DeleteBegins
  <1>2. Only(t) /\ pc'[t] = "delete" /\ call'[t] = c /\ hand'[t] = hand[t]
    <2>1. c \in LongCall /\ "delete" \in Location
      BY Zenon DEF LongCall, Location
    <2>. QED BY Zenon, <1>1, <2>1, SameHand, GotoOnly
  <1>. QED BY Zenon, <1>1, <1>2 DEF HandOK, MqPlaces, MqCalls

\* Every step of a thread in a call on the mailbox.
LEMMA MbStepOK ==
  ASSUME IInv, NEW t \in Thread, MbStep(t), mp' = mp, mq' = mq
  PROVE  StepOK
  <1>0. HandOK(t)
    BY DEF IInv
  <1>1. ASSUME NEW time, rt_mb_send_wait(t, time) PROVE StepOK
    <2>1. hand[t] \in Block /\ MbSend(t, time, time)
      BY Zenon, <1>1, UserHand DEF rt_mb_send_wait, Call, At
    <2>. QED BY Zenon, <2>1, MbSendStep
  <1>2. ASSUME NEW time, rt_mb_recv(t, time) PROVE StepOK
    BY Zenon, <1>2, MbRecvStep DEF rt_mb_recv
  <1>3. CASE MbSendAgain(t)
    <2>1. hand[t] \in Block /\ MbSend(t, rest[t], due[t])
      BY Zenon, <1>0, <1>3 DEF MbSendAgain, HandOK
    <2>. QED BY Zenon, <2>1, MbSendStep
  <1>4. CASE MbRecvAgain(t)
    <2>1. hand[t] = Nothing /\ MbRecv(t, rest[t], due[t], "ETIMEOUT")
      BY Zenon, <1>0, <1>4 DEF MbRecvAgain, HandOK
    <2>. QED BY Zenon, <2>1, MbRecvStep
  <1>5. CASE rt_mb_urgent(t)
    <2>1. hand[t] \in Block /\ pc[t] = "user" /\ call[t] = Nothing
      BY Zenon, <1>5, UserHand DEF rt_mb_urgent, Call, At
    <2>2. CASE mb.entry = mb.size
      <3>1. pc' = pc /\ call' = call /\ hand' = hand /\ mb' = mb
        BY Zenon, <1>5, <2>2 DEF rt_mb_urgent, loop
      <3>2. Goto(t, "user") /\ "user" \in Location
        BY Zenon, <2>1, <3>1, SameHand DEF Location
      <3>. QED BY Zenon, <2>1, <3>1, <3>2, GoStep DEF MqPlaces
    <2>3. CASE mb.entry # mb.size
      <3>1. mb' = PutUrgent(hand[t]) /\ Gets(t, Nothing) /\ WakeOne(t, Mb)
        BY Zenon, <1>5, <2>3 DEF rt_mb_urgent, Gets
      <3>2. PICK l \in {"user", "schedule"} : Finished(t, l)
        BY <3>1 DEF WakeOne
      <3>3. mb.entry < mb.size
        BY <2>3 DEF IInv, RingOK, MbTypeOK
      <3>. QED BY Zenon, <2>1, <3>1, <3>2, <3>3, SentStep
    <2>. QED BY Zenon, <2>2, <2>3
  <1>6. CASE MbReset(t)
    <2>1. /\ pc[t] = "user" /\ Goto(t, "schedule") /\ call' = call /\ hand' = hand
          /\ mb' = MbEmpty(mb.size)
      BY Zenon, <1>6 DEF MbReset, Call, At, loop
    <2>2. call[t] = Nothing /\ hand[t] \in Block \cup {Nothing}
      BY Zenon, <2>1, UserHand
    <2>3. Only(t) /\ pc'[t] = "schedule" /\ call'[t] = Nothing /\ hand'[t] = hand[t]
      BY <2>1, <2>2, SameHand, GotoOnly DEF Location
    <2>4. HandOK(t)'
      BY Zenon, <2>2, <2>3, MessagingAssumption DEF HandOK, MqPlaces, LongCall
    <2>5. call'[t] # "alloc" /\ call'[t] \notin MqCalls /\ pc'[t] \notin MqPlaces
      BY Zenon, <2>3, MessagingAssumption DEF MqCalls, MqPlaces, LongCall
    <2>6. mb' = Emptied(TRUE)
      BY Zenon, <2>1 DEF MbEmpty, Emptied
    <2>. QED BY Zenon, <2>1, <2>3, <2>4, <2>5, <2>6, EmptiedStep
  <1>7. ASSUME NEW c \in {"mbsend", "mbrecv"}, LoopFails(t, c), mb' = mb PROVE StepOK
    <2>1. pc[t] = "woken" /\ call[t] = c /\ Finished(t, "user") /\ hand' = hand
      BY Zenon, <1>7 DEF LoopFails, At
    <2>2. hand[t] \in Block \cup {Nothing}
      BY Zenon, <1>0, <2>1 DEF HandOK
    <2>. QED BY Zenon, <1>7, <2>1, <2>2, EndStep
  <1>8. CASE MbDelete(t)
    <2>1. pc[t] = "user" /\ DeleteBegins(t, "mbdelete") /\ mb' = [mb EXCEPT !.alive = FALSE]
      BY <1>8 DEF MbDelete, Call, At
    <2>2. /\ Only(t) /\ HandOK(t)' /\ hand' = hand
          /\ call'[t] # "alloc" /\ pc'[t] \notin MqPlaces /\ call'[t] \notin MqCalls
      BY <2>1, BeginsHand
    <2>. QED BY Zenon, <2>1, <2>2, MarkStep
  <1>9. CASE MbDeleting(t)
    <2>1. Deletes(t, "mbdelete")
      BY <1>9, DeletingStep DEF MbDeleting, DeletePlaces
    <2>2. /\ Only(t) /\ HandOK(t)' /\ hand' = hand
          /\ call'[t] # "alloc" /\ pc'[t] \notin MqPlaces /\ call'[t] \notin MqCalls
      BY Zenon, <2>1, DeletesHand DEF Deletes
    <2>3. mb' = Emptied(FALSE) \/ mb' = mb
      BY Zenon, <1>9 DEF MbDeleting, MbEmpty, Emptied
    <2>. QED BY Zenon, <2>2, <2>3, EmptiedStep, MarkStep
  <1>. QED BY ZenonT(60), <1>1, <1>2, <1>3, <1>4, <1>5, <1>6, <1>7, <1>8, <1>9 DEF MbStep

-----------------------------------------------------------------------------
\* The loop of rt_mp_alloc.
LEMMA AllocStep ==
  ASSUME IInv, NEW t \in Thread, hand[t] = Nothing, NEW time, NEW total,
         Alloc(t, time, total), mp.alive \/ call[t] = "alloc", mb' = mb, mq' = mq
  PROVE  StepOK
  <1>0. /\ hand[t] \in Block \cup Message \cup {Nothing}
        /\ hand' = hand => Gets(t, hand[t])
        /\ ~ NoBlocks
    BY SameHand DEF NoBlocks
  <1>1. CASE Finished(t, "user") /\ UNCHANGED <<mp, hand>>
    BY Zenon, <1>1, EndStep
  <1>2. CASE Suspended(t, "alloc", time, total) /\ UNCHANGED <<mp, hand>>
    <2>1. Only(t) /\ pc'[t] = "wait" /\ call'[t] = "alloc" /\ hand'[t] = hand[t]
      BY <1>0, <1>2, SuspendedOnly DEF LongCall
    <2>2. HandOK(t)'
      BY Zenon, <2>1 DEF HandOK, MqPlaces
    <2>3. call'[t] \notin MqCalls /\ pc'[t] \notin MqPlaces
      BY Zenon, <2>1 DEF MqCalls, MqPlaces
    <2>. QED BY ZenonT(60), <1>2, <2>1, <2>2, <2>3, QuietThread
  <1>3. CASE /\ mp.block_free_count # 0 /\ mp' = TakeBlock
             /\ hand' = [hand EXCEPT ![t] = Head(mp.block_list)]
             /\ Finished(t, "user")
    <2>1. PlacesOK' /\ Head(mp.block_list) \in Block
      BY Zenon, <1>3, AllocPlaces
    <2>2. Gets(t, Head(mp.block_list))
      BY <1>3 DEF Gets
    <2>3. Only(t) /\ pc'[t] = "user" /\ call'[t] = Nothing /\ hand'[t] \in Block
      BY Zenon, <1>3, <2>1, <2>2, FinishedOnly DEF Location
    <2>4. HandOK(t)'
      BY Zenon, <2>3, MessagingAssumption DEF HandOK, MqPlaces, LongCall
    <2>5. NoMq => ~ mq'.alive /\ call'[t] \notin MqCalls /\ pc'[t] \notin MqPlaces
      BY Zenon, <2>3, MessagingAssumption DEF NoMq, MqCalls, MqPlaces, LongCall
    <2>6. RingOK' /\ Mails' = Mails /\ mb'.size = mb.size
      BY Zenon, SameRing
    <2>7. LetterStep
      BY Zenon, <2>2, <2>6, HandleLetter
    <2>. QED BY Zenon, <1>0, <2>1, <2>3, <2>4, <2>5, <2>6, <2>7, ThreadStepOK
  <1>. QED BY Zenon, <1>1, <1>2, <1>3 DEF Alloc

\* rt_mp_free
LEMMA FreeStep ==
  ASSUME IInv, NEW t \in Thread, rt_mp_free(t), mb' = mb, mq' = mq
  PROVE  StepOK
  <1>1. /\ pc[t] = "user" /\ hand[t] # Nothing /\ mp' = WithBlock(hand[t])
        /\ Gets(t, Nothing) /\ call' = call
    BY Zenon DEF rt_mp_free, Call, At, WithBlock, Gets, loop
  <1>2. call[t] = Nothing /\ hand[t] \in Block
    BY Zenon, <1>1, UserHand
  <1>3. PICK l \in {"user", "schedule"} : Goto(t, l)
    <2>1. Goto(t, "schedule") \/ pc' = pc
      BY Zenon DEF rt_mp_free
    <2>. QED BY Zenon, <1>1, <2>1, SameHand
  <1>4. Only(t) /\ pc'[t] = l /\ call'[t] = Nothing /\ hand'[t] = Nothing
    BY <1>1, <1>2, <1>3, SameHand, GotoOnly DEF Location
  <1>5. PlacesOK'
    BY Zenon, <1>1, <1>2, FreePlaces DEF Gets
  <1>6. HandOK(t)'
    BY Zenon, <1>4, MessagingAssumption DEF HandOK, MqPlaces, LongCall
  <1>7. ~ NoBlocks
    BY Zenon, <1>2 DEF NoBlocks
  <1>8. NoMq => ~ mq'.alive /\ call'[t] \notin MqCalls /\ pc'[t] \notin MqPlaces
    BY Zenon, <1>4, MessagingAssumption DEF NoMq, MqCalls, MqPlaces, LongCall
  <1>9. RingOK' /\ Mails' = Mails /\ mb'.size = mb.size
    BY Zenon, SameRing
  <1>10. LetterStep
    BY Zenon, <1>1, <1>9, HandleLetter
  <1>. QED BY Zenon, <1>4, <1>5, <1>6, <1>7, <1>8, <1>9, <1>10, ThreadStepOK

\* Every step of a thread in a call on the memory pool.
LEMMA MpStepOK ==
  ASSUME IInv, NEW t \in Thread, MpStep(t), mb' = mb, mq' = mq
  PROVE  StepOK
  <1>0. HandOK(t)
    BY DEF IInv
  <1>1. ASSUME NEW time, rt_mp_alloc(t, time) PROVE StepOK
    BY Zenon, <1>1, AllocStep DEF rt_mp_alloc
  <1>2. CASE AllocWoken(t)
    <2>1. /\ pc[t] = "woken" /\ call[t] = "alloc" /\ Goto(t, "again")
          /\ call' = call /\ hand' = hand /\ mp' = mp
      BY <1>2 DEF AllocWoken, At, loop
    <2>2. "again" \in Location
      BY Zenon DEF Location
    <2>. QED BY ZenonT(60), <2>1, <2>2, GoStep DEF MqPlaces
  <1>3. CASE AllocAgain(t)
    <2>1. call[t] = "alloc" /\ hand[t] = Nothing /\ Alloc(t, rest[t], due[t])
      BY Zenon, <1>0, <1>3 DEF AllocAgain, At, HandOK
    <2>. QED BY Zenon, <2>1, AllocStep
  <1>4. CASE rt_mp_free(t)
    BY Zenon, <1>4, FreeStep
  <1>5. CASE LoopFails(t, "alloc") /\ mp' = mp
    <2>1. pc[t] = "woken" /\ call[t] = "alloc" /\ Finished(t, "user") /\ hand' = hand
      BY Zenon, <1>5 DEF LoopFails, At
    <2>2. hand[t] \in Block \cup {Nothing}
      BY Zenon, <1>0, <2>1 DEF HandOK
    <2>. QED BY Zenon, <1>5, <2>1, <2>2, EndStep
  <1>6. CASE MpDelete(t)
    <2>1. pc[t] = "user" /\ DeleteBegins(t, "mpdelete") /\ mp' = [mp EXCEPT !.alive = FALSE]
      BY <1>6 DEF MpDelete, Call, At
    <2>2. /\ Only(t) /\ HandOK(t)' /\ hand' = hand
          /\ call'[t] # "alloc" /\ pc'[t] \notin MqPlaces /\ call'[t] \notin MqCalls
      BY Zenon, <2>1, BeginsHand
    <2>. QED BY Zenon, <2>1, <2>2, MarkStep
  <1>7. CASE MpDeleting(t)
    <2>1. Deletes(t, "mpdelete")
      BY <1>7, DeletingStep DEF MpDeleting, DeletePlaces
    <2>2. /\ Only(t) /\ HandOK(t)' /\ hand' = hand
          /\ call'[t] # "alloc" /\ pc'[t] \notin MqPlaces /\ call'[t] \notin MqCalls
      BY Zenon, <2>1, DeletesHand DEF Deletes
    <2>3. \/ mp' = mp
          \/ mp' = [block_list |-> <<>>, block_free_count |-> 0, alive |-> FALSE]
      BY <1>7 DEF MpDeleting
    <2>. QED BY Zenon, <2>2, <2>3, MarkStep
  <1>. QED BY Zenon, <1>1, <1>2, <1>3, <1>4, <1>5, <1>6, <1>7 DEF MpStep

-----------------------------------------------------------------------------
\* A step of a call on the message queue: it does not touch a block, and where
\* there are none the hand of t is empty before or afterwards.
LEMMA MqEffect ==
  ASSUME IInv, NEW t \in Thread, Only(t), HandOK(t)', mb' = mb, mp' = mp, ~ NoMq,
         NEW v, Gets(t, v), v \notin Block \/ v = hand[t],
         NoBlocks => /\ call'[t] # "alloc"
                     /\ hand[t] = Nothing \/ v = Nothing \/ v = hand[t]
  PROVE  StepOK
  <1>1. RingOK' /\ Mails' = Mails /\ mb'.size = mb.size
    BY Zenon, SameRing
  <1>2. /\ hand'[t] = v /\ \A u \in Thread \ {t} : hand'[u] = hand[u]
        /\ v = hand[t] => hand' = hand
    BY DEF IInv, Types, Gets
  <1>3. PlacesOK'
    BY <1>1, <1>2, DropPlaces
  <1>4. NoBlocks => LetterStep
    BY Zenon, <1>1, <1>2, SameLetters, HandleLetter
  <1>5. NoBlocks => /\ ~ mp'.alive /\ mb'.entry = 0
                    /\ call'[t] # "alloc" /\ hand'[t] \notin Block
    BY Zenon, <1>2 DEF NoBlocks
  <1>. QED BY Zenon, <1>1, <1>3, <1>4, <1>5, ThreadStepOK

\* The first part of rt_mq_send_wait.
LEMMA MqSendStep ==
  ASSUME IInv, NEW t \in Thread, NEW v \in Block \cup Message \cup {Nothing},
         NEW time, NEW total, MqSend(t, v, time, total), mb' = mb, mp' = mp, ~ NoMq,
         v \notin Block \/ v = hand[t],
         NoBlocks => hand[t] = Nothing \/ v = hand[t]
  PROVE  StepOK
  <1>1. CASE Finished(t, "user") /\ hand' = [hand EXCEPT ![t] = Nothing]
    <2>1. Gets(t, Nothing) /\ Nothing \notin Block
      BY Zenon, <1>1, MessagingAssumption DEF Gets
    <2>2. Only(t) /\ pc'[t] = "user" /\ call'[t] = Nothing /\ hand'[t] = Nothing
      BY ZenonT(60), <1>1, <2>1, FinishedOnly DEF Location
    <2>3. HandOK(t)' /\ call'[t] # "alloc"
      BY <2>2, MessagingAssumption DEF HandOK, MqPlaces, LongCall
    <2>. QED BY Zenon, <2>1, <2>2, <2>3, MqEffect
  <1>2. CASE Suspended(t, "mqsend", time, total) /\ hand' = [hand EXCEPT ![t] = v]
    <2>1. Gets(t, v)
      BY <1>2 DEF Gets
    <2>2. Only(t) /\ pc'[t] = "wait" /\ call'[t] = "mqsend" /\ hand'[t] = v
      BY Zenon, <1>2, <2>1, SuspendedOnly DEF LongCall
    <2>3. HandOK(t)' /\ call'[t] # "alloc"
      BY <2>2 DEF HandOK, MqPlaces
    <2>. QED BY Zenon, <2>1, <2>2, <2>3, MqEffect
  <1>3. CASE Finished(t, "link") /\ hand' = [hand EXCEPT ![t] = v]
    <2>1. Gets(t, v)
      BY <1>3 DEF Gets
    <2>2. Only(t) /\ pc'[t] = "link" /\ call'[t] = Nothing /\ hand'[t] = v
      BY Zenon, <1>3, <2>1, FinishedOnly DEF Location
    <2>3. HandOK(t)' /\ call'[t] # "alloc"
      BY Zenon, <2>2, MessagingAssumption DEF HandOK, MqPlaces, LongCall
    <2>. QED BY Zenon, <2>1, <2>2, <2>3, MqEffect
  <1>. QED BY <1>1, <1>2, <1>3 DEF MqSend

\* A step of a call on the message queue that leaves the hand of its thread alone.
LEMMA MqQuiet ==
  ASSUME IInv, NEW t \in Thread, Only(t), HandOK(t)', mb' = mb, mp' = mp, ~ NoMq,
         hand' = hand, call'[t] # "alloc"
  PROVE  StepOK
  <1>1. Gets(t, hand[t])
    BY Zenon, SameHand
  <1>. QED BY Zenon, <1>1, MqEffect

\* The first part of rt_mq_recv.
LEMMA MqRecvStep ==
  ASSUME IInv, NEW t \in Thread, NEW time, NEW total, NEW e,
         MqRecv(t, time, total, e), mb' = mb, mp' = mp, ~ NoMq,
         hand[t] \in Block \cup {Nothing}
  PROVE  StepOK
  <1>0. hand' = hand /\ Gets(t, hand[t])
    BY SameHand DEF MqRecv
  <1>1. ASSUME NEW l \in {"user", "copyout"}, Finished(t, l) PROVE StepOK
    <2>1. Only(t) /\ pc'[t] = l /\ call'[t] = Nothing /\ hand'[t] = hand[t]
      BY Zenon, <1>0, <1>1, FinishedOnly DEF Location
    <2>2. HandOK(t)' /\ call'[t] # "alloc"
      BY Zenon, <2>1, MessagingAssumption DEF HandOK, MqPlaces, LongCall
    <2>. QED BY Zenon, <1>0, <2>1, <2>2, MqQuiet
  <1>2. CASE Suspended(t, "mqrecv", time, total)
    <2>1. Only(t) /\ pc'[t] = "wait" /\ call'[t] = "mqrecv" /\ hand'[t] = hand[t]
      BY ZenonT(60), <1>0, <1>2, SuspendedOnly DEF LongCall
    <2>2. HandOK(t)' /\ call'[t] # "alloc"
      BY <2>1 DEF HandOK, MqPlaces
    <2>. QED BY Zenon, <1>0, <2>1, <2>2, MqQuiet
  <1>. QED BY <1>1, <1>2 DEF MqRecv

\* Every step of a thread in a call on the message queue.
LEMMA MqStepOK ==
  ASSUME IInv, NEW t \in Thread, MqStep(t), mb' = mb, mp' = mp
  PROVE  StepOK
  <1>0. /\ HandOK(t) /\ Nothing \notin Block
        /\ \A v \in Message : v \notin Block /\ v \in Block \cup Message \cup {Nothing}
        /\ hand[t] \in Block \cup Message \cup {Nothing}
        /\ mq.alive \/ call[t] \in MqCalls \/ pc[t] \in MqPlaces => ~ NoMq
    BY SameHand, MessagingAssumption DEF IInv, NoMq
  <1>1. ASSUME NEW v \in Message, NEW time, rt_mq_send_wait(t, v, time) PROVE StepOK
    <2>1. pc[t] = "user" /\ mq.alive /\ MqSend(t, v, time, time)
      BY ZenonT(60), <1>1 DEF rt_mq_send_wait, Call, At
    <2>2. NoBlocks => hand[t] = Nothing
      BY <2>1, UserHand DEF NoBlocks
    <2>. QED BY Zenon, <1>0, <2>1, <2>2, MqSendStep
  <1>2. ASSUME NEW v \in Message, rt_mq_urgent(t, v) PROVE StepOK
    <2>1. /\ pc[t] = "user" /\ mq.alive /\ Goto(t, "linkfirst") /\ call' = call /\ Gets(t, v)
      BY Zenon, <1>2 DEF rt_mq_urgent, Call, At, Gets, loop
    <2>2. call[t] = Nothing /\ (NoBlocks => hand[t] = Nothing)
      BY Zenon, <2>1, UserHand DEF NoBlocks
    <2>3. Only(t) /\ pc'[t] = "linkfirst" /\ call'[t] = Nothing /\ hand'[t] = v
      BY <1>0, <2>1, <2>2, SameHand, GotoOnly DEF Location
    <2>4. HandOK(t)' /\ call'[t] # "alloc"
      BY Zenon, <2>3, MessagingAssumption DEF HandOK, MqPlaces, LongCall
    <2>. QED BY Zenon, <1>0, <2>1, <2>2, <2>3, <2>4, MqEffect
  <1>3. ASSUME NEW time, rt_mq_recv(t, time) PROVE StepOK
    <2>1. pc[t] = "user" /\ mq.alive /\ MqRecv(t, time, time, k.error[t])
      BY Zenon, <1>3 DEF rt_mq_recv, Call, At
    <2>. QED BY Zenon, <1>0, <2>1, UserHand, MqRecvStep
  <1>4. CASE MqSendAgain(t)
    <2>1. call[t] = "mqsend" /\ MqSend(t, hand[t], rest[t], due[t])
      BY ZenonT(60), <1>4 DEF MqSendAgain
    <2>2. ~ NoMq
      BY Zenon, <1>0, <2>1 DEF MqCalls
    <2>. QED BY Zenon, <1>0, <2>1, <2>2, MqSendStep
  <1>5. ASSUME NEW l \in {"user", "schedule"}, Finished(t, l), Gets(t, Nothing), ~ NoMq
        PROVE  StepOK
    <2>1. Only(t) /\ pc'[t] = l /\ call'[t] = Nothing /\ hand'[t] = Nothing
      BY Zenon, <1>5, FinishedOnly DEF Location
    <2>2. HandOK(t)' /\ call'[t] # "alloc"
      BY Zenon, <2>1, MessagingAssumption DEF HandOK, MqPlaces, LongCall
    <2>. QED BY Zenon, <1>0, <1>5, <2>1, <2>2, MqEffect
  <1>6. CASE MqSendFails(t)
    <2>1. call[t] = "mqsend" /\ Finished(t, "user") /\ Gets(t, Nothing)
      BY <1>6 DEF MqSendFails, Gets
    <2>2. ~ NoMq
      BY Zenon, <1>0, <2>1 DEF MqCalls
    <2>. QED BY Zenon, <1>5, <2>1, <2>2
  <1>7. CASE MqSendEnd(t)
    <2>1. pc[t] \in {"link", "linkfirst"} /\ Gets(t, Nothing) /\ WakeOne(t, Mq)
      BY Zenon, <1>7 DEF MqSendEnd, At, Gets
    <2>2. ~ NoMq
      BY Zenon, <1>0, <2>1 DEF MqPlaces
    <2>3. Finished(t, "user") \/ Finished(t, "schedule")
      BY Zenon, <2>1 DEF WakeOne
    <2>. QED BY Zenon, <1>5, <2>1, <2>2, <2>3
  <1>8. CASE MqRecvAgain(t)
    <2>1. pc[t] = "woken" /\ call[t] = "mqrecv" /\ MqRecv(t, rest[t], due[t], "ETIMEOUT")
      BY <1>8 DEF MqRecvAgain, At
    <2>2. ~ NoMq /\ hand[t] \in Block \cup {Nothing}
      BY Zenon, <1>0, <2>1 DEF MqCalls, HandOK
    <2>. QED BY Zenon, <2>1, <2>2, MqRecvStep
  <1>9. ASSUME NEW l \in {"user", "schedule"}, Finished(t, l), hand' = hand, ~ NoMq,
               hand[t] \in Block \cup {Nothing}
        PROVE  StepOK
    <2>1. Only(t) /\ pc'[t] = l /\ call'[t] = Nothing /\ hand'[t] = hand[t]
      BY Zenon, <1>9, SameHand, FinishedOnly DEF Location
    <2>2. HandOK(t)' /\ call'[t] # "alloc"
      BY Zenon, <1>9, <2>1, MessagingAssumption DEF HandOK, MqPlaces, LongCall
    <2>. QED BY Zenon, <1>9, <2>1, <2>2, MqQuiet
  <1>10. CASE MqRecvEnd(t)
    <2>1. pc[t] = "copyout" /\ hand' = hand /\ WakeOne(t, MqSenders)
      BY <1>10 DEF MqRecvEnd, At
    <2>2. ~ NoMq /\ hand[t] \in Block \cup {Nothing}
      BY Zenon, <1>0, <2>1, MessagingAssumption DEF MqPlaces, HandOK, LongCall
    <2>3. Finished(t, "user") \/ Finished(t, "schedule")
      BY Zenon, <2>1 DEF WakeOne
    <2>. QED BY ZenonT(60), <1>9, <2>1, <2>2, <2>3
  <1>11. CASE LoopFails(t, "mqrecv")
    <2>1. pc[t] = "woken" /\ call[t] = "mqrecv" /\ Finished(t, "user") /\ hand' = hand
      BY Zenon, <1>11 DEF LoopFails, At
    <2>2. ~ NoMq /\ hand[t] \in Block \cup {Nothing}
      BY <1>0, <2>1 DEF MqCalls, HandOK
    <2>. QED BY Zenon, <1>9, <2>1, <2>2
  <1>12. CASE MqReset(t)
    <2>1. /\ pc[t] = "user" /\ mq.alive /\ Goto(t, "schedule") /\ call' = call /\ hand' = hand
      BY Zenon, <1>12 DEF MqReset, Call, At, loop
    <2>2. call[t] = Nothing /\ hand[t] \in Block \cup {Nothing}
      BY Zenon, <2>1, UserHand
    <2>3. Only(t) /\ pc'[t] = "schedule" /\ call'[t] = Nothing /\ hand'[t] = hand[t]
      BY <2>1, <2>2, SameHand, GotoOnly DEF Location
    <2>4. HandOK(t)' /\ call'[t] # "alloc"
      BY Zenon, <2>2, <2>3, MessagingAssumption DEF HandOK, MqPlaces, LongCall
    <2>. QED BY Zenon, <1>0, <2>1, <2>3, <2>4, MqQuiet
  <1>13. CASE MqDelete(t)
    <2>1. pc[t] = "user" /\ mq.alive /\ DeleteBegins(t, "mqdelete")
      BY Zenon, <1>13 DEF MqDelete, Call, At
    <2>2. Only(t) /\ HandOK(t)' /\ hand' = hand /\ call'[t] # "alloc"
      BY Zenon, <2>1, BeginsHand
    <2>. QED BY Zenon, <1>0, <2>1, <2>2, MqQuiet
  <1>14. CASE MqDeleting(t)
    <2>1. Deletes(t, "mqdelete")
      BY <1>14, DeletingStep DEF MqDeleting, DeletePlaces
    <2>2. /\ Only(t) /\ HandOK(t)' /\ hand' = hand /\ call'[t] # "alloc"
          /\ call[t] = "mqdelete"
      BY Zenon, <2>1, DeletesHand DEF Deletes
    <2>3. ~ NoMq
      BY Zenon, <1>0, <2>2 DEF MqCalls
    <2>. QED BY Zenon, <2>2, <2>3, MqQuiet
  <1>. QED BY ZenonT(60), <1>1, <1>2, <1>3, <1>4, <1>6, <1>7, <1>8, <1>10, <1>11, <1>12, <1>13, <1>14
           DEF MqStep

-----------------------------------------------------------------------------
\* A step that no thread takes, and that touches neither mailbox nor pool.
LEMMA InterruptStep ==
  ASSUME IInv, pc' = pc, call' = call, hand' = hand, mb' = mb, mp' = mp,
         mq' = mq \/ mq.alive
  PROVE  StepOK
  <1>1. RingOK' /\ Mails' = Mails /\ mb'.size = mb.size
    BY SameRing
  <1>2. PlacesOK'
    BY <1>1, DropPlaces
  <1>3. ASSUME NEW t \in Thread PROVE HandOK(t)'
    <2>1. HandOK(t)
      BY Zenon DEF IInv
    <2>. QED BY Zenon, <2>1 DEF HandOK
  <1>4. IInv'
    BY Zenon, <1>1, <1>2, <1>3 DEF IInv, Types
  <1>5. LetterStep
    BY ZenonT(60), <1>1, SameLetters
  <1>6. NoBlocks => NoBlocks'
    BY DEF NoBlocks
  <1>7. NoMq => NoMq'
    BY DEF NoMq
  <1>. QED BY Zenon, <1>4, <1>5, <1>6, <1>7 DEF StepOK

\* Every step of a thread in a call on the event.
LEMMA EvStepOK ==
  ASSUME IInv, NEW t \in Thread, EvStep(t), mb' = mb, mp' = mp, mq' = mq
  PROVE  StepOK
  <1>0. HandOK(t) /\ "schedule" \in Location
    BY Zenon DEF IInv, Location
  <1>1. ASSUME NEW e, rt_event_send(t, e) PROVE StepOK
    <2>1. /\ pc[t] = "user" /\ call' = call /\ hand' = hand
          /\ Goto(t, "schedule") \/ pc' = pc
      BY Zenon, <1>1 DEF rt_event_send, Call, At, Sent, loop
    <2>2. call[t] = Nothing
      BY Zenon, <2>1, UserHand
    <2>3. CASE Goto(t, "schedule")
      BY Zenon, <1>0, <2>1, <2>2, <2>3, GoStep DEF MqPlaces
    <2>4. CASE pc' = pc
      BY Zenon, <2>1, <2>4, InterruptStep
    <2>. QED BY Zenon, <2>1, <2>3, <2>4
  <1>2. ASSUME NEW w, NEW o, NEW time, rt_event_recv(t, w, o, time) PROVE StepOK
    <2>1. /\ pc[t] = "user" /\ hand' = hand
          /\ \/ pc' = pc /\ call' = call
             \/ Suspended(t, "evrecv", 0, 0)
      BY Zenon, <1>2 DEF rt_event_recv, Call, At, loop
    <2>2. CASE pc' = pc /\ call' = call
      BY Zenon, <2>1, <2>2, InterruptStep
    <2>3. CASE Suspended(t, "evrecv", 0, 0)
      <3>1. hand[t] \in Block \cup {Nothing}
        BY Zenon, <2>1, UserHand
      <3>2. Only(t) /\ pc'[t] = "wait" /\ call'[t] = "evrecv" /\ hand'[t] = hand[t]
        BY Zenon, <2>1, <2>3, SameHand, SuspendedOnly DEF LongCall
      <3>3. HandOK(t)'
        BY Zenon, <3>1, <3>2 DEF HandOK, MqPlaces
      <3>4. call'[t] # "alloc" /\ call'[t] \notin MqCalls /\ pc'[t] \notin MqPlaces
        BY Zenon, <3>2 DEF MqCalls, MqPlaces
      <3>. QED BY Zenon, <2>1, <3>2, <3>3, <3>4, QuietThread
    <2>. QED BY <2>1, <2>2, <2>3
  <1>3. CASE EvRecvEnd(t)
    <2>1. pc[t] = "woken" /\ call[t] = "evrecv" /\ Finished(t, "user") /\ hand' = hand
      BY Zenon, <1>3 DEF EvRecvEnd, At
    <2>2. hand[t] \in Block \cup {Nothing}
      BY Zenon, <1>0, <2>1 DEF HandOK
    <2>. QED BY <2>1, <2>2, EndStep
  <1>4. CASE EvReset(t)
    <2>1. pc[t] = "user" /\ Goto(t, "schedule") /\ call' = call /\ hand' = hand
      BY Zenon, <1>4 DEF EvReset, Call, At, loop
    <2>2. call[t] = Nothing
      BY <2>1, UserHand
    <2>. QED BY Zenon, <1>0, <2>1, <2>2, GoStep DEF MqPlaces
  <1>5. CASE EvDelete(t)
    <2>1. pc[t] = "user" /\ DeleteBegins(t, "evdelete")
      BY Zenon, <1>5 DEF EvDelete, Call, At
    <2>2. /\ Only(t) /\ HandOK(t)' /\ hand' = hand
          /\ call'[t] # "alloc" /\ pc'[t] \notin MqPlaces /\ call'[t] \notin MqCalls
      BY Zenon, <2>1, BeginsHand
    <2>. QED BY Zenon, <2>2, MarkStep
  <1>6. CASE EvDeleting(t)
    <2>1. Deletes(t, "evdelete")
      BY <1>6, DeletingStep DEF EvDeleting, DeletePlaces
    <2>2. /\ Only(t) /\ HandOK(t)' /\ hand' = hand
          /\ call'[t] # "alloc" /\ pc'[t] \notin MqPlaces /\ call'[t] \notin MqCalls
      BY Zenon, <2>1, DeletesHand DEF Deletes
    <2>. QED BY <2>2, MarkStep
  <1>. QED BY Zenon, <1>1, <1>2, <1>3, <1>4, <1>5, <1>6 DEF EvStep

\* Every step.
LEMMA NextOK ==
  ASSUME IInv, [Next]_vars
  PROVE  StepOK
  <1>1. ASSUME NEW t \in Thread, Step(t) PROVE StepOK
    <2>1. CASE MbStep(t) /\ UNCHANGED <<mp, mqown, evown, setup>>
      BY <2>1, MbStepOK DEF mqown
    <2>2. CASE MpStep(t) /\ UNCHANGED <<mb, mqown, evown, setup>>
      BY Zenon, <2>2, MpStepOK DEF mqown
    <2>3. CASE MqStep(t) /\ UNCHANGED <<mb, mp, evown, setup>>
      BY Zenon, <2>3, MqStepOK
    <2>4. CASE EvStep(t) /\ UNCHANGED <<mb, mp, mqown, setup>>
      BY Zenon, <2>4, EvStepOK DEF mqown
    <2>5. CASE LoopInside(t) /\ UNCHANGED <<mb, mp, mqown, evown, setup>>
      <3>1. /\ call' = call /\ hand' = hand /\ mb' = mb /\ mp' = mp /\ mq' = mq
            /\ \/ pc[t] = "wait" /\ Goto(t, "woken")
               \/ pc[t] = "schedule" /\ Goto(t, "user")
        BY Zenon, <2>5 DEF LoopInside, WaitSchedule, Schedule, ScheduleStep, At, loop, mqown
      <3>2. HandOK(t) /\ "woken" \in Location /\ "user" \in Location
        BY DEF IInv, Location
      <3>3. CASE pc[t] = "wait" /\ Goto(t, "woken")
        BY Zenon, <3>1, <3>2, <3>3, GoStep DEF MqPlaces
      <3>4. CASE pc[t] = "schedule" /\ Goto(t, "user")
        <4>1. call[t] = Nothing
          BY <3>2, <3>4 DEF HandOK
        <4>. QED BY Zenon, <3>1, <3>2, <3>4, <4>1, GoStep DEF MqPlaces
      <3>. QED BY <3>1, <3>3, <3>4
    <2>. QED BY Zenon, <1>1, <2>1, <2>2, <2>3, <2>4, <2>5 DEF Step
  <1>2. CASE \E u \in setup.threads : Start(Main, u) /\ UNCHANGED obj
    BY Zenon, <1>2, InterruptStep DEF Start, obj, loop, mqown
  <1>3. CASE MqIrqSend /\ UNCHANGED <<mb, mp, evown, setup>>
    BY Zenon, <1>3, InterruptStep DEF MqIrqSend, loop
  <1>4. CASE \E e \in Wanted : EvIrqSend(e) /\ UNCHANGED <<mb, mp, mqown, setup>>
    BY Zenon, <1>4, InterruptStep DEF EvIrqSend, Sent, loop, mqown
  <1>5. CASE LoopTick /\ UNCHANGED <<mb, mp, mqown, evown, setup>>
    BY Zenon, <1>5, InterruptStep DEF LoopTick, WholeTick, mqown
  <1>6. CASE UNCHANGED vars
    BY Zenon, <1>6, InterruptStep DEF vars, obj, loop, mqown
  <1>. QED BY Zenon, <1>1, <1>2, <1>3, <1>4, <1>5, <1>6 DEF Next

\* The initial state.
LEMMA InitOK ==
  ASSUME Init
  PROVE  /\ IInv /\ Mails = <<>>
         /\ "mp" \notin setup.objects => NoBlocks
         /\ "mq" \notin setup.objects => NoMq
  <1>1. /\ pc = [t \in Thread |-> "user"] /\ call = [t \in Thread |-> Nothing]
        /\ hand = [t \in Thread |-> Nothing]
    BY Zenon DEF Init, Boot, LoopInit
  <1>2. /\ setup.size \in Nat \ {0} /\ setup.blocks \in Seq(Block) /\ Once(setup.blocks)
        /\ Nothing \notin Block /\ Nothing \notin LongCall
    BY MessagingAssumption DEF Init, Once
  <1>3. mb = [ size |-> setup.size, msg_pool |-> [i \in 0 .. setup.size - 1 |-> Nothing],
               entry |-> 0, in_offset |-> 0, out_offset |-> 0,
               alive |-> "mb" \in setup.objects ]
    BY Zenon DEF Init, MbInit, MbEmpty
  <1>4. RingOK
    <2>1. /\ mb.size = setup.size /\ mb.entry = 0 /\ mb.in_offset = 0
          /\ mb.out_offset = 0
      BY ZenonT(60), <1>3
    <2>2. MbTypeOK
      BY <1>2, <1>3 DEF MbTypeOK
    <2>. QED BY <1>2, <2>1, <2>2 DEF RingOK, Around
  <1>5. Mails = <<>> /\ mb.entry = 0
    BY <1>3, <1>4, MailsElements DEF MailsOK
  <1>6. mp = [ block_list |-> setup.blocks, block_free_count |-> Len(setup.blocks),
               alive |-> "mp" \in setup.objects ]
    BY Zenon DEF Init, MpInit
  <1>7. PlacesOK
    <2>1. <<>> \in Seq(Block) /\ Once(<<>>) /\ \A y : ~ Has(<<>>, y)
      BY DEF Once, Has
    <2>2. /\ mp \in [block_list : Seq(Block), block_free_count : Nat, alive : BOOLEAN]
          /\ mp.block_list = setup.blocks /\ mp.block_free_count = Len(setup.blocks)
      BY <1>2, <1>6
    <2>3. \A t \in Thread : hand[t] \notin Block
      BY Zenon, <1>1, <1>2
    <2>. QED BY Zenon, <1>2, <1>5, <2>1, <2>2, <2>3 DEF PlacesOK
  <1>8. ASSUME NEW t \in Thread PROVE HandOK(t)
    BY Zenon, <1>1, <1>2, FreeHand
  <1>9. IInv
    BY <1>1, <1>4, <1>7, <1>8 DEF IInv, Types, Location
  <1>10. "mp" \notin setup.objects => NoBlocks
    BY Zenon, <1>1, <1>2, <1>5, <1>6 DEF NoBlocks, LongCall
  <1>11. "mq" \notin setup.objects => NoMq
    <2>1. mq.alive = ("mq" \in setup.objects)
      BY Zenon DEF Init, MqInit, MqEmpty
    <2>. QED BY Zenon, <1>1, <1>2, <2>1 DEF NoMq, MqCalls, MqPlaces, LongCall
  <1>. QED BY Zenon, <1>5, <1>9, <1>10, <1>11

-----------------------------------------------------------------------------
\* OneHolder follows from where the blocks are.
LEMMA HolderOne ==
  ASSUME IInv
  PROVE  OneHolder
  <1>. DEFINE holders(b) == {t \in Thread : hand[t] = b}
              spots(q, b) == {i \in 1 .. Len(q) : q[i] = b}
              places(b) == ({"hand"} \X holders(b)) \cup ({"mail"} \X spots(Mails, b))
                             \cup ({"free"} \X spots(mp.block_list, b))
  <1>1. ASSUME NEW b \in Block, NEW x \in places(b), NEW y \in places(b)
        PROVE  x = y
    <2>1. /\ \A t, u \in holders(b) : t = u
          /\ holders(b) # {} => ~ Has(Mails, b) /\ ~ Has(mp.block_list, b)
          /\ ~ (Has(Mails, b) /\ Has(mp.block_list, b))
      <3>1. /\ \A t, u \in Thread : hand[t] \in Block /\ hand[t] = hand[u] => t = u
            /\ ~ (Has(Mails, b) /\ Has(mp.block_list, b))
            /\ \A t \in Thread : hand[t] \in Block =>
                 ~ Has(Mails, hand[t]) /\ ~ Has(mp.block_list, hand[t])
        BY Zenon DEF IInv, PlacesOK
      <3>. QED BY Zenon, <3>1
    <2>2. ASSUME NEW q, Once(q)
          PROVE  /\ \A i, j \in spots(q, b) : i = j
                 /\ spots(q, b) # {} => Has(q, b)
      BY Zenon, <2>2 DEF Once, Has
    <2>3. Once(Mails) /\ Once(mp.block_list)
      BY Zenon DEF IInv, PlacesOK
    <2>. HIDE DEF holders, spots
    <2>. QED BY <2>1, <2>2, <2>3
  <1>2. mp.block_free_count = Len(mp.block_list)
    BY DEF IInv, PlacesOK
  <1>. QED BY Zenon, <1>1, <1>2 DEF OneHolder

\* The invariant, with what the application does not use.
Inv ==
  /\ IInv /\ setup \in Setups
  /\ "mp" \notin setup.objects => NoBlocks
  /\ "mq" \notin setup.objects => NoMq

\* Inv is inductive.
LEMMA Invariance == Spec => []Inv
  <1>1. Init => Inv
    BY Zenon, InitOK DEF Init, Inv
  <1>2. Inv /\ [Next]_vars => Inv'
    <2>. SUFFICES ASSUME Inv, [Next]_vars PROVE Inv'
      BY Zenon
    <2>1. StepOK
      BY NextOK DEF Inv
    <2>2. setup' = setup
      BY Zenon DEF Next, Step, vars, obj
    <2>. QED BY Zenon, <2>1, <2>2 DEF Inv, StepOK
  <1>. QED BY <1>1, <1>2, PTL DEF Spec

\* In every state a block is in one place at most: in the list of the free
\* blocks, in the mailbox, or in the hand of one thread.  rt_mp_alloc and
\* rt_mb_recv never give it to two threads, whatever the threads call, whoever
\* is woken, overtaken or times out; block_free_count counts the free ones.
THEOREM MessagingOneHolder == Spec => []OneHolder
  <1>1. Inv => OneHolder
    BY HolderOne DEF Inv
  <1>. QED BY <1>1, Invariance, PTL

\* No application has both a pool and a message queue: a hand of the model
\* holds one thing, a block or a message.
Separate == \A s \in Setups : ~ ({"mp", "mq"} \subseteq s.objects)

\* rt_mb_send_wait, rt_mb_urgent, rt_mb_recv, rt_mb_control and rt_mb_delete
\* implement a bounded queue: every mail leaves the hand of its sender for the
\* back of the queue (the front, if it is urgent) and the front of the queue for
\* the hand of one receiver, and only a reset drops the mails.
THEOREM MessagingImplements == ASSUME Separate PROVE Spec => IsMailbox
  <1>1. Init => Letters!Init
    <2>. SUFFICES ASSUME Init PROVE Letters!Init
      OBVIOUS
    <2>1. Mails = <<>>
      BY Zenon, InitOK
    <2>. QED BY Zenon, <2>1 DEF Init, LoopInit, Letters!Init
  <1>2. Inv /\ [Next]_vars => [Letters!Next]_<<mb.size, Mails, hand>>
    <2>. SUFFICES ASSUME Inv, [Next]_vars PROVE LetterStep
      BY Zenon DEF LetterStep
    <2>1. StepOK
      BY Zenon, NextOK DEF Inv
    <2>2. NoBlocks \/ NoMq
      BY Separate DEF Inv, Separate
    <2>. QED BY Zenon, <2>1, <2>2 DEF StepOK
  <1>. QED BY <1>1, <1>2, Invariance, PTL DEF Spec, IsMailbox, Letters!Spec

=============================================================================
