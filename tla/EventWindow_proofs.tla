------------------------ MODULE EventWindow_proofs ------------------------
(***************************************************************************)
(* Theorems about the event windows on a raw file, for every file, buffer  *)
(* size, any number of iterators in both modes, and any programs.          *)
(***************************************************************************)
EXTENDS EventWindow, SequenceTheorems, FiniteSetTheorems, WellFoundedInduction, TLAPS

-----------------------------------------------------------------------------
(* Batches that are put together and taken apart: their events and order.  *)
LEMMA ConcatRange ==
    ASSUME NEW S, NEW s \in Seq(S), NEW t \in Seq(S)
    PROVE  Range(s \o t) = Range(s) \union Range(t)
<1>1. /\ Len(s) \in Nat /\ Len(t) \in Nat /\ DOMAIN s = 1..Len(s) /\ DOMAIN t = 1..Len(t)
      /\ DOMAIN (s \o t) = 1..Len(s) + Len(t)
      /\ \A i \in 1..Len(s) + Len(t) : (s \o t)[i] = IF i <= Len(s) THEN s[i] ELSE t[i - Len(s)]
  BY ConcatProperties, LenProperties
<1> DEFINE u == s \o t
<1> HIDE DEF u
<1>2. \A i \in 1..Len(s) : i \in DOMAIN u /\ u[i] = s[i]
  BY <1>1 DEF u
<1>3. \A i \in 1..Len(t) : i + Len(s) \in DOMAIN u /\ u[i + Len(s)] = t[i]
  BY <1>1 DEF u
<1>4. \A i \in DOMAIN u : (i \in 1..Len(s) /\ u[i] = s[i])
                          \/ (i - Len(s) \in 1..Len(t) /\ u[i] = t[i - Len(s)])
  BY <1>1 DEF u
<1>5. Range(u) = Range(s) \union Range(t)
  BY <1>1, <1>2, <1>3, <1>4 DEF Range
<1>. QED  BY <1>5 DEF u

LEMMA HeadTailRange ==
    ASSUME NEW S, NEW s \in Seq(S), s # <<>>
    PROVE  Range(s) = {Head(s)} \union Range(Tail(s))
<1>1. /\ Len(s) \in Nat \ {0} /\ DOMAIN s = 1..Len(s)
      /\ Len(Tail(s)) = Len(s) - 1 /\ DOMAIN Tail(s) = 1..Len(s) - 1
      /\ \A i \in 1..Len(s) - 1 : Tail(s)[i] = s[i + 1]
      /\ Head(s) = s[1]
  BY HeadTailProperties, LenProperties, EmptySeq
<1> DEFINE t == Tail(s)
<1> HIDE DEF t
<1>2. \A i \in DOMAIN t : i + 1 \in DOMAIN s /\ t[i] = s[i + 1]
  BY <1>1 DEF t
<1>3. \A i \in DOMAIN s : i = 1 \/ (i - 1 \in DOMAIN t /\ s[i] = t[i - 1])
  BY <1>1 DEF t
<1>4. 1 \in DOMAIN s
  BY <1>1
<1>5. Range(s) = {Head(s)} \union Range(t)
  BY <1>1, <1>2, <1>3, <1>4 DEF Range
<1>. QED  BY <1>5 DEF t

LEMMA EventsUnion ==
    ASSUME NEW q
    PROVE  Events(q) = UNION {Range(q[i]) : i \in DOMAIN q}
BY DEF Events, Range

LEMMA EventsSplit ==
    ASSUME NEW q \in Batches
    PROVE  /\ \A r \in Batches : Events(q \o r) = Events(q) \union Events(r)
           /\ q # <<>> => Events(q) = Range(Head(q)) \union Events(Tail(q))
           /\ Events(<<>>) = {}
<1>1. ASSUME NEW r \in Batches
      PROVE  Events(q \o r) = Events(q) \union Events(r)
  <2>1. Range(q \o r) = Range(q) \union Range(r)
    BY ConcatRange DEF Batches
  <2>. QED  BY <2>1 DEF Events
<1>2. q # <<>> => Events(q) = Range(Head(q)) \union Events(Tail(q))
  <2>1. q # <<>> => Range(q) = {Head(q)} \union Range(Tail(q))
    BY HeadTailRange DEF Batches
  <2>. QED  BY <2>1 DEF Events
<1>3. Range(<<>>) = {}
  BY DEF Range
<1>. QED  BY <1>1, <1>2, <1>3 DEF Events

LEMMA AscendingConcat ==
    ASSUME NEW s \in Seq(Event), NEW t \in Seq(Event), Ascending(s), Ascending(t),
           Before(Range(s), Range(t))
    PROVE  Ascending(s \o t)
<1>1. /\ Len(s) \in Nat /\ Len(t) \in Nat /\ DOMAIN s = 1..Len(s) /\ DOMAIN t = 1..Len(t)
      /\ DOMAIN (s \o t) = 1..Len(s) + Len(t)
      /\ \A i \in 1..Len(s) + Len(t) : (s \o t)[i] = IF i <= Len(s) THEN s[i] ELSE t[i - Len(s)]
  BY ConcatProperties, LenProperties
<1> DEFINE u == s \o t
<1>2. /\ DOMAIN u = 1..Len(s) + Len(t)
      /\ \A i \in 1..Len(s) + Len(t) : u[i] = IF i <= Len(s) THEN s[i] ELSE t[i - Len(s)]
  BY <1>1
<1> HIDE DEF u
<1>3. ASSUME NEW i \in DOMAIN u, NEW j \in DOMAIN u, i < j
      PROVE  u[i].n < u[j].n
  <2>1. CASE j <= Len(s)
    <3>1. i \in DOMAIN s /\ j \in DOMAIN s /\ u[i] = s[i] /\ u[j] = s[j]
      BY <1>1, <1>2, <1>3, <2>1
    <3>. QED  BY <1>3, <3>1 DEF Ascending
  <2>2. CASE i <= Len(s) /\ j > Len(s)
    <3>1. /\ i \in DOMAIN s /\ j - Len(s) \in DOMAIN t
          /\ u[i] = s[i] /\ u[j] = t[j - Len(s)]
      BY <1>1, <1>2, <1>3, <2>2
    <3>2. s[i] \in Range(s) /\ t[j - Len(s)] \in Range(t)
      BY <3>1 DEF Range
    <3>. QED  BY <3>1, <3>2 DEF Before
  <2>3. CASE i > Len(s)
    <3>1. /\ i - Len(s) \in DOMAIN t /\ j - Len(s) \in DOMAIN t /\ i - Len(s) < j - Len(s)
          /\ u[i] = t[i - Len(s)] /\ u[j] = t[j - Len(s)]
      BY <1>1, <1>2, <1>3, <2>3
    <3>. QED  BY <3>1 DEF Ascending
  <2>. QED  BY <1>1, <1>2, <1>3, <2>1, <2>2, <2>3
<1>. QED  BY <1>3 DEF Ascending, u

LEMMA InOrderConcat ==
    ASSUME NEW q \in Batches, NEW r \in Batches, InOrder(q), InOrder(r),
           Before(Events(q), Events(r))
    PROVE  InOrder(q \o r)
<1>1. /\ Len(q) \in Nat /\ Len(r) \in Nat /\ DOMAIN q = 1..Len(q) /\ DOMAIN r = 1..Len(r)
      /\ DOMAIN (q \o r) = 1..Len(q) + Len(r)
      /\ \A i \in 1..Len(q) + Len(r) : (q \o r)[i] = IF i <= Len(q) THEN q[i] ELSE r[i - Len(q)]
  BY ConcatProperties, LenProperties DEF Batches
<1> DEFINE u == q \o r
<1>2. /\ DOMAIN u = 1..Len(q) + Len(r)
      /\ \A i \in 1..Len(q) + Len(r) : u[i] = IF i <= Len(q) THEN q[i] ELSE r[i - Len(q)]
  BY <1>1
<1> HIDE DEF u
<1>3. \A i \in DOMAIN u : \/ i \in DOMAIN q /\ u[i] = q[i]
                          \/ i - Len(q) \in DOMAIN r /\ u[i] = r[i - Len(q)]
  BY <1>1, <1>2
<1>4. \A i \in DOMAIN u : Ascending(u[i])
  BY <1>3 DEF InOrder
<1>5. ASSUME NEW i \in DOMAIN u, NEW j \in DOMAIN u, i < j
      PROVE  Before(Range(u[i]), Range(u[j]))
  <2>1. CASE j <= Len(q)
    <3>1. i \in DOMAIN q /\ j \in DOMAIN q /\ u[i] = q[i] /\ u[j] = q[j]
      BY <1>1, <1>2, <1>5, <2>1
    <3>. QED  BY <1>5, <3>1 DEF InOrder
  <2>2. CASE i <= Len(q) /\ j > Len(q)
    <3>1. /\ i \in DOMAIN q /\ j - Len(q) \in DOMAIN r
          /\ u[i] = q[i] /\ u[j] = r[j - Len(q)]
      BY <1>1, <1>2, <1>5, <2>2
    <3>2. Range(q[i]) \subseteq Events(q) /\ Range(r[j - Len(q)]) \subseteq Events(r)
      BY <3>1 DEF Events, Range
    <3>. QED  BY <3>1, <3>2 DEF Before
  <2>3. CASE i > Len(q)
    <3>1. /\ i - Len(q) \in DOMAIN r /\ j - Len(q) \in DOMAIN r /\ i - Len(q) < j - Len(q)
          /\ u[i] = r[i - Len(q)] /\ u[j] = r[j - Len(q)]
      <4>1. i \in 1..Len(q) + Len(r) /\ j \in 1..Len(q) + Len(r) /\ j > Len(q) /\ Len(q) \in Nat
        BY <1>1, <1>2, <1>5, <2>3
      <4>2. u[i] = r[i - Len(q)] /\ u[j] = r[j - Len(q)]
        BY <1>2, <2>3, <4>1
      <4>. QED  BY <1>1, <1>5, <2>3, <4>1, <4>2
    <3>. QED  BY <3>1 DEF InOrder
  <2>. QED  BY <1>1, <1>2, <1>5, <2>1, <2>2, <2>3
<1>. QED  BY <1>4, <1>5 DEF InOrder, u

LEMMA InOrderTail ==
    ASSUME NEW q \in Batches, InOrder(q), q # <<>>
    PROVE  /\ InOrder(Tail(q)) /\ Ascending(Head(q))
           /\ Before(Range(Head(q)), Events(Tail(q)))
<1> DEFINE t == Tail(q)
<1>1. /\ Len(q) \in Nat \ {0} /\ DOMAIN q = 1..Len(q) /\ DOMAIN t = 1..Len(q) - 1
      /\ \A i \in 1..Len(q) - 1 : t[i] = q[i + 1]
      /\ Head(q) = q[1]
  BY HeadTailProperties, LenProperties, EmptySeq DEF Batches
<1> HIDE DEF t
<1>2. \A i \in DOMAIN t : i + 1 \in DOMAIN q /\ 1 < i + 1 /\ t[i] = q[i + 1]
  BY <1>1
<1>3. 1 \in DOMAIN q
  BY <1>1
<1>4. InOrder(t)
  <2>1. \A i \in DOMAIN t : Ascending(t[i])
    BY <1>2 DEF InOrder
  <2>2. ASSUME NEW i \in DOMAIN t, NEW j \in DOMAIN t, i < j
        PROVE  Before(Range(t[i]), Range(t[j]))
    <3>1. i + 1 < j + 1
      BY <1>1, <2>2
    <3>. QED  BY <1>2, <3>1 DEF InOrder
  <2>. QED  BY <2>1, <2>2 DEF InOrder
<1>5. Before(Range(Head(q)), Events(t))
  <2>1. \A i \in DOMAIN t : Before(Range(q[1]), Range(t[i]))
    BY <1>2, <1>3 DEF InOrder
  <2>2. Events(t) = UNION {Range(t[i]) : i \in DOMAIN t}
    BY DEF Events, Range
  <2>. QED  BY <1>1, <2>1, <2>2 DEF Before
<1>. QED  BY <1>1, <1>3, <1>4, <1>5 DEF InOrder, t

(* A sequence of events that is cut in two.                                *)
LEMMA Cut ==
    ASSUME NEW T, NEW s \in Seq(T), NEW k \in 0..Len(s)
    PROVE  LET a == SubSeq(s, 1, k)
               b == SubSeq(s, k + 1, Len(s))
           IN  /\ a \in Seq(T) /\ Len(a) = k /\ DOMAIN a = 1..k
               /\ b \in Seq(T) /\ Len(b) = Len(s) - k /\ DOMAIN b = 1..Len(s) - k
               /\ \A i \in 1..k : a[i] = s[i]
               /\ \A i \in 1..Len(s) - k : b[i] = s[k + i]
               /\ Range(s) = Range(a) \union Range(b)
<1> DEFINE a == SubSeq(s, 1, k)
           b == SubSeq(s, k + 1, Len(s))
<1>1. /\ Len(s) \in Nat /\ k \in Nat /\ k <= Len(s) /\ DOMAIN s = 1..Len(s)
      /\ \A i \in 1..Len(s) : s[i] \in T
  BY LenProperties, ElementOfSeq
<1>2. /\ a \in Seq(T) /\ Len(a) = k /\ \A i \in 1..k : a[i] = s[i]
  <2>1. /\ a \in Seq(T)
        /\ Len(a) = IF 1 <= k THEN k - 1 + 1 ELSE 0
        /\ \A i \in 1..k - 1 + 1 : a[i] = s[1 + i - 1]
    <3>1. \A i \in 1..k : s[i] \in T
      BY <1>1
    <3>. QED  BY <1>1, <3>1, SubSeqProperties
  <2> HIDE DEF a
  <2>. QED  BY <1>1, <2>1
<1>3. /\ b \in Seq(T) /\ Len(b) = Len(s) - k /\ \A i \in 1..Len(s) - k : b[i] = s[k + i]
  <2>1. /\ b \in Seq(T)
        /\ Len(b) = IF k + 1 <= Len(s) THEN Len(s) - (k + 1) + 1 ELSE 0
        /\ \A i \in 1..Len(s) - (k + 1) + 1 : b[i] = s[k + 1 + i - 1]
    <3>1. \A i \in k + 1..Len(s) : s[i] \in T
      BY <1>1
    <3>. QED  BY <1>1, <3>1, SubSeqProperties
  <2> DEFINE m == Len(b)
             n == Len(s)
  <2> HIDE DEF m, n, b
  <2>2. Len(s) - (k + 1) + 1 = Len(s) - k /\ \A i \in Nat : k + 1 + i - 1 = k + i
    BY <1>1
  <2>3. Len(b) = Len(s) - k
    <3>1. m = IF k + 1 <= n THEN n - (k + 1) + 1 ELSE 0
      BY <2>1 DEF m, n
    <3>2. n \in Nat /\ k <= n
      BY <1>1 DEF n
    <3>3. m = n - k
      BY <1>1, <3>1, <3>2
    <3>. QED  BY <3>3 DEF m, n
  <2>4. ASSUME NEW i \in 1..Len(s) - k
        PROVE  b[i] = s[k + i]
    <3>1. i \in 1..Len(s) - (k + 1) + 1 /\ k + 1 + i - 1 = k + i
      BY <1>1, <2>2, <2>4
    <3>2. b[i] = s[k + 1 + i - 1]
      BY <2>1, <3>1
    <3>. QED  BY <3>1, <3>2
  <2>. QED  BY <2>1, <2>3, <2>4
<1> HIDE DEF a, b
<1>4. DOMAIN a = 1..k /\ DOMAIN b = 1..Len(s) - k
  BY <1>2, <1>3, LenProperties
<1>5. Range(s) = Range(a) \union Range(b)
  <2>1. \A i \in 1..Len(s) : (i \in 1..k /\ s[i] = a[i]) \/ (i - k \in 1..Len(s) - k /\ s[i] = b[i - k])
    <3>1. SUFFICES ASSUME NEW i \in 1..Len(s)
                   PROVE  (i \in 1..k /\ s[i] = a[i]) \/ (i - k \in 1..Len(s) - k /\ s[i] = b[i - k])
      OBVIOUS
    <3>2. CASE i <= k
      BY <1>1, <1>2, <3>2
    <3>3. CASE i > k
      <4>1. i - k \in 1..Len(s) - k /\ k + (i - k) = i
        BY <1>1, <3>3
      <4>. QED  BY <1>3, <4>1
    <3>. QED  BY <1>1, <3>2, <3>3
  <2>2. \A i \in 1..k : i \in 1..Len(s) /\ a[i] = s[i]
    BY <1>1, <1>2
  <2>3. \A i \in 1..Len(s) - k : k + i \in 1..Len(s) /\ b[i] = s[k + i]
    BY <1>1, <1>3
  <2>4. /\ Range(s) = {s[i] : i \in 1..Len(s)}
        /\ Range(a) = {a[i] : i \in 1..k}
        /\ Range(b) = {b[i] : i \in 1..Len(s) - k}
    BY <1>1, <1>4 DEF Range
  <2>5. \A x \in Range(s) : x \in Range(a) \union Range(b)
    BY <2>1, <2>4
  <2>6. Range(a) \subseteq Range(s)
    BY <2>2, <2>4
  <2>7. Range(b) \subseteq Range(s)
    BY <2>3, <2>4
  <2>. QED  BY <2>5, <2>6, <2>7
<1>. QED  BY <1>2, <1>3, <1>4, <1>5 DEF a, b

LEMMA CutAscends ==
    ASSUME NEW s \in Seq(Event), NEW k \in 0..Len(s), Ascending(s)
    PROVE  /\ Ascending(SubSeq(s, 1, k))
           /\ Ascending(SubSeq(s, k + 1, Len(s)))
           /\ Before(Range(SubSeq(s, 1, k)), Range(SubSeq(s, k + 1, Len(s))))
<1> DEFINE a == SubSeq(s, 1, k)
           b == SubSeq(s, k + 1, Len(s))
<1>1. Len(s) \in Nat /\ DOMAIN s = 1..Len(s) /\ k \in Nat /\ k <= Len(s)
  BY LenProperties
<1>2. /\ DOMAIN a = 1..k /\ DOMAIN b = 1..Len(s) - k
      /\ \A i \in 1..k : a[i] = s[i]
      /\ \A i \in 1..Len(s) - k : b[i] = s[k + i]
  BY Cut
<1> HIDE DEF a, b
<1>3. Ascending(a)
  BY <1>1, <1>2 DEF Ascending
<1>4. Ascending(b)
  <2>1. ASSUME NEW i \in 1..Len(s) - k, NEW j \in 1..Len(s) - k, i < j
        PROVE  b[i].n < b[j].n
    <3>1. k + i \in DOMAIN s /\ k + j \in DOMAIN s /\ k + i < k + j
      BY <1>1, <2>1
    <3>2. s[k + i].n < s[k + j].n
      BY <3>1 DEF Ascending
    <3>. QED  BY <1>2, <3>2
  <2>. QED  BY <1>2, <2>1 DEF Ascending
<1>5. Before(Range(a), Range(b))
  <2>1. ASSUME NEW e \in Range(a), NEW f \in Range(b)
        PROVE  e.n < f.n
    <3>1. PICK i \in 1..k : e = s[i]
      BY <1>2 DEF Range
    <3>2. PICK j \in 1..Len(s) - k : f = s[k + j]
      BY <1>2 DEF Range
    <3>3. i \in DOMAIN s /\ k + j \in DOMAIN s /\ i < k + j
      BY <1>1
    <3>. QED  BY <3>1, <3>2, <3>3 DEF Ascending
  <2>. QED  BY <2>1 DEF Before
<1>. QED  BY <1>3, <1>4, <1>5 DEF a, b

(* What an iterator has in its hands, as a batch, a buffer and a channel.  *)
PartsOf(a, b, r) == (Range(a) \union Range(b)) \union Events(r)
HandOrdered(a, b, r) ==
    /\ Ascending(a) /\ Ascending(b) /\ InOrder(r)
    /\ Before(Range(a), Range(b))
    /\ Before(Range(a) \union Range(b), Events(r))

LEMMA HandParts ==
    ASSUME NEW a \in Seq(Event), NEW b \in Seq(Event), NEW r \in Batches,
           NEW h, h = <<a, b>> \o r
    PROVE  /\ h \in Batches
           /\ Events(h) = PartsOf(a, b, r)
           /\ InOrder(h) <=> HandOrdered(a, b, r)
<1> DEFINE q == <<a, b>>
<1>1. q \in Batches /\ q \o r \in Batches
  BY DEF Batches
<1>2. Range(q) = {a, b}
  BY DEF Range
<1>3. Events(q) = Range(a) \union Range(b)
  BY <1>2 DEF Events
<1>4. Events(q \o r) = Events(q) \union Events(r)
  BY <1>1, EventsSplit
<1>5. InOrder(q) <=> Ascending(a) /\ Ascending(b) /\ Before(Range(a), Range(b))
  BY DEF InOrder
<1>6. ASSUME InOrder(q \o r)
      PROVE  InOrder(q) /\ InOrder(r) /\ Before(Events(q), Events(r))
  <2> DEFINE u == q \o r
  <2>1. /\ Len(q) = 2 /\ DOMAIN q = 1..2 /\ Len(r) \in Nat /\ DOMAIN r = 1..Len(r)
        /\ DOMAIN u = 1..2 + Len(r)
        /\ \A i \in 1..2 + Len(r) : u[i] = IF i <= 2 THEN q[i] ELSE r[i - 2]
    BY <1>1, ConcatProperties, LenProperties DEF Batches
  <2>2. InOrder(u)
    BY <1>6
  <2> HIDE DEF u, q
  <2>3. \A i \in 1..2 : i \in DOMAIN u /\ u[i] = q[i]
    BY <2>1
  <2>4. \A i \in 1..Len(r) : 2 + i \in DOMAIN u /\ u[2 + i] = r[i]
    BY <2>1
  <2>5. InOrder(q)
    BY <2>1, <2>2, <2>3 DEF InOrder
  <2>6. InOrder(r)
    <3>1. \A i \in DOMAIN r : Ascending(r[i])
      BY <2>1, <2>2, <2>4 DEF InOrder
    <3>2. ASSUME NEW i \in DOMAIN r, NEW j \in DOMAIN r, i < j
          PROVE  Before(Range(r[i]), Range(r[j]))
      <4>1. 2 + i < 2 + j
        BY <2>1, <3>2
      <4>. QED  BY <2>1, <2>2, <2>4, <4>1 DEF InOrder
    <3>. QED  BY <3>1, <3>2 DEF InOrder
  <2>7. Before(Events(q), Events(r))
    <3>1. ASSUME NEW i \in DOMAIN q, NEW j \in DOMAIN r
          PROVE  Before(Range(q[i]), Range(r[j]))
      <4>1. i < 2 + j
        BY <2>1
      <4>. QED  BY <2>1, <2>2, <2>3, <2>4, <4>1 DEF InOrder
    <3>2. /\ Events(q) = UNION {Range(q[i]) : i \in DOMAIN q}
          /\ Events(r) = UNION {Range(r[i]) : i \in DOMAIN r}
      BY EventsUnion
    <3>. QED  BY <3>1, <3>2 DEF Before
  <2>. QED  BY <2>5, <2>6, <2>7
<1>7. ASSUME InOrder(q), InOrder(r), Before(Events(q), Events(r))
      PROVE  InOrder(q \o r)
  BY <1>1, <1>7, InOrderConcat
<1> HIDE DEF q
<1>8. InOrder(q \o r) <=> InOrder(q) /\ InOrder(r) /\ Before(Events(q), Events(r))
  BY <1>6, <1>7
<1>9. Events(q) = Range(a) \union Range(b) /\ Events(q \o r) = PartsOf(a, b, r)
  BY <1>3, <1>4 DEF PartsOf
<1>10. InOrder(h) <=> HandOrdered(a, b, r)
  BY <1>5, <1>8, <1>9 DEF HandOrdered, q
<1>. QED  BY <1>1, <1>9, <1>10 DEF q

LEMMA HandGrows ==
    ASSUME NEW r \in Batches, NEW b \in Seq(Event)
    PROVE  /\ Append(r, b) \in Batches
           /\ Events(Append(r, b)) = Events(r) \union Range(b)
           /\ InOrder(r) /\ Ascending(b) /\ Before(Events(r), Range(b)) => InOrder(Append(r, b))
<1>1. <<b>> \in Batches /\ Append(r, b) = r \o <<b>> /\ Append(r, b) \in Batches
  BY DEF Batches
<1>2. Range(<<b>>) = {b}
  BY DEF Range
<1>3. Events(<<b>>) = Range(b)
  BY <1>2 DEF Events
<1>4. Events(r \o <<b>>) = Events(r) \union Events(<<b>>)
  BY <1>1, EventsSplit
<1>5. Ascending(b) => InOrder(<<b>>)
  BY DEF InOrder
<1>6. InOrder(r) /\ Ascending(b) /\ Before(Events(r), Range(b)) => InOrder(r \o <<b>>)
  BY <1>1, <1>3, <1>5, InOrderConcat
<1>. QED  BY <1>1, <1>3, <1>4, <1>6

(* The least and the greatest element of a set of numbers.                 *)
LEMMA MinIsLeast ==
    ASSUME NEW S \in SUBSET Nat, S # {}
    PROVE  Min(S) \in S /\ \A y \in S : Min(S) <= y
<1> DEFINE R == OpToRel(<, Nat)
<1>1. \A x, y \in Nat : y < x => <<y, x>> \in R
  BY DEF OpToRel
<1>2. IsWellFoundedOn(R, Nat)
  BY NatLessThanWellFounded
<1> HIDE DEF R
<1>3. PICK x \in S : \A y \in S : ~(<<y, x>> \in R)
  BY <1>2, WFMin
<1>4. \A y \in S : ~(y < x)
  BY <1>1, <1>3
<1>5. \A y \in S : x <= y
  BY <1>4
<1>. QED  BY <1>5 DEF Min

LEMMA MaxIsGreatest ==
    ASSUME NEW n \in Nat, NEW S \in SUBSET (0..n), S # {}
    PROVE  Max(S) \in S /\ \A y \in S : y <= Max(S)
<1> DEFINE D == {n - x : x \in S}
<1>1. D \in SUBSET Nat /\ D # {}
  <2>1. \A x \in S : n - x \in Nat
    OBVIOUS
  <2>. QED  BY <2>1
<1>2. Min(D) \in D /\ \A d \in D : Min(D) <= d
  BY <1>1, MinIsLeast
<1>3. PICK x \in S : Min(D) = n - x
  BY <1>2
<1>4. \A y \in S : n - x <= n - y
  BY <1>2, <1>3
<1>5. \A y \in S : y <= x
  BY <1>4
<1>. QED  BY <1>5 DEF Max

-----------------------------------------------------------------------------
(* Types: of programs and files, and of what iterators hold.               *)
LEMMA ProgramTypes ==
    ASSUME TypeOK
    PROVE  /\ program.iters \subseteq Iters
           /\ program.times \subseteq Nat
           /\ \A p \in 1..FileLen : file[p].time \in program.times
BY ProgramAssumption DEF TypeOK, Word

LEMMA HandTypes ==
    ASSUME TypeOK, NEW i \in Iters
    PROVE  /\ Taken(i) \in Seq(Event) /\ internal_buffer[i] \in Seq(Event)
           /\ receiver[i] \in Batches /\ InHand(i) \in Batches
           /\ Events(InHand(i)) =
                 (Range(Taken(i)) \union Range(internal_buffer[i])) \union Events(receiver[i])
           /\ InOrder(InHand(i)) <=>
                 /\ Ascending(Taken(i)) /\ Ascending(internal_buffer[i]) /\ InOrder(receiver[i])
                 /\ Before(Range(Taken(i)), Range(internal_buffer[i]))
                 /\ Before(Range(Taken(i)) \union Range(internal_buffer[i]), Events(receiver[i]))
<1>1. Taken(i) \in Seq(Event) /\ internal_buffer[i] \in Seq(Event) /\ receiver[i] \in Batches
  BY DEF TypeOK, Taken
<1>2. InHand(i) = <<Taken(i), internal_buffer[i]>> \o receiver[i]
  BY DEF InHand
<1>3. InHand(i) \in Batches
  BY <1>1, <1>2, HandParts
<1>4. Events(InHand(i)) = PartsOf(Taken(i), internal_buffer[i], receiver[i])
  BY <1>1, <1>2, HandParts
<1>5. InOrder(InHand(i)) <=> HandOrdered(Taken(i), internal_buffer[i], receiver[i])
  BY <1>1, <1>2, HandParts
<1>. QED  BY <1>1, <1>3, <1>4, <1>5 DEF HandOrdered, PartsOf

LEMMA HandTypesNext ==
    ASSUME TypeOK', NEW i \in Iters
    PROVE  /\ Taken(i)' \in Seq(Event) /\ internal_buffer'[i] \in Seq(Event)
           /\ receiver'[i] \in Batches /\ InHand(i)' \in Batches
           /\ Events(InHand(i))' =
                 (Range(Taken(i)') \union Range(internal_buffer'[i])) \union Events(receiver'[i])
           /\ InOrder(InHand(i))' <=>
                 /\ Ascending(Taken(i)') /\ Ascending(internal_buffer'[i]) /\ InOrder(receiver'[i])
                 /\ Before(Range(Taken(i)'), Range(internal_buffer'[i]))
                 /\ Before(Range(Taken(i)') \union Range(internal_buffer'[i]), Events(receiver'[i]))
<1> DEFINE a == Taken(i)'
           b == internal_buffer'[i]
           r == receiver'[i]
           h == InHand(i)'
<1>1. a \in Seq(Event) /\ b \in Seq(Event) /\ r \in Batches
  BY DEF TypeOK, Taken
<1>2. h = <<a, b>> \o r
  BY DEF InHand
<1>3. Events(InHand(i))' = Events(h) /\ (InOrder(InHand(i))' <=> InOrder(h))
  OBVIOUS
<1> HIDE DEF a, b, r, h
<1>4. h \in Batches
  BY <1>1, <1>2, HandParts
<1>5. Events(h) = PartsOf(a, b, r)
  BY <1>1, <1>2, HandParts
<1>6. InOrder(h) <=> HandOrdered(a, b, r)
  BY <1>1, <1>2, HandParts
<1>. QED  BY <1>1, <1>3, <1>4, <1>5, <1>6 DEF a, b, r, h, HandOrdered, PartsOf

LEMMA HandEvents ==
    ASSUME TypeOK, NEW i \in Iters, NEW e \in Events(InHand(i))
    PROVE  e \in Event
<1>1. InHand(i) \in Seq(Seq(Event))
  BY HandTypes DEF Batches
<1>2. \A b \in Range(InHand(i)) : b \in Seq(Event)
  BY <1>1, ElementOfSeq, LenProperties DEF Range
<1>3. \A b \in Seq(Event) : \A x \in Range(b) : x \in Event
  BY ElementOfSeq, LenProperties DEF Range
<1>. QED  BY <1>2, <1>3 DEF Events

(* What TakeEvents pops from the buffer, and when it completes the call.   *)
LEMMA TakeFacts ==
    ASSUME TypeOK, NEW i \in Iters, internal_buffer[i] # <<>>, call[i] \in Calls,
           call[i].kind = "n" => Len(batch[i]) < call[i].size
    PROVE  LET k == Popped(i)
               buf == internal_buffer[i]
           IN  /\ k \in 0..Len(buf) /\ Len(buf) \in Nat \ {0}
               /\ Head(buf) = buf[1] /\ Head(buf) \in Event
               /\ EndTs(i) \in Nat
               /\ ~Complete(i, k) => k = Len(buf)
               /\ call[i].kind = "n" /\ ~Complete(i, k) => Len(batch[i]) + k < call[i].size
               /\ call[i].kind = "delta" =>
                     /\ Complete(i, k) <=> k < Len(buf)
                     /\ \A j \in 1..k : buf[j].t < EndTs(i)
                     /\ k < Len(buf) => EndTs(i) <= buf[k + 1].t
<1> DEFINE k == Popped(i)
           buf == internal_buffer[i]
           had == Len(batch[i])
           size == call[i].size
<1>1. /\ buf \in Seq(Event) /\ had \in Nat
      /\ call[i].kind \in {"n", "delta"} /\ size \in Nat \ {0}
  <2>1. batch[i] \in Seq(Event)
    BY DEF TypeOK
  <2>. QED  BY <2>1, DataAssumption, LenProperties DEF TypeOK
<1>2. Len(buf) \in Nat \ {0} /\ Head(buf) = buf[1] /\ \A j \in 1..Len(buf) : buf[j] \in Event
  BY <1>1, LenProperties, EmptySeq, ElementOfSeq
<1>3. Head(buf) \in Event /\ \A j \in 1..Len(buf) : buf[j].t \in Nat
  BY <1>2 DEF Event
<1>4. EndTs(i) \in Nat
  <2>1. Head(buf).t \in Nat /\ current_timestamp[i] \in Nat \union {None}
    BY <1>2, <1>3 DEF TypeOK
  <2>2. EndTs(i) = size + (IF current_timestamp[i] = None THEN Head(buf).t
                                                          ELSE current_timestamp[i])
    BY DEF EndTs
  <2> HIDE DEF size, buf
  <2>. QED  BY <1>1, <2>1, <2>2
<1>5. CASE call[i].kind = "n"
  <2> DEFINE S == {size - had, Len(buf)}
  <2>1. had < size
    BY <1>5
  <2>2. S \in SUBSET Nat /\ S # {}
    BY <1>1, <1>2, <2>1
  <2>3. Min(S) \in S /\ \A y \in S : Min(S) <= y
    BY <2>2, MinIsLeast
  <2>4. k = Min(S)
    BY <1>5 DEF Popped
  <2>5. Complete(i, k) <=> had + k = size
    BY <1>5 DEF Complete
  <2> HIDE DEF k, buf, had, size
  <2>6. k \in {size - had, Len(buf)} /\ k <= size - had /\ k <= Len(buf)
    BY <2>3, <2>4
  <2>7. k \in 0..Len(buf)
    BY <1>1, <1>2, <2>1, <2>6
  <2>8. ~Complete(i, k) => k = Len(buf) /\ had + k < size
    BY <1>1, <1>2, <2>1, <2>5, <2>6
  <2>9. call[i].kind # "delta"
    BY <1>5
  <2>. QED  BY <1>2, <1>3, <1>4, <2>7, <2>8, <2>9 DEF k, buf, had, size
<1>6. CASE call[i].kind = "delta"
  <2> DEFINE In(j) == buf[j].t < EndTs(i)
             S == {n \in 0..Len(buf) : \A j \in 1..n : In(j)}
  <2>1. S \in SUBSET (0..Len(buf)) /\ 0 \in S
    BY <1>2
  <2>2. Max(S) \in S /\ \A y \in S : y <= Max(S)
    BY <1>2, <2>1, MaxIsGreatest
  <2>3. k = Max(S)
    BY <1>6 DEF Popped, InWindow
  <2>4. Complete(i, k) <=> k < Len(buf)
    BY <1>6 DEF Complete
  <2> HIDE DEF k, buf, had, size
  <2>5. k \in 0..Len(buf) /\ \A j \in 1..k : In(j)
    BY <2>2, <2>3
  <2>6. ASSUME k < Len(buf)
        PROVE  EndTs(i) <= buf[k + 1].t
    <3>1. SUFFICES ASSUME In(k + 1) PROVE FALSE
      BY <1>2, <1>3, <1>4, <2>5, <2>6
    <3>2. k + 1 \in 0..Len(buf) /\ \A j \in 1..k + 1 : j \in 1..k \/ j = k + 1
      BY <1>2, <2>5, <2>6
    <3>3. k + 1 \in S
      BY <2>5, <3>1, <3>2
    <3>4. k + 1 <= k
      BY <2>2, <2>3, <3>3
    <3>. QED  BY <1>2, <2>5, <3>4
  <2>7. ~Complete(i, k) => k = Len(buf)
    BY <1>2, <2>4, <2>5
  <2>. QED  BY <1>2, <1>3, <1>4, <1>6, <2>4, <2>5, <2>6, <2>7 DEF k, buf
<1>. QED  BY <1>1, <1>5, <1>6

-----------------------------------------------------------------------------
(* Types.                                                                  *)

(* A read's events, listed in the order of the file.                       *)
LEMMA ListingTypes ==
    ASSUME TypeOK, NEW first, first \in Nat, NEW k \in 0..FileLen - pos,
           NEW s \in Listings({Shown(p, first) :
                                 p \in {p \in pos + 1..pos + k : file[p].kind = "cd"}})
    PROVE  s \in Seq(Reads)
<1> DEFINE D == {p \in pos + 1..pos + k : file[p].kind = "cd"}
           E == {Shown(p, first) : p \in D}
           g == [p \in D |-> Shown(p, first)]
<1>1. pos \in Nat /\ k \in Nat /\ FileLen \in Nat /\ pos + k <= FileLen
  BY DataAssumption DEF TypeOK
<1>2. D \subseteq pos + 1..pos + k /\ D \subseteq 1..FileLen
  BY <1>1
<1>3. IsFiniteSet(D)
  <2>1. IsFiniteSet(pos + 1..pos + k)
    BY <1>1, FS_Interval
  <2>. QED  BY <1>2, <2>1, FS_Subset
<1>4. \A p \in D : Shown(p, first) \in Reads
  <2>1. SUFFICES ASSUME NEW p \in D PROVE Shown(p, first) \in Reads
    OBVIOUS
  <2>2. p \in 1..FileLen
    BY <1>2
  <2>3. file[p].time \in Nat
    BY <2>2, ProgramTypes
  <2>4. SaturatingSub(file[p].time, first) \in Nat
    BY <2>3 DEF SaturatingSub
  <2>. QED  BY <2>2, <2>4 DEF Shown, Reads
<1>5. s \in [1..Cardinality(E) -> E]
  BY DEF Listings
<1> HIDE DEF D
<1>6. IsFiniteSet(E)
  <2>1. g \in Surjection(D, E)
    BY DEF Surjection
  <2> HIDE DEF g, E
  <2>. QED  BY <1>3, <2>1, FS_Surjection
<1>7. Cardinality(E) \in Nat /\ E \subseteq Reads
  BY <1>4, <1>6, FS_CardinalityType
<1> HIDE DEF E
<1>. QED  BY <1>5, <1>7, SeqDef

LEMMA ReaderCallTypes ==
    ASSUME TypeOK, NEW kind \in {"load", "ext", "seek"}, NEW where \in {"load", "idle"},
           ReaderBegins(kind, where)
    PROVE  /\ pc' \in [Threads -> {"idle", "take", "drain", "load", "decode", "check", "seek"}]
           /\ call' \in [Threads -> Calls \union [kind : program.calls \union {"none"}, size : {0}]]
           /\ result' = result
BY DEF TypeOK, ReaderBegins, Begins

LEMMA GoesTypes ==
    ASSUME TypeOK, NEW t \in Threads,
           NEW where \in {"idle", "take", "drain", "load", "decode", "check", "seek"},
           Goes(t, where)
    PROVE  /\ pc' \in [Threads -> {"idle", "take", "drain", "load", "decode", "check", "seek"}]
           /\ call' = call /\ result' = result
BY DEF TypeOK, Goes

LEMMA ReturnTypes ==
    ASSUME TypeOK, NEW t \in Threads, NEW r \in Errors \union {"none", "ok", "TryRecv"},
           Return(t, r)
    PROVE  /\ pc' \in [Threads -> {"idle", "take", "drain", "load", "decode", "check", "seek"}]
           /\ result' \in [Threads -> Errors \union {"none", "ok", "TryRecv"}]
           /\ call' = call
BY DEF TypeOK, Return

LEMMA ReadTypes ==
    ASSUME TypeOK, NEW t \in Threads, LoadReads(t)
    PROVE  TypeOK'
<1>1. PICK k \in ReadSizes :
          LET read == pos + 1..pos + k
              timed == {p \in read : Timed(file[p])}
              triggers == {p \in read : file[p].kind = "ext"}
          IN  /\ pos' = pos + k
              /\ shift' = IF shift = None /\ timed # {} THEN file[Min(timed)].time ELSE shift
              /\ \E events \in Listings({Shown(p, shift') : p \in {p \in read : file[p].kind = "cd"}}) :
                    pending' = [pending EXCEPT ![t] = events]
              /\ trigger' = IF trigger = None /\ call[Reader].kind = "ext" /\ triggers # {}
                            THEN Min(triggers) ELSE trigger
  BY DEF LoadReads
<1> DEFINE timed == {p \in pos + 1..pos + k : Timed(file[p])}
           triggers == {p \in pos + 1..pos + k : file[p].kind = "ext"}
           cds == {p \in pos + 1..pos + k : file[p].kind = "cd"}
<1>2. /\ pos \in Nat /\ k \in Nat /\ FileLen \in Nat /\ pos + k <= FileLen
      /\ k \in 0..FileLen - pos
  BY DataAssumption DEF TypeOK, ReadSizes
<1>3. pos' \in 0..FileLen
  BY <1>1, <1>2
<1>4. timed # {} => Min(timed) \in timed
  <2>1. timed \in SUBSET Nat
    BY <1>2
  <2> HIDE DEF timed
  <2>. QED  BY <2>1, MinIsLeast
<1>5. triggers # {} => Min(triggers) \in triggers
  <2>1. triggers \in SUBSET Nat
    BY <1>2
  <2> HIDE DEF triggers
  <2>. QED  BY <2>1, MinIsLeast
<1>6. shift' \in program.times \union {None}
  <2>1. timed # {} => Min(timed) \in 1..FileLen
    BY <1>2, <1>4
  <2> HIDE DEF timed
  <2>2. shift' = IF shift = None /\ timed # {} THEN file[Min(timed)].time ELSE shift
    BY <1>1 DEF timed
  <2>. QED  BY <2>1, <2>2, ProgramTypes DEF TypeOK
<1>7. trigger' \in 1..FileLen \union {None}
  <2>1. triggers # {} => Min(triggers) \in 1..FileLen
    BY <1>2, <1>5
  <2> HIDE DEF triggers
  <2>2. trigger' = IF trigger = None /\ call[Reader].kind = "ext" /\ triggers # {}
                   THEN Min(triggers) ELSE trigger
    BY <1>1 DEF triggers
  <2>. QED  BY <2>1, <2>2 DEF TypeOK
<1>8. pending' \in [Threads -> Seq(Reads)]
  <2>1. PICK events \in Listings({Shown(p, shift') : p \in cds}) :
                pending' = [pending EXCEPT ![t] = events]
    BY <1>1
  <2>2. events \in Seq(Reads)
    <3>1. CASE shift' = None
      <4>1. shift = None /\ timed = {}
        <5>1. timed # {} => file[Min(timed)].time \in Nat
          <6>1. timed # {} => Min(timed) \in 1..FileLen
            BY <1>2, <1>4
          <6>. QED  BY <6>1, ProgramTypes
        <5>. QED  BY <1>1, <3>1, <5>1, ThreadsAssumption
      <4>2. cds = {}
        BY <4>1 DEF Timed
      <4>3. {Shown(p, shift') : p \in cds} = {}
        BY <4>2
      <4>4. Cardinality({}) = 0
        BY FS_EmptySet
      <4>5. events \in [1..0 -> {}]
        BY <2>1, <4>3, <4>4 DEF Listings
      <4>. QED  BY <4>5, SeqDef
    <3>2. CASE shift' # None
      <4> DEFINE first == shift'
      <4>1. first \in Nat
        BY <1>6, <3>2, ProgramTypes
      <4>2. events \in Listings({Shown(p, first) : p \in cds})
        BY <2>1
      <4> HIDE DEF first
      <4>. QED  BY <1>2, <4>1, <4>2, ListingTypes
    <3>. QED  BY <3>1, <3>2
  <2>. QED  BY <2>1, <2>2 DEF TypeOK
<1>9. lock' \in Threads \union {NoOne}
  BY DEF LoadReads, Holds
<1>10. /\ pc' \in [Threads -> {"idle", "take", "drain", "load", "decode", "check", "seek"}]
       /\ call' = call /\ result' = result
  BY GoesTypes DEF LoadReads
<1>. QED
  BY <1>3, <1>6, <1>7, <1>8, <1>9, <1>10 DEF TypeOK, LoadReads, fileVars, iterVars, Word

(* The batch that the decoder sends.                                       *)
IsSent(events, t, k) ==
    /\ k \in 1..Len(pending[t]) /\ Len(events) = k /\ DOMAIN events = 1..k
    /\ \A j \in 1..k : /\ events[j].n = decoded + j
                       /\ events[j].p = pending[t][j].p
                       /\ events[j].t = pending[t][j].t
    /\ receiver' = [i \in Iters |-> IF i \in subscribed THEN Append(receiver[i], events)
                                                        ELSE receiver[i]]
    /\ decoded' = decoded + k
    /\ pending' = [pending EXCEPT ![t] = SubSeq(@, k + 1, Len(@))]

LEMMA SendFacts ==
    ASSUME TypeOK, NEW t \in Threads, DecodeSends(t)
    PROVE  \E k \in Nat \ {0}, events \in Seq(Event) : IsSent(events, t, k)
<1>1. pending[t] \in Seq(Reads) /\ Len(pending[t]) \in Nat /\ decoded \in Nat
  BY LenProperties DEF TypeOK
<1>2. PICK k \in 1..Len(pending[t]) :
          LET events == [j \in 1..k |-> [n |-> decoded + j, p |-> pending[t][j].p,
                                         t |-> pending[t][j].t]]
          IN  /\ receiver' = [i \in Iters |->
                    IF i \in subscribed THEN Append(receiver[i], events) ELSE receiver[i]]
              /\ decoded' = decoded + k
              /\ pending' = [pending EXCEPT ![t] = SubSeq(@, k + 1, Len(@))]
  BY DEF DecodeSends
<1> DEFINE events == [j \in 1..k |-> [n |-> decoded + j, p |-> pending[t][j].p,
                                      t |-> pending[t][j].t]]
<1>3. k \in Nat \ {0} /\ k <= Len(pending[t])
  BY <1>1, <1>2
<1>4. /\ DOMAIN events = 1..k
      /\ \A j \in 1..k : /\ events[j].n = decoded + j
                         /\ events[j].p = pending[t][j].p
                         /\ events[j].t = pending[t][j].t
  OBVIOUS
<1>5. events \in Seq(Event)
  <2>1. ASSUME NEW j \in 1..k
        PROVE  [n |-> decoded + j, p |-> pending[t][j].p, t |-> pending[t][j].t] \in Event
    <3>1. pending[t][j] \in Reads
      BY <1>1, <1>3, ElementOfSeq
    <3>2. decoded + j \in Nat
      BY <1>1, <1>3
    <3>. QED  BY <3>1, <3>2 DEF Reads, Event
  <2>2. events \in [1..k -> Event]
    BY <2>1
  <2> HIDE DEF events
  <2>. QED  BY <1>3, <2>2, SeqDef
<1> HIDE DEF events
<1>6. Len(events) = k
  BY <1>3, <1>4, <1>5, LenProperties
<1>7. IsSent(events, t, k)
  BY <1>2, <1>4, <1>6 DEF IsSent, events
<1>. QED  BY <1>3, <1>5, <1>7

LEMMA SentTypes ==
    ASSUME TypeOK, NEW t \in Threads, DecodeSends(t)
    PROVE  TypeOK'
<1>1. PICK k \in Nat \ {0}, events \in Seq(Event) : IsSent(events, t, k)
  BY SendFacts
<1>2. receiver' \in [Iters -> Batches]
  <2>1. \A i \in Iters : receiver[i] \in Batches /\ Append(receiver[i], events) \in Batches
    BY HandGrows DEF TypeOK
  <2>. QED  BY <1>1, <2>1 DEF IsSent
<1>3. pending' \in [Threads -> Seq(Reads)]
  <2>1. pending[t] \in Seq(Reads) /\ k \in 0..Len(pending[t])
    BY <1>1 DEF IsSent, TypeOK
  <2>2. SubSeq(pending[t], k + 1, Len(pending[t])) \in Seq(Reads)
    BY <2>1, Cut
  <2>. QED  BY <1>1, <2>2 DEF IsSent, TypeOK
<1>4. decoded' \in Nat
  BY <1>1 DEF IsSent, TypeOK
<1>. QED
  BY <1>2, <1>3, <1>4
  DEF TypeOK, DecodeSends, streamVars, fileVars, iterVars, threadVars, readerVars, Word

LEMMA TakenTypes ==
    ASSUME TypeOK, NEW i \in Iters, TakeEvents(i), call[i] \in Calls,
           call[i].kind = "n" => Len(batch[i]) < call[i].size
    PROVE  TypeOK'
<1> DEFINE k == Popped(i)
           buf == internal_buffer[i]
           taken == batch[i] \o SubSeq(buf, 1, k)
<1>1. /\ buf \in Seq(Event) /\ batch[i] \in Seq(Event) /\ k \in 0..Len(buf)
      /\ Head(buf) \in Event /\ EndTs(i) \in Nat
  BY TakeFacts DEF TypeOK, TakeEvents
<1>2. SubSeq(buf, 1, k) \in Seq(Event) /\ SubSeq(buf, k + 1, Len(buf)) \in Seq(Event)
  BY <1>1, Cut
<1>3. taken \in Seq(Event)
  BY <1>1, <1>2, ConcatProperties
<1>4. batch' = [batch EXCEPT ![i] = taken]
      /\ internal_buffer' = [internal_buffer EXCEPT ![i] = SubSeq(buf, k + 1, Len(buf))]
  BY DEF TakeEvents
<1>5. current_timestamp' \in [Iters -> Nat \union {None}]
  <2>1. Head(buf).t \in Nat
    BY <1>1 DEF Event
  <2>. QED  BY <1>1, <2>1 DEF TakeEvents, TypeOK
<1>6. returned' \in [Iters -> Nat]
  <2>1. taken # <<>> => Last(taken).n \in Nat
    <3>1. taken # <<>> => Len(taken) \in 1..Len(taken)
      BY <1>3, LenProperties, EmptySeq
    <3>2. taken # <<>> => taken[Len(taken)] \in Event
      BY <1>3, <3>1, ElementOfSeq
    <3>. QED  BY <3>2 DEF Last, Event
  <2>2. returned' = returned \/ returned' = [returned EXCEPT ![i] = IF taken = <<>> THEN @ ELSE Last(taken).n]
    BY DEF TakeEvents
  <2> HIDE DEF taken
  <2>. QED  BY <2>1, <2>2 DEF TypeOK
<1>7. /\ pc' \in [Threads -> {"idle", "take", "drain", "load", "decode", "check", "seek"}]
      /\ result' \in [Threads -> Errors \union {"none", "ok", "TryRecv"}]
      /\ call' = call
  <2>1. i \in Threads
    BY DEF Threads
  <2>2. Return(i, "ok") \/ Goes(i, "drain")
    BY DEF TakeEvents
  <2>. QED  BY <2>1, <2>2, GoesTypes, ReturnTypes DEF TypeOK
<1> HIDE DEF k, buf, taken
<1>8. batch' \in [Iters -> Seq(Event)] /\ internal_buffer' \in [Iters -> Seq(Event)]
  BY <1>2, <1>3, <1>4 DEF TypeOK
<1>. QED
  BY <1>5, <1>6, <1>7, <1>8
  DEF TypeOK, TakeEvents, streamVars, fileVars, decodeVars, readerVars, Word

LEMMA FailTypes ==
    ASSUME TypeOK, ThreadInv, BaselineInv, NEW i \in Iters, NEW error \in Errors,
           IterFails(i, error)
    PROVE  TypeOK'
<1>1. pc[i] = "load" /\ i \in Threads /\ eof' \in BOOLEAN
  BY DEF IterFails, LoadFails, TypeOK, Threads
<1>2. /\ pc' \in [Threads -> {"idle", "take", "drain", "load", "decode", "check", "seek"}]
      /\ result' \in [Threads -> Errors \union {"none", "ok", "TryRecv"}]
      /\ call' = call
  <2>1. Return(i, "ok") \/ Return(i, error)
    BY DEF IterFails
  <2>. QED  BY <1>1, <2>1, ReturnTypes
<1>3. CASE EndsBatch(i, error)
  <2>1. batch[i] # <<>> /\ batch[i] \in Seq(Event) /\ Taken(i) = batch[i]
    BY <1>1, <1>3 DEF EndsBatch, TypeOK, Taken
  <2>2. Last(batch[i]).n \in Nat
    <3>1. Len(batch[i]) \in 1..Len(batch[i])
      BY <2>1, LenProperties, EmptySeq
    <3>2. batch[i][Len(batch[i])] \in Event
      BY <2>1, <3>1, ElementOfSeq
    <3>. QED  BY <3>2 DEF Last, Event
  <2>3. current_timestamp[i] \in Nat
    BY <2>1 DEF BaselineInv, TypeOK
  <2>4. call[i].size \in Nat
    <3>1. call[i] \in Calls
      BY <1>1 DEF ThreadInv
    <3>. QED  BY <3>1, DataAssumption
  <2>5. returned' \in [Iters -> Nat] /\ current_timestamp' \in [Iters -> Nat \union {None}]
    <3> DEFINE l == Last(batch[i]).n
               ts == IF call[i].kind = "delta" THEN current_timestamp[i] + call[i].size
                     ELSE current_timestamp[i]
    <3>1. l \in Nat /\ ts \in Nat
      BY <2>2, <2>3, <2>4
    <3>2. /\ returned' = [returned EXCEPT ![i] = l]
          /\ current_timestamp' = [current_timestamp EXCEPT ![i] = ts]
      BY <1>3 DEF IterFails
    <3> HIDE DEF l, ts
    <3>3. returned \in [Iters -> Nat] /\ current_timestamp \in [Iters -> Nat \union {None}]
      BY DEF TypeOK
    <3>. QED  BY <3>1, <3>2, <3>3
  <2>. QED
    BY <1>1, <1>2, <1>3, <2>5
    DEF TypeOK, IterFails, LoadFails, fileVars, decodeVars, readerVars, Word
<1>4. CASE ~EndsBatch(i, error)
  <2>1. batch' \in [Iters -> Seq(Event)]
    <3>1. batch' = [batch EXCEPT ![i] = <<>>]
      BY <1>4 DEF IterFails
    <3>2. <<>> \in Seq(Event) /\ batch \in [Iters -> Seq(Event)]
      BY EmptySeq DEF TypeOK
    <3>. QED  BY <3>1, <3>2
  <2>. QED
    BY <1>1, <1>2, <1>4, <2>1
    DEF TypeOK, IterFails, LoadFails, fileVars, decodeVars, readerVars, Word
<1>. QED  BY <1>3, <1>4

LEMMA ReaderTypes ==
    ASSUME TypeOK, ThreadInv,
           \/ LoadBatch \/ Seek \/ SeekToNextExt \/ NextExtReceived \/ NextExtSeeks
           \/ \E error \in Errors : ReaderFails(error)
    PROVE  TypeOK'
<1> USE DEF fileVars, streamVars, decodeVars, iterVars, threadVars, readerVars, Word
<1>0. Reader \in Threads /\ MaxSeeks \in Nat
  BY DataAssumption DEF Threads
<1>1. CASE LoadBatch
  <2>1. ReaderBegins("load", "load")
    BY <1>1 DEF LoadBatch
  <2>. QED  BY <1>1, <2>1, ReaderCallTypes DEF TypeOK, LoadBatch
<1>2. CASE Seek
  <2>1. ReaderBegins("seek", "idle")
    BY <1>2 DEF Seek
  <2>2. seeks' \in 0..MaxSeeks /\ pos' \in 0..FileLen /\ eof' = FALSE
    BY <1>0, <1>2 DEF Seek, SeekTo, TypeOK
  <2>. QED  BY <1>2, <2>1, <2>2, ReaderCallTypes DEF TypeOK, Seek
<1>3. CASE SeekToNextExt
  <2>1. ReaderBegins("ext", "load")
    BY <1>3 DEF SeekToNextExt
  <2>2. seeks' \in 0..MaxSeeks
    BY <1>0, <1>3 DEF SeekToNextExt, TypeOK
  <2>. QED  BY <1>3, <2>1, <2>2, ReaderCallTypes DEF TypeOK, SeekToNextExt
<1>4. CASE NextExtReceived
  <2>1. Return(Reader, "TryRecv") \/ Goes(Reader, "seek")
    BY <1>4 DEF NextExtReceived
  <2>. QED  BY <1>0, <1>4, <2>1, GoesTypes, ReturnTypes DEF TypeOK, NextExtReceived
<1>5. CASE NextExtSeeks
  <2>1. Return(Reader, "ok") \/ Return(Reader, "LockError")
    BY <1>5 DEF NextExtSeeks
  <2>2. trigger \in 1..FileLen
    BY <1>5 DEF NextExtSeeks, ThreadInv, TypeOK
  <2>3. pos' \in 0..FileLen /\ eof' \in BOOLEAN
    <3>1. \/ pos' \in 0..trigger - 1 /\ eof' = FALSE
          \/ pos' = pos /\ eof' = eof
      BY <1>5 DEF NextExtSeeks, SeekTo
    <3>2. 0..trigger - 1 \subseteq 0..FileLen
      BY <2>2, DataAssumption
    <3>3. pos \in 0..FileLen /\ eof \in BOOLEAN
      BY DEF TypeOK
    <3>. QED  BY <3>1, <3>2, <3>3
  <2>4. "LockError" \in Errors
    BY DEF Errors
  <2>. QED  BY <1>0, <1>5, <2>1, <2>3, <2>4, ReturnTypes DEF TypeOK, NextExtSeeks
<1>6. ASSUME NEW error \in Errors, ReaderFails(error)
      PROVE  TypeOK'
  <2>1. Return(Reader, error) /\ eof' \in BOOLEAN
    BY <1>6 DEF ReaderFails, LoadFails, TypeOK
  <2>. QED  BY <1>0, <1>6, <2>1, ReturnTypes DEF TypeOK, ReaderFails, LoadFails
<1>. QED  BY <1>1, <1>2, <1>3, <1>4, <1>5, <1>6

LEMMA IterTypes ==
    ASSUME TypeOK, NEW i \in Iters,
           \/ AsWindows(i) \/ Replenish(i) \/ DrainChannel(i) \/ TryDrainFails(i)
           \/ \E c \in Calls : NextEvents(i, c)
    PROVE  TypeOK'
<1> USE DEF fileVars, streamVars, decodeVars, iterVars, threadVars, readerVars, Word
<1>0. i \in Threads
  BY DEF Threads
<1>1. CASE AsWindows(i)
  BY <1>1 DEF TypeOK, AsWindows
<1>2. CASE Replenish(i)
  <2>1. Goes(i, "drain")
    BY <1>2 DEF Replenish
  <2>. QED  BY <1>0, <1>2, <2>1, GoesTypes DEF TypeOK, Replenish
<1>3. CASE DrainChannel(i)
  <2>1. Goes(i, "take")
    BY <1>3 DEF DrainChannel
  <2>2. Head(receiver[i]) \in Seq(Event) /\ Tail(receiver[i]) \in Batches
    BY <1>3, HeadTailProperties DEF DrainChannel, TypeOK, Batches
  <2>3. internal_buffer' \in [Iters -> Seq(Event)] /\ receiver' \in [Iters -> Batches]
    BY <1>3, <2>2 DEF DrainChannel, TypeOK
  <2>. QED  BY <1>0, <1>3, <2>1, <2>3, GoesTypes DEF TypeOK, DrainChannel
<1>4. CASE TryDrainFails(i)
  <2>1. Goes(i, "load")
    BY <1>4 DEF TryDrainFails
  <2>. QED  BY <1>0, <1>4, <2>1, GoesTypes DEF TypeOK, TryDrainFails
<1>5. ASSUME NEW c \in Calls, NextEvents(i, c)
      PROVE  TypeOK'
  <2>1. /\ pc' \in [Threads -> {"idle", "take", "drain", "load", "decode", "check", "seek"}]
        /\ call' \in [Threads -> Calls \union [kind : program.calls \union {"none"}, size : {0}]]
        /\ result' = result
    BY <1>5 DEF TypeOK, NextEvents, Begins
  <2>2. batch' \in [Iters -> Seq(Event)]
    BY <1>5 DEF TypeOK, NextEvents
  <2>. QED  BY <1>5, <2>1, <2>2 DEF TypeOK, NextEvents
<1>. QED  BY <1>1, <1>2, <1>3, <1>4, <1>5

LEMMA LoadReturnTypes ==
    ASSUME TypeOK, NEW t \in Threads, LoadReturns(t)
    PROVE  TypeOK'
<1>1. Goes(t, "drain") \/ Goes(t, "check") \/ Return(t, "ok")
  BY DEF LoadReturns
<1>. QED
  BY <1>1, GoesTypes, ReturnTypes, SMTT(60)
  DEF TypeOK, LoadReturns, fileVars, streamVars, decodeVars, iterVars, readerVars, Word

(* The type invariant, with what its preservation rests on.                *)
LEMMA TypesKept ==
    ASSUME TypeOK, ThreadInv, BufferInv, BaselineInv, [Next]_vars
    PROVE  TypeOK'
<1>1. CASE UNCHANGED vars
  BY <1>1
  DEF TypeOK, vars, fileVars, streamVars, decodeVars, iterVars, threadVars, readerVars, Word
<1>2. ASSUME NEW t \in Threads, LoadStep(t)
      PROVE  TypeOK'
  BY <1>2, ReadTypes, SentTypes, LoadReturnTypes DEF LoadStep
<1>3. ASSUME NEW i \in Iters, TakeEvents(i)
      PROVE  TypeOK'
  <2>1. pc[i] # "idle"
    BY <1>3 DEF TakeEvents
  <2>2. call[i] \in Calls /\ (call[i].kind = "n" => Len(batch[i]) < call[i].size)
    BY <2>1 DEF ThreadInv, BufferInv
  <2>. QED  BY <1>3, <2>2, TakenTypes
<1>4. Reader \in Threads /\ Iters \subseteq Threads
  BY DEF Threads
<1>5. CASE ReaderStep
  BY <1>2, <1>4, <1>5, ReaderTypes DEF ReaderStep
<1>6. ASSUME NEW i \in Iters, IterStep(i)
      PROVE  TypeOK'
  BY <1>2, <1>3, <1>4, <1>6, IterTypes, FailTypes DEF IterStep
<1>. QED  BY <1>1, <1>5, <1>6, IterTypes, ReaderTypes DEF Next

-----------------------------------------------------------------------------
(* Threads and the lock.                                                   *)
LEMMA Distinct ==
    /\ Reader \notin Iters /\ NoOne \notin Threads /\ Reader \in Threads /\ Iters \subseteq Threads
    /\ SyncIters \subseteq Iters /\ AsyncIters \subseteq Iters
BY ThreadsAssumption DEF Threads, Iters

LEMMA LockKept ==
    ASSUME LockInv, lock' = lock, pending' = pending,
           \A t \in Threads : pc'[t] = "decode" <=> pc[t] = "decode"
    PROVE  LockInv'
BY DEF LockInv

LEMMA LockStep ==
    ASSUME TypeOK, LockInv, [Next]_vars
    PROVE  LockInv'
<1>1. CASE UNCHANGED vars
  BY <1>1, LockKept DEF vars, decodeVars, threadVars
<1>2. ASSUME NEW t \in Threads, LoadStep(t)
      PROVE  LockInv'
  <2>1. CASE LoadReads(t)
    <3>1. /\ lock = NoOne /\ lock' = t /\ pc' = [pc EXCEPT ![t] = "decode"]
          /\ \E events : pending' = [pending EXCEPT ![t] = events]
      BY <2>1 DEF LoadReads, Holds, Goes
    <3>. QED  BY <1>2, <3>1, Distinct DEF LockInv, TypeOK
  <2>2. CASE DecodeSends(t)
    <3>1. /\ lock' = lock /\ pc' = pc /\ pc[t] = "decode"
          /\ \E events : pending' = [pending EXCEPT ![t] = events]
      BY <2>2 DEF DecodeSends, threadVars
    <3>. QED  BY <1>2, <3>1 DEF LockInv, TypeOK
  <2>3. CASE LoadReturns(t)
    <3>1. /\ lock' = NoOne /\ pending' = pending /\ pending[t] = <<>> /\ pc[t] = "decode"
          /\ \E w \in {"drain", "check", "idle"} : pc' = [pc EXCEPT ![t] = w]
      BY <2>3 DEF LoadReturns, decodeVars, Goes, Return
    <3>. QED  BY <1>2, <3>1, Distinct DEF LockInv, TypeOK
  <2>. QED  BY <1>2, <2>1, <2>2, <2>3 DEF LoadStep
<1>3. ASSUME NEW t \in Threads, lock' = lock, pending' = pending, pc[t] # "decode",
             NEW w, w # "decode", pc' = [pc EXCEPT ![t] = w]
      PROVE  LockInv'
  BY <1>3, LockKept DEF TypeOK
<1>4. CASE LoadBatch \/ Seek \/ SeekToNextExt
  <2>1. lock' = lock /\ pending' = pending /\ Free(Reader)
    BY <1>4 DEF LoadBatch, Seek, SeekToNextExt, decodeVars, ReaderBegins, Begins
  <2>2. \E w : w # "decode" /\ pc' = [pc EXCEPT ![Reader] = w]
    BY <1>4 DEF LoadBatch, Seek, SeekToNextExt, ReaderBegins, Begins
  <2>3. pc[Reader] # "decode"
    BY <2>1, Distinct DEF Free
  <2>. QED  BY <1>3, <2>1, <2>2, <2>3, Distinct
<1>5. CASE NextExtReceived \/ NextExtSeeks \/ \E error \in Errors : ReaderFails(error)
  <2>1. lock' = lock /\ pending' = pending /\ pc[Reader] # "decode"
    BY <1>5 DEF NextExtReceived, NextExtSeeks, ReaderFails, LoadFails, decodeVars
  <2>2. \E w : w # "decode" /\ pc' = [pc EXCEPT ![Reader] = w]
    BY <1>5 DEF NextExtReceived, NextExtSeeks, ReaderFails, Goes, Return
  <2>. QED  BY <1>3, <2>1, <2>2, Distinct
<1>6. ASSUME NEW i \in Iters, NEW c \in Calls, NextEvents(i, c)
      PROVE  LockInv'
  <2>1. lock' = lock /\ pending' = pending /\ Free(i) /\ pc' = [pc EXCEPT ![i] = "take"]
    BY <1>6 DEF NextEvents, Begins, decodeVars
  <2>2. pc[i] # "decode"
    BY <2>1, Distinct DEF Free
  <2>. QED  BY <1>3, <2>1, <2>2, Distinct
<1>7. ASSUME NEW i \in Iters, AsWindows(i)
      PROVE  LockInv'
  BY <1>7, LockKept DEF AsWindows, decodeVars, threadVars
<1>8. ASSUME NEW i \in Iters,
             \/ TakeEvents(i) \/ Replenish(i) \/ DrainChannel(i) \/ TryDrainFails(i)
             \/ \E error \in Errors : IterFails(i, error)
      PROVE  LockInv'
  <2>1. lock' = lock /\ pending' = pending /\ pc[i] # "decode"
    BY <1>8 DEF TakeEvents, Replenish, DrainChannel, TryDrainFails, IterFails, LoadFails, decodeVars
  <2>2. \E w : w # "decode" /\ pc' = [pc EXCEPT ![i] = w]
    BY <1>8 DEF TakeEvents, Replenish, DrainChannel, TryDrainFails, IterFails, Goes, Return
  <2>. QED  BY <1>3, <2>1, <2>2, Distinct
<1>. QED
  BY <1>1, <1>2, <1>4, <1>5, <1>6, <1>7, <1>8, Distinct DEF Next, IterStep, ReaderStep

(* When one thread loads it is a synchronous iterator.                     *)
LEMMA TheLoader ==
    ASSUME ThreadInv, OneLoader, NEW t \in Threads, pc[t] \in {"load", "decode"}
    PROVE  /\ t \in SyncIters /\ t \in subscribed
           /\ \A u \in Threads : pc[u] \in {"load", "decode"} => u = t
<1>1. \A u \in Threads : pc[u] \in {"load", "decode"} =>
                         u \in SyncIters \intersect program.iters /\ u \in subscribed
  <2>1. SUFFICES ASSUME NEW u \in Threads, pc[u] \in {"load", "decode"}
                 PROVE  u \in SyncIters \intersect program.iters /\ u \in subscribed
    OBVIOUS
  <2>2. u # Reader
    BY <2>1 DEF ThreadInv, OneLoader
  <2>3. u \in Iters
    BY <2>2 DEF Threads
  <2>. QED  BY <2>1, <2>3 DEF ThreadInv
<1>. QED  BY <1>1 DEF OneLoader

(* Where threads are, and what they call.                                  *)
PcOfIter(i) ==
    /\ pc[i] \in {"idle", "take", "drain", "load", "decode"}
    /\ pc[i] # "idle" => i \in subscribed /\ call[i] \in Calls
    /\ pc[i] \in {"load", "decode"} => i \in SyncIters
PcOfReader ==
    /\ pc[Reader] \in {"idle", "load", "decode", "check", "seek"}
    /\ pc[Reader] # "idle" => call[Reader].kind \in program.calls \intersect {"load", "ext"}
    /\ pc[Reader] \in {"check", "seek"} => call[Reader].kind = "ext"
    /\ pc[Reader] = "seek" => trigger # None
    /\ call[Reader].kind = "ext" => seeks > 0

LEMMA ThreadParts ==
    ThreadInv <=> /\ subscribed \subseteq program.iters
                  /\ subscribed # {} => started
                  /\ \A i \in Iters : PcOfIter(i)
                  /\ PcOfReader
                  /\ eof => pos = FileLen \/ program.ioErrors
BY DEF ThreadInv, PcOfIter, PcOfReader

LEMMA ThreadPartsNext ==
    ThreadInv' <=> /\ subscribed' \subseteq program'.iters
                   /\ subscribed' # {} => started'
                   /\ \A i \in Iters : PcOfIter(i)'
                   /\ PcOfReader'
                   /\ eof' => pos' = FileLen \/ program'.ioErrors
BY DEF ThreadInv, PcOfIter, PcOfReader

(* A step of the reader leaves the iterators where they are.               *)
LEMMA ReaderMoves ==
    ASSUME TypeOK, ThreadInv, program' = program, subscribed' = subscribed,
           started => started',
           NEW w, pc' = [pc EXCEPT ![Reader] = w],
           \A i \in Iters : call'[i] = call[i],
           PcOfReader', eof' => pos' = FileLen \/ program.ioErrors
    PROVE  ThreadInv'
<1>1. \A i \in Iters : pc'[i] = pc[i]
  BY Distinct DEF TypeOK
<1>2. \A i \in Iters : PcOfIter(i)'
  BY <1>1, ThreadParts DEF PcOfIter
<1>. QED  BY <1>2, ThreadParts, ThreadPartsNext

(* A step of an iterator leaves the others and the reader where they are.  *)
LEMMA IterMoves ==
    ASSUME TypeOK, ThreadInv, program' = program, subscribed' = subscribed, started' = started,
           NEW i \in Iters, NEW w, pc' = [pc EXCEPT ![i] = w],
           \A t \in Threads \ {i} : call'[t] = call[t],
           seeks' = seeks, trigger # None => trigger' # None,
           PcOfIter(i)', eof' => pos' = FileLen \/ program.ioErrors
    PROVE  ThreadInv'
<1>1. \A t \in Threads \ {i} : pc'[t] = pc[t]
  BY Distinct DEF TypeOK
<1>2. \A j \in Iters : PcOfIter(j)'
  <2>1. SUFFICES ASSUME NEW j \in Iters, j # i PROVE PcOfIter(j)'
    OBVIOUS
  <2>2. pc'[j] = pc[j] /\ call'[j] = call[j]
    BY <1>1, <2>1, Distinct
  <2>. QED  BY <2>2, ThreadParts DEF PcOfIter
<1>3. PcOfReader'
  <2>1. pc'[Reader] = pc[Reader] /\ call'[Reader] = call[Reader]
    BY <1>1, Distinct
  <2>. QED  BY <2>1, ThreadParts DEF PcOfReader
<1>. QED  BY <1>2, <1>3, ThreadParts, ThreadPartsNext

LEMMA ReadStepThreads ==
    ASSUME TypeOK, ThreadInv, NEW t \in Threads, LoadReads(t)
    PROVE  ThreadInv'
<1>1. /\ pc[t] = "load" /\ program' = program /\ subscribed' = subscribed /\ started' = started
      /\ pc' = [pc EXCEPT ![t] = "decode"] /\ call' = call /\ seeks' = seeks
      /\ eof' = eof /\ ~eof
  BY DEF LoadReads, Goes, fileVars, AtEnd
<1>2. trigger # None => trigger' # None
  BY DEF LoadReads
<1>3. CASE t = Reader
  <2>1. PcOfReader'
    BY <1>1, <1>3, Distinct, ThreadParts DEF PcOfReader, TypeOK
  <2>. QED  BY <1>1, <1>3, <2>1, ReaderMoves
<1>4. CASE t # Reader
  <2>1. t \in Iters
    BY <1>4 DEF Threads
  <2>2. PcOfIter(t)'
    BY <1>1, <2>1, Distinct, ThreadParts DEF PcOfIter, TypeOK
  <2>3. \A u \in Threads \ {t} : call'[u] = call[u]
    BY <1>1
  <2>4. eof' => pos' = FileLen \/ program.ioErrors
    BY <1>1
  <2>. QED  BY <1>1, <1>2, <2>1, <2>2, <2>3, <2>4, IterMoves
<1>. QED  BY <1>3, <1>4

LEMMA LoadReturnsThreads ==
    ASSUME TypeOK, ThreadInv, NEW t \in Threads, LoadReturns(t)
    PROVE  ThreadInv'
<1>1. /\ pc[t] = "decode" /\ program' = program /\ subscribed' = subscribed /\ started' = started
      /\ call' = call /\ seeks' = seeks /\ trigger' = trigger /\ eof' = eof /\ pos' = pos
      /\ pc' = [pc EXCEPT ![t] = IF t \in SyncIters THEN "drain"
                                 ELSE IF call[t].kind = "ext" THEN "check" ELSE "idle"]
  BY DEF LoadReturns, Goes, Return, streamVars, fileVars, readerVars
<1>2. eof' => pos' = FileLen \/ program.ioErrors
  BY <1>1 DEF ThreadInv
<1>3. CASE t = Reader
  <2>1. PcOfReader'
    BY <1>1, <1>3, Distinct, ThreadParts DEF PcOfReader, TypeOK
  <2>. QED  BY <1>1, <1>2, <1>3, <2>1, ReaderMoves
<1>4. CASE t # Reader
  <2>1. t \in Iters
    BY <1>4 DEF Threads
  <2>2. PcOfIter(t) /\ t \in SyncIters
    BY <1>1, <2>1, ThreadParts DEF PcOfIter
  <2>3. PcOfIter(t)'
    BY <1>1, <2>2, <2>1, Distinct DEF PcOfIter, TypeOK
  <2>4. /\ \A u \in Threads \ {t} : call'[u] = call[u]
        /\ trigger # None => trigger' # None
        /\ pc' = [pc EXCEPT ![t] = "drain"]
    BY <1>1, <2>2
  <2>. QED  BY <1>1, <1>2, <2>1, <2>3, <2>4, IterMoves
<1>. QED  BY <1>3, <1>4

LEMMA ReaderThreads ==
    ASSUME TypeOK, ThreadInv,
           \/ LoadBatch \/ Seek \/ SeekToNextExt \/ NextExtReceived \/ NextExtSeeks
           \/ \E error \in Errors : ReaderFails(error)
    PROVE  ThreadInv'
<1> USE DEF fileVars, streamVars, readerVars
<1>0. Reader \in Threads /\ PcOfReader /\ seeks \in Nat
  BY Distinct, ThreadParts DEF TypeOK, PcOfReader
<1>1. /\ program' = program /\ subscribed' = subscribed /\ (started => started')
      /\ \A i \in Iters : call'[i] = call[i]
  BY Distinct
  DEF TypeOK, LoadBatch, Seek, SeekToNextExt, NextExtReceived, NextExtSeeks, ReaderFails, LoadFails,
      Goes, Return, ReaderBegins, Begins
<1>2. CASE LoadBatch
  <2>1. /\ pc' = [pc EXCEPT ![Reader] = "load"] /\ "load" \in program.calls
        /\ call'[Reader].kind = "load" /\ eof' = eof /\ pos' = pos
    BY <1>0, <1>2 DEF LoadBatch, ReaderBegins, Begins, TypeOK
  <2>2. PcOfReader'
    BY <1>0, <1>1, <2>1 DEF PcOfReader, TypeOK
  <2>. QED  BY <1>1, <2>1, <2>2, ReaderMoves DEF ThreadInv
<1>3. CASE Seek
  <2>1. /\ pc' = [pc EXCEPT ![Reader] = "idle"] /\ call'[Reader].kind = "seek" /\ ~eof'
    BY <1>0, <1>3 DEF Seek, SeekTo, ReaderBegins, Begins, TypeOK
  <2>2. PcOfReader'
    BY <1>0, <1>1, <2>1 DEF PcOfReader, TypeOK
  <2>. QED  BY <1>1, <2>1, <2>2, ReaderMoves
<1>4. CASE SeekToNextExt
  <2>1. /\ pc' = [pc EXCEPT ![Reader] = "load"] /\ "ext" \in program.calls
        /\ call'[Reader].kind = "ext" /\ eof' = eof /\ pos' = pos /\ seeks' = seeks + 1
    BY <1>0, <1>4 DEF SeekToNextExt, ReaderBegins, Begins, TypeOK
  <2>2. PcOfReader'
    BY <1>0, <1>1, <2>1 DEF PcOfReader, TypeOK
  <2>. QED  BY <1>1, <2>1, <2>2, ReaderMoves DEF ThreadInv
<1>5. CASE NextExtReceived
  <2>1. /\ pc[Reader] = "check" /\ call' = call /\ eof' = eof /\ pos' = pos
        /\ trigger' = trigger /\ seeks' = seeks
        /\ pc' = [pc EXCEPT ![Reader] = IF trigger = None THEN "idle" ELSE "seek"]
    BY <1>5 DEF NextExtReceived, Goes, Return
  <2>2. PcOfReader'
    BY <1>0, <1>1, <2>1 DEF PcOfReader, TypeOK
  <2>. QED  BY <1>1, <2>1, <2>2, ReaderMoves DEF ThreadInv
<1>6. CASE NextExtSeeks
  <2>1. /\ pc[Reader] = "seek" /\ call' = call /\ trigger' = trigger /\ seeks' = seeks
        /\ pc' = [pc EXCEPT ![Reader] = "idle"]
        /\ ~eof' \/ (eof' = eof /\ pos' = pos)
    BY <1>6 DEF NextExtSeeks, SeekTo, Return
  <2>2. PcOfReader'
    BY <1>0, <1>1, <2>1 DEF PcOfReader, TypeOK
  <2>. QED  BY <1>1, <2>1, <2>2, ReaderMoves DEF ThreadInv
<1>7. ASSUME NEW error \in Errors, ReaderFails(error)
      PROVE  ThreadInv'
  <2>1. /\ call' = call /\ trigger' = trigger /\ seeks' = seeks /\ pos' = pos
        /\ pc' = [pc EXCEPT ![Reader] = "idle"]
        /\ eof' = eof \/ AtEnd \/ program.ioErrors
    BY <1>7 DEF ReaderFails, LoadFails, Return
  <2>2. PcOfReader'
    BY <1>0, <1>1, <2>1 DEF PcOfReader, TypeOK
  <2>3. eof' => pos' = FileLen \/ program.ioErrors
    BY <2>1 DEF ThreadInv, AtEnd
  <2>. QED  BY <1>1, <2>1, <2>2, <2>3, ReaderMoves
<1>. QED  BY <1>2, <1>3, <1>4, <1>5, <1>6, <1>7

LEMMA IterThreads ==
    ASSUME TypeOK, ThreadInv, NEW i \in Iters,
           \/ TakeEvents(i) \/ Replenish(i) \/ DrainChannel(i) \/ TryDrainFails(i)
           \/ \E error \in Errors : IterFails(i, error)
           \/ \E c \in Calls : NextEvents(i, c)
    PROVE  ThreadInv'
<1> USE DEF fileVars, streamVars, readerVars
<1>1. /\ program' = program /\ subscribed' = subscribed /\ started' = started
      /\ \A t \in Threads \ {i} : call'[t] = call[t]
      /\ trigger' = trigger /\ seeks' = seeks /\ pos' = pos
  BY DEF TypeOK, TakeEvents, Replenish, DrainChannel, TryDrainFails, IterFails, LoadFails,
         NextEvents, Begins, Goes, Return
<1>2. eof' => pos' = FileLen \/ program.ioErrors
  BY <1>1
  DEF ThreadInv, TakeEvents, Replenish, DrainChannel, TryDrainFails, IterFails, LoadFails,
      NextEvents, AtEnd
<1>3. PcOfIter(i) /\ i \in Threads
  BY Distinct, ThreadParts
<1>4. CASE \E c \in Calls : NextEvents(i, c)
  <2>1. /\ pc' = [pc EXCEPT ![i] = "take"] /\ i \in subscribed /\ call'[i] \in Calls
    BY <1>3, <1>4 DEF NextEvents, Begins, TypeOK
  <2>2. PcOfIter(i)'
    BY <1>1, <1>3, <2>1 DEF PcOfIter, TypeOK
  <2>. QED  BY <1>1, <1>2, <2>1, <2>2, IterMoves
<1>5. CASE \/ TakeEvents(i) \/ Replenish(i) \/ DrainChannel(i) \/ TryDrainFails(i)
           \/ \E error \in Errors : IterFails(i, error)
  <2>1. pc[i] # "idle" /\ call' = call
    BY <1>5, SMTT(60)
    DEF TakeEvents, Replenish, DrainChannel, TryDrainFails, IterFails, LoadFails, Goes, Return
  <2>2. PICK w \in {"idle", "take", "drain", "load"} :
             pc' = [pc EXCEPT ![i] = w] /\ (w = "load" => i \in SyncIters)
    BY <1>5 DEF TakeEvents, Replenish, DrainChannel, TryDrainFails, IterFails, Goes, Return
  <2>3. PcOfIter(i)'
    BY <1>1, <1>3, <2>1, <2>2 DEF PcOfIter, TypeOK
  <2>. QED  BY <1>1, <1>2, <2>2, <2>3, IterMoves
<1>. QED  BY <1>4, <1>5

LEMMA ThreadStep ==
    ASSUME TypeOK, ThreadInv, [Next]_vars
    PROVE  ThreadInv'
<1>1. CASE UNCHANGED vars
  BY <1>1 DEF ThreadInv, vars, fileVars, streamVars, threadVars, readerVars
<1>2. ASSUME NEW t \in Threads, DecodeSends(t)
      PROVE  ThreadInv'
  BY <1>2 DEF DecodeSends, ThreadInv, fileVars, streamVars, threadVars, readerVars
<1>3. ASSUME NEW i \in Iters, AsWindows(i)
      PROVE  ThreadInv'
  <2>1. /\ pc' = pc /\ call' = call /\ program' = program /\ trigger' = trigger /\ seeks' = seeks
        /\ eof' = eof /\ pos' = pos /\ started'
        /\ subscribed \subseteq subscribed' /\ subscribed' \subseteq program.iters
    BY <1>3 DEF AsWindows, fileVars, threadVars, readerVars, ThreadInv
  <2>. QED  BY <2>1 DEF ThreadInv
<1>4. ASSUME NEW t \in Threads, LoadStep(t)
      PROVE  ThreadInv'
  BY <1>2, <1>4, ReadStepThreads, LoadReturnsThreads DEF LoadStep
<1>5. CASE ReaderStep
  BY <1>4, <1>5, Distinct, ReaderThreads DEF ReaderStep
<1>6. ASSUME NEW i \in Iters, IterStep(i)
      PROVE  ThreadInv'
  BY <1>4, <1>6, Distinct, IterThreads DEF IterStep
<1>. QED  BY <1>1, <1>3, <1>5, <1>6, ReaderThreads, IterThreads DEF Next

-----------------------------------------------------------------------------
(* Buffers and channels of iterators that load.                            *)
BufferOf(i) ==
    /\ i \notin subscribed => internal_buffer[i] = <<>> /\ receiver[i] = <<>>
    /\ pc[i] \in {"drain", "load", "decode"} => internal_buffer[i] = <<>>
    /\ OneLoader /\ pc[i] = "load" => receiver[i] = <<>>
    /\ pc[i] # "idle" /\ call[i].kind = "n" => Len(batch[i]) < call[i].size

LEMMA BufferParts ==
    /\ BufferInv <=> \A i \in Iters : BufferOf(i)
    /\ BufferInv' <=> \A i \in Iters : BufferOf(i)'
BY DEF BufferInv, BufferOf

LEMMA BufferKept ==
    ASSUME NEW i \in Iters, BufferOf(i), program' = program, subscribed \subseteq subscribed',
           internal_buffer'[i] = internal_buffer[i], receiver'[i] = receiver[i],
           batch'[i] = batch[i], call'[i] = call[i],
           pc'[i] # "idle" => pc[i] # "idle",
           pc'[i] \in {"drain", "load", "decode"} => internal_buffer[i] = <<>>,
           pc'[i] = "load" => receiver[i] = <<>> \/ pc[i] = "load"
    PROVE  BufferOf(i)'
BY DEF BufferOf, OneLoader

(* A step that moves one thread and changes no buffer.                     *)
LEMMA BuffersKept ==
    ASSUME TypeOK, BufferInv, program' = program, subscribed' = subscribed,
           internal_buffer' = internal_buffer, receiver' = receiver, batch' = batch,
           NEW t \in Threads, NEW w, pc' = [pc EXCEPT ![t] = w],
           \A u \in Iters : call'[u] = call[u],
           t \in Iters => /\ w # "idle" => pc[t] # "idle"
                          /\ w \in {"drain", "load", "decode"} => internal_buffer[t] = <<>>
                          /\ w = "load" => receiver[t] = <<>> \/ pc[t] = "load"
    PROVE  BufferInv'
<1>1. SUFFICES ASSUME NEW i \in Iters PROVE BufferOf(i)'
  BY BufferParts
<1>2. BufferOf(i) /\ i \in Threads
  BY BufferParts, Distinct
<1>3. pc'[i] = IF i = t THEN w ELSE pc[i]
  BY <1>2 DEF TypeOK
<1>4. pc[i] \in {"drain", "load", "decode"} => internal_buffer[i] = <<>>
  BY <1>2 DEF BufferOf
<1>5. pc'[i] \in {"drain", "load", "decode"} => internal_buffer[i] = <<>>
  BY <1>3, <1>4
<1>. QED  BY <1>2, <1>3, <1>5, BufferKept

(* A step of one iterator, which may change its own.                       *)
LEMMA OtherBuffersKept ==
    ASSUME TypeOK, BufferInv, program' = program, subscribed' = subscribed,
           NEW i \in Iters, BufferOf(i)',
           NEW w, pc' = [pc EXCEPT ![i] = w],
           \A j \in Iters \ {i} : /\ internal_buffer'[j] = internal_buffer[j]
                                  /\ receiver'[j] = receiver[j]
                                  /\ batch'[j] = batch[j]
                                  /\ call'[j] = call[j]
    PROVE  BufferInv'
<1>1. SUFFICES ASSUME NEW j \in Iters, j # i PROVE BufferOf(j)'
  BY BufferParts
<1>2. BufferOf(j) /\ pc'[j] = pc[j]
  BY <1>1, BufferParts, Distinct DEF TypeOK
<1>3. pc[j] \in {"drain", "load", "decode"} => internal_buffer[j] = <<>>
  BY <1>2 DEF BufferOf
<1>4. pc'[j] \in {"drain", "load", "decode"} => internal_buffer[j] = <<>>
  BY <1>2, <1>3
<1>. QED  BY <1>1, <1>2, <1>4, BufferKept

LEMMA SendBuffers ==
    ASSUME TypeOK, ThreadInv, BufferInv, NEW t \in Threads, DecodeSends(t)
    PROVE  BufferInv'
<1>1. SUFFICES ASSUME NEW i \in Iters PROVE BufferOf(i)'
  BY BufferParts
<1>2. /\ pc[t] = "decode" /\ pc' = pc /\ program' = program /\ subscribed' = subscribed
      /\ internal_buffer' = internal_buffer /\ batch' = batch /\ call' = call
  BY DEF DecodeSends, streamVars, fileVars, iterVars, threadVars
<1>3. \E events : receiver' = [j \in Iters |-> IF j \in subscribed THEN Append(receiver[j], events)
                                                                  ELSE receiver[j]]
  BY DEF DecodeSends
<1>4. i \notin subscribed => receiver'[i] = receiver[i]
  BY <1>3
<1>5. OneLoader => pc[i] # "load"
  <2>1. SUFFICES ASSUME OneLoader, pc[i] = "load" PROVE FALSE
    OBVIOUS
  <2>2. i = t
    BY <1>2, <2>1, Distinct, TheLoader
  <2>. QED  BY <1>2, <2>1, <2>2
<1>6. OneLoader' <=> OneLoader
  BY <1>2 DEF OneLoader
<1>7. BufferOf(i)
  BY BufferParts
<1>. QED  BY <1>2, <1>4, <1>5, <1>6, <1>7 DEF BufferOf

LEMMA LoadBuffers ==
    ASSUME TypeOK, BufferInv, NEW t \in Threads, LoadReads(t) \/ LoadReturns(t)
    PROVE  BufferInv'
<1>1. /\ pc[t] \in {"load", "decode"}
      /\ program' = program /\ subscribed' = subscribed /\ call' = call
      /\ internal_buffer' = internal_buffer /\ receiver' = receiver /\ batch' = batch
  BY DEF LoadReads, LoadReturns, Goes, Return, streamVars, fileVars, iterVars
<1>2. PICK w \in {"idle", "drain", "check", "decode"} : pc' = [pc EXCEPT ![t] = w]
  BY DEF LoadReads, LoadReturns, Goes, Return
<1>3. t \in Iters => internal_buffer[t] = <<>>
  BY <1>1 DEF BufferInv
<1>. QED  BY <1>1, <1>2, <1>3, BuffersKept

LEMMA ReaderBuffers ==
    ASSUME TypeOK, BufferInv,
           \/ LoadBatch \/ Seek \/ SeekToNextExt \/ NextExtReceived \/ NextExtSeeks
           \/ \E error \in Errors : ReaderFails(error)
    PROVE  BufferInv'
<1>1. /\ program' = program /\ subscribed' = subscribed
      /\ internal_buffer' = internal_buffer /\ receiver' = receiver /\ batch' = batch
  BY DEF LoadBatch, Seek, SeekToNextExt, NextExtReceived, NextExtSeeks, ReaderFails, LoadFails,
         streamVars, fileVars, iterVars
<1>2. \E w : pc' = [pc EXCEPT ![Reader] = w]
  BY DEF LoadBatch, Seek, SeekToNextExt, NextExtReceived, NextExtSeeks, ReaderFails,
         ReaderBegins, Begins, Goes, Return
<1>3. \A i \in Iters : call'[i] = call[i]
  BY Distinct
  DEF LoadBatch, Seek, SeekToNextExt, NextExtReceived, NextExtSeeks, ReaderFails,
      ReaderBegins, Begins, Goes, Return, TypeOK
<1>. QED  BY <1>1, <1>2, <1>3, Distinct, BuffersKept

LEMMA TakeBuffers ==
    ASSUME TypeOK, ThreadInv, BufferInv, NEW i \in Iters, TakeEvents(i)
    PROVE  BufferInv'
<1> DEFINE k == Popped(i)
           buf == internal_buffer[i]
           taken == batch[i] \o SubSeq(buf, 1, k)
<1>1. /\ pc[i] = "take" /\ buf # <<>> /\ i \in subscribed /\ call[i] \in Calls
      /\ call[i].kind = "n" => Len(batch[i]) < call[i].size
  BY DEF TakeEvents, ThreadInv, BufferInv
<1>2. /\ k \in 0..Len(buf) /\ Len(buf) \in Nat
      /\ ~Complete(i, k) => k = Len(buf)
      /\ call[i].kind = "n" /\ ~Complete(i, k) => Len(batch[i]) + k < call[i].size
  BY <1>1, TakeFacts
<1>3. Len(taken) = Len(batch[i]) + k
  <2>1. buf \in Seq(Event) /\ batch[i] \in Seq(Event)
    BY DEF TypeOK
  <2>2. SubSeq(buf, 1, k) \in Seq(Event) /\ Len(SubSeq(buf, 1, k)) = k
    BY <1>2, <2>1, Cut
  <2>. QED  BY <2>1, <2>2, ConcatProperties
<1>4. ~Complete(i, k) => SubSeq(buf, k + 1, Len(buf)) = <<>>
  <2>1. \A n \in Nat : SubSeq(buf, n + 1, n) = <<>>
    OBVIOUS
  <2>. QED  BY <1>2, <2>1
<1>5. /\ program' = program /\ subscribed' = subscribed /\ receiver' = receiver /\ call' = call
      /\ batch' = [batch EXCEPT ![i] = taken]
      /\ internal_buffer' = [internal_buffer EXCEPT ![i] = SubSeq(buf, k + 1, Len(buf))]
      /\ pc' = [pc EXCEPT ![i] = IF Complete(i, k) THEN "idle" ELSE "drain"]
  BY DEF TakeEvents, Return, Goes, streamVars, fileVars
<1> HIDE DEF k, buf, taken
<1>6. /\ batch'[i] = taken /\ internal_buffer'[i] = SubSeq(buf, k + 1, Len(buf))
      /\ pc'[i] = IF Complete(i, k) THEN "idle" ELSE "drain"
  BY <1>5, Distinct DEF TypeOK
<1>7. BufferOf(i)'
  BY <1>1, <1>2, <1>3, <1>4, <1>5, <1>6 DEF BufferOf
<1>8. \A j \in Iters \ {i} : /\ internal_buffer'[j] = internal_buffer[j]
                             /\ receiver'[j] = receiver[j]
                             /\ batch'[j] = batch[j]
                             /\ call'[j] = call[j]
  BY <1>5 DEF TypeOK
<1>. QED  BY <1>5, <1>7, <1>8, OtherBuffersKept

LEMMA IterBuffers ==
    ASSUME TypeOK, ThreadInv, BufferInv, NEW i \in Iters,
           \/ Replenish(i) \/ DrainChannel(i) \/ TryDrainFails(i)
           \/ \E error \in Errors : IterFails(i, error)
           \/ \E c \in Calls : NextEvents(i, c)
    PROVE  BufferInv'
<1> USE DEF fileVars, streamVars
<1>1. program' = program /\ subscribed' = subscribed /\ i \in Threads
  BY Distinct DEF Replenish, DrainChannel, TryDrainFails, IterFails, LoadFails, NextEvents
<1>2. CASE Replenish(i) \/ TryDrainFails(i)
  <2>1. /\ internal_buffer' = internal_buffer /\ receiver' = receiver /\ batch' = batch
        /\ call' = call
        /\ \/ /\ pc' = [pc EXCEPT ![i] = "drain"]
              /\ pc[i] = "take" /\ internal_buffer[i] = <<>>
           \/ /\ pc' = [pc EXCEPT ![i] = "load"]
              /\ pc[i] = "drain" /\ receiver[i] = <<>>
    BY <1>2 DEF Replenish, TryDrainFails, NothingReceived, Goes, iterVars
  <2>2. internal_buffer[i] = <<>>
    BY <2>1 DEF BufferInv
  <2>. QED  BY <1>1, <2>1, <2>2, BuffersKept
<1>3. CASE DrainChannel(i)
  <2>1. /\ pc[i] = "drain" /\ pc' = [pc EXCEPT ![i] = "take"] /\ call' = call /\ batch' = batch
        /\ i \in subscribed
        /\ \A j \in Iters \ {i} : /\ internal_buffer'[j] = internal_buffer[j]
                                  /\ receiver'[j] = receiver[j]
    BY <1>3 DEF DrainChannel, Goes, TypeOK, ThreadInv
  <2>2. BufferOf(i)'
    BY <1>1, <2>1, BufferParts DEF BufferOf, TypeOK
  <2>. QED  BY <1>1, <2>1, <2>2, OtherBuffersKept
<1>4. ASSUME NEW error \in Errors, IterFails(i, error)
      PROVE  BufferInv'
  <2>1. /\ pc[i] = "load" /\ pc' = [pc EXCEPT ![i] = "idle"] /\ call' = call /\ i \in subscribed
        /\ internal_buffer' = internal_buffer /\ receiver' = receiver
        /\ \A j \in Iters \ {i} : batch'[j] = batch[j]
    BY <1>4 DEF IterFails, LoadFails, Return, TypeOK, ThreadInv
  <2>2. BufferOf(i)'
    BY <1>1, <2>1 DEF BufferOf, TypeOK
  <2>. QED  BY <1>1, <2>1, <2>2, OtherBuffersKept
<1>5. ASSUME NEW c \in Calls, NextEvents(i, c)
      PROVE  BufferInv'
  <2>1. /\ pc' = [pc EXCEPT ![i] = "take"] /\ i \in subscribed
        /\ call' = [call EXCEPT ![i] = c] /\ batch' = [batch EXCEPT ![i] = <<>>]
        /\ internal_buffer' = internal_buffer /\ receiver' = receiver
    BY <1>5 DEF NextEvents, Begins
  <2>2. c.size \in Nat \ {0} /\ Len(<<>>) = 0
    BY DataAssumption
  <2>3. call'[i] = c /\ batch'[i] = <<>> /\ pc'[i] = "take"
    BY <1>1, <2>1 DEF TypeOK
  <2>4. BufferOf(i)'
    BY <1>1, <2>1, <2>2, <2>3 DEF BufferOf
  <2>5. \A j \in Iters \ {i} : batch'[j] = batch[j] /\ call'[j] = call[j]
    BY <2>1, Distinct DEF TypeOK
  <2>. QED  BY <1>1, <2>1, <2>4, <2>5, OtherBuffersKept
<1>. QED  BY <1>2, <1>3, <1>4, <1>5

LEMMA BufferStep ==
    ASSUME TypeOK, ThreadInv, BufferInv, [Next]_vars
    PROVE  BufferInv'
<1>1. CASE UNCHANGED vars
  <2>1. /\ program' = program /\ subscribed' = subscribed /\ pc' = pc /\ call' = call
        /\ internal_buffer' = internal_buffer /\ receiver' = receiver /\ batch' = batch
    BY <1>1 DEF vars, streamVars, fileVars, iterVars, threadVars
  <2>. QED  BY <2>1 DEF BufferInv, OneLoader
<1>2. ASSUME NEW i \in Iters, AsWindows(i)
      PROVE  BufferInv'
  <2>1. /\ program' = program /\ subscribed \subseteq subscribed' /\ pc' = pc /\ call' = call
        /\ internal_buffer' = internal_buffer /\ receiver' = receiver /\ batch' = batch
    BY <1>2 DEF AsWindows, fileVars, threadVars
  <2>. QED  BY <2>1 DEF BufferInv, OneLoader
<1>3. ASSUME NEW t \in Threads, LoadStep(t)
      PROVE  BufferInv'
  BY <1>3, SendBuffers, LoadBuffers DEF LoadStep
<1>4. CASE ReaderStep
  BY <1>3, <1>4, Distinct, ReaderBuffers DEF ReaderStep
<1>5. ASSUME NEW i \in Iters, IterStep(i)
      PROVE  BufferInv'
  BY <1>3, <1>5, Distinct, TakeBuffers, IterBuffers DEF IterStep
<1>. QED  BY <1>1, <1>2, <1>4, <1>5, ReaderBuffers, IterBuffers DEF Next

-----------------------------------------------------------------------------
(* What steps do to the hands of an iterator.  Most leave them alone; a    *)
(* batch that is drained stays in them; what a call returns, or drops, is  *)
(* the first part of them.                                                 *)
LEMMA SameHand ==
    ASSUME NEW i \in Iters, internal_buffer'[i] = internal_buffer[i],
           receiver'[i] = receiver[i],
           IF pc[i] = "idle" THEN pc'[i] = "idle" \/ batch'[i] = <<>>
                             ELSE pc'[i] # "idle" /\ batch'[i] = batch[i]
    PROVE  Taken(i)' = Taken(i) /\ InHand(i)' = InHand(i)
BY DEF Taken, InHand

LEMMA DrainHand ==
    ASSUME TypeOK, TypeOK', BufferInv, NEW i \in Iters, DrainChannel(i)
    PROVE  /\ Taken(i)' = Taken(i)
           /\ Events(InHand(i))' = Events(InHand(i))
           /\ InOrder(InHand(i)) => InOrder(InHand(i))'
<1> DEFINE a == Taken(i)
           q == receiver[i]
<1>1. /\ pc[i] = "drain" /\ pc'[i] = "take" /\ batch' = batch /\ q # <<>>
      /\ internal_buffer[i] = <<>> /\ internal_buffer'[i] = Head(q) /\ receiver'[i] = Tail(q)
  BY Distinct DEF DrainChannel, Goes, TypeOK, BufferInv
<1>2. Taken(i)' = a
  BY <1>1 DEF Taken
<1>3. /\ a \in Seq(Event) /\ q \in Batches
      /\ Events(InHand(i)) = (Range(a) \union Range(<<>>)) \union Events(q)
      /\ InOrder(InHand(i)) => /\ Ascending(a) /\ InOrder(q)
                               /\ Before(Range(a) \union Range(<<>>), Events(q))
  BY <1>1, HandTypes
<1>4. /\ Events(InHand(i))' = (Range(a) \union Range(Head(q))) \union Events(Tail(q))
      /\ InOrder(InHand(i))' <=>
            /\ Ascending(a) /\ Ascending(Head(q)) /\ InOrder(Tail(q))
            /\ Before(Range(a), Range(Head(q)))
            /\ Before(Range(a) \union Range(Head(q)), Events(Tail(q)))
  BY <1>1, <1>2, HandTypesNext
<1>5. Events(q) = Range(Head(q)) \union Events(Tail(q))
  BY <1>1, <1>3, EventsSplit
<1>6. InOrder(q) => /\ InOrder(Tail(q)) /\ Ascending(Head(q))
                    /\ Before(Range(Head(q)), Events(Tail(q)))
  BY <1>1, <1>3, InOrderTail
<1>7. Range(<<>>) = {}
  BY DEF Range
<1> HIDE DEF a, q
<1>8. Events(InHand(i))' = Events(InHand(i))
  BY <1>3, <1>4, <1>5, <1>7
<1>9. ASSUME InOrder(InHand(i)) PROVE InOrder(InHand(i))'
  <2>1. Before(Range(a), Events(q))
    BY <1>3, <1>7, <1>9 DEF Before
  <2>2. /\ Before(Range(a), Range(Head(q)))
        /\ Before(Range(a) \union Range(Head(q)), Events(Tail(q)))
    BY <1>3, <1>5, <1>6, <1>9, <2>1 DEF Before
  <2>. QED  BY <1>3, <1>4, <1>6, <1>9, <2>2
<1>. QED  BY <1>2, <1>8, <1>9 DEF a

(* out, the first part of the hands, leaves them.                          *)
Gives(i, out) ==
    /\ out \in Seq(Event)
    /\ Events(InHand(i)) = Range(out) \union Events(InHand(i))'
    /\ InOrder(InHand(i)) => /\ Ascending(out) /\ InOrder(InHand(i))'
                             /\ Before(Range(out), Events(InHand(i))')

LEMMA TakeHand ==
    ASSUME TypeOK, TypeOK', ThreadInv, BufferInv, NEW i \in Iters, TakeEvents(i)
    PROVE  LET k == Popped(i)
               buf == internal_buffer[i]
               taken == batch[i] \o SubSeq(buf, 1, k)
           IN  /\ taken \in Seq(Event) /\ batch'[i] = taken
               /\ Range(taken) = Range(batch[i]) \union Range(SubSeq(buf, 1, k))
               /\ Taken(i) = batch[i]
               /\ Complete(i, k) => /\ pc'[i] = "idle" /\ Taken(i)' = <<>> /\ Gives(i, taken)
                                    /\ returned'[i] = IF taken = <<>> THEN returned[i]
                                                                      ELSE Last(taken).n
                                    /\ Events(InHand(i))' =
                                          Range(SubSeq(buf, k + 1, Len(buf))) \union Events(receiver[i])
               /\ ~Complete(i, k) => /\ pc'[i] # "idle" /\ Taken(i)' = taken
                                     /\ Range(taken) \subseteq Events(InHand(i))
                                     /\ Events(InHand(i))' = Events(InHand(i))
                                     /\ InOrder(InHand(i)) => InOrder(InHand(i))'
                                     /\ returned'[i] = returned[i]
<1> DEFINE k == Popped(i)
           buf == internal_buffer[i]
           b == batch[i]
           c == SubSeq(buf, 1, k)
           d == SubSeq(buf, k + 1, Len(buf))
           q == receiver[i]
           taken == b \o c
<1>1. /\ pc[i] = "take" /\ buf # <<>> /\ i \in subscribed /\ call[i] \in Calls
      /\ call[i].kind = "n" => Len(batch[i]) < call[i].size
  BY DEF TakeEvents, ThreadInv, BufferInv
<1>2. k \in 0..Len(buf) /\ Len(buf) \in Nat /\ (~Complete(i, k) => k = Len(buf))
  BY <1>1, TakeFacts
<1>3. /\ batch'[i] = taken /\ internal_buffer'[i] = d /\ receiver'[i] = q
      /\ pc'[i] = IF Complete(i, k) THEN "idle" ELSE "drain"
      /\ returned'[i] = IF ~Complete(i, k) \/ taken = <<>> THEN returned[i] ELSE Last(taken).n
  <2>1. /\ batch' = [batch EXCEPT ![i] = taken]
        /\ internal_buffer' = [internal_buffer EXCEPT ![i] = d]
        /\ receiver' = receiver
        /\ pc' = [pc EXCEPT ![i] = IF Complete(i, k) THEN "idle" ELSE "drain"]
        /\ IF Complete(i, k)
           THEN returned' = [returned EXCEPT ![i] = IF taken = <<>> THEN @ ELSE Last(taken).n]
           ELSE returned' = returned
    BY DEF TakeEvents, Return, Goes
  <2> HIDE DEF k, taken, d
  <2>2. /\ DOMAIN batch = Iters /\ DOMAIN internal_buffer = Iters /\ DOMAIN returned = Iters
        /\ i \in DOMAIN pc
    BY Distinct DEF TypeOK
  <2>. QED  BY <2>1, <2>2
<1>4. /\ buf \in Seq(Event) /\ b \in Seq(Event) /\ q \in Batches /\ Taken(i) = b
      /\ Events(InHand(i)) = (Range(b) \union Range(buf)) \union Events(q)
      /\ InOrder(InHand(i)) => /\ Ascending(b) /\ Ascending(buf) /\ InOrder(q)
                               /\ Before(Range(b), Range(buf))
                               /\ Before(Range(b) \union Range(buf), Events(q))
  <2>1. Taken(i) = b
    BY <1>1 DEF Taken
  <2>. QED  BY <2>1, HandTypes
<1>5. /\ c \in Seq(Event) /\ d \in Seq(Event) /\ Range(buf) = Range(c) \union Range(d)
      /\ Len(d) = Len(buf) - k
  BY <1>2, <1>4, Cut
<1>6. Ascending(buf) => Ascending(c) /\ Ascending(d) /\ Before(Range(c), Range(d))
  BY <1>2, <1>4, CutAscends
<1>7. taken \in Seq(Event) /\ Range(taken) = Range(b) \union Range(c)
  <2> HIDE DEF b, c
  <2>1. b \o c \in Seq(Event)
    BY <1>4, <1>5, ConcatProperties
  <2>2. Range(b \o c) = Range(b) \union Range(c)
    BY <1>4, <1>5, ConcatRange
  <2>. QED  BY <2>1, <2>2
<1>8. Ascending(b) /\ Ascending(c) /\ Before(Range(b), Range(c)) => Ascending(taken)
  BY <1>4, <1>5, AscendingConcat
<1>9. /\ Events(InHand(i))' = (Range(Taken(i)') \union Range(d)) \union Events(q)
      /\ InOrder(InHand(i))' <=>
            /\ Ascending(Taken(i)') /\ Ascending(d) /\ InOrder(q)
            /\ Before(Range(Taken(i)'), Range(d))
            /\ Before(Range(Taken(i)') \union Range(d), Events(q))
  BY <1>3, HandTypesNext
<1>10. Range(<<>>) = {} /\ Ascending(<<>>)
  BY DEF Range, Ascending
<1> HIDE DEF k, buf, b, c, d, q, taken
<1>11. InOrder(InHand(i)) => /\ Ascending(taken) /\ Ascending(d) /\ InOrder(q)
                             /\ Before(Range(taken), Range(d))
                             /\ Before(Range(taken) \union Range(d), Events(q))
  BY <1>4, <1>5, <1>6, <1>7, <1>8 DEF Before
<1>12. CASE Complete(i, k)
  <2>1. pc'[i] = "idle" /\ Taken(i)' = <<>>
    BY <1>3, <1>12 DEF Taken
  <2>2. Events(InHand(i))' = Range(d) \union Events(q)
    BY <1>9, <1>10, <2>1
  <2>3. Events(InHand(i)) = Range(taken) \union Events(InHand(i))'
    BY <1>4, <1>5, <1>7, <2>2
  <2>4. ASSUME InOrder(InHand(i))
        PROVE  /\ InOrder(InHand(i))'
               /\ Before(Range(taken), Events(InHand(i))')
    <3>1. Before(Range(taken), Range(d) \union Events(q)) /\ Before(Range(d), Events(q))
      BY <1>11, <2>4 DEF Before
    <3>2. Before({}, Range(d)) /\ Before({} \union Range(d), Events(q))
      BY <3>1 DEF Before
    <3>. QED  BY <1>9, <1>10, <1>11, <2>1, <2>2, <2>4, <3>1, <3>2
  <2>5. Gives(i, taken)
    BY <1>7, <1>11, <2>3, <2>4 DEF Gives
  <2>. QED  BY <1>3, <1>4, <1>7, <1>12, <2>1, <2>2, <2>5 DEF k, buf, b, c, d, q, taken
<1>13. CASE ~Complete(i, k)
  <2>1. pc'[i] # "idle" /\ Taken(i)' = taken
    BY <1>3, <1>13 DEF Taken
  <2>2. Events(InHand(i))' = Events(InHand(i)) /\ Range(taken) \subseteq Events(InHand(i))
    BY <1>4, <1>5, <1>7, <1>9, <2>1
  <2>3. InOrder(InHand(i)) => InOrder(InHand(i))'
    BY <1>9, <1>11, <2>1
  <2>. QED  BY <1>3, <1>4, <1>7, <1>13, <2>1, <2>2, <2>3 DEF k, buf, b, c, d, q, taken
<1>. QED  BY <1>12, <1>13

LEMMA FailHand ==
    ASSUME TypeOK, TypeOK', BufferInv, NEW i \in Iters, NEW error \in Errors, IterFails(i, error)
    PROVE  /\ Gives(i, batch[i]) /\ batch[i] \in Seq(Event)
           /\ Taken(i) = batch[i] /\ Taken(i)' = <<>> /\ pc'[i] = "idle"
           /\ Events(InHand(i))' = Events(receiver[i])
<1> DEFINE b == batch[i]
           q == receiver[i]
<1>1. /\ pc[i] = "load" /\ pc'[i] = "idle" /\ receiver' = receiver
      /\ internal_buffer[i] = <<>> /\ internal_buffer' = internal_buffer
  <2>1. /\ pc[i] = "load" /\ pc' = [pc EXCEPT ![i] = "idle"]
        /\ receiver' = receiver /\ internal_buffer' = internal_buffer
    BY DEF IterFails, LoadFails, Return
  <2>2. pc'[i] = "idle"
    BY <2>1, Distinct DEF TypeOK
  <2>3. internal_buffer[i] = <<>>
    BY <2>1 DEF BufferInv
  <2>. QED  BY <2>1, <2>2, <2>3
<1>2. Taken(i) = b /\ Taken(i)' = <<>>
  BY <1>1 DEF Taken
<1>3. Range(<<>>) = {} /\ Ascending(<<>>)
  BY DEF Range, Ascending
<1>4. /\ b \in Seq(Event) /\ q \in Batches
      /\ Events(InHand(i)) = (Range(b) \union Range(<<>>)) \union Events(q)
      /\ InOrder(InHand(i)) => /\ Ascending(b) /\ InOrder(q)
                               /\ Before(Range(b) \union Range(<<>>), Events(q))
  BY <1>1, <1>2, HandTypes
<1>5. /\ Events(InHand(i))' = (Range(<<>>) \union Range(<<>>)) \union Events(q)
      /\ InOrder(InHand(i))' <=>
            /\ Ascending(<<>>) /\ Ascending(<<>>) /\ InOrder(q)
            /\ Before(Range(<<>>), Range(<<>>))
            /\ Before(Range(<<>>) \union Range(<<>>), Events(q))
  BY <1>1, <1>2, HandTypesNext
<1> HIDE DEF b, q
<1>6. Events(InHand(i))' = Events(q) /\ Events(InHand(i)) = Range(b) \union Events(InHand(i))'
  BY <1>3, <1>4, <1>5
<1>7. InOrder(InHand(i)) => /\ Ascending(b) /\ InOrder(InHand(i))'
                            /\ Before(Range(b), Events(InHand(i))')
  BY <1>3, <1>4, <1>5, <1>6 DEF Before
<1>8. Gives(i, b)
  BY <1>4, <1>6, <1>7 DEF Gives
<1>. QED  BY <1>1, <1>2, <1>4, <1>6, <1>8 DEF b, q

LEMMA SendHand ==
    ASSUME TypeOK, TypeOK', NEW t \in Threads, DecodeSends(t),
           NEW k \in Nat \ {0}, NEW events \in Seq(Event), IsSent(events, t, k),
           NEW i \in subscribed
    PROVE  /\ Taken(i)' = Taken(i)
           /\ Events(InHand(i))' = Events(InHand(i)) \union Range(events)
           /\ InOrder(InHand(i)) /\ Ascending(events) /\ Before(Events(InHand(i)), Range(events))
              => InOrder(InHand(i))'
<1> DEFINE a == Taken(i)
           b == internal_buffer[i]
           q == receiver[i]
           r == Append(q, events)
<1>1. i \in Iters
  BY DEF TypeOK
<1>2. /\ pc' = pc /\ batch' = batch /\ internal_buffer' = internal_buffer
      /\ receiver'[i] = r
  BY <1>1 DEF DecodeSends, threadVars, iterVars, IsSent
<1>3. Taken(i)' = a
  BY <1>2 DEF Taken
<1>4. /\ q \in Batches
      /\ Events(InHand(i)) = (Range(a) \union Range(b)) \union Events(q)
      /\ InOrder(InHand(i)) => /\ Ascending(a) /\ Ascending(b) /\ InOrder(q)
                               /\ Before(Range(a), Range(b))
                               /\ Before(Range(a) \union Range(b), Events(q))
  BY <1>1, HandTypes
<1>5. /\ Events(InHand(i))' = (Range(a) \union Range(b)) \union Events(r)
      /\ InOrder(InHand(i))' <=>
            /\ Ascending(a) /\ Ascending(b) /\ InOrder(r)
            /\ Before(Range(a), Range(b))
            /\ Before(Range(a) \union Range(b), Events(r))
  BY <1>1, <1>2, <1>3, HandTypesNext
<1>6. /\ Events(r) = Events(q) \union Range(events)
      /\ InOrder(q) /\ Ascending(events) /\ Before(Events(q), Range(events)) => InOrder(r)
  BY <1>4, HandGrows
<1> HIDE DEF a, b, q, r
<1>7. Events(InHand(i))' = Events(InHand(i)) \union Range(events)
  BY <1>4, <1>5, <1>6
<1>8. ASSUME InOrder(InHand(i)), Ascending(events), Before(Events(InHand(i)), Range(events))
      PROVE  InOrder(InHand(i))'
  <2>1. Before(Events(q), Range(events)) /\ Before(Range(a) \union Range(b), Events(r))
    BY <1>4, <1>6, <1>8 DEF Before
  <2>. QED  BY <1>4, <1>5, <1>6, <1>8, <2>1
<1>. QED  BY <1>3, <1>7, <1>8 DEF a

(* The numbers of the batch that the decoder sends.                        *)
NumberedOn(events, k) ==
    /\ Ascending(events)
    /\ \A e \in Range(events) : e.n \in decoded + 1..decoded + k
    /\ \A n \in decoded + 1..decoded + k : \E e \in Range(events) : e.n = n

LEMMA SentNumbers ==
    ASSUME NEW t, NEW k \in Nat \ {0}, NEW events \in Seq(Event), IsSent(events, t, k),
           decoded \in Nat
    PROVE  NumberedOn(events, k)
<1>1. DOMAIN events = 1..k /\ \A j \in 1..k : events[j].n = decoded + j
  BY DEF IsSent
<1>2. Range(events) = {events[j] : j \in 1..k}
  BY <1>1 DEF Range
<1>3. Ascending(events)
  BY <1>1 DEF Ascending
<1>4. \A e \in Range(events) : e.n \in decoded + 1..decoded + k
  <2>1. SUFFICES ASSUME NEW j \in 1..k PROVE events[j].n \in decoded + 1..decoded + k
    BY <1>2
  <2>. QED  BY <1>1
<1>5. ASSUME NEW n \in decoded + 1..decoded + k
      PROVE  \E e \in Range(events) : e.n = n
  <2>1. n - decoded \in 1..k /\ decoded + (n - decoded) = n
    OBVIOUS
  <2>. QED  BY <1>1, <1>2, <2>1
<1>. QED  BY <1>3, <1>4, <1>5 DEF NumberedOn

-----------------------------------------------------------------------------
(* Hands are in the order of decoding, and complete.                       *)
OrderOf(i) ==
    /\ InOrder(InHand(i))
    /\ returned[i] <= decoded
    /\ \A e \in Events(InHand(i)) : e.n \in returned[i] + 1..decoded
    /\ OneLoader /\ ~program.ioErrors /\ i \in subscribed =>
          \A n \in returned[i] + 1..decoded : \E e \in Events(InHand(i)) : e.n = n

LEMMA OrderParts ==
    /\ OrderInv <=> \A i \in Iters : OrderOf(i)
    /\ OrderInv' <=> \A i \in Iters : OrderOf(i)'
BY DEF OrderInv, OrderOf

LEMMA OrderKept ==
    ASSUME NEW i \in Iters, OrderOf(i), program' = program,
           i \in subscribed' => i \in subscribed,
           decoded' = decoded, returned'[i] = returned[i],
           Events(InHand(i))' = Events(InHand(i)), InOrder(InHand(i)) => InOrder(InHand(i))'
    PROVE  OrderOf(i)'
BY DEF OrderOf, OneLoader

LEMMA NotLast ==
    ASSUME NEW m \in Nat, NEW x \in 1..m, x # m
    PROVE  x < m
OBVIOUS

LEMMA LessIsLeq ==
    ASSUME NEW m \in Nat, NEW n \in Nat, m < n
    PROVE  m <= n
OBVIOUS

LEMMA LastIsGreatest ==
    ASSUME NEW s \in Seq(Event), s # <<>>, Ascending(s)
    PROVE  /\ Last(s) \in Range(s) /\ Last(s).n \in Nat
           /\ \A e \in Range(s) : e.n <= Last(s).n
<1>1. Len(s) \in Nat \ {0} /\ DOMAIN s = 1..Len(s) /\ \A j \in 1..Len(s) : s[j] \in Event
  BY LenProperties, EmptySeq, ElementOfSeq
<1>2. Last(s) = s[Len(s)] /\ Len(s) \in 1..Len(s)
  BY <1>1 DEF Last
<1>3. \A j \in 1..Len(s) : s[j].n \in Nat
  BY <1>1 DEF Event
<1>4. ASSUME NEW j \in 1..Len(s)
      PROVE  s[j].n <= s[Len(s)].n
  <2>1. CASE j = Len(s)
    BY <1>2, <1>3, <2>1
  <2>2. CASE j # Len(s)
    <3>1. j < Len(s)
      BY <1>1, <2>2, NotLast
    <3>2. s[j].n < s[Len(s)].n
      BY <1>1, <1>2, <3>1 DEF Ascending
    <3>3. s[j].n \in Nat /\ s[Len(s)].n \in Nat
      BY <1>2, <1>3
    <3>. QED  BY <3>2, <3>3, LessIsLeq, ZenonT(60)
  <2>. QED  BY <2>1, <2>2
<1>. QED  BY <1>1, <1>2, <1>3, <1>4 DEF Range

LEMMA OrderGiven ==
    ASSUME TypeOK, NEW i \in Iters, OrderOf(i), NEW out, Gives(i, out),
           program' = program, subscribed' = subscribed, decoded' = decoded,
           returned'[i] = IF out = <<>> THEN returned[i] ELSE Last(out).n
    PROVE  OrderOf(i)'
<1>1. /\ out \in Seq(Event) /\ Ascending(out) /\ InOrder(InHand(i))'
      /\ Events(InHand(i)) = Range(out) \union Events(InHand(i))'
      /\ Before(Range(out), Events(InHand(i))')
  BY DEF Gives, OrderOf
<1>2. CASE out = <<>>
  <2>1. Range(out) = {}
    BY <1>2 DEF Range
  <2>2. Events(InHand(i))' = Events(InHand(i)) /\ returned'[i] = returned[i]
    BY <1>1, <1>2, <2>1
  <2>. QED  BY <1>1, <2>2, OrderKept
<1>3. CASE out # <<>>
  <2> DEFINE l == Last(out).n
             E == Events(InHand(i))
             F == Events(InHand(i))'
  <2>1. Last(out) \in Range(out) /\ l \in Nat /\ \A e \in Range(out) : e.n <= l
    BY <1>1, <1>3, LastIsGreatest
  <2>2. returned[i] \in Nat /\ decoded \in Nat /\ returned'[i] = l
    BY <1>3 DEF TypeOK
  <2>3. Last(out) \in E /\ l \in returned[i] + 1..decoded
    BY <1>1, <2>1 DEF OrderOf
  <2>4. \A e \in F : l < e.n
    BY <1>1, <2>1 DEF Before
  <2>5. \A e \in F : e.n \in l + 1..decoded
    <3>1. \A e \in F : e.n \in returned[i] + 1..decoded
      BY <1>1 DEF OrderOf
    <3> HIDE DEF E, F, l
    <3>. QED  BY <2>1, <2>2, <2>4, <3>1
  <2>6. ASSUME OneLoader, ~program.ioErrors, i \in subscribed, NEW n \in l + 1..decoded
        PROVE  \E e \in F : e.n = n
    <3>1. n \in returned[i] + 1..decoded /\ ~(n <= l)
      BY <2>1, <2>2, <2>3
    <3>2. PICK e \in E : e.n = n
      BY <2>6, <3>1 DEF OrderOf
    <3>3. e \notin Range(out)
      BY <2>1, <3>1, <3>2
    <3>. QED  BY <1>1, <3>2, <3>3
  <2>7. l <= decoded
    BY <2>2, <2>3
  <2> HIDE DEF E, F, l
  <2>8. OneLoader' <=> OneLoader
    BY DEF OneLoader
  <2>. QED  BY <1>1, <2>2, <2>5, <2>6, <2>7, <2>8 DEF OrderOf, F
<1>. QED  BY <1>2, <1>3

LEMMA SendOrder ==
    ASSUME TypeOK, TypeOK', OrderInv, NEW t \in Threads, DecodeSends(t)
    PROVE  OrderInv'
<1>1. PICK k \in Nat \ {0}, events \in Seq(Event) : IsSent(events, t, k)
  BY SendFacts
<1>2. /\ Ascending(events)
      /\ \A e \in Range(events) : e.n \in decoded + 1..decoded + k
      /\ \A n \in decoded + 1..decoded + k : \E e \in Range(events) : e.n = n
  <2>1. decoded \in Nat
    BY DEF TypeOK
  <2>2. NumberedOn(events, k)
    BY <1>1, <2>1, SentNumbers
  <2>. QED  BY <2>2 DEF NumberedOn
<1>3. /\ program' = program /\ subscribed' = subscribed /\ returned' = returned
      /\ decoded' = decoded + k /\ decoded \in Nat
  BY <1>1 DEF DecodeSends, streamVars, fileVars, iterVars, IsSent, TypeOK
<1>4. SUFFICES ASSUME NEW i \in Iters PROVE OrderOf(i)'
  BY OrderParts
<1>5. OrderOf(i) /\ returned[i] \in Nat
  BY OrderParts DEF TypeOK
<1>6. returned'[i] <= decoded'
  BY <1>3, <1>5 DEF OrderOf
<1>7. CASE i \in subscribed
  <2> DEFINE E == Events(InHand(i))
             F == Events(InHand(i))'
  <2>1. /\ F = E \union Range(events)
        /\ InOrder(InHand(i)) /\ Ascending(events) /\ Before(E, Range(events)) => InOrder(InHand(i))'
    BY <1>1, <1>7, SendHand
  <2>2. \A e \in E : e.n \in returned[i] + 1..decoded
    BY <1>5 DEF OrderOf
  <2>3. OneLoader /\ ~program.ioErrors =>
           \A n \in returned[i] + 1..decoded : \E e \in E : e.n = n
    BY <1>5, <1>7 DEF OrderOf
  <2>4. InOrder(InHand(i))
    BY <1>5 DEF OrderOf
  <2> HIDE DEF E, F
  <2>5. Before(E, Range(events))
    <3>1. \A m, n \in Int : m \in returned[i] + 1..decoded /\ n \in decoded + 1..decoded + k => m < n
      BY <1>3, <1>5
    <3>. QED  BY <1>2, <2>2, <3>1 DEF Before
  <2>6. \A e \in F : e.n \in returned[i] + 1..decoded + k
    <3>1. /\ returned[i] + 1..decoded \subseteq returned[i] + 1..decoded + k
          /\ decoded + 1..decoded + k \subseteq returned[i] + 1..decoded + k
      BY <1>3, <1>5 DEF OrderOf
    <3>. QED  BY <1>2, <2>1, <2>2, <3>1
  <2>7. ASSUME OneLoader, ~program.ioErrors, NEW n \in returned[i] + 1..decoded + k
        PROVE  \E e \in F : e.n = n
    <3>1. n \in returned[i] + 1..decoded \/ n \in decoded + 1..decoded + k
      BY <1>3, <1>5
    <3>. QED  BY <1>2, <2>1, <2>3, <2>7, <3>1
  <2>8. InOrder(InHand(i))'
    BY <1>2, <2>1, <2>4, <2>5
  <2>9. OneLoader' <=> OneLoader
    BY <1>3 DEF OneLoader
  <2>. QED  BY <1>3, <1>6, <2>6, <2>7, <2>8, <2>9 DEF OrderOf, F
<1>8. CASE i \notin subscribed
  <2>1. /\ receiver'[i] = receiver[i] /\ internal_buffer' = internal_buffer /\ batch' = batch
        /\ pc' = pc
    BY <1>1, <1>8 DEF IsSent, DecodeSends, iterVars, threadVars
  <2>2. InHand(i)' = InHand(i)
    BY <2>1, SameHand
  <2>3. returned[i] + 1..decoded \subseteq returned[i] + 1..decoded + k
    BY <1>3, <1>5
  <2>. QED  BY <1>3, <1>5, <1>6, <1>8, <2>2, <2>3 DEF OrderOf
<1>. QED  BY <1>7, <1>8

(* A failed load drops events only with an error, which is not the end.    *)
LEMMA FailOrder ==
    ASSUME TypeOK, TypeOK', LockInv, ThreadInv, BufferInv, OrderInv, NEW i \in Iters,
           NEW error \in Errors, IterFails(i, error)
    PROVE  OrderOf(i)'
<1>1. /\ Gives(i, batch[i]) /\ batch[i] \in Seq(Event)
      /\ program' = program /\ subscribed' = subscribed /\ decoded' = decoded
      /\ pc[i] = "load" /\ i \in subscribed /\ i \in Threads
  BY FailHand, Distinct DEF IterFails, LoadFails, fileVars, decodeVars, ThreadInv
<1>2. OrderOf(i)
  BY OrderParts
<1>3. CASE EndsBatch(i, error) \/ batch[i] = <<>>
  <2>1. returned'[i] = IF batch[i] = <<>> THEN returned[i] ELSE Last(batch[i]).n
    BY <1>3, SMTT(60) DEF IterFails, EndsBatch, TypeOK
  <2>. QED  BY <1>1, <1>2, <2>1, OrderGiven
<1>4. CASE ~EndsBatch(i, error) /\ batch[i] # <<>>
  <2>1. returned' = returned /\ error # "EndOfFile"
    BY <1>4 DEF IterFails, EndsBatch
  <2>2. ~(OneLoader /\ ~program.ioErrors)
    <3>1. SUFFICES ASSUME OneLoader, ~program.ioErrors PROVE FALSE
      OBVIOUS
    <3>2. started
      BY <1>1 DEF ThreadInv
    <3>3. lock # NoOne
      BY <2>1, <3>1, <3>2 DEF IterFails, LoadFails
    <3>4. lock \in Threads
      BY <3>3 DEF TypeOK
    <3>5. pc[lock] = "decode"
      BY <3>4 DEF LockInv
    <3>6. lock = i
      BY <1>1, <3>1, <3>4, <3>5, TheLoader
    <3>. QED  BY <1>1, <3>5, <3>6
  <2>3. /\ InOrder(InHand(i))' /\ Events(InHand(i))' \subseteq Events(InHand(i))
    BY <1>1, <1>2 DEF Gives, OrderOf
  <2>. QED  BY <1>1, <1>2, <2>1, <2>2, <2>3 DEF OrderOf, OneLoader
<1>. QED  BY <1>3, <1>4

(* The steps that leave all hands as they are.                             *)
IdleStep ==
    \/ \E t \in Threads : LoadReads(t) \/ LoadReturns(t)
    \/ LoadBatch \/ Seek \/ SeekToNextExt \/ NextExtReceived \/ NextExtSeeks
    \/ \E error \in Errors : ReaderFails(error)
    \/ \E i \in Iters : \/ AsWindows(i) \/ Replenish(i) \/ TryDrainFails(i)
                        \/ \E c \in Calls : NextEvents(i, c)
    \/ UNCHANGED vars

LEMMA IdleHands ==
    ASSUME TypeOK, ThreadInv, IdleStep
    PROVE  \A i \in Iters : /\ Taken(i)' = Taken(i) /\ InHand(i)' = InHand(i)
                            /\ pc[i] # "idle" => pc'[i] # "idle"
<1> USE DEF iterVars
<1>1. internal_buffer' = internal_buffer /\ receiver' = receiver
  BY DEF IdleStep, vars, LoadReads, LoadReturns, LoadBatch, Seek, SeekToNextExt, NextExtReceived,
         NextExtSeeks, ReaderFails, LoadFails, AsWindows, Replenish, TryDrainFails, NextEvents
<1>2. SUFFICES ASSUME NEW i \in Iters
               PROVE  IF pc[i] = "idle" THEN pc'[i] = "idle" \/ batch'[i] = <<>>
                                        ELSE pc'[i] # "idle" /\ batch'[i] = batch[i]
  BY <1>1, SameHand
<1>3. CASE UNCHANGED vars
  BY <1>3 DEF vars, threadVars
<1>4. ASSUME NEW j \in Iters, AsWindows(j)
      PROVE  batch' = batch /\ pc' = pc
  BY <1>4 DEF AsWindows, threadVars
<1>5. ASSUME NEW t \in Threads, NEW w, w # "idle", pc' = [pc EXCEPT ![t] = w],
             batch' = batch, pc[t] # "idle"
      PROVE  (pc'[i] = "idle" <=> pc[i] = "idle") /\ batch'[i] = batch[i]
  BY <1>5, Distinct DEF TypeOK
<1>6. ASSUME NEW j \in Iters, Replenish(j) \/ TryDrainFails(j)
      PROVE  (pc'[i] = "idle" <=> pc[i] = "idle") /\ batch'[i] = batch[i]
  <2>1. /\ batch' = batch /\ pc[j] # "idle"
        /\ \E w : w # "idle" /\ pc' = [pc EXCEPT ![j] = w]
    BY <1>6 DEF Replenish, TryDrainFails, Goes
  <2>. QED  BY <1>5, <2>1, Distinct
<1>7. ASSUME NEW j \in Iters, NEW c \in Calls, NextEvents(j, c)
      PROVE  IF pc[i] = "idle" THEN pc'[i] = "idle" \/ batch'[i] = <<>>
                               ELSE pc'[i] # "idle" /\ batch'[i] = batch[i]
  <2>1. batch' = [batch EXCEPT ![j] = <<>>] /\ pc' = [pc EXCEPT ![j] = "take"] /\ pc[j] = "idle"
    BY <1>7, Distinct DEF NextEvents, Begins, Free
  <2>. QED  BY <2>1, Distinct DEF TypeOK
<1>8. ASSUME \/ LoadBatch \/ Seek \/ SeekToNextExt \/ NextExtReceived \/ NextExtSeeks
             \/ \E error \in Errors : ReaderFails(error)
      PROVE  pc'[i] = pc[i] /\ batch'[i] = batch[i]
  <2>1. batch' = batch /\ \E w : pc' = [pc EXCEPT ![Reader] = w]
    BY <1>8
    DEF LoadBatch, Seek, SeekToNextExt, NextExtReceived, NextExtSeeks, ReaderFails,
        ReaderBegins, Begins, Goes, Return
  <2>. QED  BY <2>1, Distinct DEF TypeOK
<1>9. ASSUME NEW t \in Threads, LoadReads(t) \/ LoadReturns(t)
      PROVE  (pc'[i] = "idle" <=> pc[i] = "idle") /\ batch'[i] = batch[i]
  <2>1. batch' = batch /\ pc[t] \in {"load", "decode"}
    BY <1>9 DEF LoadReads, LoadReturns
  <2>2. PICK w : pc' = [pc EXCEPT ![t] = w] /\ (w # "idle" \/ t \notin SyncIters)
    BY <1>9 DEF LoadReads, LoadReturns, Goes, Return
  <2>3. CASE w # "idle"
    BY <1>5, <2>1, <2>2, <2>3
  <2>4. CASE w = "idle"
    <3>1. t \notin Iters
      BY <2>1, <2>2, <2>4 DEF ThreadInv
    <3>. QED  BY <2>1, <2>2, <3>1, Distinct DEF TypeOK
  <2>. QED  BY <2>3, <2>4
<1>. QED  BY <1>3, <1>4, <1>6, <1>7, <1>8, <1>9 DEF IdleStep

(* Every step is one of these, or sends, takes, drains or fails.           *)
LEMMA Steps ==
    ASSUME [Next]_vars
    PROVE  \/ IdleStep
           \/ \E t \in Threads : DecodeSends(t)
           \/ \E i \in Iters : \/ TakeEvents(i) \/ DrainChannel(i)
                               \/ \E error \in Errors : IterFails(i, error)
BY Distinct DEF Next, IterStep, ReaderStep, LoadStep, IdleStep

LEMMA OneHand ==
    ASSUME TypeOK, NEW i \in Iters,
           TakeEvents(i) \/ DrainChannel(i) \/ \E error \in Errors : IterFails(i, error)
    PROVE  /\ program' = program /\ subscribed' = subscribed /\ decoded' = decoded
           /\ file' = file /\ pos' = pos /\ shift' = shift /\ pending' = pending
           /\ seeks' = seeks /\ call' = call
           /\ \A j \in Iters \ {i} : /\ Taken(j)' = Taken(j) /\ InHand(j)' = InHand(j)
                                      /\ returned'[j] = returned[j]
                                      /\ current_timestamp'[j] = current_timestamp[j]
                                      /\ pc'[j] = pc[j]
<1>1. /\ program' = program /\ subscribed' = subscribed /\ decoded' = decoded
      /\ file' = file /\ pos' = pos /\ shift' = shift /\ pending' = pending
      /\ seeks' = seeks /\ call' = call
  BY DEF TakeEvents, DrainChannel, IterFails, LoadFails, Goes, Return, streamVars, fileVars,
         decodeVars, readerVars
<1>2. ASSUME NEW j \in Iters \ {i}
      PROVE  /\ internal_buffer'[j] = internal_buffer[j] /\ receiver'[j] = receiver[j]
             /\ batch'[j] = batch[j] /\ pc'[j] = pc[j]
             /\ returned'[j] = returned[j] /\ current_timestamp'[j] = current_timestamp[j]
  BY <1>2, Distinct, SMTT(60)
  DEF TakeEvents, DrainChannel, IterFails, LoadFails, Goes, Return, TypeOK
<1>. QED  BY <1>1, <1>2, SameHand

LEMMA OrderStep ==
    ASSUME TypeOK, TypeOK', LockInv, ThreadInv, BufferInv, OrderInv, [Next]_vars
    PROVE  OrderInv'
<1>1. CASE IdleStep
  <2>1. SUFFICES ASSUME NEW i \in Iters PROVE OrderOf(i)'
    BY OrderParts
  <2>2. OrderOf(i) /\ InHand(i)' = InHand(i)
    BY <1>1, IdleHands, OrderParts
  <2>3. program' = program /\ decoded' = decoded
    BY <1>1
    DEF IdleStep, vars, LoadReads, LoadReturns, LoadBatch, Seek, SeekToNextExt, NextExtReceived,
        NextExtSeeks, ReaderFails, LoadFails, AsWindows, Replenish, TryDrainFails, NextEvents,
        streamVars, fileVars, decodeVars
  <2>4. CASE \E j \in Iters : AsWindows(j)
    <3>1. PICK j \in Iters : AsWindows(j)
      BY <2>4
    <3>2. /\ returned' = [returned EXCEPT ![j] = decoded] /\ j \notin subscribed
          /\ subscribed' = subscribed \union {j}
      BY <3>1 DEF AsWindows
    <3>3. CASE i # j
      <4>1. returned'[i] = returned[i] /\ (i \in subscribed' => i \in subscribed)
        BY <3>2, <3>3 DEF TypeOK
      <4>. QED  BY <2>2, <2>3, <4>1, OrderKept
    <3>4. CASE i = j
      <4>1. returned'[i] = decoded /\ decoded \in Nat
        BY <3>2, <3>4 DEF TypeOK
      <4>2. Events(InHand(i)) = {}
        <5>1. internal_buffer[i] = <<>> /\ receiver[i] = <<>> /\ Taken(i) = <<>>
          BY <3>2, <3>4 DEF BufferInv, ThreadInv, Taken
        <5>2. Range(<<>>) = {} /\ Events(<<>>) = {}
          BY DEF Range, Events
        <5>. QED  BY <5>1, <5>2, HandTypes
      <4>3. decoded + 1..decoded = {} /\ decoded <= decoded
        BY <4>1
      <4>. QED  BY <2>2, <2>3, <4>1, <4>2, <4>3 DEF OrderOf
    <3>. QED  BY <3>3, <3>4
  <2>5. CASE ~\E j \in Iters : AsWindows(j)
    <3>1. returned' = returned /\ subscribed' = subscribed
      BY <1>1, <2>5
      DEF IdleStep, vars, LoadReads, LoadReturns, LoadBatch, Seek, SeekToNextExt, NextExtReceived,
          NextExtSeeks, ReaderFails, LoadFails, Replenish, TryDrainFails, NextEvents, iterVars
    <3>. QED  BY <2>2, <2>3, <3>1, OrderKept
  <2>. QED  BY <2>4, <2>5
<1>2. ASSUME NEW t \in Threads, DecodeSends(t)
      PROVE  OrderInv'
  BY <1>2, SendOrder
<1>3. ASSUME NEW i \in Iters,
             TakeEvents(i) \/ DrainChannel(i) \/ \E error \in Errors : IterFails(i, error)
      PROVE  OrderInv'
  <2>1. SUFFICES ASSUME NEW j \in Iters PROVE OrderOf(j)'
    BY OrderParts
  <2>2. /\ program' = program /\ subscribed' = subscribed /\ decoded' = decoded
        /\ OrderOf(j) /\ OrderOf(i)
        /\ j # i => InHand(j)' = InHand(j) /\ returned'[j] = returned[j]
    BY <1>3, OneHand, OrderParts
  <2>3. CASE j # i
    BY <2>2, <2>3, OrderKept
  <2>4. OrderOf(i)'
    <3>1. ASSUME NEW error \in Errors, IterFails(i, error) PROVE OrderOf(i)'
      BY <3>1, FailOrder
    <3>2. CASE DrainChannel(i)
      <4>1. returned' = returned
        BY <3>2 DEF DrainChannel
      <4>. QED  BY <2>2, <3>2, <4>1, DrainHand, OrderKept
    <3>3. CASE TakeEvents(i)
      <4> DEFINE k == Popped(i)
                 taken == batch[i] \o SubSeq(internal_buffer[i], 1, k)
      <4>1. /\ Complete(i, k) => /\ Gives(i, taken)
                                 /\ returned'[i] = IF taken = <<>> THEN returned[i]
                                                                   ELSE Last(taken).n
            /\ ~Complete(i, k) => /\ Events(InHand(i))' = Events(InHand(i))
                                  /\ InOrder(InHand(i)) => InOrder(InHand(i))'
                                  /\ returned'[i] = returned[i]
        BY <3>3, TakeHand
      <4> HIDE DEF k, taken
      <4>2. CASE Complete(i, k)
        BY <2>2, <4>1, <4>2, OrderGiven
      <4>3. CASE ~Complete(i, k)
        BY <2>2, <4>1, <4>3, OrderKept
      <4>. QED  BY <4>2, <4>3
    <3>. QED  BY <1>3, <3>1, <3>2, <3>3
  <2>. QED  BY <2>3, <2>4
<1>. QED  BY <1>1, <1>2, <1>3, Steps

-----------------------------------------------------------------------------
(* Events in hand and pending are of the file.                             *)
LEMMA FileKept ==
    ASSUME FileInv, file' = file, shift' = shift, pending' = pending,
           \A i \in Iters : Events(InHand(i))' \subseteq Events(InHand(i)),
           seeks' = 0 => seeks = 0 /\ pos' = pos
    PROVE  FileInv'
<1>1. \A e : IsShown(e)' <=> IsShown(e)
  BY DEF IsShown
<1>2. seeks' = 0 =>
          /\ \A i \in Iters : \A e \in Events(InHand(i))' :
                /\ e.p <= pos'
                /\ \A f \in Events(InHand(i))' : e.n < f.n => e.p < f.p
                /\ \A t \in Threads : \A x \in Range(pending'[t]) : e.p < x.p
          /\ \A t \in Threads :
                /\ FileOrder(pending'[t])
                /\ \A x \in Range(pending'[t]) : x.p <= pos'
  BY DEF FileInv
<1>3. \A i \in Iters : \A e \in Events(InHand(i))' : IsShown(e)'
  BY <1>1 DEF FileInv
<1>4. \A t \in Threads : \A x \in Range(pending'[t]) : IsShown(x)'
  BY <1>1 DEF FileInv
<1>. QED  BY <1>2, <1>3, <1>4 DEF FileInv

(* The steps that leave what is pending as it is leave the file's times    *)
(* too, and do not go on in it.                                            *)
LEMMA IdleFile ==
    ASSUME TypeOK, ThreadInv, IdleStep, ~\E t \in Threads : LoadReads(t)
    PROVE  /\ program' = program /\ file' = file /\ shift' = shift /\ pending' = pending
           /\ seeks' = 0 => seeks = 0 /\ pos' = pos /\ (eof => eof')
<1> USE DEF streamVars, fileVars, decodeVars, readerVars
<1>1. program' = program /\ file' = file /\ shift' = shift /\ pending' = pending
  BY DEF IdleStep, vars, LoadReturns, LoadBatch, Seek, SeekToNextExt, NextExtReceived,
         NextExtSeeks, ReaderFails, LoadFails, AsWindows, Replenish, TryDrainFails, NextEvents
<1>2. seeks \in Nat
  BY DEF TypeOK
<1>3. CASE Seek \/ SeekToNextExt
  <2>1. seeks' = seeks + 1
    BY <1>3 DEF Seek, SeekToNextExt
  <2>. QED  BY <1>1, <1>2, <2>1
<1>4. CASE NextExtSeeks
  <2>1. pc[Reader] = "seek" /\ seeks' = seeks
    BY <1>4 DEF NextExtSeeks
  <2>2. seeks > 0
    BY <2>1 DEF ThreadInv
  <2>. QED  BY <1>1, <1>2, <2>1, <2>2
<1>5. CASE ~(Seek \/ SeekToNextExt \/ NextExtSeeks)
  <2>1. seeks' = seeks /\ pos' = pos /\ (eof => eof')
    BY <1>5
    DEF IdleStep, vars, LoadReturns, LoadBatch, NextExtReceived, ReaderFails, LoadFails,
        AsWindows, Replenish, TryDrainFails, NextEvents
  <2>. QED  BY <1>1, <2>1
<1>. QED  BY <1>3, <1>4, <1>5

(* A read: the events it makes pending, of the words read.                 *)
LEMMA ReadFacts ==
    ASSUME TypeOK, LockInv, NEW t \in Threads, LoadReads(t)
    PROVE  /\ program' = program /\ file' = file /\ seeks' = seeks /\ ~eof /\ ~eof'
           /\ shift # None => shift' = shift
           /\ pos \in Nat /\ pos' \in Nat /\ pos <= pos' /\ pos' <= FileLen
           /\ \A u \in Threads : FileOrder(pending'[u])
           /\ \A u \in Threads : \A x \in Range(pending'[u]) :
                 /\ x.p \in pos + 1..pos' /\ file[x.p].kind = "cd" /\ shift' # None
                 /\ x.t = SaturatingSub(file[x.p].time, shift')
<1>1. PICK k \in ReadSizes :
          LET read == pos + 1..pos + k
              timed == {p \in read : Timed(file[p])}
          IN  /\ pos' = pos + k
              /\ shift' = IF shift = None /\ timed # {} THEN file[Min(timed)].time ELSE shift
              /\ \E events \in Listings({Shown(p, shift') : p \in {p \in read : file[p].kind = "cd"}}) :
                    pending' = [pending EXCEPT ![t] = events]
  BY DEF LoadReads
<1> DEFINE timed == {p \in pos + 1..pos + k : Timed(file[p])}
           cds == {p \in pos + 1..pos + k : file[p].kind = "cd"}
           made == {Shown(p, shift') : p \in cds}
<1>2. pos \in Nat /\ k \in Nat /\ FileLen \in Nat /\ pos + k <= FileLen /\ pos' = pos + k
  BY <1>1, DataAssumption DEF TypeOK, ReadSizes
<1>3. /\ program' = program /\ file' = file /\ seeks' = seeks /\ ~eof /\ ~eof' /\ lock = NoOne
      /\ shift # None => shift' = shift
  BY <1>1 DEF LoadReads, AtEnd, fileVars
<1>4. PICK s \in Listings(made) : pending' = [pending EXCEPT ![t] = s]
  BY <1>1
<1>5. FileOrder(s) /\ Range(s) \subseteq made
  BY <1>4 DEF Listings, Range
<1>6. cds # {} => shift' # None
  <2>1. cds \subseteq timed
    BY DEF Timed
  <2>2. timed # {} => Min(timed) \in timed
    <3>1. timed \in SUBSET Nat
      BY <1>2
    <3> HIDE DEF timed
    <3>. QED  BY <3>1, MinIsLeast
  <2>3. timed # {} => Min(timed) \in 1..FileLen
    BY <1>2, <2>2
  <2>4. shift' = IF shift = None /\ timed # {} THEN file[Min(timed)].time ELSE shift
    BY <1>1
  <2> HIDE DEF timed, cds
  <2>5. timed # {} => file[Min(timed)].time \in Nat
    BY <2>3, ProgramTypes
  <2>. QED  BY <2>1, <2>4, <2>5, ThreadsAssumption
<1>7. \A x \in made : /\ x.p \in pos + 1..pos' /\ file[x.p].kind = "cd" /\ shift' # None
                      /\ x.t = SaturatingSub(file[x.p].time, shift')
  <2>1. SUFFICES ASSUME NEW p \in cds
                 PROVE  LET x == Shown(p, shift')
                        IN  /\ x.p \in pos + 1..pos' /\ file[x.p].kind = "cd" /\ shift' # None
                            /\ x.t = SaturatingSub(file[x.p].time, shift')
    OBVIOUS
  <2>2. Shown(p, shift').p = p /\ Shown(p, shift').t = SaturatingSub(file[p].time, shift')
    BY DEF Shown
  <2>3. p \in pos + 1..pos' /\ file[p].kind = "cd"
    BY <1>2
  <2>. QED  BY <1>6, <2>2, <2>3
<1>8. \A u \in Threads : pending[u] = <<>>
  BY <1>3, Distinct DEF LockInv
<1>9. \A u \in Threads : pending'[u] = IF u = t THEN s ELSE <<>>
  BY <1>4, <1>8 DEF TypeOK
<1>10. FileOrder(<<>>) /\ Range(<<>>) = {}
  BY DEF FileOrder, Range
<1> HIDE DEF made, cds, timed
<1>11. \A u \in Threads : FileOrder(pending'[u]) /\ Range(pending'[u]) \subseteq made
  BY <1>5, <1>9, <1>10
<1>12. pos' \in Nat /\ pos <= pos' /\ pos' <= FileLen
  BY <1>2
<1>. QED  BY <1>2, <1>3, <1>7, <1>11, <1>12

LEMMA ReadFile ==
    ASSUME TypeOK, LockInv, ThreadInv, FileInv, NEW t \in Threads, LoadReads(t)
    PROVE  FileInv'
<1>1. /\ file' = file /\ seeks' = seeks
      /\ shift # None => shift' = shift
      /\ pos \in Nat /\ pos' \in Nat /\ pos <= pos'
      /\ \A u \in Threads : FileOrder(pending'[u])
  BY ReadFacts
<1>2. ASSUME NEW u \in Threads, NEW x \in Range(pending'[u])
      PROVE  /\ IsShown(x)'
             /\ x.p \in Nat /\ pos < x.p /\ x.p <= pos'
  <2>1. /\ x.p \in pos + 1..pos' /\ file[x.p].kind = "cd" /\ shift' # None
        /\ x.t = SaturatingSub(file[x.p].time, shift')
    BY ReadFacts
  <2>2. x.p \in Nat /\ pos < x.p /\ x.p <= pos'
    BY <1>1, <2>1
  <2>. QED  BY <1>1, <2>1, <2>2 DEF IsShown
<1>3. IdleStep
  BY DEF IdleStep
<1>4. \A i \in Iters : InHand(i)' = InHand(i)
  BY <1>3, IdleHands
<1>5. ASSUME NEW i \in Iters, NEW e \in Events(InHand(i))
      PROVE  IsShown(e)' /\ e.p \in Nat
  <2>1. IsShown(e)
    BY <1>5 DEF FileInv
  <2>2. e.p \in Nat
    BY HandEvents DEF Event
  <2>. QED  BY <1>1, <2>1, <2>2 DEF IsShown
<1>6. ASSUME seeks = 0, NEW i \in Iters, NEW e \in Events(InHand(i))
      PROVE  /\ e.p <= pos'
             /\ \A f \in Events(InHand(i)) : e.n < f.n => e.p < f.p
             /\ \A u \in Threads : \A x \in Range(pending'[u]) : e.p < x.p
  <2>1. e.p <= pos /\ e.p \in Nat /\ \A f \in Events(InHand(i)) : e.n < f.n => e.p < f.p
    BY <1>5, <1>6 DEF FileInv
  <2>. QED  BY <1>1, <1>2, <2>1
<1>7. seeks' = 0 =>
          /\ \A i \in Iters : \A e \in Events(InHand(i))' :
                /\ e.p <= pos'
                /\ \A f \in Events(InHand(i))' : e.n < f.n => e.p < f.p
                /\ \A u \in Threads : \A x \in Range(pending'[u]) : e.p < x.p
          /\ \A u \in Threads :
                /\ FileOrder(pending'[u])
                /\ \A x \in Range(pending'[u]) : x.p <= pos'
  BY <1>1, <1>2, <1>4, <1>6
<1>8. \A i \in Iters : \A e \in Events(InHand(i))' : IsShown(e)'
  BY <1>4, <1>5
<1>. QED  BY <1>2, <1>7, <1>8 DEF FileInv

(* A send: the batch, and what is still pending, of the words that were.   *)
LEMMA SentFile ==
    ASSUME TypeOK, LockInv, NEW t \in Threads, DecodeSends(t),
           NEW k \in Nat \ {0}, NEW events \in Seq(Event), IsSent(events, t, k)
    PROVE  /\ program' = program /\ file' = file /\ shift' = shift
           /\ pos' = pos /\ eof' = eof /\ seeks' = seeks
           /\ \A u \in Threads : Range(pending'[u]) \subseteq Range(pending[u])
           /\ \A e \in Range(events) : \E x \in Range(pending[t]) : x.p = e.p /\ x.t = e.t
           /\ FileOrder(pending[t]) =>
                 /\ \A u \in Threads : FileOrder(pending'[u])
                 /\ \A e \in Range(events) : \A u \in Threads : \A x \in Range(pending'[u]) : e.p < x.p
                 /\ \A e, f \in Range(events) : e.n < f.n => e.p < f.p
<1> DEFINE s == pending[t]
           rest == SubSeq(s, k + 1, Len(s))
<1>1. /\ k \in 1..Len(s) /\ DOMAIN events = 1..k
      /\ \A j \in 1..k : events[j].n = decoded + j /\ events[j].p = s[j].p /\ events[j].t = s[j].t
      /\ pending' = [pending EXCEPT ![t] = rest]
  BY DEF IsSent
<1>2. /\ s \in Seq(Reads) /\ Len(s) \in Nat /\ DOMAIN s = 1..Len(s) /\ decoded \in Nat
      /\ k \in 0..Len(s)
  BY <1>1, LenProperties DEF TypeOK
<1>3. /\ program' = program /\ file' = file /\ shift' = shift
      /\ pos' = pos /\ eof' = eof /\ seeks' = seeks /\ pc[t] = "decode"
  BY DEF DecodeSends, streamVars, fileVars, readerVars
<1>4. \A u \in Threads \ {t} : pending[u] = <<>>
  <2>1. lock = t
    BY <1>3 DEF LockInv
  <2>. QED  BY <2>1 DEF LockInv
<1>5. /\ DOMAIN rest = 1..Len(s) - k /\ \A j \in 1..Len(s) - k : rest[j] = s[k + j]
      /\ Range(rest) \subseteq Range(s)
  BY <1>2, Cut
<1>6. \A u \in Threads : pending'[u] = IF u = t THEN rest ELSE <<>>
  BY <1>1, <1>4 DEF TypeOK
<1>7. FileOrder(<<>>) /\ Range(<<>>) = {}
  BY DEF FileOrder, Range
<1> HIDE DEF rest
<1>8. \A u \in Threads : Range(pending'[u]) \subseteq Range(pending[u])
  BY <1>4, <1>5, <1>6, <1>7
<1>9. ASSUME NEW e \in Range(events)
      PROVE  \E x \in Range(pending[t]) : x.p = e.p /\ x.t = e.t
  <2>1. PICK j \in 1..k : e = events[j]
    BY <1>1 DEF Range
  <2>2. s[j] \in Range(s)
    BY <1>1, <1>2, <2>1 DEF Range
  <2>. QED  BY <1>1, <2>1, <2>2
<1>10. ASSUME FileOrder(s)
       PROVE  /\ \A u \in Threads : FileOrder(pending'[u])
              /\ \A e \in Range(events) : \A u \in Threads : \A x \in Range(pending'[u]) : e.p < x.p
              /\ \A e, f \in Range(events) : e.n < f.n => e.p < f.p
  <2>1. \A a, b \in 1..Len(s) : a < b => s[a].p < s[b].p
    BY <1>2, <1>10 DEF FileOrder
  <2>2. FileOrder(rest)
    <3>1. ASSUME NEW a \in 1..Len(s) - k, NEW b \in 1..Len(s) - k, a < b
          PROVE  rest[a].p < rest[b].p
      <4>1. k + a \in 1..Len(s) /\ k + b \in 1..Len(s) /\ k + a < k + b
        BY <1>1, <1>2, <3>1
      <4>. QED  BY <1>5, <2>1, <4>1
    <3>. QED  BY <1>5, <3>1 DEF FileOrder
  <2>3. ASSUME NEW e \in Range(events), NEW x \in Range(rest)
        PROVE  e.p < x.p
    <3>1. PICK j \in 1..k : e = events[j]
      BY <1>1 DEF Range
    <3>2. PICK a \in 1..Len(s) - k : x = s[k + a]
      BY <1>5 DEF Range
    <3>3. j \in 1..Len(s) /\ k + a \in 1..Len(s) /\ j < k + a
      BY <1>1, <1>2
    <3>. QED  BY <1>1, <2>1, <3>1, <3>2, <3>3
  <2>4. ASSUME NEW e \in Range(events), NEW f \in Range(events), e.n < f.n
        PROVE  e.p < f.p
    <3>1. PICK a \in 1..k : e = events[a]
      BY <1>1 DEF Range
    <3>2. PICK b \in 1..k : f = events[b]
      BY <1>1 DEF Range
    <3>3. e.n = decoded + a /\ f.n = decoded + b
      BY <1>1, <3>1, <3>2
    <3>4. a < b
      BY <1>2, <2>4, <3>3
    <3>5. a \in 1..Len(s) /\ b \in 1..Len(s)
      BY <1>1, <1>2
    <3>. QED  BY <1>1, <2>1, <3>1, <3>2, <3>4, <3>5
  <2>. QED  BY <1>6, <1>7, <2>2, <2>3, <2>4
<1>. QED  BY <1>3, <1>8, <1>9, <1>10

LEMMA SendFile ==
    ASSUME TypeOK, TypeOK', LockInv, OrderInv, FileInv, NEW t \in Threads, DecodeSends(t)
    PROVE  FileInv'
<1>1. PICK k \in Nat \ {0}, events \in Seq(Event) : IsSent(events, t, k)
  BY SendFacts
<1>2. /\ file' = file /\ shift' = shift /\ pos' = pos /\ seeks' = seeks
      /\ \A u \in Threads : Range(pending'[u]) \subseteq Range(pending[u])
      /\ \A e \in Range(events) : \E x \in Range(pending[t]) : x.p = e.p /\ x.t = e.t
  BY <1>1, SentFile
<1>3. FileOrder(pending[t]) =>
         /\ \A u \in Threads : FileOrder(pending'[u])
         /\ \A e \in Range(events) : \A u \in Threads : \A x \in Range(pending'[u]) : e.p < x.p
         /\ \A e, f \in Range(events) : e.n < f.n => e.p < f.p
  BY <1>1, SentFile
<1>4. NumberedOn(events, k) /\ decoded \in Nat
  BY <1>1, SentNumbers DEF TypeOK
<1>5. \A e : IsShown(e)' <=> IsShown(e)
  BY <1>2 DEF IsShown
<1>6. \A i \in Iters : \A e \in Events(InHand(i))' : e \in Events(InHand(i)) \/ e \in Range(events)
  <2>1. SUFFICES ASSUME NEW i \in Iters
                 PROVE  Events(InHand(i))' \subseteq Events(InHand(i)) \union Range(events)
    OBVIOUS
  <2>2. CASE i \in subscribed
    <3>1. Events(InHand(i))' = Events(InHand(i)) \union Range(events)
      BY <1>1, <2>2, SendHand
    <3>. QED  BY <3>1
  <2>3. CASE i \notin subscribed
    <3>1. /\ receiver'[i] = receiver[i] /\ internal_buffer' = internal_buffer /\ batch' = batch
          /\ pc' = pc
      BY <1>1, <2>3 DEF IsSent, DecodeSends, iterVars, threadVars
    <3>2. InHand(i)' = InHand(i)
      BY <3>1, SameHand
    <3>. QED  BY <3>2
  <2>. QED  BY <2>2, <2>3
<1>7. \A e \in Range(events) : IsShown(e)
  BY <1>2 DEF FileInv, IsShown
<1>8. \A i \in Iters : \A e \in Events(InHand(i))' : IsShown(e)'
  BY <1>5, <1>6, <1>7 DEF FileInv
<1>9. \A u \in Threads : \A x \in Range(pending'[u]) : IsShown(x)'
  BY <1>2, <1>5 DEF FileInv
<1>10. ASSUME seeks = 0
       PROVE  /\ \A i \in Iters : \A e \in Events(InHand(i))' :
                    /\ e.p <= pos
                    /\ \A f \in Events(InHand(i))' : e.n < f.n => e.p < f.p
                    /\ \A u \in Threads : \A x \in Range(pending'[u]) : e.p < x.p
              /\ \A u \in Threads :
                    /\ FileOrder(pending'[u])
                    /\ \A x \in Range(pending'[u]) : x.p <= pos
  <2>1. FileOrder(pending[t]) /\ \A u \in Threads : \A x \in Range(pending[u]) : x.p <= pos
    BY <1>10 DEF FileInv
  <2>2. \A u \in Threads : FileOrder(pending'[u]) /\ \A x \in Range(pending'[u]) : x.p <= pos
    BY <1>2, <1>3, <2>1
  <2>3. ASSUME NEW i \in Iters
        PROVE  /\ \A e \in Events(InHand(i)) :
                     /\ e.p <= pos
                     /\ \A f \in Events(InHand(i)) : e.n < f.n => e.p < f.p
                     /\ \A x \in Range(pending[t]) : e.p < x.p
                     /\ \A u \in Threads : \A x \in Range(pending'[u]) : e.p < x.p
               /\ \A e \in Events(InHand(i)) : \A f \in Range(events) : e.n < f.n /\ ~(f.n < e.n)
    <3>1. \A e \in Events(InHand(i)) : e.n \in returned[i] + 1..decoded /\ returned[i] \in Nat
      BY DEF OrderInv, TypeOK
    <3>2. \A f \in Range(events) : f.n \in decoded + 1..decoded + k
      BY <1>4 DEF NumberedOn
    <3>3. \A r \in Nat, m, n \in Int :
             m \in r + 1..decoded /\ n \in decoded + 1..decoded + k => m < n /\ ~(n < m)
      BY <1>4, SMTT(60)
    <3>4. \A e \in Events(InHand(i)) : \A f \in Range(events) : e.n < f.n /\ ~(f.n < e.n)
      BY <3>1, <3>2, <3>3, SMTT(60)
    <3>. QED  BY <1>2, <1>10, <3>4 DEF FileInv
  <2>4. \A f \in Range(events) : f.p <= pos
    BY <1>2, <2>1
  <2>5. ASSUME NEW i \in Iters, NEW e \in Events(InHand(i))', NEW f \in Events(InHand(i))', e.n < f.n
        PROVE  e.p < f.p
    <3>1. e \in Events(InHand(i)) \/ e \in Range(events)
      BY <1>6
    <3>2. f \in Events(InHand(i)) \/ f \in Range(events)
      BY <1>6
    <3>3. CASE e \in Events(InHand(i)) /\ f \in Range(events)
      BY <1>2, <2>3, <3>3
    <3>4. CASE e \in Range(events) /\ f \in Range(events)
      BY <1>3, <2>1, <2>5, <3>4
    <3>. QED  BY <2>3, <2>5, <3>1, <3>2, <3>3, <3>4
  <2>6. ASSUME NEW i \in Iters, NEW e \in Events(InHand(i))'
        PROVE  e.p <= pos /\ \A u \in Threads : \A x \in Range(pending'[u]) : e.p < x.p
    <3>1. e \in Events(InHand(i)) \/ e \in Range(events)
      BY <1>6
    <3>. QED  BY <1>3, <2>1, <2>3, <2>4, <3>1
  <2>. QED  BY <2>2, <2>5, <2>6
<1>11. seeks' = 0 =>
          /\ \A i \in Iters : \A e \in Events(InHand(i))' :
                /\ e.p <= pos'
                /\ \A f \in Events(InHand(i))' : e.n < f.n => e.p < f.p
                /\ \A u \in Threads : \A x \in Range(pending'[u]) : e.p < x.p
          /\ \A u \in Threads :
                /\ FileOrder(pending'[u])
                /\ \A x \in Range(pending'[u]) : x.p <= pos'
  BY <1>2, <1>10
<1>. QED  BY <1>8, <1>9, <1>11 DEF FileInv

(* What leaves the hands of an iterator or moves within them.              *)
LEMMA HandShrinks ==
    ASSUME TypeOK, TypeOK', ThreadInv, BufferInv, NEW i \in Iters,
           TakeEvents(i) \/ DrainChannel(i) \/ \E error \in Errors : IterFails(i, error)
    PROVE  \A j \in Iters : Events(InHand(j))' \subseteq Events(InHand(j))
<1>1. SUFFICES ASSUME NEW j \in Iters PROVE Events(InHand(j))' \subseteq Events(InHand(j))
  OBVIOUS
<1>2. CASE j # i
  <2>1. InHand(j)' = InHand(j)
    BY <1>2, OneHand
  <2>. QED  BY <2>1
<1>3. Events(InHand(i))' \subseteq Events(InHand(i))
  <2>1. CASE DrainChannel(i)
    BY <2>1, DrainHand
  <2>2. ASSUME NEW error \in Errors, IterFails(i, error)
        PROVE  Events(InHand(i))' \subseteq Events(InHand(i))
    BY <2>2, FailHand DEF Gives
  <2>3. CASE TakeEvents(i)
    <3> DEFINE k == Popped(i)
               taken == batch[i] \o SubSeq(internal_buffer[i], 1, k)
    <3>1. /\ Complete(i, k) => Gives(i, taken)
          /\ ~Complete(i, k) => Events(InHand(i))' = Events(InHand(i))
      BY <2>3, TakeHand
    <3> HIDE DEF k, taken
    <3>. QED  BY <3>1 DEF Gives
  <2>. QED  BY <2>1, <2>2, <2>3
<1>. QED  BY <1>2, <1>3

LEMMA FileStep ==
    ASSUME TypeOK, TypeOK', LockInv, ThreadInv, BufferInv, OrderInv, FileInv, [Next]_vars
    PROVE  FileInv'
<1>1. CASE IdleStep /\ ~\E t \in Threads : LoadReads(t)
  <2>1. \A i \in Iters : Events(InHand(i))' \subseteq Events(InHand(i))
    <3>1. \A i \in Iters : InHand(i)' = InHand(i)
      BY <1>1, IdleHands
    <3>. QED  BY <3>1
  <2>2. /\ file' = file /\ shift' = shift /\ pending' = pending
        /\ seeks' = 0 => seeks = 0 /\ pos' = pos
    BY <1>1, IdleFile
  <2>. QED  BY <2>1, <2>2, FileKept
<1>2. ASSUME NEW t \in Threads, LoadReads(t)
      PROVE  FileInv'
  BY <1>2, ReadFile
<1>3. ASSUME NEW t \in Threads, DecodeSends(t)
      PROVE  FileInv'
  BY <1>3, SendFile
<1>4. ASSUME NEW i \in Iters,
             TakeEvents(i) \/ DrainChannel(i) \/ \E error \in Errors : IterFails(i, error)
      PROVE  FileInv'
  <2>1. /\ file' = file /\ shift' = shift /\ pending' = pending /\ seeks' = seeks /\ pos' = pos
    BY <1>4, OneHand
  <2>2. \A j \in Iters : Events(InHand(j))' \subseteq Events(InHand(j))
    BY <1>4, HandShrinks
  <2>. QED  BY <2>1, <2>2, FileKept
<1>. QED  BY <1>1, <1>2, <1>3, <1>4, Steps

-----------------------------------------------------------------------------
(* Baselines and windows.  In a file whose times are in order, what comes  *)
(* after an event in hand, or will be read, is not earlier.                *)
BaselineOf(i) ==
    LET ts == current_timestamp[i]
    IN  /\ ts # None => shift # None
        /\ Taken(i) # <<>> => ts # None
        /\ OneLoader /\ TimesInOrder /\ seeks = 0 /\ ts # None =>
              /\ \A e \in Events(InHand(i)) : ts <= e.t
              /\ \A t \in Threads : \A x \in Range(pending[t]) : ts <= x.t
              /\ eof \/ \A p \in pos + 1..FileLen :
                          file[p].kind = "cd" => ts <= SaturatingSub(file[p].time, shift)
              /\ call[i].kind = "delta" =>
                    \A e \in Range(Taken(i)) : e.t < ts + call[i].size

LEMMA BaselineParts ==
    /\ BaselineInv <=> \A i \in Iters : BaselineOf(i)
    /\ BaselineInv' <=> \A i \in Iters : BaselineOf(i)'
BY DEF BaselineInv, BaselineOf

LEMMA BaselineKept ==
    ASSUME NEW i \in Iters, BaselineOf(i), program' = program, file' = file, shift' = shift,
           pending' = pending, current_timestamp'[i] = current_timestamp[i],
           Events(InHand(i))' \subseteq Events(InHand(i)),
           Taken(i)' = <<>> \/ (Taken(i)' = Taken(i) /\ call'[i] = call[i]),
           seeks' = 0 => seeks = 0 /\ pos' = pos /\ (eof => eof')
    PROVE  BaselineOf(i)'
<1> DEFINE ts == current_timestamp[i]
<1>1. (OneLoader' <=> OneLoader) /\ (TimesInOrder' <=> TimesInOrder)
  BY DEF OneLoader, TimesInOrder
<1>2. Range(<<>>) = {}
  BY DEF Range
<1>3. (ts # None => shift' # None) /\ (Taken(i)' # <<>> => ts # None)
  BY DEF BaselineOf
<1>4. ASSUME OneLoader, TimesInOrder, seeks' = 0, ts # None
      PROVE  /\ \A e \in Events(InHand(i))' : ts <= e.t
             /\ \A t \in Threads : \A x \in Range(pending'[t]) : ts <= x.t
             /\ eof' \/ \A p \in pos' + 1..FileLen :
                         file'[p].kind = "cd" => ts <= SaturatingSub(file'[p].time, shift')
             /\ call'[i].kind = "delta" =>
                   \A e \in Range(Taken(i)') : e.t < ts + call'[i].size
  <2>1. seeks = 0 /\ pos' = pos /\ (eof => eof')
    BY <1>4
  <2>2. \A e \in Events(InHand(i))' : ts <= e.t
    BY <1>4, <2>1 DEF BaselineOf
  <2>3. \A t \in Threads : \A x \in Range(pending'[t]) : ts <= x.t
    BY <1>4, <2>1 DEF BaselineOf
  <2>4. eof' \/ \A p \in pos' + 1..FileLen :
                  file'[p].kind = "cd" => ts <= SaturatingSub(file'[p].time, shift')
    BY <1>4, <2>1 DEF BaselineOf
  <2>5. call'[i].kind = "delta" => \A e \in Range(Taken(i)') : e.t < ts + call'[i].size
    BY <1>2, <1>4, <2>1 DEF BaselineOf
  <2>. QED  BY <2>2, <2>3, <2>4, <2>5
<1>5. OneLoader' /\ TimesInOrder' /\ seeks' = 0 /\ current_timestamp'[i] # None =>
              /\ \A e \in Events(InHand(i))' : current_timestamp'[i] <= e.t
              /\ \A t \in Threads : \A x \in Range(pending'[t]) : current_timestamp'[i] <= x.t
              /\ eof' \/ \A p \in pos' + 1..FileLen :
                          file'[p].kind = "cd" =>
                             current_timestamp'[i] <= SaturatingSub(file'[p].time, shift')
              /\ call'[i].kind = "delta" =>
                    \A e \in Range(Taken(i)') : e.t < current_timestamp'[i] + call'[i].size
  BY <1>1, <1>4
<1>. QED  BY <1>3, <1>5 DEF BaselineOf

LEMMA LaterWords ==
    ASSUME TypeOK, TimesInOrder, shift # None, NEW p \in 1..FileLen, NEW q \in 1..FileLen,
           file[p].kind = "cd", file[q].kind = "cd", p < q
    PROVE  SaturatingSub(file[p].time, shift) <= SaturatingSub(file[q].time, shift)
<1>1. file[p].time <= file[q].time
  BY DEF TimesInOrder, Timed
<1>2. file[p].time \in Nat /\ file[q].time \in Nat /\ shift \in Nat
  BY ProgramTypes DEF TypeOK
<1>3. \A a, b, s \in Nat : a <= b => SaturatingSub(a, s) <= SaturatingSub(b, s)
  BY DEF SaturatingSub
<1>. QED  BY <1>1, <1>2, <1>3

LEMMA Earliest ==
    ASSUME TypeOK, FileInv, TimesInOrder, seeks = 0, NEW i \in Iters,
           NEW e \in Events(InHand(i))
    PROVE  /\ e.t \in Nat
           /\ \A f \in Events(InHand(i)) : e.n < f.n => e.t <= f.t
           /\ \A t \in Threads : \A x \in Range(pending[t]) : e.t <= x.t
           /\ \A p \in pos + 1..FileLen :
                 file[p].kind = "cd" => e.t <= SaturatingSub(file[p].time, shift)
<1>1. /\ file[e.p].kind = "cd" /\ shift # None /\ e.t = SaturatingSub(file[e.p].time, shift)
      /\ e.p <= pos /\ e.p \in 1..FileLen /\ e.t \in Nat
  <2>1. IsShown(e)
    BY DEF FileInv
  <2>2. e \in Event
    BY HandEvents
  <2>3. e.p <= pos
    BY DEF FileInv
  <2>. QED  BY <2>1, <2>2, <2>3 DEF IsShown, Event
<1>2. ASSUME NEW f \in Events(InHand(i)), e.n < f.n
      PROVE  e.t <= f.t
  <2>1. e.p < f.p /\ IsShown(f)
    BY <1>2 DEF FileInv
  <2>2. f.p \in 1..FileLen
    BY HandEvents DEF Event
  <2>. QED  BY <1>1, <2>1, <2>2, LaterWords DEF IsShown
<1>3. ASSUME NEW t \in Threads, NEW x \in Range(pending[t])
      PROVE  e.t <= x.t
  <2>1. e.p < x.p /\ IsShown(x)
    BY <1>3 DEF FileInv
  <2>2. x.p \in 1..FileLen
    <3>1. pending[t] \in Seq(Reads)
      BY DEF TypeOK
    <3>2. x \in Reads
      BY <1>3, <3>1, ElementOfSeq, LenProperties DEF Range
    <3>. QED  BY <3>2 DEF Reads
  <2>. QED  BY <1>1, <2>1, <2>2, LaterWords DEF IsShown
<1>4. ASSUME NEW p \in pos + 1..FileLen, file[p].kind = "cd"
      PROVE  e.t <= SaturatingSub(file[p].time, shift)
  <2>1. pos \in Nat /\ FileLen \in Nat
    BY DataAssumption DEF TypeOK
  <2>2. p \in 1..FileLen /\ e.p < p
    BY <1>1, <2>1
  <2>. QED  BY <1>1, <1>4, <2>2, LaterWords
<1>. QED  BY <1>1, <1>2, <1>3, <1>4

LEMMA FirstOfRest ==
    ASSUME TypeOK, NEW i \in Iters, InOrder(InHand(i)),
           NEW k \in Nat, k < Len(internal_buffer[i])
    PROVE  LET buf == internal_buffer[i]
           IN  /\ buf[k + 1] \in Events(InHand(i))
               /\ \A f \in Range(SubSeq(buf, k + 1, Len(buf))) \union Events(receiver[i]) :
                     f = buf[k + 1] \/ buf[k + 1].n < f.n
<1> DEFINE buf == internal_buffer[i]
           rest == SubSeq(buf, k + 1, Len(buf))
<1>1. /\ buf \in Seq(Event) /\ Len(buf) \in Nat /\ DOMAIN buf = 1..Len(buf)
      /\ Events(InHand(i)) = (Range(Taken(i)) \union Range(buf)) \union Events(receiver[i])
      /\ Ascending(buf)
      /\ Before(Range(Taken(i)) \union Range(buf), Events(receiver[i]))
  BY HandTypes, LenProperties
<1>2. k \in 0..Len(buf) /\ k + 1 \in 1..Len(buf)
  BY <1>1
<1>3. DOMAIN rest = 1..Len(buf) - k /\ \A j \in 1..Len(buf) - k : rest[j] = buf[k + j]
  BY <1>1, <1>2, Cut
<1>4. buf[k + 1] \in Range(buf)
  BY <1>1, <1>2 DEF Range
<1>5. \A f \in Events(receiver[i]) : buf[k + 1].n < f.n
  BY <1>1, <1>4 DEF Before
<1> HIDE DEF buf, rest
<1>6. ASSUME NEW f \in Range(rest)
      PROVE  f = buf[k + 1] \/ buf[k + 1].n < f.n
  <2>1. PICK j \in 1..Len(buf) - k : f = buf[k + j]
    BY <1>3 DEF Range
  <2>2. CASE j = 1
    BY <2>1, <2>2
  <2>3. CASE j # 1
    <3>1. k + 1 < k + j /\ k + j \in 1..Len(buf)
      BY <1>1, <1>2, <2>3
    <3>. QED  BY <1>1, <1>2, <2>1, <3>1 DEF Ascending
  <2>. QED  BY <2>2, <2>3
<1>. QED  BY <1>1, <1>4, <1>5, <1>6 DEF buf, rest

(* What a call takes, and where its window starts and ends.                *)
Start(i) == IF current_timestamp[i] = None THEN Head(internal_buffer[i]).t
                                           ELSE current_timestamp[i]
InTime(i, ts) ==
    /\ \A e \in Events(InHand(i)) : ts <= e.t
    /\ \A t \in Threads : \A x \in Range(pending[t]) : ts <= x.t
    /\ eof \/ \A p \in pos + 1..FileLen :
                file[p].kind = "cd" => ts <= SaturatingSub(file[p].time, shift)

LEMMA StartInTime ==
    ASSUME TypeOK, ThreadInv, OrderInv, FileInv, BaselineInv,
           NEW i \in Iters, TakeEvents(i), OneLoader, TimesInOrder, seeks = 0
    PROVE  InTime(i, Start(i))
<1> DEFINE buf == internal_buffer[i]
<1>1. CASE current_timestamp[i] # None
  BY <1>1 DEF BaselineInv, InTime, Start
<1>2. CASE current_timestamp[i] = None
  <2>1. buf # <<>> /\ buf \in Seq(Event) /\ Taken(i) = <<>>
    BY <1>2 DEF TakeEvents, TypeOK, BaselineInv
  <2>2. Len(buf) \in Nat /\ 0 < Len(buf) /\ Head(buf) = buf[1] /\ SubSeq(buf, 1, Len(buf)) = buf
    <3>1. Len(buf) \in Nat \ {0} /\ Head(buf) = buf[1]
      BY <2>1, LenProperties, EmptySeq
    <3>2. /\ SubSeq(buf, 1, Len(buf)) \in Seq(Event)
          /\ Len(SubSeq(buf, 1, Len(buf))) = Len(buf)
          /\ \A j \in 1..Len(buf) : SubSeq(buf, 1, Len(buf))[j] = buf[j]
      BY <2>1, <3>1, Cut
    <3>3. SubSeq(buf, 1, Len(buf)) = buf
      BY <2>1, <3>2, SeqEqual
    <3>. QED  BY <3>1, <3>3
  <2>3. /\ Events(InHand(i)) = (Range(<<>>) \union Range(buf)) \union Events(receiver[i])
        /\ InOrder(InHand(i))
    BY <2>1, HandTypes DEF OrderInv
  <2>4. Range(<<>>) = {}
    BY DEF Range
  <2>5. /\ buf[0 + 1] \in Events(InHand(i))
        /\ \A f \in Range(SubSeq(buf, 0 + 1, Len(buf))) \union Events(receiver[i]) :
              f = buf[0 + 1] \/ buf[0 + 1].n < f.n
    BY <2>2, <2>3, FirstOfRest
  <2> DEFINE e == buf[1]
  <2>6. 0 + 1 = 1
    OBVIOUS
  <2>7. e \in Events(InHand(i)) /\ \A f \in Events(InHand(i)) : f = e \/ e.n < f.n
    BY <2>2, <2>3, <2>4, <2>5, <2>6
  <2>8. Start(i) = e.t
    BY <1>2, <2>2 DEF Start
  <2> HIDE DEF e
  <2>9. /\ e.t \in Nat
        /\ \A f \in Events(InHand(i)) : e.n < f.n => e.t <= f.t
        /\ \A t \in Threads : \A x \in Range(pending[t]) : e.t <= x.t
        /\ \A p \in pos + 1..FileLen :
              file[p].kind = "cd" => e.t <= SaturatingSub(file[p].time, shift)
    BY <2>7, Earliest
  <2>10. e.t <= e.t
    BY <2>9
  <2>11. \A f \in Events(InHand(i)) : e.t <= f.t
    BY <2>7, <2>9, <2>10
  <2>. QED  BY <2>8, <2>9, <2>11 DEF InTime
<1>. QED  BY <1>1, <1>2

LEMMA WindowInTime ==
    ASSUME TypeOK, TypeOK', ThreadInv, BufferInv, OrderInv, FileInv, BaselineInv,
           NEW i \in Iters, TakeEvents(i), OneLoader, TimesInOrder, seeks = 0,
           call[i].kind = "delta"
    PROVE  LET k == Popped(i)
               taken == batch[i] \o SubSeq(internal_buffer[i], 1, k)
           IN  /\ EndTs(i) = call[i].size + Start(i) /\ Start(i) \in Nat
               /\ \A e \in Range(taken) : e.t < EndTs(i) /\ Start(i) <= e.t /\ e.t \in Nat
               /\ Complete(i, k) =>
                     /\ \A e \in Events(InHand(i))' : EndTs(i) <= e.t
                     /\ \A t \in Threads : \A x \in Range(pending[t]) : EndTs(i) <= x.t
                     /\ \A p \in pos + 1..FileLen :
                           file[p].kind = "cd" => EndTs(i) <= SaturatingSub(file[p].time, shift)
<1> DEFINE k == Popped(i)
           buf == internal_buffer[i]
           taken == batch[i] \o SubSeq(buf, 1, k)
           rest == SubSeq(buf, k + 1, Len(buf))
           w == EndTs(i)
<1>1. /\ pc[i] = "take" /\ buf # <<>> /\ call[i] \in Calls
      /\ call[i].kind = "n" => Len(batch[i]) < call[i].size
  BY DEF TakeEvents, ThreadInv, BufferInv
<1>2. /\ k \in 0..Len(buf) /\ Len(buf) \in Nat \ {0} /\ Head(buf) \in Event /\ w \in Nat
      /\ Complete(i, k) <=> k < Len(buf)
      /\ \A j \in 1..k : buf[j].t < w
      /\ k < Len(buf) => w <= buf[k + 1].t
  BY <1>1, TakeFacts
<1>3. w = call[i].size + Start(i) /\ Start(i) \in Nat
  <2>1. current_timestamp[i] \in Nat \union {None} /\ Head(buf).t \in Nat
    BY <1>2 DEF TypeOK, Event
  <2>. QED  BY <2>1 DEF EndTs, Start
<1>4. InTime(i, Start(i))
  BY StartInTime
<1>5. /\ Range(taken) = Range(batch[i]) \union Range(SubSeq(buf, 1, k))
      /\ Taken(i) = batch[i]
      /\ Complete(i, k) => Events(InHand(i))' = Range(rest) \union Events(receiver[i])
  BY TakeHand
<1>6. /\ buf \in Seq(Event) /\ batch[i] \in Seq(Event)
      /\ Events(InHand(i)) = (Range(batch[i]) \union Range(buf)) \union Events(receiver[i])
  BY <1>5, HandTypes DEF TypeOK
<1>7. /\ Range(SubSeq(buf, 1, k)) \subseteq Range(buf)
      /\ \A e \in Range(SubSeq(buf, 1, k)) : e.t < w
  <2> DEFINE a == SubSeq(buf, 1, k)
  <2> HIDE DEF k, buf
  <2>1. DOMAIN a = 1..k /\ \A j \in 1..k : a[j] = buf[j]
    BY <1>2, <1>6, Cut
  <2>2. Range(a) \subseteq Range(buf)
    <3>1. Range(buf) = Range(a) \union Range(rest)
      BY <1>2, <1>6, Cut
    <3>. QED  BY <3>1
  <2> HIDE DEF a
  <2>3. \A e \in Range(a) : e.t < w
    BY <1>2, <2>1 DEF Range
  <2>. QED  BY <2>2, <2>3 DEF a
<1>8. \A e \in Range(batch[i]) : e.t < w
  <2>1. SUFFICES ASSUME NEW e \in Range(batch[i]) PROVE e.t < w
    OBVIOUS
  <2>2. batch[i] # <<>>
    BY <2>1 DEF Range
  <2>3. current_timestamp[i] # None
    BY <1>5, <2>2 DEF BaselineInv
  <2>4. e.t < current_timestamp[i] + call[i].size
    BY <1>5, <2>1, <2>3 DEF BaselineInv
  <2>5. w = call[i].size + current_timestamp[i]
    BY <2>3 DEF EndTs
  <2>6. call[i].size \in Nat /\ current_timestamp[i] \in Nat
    BY <1>1, <2>3, DataAssumption DEF TypeOK
  <2>. QED  BY <2>4, <2>5, <2>6
<1>9. \A e \in Range(taken) : e.t < w /\ Start(i) <= e.t /\ e.t \in Nat
  <2>1. Range(taken) \subseteq Events(InHand(i))
    BY <1>5, <1>6, <1>7
  <2>2. \A e \in Range(taken) : Start(i) <= e.t
    BY <1>4, <2>1 DEF InTime
  <2>3. \A e \in Range(taken) : e.t < w
    BY <1>5, <1>7, <1>8
  <2>4. \A e \in Range(taken) : e.t \in Nat
    BY <2>1, HandEvents DEF Event
  <2>. QED  BY <2>2, <2>3, <2>4
<1>10. ASSUME Complete(i, k)
       PROVE  /\ \A e \in Events(InHand(i))' : w <= e.t
              /\ \A t \in Threads : \A x \in Range(pending[t]) : w <= x.t
              /\ \A p \in pos + 1..FileLen :
                    file[p].kind = "cd" => w <= SaturatingSub(file[p].time, shift)
  <2> DEFINE e == buf[k + 1]
  <2>1. k < Len(buf) /\ k \in Nat /\ w <= e.t
    BY <1>2, <1>10
  <2>2. InOrder(InHand(i))
    BY DEF OrderInv
  <2>3. /\ e \in Events(InHand(i))
        /\ \A f \in Range(rest) \union Events(receiver[i]) : f = e \/ e.n < f.n
    BY <2>1, <2>2, FirstOfRest
  <2>4. Range(rest) \subseteq Range(buf)
    <3> HIDE DEF k, buf
    <3>1. Range(buf) = Range(SubSeq(buf, 1, k)) \union Range(rest)
      BY <1>2, <1>6, Cut
    <3>. QED  BY <3>1
  <2>5. Events(InHand(i))' \subseteq Events(InHand(i))
    BY <1>5, <1>6, <1>10, <2>4
  <2> HIDE DEF e, w
  <2>6. /\ e.t \in Nat
        /\ \A f \in Events(InHand(i)) : e.n < f.n => e.t <= f.t
        /\ \A t \in Threads : \A x \in Range(pending[t]) : e.t <= x.t
        /\ \A p \in pos + 1..FileLen :
              file[p].kind = "cd" => e.t <= SaturatingSub(file[p].time, shift)
    BY <2>3, Earliest
  <2>7. \A f \in Events(InHand(i))' : f.t \in Nat /\ e.t <= f.t
    <3>1. \A f \in Events(InHand(i))' : f = e \/ e.n < f.n
      BY <1>5, <1>10, <2>3
    <3>2. \A f \in Events(InHand(i))' : f.t \in Nat
      BY <2>5, HandEvents DEF Event
    <3>. QED  BY <2>5, <2>6, <3>1, <3>2
  <2>8. \A t \in Threads : \A x \in Range(pending[t]) : x.t \in Nat
    <3>1. \A t \in Threads : pending[t] \in Seq(Reads)
      BY DEF TypeOK
    <3>2. \A t \in Threads : \A x \in Range(pending[t]) : x \in Reads
      BY <3>1, ElementOfSeq, LenProperties DEF Range
    <3>. QED  BY <3>2 DEF Reads
  <2>9. \A p \in pos + 1..FileLen : file[p].kind = "cd" => SaturatingSub(file[p].time, shift) \in Nat
    <3>1. shift # None
      BY <2>3 DEF FileInv, IsShown
    <3>0. shift \in program.times /\ pos \in Nat
      BY <3>1 DEF TypeOK
    <3>2. pos \in Nat /\ FileLen \in Nat /\ shift \in Nat
      BY <3>0, DataAssumption, ProgramTypes
    <3>3. \A p \in pos + 1..FileLen : file[p].time \in Nat
      BY <3>2, ProgramTypes
    <3>. QED  BY <3>2, <3>3 DEF SaturatingSub
  <2>10. w \in Nat
    BY <1>2 DEF w
  <2>11. \A a, b, c \in Nat : a <= b /\ b <= c => a <= c
    OBVIOUS
  <2>. QED  BY <2>1, <2>6, <2>7, <2>8, <2>9, <2>10, <2>11
<1>. QED  BY <1>2, <1>3, <1>9, <1>10

LEMMA TakeBaseline ==
    ASSUME TypeOK, TypeOK', ThreadInv, BufferInv, OrderInv, FileInv, BaselineInv,
           NEW i \in Iters, TakeEvents(i)
    PROVE  BaselineOf(i)'
<1> DEFINE k == Popped(i)
           taken == batch[i] \o SubSeq(internal_buffer[i], 1, k)
           ts == current_timestamp'[i]
<1>1. /\ program' = program /\ file' = file /\ shift' = shift /\ pending' = pending
      /\ seeks' = seeks /\ pos' = pos /\ call' = call /\ eof' = eof
  BY OneHand DEF TakeEvents, streamVars
<1>2. ts = IF call[i].kind = "delta" /\ Complete(i, k) THEN EndTs(i) ELSE Start(i)
  BY DEF TakeEvents, TypeOK, Start
<1>3. /\ Complete(i, k) => Taken(i)' = <<>>
      /\ ~Complete(i, k) => Taken(i)' = taken
      /\ Events(InHand(i))' \subseteq Events(InHand(i))
  BY TakeHand, HandShrinks
<1>4. Start(i) \in Nat /\ shift # None
  <2>1. internal_buffer[i] # <<>> /\ internal_buffer[i] \in Seq(Event)
    BY DEF TakeEvents, TypeOK
  <2>2. Head(internal_buffer[i]) \in Range(internal_buffer[i])
    BY <2>1, HeadTailRange
  <2>3. Head(internal_buffer[i]) \in Events(InHand(i))
    BY <2>2, HandTypes
  <2>4. Head(internal_buffer[i]).t \in Nat /\ IsShown(Head(internal_buffer[i]))
    BY <2>3, HandEvents DEF FileInv, Event
  <2>. QED  BY <2>4 DEF Start, TypeOK, IsShown
<1>5. (OneLoader' <=> OneLoader) /\ (TimesInOrder' <=> TimesInOrder)
  BY <1>1 DEF OneLoader, TimesInOrder
<1>6. Range(<<>>) = {}
  BY DEF Range
<1>7. Taken(i)' # <<>> => ts # None
  <2>1. Taken(i)' # <<>> => ts = Start(i)
    BY <1>2, <1>3
  <2>. QED  BY <1>4, <2>1, ThreadsAssumption
<1>8. ASSUME OneLoader, TimesInOrder, seeks = 0
      PROVE  /\ \A e \in Events(InHand(i))' : ts <= e.t
             /\ \A t \in Threads : \A x \in Range(pending[t]) : ts <= x.t
             /\ eof \/ \A p \in pos + 1..FileLen :
                         file[p].kind = "cd" => ts <= SaturatingSub(file[p].time, shift)
             /\ call[i].kind = "delta" => \A e \in Range(Taken(i)') : e.t < ts + call[i].size
  <2>1. CASE call[i].kind = "delta" /\ Complete(i, k)
    <3>1. ts = EndTs(i) /\ Taken(i)' = <<>>
      BY <1>2, <1>3, <2>1
    <3>2. /\ \A e \in Events(InHand(i))' : EndTs(i) <= e.t
          /\ \A t \in Threads : \A x \in Range(pending[t]) : EndTs(i) <= x.t
          /\ \A p \in pos + 1..FileLen :
                file[p].kind = "cd" => EndTs(i) <= SaturatingSub(file[p].time, shift)
      BY <1>8, <2>1, WindowInTime
    <3>. QED  BY <1>6, <3>1, <3>2
  <2>2. CASE ~(call[i].kind = "delta" /\ Complete(i, k))
    <3>1. ts = Start(i) /\ InTime(i, Start(i))
      BY <1>2, <1>8, <2>2, StartInTime
    <3>2. /\ \A e \in Events(InHand(i))' : ts <= e.t
          /\ \A t \in Threads : \A x \in Range(pending[t]) : ts <= x.t
          /\ eof \/ \A p \in pos + 1..FileLen :
                      file[p].kind = "cd" => ts <= SaturatingSub(file[p].time, shift)
      BY <1>3, <3>1 DEF InTime
    <3>3. ASSUME call[i].kind = "delta"
          PROVE  \A e \in Range(Taken(i)') : e.t < ts + call[i].size
      <4>1. Taken(i)' = taken
        BY <1>3, <2>2, <3>3
      <4>2. /\ EndTs(i) = call[i].size + Start(i)
            /\ \A e \in Range(taken) : e.t < EndTs(i)
        BY <1>8, <3>3, WindowInTime
      <4>3. call[i].size \in Nat
        <5>1. call[i] \in Calls
          BY DEF TakeEvents, ThreadInv
        <5>. QED  BY <5>1, DataAssumption
      <4>4. EndTs(i) = ts + call[i].size
        BY <1>4, <3>1, <4>2, <4>3
      <4>. QED  BY <4>1, <4>2, <4>4
    <3>. QED  BY <3>2, <3>3
  <2>. QED  BY <2>1, <2>2
<1> HIDE DEF ts, taken, k
<1>9. OneLoader' /\ TimesInOrder' /\ seeks' = 0 /\ ts # None =>
         /\ \A e \in Events(InHand(i))' : ts <= e.t
         /\ \A t \in Threads : \A x \in Range(pending'[t]) : ts <= x.t
         /\ eof' \/ \A p \in pos' + 1..FileLen :
                     file'[p].kind = "cd" => ts <= SaturatingSub(file'[p].time, shift')
         /\ call'[i].kind = "delta" =>
               \A e \in Range(Taken(i)') : e.t < ts + call'[i].size
  BY <1>1, <1>5, <1>8
<1>. QED  BY <1>1, <1>4, <1>7, <1>9 DEF BaselineOf, ts

(* A load that fails at the end ends the call; nothing is left in hand.    *)
LEMMA FailBaseline ==
    ASSUME TypeOK, TypeOK', LockInv, ThreadInv, BufferInv, BaselineInv, NEW i \in Iters,
           NEW error \in Errors, IterFails(i, error)
    PROVE  BaselineOf(i)'
<1>1. /\ program' = program /\ file' = file /\ shift' = shift /\ pending' = pending
      /\ seeks' = seeks /\ pos' = pos /\ (eof => eof')
  <2>1. /\ program' = program /\ file' = file /\ shift' = shift /\ pending' = pending
        /\ seeks' = seeks /\ pos' = pos
    BY OneHand
  <2>2. eof => eof'
    BY DEF IterFails, LoadFails
  <2>. QED  BY <2>1, <2>2
<1>2. /\ Taken(i) = batch[i] /\ Taken(i)' = <<>>
      /\ Events(InHand(i))' = Events(receiver[i])
      /\ Events(InHand(i))' \subseteq Events(InHand(i))
  BY FailHand, HandShrinks
<1>3. BaselineOf(i)
  BY BaselineParts
<1>4. CASE ~EndsBatch(i, error)
  <2>1. current_timestamp' = current_timestamp
    BY <1>4 DEF IterFails
  <2>. QED  BY <1>1, <1>2, <1>3, <2>1, BaselineKept
<1>5. CASE EndsBatch(i, error)
  <2>1. batch[i] # <<>> /\ error = "EndOfFile" /\ eof' = TRUE /\ lock = NoOne /\ pc[i] = "load"
    BY <1>5 DEF EndsBatch, IterFails, LoadFails
  <2>2. shift # None
    BY <1>2, <1>3, <2>1 DEF BaselineOf
  <2>3. Range(<<>>) = {} /\ Events(<<>>) = {}
    BY DEF Range, Events
  <2>4. \A t \in Threads : Range(pending'[t]) = {}
    <3>1. \A t \in Threads : pending[t] = <<>>
      BY <2>1, Distinct DEF LockInv
    <3>. QED  BY <1>1, <2>3, <3>1
  <2>5. OneLoader' => Events(InHand(i))' = {}
    <3>1. OneLoader' => OneLoader
      BY <1>1 DEF OneLoader
    <3>2. OneLoader => receiver[i] = <<>>
      BY <2>1 DEF BufferInv
    <3>. QED  BY <1>2, <2>3, <3>1, <3>2
  <2>. QED  BY <1>1, <1>2, <2>1, <2>2, <2>3, <2>4, <2>5 DEF BaselineOf
<1>. QED  BY <1>4, <1>5

LEMMA ReadBaseline ==
    ASSUME TypeOK, LockInv, ThreadInv, BaselineInv, NEW t \in Threads, LoadReads(t),
           NEW i \in Iters
    PROVE  BaselineOf(i)'
<1> DEFINE ts == current_timestamp[i]
<1>1. /\ program' = program /\ file' = file /\ seeks' = seeks /\ ~eof
      /\ shift # None => shift' = shift
      /\ pos \in Nat /\ pos' \in Nat /\ pos <= pos' /\ pos' <= FileLen
  BY ReadFacts
<1>2. \A u \in Threads : \A x \in Range(pending'[u]) :
         /\ x.p \in pos + 1..pos' /\ file[x.p].kind = "cd" /\ shift' # None
         /\ x.t = SaturatingSub(file[x.p].time, shift')
  BY ReadFacts
<1>3. BaselineOf(i)
  BY BaselineParts
<1>4. Taken(i)' = Taken(i) /\ InHand(i)' = InHand(i)
  BY IdleHands DEF IdleStep
<1>5. current_timestamp' = current_timestamp /\ call' = call
  BY DEF LoadReads, iterVars, Goes
<1>6. (OneLoader' <=> OneLoader) /\ (TimesInOrder' <=> TimesInOrder)
  BY <1>1 DEF OneLoader, TimesInOrder
<1>7. (ts # None => shift' # None) /\ (Taken(i)' # <<>> => ts # None)
  BY <1>1, <1>3, <1>4 DEF BaselineOf
<1>8. ASSUME OneLoader, TimesInOrder, seeks = 0, ts # None
      PROVE  /\ \A e \in Events(InHand(i)) : ts <= e.t
             /\ \A u \in Threads : \A x \in Range(pending'[u]) : ts <= x.t
             /\ \A p \in pos' + 1..FileLen :
                   file[p].kind = "cd" => ts <= SaturatingSub(file[p].time, shift')
             /\ call[i].kind = "delta" => \A e \in Range(Taken(i)) : e.t < ts + call[i].size
  <2>1. /\ \A e \in Events(InHand(i)) : ts <= e.t
        /\ \A p \in pos + 1..FileLen :
              file[p].kind = "cd" => ts <= SaturatingSub(file[p].time, shift)
        /\ call[i].kind = "delta" => \A e \in Range(Taken(i)) : e.t < ts + call[i].size
        /\ shift' = shift
    BY <1>1, <1>3, <1>8 DEF BaselineOf
  <2>2. pos + 1..pos' \subseteq pos + 1..FileLen /\ pos' + 1..FileLen \subseteq pos + 1..FileLen
    <3>1. \A a, b, c \in Nat : a <= b /\ b <= c =>
                                a + 1..b \subseteq a + 1..c /\ b + 1..c \subseteq a + 1..c
      OBVIOUS
    <3>2. FileLen \in Nat
      BY DataAssumption
    <3>. QED  BY <1>1, <3>1, <3>2
  <2>3. \A u \in Threads : \A x \in Range(pending'[u]) : ts <= x.t
    BY <1>2, <2>1, <2>2
  <2>. QED  BY <2>1, <2>2, <2>3
<1> HIDE DEF ts
<1>9. OneLoader' /\ TimesInOrder' /\ seeks' = 0 /\ ts # None =>
         /\ \A e \in Events(InHand(i))' : ts <= e.t
         /\ \A u \in Threads : \A x \in Range(pending'[u]) : ts <= x.t
         /\ eof' \/ \A p \in pos' + 1..FileLen :
                     file'[p].kind = "cd" => ts <= SaturatingSub(file'[p].time, shift')
         /\ call'[i].kind = "delta" =>
               \A e \in Range(Taken(i)') : e.t < ts + call'[i].size
  BY <1>1, <1>4, <1>5, <1>6, <1>8
<1>10. current_timestamp'[i] = ts
  BY <1>5 DEF ts
<1>. QED  BY <1>7, <1>9, <1>10 DEF BaselineOf

LEMMA SendBaseline ==
    ASSUME TypeOK, TypeOK', LockInv, BaselineInv, NEW t \in Threads, DecodeSends(t),
           NEW i \in Iters
    PROVE  BaselineOf(i)'
<1> DEFINE ts == current_timestamp[i]
<1>1. PICK k \in Nat \ {0}, events \in Seq(Event) : IsSent(events, t, k)
  BY SendFacts
<1>2. /\ program' = program /\ file' = file /\ shift' = shift
      /\ pos' = pos /\ eof' = eof /\ seeks' = seeks
      /\ \A u \in Threads : Range(pending'[u]) \subseteq Range(pending[u])
      /\ \A e \in Range(events) : \E x \in Range(pending[t]) : x.p = e.p /\ x.t = e.t
  BY <1>1, SentFile
<1>3. /\ current_timestamp' = current_timestamp /\ call' = call /\ pc' = pc /\ batch' = batch
      /\ internal_buffer' = internal_buffer
  BY DEF DecodeSends, iterVars, threadVars
<1>4. Taken(i)' = Taken(i)
  BY <1>3 DEF Taken
<1>5. Events(InHand(i))' \subseteq Events(InHand(i)) \union Range(events)
  <2>1. CASE i \in subscribed
    <3>1. Events(InHand(i))' = Events(InHand(i)) \union Range(events)
      BY <1>1, <2>1, SendHand
    <3>. QED  BY <3>1
  <2>2. CASE i \notin subscribed
    <3>1. receiver'[i] = receiver[i]
      BY <1>1, <2>2 DEF IsSent
    <3>2. InHand(i)' = InHand(i)
      BY <1>3, <3>1, SameHand
    <3>. QED  BY <3>2
  <2>. QED  BY <2>1, <2>2
<1>6. (OneLoader' <=> OneLoader) /\ (TimesInOrder' <=> TimesInOrder)
  BY <1>2 DEF OneLoader, TimesInOrder
<1>7. BaselineOf(i)
  BY BaselineParts
<1>8. (ts # None => shift' # None) /\ (Taken(i)' # <<>> => ts # None)
  BY <1>2, <1>4, <1>7 DEF BaselineOf
<1>9. ASSUME OneLoader, TimesInOrder, seeks = 0, ts # None
      PROVE  /\ \A e \in Events(InHand(i))' : ts <= e.t
             /\ \A u \in Threads : \A x \in Range(pending'[u]) : ts <= x.t
             /\ eof \/ \A p \in pos + 1..FileLen :
                         file[p].kind = "cd" => ts <= SaturatingSub(file[p].time, shift)
             /\ call[i].kind = "delta" => \A e \in Range(Taken(i)) : e.t < ts + call[i].size
  <2>1. /\ \A e \in Events(InHand(i)) : ts <= e.t
        /\ \A u \in Threads : \A x \in Range(pending[u]) : ts <= x.t
        /\ eof \/ \A p \in pos + 1..FileLen :
                    file[p].kind = "cd" => ts <= SaturatingSub(file[p].time, shift)
        /\ call[i].kind = "delta" => \A e \in Range(Taken(i)) : e.t < ts + call[i].size
    BY <1>7, <1>9 DEF BaselineOf
  <2>2. \A e \in Range(events) : ts <= e.t
    BY <1>2, <2>1
  <2>. QED  BY <1>2, <1>5, <2>1, <2>2
<1> HIDE DEF ts
<1>10. OneLoader' /\ TimesInOrder' /\ seeks' = 0 /\ ts # None =>
         /\ \A e \in Events(InHand(i))' : ts <= e.t
         /\ \A u \in Threads : \A x \in Range(pending'[u]) : ts <= x.t
         /\ eof' \/ \A p \in pos' + 1..FileLen :
                     file'[p].kind = "cd" => ts <= SaturatingSub(file'[p].time, shift')
         /\ call'[i].kind = "delta" =>
               \A e \in Range(Taken(i)') : e.t < ts + call'[i].size
  BY <1>2, <1>3, <1>4, <1>6, <1>9
<1>11. current_timestamp'[i] = ts
  BY <1>3 DEF ts
<1>. QED  BY <1>8, <1>10, <1>11 DEF BaselineOf

LEMMA BaselineStep ==
    ASSUME TypeOK, TypeOK', LockInv, ThreadInv, BufferInv, OrderInv, FileInv, BaselineInv,
           [Next]_vars
    PROVE  BaselineInv'
<1>1. SUFFICES ASSUME NEW i \in Iters PROVE BaselineOf(i)'
  BY BaselineParts
<1>2. BaselineOf(i)
  BY BaselineParts
<1>3. CASE IdleStep /\ ~\E t \in Threads : LoadReads(t)
  <2>1. /\ program' = program /\ file' = file /\ shift' = shift /\ pending' = pending
        /\ seeks' = 0 => seeks = 0 /\ pos' = pos /\ (eof => eof')
    BY <1>3, IdleFile
  <2>2. Taken(i)' = Taken(i) /\ InHand(i)' = InHand(i)
    BY <1>3, IdleHands
  <2>3. current_timestamp' = current_timestamp
    BY <1>3
    DEF IdleStep, vars, LoadReturns, LoadBatch, Seek, SeekToNextExt, NextExtReceived,
        NextExtSeeks, ReaderFails, LoadFails, AsWindows, Replenish, TryDrainFails, NextEvents,
        iterVars
  <2>4. CASE \E c \in Calls : NextEvents(i, c)
    <3>1. Taken(i) = <<>>
      BY <2>4, Distinct DEF NextEvents, Begins, Free, Taken
    <3>2. Taken(i)' = <<>>
      BY <2>2, <3>1
    <3>. QED  BY <1>2, <2>1, <2>2, <2>3, <3>2, BaselineKept
  <2>5. CASE ~\E c \in Calls : NextEvents(i, c)
    <3>1. call'[i] = call[i]
      <4>1. ASSUME NEW j \in Iters, j # i, NEW c \in Calls, NextEvents(j, c)
            PROVE  call'[i] = call[i]
        BY <4>1 DEF NextEvents, Begins, TypeOK
      <4>2. ASSUME LoadBatch \/ Seek \/ SeekToNextExt
            PROVE  call'[i] = call[i]
        BY <4>2, Distinct DEF LoadBatch, Seek, SeekToNextExt, ReaderBegins, Begins, TypeOK
      <4>3. ASSUME ~\E j \in Iters, c \in Calls : NextEvents(j, c),
                   ~(LoadBatch \/ Seek \/ SeekToNextExt)
            PROVE  call' = call
        BY <1>3, <4>3
        DEF IdleStep, vars, LoadReturns, NextExtReceived, NextExtSeeks, ReaderFails,
            AsWindows, Replenish, TryDrainFails, Goes, Return, threadVars
      <4>. QED  BY <2>5, <4>1, <4>2, <4>3
    <3>. QED  BY <1>2, <2>1, <2>2, <2>3, <3>1, BaselineKept
  <2>. QED  BY <2>4, <2>5
<1>4. ASSUME NEW t \in Threads, LoadReads(t)
      PROVE  BaselineOf(i)'
  BY <1>4, ReadBaseline
<1>5. ASSUME NEW t \in Threads, DecodeSends(t)
      PROVE  BaselineOf(i)'
  BY <1>5, SendBaseline
<1>6. ASSUME NEW j \in Iters,
             TakeEvents(j) \/ DrainChannel(j) \/ \E error \in Errors : IterFails(j, error)
      PROVE  BaselineOf(i)'
  <2>1. /\ program' = program /\ file' = file /\ shift' = shift /\ pending' = pending
        /\ seeks' = seeks /\ pos' = pos /\ call' = call
    BY <1>6, OneHand
  <2>2. eof => eof'
    BY <1>6 DEF TakeEvents, DrainChannel, IterFails, LoadFails, streamVars
  <2>3. CASE i # j
    <3>1. /\ Taken(i)' = Taken(i) /\ InHand(i)' = InHand(i)
          /\ current_timestamp'[i] = current_timestamp[i]
      BY <1>6, <2>3, OneHand
    <3>. QED  BY <1>2, <2>1, <2>2, <3>1, BaselineKept
  <2>4. CASE i = j /\ TakeEvents(j)
    BY <2>4, TakeBaseline
  <2>5. CASE i = j /\ \E error \in Errors : IterFails(j, error)
    BY <2>5, FailBaseline
  <2>6. CASE i = j /\ DrainChannel(j)
    <3>1. current_timestamp' = current_timestamp
      BY <2>6 DEF DrainChannel
    <3>2. Taken(i)' = Taken(i) /\ Events(InHand(i))' = Events(InHand(i))
      BY <2>6, DrainHand
    <3>. QED  BY <1>2, <2>1, <2>2, <3>1, <3>2, BaselineKept
  <2>. QED  BY <1>6, <2>3, <2>4, <2>5, <2>6
<1>. QED  BY <1>3, <1>4, <1>5, <1>6, Steps

-----------------------------------------------------------------------------
(* Everything together.                                                    *)
LEMMA InitInductive ==
    ASSUME Init
    PROVE  IndInv
<1>1. TypeOK
  <2>1. <<>> \in Seq(Reads) /\ <<>> \in Batches /\ <<>> \in Seq(Event)
    BY EmptySeq DEF Batches
  <2>2. call \in [Threads -> Calls \union [kind : program.calls \union {"none"}, size : {0}]]
    BY DEF Init, NoCall
  <2>3. pos \in 0..FileLen /\ seeks \in 0..MaxSeeks
    BY DataAssumption DEF Init
  <2>4. pc \in [Threads -> {"idle", "take", "drain", "load", "decode", "check", "seek"}]
    BY DEF Init
  <2>. QED  BY <2>1, <2>2, <2>3, <2>4 DEF Init, TypeOK
<1>2. /\ \A t \in Threads : pc[t] = "idle" /\ pending[t] = <<>> /\ call[t].kind = "none"
      /\ \A i \in Iters : /\ internal_buffer[i] = <<>> /\ receiver[i] = <<>>
                          /\ current_timestamp[i] = None /\ returned[i] = 0
      /\ lock = NoOne /\ subscribed = {} /\ ~eof /\ decoded = 0 /\ pos = 0
  BY DEF Init, NoCall
<1>3. Range(<<>>) = {} /\ Ascending(<<>>) /\ FileOrder(<<>>) /\ InOrder(<<>>) /\ Events(<<>>) = {}
  BY DEF Range, Ascending, FileOrder, InOrder, Events
<1>4. \A i \in Iters : Taken(i) = <<>> /\ Events(InHand(i)) = {} /\ InOrder(InHand(i))
  <2>1. SUFFICES ASSUME NEW i \in Iters
                 PROVE  Taken(i) = <<>> /\ Events(InHand(i)) = {} /\ InOrder(InHand(i))
    OBVIOUS
  <2>2. Taken(i) = <<>>
    BY <1>2, Distinct DEF Taken
  <2>3. Before({}, {}) /\ Before({} \union {}, {})
    BY DEF Before
  <2>. QED  BY <1>1, <1>2, <1>3, <2>2, <2>3, HandTypes
<1>5. LockInv
  BY <1>2, Distinct DEF LockInv
<1>6. ThreadInv
  BY <1>2, Distinct DEF ThreadInv
<1>7. BufferInv
  BY <1>2, Distinct DEF BufferInv
<1>8. OrderInv
  BY <1>2, <1>4 DEF OrderInv
<1>9. FileInv
  BY <1>2, <1>3, <1>4 DEF FileInv
<1>10. BaselineInv
  BY <1>2, <1>4 DEF BaselineInv
<1>. QED  BY <1>1, <1>5, <1>6, <1>7, <1>8, <1>9, <1>10 DEF IndInv

LEMMA NextInductive ==
    ASSUME IndInv, [Next]_vars
    PROVE  IndInv'
<1>1. /\ TypeOK /\ LockInv /\ ThreadInv /\ BufferInv /\ OrderInv /\ FileInv /\ BaselineInv
  BY DEF IndInv
<1>2. TypeOK'
  BY <1>1, TypesKept
<1>3. LockInv'
  BY <1>1, LockStep
<1>4. ThreadInv'
  BY <1>1, ThreadStep
<1>5. BufferInv'
  BY <1>1, BufferStep
<1>6. OrderInv'
  BY <1>1, <1>2, OrderStep
<1>7. FileInv'
  BY <1>1, <1>2, FileStep
<1>8. BaselineInv'
  BY <1>1, <1>2, BaselineStep
<1>. QED  BY <1>2, <1>3, <1>4, <1>5, <1>6, <1>7, <1>8 DEF IndInv

LEMMA Inductive == Spec => []IndInv
BY InitInductive, NextInductive, PTL DEF Spec

(* Every variable holds a value of its type: positions, batches and what   *)
(* iterators hold are of the file, whatever threads interleave.            *)
THEOREM TypeCorrect == Spec => []TypeOK
<1>1. IndInv => TypeOK
  BY DEF IndInv
<1>. QED  BY <1>1, Inductive, PTL

(* "Returns the next n decoded CD events": while one thread loads and no   *)
(* read fails, what was decoded since an iterator was made is returned or  *)
(* in its hands, once and in order.                                        *)
THEOREM NothingIsSkipped == Spec => []NothingSkipped
<1>1. ASSUME IndInv PROVE NothingSkipped
  <2>1. TypeOK /\ OrderInv
    BY <1>1 DEF IndInv
  <2>2. SUFFICES ASSUME OneLoader, ~program.ioErrors, NEW i \in subscribed
                 PROVE  /\ InOrder(InHand(i))
                        /\ {e.n : e \in Events(InHand(i))} = returned[i] + 1..decoded
    BY DEF NothingSkipped
  <2>3. i \in Iters
    BY <2>1 DEF TypeOK
  <2>4. /\ InOrder(InHand(i))
        /\ \A e \in Events(InHand(i)) : e.n \in returned[i] + 1..decoded
        /\ \A n \in returned[i] + 1..decoded : \E e \in Events(InHand(i)) : e.n = n
    BY <2>1, <2>2, <2>3 DEF OrderInv
  <2>. QED  BY <2>4
<1>. QED  BY <1>1, Inductive, PTL

(* Until someone seeks, what an iterator has in its hands is in the order  *)
(* of the file, however many threads load.                                 *)
THEOREM HandsInFileOrder == Spec => []InFileOrder
<1>1. ASSUME IndInv PROVE InFileOrder
  <2>1. TypeOK /\ OrderInv /\ FileInv
    BY <1>1 DEF IndInv
  <2>2. subscribed \subseteq Iters
    BY <2>1 DEF TypeOK
  <2>3. \A i \in Iters : InOrder(InHand(i))
    BY <2>1 DEF OrderInv
  <2>4. seeks = 0 => \A i \in Iters : \A e, f \in Events(InHand(i)) : e.n < f.n => e.p < f.p
    BY <2>1 DEF FileInv
  <2>. QED  BY <2>2, <2>3, <2>4 DEF InFileOrder
<1>. QED  BY <1>1, Inductive, PTL

(* The steps that end a call of an iterator.                               *)
LEMMA ReturnSteps ==
    ASSUME TypeOK, ThreadInv, [Next]_vars, NEW i \in Iters, pc[i] # "idle", pc'[i] = "idle"
    PROVE  TakeEvents(i) \/ \E error \in Errors : IterFails(i, error)
<1>1. ~IdleStep
  BY IdleHands
<1>2. ASSUME NEW t \in Threads, DecodeSends(t)
      PROVE  FALSE
  BY <1>2 DEF DecodeSends, threadVars
<1>3. PICK j \in Iters :
           TakeEvents(j) \/ DrainChannel(j) \/ \E error \in Errors : IterFails(j, error)
  BY <1>1, <1>2, Steps
<1>4. j = i
  BY <1>3, OneHand
<1>5. ~DrainChannel(i)
  BY Distinct DEF DrainChannel, Goes, TypeOK
<1>. QED  BY <1>3, <1>4, <1>5

(* "or fewer if the stream ends": while one thread loads and no read       *)
(* fails, a call that ends for the end of the file has decoded all of it   *)
(* and leaves nothing in the iterator's hands.                             *)
THEOREM EndIsTheEnd == Spec => EndMeansEnd
<1>1. ASSUME IndInv, [Next]_vars, NEW i \in Iters, OneLoader, ~program.ioErrors,
             pc[i] = "load", pc'[i] = "idle", result'[i] \in {"ok", "EndOfFile"}
      PROVE  EndsForGood(i)'
  <2>1. TypeOK /\ ThreadInv /\ BufferInv
    BY <1>1 DEF IndInv
  <2>2. PICK error \in Errors : IterFails(i, error)
    BY <1>1, <2>1, ReturnSteps DEF TakeEvents
  <2>3. error = "EndOfFile"
    <3>1. result'[i] = IF EndsBatch(i, error) THEN "ok" ELSE error
      BY <2>1, <2>2, Distinct DEF IterFails, Return, TypeOK
    <3>2. error # "ok"
      BY DEF Errors
    <3>. QED  BY <1>1, <3>1, <3>2 DEF EndsBatch
  <2>4. AtEnd /\ pos' = pos /\ internal_buffer' = internal_buffer /\ receiver' = receiver
    BY <2>2, <2>3 DEF IterFails, LoadFails
  <2>5. pos = FileLen
    BY <1>1, <2>1, <2>4 DEF AtEnd, ThreadInv
  <2>6. internal_buffer[i] = <<>> /\ receiver[i] = <<>>
    BY <1>1, <2>1 DEF BufferInv
  <2>. QED  BY <2>4, <2>5, <2>6 DEF EndsForGood
<1>2. IndInv /\ [Next]_vars =>
         [\A i \in Iters :
            OneLoader /\ ~program.ioErrors /\ pc[i] = "load" /\ pc'[i] = "idle"
            /\ result'[i] \in {"ok", "EndOfFile"}
            => EndsForGood(i)']_vars
  BY <1>1
<1>. QED  BY <1>2, Inductive, PTL DEF Spec, EndMeansEnd

(* "events that fall within dt from the current timestamp baseline": while *)
(* one thread loads a file whose times are in order, without seeks, a      *)
(* window that next_delta returns is of its time only, and everything left *)
(* in hand is later.                                                       *)
THEOREM WindowsAreExact == Spec => WindowIsExact
<1> DEFINE Exact(i) ==
      LET end_ts == current_timestamp'[i]
      IN  /\ \A k \in DOMAIN batch'[i] :
                batch'[i][k].t < end_ts /\ end_ts <= batch'[i][k].t + call[i].size
          /\ \A e \in Events(InHand(i))' : end_ts <= e.t
<1>1. ASSUME IndInv, [Next]_vars, NEW i \in Iters, OneLoader, TimesInOrder, seeks = 0,
             pc[i] # "idle", pc'[i] = "idle", result'[i] = "ok", call[i].kind = "delta"
      PROVE  Exact(i)
  <2> DEFINE ts == current_timestamp'[i]
             out == batch'[i]
             size == call[i].size
  <2>1. /\ TypeOK /\ LockInv /\ ThreadInv /\ BufferInv /\ OrderInv /\ FileInv /\ BaselineInv
        /\ TypeOK' /\ BaselineInv'
    BY <1>1, NextInductive DEF IndInv
  <2>2. TakeEvents(i) \/ \E error \in Errors : IterFails(i, error)
    BY <1>1, <2>1, ReturnSteps
  <2>3. OneLoader' /\ TimesInOrder' /\ seeks' = 0
    <3>1. program' = program /\ file' = file /\ seeks' = seeks
      BY <2>1, <2>2, OneHand
    <3>. QED  BY <1>1, <3>1 DEF OneLoader, TimesInOrder
  <2>4. size \in Nat
    <3>1. call[i] \in Calls
      BY <1>1, <2>1 DEF ThreadInv
    <3>. QED  BY <3>1, DataAssumption
  <2>5. \E start \in Nat :
           /\ ts = start + size
           /\ \A e \in Range(out) : e.t < ts /\ start <= e.t /\ e.t \in Nat
    <3>1. CASE TakeEvents(i)
      <4> DEFINE k == Popped(i)
                 taken == batch[i] \o SubSeq(internal_buffer[i], 1, k)
      <4>1. out = taken /\ Complete(i, k)
        BY <1>1, <2>1, <3>1, TakeHand
      <4>2. ts = EndTs(i)
        BY <1>1, <2>1, <3>1, <4>1 DEF TakeEvents, TypeOK
      <4>3. /\ EndTs(i) = size + Start(i) /\ Start(i) \in Nat
            /\ \A e \in Range(taken) : e.t < EndTs(i) /\ Start(i) <= e.t /\ e.t \in Nat
        BY <1>1, <2>1, <3>1, WindowInTime
      <4> HIDE DEF taken, ts, out, size
      <4>4. ts = Start(i) + size
        BY <2>4, <4>2, <4>3
      <4>. QED  BY <4>1, <4>2, <4>3, <4>4
    <3>2. ASSUME NEW error \in Errors, IterFails(i, error)
          PROVE  \E start \in Nat :
                    /\ ts = start + size
                    /\ \A e \in Range(out) : e.t < ts /\ start <= e.t /\ e.t \in Nat
      <4> DEFINE start == current_timestamp[i]
      <4>1. EndsBatch(i, error)
        <5>1. result'[i] = IF EndsBatch(i, error) THEN "ok" ELSE error
          BY <2>1, <3>2, Distinct DEF IterFails, Return, TypeOK
        <5>2. error # "ok"
          BY DEF Errors
        <5>. QED  BY <1>1, <5>1, <5>2
      <4>2. Taken(i) = batch[i] /\ batch[i] # <<>> /\ out = batch[i]
        BY <2>1, <3>2, <4>1, FailHand DEF IterFails, EndsBatch
      <4>3. start \in Nat
        BY <2>1, <4>2 DEF BaselineInv, TypeOK
      <4>4. ts = start + size
        BY <1>1, <2>1, <3>2, <4>1 DEF IterFails, TypeOK
      <4>5. Range(out) \subseteq Events(InHand(i))
        BY <2>1, <4>2, HandTypes
      <4>6. /\ \A e \in Events(InHand(i)) : start <= e.t
            /\ \A e \in Range(Taken(i)) : e.t < start + size
        BY <1>1, <2>1, <4>3, ThreadsAssumption DEF BaselineInv
      <4>7. \A e \in Range(out) : e.t \in Nat
        BY <2>1, <4>5, HandEvents DEF Event
      <4> HIDE DEF start, out, size, ts
      <4>. QED  BY <4>2, <4>3, <4>4, <4>5, <4>6, <4>7
    <3>. QED  BY <2>2, <3>1, <3>2
  <2>6. \A k \in DOMAIN out : out[k] \in Range(out)
    BY DEF Range
  <2>7. ts # None
    BY <2>4, <2>5, ThreadsAssumption
  <2>8. \A e \in Events(InHand(i))' : ts <= e.t
    BY <2>1, <2>3, <2>7 DEF BaselineInv
  <2>9. \A e \in Range(out) : e.t < ts /\ ts <= e.t + size
    BY <2>4, <2>5
  <2>. QED  BY <2>6, <2>8, <2>9
<1>2. IndInv /\ [Next]_vars =>
         [\A i \in Iters :
            OneLoader /\ TimesInOrder /\ seeks = 0 /\
            pc[i] # "idle" /\ pc'[i] = "idle" /\ result'[i] = "ok" /\ call[i].kind = "delta" =>
               Exact(i)]_vars
  BY <1>1
<1>. QED  BY <1>2, Inductive, PTL DEF Spec, WindowIsExact
=============================================================================
