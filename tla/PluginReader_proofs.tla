------------------------ MODULE PluginReader_proofs ------------------------
(***************************************************************************)
(* Theorems about the raw reader, the plugin and the Python reader, for    *)
(* every file, any number of files opened, of receivers, sinks, iterators  *)
(* and calls.                                                              *)
(***************************************************************************)
EXTENDS PluginReader, SequenceTheorems, TLAPS

-----------------------------------------------------------------------------
(* Sequences: what a queue is after batches were sent to it, and after one *)
(* was taken.                                                              *)
LEMMA LongerQueue ==
    ASSUME NEW S, NEW s \in Seq(S), NEW b \in Seq(S), NEW m \in 0..Len(s)
    PROVE  SubSeq(s \o b, m + 1, Len(s \o b)) = SubSeq(s, m + 1, Len(s)) \o b
<1> DEFINE t == s \o b
           q == SubSeq(s, m + 1, Len(s))
           u == SubSeq(t, m + 1, Len(t))
<1>1. /\ Len(s) \in Nat /\ Len(b) \in Nat /\ t \in Seq(S) /\ Len(t) = Len(s) + Len(b)
      /\ \A i \in 1..Len(t) : t[i] = IF i <= Len(s) THEN s[i] ELSE b[i - Len(s)]
  BY ConcatProperties, LenProperties
<1>2. /\ \A i \in m + 1..Len(s) : s[i] \in S
      /\ \A i \in m + 1..Len(t) : t[i] \in S
  <2>1. (\A i \in 1..Len(s) : s[i] \in S) /\ \A i \in 1..Len(t) : t[i] \in S
    BY <1>1, ElementOfSeq
  <2> HIDE DEF t
  <2>. QED  BY <2>1, <1>1
<1> HIDE DEF t
<1>3. /\ q \in Seq(S) /\ Len(q) = Len(s) - m
      /\ \A i \in 1..Len(s) - m : q[i] = s[m + i]
  <2>1. /\ q \in Seq(S)
        /\ Len(q) = IF m + 1 <= Len(s) THEN Len(s) - (m + 1) + 1 ELSE 0
        /\ \A i \in 1..Len(s) - (m + 1) + 1 : q[i] = s[m + 1 + i - 1]
    BY <1>1, <1>2, SubSeqProperties
  <2> HIDE DEF q
  <2>. QED  BY <1>1, <2>1
<1>4. /\ u \in Seq(S) /\ Len(u) = Len(t) - m
      /\ \A i \in 1..Len(t) - m : u[i] = t[m + i]
  <2>1. /\ u \in Seq(S)
        /\ Len(u) = IF m + 1 <= Len(t) THEN Len(t) - (m + 1) + 1 ELSE 0
        /\ \A i \in 1..Len(t) - (m + 1) + 1 : u[i] = t[m + 1 + i - 1]
    BY <1>1, <1>2, SubSeqProperties
  <2> HIDE DEF u
  <2>. QED  BY <1>1, <2>1, SMTT(60)
<1> HIDE DEF q, u
<1>5. /\ q \o b \in Seq(S) /\ Len(q \o b) = Len(q) + Len(b)
      /\ \A i \in 1..Len(q) + Len(b) : (q \o b)[i] = IF i <= Len(q) THEN q[i] ELSE b[i - Len(q)]
  BY <1>3, ConcatProperties
<1>6. Len(u) = Len(q \o b)
  BY <1>1, <1>3, <1>4, <1>5
<1>7. ASSUME NEW i \in 1..Len(u)
      PROVE  u[i] = (q \o b)[i]
  <2>1. u[i] = t[m + i] /\ m + i \in 1..Len(t)
    BY <1>1, <1>4
  <2>2. CASE i <= Len(q)
    <3>1. i \in 1..Len(s) - m /\ m + i <= Len(s)
      BY <1>1, <1>3, <2>2
    <3>2. u[i] = s[m + i] /\ q[i] = s[m + i]
      BY <1>1, <1>3, <2>1, <3>1
    <3>3. (q \o b)[i] = q[i]
      BY <1>5, <1>6, <2>2
    <3>. QED  BY <3>2, <3>3
  <2>3. CASE i > Len(q)
    <3>1. u[i] = b[m + i - Len(s)]
      BY <1>1, <1>3, <2>1, <2>3
    <3>2. (q \o b)[i] = b[i - Len(q)]
      BY <1>1, <1>3, <1>5, <1>6, <2>3
    <3>3. i - Len(q) = m + i - Len(s)
      BY <1>1, <1>3
    <3>. QED  BY <3>1, <3>2, <3>3
  <2>4. i <= Len(q) \/ i > Len(q)
    BY <1>1, <1>3
  <2>. QED  BY <2>2, <2>3, <2>4
<1>8. u = q \o b
  BY <1>4, <1>5, <1>6, <1>7, SeqEqual
<1>. QED  BY <1>8 DEF q, u, t

LEMMA ShorterQueue ==
    ASSUME NEW S, NEW s \in Seq(S), NEW m \in 0..Len(s), SubSeq(s, m + 1, Len(s)) # <<>>
    PROVE  m < Len(s) /\ Tail(SubSeq(s, m + 1, Len(s))) = SubSeq(s, m + 2, Len(s))
<1>1. Len(s) \in Nat
  BY LenProperties
<1>2. m < Len(s)
  <2>1. SUFFICES ASSUME m = Len(s) PROVE FALSE
    BY <1>1
  <2>. QED  BY <1>1, <2>1, SubSeqEmpty
<1>3. m + 1 \in 1..Len(s) /\ Len(s) \in m + 1..Len(s) /\ m + 1 + 1 = m + 2
  BY <1>1, <1>2
<1>4. Tail(SubSeq(s, m + 1, Len(s))) = SubSeq(s, m + 1 + 1, Len(s))
  BY <1>3, HeadTailOfSubSeq
<1>. QED  BY <1>2, <1>3, <1>4

(* The elements of sequences that are put together and taken apart.        *)
LEMMA ConcatRange ==
    ASSUME NEW S, NEW s \in Seq(S), NEW t \in Seq(S)
    PROVE  Range(s \o t) = Range(s) \union Range(t)
<1>1. /\ Len(s) \in Nat /\ Len(t) \in Nat /\ DOMAIN s = 1..Len(s) /\ DOMAIN t = 1..Len(t)
      /\ DOMAIN (s \o t) = 1..Len(s) + Len(t)
      /\ \A i \in 1..Len(s) + Len(t) : (s \o t)[i] = IF i <= Len(s) THEN s[i] ELSE t[i - Len(s)]
  BY ConcatProperties, LenProperties
<1> DEFINE u == s \o t
<1> HIDE DEF u
<1>2. \A i \in 1..Len(s) : i \in DOMAIN u /\ u[i] = s[i]
  BY <1>1 DEF u
<1>3. \A i \in 1..Len(t) : i + Len(s) \in DOMAIN u /\ u[i + Len(s)] = t[i]
  BY <1>1 DEF u
<1>4. \A i \in DOMAIN u : (i \in 1..Len(s) /\ u[i] = s[i])
                          \/ (i - Len(s) \in 1..Len(t) /\ u[i] = t[i - Len(s)])
  BY <1>1 DEF u
<1>5. Range(u) = Range(s) \union Range(t)
  BY <1>1, <1>2, <1>3, <1>4 DEF Range
<1>. QED  BY <1>5 DEF u

LEMMA HeadTailRange ==
    ASSUME NEW S, NEW s \in Seq(S), s # <<>>
    PROVE  Range(s) = {Head(s)} \union Range(Tail(s))
<1>1. /\ Len(s) \in Nat \ {0} /\ DOMAIN s = 1..Len(s)
      /\ Len(Tail(s)) = Len(s) - 1 /\ DOMAIN Tail(s) = 1..Len(s) - 1
      /\ \A i \in 1..Len(s) - 1 : Tail(s)[i] = s[i + 1]
      /\ Head(s) = s[1]
  BY HeadTailProperties, LenProperties, EmptySeq
<1> DEFINE t == Tail(s)
<1> HIDE DEF t
<1>2. \A i \in DOMAIN t : i + 1 \in DOMAIN s /\ t[i] = s[i + 1]
  BY <1>1 DEF t
<1>3. \A i \in DOMAIN s : i = 1 \/ (i - 1 \in DOMAIN t /\ s[i] = t[i - 1])
  BY <1>1 DEF t
<1>4. 1 \in DOMAIN s
  BY <1>1
<1>5. Range(s) = {Head(s)} \union Range(t)
  BY <1>1, <1>2, <1>3, <1>4 DEF Range
<1>. QED  BY <1>5 DEF t

LEMMA AppendRange ==
    ASSUME NEW S, NEW s \in Seq(S), NEW e \in S
    PROVE  Range(Append(s, e)) = Range(s) \union {e}
BY AppendProperties DEF Range

(* An element that goes from the head of one sequence to the end of        *)
(* another, and one that is first in a longer sequence.                    *)
LEMMA HeadMoves ==
    ASSUME NEW S, NEW s \in Seq(S), NEW q \in Seq(S), q # <<>>
    PROVE  Append(s, Head(q)) \o Tail(q) = s \o q
<1>1. /\ Head(q) \in S /\ Tail(q) \in Seq(S)
      /\ <<Head(q)>> \in Seq(S) /\ <<Head(q)>> \o Tail(q) = q
  OBVIOUS
<1>2. Append(s, Head(q)) = s \o <<Head(q)>>
  BY <1>1
<1>. QED  BY <1>1, <1>2, ConcatAssociative

LEMMA BatchesRegroup ==
    ASSUME NEW s \in Batches, NEW q \in Batches, NEW r \in Batches
    PROVE  s \o q \in Batches /\ (s \o q) \o r = s \o (q \o r)
<1> DEFINE X == Seq(Event)
<1>1. s \in Seq(X) /\ q \in Seq(X) /\ r \in Seq(X) /\ Batches = Seq(X)
  BY DEF Batches
<1> HIDE DEF X
<1>. QED  BY <1>1, ConcatAssociative, ConcatProperties

LEMMA BatchMoves ==
    ASSUME NEW s \in Batches, NEW q \in Batches, q # <<>>
    PROVE  /\ Head(q) \in Seq(Event) /\ Tail(q) \in Batches
           /\ Append(s, Head(q)) \in Batches
           /\ Append(s, Head(q)) \o Tail(q) = s \o q
           /\ Head(q \o s) = Head(q) /\ Tail(q \o s) = Tail(q) \o s /\ q \o s # <<>>
<1> DEFINE X == Seq(Event)
<1>1. s \in Seq(X) /\ q \in Seq(X) /\ Batches = Seq(X)
  BY DEF Batches
<1> HIDE DEF X
<1>2. /\ Head(q) \in X /\ Tail(q) \in Seq(X)
      /\ Append(s, Head(q)) \in Seq(X)
      /\ Append(s, Head(q)) \o Tail(q) = s \o q
  BY <1>1, HeadMoves
<1>3. Head(q \o s) = Head(q) /\ Tail(q \o s) = Tail(q) \o s /\ q \o s # <<>>
  BY <1>1
<1>. QED  BY <1>1, <1>2, <1>3 DEF X

(* The events in batches that are put together and taken apart.            *)
LEMMA EventsSplit ==
    ASSUME NEW q \in Batches
    PROVE  /\ \A r \in Batches : Events(q \o r) = Events(q) \union Events(r)
           /\ q # <<>> => Events(q) = Range(Head(q)) \union Events(Tail(q))
           /\ Events(<<>>) = {}
<1>1. ASSUME NEW r \in Batches
      PROVE  Events(q \o r) = Events(q) \union Events(r)
  <2>1. Range(q \o r) = Range(q) \union Range(r)
    BY ConcatRange DEF Batches
  <2>. QED  BY <2>1 DEF Events
<1>2. q # <<>> => Events(q) = Range(Head(q)) \union Events(Tail(q))
  <2>1. q # <<>> => Range(q) = {Head(q)} \union Range(Tail(q))
    BY HeadTailRange DEF Batches
  <2>. QED  BY <2>1 DEF Events
<1>3. Range(<<>>) = {}
  BY DEF Range
<1>. QED  BY <1>1, <1>2, <1>3 DEF Events

(* Order: of events that are put behind earlier ones, and of batches.      *)
LEMMA AscendingConcat ==
    ASSUME NEW s \in Seq(Event), NEW t \in Seq(Event), Ascending(s), Ascending(t),
           Before(Range(s), Range(t))
    PROVE  Ascending(s \o t)
<1>1. /\ Len(s) \in Nat /\ Len(t) \in Nat /\ DOMAIN s = 1..Len(s) /\ DOMAIN t = 1..Len(t)
      /\ DOMAIN (s \o t) = 1..Len(s) + Len(t)
      /\ \A i \in 1..Len(s) + Len(t) : (s \o t)[i] = IF i <= Len(s) THEN s[i] ELSE t[i - Len(s)]
  BY ConcatProperties, LenProperties
<1> DEFINE u == s \o t
<1>2. /\ DOMAIN u = 1..Len(s) + Len(t)
      /\ \A i \in 1..Len(s) + Len(t) : u[i] = IF i <= Len(s) THEN s[i] ELSE t[i - Len(s)]
  BY <1>1
<1> HIDE DEF u
<1>3. ASSUME NEW i \in DOMAIN u, NEW j \in DOMAIN u, i < j
      PROVE  u[i].n < u[j].n
  <2>1. CASE j <= Len(s)
    <3>1. i \in DOMAIN s /\ j \in DOMAIN s /\ u[i] = s[i] /\ u[j] = s[j]
      BY <1>1, <1>2, <1>3, <2>1
    <3>. QED  BY <1>3, <3>1 DEF Ascending
  <2>2. CASE i <= Len(s) /\ j > Len(s)
    <3>1. /\ i \in DOMAIN s /\ j - Len(s) \in DOMAIN t
          /\ u[i] = s[i] /\ u[j] = t[j - Len(s)]
      BY <1>1, <1>2, <1>3, <2>2
    <3>2. s[i] \in Range(s) /\ t[j - Len(s)] \in Range(t)
      BY <3>1 DEF Range
    <3>. QED  BY <3>1, <3>2 DEF Before
  <2>3. CASE i > Len(s)
    <3>1. /\ i - Len(s) \in DOMAIN t /\ j - Len(s) \in DOMAIN t /\ i - Len(s) < j - Len(s)
          /\ u[i] = t[i - Len(s)] /\ u[j] = t[j - Len(s)]
      BY <1>1, <1>2, <1>3, <2>3
    <3>. QED  BY <3>1 DEF Ascending
  <2>. QED  BY <1>1, <1>2, <1>3, <2>1, <2>2, <2>3
<1>. QED  BY <1>3 DEF Ascending, u

LEMMA AscendingPrefix ==
    ASSUME NEW s \in Seq(Event), NEW t \in Seq(Event), Ascending(s \o t)
    PROVE  Ascending(s)
<1>1. /\ Len(s) \in Nat /\ Len(t) \in Nat /\ DOMAIN s = 1..Len(s)
      /\ DOMAIN (s \o t) = 1..Len(s) + Len(t)
      /\ \A i \in 1..Len(s) + Len(t) : (s \o t)[i] = IF i <= Len(s) THEN s[i] ELSE t[i - Len(s)]
  BY ConcatProperties, LenProperties
<1> DEFINE u == s \o t
<1> HIDE DEF u
<1>2. \A i \in DOMAIN s : i \in DOMAIN u /\ u[i] = s[i]
  BY <1>1 DEF u
<1>3. Ascending(u)
  BY DEF u
<1>. QED  BY <1>2, <1>3 DEF Ascending

LEMMA InOrderConcat ==
    ASSUME NEW q \in Batches, NEW r \in Batches, InOrder(q), InOrder(r),
           Before(Events(q), Events(r))
    PROVE  InOrder(q \o r)
<1>1. /\ Len(q) \in Nat /\ Len(r) \in Nat /\ DOMAIN q = 1..Len(q) /\ DOMAIN r = 1..Len(r)
      /\ DOMAIN (q \o r) = 1..Len(q) + Len(r)
      /\ \A i \in 1..Len(q) + Len(r) : (q \o r)[i] = IF i <= Len(q) THEN q[i] ELSE r[i - Len(q)]
  BY ConcatProperties, LenProperties DEF Batches
<1> DEFINE u == q \o r
<1>2. /\ DOMAIN u = 1..Len(q) + Len(r)
      /\ \A i \in 1..Len(q) + Len(r) : u[i] = IF i <= Len(q) THEN q[i] ELSE r[i - Len(q)]
  BY <1>1
<1> HIDE DEF u
<1>3. \A i \in DOMAIN u : \/ i \in DOMAIN q /\ u[i] = q[i]
                          \/ i - Len(q) \in DOMAIN r /\ u[i] = r[i - Len(q)]
  BY <1>1, <1>2
<1>4. \A i \in DOMAIN u : Ascending(u[i])
  BY <1>3 DEF InOrder
<1>5. ASSUME NEW i \in DOMAIN u, NEW j \in DOMAIN u, i < j
      PROVE  Before(Range(u[i]), Range(u[j]))
  <2>1. CASE j <= Len(q)
    <3>1. i \in DOMAIN q /\ j \in DOMAIN q /\ u[i] = q[i] /\ u[j] = q[j]
      BY <1>1, <1>2, <1>5, <2>1
    <3>. QED  BY <1>5, <3>1 DEF InOrder
  <2>2. CASE i <= Len(q) /\ j > Len(q)
    <3>1. /\ i \in DOMAIN q /\ j - Len(q) \in DOMAIN r
          /\ u[i] = q[i] /\ u[j] = r[j - Len(q)]
      BY <1>1, <1>2, <1>5, <2>2
    <3>2. Range(q[i]) \subseteq Events(q) /\ Range(r[j - Len(q)]) \subseteq Events(r)
      BY <3>1 DEF Events, Range
    <3>. QED  BY <3>1, <3>2 DEF Before
  <2>3. CASE i > Len(q)
    <3>1. /\ i - Len(q) \in DOMAIN r /\ j - Len(q) \in DOMAIN r /\ i - Len(q) < j - Len(q)
          /\ u[i] = r[i - Len(q)] /\ u[j] = r[j - Len(q)]
      <4>1. i \in 1..Len(q) + Len(r) /\ j \in 1..Len(q) + Len(r) /\ j > Len(q) /\ Len(q) \in Nat
        BY <1>1, <1>2, <1>5, <2>3
      <4>2. u[i] = r[i - Len(q)] /\ u[j] = r[j - Len(q)]
        BY <1>2, <2>3, <4>1
      <4>. QED  BY <1>1, <1>5, <2>3, <4>1, <4>2
    <3>. QED  BY <3>1 DEF InOrder
  <2>. QED  BY <1>1, <1>2, <1>5, <2>1, <2>2, <2>3
<1>. QED  BY <1>4, <1>5 DEF InOrder, u

LEMMA InOrderTail ==
    ASSUME NEW q \in Batches, InOrder(q), q # <<>>
    PROVE  /\ InOrder(Tail(q)) /\ Ascending(Head(q))
           /\ Before(Range(Head(q)), Events(Tail(q)))
<1> DEFINE t == Tail(q)
<1>1. /\ Len(q) \in Nat \ {0} /\ DOMAIN q = 1..Len(q) /\ DOMAIN t = 1..Len(q) - 1
      /\ \A i \in 1..Len(q) - 1 : t[i] = q[i + 1]
      /\ Head(q) = q[1]
  BY HeadTailProperties, LenProperties, EmptySeq DEF Batches
<1> HIDE DEF t
<1>2. \A i \in DOMAIN t : i + 1 \in DOMAIN q /\ 1 < i + 1 /\ t[i] = q[i + 1]
  BY <1>1
<1>3. 1 \in DOMAIN q
  BY <1>1
<1>4. InOrder(t)
  <2>1. \A i \in DOMAIN t : Ascending(t[i])
    BY <1>2 DEF InOrder
  <2>2. ASSUME NEW i \in DOMAIN t, NEW j \in DOMAIN t, i < j
        PROVE  Before(Range(t[i]), Range(t[j]))
    <3>1. i + 1 < j + 1
      BY <1>1, <2>2
    <3>. QED  BY <1>2, <3>1 DEF InOrder
  <2>. QED  BY <2>1, <2>2 DEF InOrder
<1>5. Before(Range(Head(q)), Events(t))
  <2>1. \A i \in DOMAIN t : Before(Range(q[1]), Range(t[i]))
    BY <1>2, <1>3 DEF InOrder
  <2>2. Events(t) = UNION {Range(t[i]) : i \in DOMAIN t}
    BY DEF Events, Range
  <2>. QED  BY <1>1, <2>1, <2>2 DEF Before
<1>. QED  BY <1>1, <1>3, <1>4, <1>5 DEF InOrder, t

-----------------------------------------------------------------------------
(* The raw reader.  What the fields of a file and of a receiver hold.      *)
LEMMA FileFields ==
    ASSUME NEW o \in Files
    PROVE  /\ o.path \in Paths /\ o.pos \in Nat /\ o.eof \in BOOLEAN /\ o.started \in BOOLEAN
           /\ \A k \in KindsOfEvent : o[k] \in Seq(Nat) /\ o.sent[k] \in Batches
           /\ Len(Reads(o.path)) \in Nat
<1>1. o.path \in Paths /\ o.pos \in Nat /\ o.eof \in BOOLEAN /\ o.started \in BOOLEAN
  BY DEF Files
<1>2. \A k \in KindsOfEvent : o[k] \in Seq(Nat) /\ o.sent[k] \in Batches
  BY DEF Files, KindsOfEvent
<1>3. Len(Reads(o.path)) \in Nat
  BY <1>1, ContentAssumption, LenProperties
<1>. QED  BY <1>1, <1>2, <1>3

LEMMA ReadTypes ==
    ASSUME NEW p \in Paths, NEW i \in 1..Len(Reads(p))
    PROVE  \A k \in KindsOfEvent : Reads(p)[i][k] \in Batches
<1>1. Reads(p)[i] \in [cd : Seq(Seq(Event)), ext : Seq(Seq(Event))]
  BY ContentAssumption, ElementOfSeq
<1>. QED  BY <1>1 DEF KindsOfEvent, Batches

(* A file that is opened has no subscribers yet.                           *)
LEMMA WiredNew ==
    ASSUME NEW os, NEW cs, Wired(os, cs), NEW p \in Paths
    PROVE  Wired(Append(os, Opened(p)), cs)
<1> DEFINE new == Opened(p)
           os2 == Append(os, new)
<1>1. new \in Files /\ new.pos = 0 /\ new.path = p /\ \A k \in KindsOfEvent : new[k] = <<>>
  BY DEF Opened, Files, Batches, KindsOfEvent
<1>2. Len(Reads(p)) \in Nat
  BY ContentAssumption, LenProperties
<1> HIDE DEF new
<1>3. /\ os \in Seq(Files) /\ cs \in Seq(Receivers) /\ Len(os) \in Nat /\ Len(cs) \in Nat
      /\ os2 \in Seq(Files) /\ Len(os2) = Len(os) + 1
      /\ \A s \in 1..Len(os) : os2[s] = os[s]
      /\ os2[Len(os) + 1] = new
  BY <1>1, AppendProperties, LenProperties DEF Wired
<1> HIDE DEF os2
<1>4. \A c \in 1..Len(cs) : cs[c].session \in 1..Len(os)
  BY DEF Wired
<1>5. ASSUME NEW s \in 1..Len(os2)
      PROVE  /\ os2[s].pos <= Len(Reads(os2[s].path))
             /\ \A k \in KindsOfEvent : Range(os2[s][k]) = Subscribers(cs, s, k)
  <2>1. CASE s \in 1..Len(os)
    BY <1>3, <2>1 DEF Wired
  <2>2. CASE s = Len(os) + 1
    <3>1. \A c \in 1..Len(cs) : cs[c].session # s
      BY <1>3, <1>4, <2>2
    <3>2. os2[s] = new
      BY <1>3, <2>2
    <3>3. Range(<<>>) = {}
      BY DEF Range
    <3>4. \A k \in KindsOfEvent : Subscribers(cs, s, k) = {}
      BY <3>1 DEF Subscribers
    <3>5. os2[s].pos <= Len(Reads(os2[s].path))
      BY <1>1, <1>2, <3>2
    <3>6. \A k \in KindsOfEvent : Range(os2[s][k]) = Subscribers(cs, s, k)
      BY <1>1, <3>2, <3>3, <3>4
    <3>. QED  BY <3>5, <3>6
  <2>. QED  BY <1>3, <2>1, <2>2
<1>6. ASSUME NEW c \in 1..Len(cs)
      PROVE  /\ cs[c].session \in 1..Len(os2) /\ os2[cs[c].session] = os[cs[c].session]
  BY <1>3, <1>4
<1>7. Wired(os2, cs)
  BY <1>3, <1>5, <1>6 DEF Wired
<1>. QED  BY <1>7 DEF os2, new

(* A read moves on, or the end of the file is met, or a seek is made: the  *)
(* subscribers and what they were sent are the same.                       *)
LEMMA WiredMove ==
    ASSUME NEW os, NEW cs, Wired(os, cs), NEW s \in 1..Len(os), NEW o \in Files,
           o.path = os[s].path, o.sent = os[s].sent, o.pos <= Len(Reads(o.path)),
           \A k \in KindsOfEvent : o[k] = os[s][k]
    PROVE  Wired([os EXCEPT ![s] = o], cs)
<1> DEFINE os2 == [os EXCEPT ![s] = o]
<1>1. /\ os \in Seq(Files) /\ cs \in Seq(Receivers) /\ Len(os) \in Nat
      /\ os2 \in Seq(Files) /\ Len(os2) = Len(os)
      /\ \A i \in 1..Len(os) : os2[i] = IF i = s THEN o ELSE os[i]
  BY ExceptSeq, LenProperties DEF Wired
<1> HIDE DEF os2
<1>2. \A i \in 1..Len(os) : /\ os2[i].sent = os[i].sent
                            /\ \A k \in KindsOfEvent : os2[i][k] = os[i][k]
  BY <1>1
<1>3. \A i \in 1..Len(os) : os2[i].pos <= Len(Reads(os2[i].path))
  BY <1>1 DEF Wired
<1>4. \A c \in 1..Len(cs) : cs[c].session \in 1..Len(os)
  BY DEF Wired
<1>5. Wired(os2, cs)
  BY <1>1, <1>2, <1>3, <1>4 DEF Wired
<1>. QED  BY <1>5 DEF os2

LEMMA SubscribeFields ==
    ASSUME NEW o \in Files, NEW k \in KindsOfEvent, NEW c \in Nat
    PROVE  LET o2 == Subscribe(o, k, c)
           IN  /\ o2 \in Files /\ o2.path = o.path /\ o2.pos = o.pos /\ o2.eof = o.eof
               /\ o2.sent = o.sent /\ o2.started = TRUE
               /\ Range(o2[k]) = Range(o[k]) \union {c}
               /\ \A l \in KindsOfEvent \ {k} : o2[l] = o[l]
<1> DEFINE o2 == Subscribe(o, k, c)
           a == Append(o[k], c)
<1>1. o[k] \in Seq(Nat)
  BY FileFields
<1>2. a \in Seq(Nat) /\ Range(a) = Range(o[k]) \union {c}
  BY <1>1, AppendProperties, AppendRange
<1>3. o2 = [o EXCEPT ![k] = a, !.started = TRUE]
  BY DEF Subscribe
<1> HIDE DEF a, o2
<1>4. /\ o2 \in Files /\ o2.path = o.path /\ o2.pos = o.pos /\ o2.eof = o.eof
      /\ o2.sent = o.sent /\ o2.started = TRUE
  BY <1>2, <1>3 DEF Files, KindsOfEvent
<1>5. o2[k] = a
  BY <1>3 DEF Files, KindsOfEvent
<1>6. \A l \in KindsOfEvent \ {k} : o2[l] = o[l]
  BY <1>3 DEF Files, KindsOfEvent
<1>. QED  BY <1>2, <1>4, <1>5, <1>6 DEF o2

LEMMA SubscribeRange ==
    ASSUME NEW o \in Files, NEW k \in KindsOfEvent, NEW c \in Nat
    PROVE  Range(Subscribe(o, k, c)[k]) = Range(o[k]) \union {c}
BY SubscribeFields

LEMMA SubscribeOthers ==
    ASSUME NEW o \in Files, NEW k \in KindsOfEvent, NEW c \in Nat,
           NEW l \in KindsOfEvent \ {k}
    PROVE  Subscribe(o, k, c)[l] = o[l]
BY SubscribeFields

LEMMA SubscribedFile ==
    ASSUME NEW os, NEW cs, Wired(os, cs), NEW s \in 1..Len(os), NEW k \in KindsOfEvent
    PROVE  LET o == Subscribe(os[s], k, Len(cs) + 1)
           IN  /\ o \in Files /\ o.path = os[s].path /\ o.pos = os[s].pos /\ o.sent = os[s].sent
               /\ Range(o[k]) = Range(os[s][k]) \union {Len(cs) + 1}
               /\ \A l \in KindsOfEvent \ {k} : o[l] = os[s][l]
<1> DEFINE f == os[s]
           n == Len(cs) + 1
           o == Subscribe(f, k, n)
<1>1. f \in Files /\ n \in Nat
  BY ElementOfSeq, LenProperties DEF Wired
<1> HIDE DEF f, n
<1>2. o \in Files /\ o.path = f.path /\ o.pos = f.pos /\ o.sent = f.sent
  BY <1>1, SubscribeFields
<1>3. \A l \in KindsOfEvent \ {k} : o[l] = f[l]
  BY <1>1, SubscribeFields
<1>4. Range(o[k]) = Range(f[k]) \union {n}
  BY <1>1, SubscribeRange
<1>. QED  BY <1>2, <1>3, <1>4 DEF f, n

LEMMA SubscribedStream ==
    ASSUME NEW o \in Files, NEW k \in KindsOfEvent, NEW c
    PROVE  Subscribe(o, k, c).started /\ Subscribe(o, k, c).eof = o.eof
BY DEF Subscribe, Files, KindsOfEvent

LEMMA NewMissesNothing ==
    ASSUME NEW sent \in Batches, NEW ch, ch.queue = <<>>, ch.missed = Len(sent), ch.taken = 0
    PROVE  MissesNothing(ch, sent)
<1>1. Len(sent) \in Nat
  BY LenProperties DEF Batches
<1>2. ch.missed + ch.taken = Len(sent)
  BY <1>1
<1>3. SubSeq(sent, Len(sent) + 1, Len(sent)) = <<>>
  BY <1>1, SubSeqEmpty
<1>4. SubSeq(sent, ch.missed + ch.taken + 1, Len(sent)) = <<>>
  BY <1>2, <1>3
<1>. QED  BY <1>1, <1>2, <1>4 DEF MissesNothing

(* A new receiver has missed all that was sent before it, and nothing      *)
(* else.  A receiver of seek_to_next_ext is dropped with its queue.        *)
LEMMA WiredSubscribe ==
    ASSUME NEW os, NEW cs, Wired(os, cs), NEW s \in 1..Len(os), NEW k \in KindsOfEvent,
           NEW ch \in Receivers, ch.kind = k, ch.session = s, ch.queue = <<>>,
           ch.missed = Len(os[s].sent[k]), ch.taken = 0
    PROVE  Wired([os EXCEPT ![s] = Subscribe(@, k, Len(cs) + 1)], Append(cs, ch))
<1> DEFINE file == Subscribe(os[s], k, Len(cs) + 1)
           os2 == [os EXCEPT ![s] = file]
           cs2 == Append(cs, ch)
<1>0. /\ os \in Seq(Files) /\ cs \in Seq(Receivers) /\ Len(os) \in Nat /\ Len(cs) \in Nat
      /\ os[s] \in Files
  BY LenProperties, ElementOfSeq DEF Wired
<1>1. /\ file \in Files /\ file.path = os[s].path /\ file.pos = os[s].pos /\ file.sent = os[s].sent
      /\ Range(file[k]) = Range(os[s][k]) \union {Len(cs) + 1}
      /\ \A l \in KindsOfEvent \ {k} : file[l] = os[s][l]
  <2> DEFINE o == os[s]
             n == Len(cs) + 1
  <2>1. o \in Files /\ n \in Nat
    BY <1>0
  <2>2. file = Subscribe(o, k, n)
    OBVIOUS
  <2> HIDE DEF file, o, n
  <2>3. file \in Files /\ file.path = o.path /\ file.pos = o.pos /\ file.sent = o.sent
    BY <2>1, <2>2, SubscribeFields, ZenonT(90)
  <2>4. \A l \in KindsOfEvent \ {k} : file[l] = o[l]
    BY <2>1, <2>2, SubscribeOthers
  <2>5. Range(file[k]) = Range(o[k]) \union {n}
    BY <2>1, <2>2, SubscribeRange
  <2>. QED  BY <2>3, <2>4, <2>5 DEF o, n
<1> HIDE DEF file
<1>2. /\ os2 \in Seq(Files) /\ Len(os2) = Len(os)
      /\ \A i \in 1..Len(os) : os2[i] = IF i = s THEN file ELSE os[i]
  BY <1>0, <1>1, ExceptSeq
<1>3. /\ cs2 \in Seq(Receivers) /\ Len(cs2) = Len(cs) + 1 /\ cs2[Len(cs) + 1] = ch
      /\ \A c \in 1..Len(cs) : cs2[c] = cs[c]
  BY <1>0, AppendProperties
<1> HIDE DEF os2, cs2
<1>4. \A i \in 1..Len(os) : os2[i].sent = os[i].sent /\ os2[i].pos <= Len(Reads(os2[i].path))
  BY <1>1, <1>2 DEF Wired
<1>5. ASSUME NEW i \in 1..Len(os), NEW l \in KindsOfEvent
      PROVE  Range(os2[i][l]) = Subscribers(cs2, i, l)
  <2>1. Range(os[i][l]) = Subscribers(cs, i, l)
    BY DEF Wired
  <2>2. CASE i = s /\ l = k
    <3>1. Subscribers(cs2, i, l) = Subscribers(cs, i, l) \union {Len(cs) + 1}
      BY <1>0, <1>3, <2>2 DEF Subscribers
    <3>. QED  BY <1>1, <1>2, <2>1, <2>2, <3>1
  <2>3. CASE ~(i = s /\ l = k)
    <3>1. Subscribers(cs2, i, l) = Subscribers(cs, i, l)
      BY <1>0, <1>3, <2>3 DEF Subscribers
    <3>2. os2[i][l] = os[i][l]
      BY <1>1, <1>2, <2>3
    <3>. QED  BY <2>1, <3>1, <3>2
  <2>. QED  BY <2>2, <2>3
<1>6. ASSUME NEW c \in 1..Len(cs2)
      PROVE  /\ cs2[c].session \in 1..Len(os2)
             /\ MissesNothing(cs2[c], os2[cs2[c].session].sent[cs2[c].kind])
  <2>1. CASE c \in 1..Len(cs)
    <3>1. cs2[c] = cs[c] /\ cs[c].session \in 1..Len(os)
      BY <1>3, <2>1 DEF Wired
    <3>2. os2[cs[c].session].sent = os[cs[c].session].sent
      BY <1>4, <3>1
    <3>. QED  BY <1>2, <2>1, <3>1, <3>2 DEF Wired
  <2>2. CASE c = Len(cs) + 1
    <3>1. cs2[c] = ch /\ ch.session \in 1..Len(os2) /\ os2[s].sent = os[s].sent
      BY <1>2, <1>3, <1>4, <2>2
    <3>2. os[s].sent[k] \in Batches
      BY <1>0, FileFields
    <3>3. MissesNothing(ch, os[s].sent[k])
      BY <3>2, NewMissesNothing
    <3>. QED  BY <3>1, <3>3
  <2>. QED  BY <1>3, <2>1, <2>2
<1>7. Wired(os2, cs2)
  BY <1>2, <1>3, <1>4, <1>5, <1>6 DEF Wired
<1>. QED  BY <1>7 DEF os2, cs2, file

(* A receiver that hands out a batch, or is dropped with all it holds.     *)
LEMMA WiredReceiver ==
    ASSUME NEW os, NEW cs, Wired(os, cs), NEW c \in 1..Len(cs), NEW ch \in Receivers,
           ch.kind = cs[c].kind, ch.session = cs[c].session,
           MissesNothing(ch, os[ch.session].sent[ch.kind])
    PROVE  Wired(os, [cs EXCEPT ![c] = ch])
<1> DEFINE cs2 == [cs EXCEPT ![c] = ch]
<1>1. /\ os \in Seq(Files) /\ cs2 \in Seq(Receivers) /\ Len(cs2) = Len(cs)
      /\ \A i \in 1..Len(cs) : cs2[i] = IF i = c THEN ch ELSE cs[i]
  BY ExceptSeq DEF Wired
<1> HIDE DEF cs2
<1>2. \A i \in 1..Len(cs) : cs2[i].kind = cs[i].kind /\ cs2[i].session = cs[i].session
  BY <1>1
<1>3. \A s \in 1..Len(os), k \in KindsOfEvent : Subscribers(cs2, s, k) = Subscribers(cs, s, k)
  BY <1>1, <1>2 DEF Subscribers
<1>4. \A i \in 1..Len(cs2) : /\ cs2[i].session \in 1..Len(os)
                             /\ MissesNothing(cs2[i], os[cs2[i].session].sent[cs2[i].kind])
  BY <1>1 DEF Wired
<1>5. Wired(os, cs2)
  BY <1>1, <1>3, <1>4 DEF Wired
<1>. QED  BY <1>5 DEF cs2

LEMMA ChangedReceiver ==
    ASSUME NEW r \in Receivers, NEW q \in Batches, NEW n \in Nat
    PROVE  LET ch == [r EXCEPT !.queue = q, !.taken = n]
           IN  /\ ch \in Receivers /\ ch.kind = r.kind /\ ch.session = r.session
               /\ ch.held = r.held /\ ch.queue = q /\ ch.missed = r.missed /\ ch.taken = n
BY DEF Receivers

LEMMA TakenMissesNothing ==
    ASSUME NEW r \in Receivers, NEW sent \in Batches, MissesNothing(r, sent), r.held,
           r.queue # <<>>
    PROVE  LET ch == [r EXCEPT !.queue = Tail(@), !.taken = @ + 1]
           IN  /\ ch \in Receivers /\ ch.kind = r.kind /\ ch.session = r.session
               /\ MissesNothing(ch, sent)
               /\ Head(r.queue) \in Seq(Event)
<1> DEFINE q == Tail(r.queue)
           n == r.taken + 1
           m == r.missed + r.taken
           ch == [r EXCEPT !.queue = q, !.taken = n]
<1>1. r.queue \in Seq(Seq(Event)) /\ r.missed \in Nat /\ r.taken \in Nat
  BY DEF Receivers, Batches
<1>2. Tail(r.queue) \in Seq(Seq(Event)) /\ Head(r.queue) \in Seq(Event)
  BY <1>1, HeadTailProperties
<1>3. q \in Batches /\ n \in Nat
  BY <1>1, <1>2 DEF Batches
<1>4. m \in 0..Len(sent) /\ r.queue = SubSeq(sent, m + 1, Len(sent)) /\ Len(sent) \in Nat
  <2>1. Len(sent) \in Nat
    BY LenProperties DEF Batches
  <2>2. m \in Nat
    BY <1>1
  <2>3. m <= Len(sent) /\ r.queue = SubSeq(sent, m + 1, Len(sent))
    BY DEF MissesNothing
  <2>. QED  BY <2>1, <2>2, <2>3
<1>5. m < Len(sent) /\ q = SubSeq(sent, m + 2, Len(sent))
  BY <1>4, ShorterQueue DEF Batches
<1>6. r.missed + n = m + 1 /\ m + 1 + 1 = m + 2 /\ m + 1 <= Len(sent)
  <2>1. r.missed + n = m + 1 /\ m + 1 + 1 = m + 2 /\ m \in Nat
    BY <1>1
  <2> HIDE DEF m
  <2>2. m + 1 <= Len(sent)
    BY <1>4, <1>5, <2>1
  <2>. QED  BY <2>1, <2>2
<1> HIDE DEF q, n, m
<1>7. /\ ch \in Receivers /\ ch.kind = r.kind /\ ch.session = r.session
      /\ ch.held = r.held /\ ch.queue = q /\ ch.missed = r.missed /\ ch.taken = n
  BY <1>3, ChangedReceiver
<1> HIDE DEF ch
<1>8. ch.missed + ch.taken = m + 1 /\ ch.missed + ch.taken + 1 = m + 2
  BY <1>6, <1>7
<1>9. MissesNothing(ch, sent)
  BY <1>5, <1>6, <1>7, <1>8 DEF MissesNothing
<1>. QED  BY <1>2, <1>7, <1>9 DEF ch, q, n

LEMMA WiredTake ==
    ASSUME NEW os, NEW cs, Wired(os, cs), NEW c \in 1..Len(cs), cs[c].held, cs[c].queue # <<>>
    PROVE  /\ Wired(os, [cs EXCEPT ![c].queue = Tail(@), ![c].taken = @ + 1])
           /\ Head(cs[c].queue) \in Seq(Event)
<1> DEFINE ch == [cs[c] EXCEPT !.queue = Tail(@), !.taken = @ + 1]
           sent == os[cs[c].session].sent[cs[c].kind]
<1>1. cs \in Seq(Receivers) /\ os \in Seq(Files) /\ cs[c] \in Receivers
  BY ElementOfSeq DEF Wired
<1>2. sent \in Batches
  <2>1. os[cs[c].session] \in Files /\ cs[c].kind \in KindsOfEvent
    BY <1>1, ElementOfSeq DEF Wired, Receivers
  <2>. QED  BY <2>1, FileFields
<1>3. MissesNothing(cs[c], sent)
  BY DEF Wired
<1> HIDE DEF sent
<1>4. /\ ch \in Receivers /\ ch.kind = cs[c].kind /\ ch.session = cs[c].session
      /\ MissesNothing(ch, sent) /\ Head(cs[c].queue) \in Seq(Event)
  BY <1>1, <1>2, <1>3, TakenMissesNothing
<1>5. [cs EXCEPT ![c].queue = Tail(@), ![c].taken = @ + 1] = [cs EXCEPT ![c] = ch]
  BY <1>1 DEF Receivers
<1> HIDE DEF ch
<1>6. Wired(os, [cs EXCEPT ![c] = ch])
  BY <1>4, WiredReceiver DEF sent
<1>. QED  BY <1>4, <1>5, <1>6

(* A receiver that is dropped, with what it still held.                    *)
LEMMA WiredDrop ==
    ASSUME NEW os, NEW cs, Wired(os, cs), NEW c \in 1..Len(cs)
    PROVE  Wired(os, [cs EXCEPT ![c].held = FALSE, ![c].queue = <<>>])
<1> DEFINE ch == [cs[c] EXCEPT !.held = FALSE, !.queue = <<>>]
<1>1. cs \in Seq(Receivers) /\ cs[c] \in Receivers
  BY ElementOfSeq DEF Wired
<1>2. /\ ch \in Receivers /\ ch.kind = cs[c].kind /\ ch.session = cs[c].session
      /\ ch.held = FALSE /\ ch.missed = cs[c].missed /\ ch.taken = cs[c].taken
  <2>1. <<>> \in Batches
    BY EmptySeq DEF Batches
  <2>. QED  BY <1>1, <2>1 DEF Receivers
<1>3. [cs EXCEPT ![c].held = FALSE, ![c].queue = <<>>] = [cs EXCEPT ![c] = ch]
  BY <1>1 DEF Receivers
<1> HIDE DEF ch
<1>4. MissesNothing(cs[c], os[ch.session].sent[ch.kind])
  BY <1>2 DEF Wired
<1>5. MissesNothing(ch, os[ch.session].sent[ch.kind])
  BY <1>2, <1>4 DEF MissesNothing
<1>6. Wired(os, [cs EXCEPT ![c] = ch])
  BY <1>2, <1>5, WiredReceiver, SMTT(60)
<1>. QED  BY <1>3, <1>6

(* What a read does to the file, and what it dispatches to a receiver.     *)
LEMMA ReadFile ==
    ASSUME NEW o \in Files, CanRead(o)
    PROVE  LET r  == Reads(o.path)[o.pos + 1]
               o2 == AfterRead(o)
           IN  /\ o.pos + 1 \in 1..Len(Reads(o.path))
               /\ o2 \in Files /\ o2.path = o.path /\ o2.pos = o.pos + 1
               /\ o2.eof = o.eof /\ o2.started = o.started
               /\ \A k \in KindsOfEvent : /\ r[k] \in Batches
                                          /\ o2[k] = o[k]
                                          /\ o2.sent[k] = o.sent[k] \o r[k]
<1> DEFINE r == Reads(o.path)[o.pos + 1]
           o2 == AfterRead(o)
           new == [cd |-> o.sent.cd \o r.cd, ext |-> o.sent.ext \o r.ext]
<1>1. o.path \in Paths /\ o.pos \in Nat /\ Len(Reads(o.path)) \in Nat
  BY FileFields
<1>2. o.pos < Len(Reads(o.path))
  BY DEF CanRead
<1>3. o.pos + 1 \in 1..Len(Reads(o.path)) /\ o.pos + 1 \in Nat
  BY <1>1, <1>2
<1>4. \A k \in KindsOfEvent : r[k] \in Batches
  BY <1>1, <1>3, ReadTypes
<1>5. o2 = [o EXCEPT !.pos = o.pos + 1, !.sent = new]
  BY DEF AfterRead, Files
<1> HIDE DEF r, o2
<1>6. /\ r.cd \in Seq(Seq(Event)) /\ r.ext \in Seq(Seq(Event))
      /\ o.sent.cd \in Seq(Seq(Event)) /\ o.sent.ext \in Seq(Seq(Event))
  BY <1>4, SMTT(60) DEF KindsOfEvent, Batches, Files
<1>7. o.sent.cd \o r.cd \in Seq(Seq(Event)) /\ o.sent.ext \o r.ext \in Seq(Seq(Event))
  BY <1>6, ConcatProperties
<1>8. /\ new \in [cd : Batches, ext : Batches]
      /\ \A k \in KindsOfEvent : new[k] = o.sent[k] \o r[k]
  <2>1. new.cd = o.sent.cd \o r.cd /\ new.ext = o.sent.ext \o r.ext
    OBVIOUS
  <2>2. \A k \in KindsOfEvent : new[k] = o.sent[k] \o r[k]
    <3>1. new["cd"] = o.sent["cd"] \o r["cd"] /\ new["ext"] = o.sent["ext"] \o r["ext"]
      BY <2>1
    <3> HIDE DEF new
    <3>. QED  BY <3>1 DEF KindsOfEvent
  <2>3. new \in [cd : Seq(Seq(Event)), ext : Seq(Seq(Event))]
    BY <1>7
  <2>. QED  BY <2>2, <2>3 DEF Batches
<1> HIDE DEF new
<1>9. /\ o2 \in Files /\ o2.path = o.path /\ o2.pos = o.pos + 1
      /\ o2.eof = o.eof /\ o2.started = o.started /\ o2.sent = new
      /\ o2.cd = o.cd /\ o2.ext = o.ext
  BY <1>3, <1>5, <1>8 DEF Files
<1>. QED  BY <1>3, <1>4, <1>8, <1>9 DEF r, o2, KindsOfEvent

(* The receiver r1 is r2 once a batch was sent, to it or to others.        *)
SentTo(r2, r1, toit, b) ==
    /\ r2.kind = r1.kind /\ r2.session = r1.session /\ r2.held = r1.held
    /\ r2.missed = r1.missed /\ r2.taken = r1.taken
    /\ r2.queue = IF toit /\ r1.held THEN r1.queue \o b ELSE r1.queue

LEMMA SendEffect ==
    ASSUME NEW cs \in Seq(Receivers), NEW o, NEW k, NEW b \in Batches
    PROVE  /\ Send(cs, o, k, b) \in Seq(Receivers) /\ Len(Send(cs, o, k, b)) = Len(cs)
           /\ \A c \in 1..Len(cs) : SentTo(Send(cs, o, k, b)[c], cs[c], c \in Range(o[k]), b)
<1> DEFINE cs2 == Send(cs, o, k, b)
           e(c) == IF c \in Range(o[k]) /\ cs[c].held
                   THEN [cs[c] EXCEPT !.queue = cs[c].queue \o b] ELSE cs[c]
<1>1. Len(cs) \in Nat /\ DOMAIN cs = 1..Len(cs) /\ \A c \in 1..Len(cs) : cs[c] \in Receivers
  BY LenProperties, ElementOfSeq
<1>2. cs2 = [c \in 1..Len(cs) |-> e(c)]
  BY <1>1 DEF Send, Receivers
<1>3. ASSUME NEW c \in 1..Len(cs)
      PROVE  e(c) \in Receivers
  <2>1. cs[c] \in Receivers /\ cs[c].queue \in Batches
    BY <1>1 DEF Receivers
  <2> DEFINE q == cs[c].queue \o b
  <2>2. q \in Batches
    BY <2>1, ConcatProperties DEF Batches
  <2> HIDE DEF q
  <2>3. [cs[c] EXCEPT !.queue = q] \in Receivers
    BY <2>1, <2>2 DEF Receivers
  <2>. QED  BY <2>1, <2>3 DEF q
<1> HIDE DEF cs2
<1>4. DOMAIN cs2 = 1..Len(cs) /\ \A c \in 1..Len(cs) : cs2[c] = e(c)
  BY <1>2
<1> HIDE DEF e
<1>5. cs2 \in Seq(Receivers) /\ Len(cs2) = Len(cs)
  BY <1>1, <1>2, <1>3, SeqDef, LenProperties
<1>6. ASSUME NEW c \in 1..Len(cs)
      PROVE  SentTo(e(c), cs[c], c \in Range(o[k]), b)
  <2>1. cs[c] \in Receivers
    BY <1>1
  <2> DEFINE q == cs[c].queue \o b
  <2> HIDE DEF q
  <2>2. CASE c \in Range(o[k]) /\ cs[c].held
    <3>1. e(c) = [cs[c] EXCEPT !.queue = q]
      BY <2>2 DEF e, q
    <3>2. /\ e(c).kind = cs[c].kind /\ e(c).session = cs[c].session /\ e(c).held = cs[c].held
          /\ e(c).missed = cs[c].missed /\ e(c).taken = cs[c].taken /\ e(c).queue = q
      BY <2>1, <3>1 DEF Receivers
    <3>. QED  BY <2>2, <3>2 DEF SentTo, q
  <2>3. CASE ~(c \in Range(o[k]) /\ cs[c].held)
    <3>1. e(c) = cs[c]
      BY <2>3 DEF e
    <3>. QED  BY <2>3, <3>1 DEF SentTo
  <2>. QED  BY <2>2, <2>3
<1>. QED  BY <1>4, <1>5, <1>6 DEF cs2

(* A dispatch: the receivers of the file get the batches of their kind.    *)
LEMMA DispatchEffect ==
    ASSUME NEW os, NEW cs, Wired(os, cs), NEW s \in 1..Len(os), CanRead(os[s])
    PROVE  LET r   == Reads(os[s].path)[os[s].pos + 1]
               cs2 == Dispatched(cs, os[s])
           IN  /\ cs2 \in Seq(Receivers) /\ Len(cs2) = Len(cs)
               /\ \A c \in 1..Len(cs) :
                     /\ cs2[c].kind = cs[c].kind /\ cs2[c].session = cs[c].session
                     /\ cs2[c].held = cs[c].held
                     /\ cs2[c].missed = cs[c].missed /\ cs2[c].taken = cs[c].taken
                     /\ cs2[c].queue = IF cs[c].session = s /\ cs[c].held
                                       THEN cs[c].queue \o r[cs[c].kind] ELSE cs[c].queue
<1> DEFINE o == os[s]
           r == Reads(o.path)[o.pos + 1]
           cs1 == Send(cs, o, "cd", r.cd)
           cs2 == Send(cs1, o, "ext", r.ext)
<1>1. /\ cs \in Seq(Receivers) /\ os \in Seq(Files) /\ o \in Files
      /\ Range(o["cd"]) = Subscribers(cs, s, "cd")
      /\ Range(o["ext"]) = Subscribers(cs, s, "ext")
  BY ElementOfSeq DEF Wired, KindsOfEvent
<1>2. r.cd \in Batches /\ r.ext \in Batches
  BY <1>1, ReadFile DEF KindsOfEvent
<1>3. Dispatched(cs, os[s]) = cs2
  BY DEF Dispatched
<1> HIDE DEF r, o
<1>4. /\ cs1 \in Seq(Receivers) /\ Len(cs1) = Len(cs)
      /\ \A c \in 1..Len(cs) : SentTo(cs1[c], cs[c], c \in Range(o["cd"]), r.cd)
  BY <1>1, <1>2, SendEffect
<1> HIDE DEF cs1
<1>5. /\ cs2 \in Seq(Receivers) /\ Len(cs2) = Len(cs1)
      /\ \A c \in 1..Len(cs1) : SentTo(cs2[c], cs1[c], c \in Range(o["ext"]), r.ext)
  BY <1>2, <1>4, SendEffect
<1> HIDE DEF cs2
<1>6. ASSUME NEW c \in 1..Len(cs)
      PROVE  /\ cs2[c].kind = cs[c].kind /\ cs2[c].session = cs[c].session
             /\ cs2[c].held = cs[c].held
             /\ cs2[c].missed = cs[c].missed /\ cs2[c].taken = cs[c].taken
             /\ cs2[c].queue = IF cs[c].session = s /\ cs[c].held
                               THEN cs[c].queue \o r[cs[c].kind] ELSE cs[c].queue
  <2>1. cs[c] \in Receivers
    BY <1>1, ElementOfSeq
  <2>2. cs[c].kind = "cd" \/ cs[c].kind = "ext"
    BY <2>1 DEF Receivers, KindsOfEvent
  <2>3. /\ c \in Range(o["cd"]) <=> cs[c].session = s /\ cs[c].kind = "cd"
        /\ c \in Range(o["ext"]) <=> cs[c].session = s /\ cs[c].kind = "ext"
    BY <1>1 DEF Subscribers
  <2>4. /\ SentTo(cs1[c], cs[c], c \in Range(o["cd"]), r.cd)
        /\ SentTo(cs2[c], cs1[c], c \in Range(o["ext"]), r.ext)
    BY <1>4, <1>5
  <2>5. /\ cs[c].kind = "cd" => r[cs[c].kind] = r.cd
        /\ cs[c].kind = "ext" => r[cs[c].kind] = r.ext
    OBVIOUS
  <2>. QED  BY <2>2, <2>3, <2>4, <2>5 DEF SentTo
<1>. QED  BY <1>3, <1>4, <1>5, <1>6 DEF r, o

LEMMA ReadMissesNothing ==
    ASSUME NEW sent \in Batches, NEW b \in Batches, NEW r1 \in Receivers, NEW r2,
           MissesNothing(r1, sent), r2.held = r1.held, r2.missed = r1.missed,
           r2.taken = r1.taken, r1.held => r2.queue = r1.queue \o b
    PROVE  MissesNothing(r2, sent \o b)
<1> DEFINE m == r1.missed + r1.taken
<1>1. /\ Len(sent) \in Nat /\ Len(b) \in Nat /\ Len(sent \o b) = Len(sent) + Len(b)
      /\ r1.missed \in Nat /\ r1.taken \in Nat
  BY LenProperties, ConcatProperties DEF Batches, Receivers
<1>2. m \in Nat /\ m <= Len(sent) /\ (r1.held => r1.queue = SubSeq(sent, m + 1, Len(sent)))
  BY <1>1 DEF MissesNothing
<1>3. r2.missed + r2.taken = m
  OBVIOUS
<1> HIDE DEF m
<1>4. m \in 0..Len(sent) /\ m <= Len(sent \o b)
  BY <1>1, <1>2
<1>5. SubSeq(sent \o b, m + 1, Len(sent \o b)) = SubSeq(sent, m + 1, Len(sent)) \o b
  BY <1>4, LongerQueue DEF Batches
<1>6. r2.held => r2.queue = SubSeq(sent \o b, m + 1, Len(sent \o b))
  BY <1>2, <1>5
<1>. QED  BY <1>3, <1>4, <1>6 DEF MissesNothing

LEMMA WiredRead ==
    ASSUME NEW os, NEW cs, Wired(os, cs), NEW s \in 1..Len(os), CanRead(os[s])
    PROVE  Wired([os EXCEPT ![s] = AfterRead(@)], Dispatched(cs, os[s]))
<1> DEFINE o2 == AfterRead(os[s])
           r == Reads(os[s].path)[os[s].pos + 1]
           os2 == [os EXCEPT ![s] = o2]
           cs2 == Dispatched(cs, os[s])
<1>1. os \in Seq(Files) /\ cs \in Seq(Receivers) /\ Len(os) \in Nat /\ os[s] \in Files
  BY LenProperties, ElementOfSeq DEF Wired
<1>2. /\ os[s].pos + 1 \in 1..Len(Reads(os[s].path))
      /\ o2 \in Files /\ o2.path = os[s].path /\ o2.pos = os[s].pos + 1
      /\ \A k \in KindsOfEvent : /\ r[k] \in Batches
                                 /\ o2[k] = os[s][k]
                                 /\ o2.sent[k] = os[s].sent[k] \o r[k]
  BY <1>1, ReadFile
<1>3. /\ cs2 \in Seq(Receivers) /\ Len(cs2) = Len(cs)
      /\ \A c \in 1..Len(cs) :
            /\ cs2[c].kind = cs[c].kind /\ cs2[c].session = cs[c].session
            /\ cs2[c].held = cs[c].held
            /\ cs2[c].missed = cs[c].missed /\ cs2[c].taken = cs[c].taken
            /\ cs2[c].queue = IF cs[c].session = s /\ cs[c].held
                              THEN cs[c].queue \o r[cs[c].kind] ELSE cs[c].queue
  BY DispatchEffect
<1> HIDE DEF o2, r, cs2
<1>4. /\ os2 \in Seq(Files) /\ Len(os2) = Len(os)
      /\ \A i \in 1..Len(os) : os2[i] = IF i = s THEN o2 ELSE os[i]
  BY <1>1, <1>2, ExceptSeq
<1> HIDE DEF os2
<1>5. ASSUME NEW i \in 1..Len(os)
      PROVE  /\ os2[i].pos <= Len(Reads(os2[i].path))
             /\ \A k \in KindsOfEvent : os2[i][k] = os[i][k]
  <2>1. CASE i = s
    <3>1. Len(Reads(os[s].path)) \in Nat
      BY <1>1, FileFields
    <3>2. os[s].pos + 1 <= Len(Reads(os[s].path))
      BY <1>2, <3>1
    <3>. QED  BY <1>2, <1>4, <2>1, <3>2
  <2>2. CASE i # s
    BY <1>4, <2>2 DEF Wired
  <2>. QED  BY <2>1, <2>2
<1>6. \A i \in 1..Len(os), k \in KindsOfEvent : Subscribers(cs2, i, k) = Subscribers(cs, i, k)
  BY <1>3 DEF Subscribers
<1>7. ASSUME NEW c \in 1..Len(cs)
      PROVE  /\ cs2[c].session \in 1..Len(os2)
             /\ MissesNothing(cs2[c], os2[cs2[c].session].sent[cs2[c].kind])
  <2>0. cs[c] \in Receivers
    BY <1>1, ElementOfSeq
  <2>1. cs[c] \in Receivers /\ cs[c].kind \in KindsOfEvent
    BY <2>0 DEF Receivers
  <2>2. cs[c].session \in 1..Len(os) /\ MissesNothing(cs[c], os[cs[c].session].sent[cs[c].kind])
    BY SMTT(60) DEF Wired
  <2>3. CASE cs[c].session = s
    <3>1. os[s].sent[cs[c].kind] \in Batches /\ r[cs[c].kind] \in Batches
      BY <1>1, <1>2, <2>1, FileFields
    <3>2. cs[c].held => cs2[c].queue = cs[c].queue \o r[cs[c].kind]
      BY <1>3, <2>3
    <3>3. MissesNothing(cs2[c], os[s].sent[cs[c].kind] \o r[cs[c].kind])
      BY <1>3, <2>1, <2>2, <2>3, <3>1, <3>2, ReadMissesNothing
    <3>4. os2[cs2[c].session].sent[cs2[c].kind] = os[s].sent[cs[c].kind] \o r[cs[c].kind]
      BY <1>2, <1>3, <1>4, <2>1, <2>3, ZenonT(90)
    <3>. QED  BY <1>3, <1>4, <2>2, <3>3, <3>4
  <2>4. CASE cs[c].session # s
    <3>1. /\ cs2[c].queue = cs[c].queue /\ cs2[c].held = cs[c].held
          /\ cs2[c].missed = cs[c].missed /\ cs2[c].taken = cs[c].taken
      BY <1>3, <2>4
    <3>2. os2[cs2[c].session].sent[cs2[c].kind] = os[cs[c].session].sent[cs[c].kind]
      BY <1>3, <1>4, <2>2, <2>4, SMTT(60)
    <3>3. MissesNothing(cs2[c], os[cs[c].session].sent[cs[c].kind])
      BY <2>2, <3>1 DEF MissesNothing
    <3>. QED  BY <1>3, <1>4, <2>2, <3>2, <3>3
  <2>. QED  BY <2>3, <2>4
<1>8. Wired(os2, cs2)
  BY <1>3, <1>4, <1>5, <1>6, <1>7 DEF Wired
<1>. QED  BY <1>8 DEF os2, cs2, o2

-----------------------------------------------------------------------------
(* What no operation of the reader does: to take a file or a receiver      *)
(* away, to take back what was sent, to receive in place of a receiver.    *)
Grows(os, cs, os2, cs2) ==
    /\ Len(os) \in Nat /\ Len(os2) = Len(os)
    /\ Len(cs) \in Nat /\ Len(cs2) \in Nat /\ Len(cs) <= Len(cs2)
    /\ \A s \in 1..Len(os) :
          /\ os2[s].path = os[s].path /\ (os[s].started => os2[s].started)
          /\ \A k \in KindsOfEvent : /\ Len(os[s].sent[k]) \in Nat /\ Len(os2[s].sent[k]) \in Nat
                                     /\ Len(os[s].sent[k]) <= Len(os2[s].sent[k])
    /\ \A c \in 1..Len(cs) :
          /\ cs2[c].kind = cs[c].kind /\ cs2[c].held = cs[c].held
          /\ cs2[c].missed = cs[c].missed /\ cs2[c].taken = cs[c].taken
    /\ \A c \in Len(cs) + 1..Len(cs2) : cs2[c].taken = 0

LEMMA GrowsOn ==
    ASSUME NEW os, NEW cs, NEW os1, NEW cs1, NEW os2, NEW cs2,
           Grows(os, cs, os1, cs1), Grows(os1, cs1, os2, cs2)
    PROVE  Grows(os, cs, os2, cs2)
<1>1. /\ Len(os) \in Nat /\ Len(os1) = Len(os) /\ Len(os2) = Len(os)
      /\ Len(cs) \in Nat /\ Len(cs1) \in Nat /\ Len(cs2) \in Nat
      /\ Len(cs) <= Len(cs2)
  BY DEF Grows
<1>2. ASSUME NEW s \in 1..Len(os)
      PROVE  /\ os2[s].path = os[s].path /\ (os[s].started => os2[s].started)
             /\ \A k \in KindsOfEvent : /\ Len(os[s].sent[k]) \in Nat /\ Len(os2[s].sent[k]) \in Nat
                                        /\ Len(os[s].sent[k]) <= Len(os2[s].sent[k])
  <2>1. s \in 1..Len(os1)
    BY DEF Grows
  <2>2. os2[s].path = os[s].path /\ (os[s].started => os2[s].started)
    BY <2>1 DEF Grows
  <2>3. ASSUME NEW k \in KindsOfEvent
        PROVE  /\ Len(os[s].sent[k]) \in Nat /\ Len(os2[s].sent[k]) \in Nat
               /\ Len(os[s].sent[k]) <= Len(os2[s].sent[k])
    <3>1. /\ Len(os[s].sent[k]) \in Nat /\ Len(os1[s].sent[k]) \in Nat /\ Len(os2[s].sent[k]) \in Nat
          /\ Len(os[s].sent[k]) <= Len(os1[s].sent[k]) /\ Len(os1[s].sent[k]) <= Len(os2[s].sent[k])
      BY <2>1 DEF Grows
    <3>2. \A a, b, c \in Nat : a <= b /\ b <= c => a <= c
      OBVIOUS
    <3>. QED  BY <3>1, <3>2, Zenon
  <2>. QED  BY <2>2, <2>3
<1>3. ASSUME NEW c \in 1..Len(cs)
      PROVE  /\ cs2[c].kind = cs[c].kind /\ cs2[c].held = cs[c].held
             /\ cs2[c].missed = cs[c].missed /\ cs2[c].taken = cs[c].taken
  <2>1. c \in 1..Len(cs1)
    BY DEF Grows
  <2>. QED  BY <2>1 DEF Grows
<1>4. ASSUME NEW c \in Len(cs) + 1..Len(cs2)
      PROVE  cs2[c].taken = 0
  <2>1. (c \in Len(cs) + 1..Len(cs1)) \/ (c \in Len(cs1) + 1..Len(cs2))
    BY <1>1
  <2>2. CASE c \in Len(cs) + 1..Len(cs1)
    <3>1. c \in 1..Len(cs1)
      BY <1>1, <2>2
    <3>. QED  BY <2>2, <3>1 DEF Grows
  <2>3. CASE c \in Len(cs1) + 1..Len(cs2)
    BY <2>3 DEF Grows
  <2>. QED  BY <2>1, <2>2, <2>3
<1>. QED  BY <1>1, <1>2, <1>3, <1>4 DEF Grows

(* A file that changes, and the receivers with it.                         *)
LEMMA GrowsByFile ==
    ASSUME NEW os, NEW cs, Wired(os, cs), NEW s \in 1..Len(os), NEW o \in Files,
           o.path = os[s].path, os[s].started => o.started,
           \A k \in KindsOfEvent : Len(os[s].sent[k]) <= Len(o.sent[k]),
           NEW cs2 \in Seq(Receivers), Len(cs) <= Len(cs2),
           \A c \in 1..Len(cs) :
               /\ cs2[c].kind = cs[c].kind /\ cs2[c].held = cs[c].held
               /\ cs2[c].missed = cs[c].missed /\ cs2[c].taken = cs[c].taken,
           \A c \in Len(cs) + 1..Len(cs2) : cs2[c].taken = 0
    PROVE  Grows(os, cs, [os EXCEPT ![s] = o], cs2)
<1> DEFINE os2 == [os EXCEPT ![s] = o]
<1>1. /\ os \in Seq(Files) /\ cs \in Seq(Receivers) /\ Len(os) \in Nat /\ Len(cs) \in Nat
      /\ Len(cs2) \in Nat
      /\ os2 \in Seq(Files) /\ Len(os2) = Len(os)
      /\ \A i \in 1..Len(os) : os2[i] = IF i = s THEN o ELSE os[i]
  BY ExceptSeq, LenProperties DEF Wired
<1> HIDE DEF os2
<1>2. ASSUME NEW f \in Files, NEW k \in KindsOfEvent
      PROVE  Len(f.sent[k]) \in Nat
  <2>1. f.sent[k] \in Batches
    BY FileFields
  <2>. QED  BY <2>1, LenProperties DEF Batches
<1>3. ASSUME NEW i \in 1..Len(os)
      PROVE  /\ os2[i].path = os[i].path /\ (os[i].started => os2[i].started)
             /\ \A k \in KindsOfEvent : /\ Len(os[i].sent[k]) \in Nat /\ Len(os2[i].sent[k]) \in Nat
                                        /\ Len(os[i].sent[k]) <= Len(os2[i].sent[k])
  <2>1. os[i] \in Files /\ os2[i] \in Files
    BY <1>1, ElementOfSeq
  <2>2. CASE i = s
    BY <1>1, <1>2, <2>1, <2>2
  <2>3. CASE i # s
    <3>1. os2[i] = os[i]
      BY <1>1, <2>3
    <3>2. \A k \in KindsOfEvent : Len(os[i].sent[k]) \in Nat
      BY <1>2, <2>1
    <3>. QED  BY <3>1, <3>2
  <2>. QED  BY <2>2, <2>3
<1>4. Grows(os, cs, os2, cs2)
  BY <1>1, <1>3 DEF Grows
<1>. QED  BY <1>4 DEF os2

LEMMA Moves ==
    ASSUME NEW os, NEW cs, Wired(os, cs), NEW s \in 1..Len(os), NEW o \in Files,
           o.path = os[s].path, o.sent = os[s].sent, o.pos <= Len(Reads(o.path)),
           o.started = os[s].started, \A k \in KindsOfEvent : o[k] = os[s][k]
    PROVE  /\ Wired([os EXCEPT ![s] = o], cs)
           /\ Grows(os, cs, [os EXCEPT ![s] = o], cs)
<1>1. os[s] \in Files /\ cs \in Seq(Receivers)
  BY ElementOfSeq DEF Wired
<1>2. Len(cs) \in Nat
  BY <1>1, LenProperties
<1>3. ASSUME NEW k \in KindsOfEvent
      PROVE  Len(os[s].sent[k]) <= Len(o.sent[k])
  <2>1. os[s].sent[k] \in Batches
    BY <1>1, FileFields
  <2>2. Len(os[s].sent[k]) \in Nat
    BY <2>1, LenProperties DEF Batches
  <2>. QED  BY <2>2
<1>4. Len(cs) <= Len(cs) /\ Len(cs) + 1..Len(cs) = {}
  BY <1>2
<1>5. Grows(os, cs, [os EXCEPT ![s] = o], cs)
  BY <1>1, <1>3, <1>4, GrowsByFile
<1>6. Wired([os EXCEPT ![s] = o], cs)
  BY WiredMove
<1>. QED  BY <1>5, <1>6

LEMMA Subscribes ==
    ASSUME NEW os, NEW cs, Wired(os, cs), NEW s \in 1..Len(os), NEW k \in KindsOfEvent,
           NEW ch \in Receivers, ch.kind = k, ch.session = s, ch.queue = <<>>,
           ch.missed = Len(os[s].sent[k]), ch.taken = 0
    PROVE  /\ Wired([os EXCEPT ![s] = Subscribe(@, k, Len(cs) + 1)], Append(cs, ch))
           /\ Grows(os, cs, [os EXCEPT ![s] = Subscribe(@, k, Len(cs) + 1)], Append(cs, ch))
<1> DEFINE o == Subscribe(os[s], k, Len(cs) + 1)
           cs2 == Append(cs, ch)
<1>1. os[s] \in Files /\ cs \in Seq(Receivers) /\ Len(cs) \in Nat
  BY ElementOfSeq, LenProperties DEF Wired
<1>2. o \in Files /\ o.path = os[s].path /\ o.sent = os[s].sent /\ o.started = TRUE
  <2>1. o \in Files /\ o.path = os[s].path /\ o.sent = os[s].sent
    BY SubscribedFile
  <2>2. o.started
    BY <1>1, SubscribedStream
  <2>3. o.started \in BOOLEAN
    <3> HIDE DEF o
    <3>. QED  BY <2>1, FileFields
  <2>. QED  BY <2>1, <2>2, <2>3
<1> HIDE DEF o
<1>3. /\ cs2 \in Seq(Receivers) /\ Len(cs2) = Len(cs) + 1 /\ cs2[Len(cs) + 1] = ch
      /\ \A c \in 1..Len(cs) : cs2[c] = cs[c]
  BY <1>1, AppendProperties
<1> HIDE DEF cs2
<1>4. \A l \in KindsOfEvent : Len(os[s].sent[l]) <= Len(o.sent[l])
  <2>1. ASSUME NEW l \in KindsOfEvent
        PROVE  Len(os[s].sent[l]) \in Nat
    <3>1. os[s].sent[l] \in Batches
      BY <1>1, FileFields
    <3>. QED  BY <3>1, LenProperties DEF Batches
  <2>. QED  BY <1>2, <2>1
<1>5. Len(cs) <= Len(cs2) /\ \A c \in Len(cs) + 1..Len(cs2) : cs2[c].taken = 0
  BY <1>1, <1>3
<1>6. Grows(os, cs, [os EXCEPT ![s] = o], cs2)
  BY <1>2, <1>3, <1>4, <1>5, GrowsByFile
<1>7. Wired([os EXCEPT ![s] = Subscribe(@, k, Len(cs) + 1)], Append(cs, ch))
  BY WiredSubscribe
<1>. QED  BY <1>6, <1>7 DEF o, cs2

LEMMA ReadsOn ==
    ASSUME NEW os, NEW cs, Wired(os, cs), NEW s \in 1..Len(os), CanRead(os[s])
    PROVE  /\ Wired([os EXCEPT ![s] = AfterRead(@)], Dispatched(cs, os[s]))
           /\ Grows(os, cs, [os EXCEPT ![s] = AfterRead(@)], Dispatched(cs, os[s]))
<1> DEFINE o == AfterRead(os[s])
           r == Reads(os[s].path)[os[s].pos + 1]
           cs2 == Dispatched(cs, os[s])
<1>1. os[s] \in Files /\ cs \in Seq(Receivers) /\ Len(cs) \in Nat
  BY ElementOfSeq, LenProperties DEF Wired
<1>2. /\ o \in Files /\ o.path = os[s].path /\ o.started = os[s].started
      /\ \A k \in KindsOfEvent : r[k] \in Batches /\ o.sent[k] = os[s].sent[k] \o r[k]
  BY <1>1, ReadFile
<1>3. /\ cs2 \in Seq(Receivers) /\ Len(cs2) = Len(cs)
      /\ \A c \in 1..Len(cs) :
            /\ cs2[c].kind = cs[c].kind /\ cs2[c].held = cs[c].held
            /\ cs2[c].missed = cs[c].missed /\ cs2[c].taken = cs[c].taken
  BY DispatchEffect
<1> HIDE DEF o, r, cs2
<1>4. ASSUME NEW k \in KindsOfEvent
      PROVE  Len(os[s].sent[k]) <= Len(o.sent[k])
  <2>1. os[s].sent[k] \in Seq(Seq(Event)) /\ r[k] \in Seq(Seq(Event))
    BY <1>1, <1>2, FileFields DEF Batches
  <2>2. /\ Len(os[s].sent[k]) \in Nat /\ Len(r[k]) \in Nat
        /\ Len(os[s].sent[k] \o r[k]) = Len(os[s].sent[k]) + Len(r[k])
    BY <2>1, ConcatProperties, LenProperties
  <2>3. \A a, b \in Nat : a <= a + b
    OBVIOUS
  <2>4. Len(os[s].sent[k]) <= Len(os[s].sent[k] \o r[k])
    BY <2>2, <2>3
  <2>. QED  BY <1>2, <2>4
<1>5. Len(cs) <= Len(cs2) /\ \A c \in Len(cs) + 1..Len(cs2) : cs2[c].taken = 0
  BY <1>1, <1>3
<1>6. Grows(os, cs, [os EXCEPT ![s] = o], cs2)
  BY <1>2, <1>3, <1>4, <1>5, GrowsByFile
<1>7. Wired([os EXCEPT ![s] = AfterRead(@)], Dispatched(cs, os[s]))
  BY WiredRead
<1>. QED  BY <1>6, <1>7 DEF o, cs2

(* The operations of the reader: each keeps the receivers wired.           *)
LEMMA RawKept ==
    ASSUME RawInv, Wired(opened', channels'), NEW cs, Grows(opened, cs, opened', channels'),
           UNCHANGED <<device, reader, index_failed>>
    PROVE  RawInv'
<1>1. opened' \in Seq(Files) /\ channels' \in Seq(Receivers)
  BY DEF Wired
<1>2. \A s \in DOMAIN opened' : opened'[s].pos <= Len(Reads(opened'[s].path))
  <2>1. DOMAIN opened' = 1..Len(opened')
    BY <1>1, LenProperties
  <2>. QED  BY <2>1 DEF Wired
<1>3. Len(opened) \in Nat /\ Len(opened') \in Nat /\ Len(opened) <= Len(opened')
  BY DEF Grows
<1>4. /\ device \in 0..Len(opened)
      /\ reader \in [initialized : BOOLEAN, session : 0..Len(opened), index : Paths \union {None}]
      /\ reader.initialized <=> reader.session # 0
      /\ index_failed \in BOOLEAN
  BY DEF RawInv, RawTypeOK
<1>5. device \in 0..Len(opened')
  BY <1>3, <1>4
<1>6. reader \in [initialized : BOOLEAN, session : 0..Len(opened'), index : Paths \union {None}]
  <2>1. 0..Len(opened) \subseteq 0..Len(opened')
    BY <1>3
  <2>. QED  BY <1>4, <2>1
<1>7. RawTypeOK'
  BY <1>1, <1>2, <1>4, <1>5, <1>6 DEF RawTypeOK
<1>8. ReaderIsOfOneFile'
  <2>1. SUFFICES ASSUME reader.initialized
                 PROVE  /\ reader.index \in {None, opened'[reader.session].path}
                        /\ device = reader.session \/ index_failed
    BY DEF ReaderIsOfOneFile, Current
  <2>2. reader.session \in 1..Len(opened)
    BY <1>3, <1>4, <2>1
  <2>3. opened'[reader.session].path = opened[reader.session].path
    BY <2>2 DEF Grows
  <2>. QED  BY <2>1, <2>3 DEF RawInv, ReaderIsOfOneFile, Current
<1>. QED  BY <1>7, <1>8 DEF RawInv

LEMMA NewChannel ==
    ASSUME Wired(opened, channels), NEW s \in 1..Len(opened), NEW k \in KindsOfEvent
    PROVE  /\ Channel(k, s, <<>>) \in Receivers
           /\ [Channel(k, s, <<>>) EXCEPT !.held = FALSE] \in Receivers
<1>1. opened[s].sent[k] \in Batches /\ opened \in Seq(Files)
  <2>1. opened[s] \in Files
    BY ElementOfSeq DEF Wired
  <2>. QED  BY <2>1, FileFields DEF Wired
<1>2. Len(opened[s].sent[k]) \in Nat /\ <<>> \in Batches /\ s \in Nat
  BY <1>1, LenProperties, EmptySeq DEF Batches
<1>. QED  BY <1>2 DEF Channel, Receivers

LEMMA PolledFile ==
    ASSUME NEW o \in Files
    PROVE  LET o2 == AfterPoll(o)
           IN  /\ o2 \in Files /\ o2.path = o.path /\ o2.sent = o.sent /\ o2.pos = o.pos
               /\ o2.started = o.started /\ \A k \in KindsOfEvent : o2[k] = o[k]
BY DEF AfterPoll, Files, KindsOfEvent

LEMMA PolledEnd ==
    ASSUME NEW o \in Files
    PROVE  /\ o.eof => AfterPoll(o).eof
           /\ o.started /\ o.pos = Len(Reads(o.path)) => AfterPoll(o).eof
BY DEF AfterPoll, Files

LEMMA PollsOn ==
    ASSUME NEW os, NEW cs, Wired(os, cs), NEW s \in 1..Len(os)
    PROVE  /\ Wired([os EXCEPT ![s] = AfterPoll(@)], cs)
           /\ Grows(os, cs, [os EXCEPT ![s] = AfterPoll(@)], cs)
<1> DEFINE o == AfterPoll(os[s])
<1>1. os[s] \in Files /\ os[s].pos <= Len(Reads(os[s].path))
  BY ElementOfSeq DEF Wired
<1>2. /\ o \in Files /\ o.path = os[s].path /\ o.sent = os[s].sent /\ o.pos = os[s].pos
      /\ o.started = os[s].started /\ \A k \in KindsOfEvent : o[k] = os[s][k]
  BY <1>1, PolledFile
<1> HIDE DEF o
<1>3. o.pos <= Len(Reads(o.path))
  BY <1>1, <1>2
<1>4. Wired([os EXCEPT ![s] = o], cs) /\ Grows(os, cs, [os EXCEPT ![s] = o], cs)
  BY <1>2, <1>3, Moves
<1>. QED  BY <1>4 DEF o

LEMMA SeeksTo ==
    ASSUME NEW os, NEW cs, Wired(os, cs), NEW s \in 1..Len(os), NEW n \in Places(os[s])
    PROVE  /\ Wired([os EXCEPT ![s] = [@ EXCEPT !.pos = n, !.eof = FALSE]], cs)
           /\ Grows(os, cs, [os EXCEPT ![s] = [@ EXCEPT !.pos = n, !.eof = FALSE]], cs)
<1> DEFINE o == [os[s] EXCEPT !.pos = n, !.eof = FALSE]
<1>1. os[s] \in Files
  BY ElementOfSeq DEF Wired
<1>2. n \in Nat /\ n <= Len(Reads(os[s].path))
  <2>1. Len(Reads(os[s].path)) \in Nat
    BY <1>1, FileFields
  <2>. QED  BY <2>1 DEF Places
<1>3. /\ o \in Files /\ o.path = os[s].path /\ o.sent = os[s].sent /\ o.pos = n
      /\ o.started = os[s].started /\ \A k \in KindsOfEvent : o[k] = os[s][k]
  BY <1>1, <1>2 DEF Files, KindsOfEvent
<1> HIDE DEF o
<1>4. Wired([os EXCEPT ![s] = o], cs) /\ Grows(os, cs, [os EXCEPT ![s] = o], cs)
  BY <1>2, <1>3, Moves
<1>. QED  BY <1>4 DEF o

(* A session of the reader, when it has one.                               *)
LEMMA CurrentFile ==
    ASSUME RawTypeOK, reader.initialized
    PROVE  reader.session \in 1..Len(opened) /\ opened[reader.session] \in Files
<1>1. /\ opened \in Seq(Files) /\ reader.session \in 0..Len(opened) /\ reader.session # 0
  BY DEF RawTypeOK
<1>2. Len(opened) \in Nat
  BY <1>1, LenProperties
<1>3. reader.session \in 1..Len(opened)
  BY <1>1, <1>2
<1>. QED  BY <1>1, <1>3, ElementOfSeq

LEMMA LoadOkKeeps ==
    ASSUME RawInv, LoadOk
    PROVE  Wired(opened', channels') /\ Grows(opened, channels, opened', channels')
<1>1. /\ CanRead(opened[reader.session])
      /\ channels' = Dispatched(channels, opened[reader.session])
      /\ opened' = [opened EXCEPT ![reader.session] = AfterRead(@)]
  BY DEF LoadOk, Current
<1>2. reader.session \in 1..Len(opened) /\ Wired(opened, channels)
  BY CurrentFile DEF RawInv, LoadOk
<1>. QED  BY <1>1, <1>2, ReadsOn

LEMMA LoadErrorKeeps ==
    ASSUME RawInv, LoadError
    PROVE  Wired(opened', channels') /\ Grows(opened, channels, opened', channels')
<1>1. channels' = channels /\ opened' = [opened EXCEPT ![reader.session] = AfterPoll(@)]
  BY DEF LoadError
<1>2. reader.session \in 1..Len(opened) /\ Wired(opened, channels)
  BY CurrentFile DEF RawInv, LoadError
<1>. QED  BY <1>1, <1>2, PollsOn

LEMMA SeekKeeps ==
    ASSUME RawInv, Seek
    PROVE  Wired(opened', channels') /\ Grows(opened, channels, opened', channels')
<1>1. PICK n \in Places(opened[reader.session]) :
         opened' = [opened EXCEPT ![reader.session].pos = n, ![reader.session].eof = FALSE]
  BY DEF Seek, Current
<1>2. channels' = channels
  BY DEF Seek
<1>3. reader.session \in 1..Len(opened) /\ Wired(opened, channels)
  BY CurrentFile DEF RawInv, Seek
<1>4. opened' = [opened EXCEPT ![reader.session] = [@ EXCEPT !.pos = n, !.eof = FALSE]]
  BY <1>1
<1>. QED  BY <1>2, <1>3, <1>4, SeeksTo

(* seek_to_next_ext: it subscribes a receiver that is dropped at once,     *)
(* reads or meets the end, and may seek.                                   *)
LEMMA ExtSteps ==
    ASSUME RawInv, SeekToNextExt,
           NEW s, s = reader.session,
           NEW os1, os1 = [opened EXCEPT ![s] = Subscribe(@, "ext", Len(channels) + 1)],
           NEW cs1, cs1 = Append(channels, [Channel("ext", s, <<>>) EXCEPT !.held = FALSE])
    PROVE  /\ s \in 1..Len(opened) /\ Len(os1) = Len(opened)
           /\ os1[s] = Subscribe(opened[s], "ext", Len(channels) + 1)
           /\ Wired(os1, cs1) /\ Grows(opened, channels, os1, cs1)
           /\ \/ /\ ~CanRead(os1[s])
                 /\ opened' = [os1 EXCEPT ![s] = AfterPoll(@)] /\ channels' = cs1
              \/ /\ CanRead(os1[s])
                 /\ channels' = Dispatched(cs1, os1[s])
                 /\ \/ opened' = [os1 EXCEPT ![s] = AfterRead(@)]
                    \/ /\ reader.index # None
                       /\ \E n \in Places(os1[s]) :
                             opened' = [[os1 EXCEPT ![s] = AfterRead(@)]
                                           EXCEPT ![s] = [@ EXCEPT !.pos = n, !.eof = FALSE]]
<1> DEFINE o == Subscribe(opened[s], "ext", Len(channels) + 1)
<1>1. /\ s \in 1..Len(opened) /\ opened[s] \in Files /\ Wired(opened, channels)
      /\ opened \in Seq(Files) /\ "ext" \in KindsOfEvent
  BY CurrentFile DEF RawInv, SeekToNextExt, Wired, KindsOfEvent
<1>2. o \in Files
  BY <1>1, SubscribedFile
<1> HIDE DEF o
<1>3. /\ os1 = [opened EXCEPT ![s] = o] /\ os1[s] = o /\ Len(os1) = Len(opened)
  BY <1>1, <1>2, ExceptSeq DEF o
<1>4. Wired(os1, cs1) /\ Grows(opened, channels, os1, cs1)
  <2> DEFINE ch == [Channel("ext", s, <<>>) EXCEPT !.held = FALSE]
  <2>1. ch \in Receivers
    BY <1>1, NewChannel
  <2>2. /\ ch.kind = "ext" /\ ch.session = s /\ ch.queue = <<>>
        /\ ch.missed = Len(opened[s].sent["ext"]) /\ ch.taken = 0
    BY DEF Channel
  <2> HIDE DEF ch
  <2>3. /\ Wired([opened EXCEPT ![s] = Subscribe(@, "ext", Len(channels) + 1)], Append(channels, ch))
        /\ Grows(opened, channels,
                 [opened EXCEPT ![s] = Subscribe(@, "ext", Len(channels) + 1)], Append(channels, ch))
    BY <1>1, <2>1, <2>2, Subscribes
  <2>. QED  BY <2>3 DEF ch
<1>5. \A x : [opened EXCEPT ![s] = x] = [os1 EXCEPT ![s] = x]
  BY <1>3
<1>6. \/ /\ ~CanRead(o) /\ opened' = [opened EXCEPT ![s] = AfterPoll(o)] /\ channels' = cs1
      \/ /\ CanRead(o) /\ channels' = Dispatched(cs1, o)
         /\ \/ opened' = [opened EXCEPT ![s] = AfterRead(o)]
            \/ /\ reader.index # None
               /\ \E n \in Places(o) :
                     opened' = [opened EXCEPT ![s] = [AfterRead(o) EXCEPT !.pos = n, !.eof = FALSE]]
  BY DEF SeekToNextExt, Current, o
<1>7. CASE /\ ~CanRead(o) /\ opened' = [opened EXCEPT ![s] = AfterPoll(o)] /\ channels' = cs1
  <2>1. opened' = [os1 EXCEPT ![s] = AfterPoll(o)]
    BY <1>5, <1>7
  <2>. QED  BY <1>1, <1>3, <1>4, <1>7, <2>1 DEF o
<1>8. CASE /\ CanRead(o) /\ channels' = Dispatched(cs1, o)
           /\ opened' = [opened EXCEPT ![s] = AfterRead(o)]
  <2>1. opened' = [os1 EXCEPT ![s] = AfterRead(o)]
    BY <1>5, <1>8
  <2>. QED  BY <1>1, <1>3, <1>4, <1>8, <2>1 DEF o
<1>9. CASE /\ CanRead(o) /\ channels' = Dispatched(cs1, o) /\ reader.index # None
           /\ \E n \in Places(o) :
                 opened' = [opened EXCEPT ![s] = [AfterRead(o) EXCEPT !.pos = n, !.eof = FALSE]]
  <2>1. PICK n \in Places(o) :
           opened' = [opened EXCEPT ![s] = [AfterRead(o) EXCEPT !.pos = n, !.eof = FALSE]]
    BY <1>9
  <2> DEFINE os2 == [os1 EXCEPT ![s] = AfterRead(o)]
  <2>2. os2[s] = AfterRead(o)
    BY <1>1, <1>3
  <2>3. opened' = [os2 EXCEPT ![s] = [AfterRead(o) EXCEPT !.pos = n, !.eof = FALSE]]
    BY <1>3, <2>1
  <2>4. opened' = [os2 EXCEPT ![s] = [@ EXCEPT !.pos = n, !.eof = FALSE]]
    BY <2>2, <2>3
  <2>5. os2 = [os1 EXCEPT ![s] = AfterRead(@)]
    BY <1>3
  <2> HIDE DEF os2
  <2>6. opened' = [[os1 EXCEPT ![s] = AfterRead(@)] EXCEPT ![s] = [@ EXCEPT !.pos = n, !.eof = FALSE]]
    BY <2>4, <2>5
  <2>. QED  BY <1>1, <1>3, <1>4, <1>9, <2>1, <2>6 DEF o
<1>. QED  BY <1>6, <1>7, <1>8, <1>9

LEMMA ChangedFile ==
    ASSUME NEW os \in Seq(Files), NEW s \in 1..Len(os), NEW o \in Files
    PROVE  LET os2 == [os EXCEPT ![s] = o]
           IN  os2[s] = o /\ s \in 1..Len(os2)
BY ExceptSeq

LEMMA SeekToNextExtKeeps ==
    ASSUME RawInv, SeekToNextExt
    PROVE  Wired(opened', channels') /\ Grows(opened, channels, opened', channels')
<1> DEFINE s == reader.session
           os1 == [opened EXCEPT ![s] = Subscribe(@, "ext", Len(channels) + 1)]
           cs1 == Append(channels, [Channel("ext", s, <<>>) EXCEPT !.held = FALSE])
           os2 == [os1 EXCEPT ![s] = AfterRead(@)]
           cs2 == Dispatched(cs1, os1[s])
<1>1. /\ s \in 1..Len(os1) /\ Wired(os1, cs1) /\ Grows(opened, channels, os1, cs1)
      /\ \/ opened' = [os1 EXCEPT ![s] = AfterPoll(@)] /\ channels' = cs1
         \/ /\ CanRead(os1[s])
            /\ channels' = cs2
            /\ \/ opened' = os2
               \/ \E n \in Places(os1[s]) :
                     opened' = [os2 EXCEPT ![s] = [@ EXCEPT !.pos = n, !.eof = FALSE]]
  BY ExtSteps, ZenonT(90)
<1> HIDE DEF os1, cs1, s, os2, cs2
<1>2. CASE opened' = [os1 EXCEPT ![s] = AfterPoll(@)] /\ channels' = cs1
  <2>1. Wired(opened', channels') /\ Grows(os1, cs1, opened', channels')
    BY <1>1, <1>2, PollsOn
  <2>. QED  BY <1>1, <2>1, GrowsOn
<1>3. CASE /\ CanRead(os1[s])
           /\ channels' = cs2
           /\ \/ opened' = os2
              \/ \E n \in Places(os1[s]) :
                    opened' = [os2 EXCEPT ![s] = [@ EXCEPT !.pos = n, !.eof = FALSE]]
  <2>1. Wired(os2, cs2) /\ Grows(os1, cs1, os2, cs2)
    BY <1>1, <1>3, ReadsOn DEF os2, cs2
  <2>2. Grows(opened, channels, os2, cs2)
    BY <1>1, <2>1, GrowsOn
  <2>3. CASE opened' = os2
    BY <1>3, <2>1, <2>2, <2>3
  <2>4. ASSUME NEW n \in Places(os1[s]),
               opened' = [os2 EXCEPT ![s] = [@ EXCEPT !.pos = n, !.eof = FALSE]]
        PROVE  Wired(opened', channels') /\ Grows(opened, channels, opened', channels')
    <3>1. os1[s] \in Files /\ os1 \in Seq(Files)
      BY <1>1, ElementOfSeq, ZenonT(90) DEF Wired
    <3>2. AfterRead(os1[s]) \in Files /\ AfterRead(os1[s]).path = os1[s].path
      BY <1>3, <3>1, ReadFile
    <3>3. os2[s] = AfterRead(os1[s]) /\ s \in 1..Len(os2)
      BY <1>1, <3>1, <3>2, ChangedFile DEF os2
    <3>4. n \in Places(os2[s])
      BY <3>2, <3>3 DEF Places
    <3>5. Wired(opened', cs2) /\ Grows(os2, cs2, opened', cs2)
      BY <2>1, <2>4, <3>3, <3>4, SeeksTo
    <3>6. Grows(opened, channels, opened', cs2)
      BY <2>2, <3>5, GrowsOn
    <3>. QED  BY <1>3, <3>5, <3>6
  <2>. QED  BY <1>1, <1>3, <2>3, <2>4
<1>. QED  BY <1>1, <1>2, <1>3

LEMMA ReaderSteps ==
    ASSUME RawInv, LoadOk \/ LoadError \/ Seek \/ SeekToNextExt,
           UNCHANGED <<device, reader, index_failed>>
    PROVE  RawInv' /\ Grows(opened, channels, opened', channels')
<1>1. Wired(opened', channels') /\ Grows(opened, channels, opened', channels')
  BY LoadOkKeeps, LoadErrorKeeps, SeekKeeps, SeekToNextExtKeeps
<1>. QED  BY <1>1, RawKept

LEMMA ReceiverStep ==
    ASSUME RawInv, NEW kind \in KindsOfEvent, Receiver(kind),
           UNCHANGED <<device, reader, index_failed>>
    PROVE  RawInv' /\ Grows(opened, channels, opened', channels')
<1> DEFINE s == reader.session
           ch == Channel(kind, s, <<>>)
<1>1. /\ s \in 1..Len(opened) /\ Wired(opened, channels)
      /\ channels' = Append(channels, ch)
      /\ opened' = [opened EXCEPT ![s] = Subscribe(@, kind, Len(channels) + 1)]
  BY CurrentFile DEF RawInv, Receiver
<1>2. ch \in Receivers
  BY <1>1, NewChannel
<1>3. /\ ch.kind = kind /\ ch.session = s /\ ch.queue = <<>>
      /\ ch.missed = Len(opened[s].sent[kind]) /\ ch.taken = 0
  BY DEF Channel
<1> HIDE DEF ch, s
<1>4. Wired(opened', channels') /\ Grows(opened, channels, opened', channels')
  BY <1>1, <1>2, <1>3, Subscribes
<1>. QED  BY <1>4, RawKept

(* A receiver is used: the files are as they were.                         *)
LEMMA RawKeptByReceiver ==
    ASSUME RawInv, Wired(opened, channels'), UNCHANGED <<opened, device, reader, index_failed>>
    PROVE  RawInv'
BY DEF RawInv, RawTypeOK, Wired, ReaderIsOfOneFile, Current

LEMMA TakeStep ==
    ASSUME RawInv, NEW c \in 1..Len(channels), Take(c),
           UNCHANGED <<opened, device, reader, index_failed>>
    PROVE  RawInv' /\ Head(channels[c].queue) \in Seq(Event)
<1>1. /\ Wired(opened, [channels EXCEPT ![c].queue = Tail(@), ![c].taken = @ + 1])
      /\ Head(channels[c].queue) \in Seq(Event)
  BY WiredTake DEF RawInv, Take
<1>2. Wired(opened, channels')
  BY <1>1 DEF Take
<1>. QED  BY <1>1, <1>2, RawKeptByReceiver

LEMMA DropStep ==
    ASSUME RawInv, NEW c \in 1..Len(channels), Drop(c),
           UNCHANGED <<opened, device, reader, index_failed>>
    PROVE  RawInv'
<1>1. Wired(opened, channels')
  BY WiredDrop DEF RawInv, Drop
<1>. QED  BY <1>1, RawKeptByReceiver

(* try_open: the reader keeps its file when it fails, also half way.       *)
LEMMA TryOpenStep ==
    ASSUME RawInv, NEW p \in Paths, NEW do_index \in BOOLEAN, TryOpen(p, do_index)
    PROVE  RawInv' /\ channels' = channels
<1>1. /\ opened \in Seq(Files) /\ Len(opened) \in Nat /\ Wired(opened, channels)
      /\ device \in 0..Len(opened)
      /\ reader \in [initialized : BOOLEAN, session : 0..Len(opened), index : Paths \union {None}]
      /\ reader.initialized <=> reader.session # 0
      /\ index_failed \in BOOLEAN /\ ReaderIsOfOneFile
  BY LenProperties DEF RawInv, RawTypeOK
<1>2. CASE UNCHANGED rawVars
  BY <1>2 DEF rawVars, RawInv, RawTypeOK, Wired, ReaderIsOfOneFile, Current
<1>3. CASE OpenHandler(p) /\ channels' = channels
           /\ \/ index_failed' = TRUE /\ reader' = reader
              \/ /\ reader' = [initialized |-> TRUE, session |-> device',
                               index |-> IF do_index THEN p ELSE None]
                 /\ index_failed' = FALSE
  <2>1. opened' = Append(opened, Opened(p)) /\ device' = Len(opened) + 1
    BY <1>3 DEF OpenHandler
  <2>2. Wired(opened', channels')
    BY <1>1, <1>3, <2>1, WiredNew
  <2>3. Opened(p) \in Files
    <3>1. <<>> \in Batches
      BY EmptySeq DEF Batches
    <3>2. [cd |-> <<>>, ext |-> <<>>] \in [cd : Batches, ext : Batches] /\ <<>> \in Seq(Nat)
      BY <3>1, EmptySeq
    <3>. QED  BY <3>2 DEF Opened, Files
  <2>4. /\ opened' \in Seq(Files) /\ channels' \in Seq(Receivers) /\ Len(opened') = Len(opened) + 1
        /\ \A i \in 1..Len(opened) : opened'[i] = opened[i]
        /\ opened'[Len(opened) + 1] = Opened(p)
    BY <1>1, <2>1, <2>2, <2>3, AppendProperties DEF Wired
  <2>5. \A s \in DOMAIN opened' : opened'[s].pos <= Len(Reads(opened'[s].path))
    <3>1. DOMAIN opened' = 1..Len(opened')
      BY <2>4, LenProperties
    <3>. QED  BY <2>2, <3>1 DEF Wired
  <2>6. CASE index_failed' = TRUE /\ reader' = reader
    <3>1. reader.initialized => opened'[reader.session] = opened[reader.session]
      BY <1>1, <2>4
    <3>2. ReaderIsOfOneFile'
      BY <1>1, <2>6, <3>1 DEF ReaderIsOfOneFile, Current
    <3>3. device' \in 0..Len(opened') /\ 0..Len(opened) \subseteq 0..Len(opened')
      BY <1>1, <2>1, <2>4
    <3>4. reader' \in [initialized : BOOLEAN, session : 0..Len(opened'), index : Paths \union {None}]
      BY <1>1, <2>6, <3>3
    <3>. QED  BY <1>1, <1>3, <2>2, <2>4, <2>5, <2>6, <3>2, <3>3, <3>4 DEF RawInv, RawTypeOK
  <2>7. CASE /\ reader' = [initialized |-> TRUE, session |-> device',
                           index |-> IF do_index THEN p ELSE None]
             /\ index_failed' = FALSE
    <3>1. opened'[reader'.session].path = p
      BY <2>1, <2>4, <2>7 DEF Opened
    <3>2. ReaderIsOfOneFile'
      BY <2>7, <3>1 DEF ReaderIsOfOneFile, Current
    <3>3. device' \in 0..Len(opened') /\ device' # 0
      BY <1>1, <2>1, <2>4
    <3>4. reader' \in [initialized : BOOLEAN, session : 0..Len(opened'), index : Paths \union {None}]
      BY <2>7, <3>3
    <3>5. reader'.initialized <=> reader'.session # 0
      BY <2>7, <3>3
    <3>6. index_failed' \in BOOLEAN
      BY <2>7
    <3>7. RawTypeOK'
      BY <2>4, <2>5, <3>3, <3>4, <3>5, <3>6 DEF RawTypeOK
    <3>. QED  BY <1>3, <2>2, <3>2, <3>7 DEF RawInv
  <2>. QED  BY <1>3, <2>6, <2>7
<1>. QED  BY <1>2, <1>3 DEF TryOpen, rawVars

-----------------------------------------------------------------------------
(* The initial states.                                                     *)
LEMMA NothingOpened ==
    RawInit => RawInv
<1>1. <<>> \in Seq(Files) /\ <<>> \in Seq(Receivers) /\ Len(<<>>) = 0 /\ DOMAIN <<>> = {}
  BY EmptySeq
<1>2. SUFFICES ASSUME RawInit PROVE RawInv
  OBVIOUS
<1>3. /\ opened = <<>> /\ channels = <<>> /\ device = 0 /\ reader = NewReader
      /\ index_failed = FALSE
  BY <1>2 DEF RawInit
<1>4. Wired(<<>>, <<>>)
  BY <1>1 DEF Wired
<1>5. Wired(opened, channels) /\ opened \in Seq(Files) /\ channels \in Seq(Receivers)
  BY <1>1, <1>3, <1>4
<1>6. /\ device \in 0..Len(opened) /\ ~reader.initialized /\ reader.session = 0
      /\ reader \in [initialized : BOOLEAN, session : 0..Len(opened), index : Paths \union {None}]
  <2>1. 0 \in 0..Len(opened)
    BY <1>1, <1>3
  <2>. QED  BY <1>3, <2>1 DEF NewReader
<1>7. \A s \in DOMAIN opened : opened[s].pos <= Len(Reads(opened[s].path))
  BY <1>1, <1>3
<1>. QED  BY <1>3, <1>5, <1>6, <1>7 DEF RawInv, RawTypeOK, ReaderIsOfOneFile

LEMMA OneOpened ==
    ASSUME NEW p \in Paths
    PROVE  /\ Wired(<<Opened(p)>>, <<>>) /\ Opened(p) \in Files
           /\ <<Opened(p)>> \in Seq(Files) /\ Len(<<Opened(p)>>) = 1
<1>1. <<>> \in Seq(Files) /\ <<>> \in Seq(Receivers) /\ Len(<<>>) = 0
  BY EmptySeq
<1>2. Wired(<<>>, <<>>)
  BY <1>1 DEF Wired
<1>3. Append(<<>>, Opened(p)) = <<Opened(p)>>
  BY DEF Opened
<1>4. Opened(p) \in Files
  <2>1. <<>> \in Batches
    BY EmptySeq DEF Batches
  <2>2. [cd |-> <<>>, ext |-> <<>>] \in [cd : Batches, ext : Batches] /\ <<>> \in Seq(Nat)
    BY <2>1, EmptySeq
  <2>. QED  BY <2>2 DEF Opened, Files
<1>5. Wired(Append(<<>>, Opened(p)), <<>>)
  BY <1>2, WiredNew
<1> DEFINE o == Opened(p)
<1>6. o \in Files
  BY <1>4
<1> HIDE DEF o
<1>7. <<o>> \in Seq(Files) /\ Len(<<o>>) = 1
  BY <1>6
<1>. QED  BY <1>3, <1>4, <1>5, <1>7 DEF o

-----------------------------------------------------------------------------
(* The plugin and its sinks.  Receivers that keep what they have had, also *)
(* those that a restart of their kind lets go.                             *)
Keeps(cs, cs2) ==
    /\ cs \in Seq(Receivers) /\ cs2 \in Seq(Receivers) /\ Len(cs) <= Len(cs2)
    /\ \A c \in 1..Len(cs) : /\ cs2[c].kind = cs[c].kind
                             /\ cs2[c].missed = cs[c].missed /\ cs2[c].taken = cs[c].taken
    /\ \A c \in Len(cs) + 1..Len(cs2) : cs2[c].taken = 0

LEMMA HadTypes ==
    ASSUME NEW cs \in Seq(Receivers), NEW c \in 1..Len(cs)
    PROVE  /\ cs[c] \in Receivers /\ cs[c].missed \in Nat /\ cs[c].taken \in Nat
           /\ Had(cs, c) \in Nat /\ cs[c].missed <= Had(cs, c)
<1>1. cs[c] \in Receivers
  BY ElementOfSeq
<1>2. cs[c].missed \in Nat /\ cs[c].taken \in Nat
  BY <1>1 DEF Receivers
<1>. QED  BY <1>1, <1>2 DEF Had

LEMMA HadKept ==
    ASSUME NEW cs, NEW cs2, Keeps(cs, cs2), NEW c \in 1..Len(cs)
    PROVE  c \in 1..Len(cs2) /\ Had(cs2, c) = Had(cs, c)
<1>1. Len(cs) \in Nat /\ Len(cs2) \in Nat /\ Len(cs) <= Len(cs2)
  BY LenProperties DEF Keeps
<1>2. c \in 1..Len(cs2)
  BY <1>1
<1>. QED  BY <1>2 DEF Keeps, Had

LEMMA OwedKept ==
    ASSUME NEW cs, NEW cs2, Keeps(cs, cs2), NEW o, NEW o2, NEW pl, NEW pl2, NEW ph,
           NEW ow \in [KindsOfEvent -> Nat], OwedIsHad(o, cs, pl, ph, ow),
           \A kind \in KindsOfEvent :
              /\ Len(o.sent[kind]) \in Nat /\ Len(o2.sent[kind]) \in Nat
              /\ Len(o.sent[kind]) <= Len(o2.sent[kind])
              /\ pl[kind] \in 0..Len(cs)
              /\ pl2[kind] = pl[kind] \/ ow[kind] <= Had(cs2, pl2[kind])
    PROVE  OwedIsHad(o2, cs2, pl2, ph, ow)
<1>1. SUFFICES ASSUME NEW kind \in KindsOfEvent
               PROVE  /\ ow[kind] <= Len(o2.sent[kind])
                      /\ pl2[kind] # 0 /\ (ph = "idle" \/ (ph = "ext" /\ kind = "cd")) =>
                            ow[kind] <= Had(cs2, pl2[kind])
  BY DEF OwedIsHad
<1>2. ow[kind] <= Len(o2.sent[kind])
  <2>1. /\ ow[kind] \in Nat /\ Len(o.sent[kind]) \in Nat /\ Len(o2.sent[kind]) \in Nat
        /\ ow[kind] <= Len(o.sent[kind]) /\ Len(o.sent[kind]) <= Len(o2.sent[kind])
    BY DEF OwedIsHad
  <2>2. \A a, b, c \in Nat : a <= b /\ b <= c => a <= c
    OBVIOUS
  <2>. QED  BY <2>1, <2>2, Zenon
<1>3. ASSUME pl2[kind] = pl[kind], pl[kind] # 0, ph = "idle" \/ (ph = "ext" /\ kind = "cd")
      PROVE  ow[kind] <= Had(cs2, pl2[kind])
  <2>1. Len(cs) \in Nat
    BY LenProperties DEF Keeps
  <2>2. pl[kind] \in 1..Len(cs)
    BY <1>3, <2>1
  <2>3. Had(cs2, pl[kind]) = Had(cs, pl[kind])
    BY <2>2, HadKept
  <2>. QED  BY <1>3, <2>3 DEF OwedIsHad
<1>. QED  BY <1>2, <1>3

LEMMA SinksKept ==
    ASSUME NEW cs, NEW cs2, Keeps(cs, cs2), NEW pl, NEW pl2, NEW sk,
           \A i \in 1..Len(sk) : sk[i].kind \in KindsOfEvent,
           SinksInOrder(cs, pl, sk), SinksHadAll(cs, sk),
           \A kind \in KindsOfEvent :
              /\ pl[kind] \in 0..Len(cs)
              /\ \/ pl2[kind] = pl[kind]
                 \/ \A i \in 1..Len(sk) : sk[i].kind = kind => sk[i].no <= Had(cs2, pl2[kind])
    PROVE  SinksInOrder(cs2, pl2, sk) /\ SinksHadAll(cs2, sk)
<1>0. Len(cs) \in Nat /\ Len(cs2) \in Nat /\ cs2 \in Seq(Receivers)
  BY LenProperties DEF Keeps
<1>1. ASSUME NEW i \in 1..Len(sk)
      PROVE  /\ sk[i].from \in 1..Len(cs2)
             /\ sk[i].kind = cs2[sk[i].from].kind
             /\ cs2[sk[i].from].missed < sk[i].no /\ sk[i].no <= Had(cs2, sk[i].from)
             /\ pl2[sk[i].kind] # 0 => sk[i].no <= Had(cs2, pl2[sk[i].kind])
             /\ \A j \in 1..i - 1 : sk[j].kind = sk[i].kind => sk[j].no < sk[i].no
  <2>1. /\ sk[i].from \in 1..Len(cs)
        /\ sk[i].kind = cs[sk[i].from].kind
        /\ cs[sk[i].from].missed < sk[i].no /\ sk[i].no <= Had(cs, sk[i].from)
        /\ pl[sk[i].kind] # 0 => sk[i].no <= Had(cs, pl[sk[i].kind])
        /\ \A j \in 1..i - 1 : sk[j].kind = sk[i].kind => sk[j].no < sk[i].no
    BY DEF SinksInOrder
  <2>2. /\ sk[i].from \in 1..Len(cs2) /\ Had(cs2, sk[i].from) = Had(cs, sk[i].from)
        /\ cs2[sk[i].from].kind = cs[sk[i].from].kind
        /\ cs2[sk[i].from].missed = cs[sk[i].from].missed
    BY <2>1, HadKept DEF Keeps
  <2>3. ASSUME pl2[sk[i].kind] # 0
        PROVE  sk[i].no <= Had(cs2, pl2[sk[i].kind])
    <3>1. CASE pl2[sk[i].kind] = pl[sk[i].kind]
      <4>1. pl[sk[i].kind] \in 1..Len(cs)
        BY <1>0, <2>3, <3>1
      <4>. QED  BY <2>1, <3>1, <4>1, HadKept
    <3>2. CASE pl2[sk[i].kind] # pl[sk[i].kind]
      BY <3>2
    <3>. QED  BY <3>1, <3>2
  <2>. QED  BY <2>1, <2>2, <2>3
<1>2. ASSUME NEW c \in 1..Len(cs2), NEW no \in cs2[c].missed + 1..Had(cs2, c)
      PROVE  \E i \in 1..Len(sk) : sk[i].from = c /\ sk[i].no = no
  <2>1. CASE c \in 1..Len(cs)
    <3>1. no \in cs[c].missed + 1..Had(cs, c)
      <4>1. Had(cs2, c) = Had(cs, c) /\ cs2[c].missed = cs[c].missed
        BY <2>1, HadKept DEF Keeps
      <4>. QED  BY <1>2, <4>1
    <3>. QED  BY <2>1, <3>1 DEF SinksHadAll
  <2>2. CASE c \in Len(cs) + 1..Len(cs2)
    <3>1. cs2[c].taken = 0 /\ cs2[c].missed \in Nat
      BY <1>0, <2>2, HadTypes DEF Keeps
    <3>2. FALSE
      BY <1>2, <3>1 DEF Had
    <3>. QED  BY <3>2
  <2>. QED  BY <1>0, <2>1, <2>2
<1>. QED  BY <1>1, <1>2 DEF SinksInOrder, SinksHadAll

(* A batch of a receiver is given to the sink.                             *)
LEMMA Taken ==
    ASSUME NEW cs \in Seq(Receivers), NEW c \in 1..Len(cs), NEW ch \in Receivers,
           ch.kind = cs[c].kind, ch.missed = cs[c].missed, ch.taken = cs[c].taken + 1
    PROVE  LET cs2 == [cs EXCEPT ![c] = ch]
           IN  /\ cs2 \in Seq(Receivers) /\ Len(cs2) = Len(cs)
               /\ \A d \in 1..Len(cs) :
                     /\ cs2[d].kind = cs[d].kind /\ cs2[d].missed = cs[d].missed
                     /\ Had(cs2, d) = IF d = c THEN Had(cs, d) + 1 ELSE Had(cs, d)
<1> DEFINE cs2 == [cs EXCEPT ![c] = ch]
<1>1. /\ cs2 \in Seq(Receivers) /\ Len(cs2) = Len(cs)
      /\ \A d \in 1..Len(cs) : cs2[d] = IF d = c THEN ch ELSE cs[d]
  BY ExceptSeq
<1>2. cs[c].missed \in Nat /\ cs[c].taken \in Nat
  BY HadTypes
<1> HIDE DEF cs2
<1>3. ASSUME NEW d \in 1..Len(cs)
      PROVE  /\ cs2[d].kind = cs[d].kind /\ cs2[d].missed = cs[d].missed
             /\ Had(cs2, d) = IF d = c THEN Had(cs, d) + 1 ELSE Had(cs, d)
  <2>1. CASE d = c
    <3>1. cs2[d] = ch
      BY <1>1, <2>1
    <3>2. cs[c].missed + (cs[c].taken + 1) = (cs[c].missed + cs[c].taken) + 1
      BY <1>2
    <3>. QED  BY <2>1, <3>1, <3>2 DEF Had
  <2>2. CASE d # c
    <3>1. cs2[d] = cs[d]
      BY <1>1, <2>2
    <3>. QED  BY <2>2, <3>1 DEF Had
  <2>. QED  BY <2>1, <2>2
<1>. QED  BY <1>1, <1>3 DEF cs2

LEMMA SinksTake ==
    ASSUME NEW cs \in Seq(Receivers), NEW c \in 1..Len(cs), NEW cs2 \in Seq(Receivers),
           Len(cs2) = Len(cs),
           \A d \in 1..Len(cs) : /\ cs2[d].kind = cs[d].kind /\ cs2[d].missed = cs[d].missed
                                 /\ Had(cs2, d) = IF d = c THEN Had(cs, d) + 1 ELSE Had(cs, d),
           NEW pl, NEW sk \in Seq(SinkCalls), NEW s \in SinkCalls,
           SinksInOrder(cs, pl, sk), SinksHadAll(cs, sk),
           \A kind \in KindsOfEvent : pl[kind] \in 0..Len(cs),
           s.kind \in KindsOfEvent, pl[s.kind] = c, s.kind = cs[c].kind,
           s.from = c, s.no = Had(cs, c) + 1
    PROVE  SinksInOrder(cs2, pl, Append(sk, s)) /\ SinksHadAll(cs2, Append(sk, s))
<1> DEFINE sk2 == Append(sk, s)
<1>0. Len(cs) \in Nat /\ Len(sk) \in Nat
  BY LenProperties
<1>1. /\ Len(sk2) = Len(sk) + 1 /\ sk2[Len(sk) + 1] = s
      /\ \A i \in 1..Len(sk) : sk2[i] = sk[i]
  BY AppendProperties
<1> HIDE DEF sk2
<1>2. \A d \in 1..Len(cs) : /\ Had(cs, d) \in Nat /\ Had(cs2, d) \in Nat
                            /\ cs[d].missed \in Nat /\ cs[d].missed <= Had(cs, d)
                            /\ Had(cs, d) <= Had(cs2, d)
  <2>1. \A d \in 1..Len(cs) : Had(cs, d) \in Nat /\ cs[d].missed \in Nat /\ cs[d].missed <= Had(cs, d)
    BY HadTypes
  <2>. QED  BY <2>1
<1>3. ASSUME NEW i \in 1..Len(sk)
      PROVE  /\ sk[i].from \in 1..Len(cs) /\ sk[i].no \in Nat /\ sk[i].kind \in KindsOfEvent
             /\ sk[i].kind = cs[sk[i].from].kind
             /\ cs[sk[i].from].missed < sk[i].no /\ sk[i].no <= Had(cs, sk[i].from)
             /\ pl[sk[i].kind] # 0 => sk[i].no <= Had(cs, pl[sk[i].kind])
             /\ \A j \in 1..i - 1 : sk[j].kind = sk[i].kind => sk[j].no < sk[i].no
  <2>1. sk[i] \in SinkCalls
    BY ElementOfSeq
  <2>2. sk[i].no \in Nat /\ sk[i].kind \in KindsOfEvent
    BY <2>1 DEF SinkCalls
  <2>. QED  BY <2>2 DEF SinksInOrder
<1>4. ASSUME NEW i \in 1..Len(sk2)
      PROVE  /\ sk2[i].from \in 1..Len(cs2)
             /\ sk2[i].kind = cs2[sk2[i].from].kind
             /\ cs2[sk2[i].from].missed < sk2[i].no /\ sk2[i].no <= Had(cs2, sk2[i].from)
             /\ pl[sk2[i].kind] # 0 => sk2[i].no <= Had(cs2, pl[sk2[i].kind])
             /\ \A j \in 1..i - 1 : sk2[j].kind = sk2[i].kind => sk2[j].no < sk2[i].no
  <2>0. \A a, b, e \in Nat : a <= b /\ b <= e => a <= e
    OBVIOUS
  <2>1. CASE i \in 1..Len(sk)
    <3>1. sk2[i] = sk[i] /\ \A j \in 1..i - 1 : sk2[j] = sk[j]
      BY <1>0, <1>1, <2>1
    <3>2. sk[i].no <= Had(cs2, sk[i].from)
      BY <1>2, <1>3, <2>0, <2>1
    <3>3. ASSUME pl[sk[i].kind] # 0
          PROVE  sk[i].no <= Had(cs2, pl[sk[i].kind])
      <4>1. pl[sk[i].kind] \in 1..Len(cs)
        BY <1>0, <1>3, <2>1, <3>3
      <4>. QED  BY <1>2, <1>3, <2>0, <2>1, <3>3, <4>1
    <3>4. /\ sk[i].from \in 1..Len(cs2)
          /\ sk[i].kind = cs2[sk[i].from].kind
          /\ cs2[sk[i].from].missed < sk[i].no
      BY <1>3, <2>1
    <3>5. \A j \in 1..i - 1 : sk[j].kind = sk[i].kind => sk[j].no < sk[i].no
      BY <1>3, <2>1
    <3>. QED  BY <3>1, <3>2, <3>3, <3>4, <3>5
  <2>2. CASE i = Len(sk) + 1
    <3>1. sk2[i] = s /\ \A j \in 1..i - 1 : j \in 1..Len(sk) /\ sk2[j] = sk[j]
      BY <1>0, <1>1, <2>2
    <3>2. s.no = Had(cs2, c) /\ cs2[c].missed < s.no
      <4>1. s.no = Had(cs2, c) /\ cs2[c].missed = cs[c].missed
        OBVIOUS
      <4>2. cs[c].missed \in Nat /\ Had(cs, c) \in Nat /\ cs[c].missed <= Had(cs, c)
        BY <1>2
      <4>. QED  BY <4>1, <4>2
    <3>3. s.no <= Had(cs2, c)
      BY <1>2, <3>2
    <3>4. ASSUME NEW j \in 1..i - 1, sk[j].kind = s.kind
          PROVE  sk[j].no < s.no
      <4>1. j \in 1..Len(sk) /\ c # 0
        BY <1>0, <3>1
      <4>2. sk[j].no \in Nat /\ (pl[sk[j].kind] # 0 => sk[j].no <= Had(cs, pl[sk[j].kind]))
        BY <1>3, <4>1
      <4>3. pl[sk[j].kind] = c
        BY <3>4
      <4>4. sk[j].no <= Had(cs, c)
        BY <4>1, <4>2, <4>3
      <4>5. Had(cs, c) \in Nat
        BY <1>2
      <4>. QED  BY <4>2, <4>4, <4>5
    <3>. QED  BY <3>1, <3>2, <3>3, <3>4
  <2>. QED  BY <1>0, <1>1, <2>1, <2>2
<1>5. ASSUME NEW d \in 1..Len(cs2), NEW no \in cs2[d].missed + 1..Had(cs2, d)
      PROVE  \E i \in 1..Len(sk2) : sk2[i].from = d /\ sk2[i].no = no
  <2>1. CASE no \in cs[d].missed + 1..Had(cs, d)
    <3>1. PICK i \in 1..Len(sk) : sk[i].from = d /\ sk[i].no = no
      BY <2>1 DEF SinksHadAll
    <3>2. i \in 1..Len(sk2) /\ sk2[i] = sk[i]
      BY <1>0, <1>1
    <3>. QED  BY <3>1, <3>2
  <2>2. CASE ~(no \in cs[d].missed + 1..Had(cs, d))
    <3>1. d = c /\ no = Had(cs, c) + 1
      <4>1. cs2[d].missed = cs[d].missed /\ cs[d].missed \in Nat /\ Had(cs, d) \in Nat
        BY <1>2
      <4>2. Had(cs2, d) = IF d = c THEN Had(cs, d) + 1 ELSE Had(cs, d)
        OBVIOUS
      <4>. QED  BY <1>5, <2>2, <4>1, <4>2
    <3>2. Len(sk) + 1 \in 1..Len(sk2)
      BY <1>0, <1>1
    <3>. QED  BY <1>1, <3>1, <3>2
  <2>. QED  BY <2>1, <2>2
<1>6. SinksInOrder(cs2, pl, sk2) /\ SinksHadAll(cs2, sk2)
  BY <1>4, <1>5 DEF SinksInOrder, SinksHadAll
<1>. QED  BY <1>6 DEF sk2

(* What the plugin keeps of its own, and the invariants of it.             *)
PluginTypes ==
    /\ plugin \in [cd : 0..Len(channels), ext : 0..Len(channels),
                   sink : Sinks \union {PySink, None}]
    /\ phase \in {"idle", "cd", "ext"}
    /\ owed \in [KindsOfEvent -> Nat]
    /\ sunk \in Seq(SinkCalls)
PluginInv == RawInv /\ PluginTypes /\ HostInv /\ SinkInv

LEMMA PluginFacts ==
    ASSUME PluginInv, host # "application"
    PROVE  /\ opened \in Seq(Files) /\ channels \in Seq(Receivers) /\ Len(channels) \in Nat
           /\ Len(opened) = 1 /\ opened[1] \in Files
           /\ \A kind \in KindsOfEvent :
                 plugin[kind] \in 0..Len(channels) /\ Len(opened[1].sent[kind]) \in Nat
           /\ \A i \in 1..Len(sunk) : sunk[i].kind \in KindsOfEvent
<1>1. opened \in Seq(Files) /\ channels \in Seq(Receivers) /\ Len(opened) = 1
  BY DEF PluginInv, RawInv, RawTypeOK, HostInv
<1>2. Len(channels) \in Nat /\ opened[1] \in Files
  <2>1. 1 \in 1..Len(opened)
    BY <1>1
  <2>. QED  BY <1>1, <2>1, ElementOfSeq, LenProperties
<1>3. ASSUME NEW kind \in KindsOfEvent
      PROVE  plugin[kind] \in 0..Len(channels) /\ Len(opened[1].sent[kind]) \in Nat
  <2>1. opened[1].sent[kind] \in Batches
    BY <1>2, FileFields
  <2>2. Len(opened[1].sent[kind]) \in Nat
    BY <2>1, LenProperties DEF Batches
  <2>3. plugin[kind] \in 0..Len(channels)
    BY DEF PluginInv, PluginTypes, KindsOfEvent
  <2>. QED  BY <2>2, <2>3
<1>4. ASSUME NEW i \in 1..Len(sunk)
      PROVE  sunk[i].kind \in KindsOfEvent
  <2>1. sunk[i] \in SinkCalls
    BY ElementOfSeq DEF PluginInv, PluginTypes
  <2>. QED  BY <2>1 DEF SinkCalls
<1>. QED  BY <1>1, <1>2, <1>3, <1>4

LEMMA PluginReads ==
    ASSUME PluginInv, host # "application",
           RawInv', Grows(opened, channels, opened', channels'),
           UNCHANGED <<host, reader, plugin, sunk>>,
           \/ phase' = phase /\ owed' = owed
           \/ /\ phase' = "cd"
              /\ owed' = [kind \in KindsOfEvent |-> Len(opened'[1].sent[kind])]
    PROVE  PluginInv'
<1>1. /\ opened \in Seq(Files) /\ channels \in Seq(Receivers) /\ Len(channels) \in Nat
      /\ Len(opened) = 1 /\ opened[1] \in Files
      /\ \A kind \in KindsOfEvent :
            plugin[kind] \in 0..Len(channels) /\ Len(opened[1].sent[kind]) \in Nat
      /\ \A i \in 1..Len(sunk) : sunk[i].kind \in KindsOfEvent
  BY PluginFacts
<1>2. /\ channels' \in Seq(Receivers) /\ Len(channels') \in Nat /\ Len(channels) <= Len(channels')
      /\ Len(opened') = 1
      /\ opened[1].started => opened'[1].started
      /\ \A kind \in KindsOfEvent :
            /\ Len(opened'[1].sent[kind]) \in Nat
            /\ Len(opened[1].sent[kind]) <= Len(opened'[1].sent[kind])
      /\ \A c \in 1..Len(channels) : /\ channels'[c].kind = channels[c].kind
                                     /\ channels'[c].held = channels[c].held
  BY <1>1 DEF Grows, RawInv, RawTypeOK
<1>3. Keeps(channels, channels')
  BY <1>1, <1>2 DEF Keeps, Grows
<1>4. PluginTypes'
  <2>1. 0..Len(channels) \subseteq 0..Len(channels')
    BY <1>1, <1>2
  <2>2. owed' \in [KindsOfEvent -> Nat]
    BY <1>2 DEF PluginInv, PluginTypes
  <2>. QED  BY <2>1, <2>2 DEF PluginInv, PluginTypes
<1>5. HostInv'
  <2>1. ASSUME NEW kind \in KindsOfEvent, plugin[kind] # 0
        PROVE  channels'[plugin[kind]].kind = kind /\ channels'[plugin[kind]].held
    <3>1. plugin[kind] \in 1..Len(channels)
      BY <1>1, <2>1
    <3>2. channels[plugin[kind]].kind = kind /\ channels[plugin[kind]].held
      BY <2>1 DEF PluginInv, HostInv
    <3>. QED  BY <1>2, <3>1, <3>2
  <2>. QED  BY <1>2, <2>1 DEF PluginInv, HostInv
<1>6. SinksInOrder(channels', plugin, sunk) /\ SinksHadAll(channels', sunk)
  BY <1>1, <1>3, SinksKept DEF PluginInv, SinkInv
<1>7. OwedIsHad(opened'[1], channels', plugin, phase', owed')
  <2>1. CASE phase' = phase /\ owed' = owed
    <3>1. owed \in [KindsOfEvent -> Nat] /\ OwedIsHad(opened[1], channels, plugin, phase, owed)
      BY DEF PluginInv, PluginTypes, SinkInv
    <3>2. OwedIsHad(opened'[1], channels', plugin, phase, owed)
      BY <1>1, <1>2, <1>3, <3>1, OwedKept
    <3>. QED  BY <2>1, <3>2
  <2>2. CASE /\ phase' = "cd"
             /\ owed' = [kind \in KindsOfEvent |-> Len(opened'[1].sent[kind])]
    BY <1>2, <2>2 DEF OwedIsHad
  <2>. QED  BY <2>1, <2>2
<1>8. SinkInv'
  BY <1>6, <1>7 DEF SinkInv
<1>. QED  BY <1>4, <1>5, <1>8 DEF PluginInv

LEMMA PluginLoads ==
    ASSUME PluginInv, host # "application", host' = host,
           PluginLoad \/ PluginLoadError \/ FacilitySeekToNextExt
    PROVE  PluginInv' /\ Grows(opened, channels, opened', channels')
<1>1. /\ LoadOk \/ LoadError \/ SeekToNextExt
      /\ UNCHANGED <<device, reader, index_failed, plugin, sunk>>
      /\ \/ phase' = phase /\ owed' = owed
         \/ /\ phase' = "cd"
            /\ owed' = [kind \in KindsOfEvent |-> Len(opened'[1].sent[kind])]
  BY DEF PluginLoad, PluginLoadError, FacilitySeekToNextExt, pluginVars
<1>2. RawInv' /\ Grows(opened, channels, opened', channels')
  BY <1>1, ReaderSteps DEF PluginInv
<1>. QED  BY <1>1, <1>2, PluginReads

(* start_events: the receiver of the kind is replaced, with what it holds. *)
LEMMA WiredReleased ==
    ASSUME NEW os, NEW cs, Wired(os, cs), NEW c \in 0..Len(cs)
    PROVE  /\ Wired(os, Released(cs, c)) /\ Len(Released(cs, c)) = Len(cs)
           /\ \A d \in 1..Len(cs) :
                 /\ Released(cs, c)[d].kind = cs[d].kind
                 /\ Released(cs, c)[d].missed = cs[d].missed
                 /\ Released(cs, c)[d].taken = cs[d].taken
                 /\ d # c => Released(cs, c)[d] = cs[d]
<1> DEFINE rs == Released(cs, c)
<1>1. cs \in Seq(Receivers) /\ Len(cs) \in Nat /\ DOMAIN cs = 1..Len(cs)
  BY LenProperties DEF Wired
<1>2. /\ rs = [d \in 1..Len(cs) |-> IF d = c THEN [cs[d] EXCEPT !.held = FALSE, !.queue = <<>>]
                                    ELSE cs[d]]
  BY <1>1 DEF Released
<1>3. \A d \in 1..Len(cs) : cs[d] \in Receivers
  BY <1>1, ElementOfSeq
<1>4. CASE c \in 1..Len(cs)
  <2>1. rs = [cs EXCEPT ![c].held = FALSE, ![c].queue = <<>>]
    BY <1>1, <1>2, <1>3, <1>4, SeqDef DEF Receivers
  <2> HIDE DEF rs
  <2>2. Wired(os, rs)
    <3>1. Wired(os, [cs EXCEPT ![c].held = FALSE, ![c].queue = <<>>])
      BY <1>4, WiredDrop, SMTT(60)
    <3>. QED  BY <2>1, <3>1
  <2>3. Len(rs) = Len(cs)
    <3>1. DOMAIN rs = 1..Len(cs) /\ rs \in Seq(Receivers)
      BY <1>2, <2>2 DEF Wired
    <3>2. DOMAIN rs = 1..Len(rs) /\ Len(rs) \in Nat
      BY <3>1, LenProperties
    <3>3. \A m, n \in Nat : 1..m = 1..n => m = n
      OBVIOUS
    <3>. QED  BY <1>1, <3>1, <3>2, <3>3
  <2>4. ASSUME NEW d \in 1..Len(cs)
        PROVE  /\ rs[d].kind = cs[d].kind /\ rs[d].missed = cs[d].missed
               /\ rs[d].taken = cs[d].taken /\ (d # c => rs[d] = cs[d])
    BY <1>2, <1>3 DEF Receivers
  <2>. QED  BY <2>2, <2>3, <2>4 DEF rs
<1>5. CASE c = 0
  <2>1. rs = [d \in 1..Len(cs) |-> cs[d]]
    <3>1. \A d \in 1..Len(cs) : d # c
      BY <1>1, <1>5
    <3> HIDE DEF rs
    <3>. QED  BY <1>2, <3>1
  <2>2. rs = cs
    BY <1>1, <2>1, SeqDef
  <2> HIDE DEF rs
  <2>. QED  BY <2>2 DEF rs
<1>. QED  BY <1>1, <1>4, <1>5

(* What was sunk was sent: it is no more than the file has sent.           *)
LEMMA SunkWasSent ==
    ASSUME PluginInv, host # "application", NEW i \in 1..Len(sunk)
    PROVE  sunk[i].no <= Len(opened[1].sent[sunk[i].kind])
<1> DEFINE c == sunk[i].from
<1>1. /\ c \in 1..Len(channels) /\ sunk[i].kind = channels[c].kind
      /\ sunk[i].no <= Had(channels, c)
  BY DEF PluginInv, SinkInv, SinksInOrder
<1>2. Wired(opened, channels) /\ channels \in Seq(Receivers) /\ Len(opened) = 1
  BY PluginFacts DEF PluginInv, RawInv
<1> HIDE DEF c
<1>3. /\ channels[c].session \in 1..1
      /\ MissesNothing(channels[c], opened[channels[c].session].sent[channels[c].kind])
  BY <1>1, <1>2 DEF Wired
<1>4. channels[c].session = 1
  BY <1>3
<1>5. Had(channels, c) <= Len(opened[1].sent[sunk[i].kind])
  BY <1>1, <1>3, <1>4 DEF MissesNothing, Had
<1>6. /\ Had(channels, c) \in Nat /\ sunk[i].no \in Nat
      /\ Len(opened[1].sent[sunk[i].kind]) \in Nat
  <2>1. sunk[i] \in SinkCalls
    BY ElementOfSeq DEF PluginInv, PluginTypes
  <2>2. sunk[i].no \in Nat
    BY <2>1 DEF SinkCalls
  <2>. QED  BY <1>1, <1>2, <2>2, HadTypes, PluginFacts
<1>7. \A a, b, e \in Nat : a <= b /\ b <= e => a <= e
  OBVIOUS
<1>. QED  BY <1>1, <1>5, <1>6, <1>7, Zenon

(* The file and the receivers when a kind is started.                      *)
LEMMA StartSubscribes ==
    ASSUME RawInv, Len(opened) = 1, NEW kind \in KindsOfEvent, NEW c \in 0..Len(channels),
           channels' = Append(Released(channels, c), Channel(kind, 1, <<>>)),
           opened' = [opened EXCEPT ![1] = Subscribe(@, kind, Len(channels) + 1)],
           UNCHANGED <<device, reader, index_failed>>
    PROVE  /\ RawInv' /\ Keeps(channels, channels') /\ Len(channels') = Len(channels) + 1
           /\ Len(opened') = 1
           /\ \A k \in KindsOfEvent : /\ Len(opened[1].sent[k]) \in Nat
                                      /\ Len(opened'[1].sent[k]) = Len(opened[1].sent[k])
           /\ \A d \in 1..Len(channels) \ {c} : channels'[d] = channels[d]
           /\ channels'[Len(channels) + 1].kind = kind /\ channels'[Len(channels) + 1].held
           /\ Had(channels', Len(channels) + 1) = Len(opened[1].sent[kind])
<1> DEFINE rs == Released(channels, c)
           ch == Channel(kind, 1, <<>>)
<1>1. Wired(opened, channels) /\ 1 \in 1..Len(opened) /\ Len(channels) \in Nat
  BY LenProperties, SMTT(60) DEF RawInv, Wired
<1>2. /\ Wired(opened, rs) /\ Len(rs) = Len(channels)
      /\ \A d \in 1..Len(channels) :
            /\ rs[d].kind = channels[d].kind
            /\ rs[d].missed = channels[d].missed
            /\ rs[d].taken = channels[d].taken
            /\ d # c => rs[d] = channels[d]
  BY <1>1, WiredReleased
<1>3. ch \in Receivers
  BY <1>1, NewChannel
<1>4. /\ ch.kind = kind /\ ch.session = 1 /\ ch.queue = <<>> /\ ch.held = TRUE
      /\ ch.missed = Len(opened[1].sent[kind]) /\ ch.taken = 0
  BY DEF Channel
<1>5. channels' = Append(rs, ch)
  OBVIOUS
<1> HIDE DEF rs, ch
<1>6. opened' = [opened EXCEPT ![1] = Subscribe(@, kind, Len(rs) + 1)]
  BY <1>2
<1>7. Wired(opened', channels') /\ Grows(opened, rs, opened', channels')
  <2>1. /\ Wired([opened EXCEPT ![1] = Subscribe(@, kind, Len(rs) + 1)], Append(rs, ch))
        /\ Grows(opened, rs, [opened EXCEPT ![1] = Subscribe(@, kind, Len(rs) + 1)], Append(rs, ch))
    BY <1>1, <1>2, <1>3, <1>4, Subscribes
  <2>. QED  BY <1>5, <1>6, <2>1
<1>8. RawInv'
  BY <1>7, RawKept
<1>9. /\ Len(channels') = Len(channels) + 1 /\ channels'[Len(channels) + 1] = ch
      /\ \A d \in 1..Len(channels) : channels'[d] = rs[d]
  <2>1. rs \in Seq(Receivers)
    BY <1>2 DEF Wired
  <2>2. /\ Len(Append(rs, ch)) = Len(rs) + 1 /\ Append(rs, ch)[Len(rs) + 1] = ch
        /\ \A d \in 1..Len(rs) : Append(rs, ch)[d] = rs[d]
    BY <1>3, <2>1, AppendProperties
  <2>. QED  BY <1>2, <1>5, <2>2
<1>10. Keeps(channels, channels')
  BY <1>1, <1>2, <1>4, <1>7, <1>9 DEF Keeps, Wired
<1>11. /\ opened \in Seq(Files) /\ opened[1] \in Files
       /\ \A k \in KindsOfEvent : Len(opened[1].sent[k]) \in Nat
  <2>1. opened \in Seq(Files) /\ opened[1] \in Files
    BY <1>1, ElementOfSeq DEF Wired
  <2>2. \A k \in KindsOfEvent : opened[1].sent[k] \in Batches
    BY <2>1, FileFields
  <2>. QED  BY <2>1, <2>2, LenProperties DEF Batches
<1>12. Len(opened') = 1 /\ opened'[1].sent = opened[1].sent
  <2> DEFINE o == Subscribe(opened[1], kind, Len(channels) + 1)
  <2>1. o \in Files /\ o.sent = opened[1].sent
    BY <1>1, SubscribedFile
  <2>2. opened' = [opened EXCEPT ![1] = o]
    OBVIOUS
  <2> HIDE DEF o
  <2>3. opened'[1] = o
    BY <1>1, <1>11, <2>1, <2>2, ChangedFile
  <2>. QED  BY <1>7, <2>1, <2>3 DEF Grows
<1>13. Had(channels', Len(channels) + 1) = Len(opened[1].sent[kind])
  <2>1. Len(opened[1].sent[kind]) + 0 = Len(opened[1].sent[kind])
    BY <1>11
  <2>. QED  BY <1>4, <1>9, <2>1 DEF Had
<1>. QED  BY <1>2, <1>4, <1>8, <1>9, <1>10, <1>11, <1>12, <1>13

LEMMA PluginStarts ==
    ASSUME PluginInv, host = "plugin", host' = host,
           NEW kind \in KindsOfEvent, NEW sink \in Sinks, StartKind(kind, sink)
    PROVE  PluginInv'
<1> DEFINE n == Len(channels) + 1
<1>1. /\ opened \in Seq(Files) /\ channels \in Seq(Receivers) /\ Len(channels) \in Nat
      /\ Len(opened) = 1 /\ opened[1] \in Files
      /\ \A k \in KindsOfEvent :
            plugin[k] \in 0..Len(channels) /\ Len(opened[1].sent[k]) \in Nat
      /\ \A i \in 1..Len(sunk) : sunk[i].kind \in KindsOfEvent
  BY PluginFacts
<1>2. /\ channels' = Append(Released(channels, plugin[kind]), Channel(kind, 1, <<>>))
      /\ opened' = [opened EXCEPT ![1] = Subscribe(@, kind, Len(channels) + 1)]
      /\ plugin' = [plugin EXCEPT ![kind] = n, !.sink = sink]
      /\ UNCHANGED <<device, reader, index_failed, phase, owed, sunk>>
  BY DEF StartKind, KindsOfEvent
<1>3. /\ RawInv' /\ Keeps(channels, channels') /\ Len(channels') = n
      /\ Len(opened') = 1
      /\ \A k \in KindsOfEvent : Len(opened'[1].sent[k]) = Len(opened[1].sent[k])
      /\ \A d \in 1..Len(channels) \ {plugin[kind]} : channels'[d] = channels[d]
      /\ channels'[n].kind = kind /\ channels'[n].held
      /\ Had(channels', n) = Len(opened[1].sent[kind])
  <2>1. plugin[kind] \in 0..Len(channels)
    BY <1>1
  <2>. QED  BY <1>1, <1>2, <2>1, StartSubscribes DEF PluginInv
<1>4. /\ plugin' \in [cd : 0..n, ext : 0..n, sink : Sinks \union {PySink, None}]
      /\ \A k \in KindsOfEvent : plugin'[k] = IF k = kind THEN n ELSE plugin[k]
  <2>1. plugin \in [cd : 0..Len(channels), ext : 0..Len(channels),
                    sink : Sinks \union {PySink, None}]
    BY DEF PluginInv, PluginTypes
  <2>2. n \in 0..n /\ 0..Len(channels) \subseteq 0..n
    BY <1>1
  <2> HIDE DEF n
  <2>. QED  BY <1>2, <2>1, <2>2 DEF KindsOfEvent
<1>5. n \in 1..n /\ n \notin 1..Len(channels)
  BY <1>1
<1> HIDE DEF n
<1>6. PluginTypes'
  BY <1>2, <1>3, <1>4 DEF PluginInv, PluginTypes
<1>7. HostInv'
  <2>1. ASSUME NEW k \in KindsOfEvent, plugin'[k] # 0
        PROVE  channels'[plugin'[k]].kind = k /\ channels'[plugin'[k]].held
    <3>1. CASE k = kind
      BY <1>3, <1>4, <3>1
    <3>2. CASE k # kind
      <4>1. plugin'[k] = plugin[k] /\ plugin[k] \in 1..Len(channels)
        BY <1>1, <1>4, <2>1, <3>2
      <4>2. channels[plugin[k]].kind = k /\ channels[plugin[k]].held
        BY <4>1 DEF PluginInv, HostInv
      <4>3. plugin[k] # plugin[kind]
        BY <3>2, <4>1, <4>2 DEF PluginInv, HostInv
      <4>. QED  BY <1>3, <4>1, <4>2, <4>3
    <3>. QED  BY <3>1, <3>2
  <2>. QED  BY <1>2, <1>3, <2>1 DEF PluginInv, HostInv
<1>8. /\ SinksInOrder(channels, plugin, sunk) /\ SinksHadAll(channels, sunk)
      /\ OwedIsHad(opened[1], channels, plugin, phase, owed)
      /\ owed \in [KindsOfEvent -> Nat]
  BY DEF PluginInv, SinkInv, PluginTypes
<1>9. SinksInOrder(channels', plugin', sunk) /\ SinksHadAll(channels', sunk)
  <2>1. \A k \in KindsOfEvent :
           \/ plugin'[k] = plugin[k]
           \/ \A i \in 1..Len(sunk) : sunk[i].kind = k => sunk[i].no <= Had(channels', plugin'[k])
    BY <1>3, <1>4, SunkWasSent
  <2>. QED  BY <1>1, <1>3, <1>8, <2>1, SinksKept
<1>10. OwedIsHad(opened'[1], channels', plugin', phase, owed)
  <2>1. \A k \in KindsOfEvent : plugin'[k] = plugin[k] \/ owed[k] <= Had(channels', plugin'[k])
    BY <1>3, <1>4, <1>8 DEF OwedIsHad
  <2>2. \A k \in KindsOfEvent : /\ Len(opened'[1].sent[k]) \in Nat
                                /\ Len(opened[1].sent[k]) <= Len(opened'[1].sent[k])
    BY <1>1, <1>3
  <2>. QED  BY <1>1, <1>3, <1>8, <2>1, <2>2, OwedKept
<1>11. SinkInv'
  BY <1>2, <1>9, <1>10 DEF SinkInv
<1>. QED  BY <1>3, <1>6, <1>7, <1>11 DEF PluginInv

(* A receiver hands out a batch: the channels after it.                    *)
LEMMA TakenFields ==
    ASSUME NEW r \in Receivers, r.queue # <<>>
    PROVE  LET ch == [r EXCEPT !.queue = Tail(@), !.taken = @ + 1]
           IN  /\ ch \in Receivers /\ ch.kind = r.kind /\ ch.held = r.held
               /\ ch.queue = Tail(r.queue) /\ ch.missed = r.missed /\ ch.taken = r.taken + 1
               /\ Head(r.queue) \in Seq(Event) /\ r.queue \in Batches
<1> DEFINE q == Tail(r.queue)
           n == r.taken + 1
           ch == [r EXCEPT !.queue = q, !.taken = n]
<1>1. r.queue \in Seq(Seq(Event)) /\ r.missed \in Nat /\ r.taken \in Nat
  BY DEF Receivers, Batches
<1>2. Tail(r.queue) \in Seq(Seq(Event)) /\ Head(r.queue) \in Seq(Event)
  BY <1>1, HeadTailProperties
<1>3. q \in Batches /\ n \in Nat
  BY <1>1, <1>2 DEF Batches
<1> HIDE DEF q, n
<1>4. /\ ch \in Receivers /\ ch.kind = r.kind /\ ch.session = r.session
      /\ ch.held = r.held /\ ch.queue = q /\ ch.missed = r.missed /\ ch.taken = n
  BY <1>3, ChangedReceiver
<1> HIDE DEF ch
<1>. QED  BY <1>1, <1>2, <1>4 DEF ch, q, n, Batches

LEMMA TakenChannels ==
    ASSUME NEW cs \in Seq(Receivers), NEW c \in 1..Len(cs), cs[c].queue # <<>>
    PROVE  LET cs2 == [cs EXCEPT ![c].queue = Tail(@), ![c].taken = @ + 1]
           IN  /\ cs2 \in Seq(Receivers) /\ Len(cs2) = Len(cs)
               /\ \A d \in 1..Len(cs) :
                     /\ cs2[d].kind = cs[d].kind /\ cs2[d].missed = cs[d].missed
                     /\ cs2[d].held = cs[d].held
                     /\ Had(cs2, d) = IF d = c THEN Had(cs, d) + 1 ELSE Had(cs, d)
               /\ cs2[c].queue = Tail(cs[c].queue)
               /\ Head(cs[c].queue) \in Seq(Event)
               /\ cs[c].queue \in Batches
<1> DEFINE ch == [cs[c] EXCEPT !.queue = Tail(@), !.taken = @ + 1]
           cs2 == [cs EXCEPT ![c].queue = Tail(@), ![c].taken = @ + 1]
<1>1. cs[c] \in Receivers
  BY ElementOfSeq
<1>2. /\ ch \in Receivers /\ ch.kind = cs[c].kind /\ ch.held = cs[c].held
      /\ ch.queue = Tail(cs[c].queue) /\ ch.missed = cs[c].missed /\ ch.taken = cs[c].taken + 1
      /\ Head(cs[c].queue) \in Seq(Event) /\ cs[c].queue \in Batches
  BY <1>1, TakenFields
<1>3. cs2 = [cs EXCEPT ![c] = ch]
  BY <1>1 DEF Receivers
<1> HIDE DEF ch, cs2
<1>4. /\ cs2 \in Seq(Receivers) /\ Len(cs2) = Len(cs)
      /\ \A d \in 1..Len(cs) :
            /\ cs2[d].kind = cs[d].kind /\ cs2[d].missed = cs[d].missed
            /\ Had(cs2, d) = IF d = c THEN Had(cs, d) + 1 ELSE Had(cs, d)
  <2> DEFINE cs3 == [cs EXCEPT ![c] = ch]
  <2>1. /\ cs3 \in Seq(Receivers) /\ Len(cs3) = Len(cs)
        /\ \A d \in 1..Len(cs) :
              /\ cs3[d].kind = cs[d].kind /\ cs3[d].missed = cs[d].missed
              /\ Had(cs3, d) = IF d = c THEN Had(cs, d) + 1 ELSE Had(cs, d)
    BY <1>2, Taken
  <2> HIDE DEF cs3
  <2>. QED  BY <1>3, <2>1 DEF cs3
<1>5. \A d \in 1..Len(cs) : cs2[d] = IF d = c THEN ch ELSE cs[d]
  BY <1>2, <1>3, ExceptSeq
<1>6. \A d \in 1..Len(cs) : cs2[d].held = cs[d].held
  BY <1>2, <1>5
<1>. QED  BY <1>2, <1>4, <1>5, <1>6 DEF cs2

LEMMA TakeEffect ==
    ASSUME channels \in Seq(Receivers), NEW c \in 1..Len(channels), Take(c)
    PROVE  /\ channels' \in Seq(Receivers) /\ Len(channels') = Len(channels)
           /\ \A d \in 1..Len(channels) :
                 /\ channels'[d].kind = channels[d].kind /\ channels'[d].missed = channels[d].missed
                 /\ channels'[d].held = channels[d].held
                 /\ Had(channels', d) = IF d = c THEN Had(channels, d) + 1 ELSE Had(channels, d)
           /\ channels'[c].queue = Tail(channels[c].queue)
           /\ Head(channels[c].queue) \in Seq(Event) /\ channels[c].queue # <<>>
           /\ channels[c].queue \in Batches
<1> DEFINE cs2 == [channels EXCEPT ![c].queue = Tail(@), ![c].taken = @ + 1]
<1>1. channels[c].queue # <<>> /\ channels' = cs2
  BY DEF Take
<1>2. /\ cs2 \in Seq(Receivers) /\ Len(cs2) = Len(channels)
      /\ \A d \in 1..Len(channels) :
            /\ cs2[d].kind = channels[d].kind /\ cs2[d].missed = channels[d].missed
            /\ cs2[d].held = channels[d].held
            /\ Had(cs2, d) = IF d = c THEN Had(channels, d) + 1 ELSE Had(channels, d)
      /\ cs2[c].queue = Tail(channels[c].queue)
      /\ Head(channels[c].queue) \in Seq(Event) /\ channels[c].queue \in Batches
  BY <1>1, TakenChannels
<1> HIDE DEF cs2
<1>. QED  BY <1>1, <1>2

LEMMA DrainTakes ==
    ASSUME PluginInv, host # "application", NEW kind \in KindsOfEvent, Drained(kind)
    PROVE  /\ plugin[kind] \in 1..Len(channels) /\ Take(plugin[kind])
           /\ channels[plugin[kind]].kind = kind
           /\ sunk' = Append(sunk, [sink |-> plugin.sink, kind |-> kind, from |-> plugin[kind],
                                    no |-> Had(channels, plugin[kind]) + 1,
                                    batch |-> Head(channels[plugin[kind]].queue)])
<1>1. plugin[kind] # 0
  BY DEF Drained, Pending
<1>2. plugin[kind] \in 0..Len(channels) /\ Len(channels) \in Nat
  BY PluginFacts
<1>3. plugin[kind] \in 1..Len(channels)
  BY <1>1, <1>2
<1>. QED  BY <1>1, <1>3 DEF Drained, PluginInv, HostInv, Had

LEMMA PluginDrains ==
    ASSUME PluginInv, host # "application", host' = host,
           NEW kind \in KindsOfEvent, DrainEvents(kind)
    PROVE  PluginInv' /\ Len(channels') = Len(channels)
<1>1. /\ opened \in Seq(Files) /\ channels \in Seq(Receivers) /\ Len(channels) \in Nat
      /\ Len(opened) = 1 /\ opened[1] \in Files
      /\ \A k \in KindsOfEvent :
            plugin[k] \in 0..Len(channels) /\ Len(opened[1].sent[k]) \in Nat
  BY PluginFacts
<1>2. /\ SinksInOrder(channels, plugin, sunk) /\ SinksHadAll(channels, sunk)
      /\ OwedIsHad(opened[1], channels, plugin, phase, owed)
      /\ owed \in [KindsOfEvent -> Nat] /\ sunk \in Seq(SinkCalls)
      /\ phase \in {"idle", "cd", "ext"}
  BY DEF PluginInv, SinkInv, PluginTypes
<1>3. UNCHANGED <<opened, device, reader, index_failed, plugin, owed>>
  BY DEF DrainEvents
<1>4. CASE Drained(kind) /\ phase' = phase
  <2> DEFINE c == plugin[kind]
             s == [sink |-> plugin.sink, kind |-> kind, from |-> c,
                   no |-> Had(channels, c) + 1, batch |-> Head(channels[c].queue)]
  <2>1. /\ c \in 1..Len(channels) /\ Take(c) /\ channels[c].kind = kind
        /\ sunk' = Append(sunk, s)
    BY <1>4, DrainTakes
  <2>2. /\ channels' \in Seq(Receivers) /\ Len(channels') = Len(channels)
        /\ \A d \in 1..Len(channels) :
              /\ channels'[d].kind = channels[d].kind /\ channels'[d].missed = channels[d].missed
              /\ channels'[d].held = channels[d].held
              /\ Had(channels', d) = IF d = c THEN Had(channels, d) + 1 ELSE Had(channels, d)
        /\ Head(channels[c].queue) \in Seq(Event)
    <3> HIDE DEF c
    <3>. QED  BY <1>1, <2>1, TakeEffect
  <2>3. RawInv'
    <3> HIDE DEF c, s
    <3>. QED  BY <1>3, <2>1, TakeStep DEF PluginInv
  <2>4. s \in SinkCalls
    <3>1. plugin.sink \in Sinks \union {PySink, None}
      BY DEF PluginInv, PluginTypes
    <3>2. c \in Nat /\ Had(channels, c) + 1 \in Nat
      <4>1. Had(channels, c) \in Nat
        <5> HIDE DEF c
        <5>. QED  BY <1>1, <2>1, HadTypes
      <4>. QED  BY <2>1, <4>1
    <3> DEFINE n == Had(channels, c) + 1
               b == Head(channels[c].queue)
    <3>3. n \in Nat /\ b \in Seq(Event)
      BY <2>2, <3>2
    <3> HIDE DEF n, b, c
    <3>4. [sink |-> plugin.sink, kind |-> kind, from |-> c, no |-> n, batch |-> b] \in SinkCalls
      BY <3>1, <3>2, <3>3 DEF SinkCalls
    <3>. QED  BY <3>4 DEF n, b
  <2>5. s.kind = kind /\ s.from = c /\ s.no = Had(channels, c) + 1
    OBVIOUS
  <2>6. plugin[kind] = c
    OBVIOUS
  <2> HIDE DEF s, c
  <2>7. SinksInOrder(channels', plugin, Append(sunk, s)) /\ SinksHadAll(channels', Append(sunk, s))
    <3>1. /\ s.kind \in KindsOfEvent /\ plugin[s.kind] = c /\ s.kind = channels[c].kind
          /\ \A k \in KindsOfEvent : plugin[k] \in 0..Len(channels)
      BY <1>1, <2>1, <2>5, <2>6
    <3>2. \A d \in 1..Len(channels) :
             /\ channels'[d].kind = channels[d].kind /\ channels'[d].missed = channels[d].missed
             /\ Had(channels', d) = IF d = c THEN Had(channels, d) + 1 ELSE Had(channels, d)
      BY <2>2
    <3>. QED  BY <1>1, <1>2, <2>1, <2>2, <2>4, <2>5, <3>1, <3>2, SinksTake
  <2>8. sunk' \in Seq(SinkCalls)
    BY <1>2, <2>1, <2>4, AppendProperties
  <2>9. PluginTypes'
    BY <1>3, <1>4, <2>2, <2>8 DEF PluginInv, PluginTypes
  <2>10. HostInv'
    <3>1. ASSUME NEW k \in KindsOfEvent, plugin[k] # 0
          PROVE  channels'[plugin[k]].kind = k /\ channels'[plugin[k]].held
      <4>1. plugin[k] \in 1..Len(channels)
        BY <1>1, <3>1
      <4>2. channels[plugin[k]].kind = k /\ channels[plugin[k]].held
        BY <3>1 DEF PluginInv, HostInv
      <4>. QED  BY <2>2, <4>1, <4>2
    <3>. QED  BY <1>3, <3>1 DEF PluginInv, HostInv
  <2>11. OwedIsHad(opened[1], channels', plugin, phase, owed)
    <3>1. ASSUME NEW k \in KindsOfEvent, plugin[k] # 0, owed[k] <= Had(channels, plugin[k])
          PROVE  owed[k] <= Had(channels', plugin[k])
      <4>1. plugin[k] \in 1..Len(channels)
        BY <1>1, <3>1
      <4>2. Had(channels, plugin[k]) \in Nat /\ owed[k] \in Nat
        BY <1>1, <1>2, <4>1, HadTypes
      <4>3. Had(channels', plugin[k]) \in {Had(channels, plugin[k]), Had(channels, plugin[k]) + 1}
        BY <2>2, <4>1
      <4>. QED  BY <3>1, <4>2, <4>3
    <3>. QED  BY <1>2, <3>1 DEF OwedIsHad
  <2>12. SinkInv'
    BY <1>3, <1>4, <2>1, <2>7, <2>11 DEF SinkInv
  <2>. QED  BY <2>2, <2>3, <2>9, <2>10, <2>12 DEF PluginInv
<1>5. CASE /\ phase = kind /\ Pending(kind) = <<>> /\ phase' = NextPhase(kind)
           /\ UNCHANGED <<channels, sunk>>
  <2>1. RawInv'
    BY <1>3, <1>5 DEF PluginInv, RawInv, RawTypeOK, Wired, ReaderIsOfOneFile, Current
  <2>2. PluginTypes' /\ HostInv'
    BY <1>3, <1>5 DEF PluginInv, PluginTypes, HostInv, NextPhase
  <2>3. ASSUME plugin[kind] # 0
        PROVE  owed[kind] <= Had(channels, plugin[kind])
    <3> DEFINE c == plugin[kind]
    <3>1. c \in 1..Len(channels) /\ channels[c].queue = <<>>
      BY <1>1, <1>5, <2>3 DEF Pending
    <3>2. channels[c].kind = kind /\ channels[c].held
      BY <2>3 DEF PluginInv, HostInv
    <3> HIDE DEF c
    <3>3. Wired(opened, channels)
      BY DEF PluginInv, RawInv
    <3>4. /\ channels[c].session = 1
          /\ MissesNothing(channels[c], opened[1].sent[kind])
      <4>1. channels[c].session \in 1..1
        BY <1>1, <3>1, <3>3 DEF Wired
      <4>2. channels[c].session = 1
        BY <4>1
      <4>. QED  BY <3>1, <3>2, <3>3, <4>2 DEF Wired
    <3> DEFINE sent == opened[1].sent[kind]
    <3>5. sent \in Seq(Seq(Event)) /\ Len(sent) \in Nat
      BY <1>1, FileFields DEF Batches
    <3>6. /\ Had(channels, c) <= Len(sent) /\ Had(channels, c) \in Nat
          /\ SubSeq(sent, Had(channels, c) + 1, Len(sent)) = <<>>
      BY <1>1, <3>1, <3>2, <3>4, HadTypes DEF MissesNothing, Had
    <3> DEFINE m == Had(channels, c)
    <3>7. owed[kind] <= Len(sent) /\ owed[kind] \in Nat
      BY <1>2 DEF OwedIsHad
    <3>8. m \in Nat /\ m <= Len(sent) /\ SubSeq(sent, m + 1, Len(sent)) = <<>>
      BY <3>6
    <3> HIDE DEF m, sent
    <3>9. m >= Len(sent)
      <4>1. SUFFICES ASSUME m < Len(sent) PROVE FALSE
        BY <3>5, <3>8
      <4>2. \A i \in m + 1..Len(sent) : sent[i] \in Seq(Event)
        <5>1. \A i \in m + 1..Len(sent) : i \in 1..Len(sent)
          BY <3>5, <3>8
        <5>. QED  BY <3>5, <5>1, ElementOfSeq
      <4>3. Len(SubSeq(sent, m + 1, Len(sent))) = IF m + 1 <= Len(sent) THEN Len(sent) - (m + 1) + 1 ELSE 0
        BY <3>5, <3>8, <4>2, SubSeqProperties
      <4>4. Len(SubSeq(sent, m + 1, Len(sent))) = 0
        BY <3>8
      <4>. QED  BY <3>5, <3>8, <4>1, <4>3, <4>4
    <3>10. owed[kind] <= m
      BY <3>5, <3>7, <3>8, <3>9
    <3>. QED  BY <3>10 DEF m, c
  <2>4. OwedIsHad(opened[1], channels, plugin, phase', owed)
    <3>1. \A k \in KindsOfEvent :
             plugin[k] # 0 /\ (phase' = "idle" \/ (phase' = "ext" /\ k = "cd")) =>
                k = kind \/ (phase = "ext" /\ k = "cd")
      BY <1>5 DEF NextPhase, KindsOfEvent
    <3>. QED  BY <1>2, <2>3, <3>1 DEF OwedIsHad
  <2>5. SinkInv'
    BY <1>2, <1>3, <1>5, <2>4 DEF SinkInv
  <2>. QED  BY <1>5, <2>1, <2>2, <2>5 DEF PluginInv
<1>. QED  BY <1>4, <1>5 DEF DrainEvents

-----------------------------------------------------------------------------
(* Python.  What its reader and iterators hold.                            *)
Iteration == [internal_buffer : Seq(Event), current_timestamp : Nat \union {None}]
PyTypes ==
    /\ queue \in Batches
    /\ iter \in [Iterators -> Iteration]
    /\ call \in Calls \union {None}
    /\ returned \in [Consumers -> Seq(Event)]
    /\ lost \subseteq Event
    /\ windows \in Seq(Windows)
    /\ hung \in BOOLEAN

LEMMA TypesTogether ==
    TypeOK <=> RawTypeOK /\ host \in Hosts /\ PluginTypes /\ PyTypes /\ calls \in 0..MaxCalls
BY DEF TypeOK, PluginTypes, PyTypes, Iteration

LEMMA TypesTogetherNext ==
    TypeOK' <=> /\ RawTypeOK' /\ host' \in Hosts /\ PluginTypes' /\ PyTypes'
                /\ calls' \in 0..MaxCalls
BY DEF TypeOK, PluginTypes, PyTypes, Iteration

LEMMA CallFields ==
    ASSUME PyTypes, call # None
    PROVE  /\ call \in Calls /\ call.iter \in Iterators /\ call.events \in Seq(Event)
           /\ call.n \in Counts \union {None} /\ call.dt \in Deltas \union {None}
           /\ call.end \in Nat \union {None}
           /\ iter[call.iter] \in Iteration
           /\ Buffer \in Seq(Event) /\ Now \in Nat \union {None}
<1>1. call \in Calls
  BY DEF PyTypes
<1>2. /\ call.iter \in Iterators /\ call.events \in Seq(Event)
      /\ call.n \in Counts \union {None} /\ call.dt \in Deltas \union {None}
      /\ call.end \in Nat \union {None}
  BY <1>1 DEF Calls
<1>3. iter[call.iter] \in Iteration
  BY <1>2 DEF PyTypes
<1>. QED  BY <1>1, <1>2, <1>3 DEF Iteration, Buffer, Now

LEMMA HeadOfBuffer ==
    ASSUME NEW b \in Seq(Event), b # <<>>
    PROVE  Head(b) \in Event /\ Head(b).t \in Nat /\ Tail(b) \in Seq(Event)
<1>1. Head(b) \in Event /\ Tail(b) \in Seq(Event)
  BY HeadTailProperties
<1>. QED  BY <1>1 DEF Event

(* The windows of an iterator.  An iterator that has a window has a time.  *)
LEMMA WindowsKept ==
    ASSUME PyTypes, WindowInv, NEW i \in Iterators, NEW r \in Iteration,
           iter' = [iter EXCEPT ![i] = r], windows' = windows,
           \/ iter[i].current_timestamp = None
           \/ r.current_timestamp = iter[i].current_timestamp
    PROVE  \A k \in 1..Len(windows') :
              (\A m \in k + 1..Len(windows') : windows'[m].iter # windows'[k].iter) =>
                  iter'[windows'[k].iter].current_timestamp = windows'[k].end
<1>1. SUFFICES ASSUME NEW k \in 1..Len(windows),
                      \A m \in k + 1..Len(windows) : windows[m].iter # windows[k].iter
               PROVE  iter'[windows[k].iter].current_timestamp = windows[k].end
  OBVIOUS
<1>2. iter[windows[k].iter].current_timestamp = windows[k].end
  BY <1>1 DEF WindowInv
<1>3. windows[k] \in Windows
  BY ElementOfSeq DEF PyTypes
<1>4. windows[k].iter \in Iterators /\ windows[k].end \in Nat
  BY <1>3 DEF Windows
<1>5. iter \in [Iterators -> Iteration] /\ None \notin Nat
  BY ContentAssumption DEF PyTypes
<1>6. CASE windows[k].iter = i
  <2>1. iter[i].current_timestamp # None
    BY <1>2, <1>4, <1>5, <1>6
  <2>2. iter'[i] = r
    BY <1>5
  <2>. QED  BY <1>2, <1>6, <2>1, <2>2
<1>7. CASE windows[k].iter # i
  <2>1. iter'[windows[k].iter] = iter[windows[k].iter]
    BY <1>4, <1>5, <1>7
  <2>. QED  BY <1>2, <2>1
<1>. QED  BY <1>6, <1>7

(* What an iterator's step leaves of windows and types.                    *)
PyInv == PyTypes /\ WindowInv /\ WindowsAbut

LEMMA PyKept ==
    ASSUME PyInv, UNCHANGED <<iter, call, windows>>, PyTypes'
    PROVE  PyInv'
BY DEF PyInv, WindowInv, WindowsAbut, Now

LEMMA CallStep ==
    ASSUME PyInv, NEW i \in Iterators, PyCall(i)
    PROVE  PyInv'
<1>1. /\ call = None /\ UNCHANGED <<queue, iter, returned, lost, hung, windows>>
      /\ call' \in {[iter |-> i, n |-> n, dt |-> None, end |-> None, events |-> <<>>] : n \in Counts}
         \union {[iter |-> i, n |-> None, dt |-> dt, end |-> None, events |-> <<>>] : dt \in Deltas}
  BY DEF PyCall, Between
<1>2. /\ call' \in Calls /\ call'.iter = i /\ call'.end = None /\ call'.events = <<>>
      /\ call'.n = None <=> call'.dt # None
  <2>1. <<>> \in Seq(Event) /\ None \notin Nat /\ Counts \subseteq Nat /\ Deltas \subseteq Nat
    BY EmptySeq, ContentAssumption, HostsAssumption
  <2>2. ASSUME NEW n \in Counts,
               call' = [iter |-> i, n |-> n, dt |-> None, end |-> None, events |-> <<>>]
        PROVE  /\ call' \in Calls /\ call'.iter = i /\ call'.end = None /\ call'.events = <<>>
               /\ call'.n = None <=> call'.dt # None
    BY <2>1, <2>2 DEF Calls
  <2>3. ASSUME NEW dt \in Deltas,
               call' = [iter |-> i, n |-> None, dt |-> dt, end |-> None, events |-> <<>>]
        PROVE  /\ call' \in Calls /\ call'.iter = i /\ call'.end = None /\ call'.events = <<>>
               /\ call'.n = None <=> call'.dt # None
    BY <2>1, <2>3 DEF Calls
  <2>. QED  BY <1>1, <2>2, <2>3
<1>3. PyTypes'
  BY <1>1, <1>2 DEF PyInv, PyTypes
<1>4. WindowInv'
  BY <1>1, <1>2 DEF PyInv, WindowInv
<1>5. WindowsAbut'
  BY <1>1 DEF PyInv, WindowsAbut
<1>. QED  BY <1>3, <1>4, <1>5 DEF PyInv

LEMMA IteratorChanged ==
    ASSUME PyTypes, NEW i \in Iterators, NEW r \in Iteration, iter' = [iter EXCEPT ![i] = r]
    PROVE  /\ iter' \in [Iterators -> Iteration] /\ iter'[i] = r
           /\ \A j \in Iterators \ {i} : iter'[j] = iter[j]
BY DEF PyTypes

LEMMA ReplenishStep ==
    ASSUME PyInv, call # None, Replenish
    PROVE  /\ PyInv'
           /\ queue # <<>> /\ queue' = Tail(queue) /\ Head(queue) \in Seq(Event)
           /\ iter' = [iter EXCEPT ![call.iter] =
                          [internal_buffer |-> Head(queue), current_timestamp |-> Now]]
<1> DEFINE i == call.iter
           r == [internal_buffer |-> Head(queue), current_timestamp |-> Now]
<1>1. /\ call \in Calls /\ i \in Iterators /\ iter[i] \in Iteration
      /\ Now \in Nat \union {None}
  BY CallFields DEF PyInv
<1>2. /\ Buffer = <<>> /\ queue # <<>> /\ queue' = Tail(queue)
      /\ UNCHANGED <<call, returned, lost, hung, windows>>
  BY DEF Replenish
<1>3. Head(queue) \in Seq(Event) /\ Tail(queue) \in Batches
  <2>1. queue \in Seq(Seq(Event))
    BY DEF PyInv, PyTypes, Batches
  <2>. QED  BY <1>2, <2>1, HeadTailProperties DEF Batches
<1>4. r \in Iteration /\ iter' = [iter EXCEPT ![i] = r]
  <2>1. iter[i].internal_buffer = <<>>
    BY <1>2 DEF Buffer
  <2>2. <<>> \o Head(queue) = Head(queue)
    BY <1>3, ConcatEmptySeq
  <2>3. [iter[i] EXCEPT !.internal_buffer = @ \o Head(queue)] = r
    BY <1>1, <2>1, <2>2 DEF Iteration, Now
  <2>4. iter' = [iter EXCEPT ![i] = [iter[i] EXCEPT !.internal_buffer = @ \o Head(queue)]]
    BY <1>1 DEF Replenish, PyInv, PyTypes, Iteration
  <2>5. r \in Iteration
    BY <1>1, <1>3 DEF Iteration
  <2> HIDE DEF r, i
  <2>. QED  BY <2>3, <2>4, <2>5
<1>5. r.current_timestamp = iter[i].current_timestamp
  BY DEF Now
<1> HIDE DEF r
<1>6. iter' \in [Iterators -> Iteration] /\ iter'[i] = r
  BY <1>1, <1>4, IteratorChanged DEF PyInv
<1>7. PyTypes'
  BY <1>2, <1>3, <1>6 DEF PyInv, PyTypes
<1>8. WindowInv'
  <2>1. iter'[call.iter].current_timestamp = iter[call.iter].current_timestamp
    BY <1>5, <1>6
  <2>2. \A k \in 1..Len(windows') :
           (\A m \in k + 1..Len(windows') : windows'[m].iter # windows'[k].iter) =>
               iter'[windows'[k].iter].current_timestamp = windows'[k].end
    BY <1>1, <1>2, <1>4, <1>5, WindowsKept DEF PyInv
  <2>. QED  BY <1>2, <2>1, <2>2 DEF PyInv, WindowInv, Now
<1>9. WindowsAbut'
  BY <1>2 DEF PyInv, WindowsAbut
<1>. QED  BY <1>2, <1>3, <1>4, <1>7, <1>8, <1>9 DEF PyInv, r

(* An event goes from the buffer to the call.                              *)
LEMMA PopStep ==
    ASSUME PyInv, call # None, Buffer # <<>>, NEW now \in Nat \union {None}, Pop(now),
           Now = None \/ now = Now,
           call.end # None => now = Now /\ Head(Buffer).t < call.end,
           call.dt # None => call.end # None
    PROVE  /\ PyInv'
           /\ call' = [call EXCEPT !.events = Append(call.events, Head(Buffer))]
           /\ iter' = [iter EXCEPT ![call.iter] =
                          [internal_buffer |-> Tail(Buffer), current_timestamp |-> now]]
           /\ Head(Buffer) \in Event
<1> DEFINE i == call.iter
           e == Head(Buffer)
           r == [internal_buffer |-> Tail(Buffer), current_timestamp |-> now]
           es == Append(call.events, e)
<1>1. /\ call \in Calls /\ i \in Iterators /\ iter[i] \in Iteration
      /\ call.events \in Seq(Event) /\ Buffer \in Seq(Event)
      /\ call.n \in Counts \union {None} /\ call.dt \in Deltas \union {None}
      /\ call.end \in Nat \union {None}
  BY CallFields DEF PyInv
<1>2. /\ call' = [call EXCEPT !.events = es]
      /\ iter' = [iter EXCEPT ![i] = r]
      /\ UNCHANGED <<queue, returned, lost, hung, windows>>
  BY <1>1 DEF Pop, Buffer, Calls
<1>3. e \in Event /\ e.t \in Nat /\ Tail(Buffer) \in Seq(Event)
  BY <1>1, HeadOfBuffer
<1>4. es \in Seq(Event) /\ Range(es) = Range(call.events) \union {e}
  BY <1>1, <1>3, AppendProperties, AppendRange
<1>5. r \in Iteration /\ r.current_timestamp = now
  BY <1>3 DEF Iteration
<1> HIDE DEF e, es, r
<1>6. /\ call' \in Calls /\ call'.iter = call.iter /\ call'.events = es
      /\ call'.n = call.n /\ call'.dt = call.dt /\ call'.end = call.end
  BY <1>1, <1>2, <1>4 DEF Calls
<1>7. iter' \in [Iterators -> Iteration] /\ iter'[i] = r
  BY <1>1, <1>2, <1>5, IteratorChanged DEF PyInv
<1>8. PyTypes'
  BY <1>2, <1>6, <1>7 DEF PyInv, PyTypes
<1>9. Now = iter[i].current_timestamp
  BY DEF Now
<1>10. WindowInv'
  <2>1. \A k \in 1..Len(windows') :
           (\A m \in k + 1..Len(windows') : windows'[m].iter # windows'[k].iter) =>
               iter'[windows'[k].iter].current_timestamp = windows'[k].end
    BY <1>1, <1>2, <1>5, <1>9, WindowsKept DEF PyInv
  <2>2. iter'[call'.iter].current_timestamp = now
    BY <1>5, <1>6, <1>7
  <2>3. /\ call.n = None <=> call.dt # None
        /\ call.end # None =>
              /\ call.dt # None /\ Now \in Nat /\ call.end = Now + call.dt
              /\ \A f \in Range(call.events) : f.t < call.end
    BY DEF PyInv, WindowInv
  <2>4. call.end # None => \A f \in Range(es) : f.t < call.end
    BY <1>4, <2>3 DEF e
  <2>5. ASSUME call'.end # None
        PROVE  /\ call'.dt # None /\ iter'[call'.iter].current_timestamp \in Nat
               /\ call'.end = iter'[call'.iter].current_timestamp + call'.dt
               /\ \A f \in Range(call'.events) : f.t < call'.end
    BY <1>6, <2>2, <2>3, <2>4, <2>5
  <2>. QED  BY <1>6, <2>1, <2>3, <2>5 DEF WindowInv, Now
<1>11. WindowsAbut'
  BY <1>2 DEF PyInv, WindowsAbut
<1>. QED  BY <1>2, <1>3, <1>8, <1>10, <1>11 DEF PyInv, r, es, e

LEMMA StartStep ==
    ASSUME PyInv, call # None, StartOfDelta
    PROVE  /\ PyInv'
           /\ call'.iter = call.iter /\ call'.events = call.events /\ call' \in Calls
           /\ iter'[call.iter].internal_buffer = Buffer
           /\ \A j \in Iterators \ {call.iter} : iter'[j] = iter[j]
           /\ UNCHANGED <<queue, returned, lost>>
<1> DEFINE i == call.iter
           start_ts == IF Now = None THEN Head(Buffer).t ELSE Now
           r == [internal_buffer |-> Buffer, current_timestamp |-> start_ts]
<1>1. /\ call \in Calls /\ i \in Iterators /\ iter[i] \in Iteration
      /\ call.events \in Seq(Event) /\ Buffer \in Seq(Event) /\ Now \in Nat \union {None}
      /\ call.dt \in Deltas \union {None}
  BY CallFields DEF PyInv
<1>2. /\ call.dt # None /\ call.end = None /\ Buffer # <<>>
      /\ iter' = [iter EXCEPT ![i].current_timestamp = start_ts]
      /\ call' = [call EXCEPT !.end = start_ts + call.dt]
      /\ UNCHANGED <<queue, returned, lost, hung, windows>>
  BY DEF StartOfDelta
<1>3. start_ts \in Nat
  BY <1>1, <1>2, HeadOfBuffer
<1>4. r \in Iteration /\ r.current_timestamp = start_ts /\ r.internal_buffer = Buffer
  BY <1>1, <1>3 DEF Iteration
<1>5. iter' = [iter EXCEPT ![i] = r]
  <2>1. [iter[i] EXCEPT !.current_timestamp = start_ts] = r
    <3> HIDE DEF start_ts
    <3>. QED  BY <1>1 DEF Iteration, Buffer
  <2>2. iter' = [iter EXCEPT ![i] = [iter[i] EXCEPT !.current_timestamp = start_ts]]
    BY <1>1, <1>2 DEF PyInv, PyTypes, Iteration
  <2> HIDE DEF r, start_ts
  <2>. QED  BY <2>1, <2>2
<1>6. Now = None \/ start_ts = Now
  OBVIOUS
<1>7. call.dt \in Nat
  BY <1>1, <1>2, HostsAssumption
<1> HIDE DEF r, start_ts
<1>8. start_ts + call.dt \in Nat
  BY <1>3, <1>7
<1>9. /\ call' \in Calls /\ call'.iter = call.iter /\ call'.events = call.events
      /\ call'.n = call.n /\ call'.dt = call.dt /\ call'.end = start_ts + call.dt
  <2> DEFINE end == start_ts + call.dt
  <2>1. end \in Nat /\ call' = [call EXCEPT !.end = end]
    BY <1>2, <1>8
  <2> HIDE DEF end
  <2>2. /\ call' \in Calls /\ call'.iter = call.iter /\ call'.events = call.events
        /\ call'.n = call.n /\ call'.dt = call.dt /\ call'.end = end
    BY <1>1, <2>1 DEF Calls
  <2>. QED  BY <2>2 DEF end
<1>10. /\ iter' \in [Iterators -> Iteration] /\ iter'[i] = r
       /\ \A j \in Iterators \ {i} : iter'[j] = iter[j]
  BY <1>1, <1>4, <1>5, IteratorChanged DEF PyInv
<1>11. PyTypes'
  BY <1>2, <1>9, <1>10 DEF PyInv, PyTypes
<1>12. WindowInv'
  <2>1. \A k \in 1..Len(windows') :
           (\A m \in k + 1..Len(windows') : windows'[m].iter # windows'[k].iter) =>
               iter'[windows'[k].iter].current_timestamp = windows'[k].end
    BY <1>1, <1>2, <1>4, <1>5, <1>6, WindowsKept DEF PyInv, Now
  <2>2. iter'[call'.iter].current_timestamp = start_ts
    BY <1>4, <1>9, <1>10
  <2>3. call.events = <<>> /\ (call.n = None <=> call.dt # None)
    BY <1>2 DEF PyInv, WindowInv
  <2>4. Range(call'.events) = {}
    BY <1>9, <2>3 DEF Range
  <2>5. call'.end # None
    BY <1>8, <1>9, ContentAssumption
  <2>6. /\ call'.dt # None /\ iter'[call'.iter].current_timestamp \in Nat
        /\ call'.end = iter'[call'.iter].current_timestamp + call'.dt
        /\ \A f \in Range(call'.events) : f.t < call'.end
    BY <1>2, <1>3, <1>9, <2>2, <2>4
  <2>. QED  BY <1>9, <2>1, <2>3, <2>5, <2>6 DEF WindowInv, Now
<1>13. WindowsAbut'
  BY <1>2 DEF PyInv, WindowsAbut
<1>. QED  BY <1>2, <1>4, <1>9, <1>10, <1>11, <1>12, <1>13 DEF PyInv

(* A call returns or raises.                                               *)
LEMMA ReturnedTypes ==
    ASSUME PyTypes, call # None
    PROVE  /\ Returned \in [Consumers -> Seq(Event)]
           /\ Returned[call.iter] = returned[call.iter] \o call.events
           /\ \A c \in Consumers \ {call.iter} : Returned[c] = returned[c]
<1> DEFINE es == returned[call.iter] \o call.events
<1>1. call.iter \in Consumers /\ call.events \in Seq(Event) /\ returned \in [Consumers -> Seq(Event)]
  BY CallFields DEF Consumers, PyTypes
<1>2. es \in Seq(Event)
  BY <1>1, ConcatProperties
<1>3. Returned = [returned EXCEPT ![call.iter] = es]
  BY DEF Returned
<1> HIDE DEF es
<1>4. /\ Returned \in [Consumers -> Seq(Event)] /\ Returned[call.iter] = es
      /\ \A c \in Consumers \ {call.iter} : Returned[c] = returned[c]
  BY <1>1, <1>2, <1>3
<1>. QED  BY <1>4 DEF es

LEMMA ReturnUpToStep ==
    ASSUME PyInv, call # None, ReturnUpTo
    PROVE  PyInv'
<1>1. /\ returned' = Returned /\ call' = None
      /\ UNCHANGED <<queue, iter, lost, hung, windows>>
  BY DEF ReturnUpTo
<1>2. PyTypes'
  BY <1>1, ReturnedTypes DEF PyInv, PyTypes
<1>. QED  BY <1>1, <1>2 DEF PyInv, WindowInv, WindowsAbut

LEMMA RaiseStep ==
    ASSUME PyInv, call # None, lost' = lost \union Range(call.events), call' = None,
           UNCHANGED <<queue, iter, returned, hung, windows>>
    PROVE  PyInv'
<1>1. Range(call.events) \subseteq Event
  <2>1. call.events \in Seq(Event)
    BY CallFields DEF PyInv
  <2>. QED  BY <2>1 DEF Range
<1>2. PyTypes'
  BY <1>1 DEF PyInv, PyTypes
<1>. QED  BY <1>2 DEF PyInv, WindowInv, WindowsAbut

LEMMA ReturnDeltaStep ==
    ASSUME PyInv, call # None, ReturnDelta
    PROVE  /\ PyInv'
           /\ returned' = Returned /\ call' = None /\ UNCHANGED <<queue, lost>>
           /\ iter'[call.iter].internal_buffer = Buffer
           /\ \A j \in Iterators \ {call.iter} : iter'[j] = iter[j]
<1> DEFINE i == call.iter
           end == call.end
           r == [internal_buffer |-> Buffer, current_timestamp |-> end]
           w == [iter |-> i, dt |-> call.dt, events |-> call.events, next |-> Head(Buffer).t,
                 now |-> Now, end |-> end]
<1>1. /\ call \in Calls /\ i \in Iterators /\ iter[i] \in Iteration
      /\ call.events \in Seq(Event) /\ Buffer \in Seq(Event)
      /\ call.dt \in Deltas \union {None} /\ end \in Nat \union {None}
  BY CallFields DEF PyInv
<1>2. /\ call.dt # None /\ end # None /\ Buffer # <<>> /\ ~(Head(Buffer).t < end)
      /\ returned' = Returned
      /\ iter' = [iter EXCEPT ![i].current_timestamp = end]
      /\ windows' = Append(windows, w)
      /\ call' = None
      /\ UNCHANGED <<queue, lost, hung>>
  BY DEF ReturnDelta, Baseline
<1>3. /\ Now \in Nat /\ end = Now + call.dt /\ end \in Nat /\ call.dt \in Nat /\ call.dt \in Deltas
      /\ \A e \in Range(call.events) : e.t < end
  BY <1>1, <1>2, HostsAssumption DEF PyInv, WindowInv
<1>4. Head(Buffer).t \in Nat
  BY <1>1, <1>2, HeadOfBuffer
<1>5. w \in Windows
  BY <1>1, <1>3, <1>4 DEF Windows
<1>6. /\ w.iter = i /\ w.dt = call.dt /\ w.events = call.events /\ w.next = Head(Buffer).t
      /\ w.now = Now /\ w.end = end
  OBVIOUS
<1>7. r \in Iteration /\ r.current_timestamp = end /\ r.internal_buffer = Buffer
  BY <1>1, <1>3 DEF Iteration
<1>8. iter' = [iter EXCEPT ![i] = r]
  <2>1. [iter[i] EXCEPT !.current_timestamp = end] = r
    <3> HIDE DEF end
    <3>. QED  BY <1>1 DEF Iteration, Buffer
  <2>2. iter' = [iter EXCEPT ![i] = [iter[i] EXCEPT !.current_timestamp = end]]
    BY <1>1, <1>2 DEF PyInv, PyTypes, Iteration
  <2> HIDE DEF r, end
  <2>. QED  BY <2>1, <2>2
<1>9. w.next >= w.end
  BY <1>2, <1>3, <1>4, <1>6
<1> HIDE DEF r, w
<1>10. /\ iter' \in [Iterators -> Iteration] /\ iter'[i] = r
       /\ \A j \in Iterators \ {i} : iter'[j] = iter[j]
  BY <1>1, <1>7, <1>8, IteratorChanged DEF PyInv
<1>11. /\ windows \in Seq(Windows) /\ Len(windows) \in Nat /\ DOMAIN windows = 1..Len(windows)
  BY LenProperties DEF PyInv, PyTypes
<1>12. /\ windows' \in Seq(Windows) /\ Len(windows') = Len(windows) + 1
       /\ DOMAIN windows' = 1..Len(windows) + 1
       /\ windows'[Len(windows) + 1] = w
       /\ \A k \in 1..Len(windows) : windows'[k] = windows[k]
  BY <1>2, <1>5, <1>11, AppendProperties, LenProperties
<1>13. PyTypes'
  BY <1>2, <1>10, <1>12, ReturnedTypes DEF PyInv, PyTypes
<1>14. WindowInv'
  <2>1. ASSUME NEW k \in 1..Len(windows'),
               \A m \in k + 1..Len(windows') : windows'[m].iter # windows'[k].iter
        PROVE  iter'[windows'[k].iter].current_timestamp = windows'[k].end
    <3>1. CASE k = Len(windows) + 1
      BY <1>6, <1>7, <1>10, <1>12, <3>1
    <3>2. CASE k \in 1..Len(windows)
      <4>1. windows'[k] = windows[k]
        BY <1>12, <3>2
      <4>2. Len(windows) + 1 \in k + 1..Len(windows')
        BY <1>11, <1>12, <3>2
      <4>3. windows[k].iter # i
        BY <1>6, <1>12, <2>1, <4>1, <4>2
      <4>4. \A m \in k + 1..Len(windows) : windows[m].iter # windows[k].iter
        <5>1. \A m \in k + 1..Len(windows) : m \in k + 1..Len(windows') /\ m \in 1..Len(windows)
          BY <1>11, <1>12, <3>2
        <5>. QED  BY <1>12, <2>1, <4>1, <5>1
      <4>5. iter[windows[k].iter].current_timestamp = windows[k].end
        BY <3>2, <4>4 DEF PyInv, WindowInv
      <4>6. windows[k].iter \in Iterators
        <5>1. windows[k] \in Windows
          BY <1>11, <3>2, ElementOfSeq
        <5>. QED  BY <5>1 DEF Windows
      <4>. QED  BY <1>10, <4>1, <4>3, <4>5, <4>6
    <3>. QED  BY <1>11, <1>12, <3>1, <3>2
  <2>. QED  BY <1>2, <2>1 DEF WindowInv
<1>15. WindowsAbut'
  <2>1. ASSUME NEW k \in 1..Len(windows) + 1
        PROVE  LET v == windows'[k]
               IN  /\ v.end = v.now + v.dt
                   /\ \A e \in Range(v.events) : e.t < v.end
                   /\ v.next >= v.end
                   /\ \A j \in 1..(k - 1) :
                         windows'[j].iter = v.iter
                         /\ (\A m \in (j + 1)..(k - 1) : windows'[m].iter # v.iter)
                         => v.now = windows'[j].end
    <3>1. CASE k \in 1..Len(windows)
      <4>1. windows'[k] = windows[k] /\ \A j \in 1..(k - 1) : windows'[j] = windows[j]
        BY <1>11, <1>12, <3>1
      <4>2. \A j \in 1..(k - 1) : \A m \in (j + 1)..(k - 1) : windows'[m] = windows[m]
        BY <1>11, <1>12, <3>1
      <4>3. LET v == windows[k]
            IN  /\ v.end = v.now + v.dt
                /\ \A e \in Range(v.events) : e.t < v.end
                /\ v.next >= v.end
                /\ \A j \in 1..(k - 1) :
                      windows[j].iter = v.iter
                      /\ (\A m \in (j + 1)..(k - 1) : windows[m].iter # v.iter)
                      => v.now = windows[j].end
        BY <1>11, <3>1 DEF PyInv, WindowsAbut
      <4>. QED  BY <4>1, <4>2, <4>3
    <3>2. CASE k = Len(windows) + 1
      <4>1. windows'[k] = w
        BY <1>12, <3>2
      <4>2. ASSUME NEW j \in 1..(k - 1), windows'[j].iter = i,
                   \A m \in (j + 1)..(k - 1) : windows'[m].iter # i
            PROVE  Now = windows'[j].end
        <5>1. j \in 1..Len(windows) /\ k - 1 = Len(windows)
          BY <1>11, <3>2
        <5>2. windows'[j] = windows[j]
              /\ \A m \in j + 1..Len(windows) : m \in 1..Len(windows) /\ windows'[m] = windows[m]
          BY <1>11, <1>12, <5>1
        <5>3. \A m \in j + 1..Len(windows) : windows[m].iter # windows[j].iter
          BY <4>2, <5>1, <5>2
        <5>4. iter[windows[j].iter].current_timestamp = windows[j].end
          BY <5>1, <5>3 DEF PyInv, WindowInv
        <5>. QED  BY <4>2, <5>2, <5>4 DEF Now
      <4>. QED  BY <1>3, <1>6, <1>9, <4>1, <4>2
    <3>. QED  BY <1>11, <3>1, <3>2
  <2>. QED  BY <1>12, <2>1 DEF WindowsAbut
<1>. QED  BY <1>2, <1>7, <1>10, <1>13, <1>14, <1>15 DEF PyInv

-----------------------------------------------------------------------------
(* The order of the events that Python is given.  A read takes the next    *)
(* events of those that were not read.                                     *)
LEMMA UnreadAfterRead ==
    ASSUME NEW o \in Files, NEW o2, CanRead(o), o2.path = o.path, o2.pos = o.pos + 1
    PROVE  LET r == Reads(o.path)[o.pos + 1].cd
           IN  /\ Unread(o) = Events(r) \union Unread(o2)
               /\ Before(Events(r), Unread(o2)) /\ InOrder(r)
<1> DEFINE p == o.path
           n == o.pos + 1
           N == Len(Reads(p))
<1>1. p \in Paths /\ o.pos \in Nat /\ N \in Nat /\ n \in 1..N
  BY FileFields, ReadFile
<1>2. Unread(o) = UNION {Events(Reads(p)[i].cd) : i \in n..N}
  BY DEF Unread
<1>3. Unread(o2) = UNION {Events(Reads(p)[i].cd) : i \in n + 1..N}
  BY DEF Unread
<1> HIDE DEF p, n, N
<1>4. n..N = {n} \union (n + 1..N)
  BY <1>1
<1>5. Unread(o) = Events(Reads(p)[n].cd) \union Unread(o2)
  BY <1>2, <1>3, <1>4
<1>6. \A i \in n + 1..N : i \in 1..Len(Reads(p)) /\ n \in 1..(i - 1)
  BY <1>1 DEF N
<1>7. \A i \in n + 1..N : Before(Events(Reads(p)[n].cd), Events(Reads(p)[i].cd))
  BY <1>1, <1>6, NumberingAssumption
<1>8. Before(Events(Reads(p)[n].cd), Unread(o2))
  BY <1>3, <1>7 DEF Before
<1>9. InOrder(Reads(p)[n].cd)
  BY <1>1, NumberingAssumption DEF N
<1>. QED  BY <1>5, <1>8, <1>9 DEF p, n

LEMMA OrderRead ==
    ASSUME NEW g, NEW coming \in Batches, NEW r \in Batches, NEW unread,
           GivenInOrder(g, coming, Events(r) \union unread),
           InOrder(r), Before(Events(r), unread)
    PROVE  GivenInOrder(g, coming \o r, unread)
<1>1. Events(coming \o r) = Events(coming) \union Events(r)
  BY EventsSplit
<1>2. InOrder(coming) /\ Before(Events(coming), Events(r) \union unread)
  BY DEF GivenInOrder
<1>3. Before(Events(coming), Events(r)) /\ Before(Events(coming), unread)
  BY <1>2 DEF Before
<1>4. InOrder(coming \o r)
  BY <1>2, <1>3, InOrderConcat
<1>5. Before(Events(coming \o r), unread)
  BY <1>1, <1>3 DEF Before
<1>6. Events(coming) \union (Events(r) \union unread) = Events(coming \o r) \union unread
  BY <1>1
<1>. QED  BY <1>4, <1>5, <1>6 DEF GivenInOrder

LEMMA OrderGive ==
    ASSUME NEW g \in [Consumers -> Seq(Event)], NEW coming \in Batches, coming # <<>>, NEW unread,
           GivenInOrder(g, coming, unread), NEW c \in Consumers,
           NEW g2 \in [Consumers -> Seq(Event)], g2[c] = g[c] \o Head(coming),
           \A d \in Consumers \ {c} : g2[d] = g[d]
    PROVE  GivenInOrder(g2, Tail(coming), unread)
<1> DEFINE h == Head(coming)
           t == Tail(coming)
<1>1. coming \in Seq(Seq(Event))
  BY DEF Batches
<1>2. h \in Seq(Event) /\ t \in Batches
  BY <1>1, HeadTailProperties DEF Batches
<1>3. Events(coming) = Range(h) \union Events(t)
  BY EventsSplit
<1>4. InOrder(coming) /\ Before(Events(coming), unread)
  BY DEF GivenInOrder
<1>5. InOrder(t) /\ Ascending(h) /\ Before(Range(h), Events(t))
  BY <1>4, InOrderTail
<1> HIDE DEF h, t
<1>6. Before(Events(t), unread) /\ Before(Range(h), unread)
  BY <1>3, <1>4 DEF Before
<1>7. ASSUME NEW d \in Consumers
      PROVE  /\ Ascending(g[d]) /\ g[d] \in Seq(Event)
             /\ Before(Range(g[d]), Range(h)) /\ Before(Range(g[d]), Events(t) \union unread)
  BY <1>3 DEF GivenInOrder, Before
<1>8. g2[c] = g[c] \o h
  BY DEF h
<1>9. Range(g2[c]) = Range(g[c]) \union Range(h)
  <2>1. Range(g[c] \o h) = Range(g[c]) \union Range(h)
    BY <1>2, <1>7, ConcatRange
  <2>. QED  BY <1>8, <2>1
<1>10. Ascending(g2[c])
  <2>1. Ascending(g[c] \o h)
    BY <1>2, <1>5, <1>7, AscendingConcat
  <2>. QED  BY <1>8, <2>1
<1>11. Before(Range(g2[c]), Events(t) \union unread)
  BY <1>5, <1>6, <1>7, <1>9 DEF Before
<1>12. ASSUME NEW d \in Consumers \ {c}
       PROVE  Range(g2[c]) \intersect Range(g2[d]) = {}
  <2>1. Range(g[c]) \intersect Range(g[d]) = {}
    BY DEF GivenInOrder
  <2>2. Range(h) \intersect Range(g[d]) = {}
    <3>1. SUFFICES ASSUME NEW e \in Range(h), e \in Range(g[d]) PROVE FALSE
      OBVIOUS
    <3>2. e.n < e.n
      BY <1>7, <3>1 DEF Before
    <3>3. e.n \in Nat
      <4>1. e \in Event
        BY <1>2 DEF Range
      <4>. QED  BY <4>1 DEF Event
    <3>. QED  BY <3>2, <3>3
  <2>. QED  BY <1>9, <2>1, <2>2
<1>13. ASSUME NEW d \in Consumers, NEW b \in Consumers \ {d}
       PROVE  Range(g2[d]) \intersect Range(g2[b]) = {}
  <2>1. CASE d = c
    BY <1>12, <2>1
  <2>2. CASE b = c
    BY <1>12, <2>2
  <2>3. CASE d # c /\ b # c
    BY <2>3 DEF GivenInOrder
  <2>. QED  BY <2>1, <2>2, <2>3
<1>14. ASSUME NEW d \in Consumers
       PROVE  Ascending(g2[d]) /\ Before(Range(g2[d]), Events(t) \union unread)
  BY <1>7, <1>10, <1>11
<1>15. GivenInOrder(g2, t, unread)
  BY <1>5, <1>6, <1>13, <1>14 DEF GivenInOrder
<1>. QED  BY <1>15 DEF t

(* A consumer that loses the events it had not returned.                   *)
LEMMA OrderDrop ==
    ASSUME NEW g \in [Consumers -> Seq(Event)], NEW coming, NEW unread,
           GivenInOrder(g, coming, unread), NEW c \in Consumers,
           NEW g2 \in [Consumers -> Seq(Event)], NEW es \in Seq(Event), g[c] = g2[c] \o es,
           \A d \in Consumers \ {c} : g2[d] = g[d]
    PROVE  GivenInOrder(g2, coming, unread)
<1>1. g2[c] \in Seq(Event) /\ Range(g[c]) = Range(g2[c]) \union Range(es)
  BY ConcatRange
<1>2. Ascending(g2[c])
  <2>1. Ascending(g2[c] \o es)
    BY DEF GivenInOrder
  <2>. QED  BY <1>1, <2>1, AscendingPrefix
<1>3. \A d \in Consumers : Range(g2[d]) \subseteq Range(g[d])
  BY <1>1
<1>4. ASSUME NEW d \in Consumers
      PROVE  /\ Ascending(g2[d])
             /\ Before(Range(g2[d]), Events(coming) \union unread)
             /\ \A b \in Consumers \ {d} : Range(g2[d]) \intersect Range(g2[b]) = {}
  <2>1. Ascending(g2[d])
    BY <1>2 DEF GivenInOrder
  <2>2. Before(Range(g2[d]), Events(coming) \union unread)
    BY <1>3 DEF GivenInOrder, Before
  <2>3. ASSUME NEW b \in Consumers \ {d}
        PROVE  Range(g2[d]) \intersect Range(g2[b]) = {}
    <3>1. Range(g[d]) \intersect Range(g[b]) = {}
      BY DEF GivenInOrder
    <3>. QED  BY <1>3, <3>1
  <2>. QED  BY <2>1, <2>2, <2>3
<1>. QED  BY <1>4 DEF GivenInOrder

(* What a load does to the file and to the queue of the CD receiver: a     *)
(* read goes on by one, to the end of the queue, or nothing is read.       *)
ReadOn(o, q, o2, q2) ==
    /\ o2 \in Files /\ o2.path = o.path /\ (o.eof => o2.eof)
    /\ \/ o2.pos = o.pos /\ q2 = q
       \/ CanRead(o) /\ o2.pos = o.pos + 1 /\ q2 = q \o Reads(o.path)[o.pos + 1].cd

LEMMA ReadsToOne ==
    ASSUME NEW os, NEW cs, Wired(os, cs), NEW s \in 1..Len(os), CanRead(os[s]),
           NEW c \in 1..Len(cs), cs[c].kind = "cd", cs[c].held, cs[c].session = s
    PROVE  LET os2 == [os EXCEPT ![s] = AfterRead(@)]
               cs2 == Dispatched(cs, os[s])
           IN  ReadOn(os[s], cs[c].queue, os2[s], cs2[c].queue)
<1> DEFINE o == AfterRead(os[s])
           r == Reads(os[s].path)[os[s].pos + 1]
           cs2 == Dispatched(cs, os[s])
<1>1. os[s] \in Files /\ os \in Seq(Files)
  BY ElementOfSeq DEF Wired
<1>2. o \in Files /\ o.path = os[s].path /\ o.pos = os[s].pos + 1 /\ o.eof = os[s].eof
  BY <1>1, ReadFile
<1>3. \A d \in 1..Len(cs) : cs2[d].queue = IF cs[d].session = s /\ cs[d].held
                                          THEN cs[d].queue \o r[cs[d].kind] ELSE cs[d].queue
  BY DispatchEffect
<1> HIDE DEF o, cs2, r
<1>4. cs2[c].queue = cs[c].queue \o r.cd
  BY <1>3
<1>5. [os EXCEPT ![s] = o][s] = o
  BY <1>1, <1>2, ChangedFile
<1>6. ReadOn(os[s], cs[c].queue, o, cs2[c].queue)
  BY <1>2, <1>4 DEF ReadOn, r
<1>. QED  BY <1>5, <1>6 DEF o, cs2

LEMMA PollsToOne ==
    ASSUME NEW os, NEW cs, Wired(os, cs), NEW s \in 1..Len(os), NEW q
    PROVE  LET os2 == [os EXCEPT ![s] = AfterPoll(@)]
           IN  /\ ReadOn(os[s], q, os2[s], q)
               /\ os[s].started /\ ~CanRead(os[s]) => os2[s].eof
<1> DEFINE o == AfterPoll(os[s])
<1>1. os[s] \in Files /\ os \in Seq(Files) /\ os[s].pos <= Len(Reads(os[s].path))
  BY ElementOfSeq DEF Wired
<1>2. o \in Files /\ o.path = os[s].path /\ o.pos = os[s].pos
  BY <1>1, PolledFile
<1>3. /\ os[s].eof => o.eof
      /\ os[s].started /\ os[s].pos = Len(Reads(os[s].path)) => o.eof
  BY <1>1, PolledEnd
<1>4. os[s].started /\ ~CanRead(os[s]) => os[s].eof \/ os[s].pos = Len(Reads(os[s].path))
  <2>1. os[s].pos \in Nat /\ Len(Reads(os[s].path)) \in Nat
    BY <1>1, FileFields
  <2>. QED  BY <1>1, <2>1 DEF CanRead
<1> HIDE DEF o
<1>5. [os EXCEPT ![s] = o][s] = o
  BY <1>1, <1>2, ChangedFile
<1>6. ReadOn(os[s], q, o, q)
  BY <1>2, <1>3 DEF ReadOn
<1>. QED  BY <1>3, <1>4, <1>5, <1>6 DEF o

(* The loads of a plugin whose stream is started and has no index.         *)
LEMMA PyReads ==
    ASSUME RawInv, LoadOk \/ LoadError \/ SeekToNextExt,
           NEW s, s = reader.session, reader.index = None, opened[s].started,
           NEW c \in 1..Len(channels), channels[c].kind = "cd", channels[c].held,
           channels[c].session = s
    PROVE  /\ ReadOn(opened[s], channels[c].queue, opened'[s], channels'[c].queue)
           /\ LoadError => opened'[s].eof
<1>1. /\ s \in 1..Len(opened) /\ Wired(opened, channels) /\ opened \in Seq(Files)
      /\ channels \in Seq(Receivers) /\ opened[s] \in Files
  <2>1. reader.initialized
    BY DEF LoadOk, LoadError, SeekToNextExt
  <2>. QED  BY <2>1, CurrentFile DEF RawInv, Wired
<1>2. CASE LoadOk
  <2>1. /\ CanRead(opened[s])
        /\ channels' = Dispatched(channels, opened[s])
        /\ opened' = [opened EXCEPT ![s] = AfterRead(@)]
    BY <1>2 DEF LoadOk, Current
  <2>2. ~LoadError
    BY <1>2 DEF LoadOk, LoadError
  <2>3. ReadOn(opened[s], channels[c].queue, opened'[s], channels'[c].queue)
    BY <1>1, <2>1, ReadsToOne
  <2>. QED  BY <2>2, <2>3
<1>3. CASE LoadError
  <2>1. /\ ~CanRead(opened[s]) /\ channels' = channels
        /\ opened' = [opened EXCEPT ![s] = AfterPoll(@)]
    BY <1>3 DEF LoadError, Current
  <2>. QED  BY <1>1, <2>1, PollsToOne
<1>4. CASE SeekToNextExt /\ ~LoadError
  <2> DEFINE os1 == [opened EXCEPT ![s] = Subscribe(@, "ext", Len(channels) + 1)]
             cs1 == Append(channels, [Channel("ext", s, <<>>) EXCEPT !.held = FALSE])
  <2>0. /\ os1 = [opened EXCEPT ![s] = Subscribe(@, "ext", Len(channels) + 1)]
        /\ cs1 = Append(channels, [Channel("ext", s, <<>>) EXCEPT !.held = FALSE])
    OBVIOUS
  <2> HIDE DEF os1, cs1
  <2>1. /\ Len(os1) = Len(opened)
        /\ os1[s] = Subscribe(opened[s], "ext", Len(channels) + 1)
        /\ Wired(os1, cs1)
        /\ \/ opened' = [os1 EXCEPT ![s] = AfterPoll(@)] /\ channels' = cs1
           \/ /\ CanRead(os1[s])
              /\ channels' = Dispatched(cs1, os1[s])
              /\ \/ opened' = [os1 EXCEPT ![s] = AfterRead(@)]
                 \/ reader.index # None
    BY <1>4, <2>0, ExtSteps, ZenonT(90)
  <2>2. Len(channels) + 1 \in Nat /\ "ext" \in KindsOfEvent
    BY <1>1, LenProperties DEF KindsOfEvent
  <2>3. /\ os1[s].path = opened[s].path /\ os1[s].pos = opened[s].pos
        /\ os1[s].eof = opened[s].eof /\ os1[s].started = TRUE
    <3> DEFINE o == Subscribe(opened[s], "ext", Len(channels) + 1)
    <3>1. /\ o.path = opened[s].path /\ o.pos = opened[s].pos
          /\ o.eof = opened[s].eof /\ o.started = TRUE
      BY <1>1, <2>2, SubscribeFields, ZenonT(90)
    <3> HIDE DEF o
    <3>2. os1[s] = o
      BY <2>1 DEF o
    <3>. QED  BY <3>1, <3>2
  <2>4. c \in 1..Len(cs1) /\ cs1[c] = channels[c]
    <3>1. [Channel("ext", s, <<>>) EXCEPT !.held = FALSE] \in Receivers
      BY <1>1, <2>2, NewChannel
    <3> DEFINE ch == [Channel("ext", s, <<>>) EXCEPT !.held = FALSE]
    <3> HIDE DEF ch
    <3>2. Len(channels) \in Nat /\ ch \in Receivers
      BY <1>1, <3>1, LenProperties DEF ch
    <3>3. c \in 1..Len(Append(channels, ch)) /\ Append(channels, ch)[c] = channels[c]
      BY <1>1, <3>2, AppendProperties
    <3>. QED  BY <3>3 DEF ch, cs1
  <2>5. CASE opened' = [os1 EXCEPT ![s] = AfterPoll(@)] /\ channels' = cs1
    <3>1. ReadOn(os1[s], channels[c].queue, opened'[s], channels[c].queue)
      BY <1>1, <2>1, <2>5, PollsToOne
    <3>2. CanRead(os1[s]) => CanRead(opened[s])
      BY <2>3 DEF CanRead
    <3>3. ReadOn(opened[s], channels[c].queue, opened'[s], channels[c].queue)
      BY <2>3, <3>1, <3>2 DEF ReadOn
    <3>. QED  BY <1>4, <2>4, <2>5, <3>3
  <2>6. CASE /\ CanRead(os1[s]) /\ channels' = Dispatched(cs1, os1[s])
             /\ opened' = [os1 EXCEPT ![s] = AfterRead(@)]
    <3>1. ReadOn(os1[s], cs1[c].queue, opened'[s], channels'[c].queue)
      BY <1>1, <2>1, <2>4, <2>6, ReadsToOne, SMTT(60)
    <3>2. CanRead(os1[s]) => CanRead(opened[s])
      BY <2>3 DEF CanRead
    <3>3. ReadOn(opened[s], channels[c].queue, opened'[s], channels'[c].queue)
      BY <2>3, <2>4, <3>1, <3>2 DEF ReadOn
    <3>. QED  BY <1>4, <3>3
  <2>. QED  BY <2>1, <2>5, <2>6
<1>. QED  BY <1>2, <1>3, <1>4

(* The one file and the one receiver of the Python reader.                 *)
LEMMA PyFacts ==
    ASSUME PluginInv, host = "python"
    PROVE  /\ Len(opened) = 1 /\ opened[1] \in Files /\ opened[1].started
           /\ reader.initialized /\ reader.session = 1 /\ reader.index = None
           /\ plugin["cd"] = 1 /\ plugin["ext"] = 0
           /\ channels \in Seq(Receivers) /\ 1 \in 1..Len(channels)
           /\ channels[1].kind = "cd" /\ channels[1].held /\ channels[1].session = 1
           /\ channels[1].queue \in Batches
<1>1. /\ Len(opened) = 1 /\ opened[1] \in Files /\ channels \in Seq(Receivers)
      /\ Len(channels) \in Nat
      /\ \A kind \in KindsOfEvent : plugin[kind] \in 0..Len(channels)
  BY PluginFacts
<1>2. /\ reader.initialized /\ reader.session = 1 /\ reader.index = None
      /\ plugin["cd"] = 1 /\ plugin["ext"] = 0 /\ opened[1].started
      /\ "cd" \in KindsOfEvent
      /\ \A kind \in KindsOfEvent : plugin[kind] # 0 =>
            channels[plugin[kind]].kind = kind /\ channels[plugin[kind]].held
  BY DEF PluginInv, HostInv, KindsOfEvent
<1>3. channels[1].kind = "cd" /\ channels[1].held
  <2>1. plugin["cd"] # 0
    BY <1>2
  <2>. QED  BY <1>2, <2>1
<1>4. 1 \in 1..Len(channels)
  <2>1. 1 \in 0..Len(channels)
    BY <1>1, <1>2
  <2>. QED  BY <1>1, <2>1
<1>5. channels[1].session = 1
  <2>1. channels[1].session \in 1..Len(opened)
    BY <1>4 DEF PluginInv, RawInv, Wired
  <2>2. channels[1].session \in 1..1
    BY <1>1, <2>1
  <2>. QED  BY <2>2
<1>6. channels[1].queue \in Batches
  <2>1. channels[1] \in Receivers
    BY <1>1, <1>4, ElementOfSeq
  <2>. QED  BY <2>1 DEF Receivers
<1>. QED  BY <1>1, <1>2, <1>3, <1>4, <1>5, <1>6

LEMMA GivenTypesOf ==
    ASSUME NEW rs \in [Consumers -> Seq(Event)], NEW cl \in Calls \union {None},
           NEW it \in [Iterators -> Iteration], NEW c \in Consumers
    PROVE  rs[c] \o (IF cl # None /\ cl.iter = c THEN cl.events ELSE <<>>)
                 \o (IF c \in Iterators THEN it[c].internal_buffer ELSE <<>>) \in Seq(Event)
<1> DEFINE a == IF cl # None /\ cl.iter = c THEN cl.events ELSE <<>>
           b == IF c \in Iterators THEN it[c].internal_buffer ELSE <<>>
<1>1. <<>> \in Seq(Event)
  BY EmptySeq
<1>2. a \in Seq(Event)
  BY <1>1 DEF Calls
<1>3. b \in Seq(Event)
  BY <1>1 DEF Iteration
<1>4. rs[c] \in Seq(Event)
  OBVIOUS
<1> HIDE DEF a, b
<1>5. rs[c] \o a \in Seq(Event)
  BY <1>2, <1>4, ConcatProperties
<1>6. rs[c] \o a \o b \in Seq(Event)
  BY <1>3, <1>5, ConcatProperties
<1>. QED  BY <1>6 DEF a, b

LEMMA GivenTypes ==
    ASSUME PyTypes
    PROVE  Given \in [Consumers -> Seq(Event)]
BY GivenTypesOf DEF PyTypes, Given

LEMMA GivenTypesNext ==
    ASSUME PyTypes'
    PROVE  Given' \in [Consumers -> Seq(Event)]
BY GivenTypesOf DEF PyTypes, Given

(* A load brings what is next of the file to the end of what comes.        *)
LEMMA LoadsInOrder ==
    ASSUME PluginInv, PyTypes, OrderInv, host = "python", queue' = queue,
           LoadOk \/ LoadError \/ SeekToNextExt
    PROVE  /\ GivenInOrder(Given, Coming', Unread(opened'[1]))
           /\ (opened[1].eof \/ LoadError) => opened'[1].eof
<1> DEFINE q == channels[1].queue
           q2 == channels'[1].queue
           o == opened[1]
           o2 == opened'[1]
<1>1. ReadOn(o, q, o2, q2) /\ (LoadError => o2.eof)
  BY PyFacts, PyReads DEF PluginInv
<1>2. o \in Files /\ q \in Batches /\ queue \in Batches
  BY PyFacts DEF PyTypes
<1>3. GivenInOrder(Given, queue \o q, Unread(o))
  BY DEF OrderInv, Coming
<1>4. Coming' = queue \o q2
  BY DEF Coming
<1> HIDE DEF q, q2, o, o2
<1>5. o2 \in Files /\ o2.path = o.path /\ (o.eof => o2.eof)
  BY <1>1 DEF ReadOn
<1>6. CASE o2.pos = o.pos /\ q2 = q
  <2>1. Unread(o2) = Unread(o)
    BY <1>5, <1>6 DEF Unread
  <2>2. GivenInOrder(Given, queue \o q2, Unread(o2))
    BY <1>3, <1>6, <2>1
  <2>. QED  BY <1>1, <1>4, <1>5, <2>2 DEF o, o2
<1>7. CASE CanRead(o) /\ o2.pos = o.pos + 1 /\ q2 = q \o Reads(o.path)[o.pos + 1].cd
  <2> DEFINE r == Reads(o.path)[o.pos + 1].cd
  <2>1. r \in Batches
    BY <1>2, <1>7, ReadFile DEF KindsOfEvent
  <2>2. /\ Unread(o) = Events(r) \union Unread(o2)
        /\ Before(Events(r), Unread(o2)) /\ InOrder(r)
    BY <1>2, <1>5, <1>7, UnreadAfterRead
  <2>3. q2 = q \o r
    BY <1>7
  <2> HIDE DEF r
  <2>4. queue \o q \in Batches /\ (queue \o q) \o r = queue \o q2
    <3>1. queue \o q \in Batches /\ (queue \o q) \o r = queue \o (q \o r)
      BY <1>2, <2>1, BatchesRegroup
    <3>. QED  BY <2>3, <3>1
  <2> DEFINE g == Given
             u == Unread(o2)
             coming == queue \o q
  <2>5. coming \in Batches /\ GivenInOrder(g, coming, Events(r) \union u) /\ Before(Events(r), u)
    BY <1>3, <2>2, <2>4
  <2> HIDE DEF g, u, coming
  <2>6. GivenInOrder(g, coming \o r, u)
    BY <2>1, <2>2, <2>5, OrderRead
  <2>7. GivenInOrder(Given, queue \o q2, Unread(o2))
    BY <2>4, <2>6 DEF g, u, coming
  <2>. QED  BY <1>1, <1>4, <1>5, <2>7 DEF o, o2
<1>. QED  BY <1>1, <1>6, <1>7 DEF ReadOn

(* Steps that give no consumer anything, and one that gives a batch.       *)
LEMMA OrderKept ==
    ASSUME OrderInv, host = "python", host' = host, Given' = Given,
           GivenInOrder(Given, Coming', Unread(opened'[1])),
           opened[1].eof => opened'[1].eof,
           Events(queue') = Events(queue), sunk' = sunk, lost' = lost
    PROVE  OrderInv'
<1>1. SunkEvents' = SunkEvents
  BY DEF SunkEvents
<1> DEFINE g == UNION {Range(Given[c]) : c \in Consumers}
<1>2. g' = g
  OBVIOUS
<1>3. SunkEvents = Events(queue) \union g \union lost /\ (lost # {} => opened[1].eof)
  BY DEF OrderInv
<1>4. (Events(queue))' = Events(queue')
  BY DEF Events
<1> HIDE DEF g
<1>5. SunkEvents' = Events(queue') \union g' \union lost'
  BY <1>1, <1>2, <1>3
<1>6. lost' # {} => opened'[1].eof
  BY <1>3
<1>7. GivenInOrder(Given', Coming', Unread(opened'[1]))
  OBVIOUS
<1>. QED  BY <1>5, <1>6, <1>7 DEF OrderInv, g

LEMMA OrderGiven ==
    ASSUME PluginInv, PyTypes, OrderInv, host = "python", queue # <<>>, queue' = Tail(queue),
           UNCHANGED <<host, opened, channels, sunk, lost>>,
           NEW c \in Consumers, Given' \in [Consumers -> Seq(Event)],
           Given'[c] = Given[c] \o Head(queue),
           \A d \in Consumers \ {c} : Given'[d] = Given[d]
    PROVE  OrderInv'
<1> DEFINE g == Given
           g2 == Given'
           q == channels[1].queue
           coming == queue \o q
           u == Unread(opened[1])
<1>1. queue \in Batches /\ q \in Batches
  BY PyFacts DEF PyTypes
<1>2. g \in [Consumers -> Seq(Event)] /\ g2 \in [Consumers -> Seq(Event)]
  BY GivenTypes
<1>3. /\ GivenInOrder(g, coming, u)
      /\ SunkEvents = Events(queue) \union (UNION {Range(g[d]) : d \in Consumers}) \union lost
      /\ lost # {} => opened[1].eof
  BY DEF OrderInv, Coming
<1>4. g2[c] = g[c] \o Head(queue) /\ \A d \in Consumers \ {c} : g2[d] = g[d]
  OBVIOUS
<1>5. Coming' = Tail(queue) \o q
  BY DEF Coming
<1> HIDE DEF g, g2, q, u
<1>6. /\ coming \in Batches /\ coming # <<>>
      /\ Head(coming) = Head(queue) /\ Tail(coming) = Tail(queue) \o q
      /\ Head(queue) \in Seq(Event)
  BY <1>1, BatchesRegroup, BatchMoves
<1> HIDE DEF coming
<1>7. g2[c] = g[c] \o Head(coming)
  BY <1>4, <1>6
<1>8. GivenInOrder(g2, Tail(coming), u)
  BY <1>2, <1>3, <1>4, <1>6, <1>7, OrderGive
<1>9. GivenInOrder(g2, Coming', u)
  BY <1>5, <1>6, <1>8
<1>10. (UNION {Range(g2[d]) : d \in Consumers})
          = (UNION {Range(g[d]) : d \in Consumers}) \union Range(Head(queue))
  <2>1. Range(g2[c]) = Range(g[c]) \union Range(Head(queue))
    <3>1. g[c] \in Seq(Event)
      BY <1>2
    <3>2. Range(g[c] \o Head(queue)) = Range(g[c]) \union Range(Head(queue))
      BY <1>6, <3>1, ConcatRange
    <3>. QED  BY <1>4, <3>2
  <2>. QED  BY <1>4, <2>1
<1>11. Events(queue) = Range(Head(queue)) \union Events(queue')
  BY <1>1, EventsSplit
<1>12. SunkEvents = Events(queue') \union (UNION {Range(g2[d]) : d \in Consumers}) \union lost
  BY <1>3, <1>10, <1>11
<1>13. SunkEvents' = SunkEvents
  BY DEF SunkEvents
<1>14. GivenInOrder(Given', Coming', Unread(opened'[1]))
  BY <1>9 DEF g2, u
<1>15. SunkEvents' = Events(queue') \union (UNION {Range(Given'[d]) : d \in Consumers}) \union lost'
  BY <1>12, <1>13 DEF g2
<1>16. lost' # {} => opened'[1].eof
  BY <1>3
<1>. QED  BY <1>14, <1>15, <1>16 DEF OrderInv, Events

LEMMA GivenKept ==
    ASSUME UNCHANGED <<iter, call, returned>>
    PROVE  Given' = Given
BY DEF Given

(* A batch goes from the receiver through the sink to the reader's channel. *)
LEMMA DrainInOrder ==
    ASSUME PluginInv, PyTypes, OrderInv, host = "python", host' = host, PyDrain
    PROVE  OrderInv' /\ PyTypes'
<1>1. PICK kind \in KindsOfEvent :
         /\ DrainEvents(kind)
         /\ queue' = IF sunk' # sunk /\ kind = "cd" THEN Append(queue, Last(sunk').batch) ELSE queue
  BY DEF PyDrain
<1>2. /\ UNCHANGED <<iter, call, returned, lost, hung, windows>> /\ opened' = opened
      /\ Given' = Given
  BY <1>1, GivenKept DEF PyDrain, DrainEvents
<1>3. /\ plugin["cd"] = 1 /\ plugin["ext"] = 0
      /\ channels \in Seq(Receivers) /\ 1 \in 1..Len(channels)
      /\ channels[1].queue \in Batches /\ queue \in Batches /\ sunk \in Seq(SinkCalls)
  BY PyFacts DEF PyTypes, PluginInv, PluginTypes
<1>4. CASE Drained(kind)
  <2> DEFINE q == channels[1].queue
             s == [sink |-> plugin.sink, kind |-> kind, from |-> plugin[kind],
                   no |-> Had(channels, plugin[kind]) + 1,
                   batch |-> Head(channels[plugin[kind]].queue)]
  <2>1. plugin[kind] \in 1..Len(channels) /\ Take(plugin[kind]) /\ sunk' = Append(sunk, s)
    BY <1>4, DrainTakes
  <2>2. kind = "cd" /\ plugin[kind] = 1
    <3>1. plugin[kind] # 0
      BY <1>4 DEF Drained, Pending
    <3>. QED  BY <1>3, <3>1 DEF KindsOfEvent
  <2>3. s.kind = "cd" /\ s.batch = Head(q)
    BY <2>2
  <2>4. /\ channels'[1].queue = Tail(q) /\ q # <<>> /\ q \in Batches
        /\ Head(q) \in Seq(Event)
    <3>1. Take(1)
      BY <2>1, <2>2
    <3>. QED  BY <1>3, <3>1, TakeEffect
  <2>5. /\ sunk' # sunk /\ Last(sunk') = s /\ Range(sunk') = Range(sunk) \union {s}
    <3> DEFINE X == SinkCalls \union {s}
    <3>1. sunk \in Seq(X) /\ s \in X
      BY <1>3
    <3> HIDE DEF s, X
    <3>2. /\ sunk' \in Seq(X) /\ Len(sunk') = Len(sunk) + 1 /\ sunk'[Len(sunk) + 1] = s
          /\ Range(sunk') = Range(sunk) \union {s} /\ Len(sunk) \in Nat
      BY <2>1, <3>1, AppendProperties, AppendRange, LenProperties
    <3>3. sunk' # sunk
      BY <3>2
    <3>4. Last(sunk') = s
      BY <3>2 DEF Last
    <3>. QED  BY <3>2, <3>3, <3>4
  <2> HIDE DEF s, q
  <2>6. queue' = Append(queue, Head(q))
    BY <1>1, <2>2, <2>3, <2>5
  <2>7. queue' \in Batches /\ queue' \o Tail(q) = queue \o q
    BY <1>3, <2>4, <2>6, BatchMoves, ZenonT(90)
  <2>8. Coming' = Coming
    BY <2>4, <2>7 DEF Coming, q
  <2>9. Events(queue') = Events(queue) \union Range(Head(q))
    <3>1. Range(Append(queue, Head(q))) = Range(queue) \union {Head(q)}
      BY <1>3, <2>4, AppendRange DEF Batches
    <3>. QED  BY <2>6, <3>1 DEF Events
  <2>10. SunkEvents' = SunkEvents \union Range(Head(q))
    <3>1. SunkEvents' = UNION {Range(r.batch) : r \in {r \in Range(sunk') : r.kind = "cd"}}
      BY DEF SunkEvents
    <3>2. {r \in Range(sunk') : r.kind = "cd"} = {r \in Range(sunk) : r.kind = "cd"} \union {s}
      BY <2>3, <2>5
    <3>. QED  BY <2>3, <3>1, <3>2 DEF SunkEvents
  <2>11. /\ GivenInOrder(Given, Coming, Unread(opened[1]))
         /\ SunkEvents = Events(queue) \union (UNION {Range(Given[c]) : c \in Consumers}) \union lost
         /\ lost # {} => opened[1].eof
    BY DEF OrderInv
  <2>12. GivenInOrder(Given', Coming', Unread(opened'[1]))
    BY <1>2, <2>8, <2>11
  <2>13. SunkEvents' = Events(queue') \union (UNION {Range(Given'[c]) : c \in Consumers}) \union lost'
    <3> DEFINE g == UNION {Range(Given[c]) : c \in Consumers}
    <3>1. g = UNION {Range(Given'[c]) : c \in Consumers}
      BY <1>2
    <3>2. SunkEvents = Events(queue) \union g \union lost
      BY <2>11
    <3> HIDE DEF g
    <3>3. SunkEvents' = Events(queue') \union g \union lost'
      BY <1>2, <2>9, <2>10, <3>2
    <3>. QED  BY <3>1, <3>3
  <2>14. lost' # {} => opened'[1].eof
    BY <1>2, <2>11
  <2>15. OrderInv'
    BY <2>12, <2>13, <2>14 DEF OrderInv, Events
  <2>. QED  BY <1>2, <2>7, <2>15 DEF PyTypes
<1>5. CASE UNCHANGED <<channels, sunk>>
  <2>1. queue' = queue
    BY <1>1, <1>5
  <2>2. GivenInOrder(Given, Coming', Unread(opened'[1]))
    BY <1>2, <1>5, <2>1 DEF OrderInv, Coming
  <2>3. OrderInv'
    BY <1>2, <1>5, <2>1, <2>2, OrderKept
  <2>. QED  BY <1>2, <2>1, <2>3 DEF PyTypes
<1>. QED  BY <1>1, <1>4, <1>5 DEF DrainEvents

(* A load, and a batch taken by a receiver, between the calls.             *)
LEMMA LoadKeepsOrder ==
    ASSUME PluginInv, PyTypes, OrderInv, host = "python", host' = host,
           LoadOk \/ LoadError \/ SeekToNextExt,
           UNCHANGED <<queue, iter, call, returned, lost, sunk>>
    PROVE  OrderInv'
<1>1. Given' = Given
  BY GivenKept
<1>2. GivenInOrder(Given, Coming', Unread(opened'[1])) /\ (opened[1].eof => opened'[1].eof)
  BY LoadsInOrder
<1>. QED  BY <1>1, <1>2, OrderKept

LEMMA TakeInOrder ==
    ASSUME PluginInv, PyTypes, OrderInv, host = "python", call = None, TakeBatch,
           UNCHANGED <<host, opened, channels, sunk, iter, call, lost, windows>>
    PROVE  OrderInv' /\ PyTypes'
<1> DEFINE c == "CDEventReceiver"
           b == Head(queue)
           es == returned[c] \o b
<1>1. /\ queue # <<>> /\ queue' = Tail(queue) /\ hung' = hung
      /\ returned' = [returned EXCEPT ![c] = es]
  BY DEF TakeBatch
<1>2. c \in Consumers /\ c \notin Iterators
  BY HostsAssumption DEF Consumers
<1>3. b \in Seq(Event) /\ Tail(queue) \in Batches /\ returned[c] \in Seq(Event)
  BY <1>1, <1>2, BatchMoves DEF PyTypes
<1> HIDE DEF b, c
<1>4. es \in Seq(Event)
  BY <1>3, ConcatProperties
<1>5. /\ returned' \in [Consumers -> Seq(Event)] /\ returned'[c] = es
      /\ \A d \in Consumers \ {c} : returned'[d] = returned[d]
  <2> HIDE DEF es
  <2>. QED  BY <1>1, <1>2, <1>4 DEF PyTypes
<1>6. PyTypes'
  BY <1>1, <1>3, <1>5 DEF PyTypes
<1>7. Given' \in [Consumers -> Seq(Event)]
  BY <1>6, GivenTypesNext
<1>8. Given'[c] = Given[c] \o b
  <2>1. Given[c] = returned[c] \o <<>> \o <<>>
    BY <1>2 DEF Given
  <2>2. Given'[c] = es \o <<>> \o <<>>
    BY <1>2, <1>5 DEF Given
  <2>3. \A s \in Seq(Event) : s \o <<>> = s
    BY ConcatEmptySeq
  <2>4. es \o <<>> = es /\ returned[c] \o <<>> = returned[c]
    <3> HIDE DEF es
    <3>. QED  BY <1>3, <1>4, <2>3
  <2>. QED  BY <2>1, <2>2, <2>4
<1>9. \A d \in Consumers \ {c} : Given'[d] = Given[d]
  BY <1>5 DEF Given
<1>10. OrderInv'
  BY <1>1, <1>2, <1>7, <1>8, <1>9, OrderGiven DEF b
<1>. QED  BY <1>6, <1>10

(* The steps of an iterator's call.                                        *)
LEMMA GivenInCall ==
    ASSUME PyTypes, call # None
    PROVE  /\ call.iter \in Consumers
           /\ Given[call.iter] = returned[call.iter] \o call.events \o Buffer
           /\ \A d \in Consumers \ {call.iter} :
                 Given[d] = returned[d] \o <<>> \o (IF d \in Iterators THEN iter[d].internal_buffer ELSE <<>>)
           /\ returned[call.iter] \in Seq(Event)
           /\ call.events \in Seq(Event) /\ Buffer \in Seq(Event)
<1>1. call.iter \in Iterators /\ call.events \in Seq(Event) /\ Buffer \in Seq(Event)
  BY CallFields
<1>2. call.iter \in Consumers
  BY <1>1 DEF Consumers
<1>. QED  BY <1>1, <1>2 DEF Given, Buffer, PyTypes

LEMMA ReplenishInOrder ==
    ASSUME PluginInv, PyInv, OrderInv, host = "python", host' = host, call # None, Replenish
    PROVE  OrderInv'
<1> DEFINE i == call.iter
           b == Head(queue)
           r == [internal_buffer |-> b, current_timestamp |-> Now]
<1>1. /\ PyInv' /\ queue # <<>> /\ queue' = Tail(queue) /\ b \in Seq(Event)
      /\ iter' = [iter EXCEPT ![i] = r]
  BY ReplenishStep
<1>2. /\ Buffer = <<>>
      /\ UNCHANGED <<opened, channels, sunk, call, returned, lost>>
  BY DEF Replenish, rawVars, pluginVars
<1>3. PyTypes /\ PyTypes' /\ Given' \in [Consumers -> Seq(Event)]
  BY <1>1, GivenTypesNext DEF PyInv
<1>4. /\ i \in Consumers /\ i \in Iterators
      /\ Given[i] = returned[i] \o call.events \o Buffer
      /\ returned[i] \in Seq(Event) /\ call.events \in Seq(Event)
  BY <1>3, CallFields, GivenInCall
<1>5. r.internal_buffer = b
  OBVIOUS
<1> HIDE DEF b, r
<1>6. iter'[i] = r /\ \A j \in Iterators \ {i} : iter'[j] = iter[j]
  BY <1>1, <1>3, <1>4 DEF PyTypes
<1>7. Given'[i] = Given[i] \o b
  <2>1. Given'[i] = returned[i] \o call.events \o b
    BY <1>2, <1>4, <1>5, <1>6 DEF Given
  <2>2. (returned[i] \o call.events) \o <<>> = returned[i] \o call.events
    BY <1>4, ConcatEmptySeq, ConcatProperties
  <2>. QED  BY <1>2, <1>4, <2>1, <2>2, SMTT(60)
<1>8. \A d \in Consumers \ {i} : Given'[d] = Given[d]
  BY <1>2, <1>6 DEF Given
<1>. QED  BY <1>1, <1>2, <1>3, <1>4, <1>7, <1>8, OrderGiven DEF b

LEMMA OrderSame ==
    ASSUME OrderInv, host = "python", Given' = Given,
           UNCHANGED <<host, opened, channels, sunk, queue, lost>>
    PROVE  OrderInv'
<1>1. GivenInOrder(Given, Coming', Unread(opened'[1])) /\ Events(queue') = Events(queue)
  BY DEF OrderInv, Coming
<1>. QED  BY <1>1, OrderKept

LEMMA CallInOrder ==
    ASSUME OrderInv, PyTypes, host = "python", host' = host, NEW i \in Iterators, PyCall(i)
    PROVE  OrderInv'
<1>1. /\ call = None /\ UNCHANGED <<opened, channels, sunk, queue, iter, returned, lost>>
      /\ call' \in {[iter |-> i, n |-> n, dt |-> None, end |-> None, events |-> <<>>] : n \in Counts}
         \union {[iter |-> i, n |-> None, dt |-> dt, end |-> None, events |-> <<>>] : dt \in Deltas}
  BY DEF PyCall, Between, rawVars, pluginVars
<1>2. call'.events = <<>>
  BY <1>1
<1>3. Given' = Given
  BY <1>1, <1>2 DEF Given
<1>. QED  BY <1>1, <1>3, OrderSame

(* An iterator's step that moves events from its buffer to its call, or    *)
(* from its call to what was returned.                                     *)
LEMMA CallMoves ==
    ASSUME PyInv, OrderInv, host = "python", call # None,
           UNCHANGED <<host, opened, channels, sunk, queue, lost>>,
           \A j \in Iterators \ {call.iter} : iter'[j] = iter[j],
           \A d \in Consumers \ {call.iter} : returned'[d] = returned[d],
           call' = None \/ call'.iter = call.iter,
           returned'[call.iter] \o (IF call' = None THEN <<>> ELSE call'.events)
                                \o iter'[call.iter].internal_buffer
               = returned[call.iter] \o call.events \o Buffer
    PROVE  OrderInv'
<1> DEFINE i == call.iter
           t == IF call' = None THEN <<>> ELSE call'.events
<1>1. /\ i \in Consumers /\ i \in Iterators
      /\ Given[i] = returned[i] \o call.events \o Buffer
  BY CallFields, GivenInCall DEF PyInv
<1>2. Given'[i] = returned'[i] \o t \o iter'[i].internal_buffer
  BY <1>1 DEF Given
<1>3. Given'[i] = Given[i]
  BY <1>1, <1>2
<1>4. \A d \in Consumers \ {i} : Given'[d] = Given[d]
  BY <1>1 DEF Given
<1>5. Given' = Given
  <2>1. \A d \in Consumers : Given'[d] = Given[d]
    BY <1>3, <1>4
  <2>2. Given = [d \in Consumers |-> Given[d]] /\ Given' = [d \in Consumers |-> Given'[d]]
    BY DEF Given
  <2>. QED  BY <2>1, <2>2
<1>. QED  BY <1>5, OrderSame

LEMMA PopInOrder ==
    ASSUME PyInv, OrderInv, host = "python", host' = host, call # None, Buffer # <<>>,
           NEW now \in Nat \union {None}, Pop(now),
           call' = [call EXCEPT !.events = Append(call.events, Head(Buffer))],
           iter' = [iter EXCEPT ![call.iter] =
                       [internal_buffer |-> Tail(Buffer), current_timestamp |-> now]]
    PROVE  OrderInv'
<1> DEFINE i == call.iter
           es == Append(call.events, Head(Buffer))
           r == [internal_buffer |-> Tail(Buffer), current_timestamp |-> now]
<1>1. /\ i \in Iterators /\ call \in Calls /\ returned[i] \in Seq(Event)
      /\ call.events \in Seq(Event) /\ Buffer \in Seq(Event)
      /\ iter \in [Iterators -> Iteration]
  BY CallFields, GivenInCall DEF PyInv, PyTypes
<1>2. UNCHANGED <<opened, channels, sunk, queue, lost, returned>>
  BY DEF Pop, rawVars, pluginVars
<1>3. es \o Tail(Buffer) = call.events \o Buffer /\ es \in Seq(Event) /\ Tail(Buffer) \in Seq(Event)
  BY <1>1, HeadMoves, HeadTailProperties, AppendProperties
<1>4. returned[i] \o es \o Tail(Buffer) = returned[i] \o call.events \o Buffer
  <2> DEFINE es0 == call.events
             b == Buffer
             u == Tail(Buffer)
             rs == returned[i]
  <2>1. /\ es \in Seq(Event) /\ u \in Seq(Event) /\ es0 \in Seq(Event) /\ b \in Seq(Event)
        /\ rs \in Seq(Event) /\ es \o u = es0 \o b
    BY <1>1, <1>3
  <2> HIDE DEF es, es0, b, u, rs
  <2>2. \A x, y, z \in Seq(Event) : (x \o y) \o z = x \o (y \o z)
    OBVIOUS
  <2>3. (rs \o es) \o u = rs \o (es \o u)
    BY <2>1, <2>2
  <2>4. (rs \o es0) \o b = rs \o (es0 \o b)
    BY <2>1, <2>2
  <2>5. rs \o es \o u = rs \o es0 \o b
    BY <2>1, <2>3, <2>4
  <2>. QED  BY <2>5 DEF es0, b, u, rs
<1>5. r.internal_buffer = Tail(Buffer)
  OBVIOUS
<1> HIDE DEF es, r
<1>6. call' # None /\ call'.iter = i /\ call'.events = es
  <2>1. call' \in Calls /\ call'.iter = i /\ call'.events = es
    BY <1>1, <1>3 DEF Calls, es
  <2>. QED  BY <2>1, CallsAssumption
<1>7. iter'[i] = r /\ \A j \in Iterators \ {i} : iter'[j] = iter[j]
  BY <1>1 DEF r
<1>8. returned'[i] \o (IF call' = None THEN <<>> ELSE call'.events) \o iter'[i].internal_buffer
         = returned[i] \o call.events \o Buffer
  BY <1>2, <1>4, <1>5, <1>6, <1>7
<1>. QED  BY <1>2, <1>6, <1>7, <1>8, CallMoves

LEMMA StartInOrder ==
    ASSUME PyInv, OrderInv, host = "python", host' = host, call # None, StartOfDelta
    PROVE  OrderInv'
<1>1. /\ call'.iter = call.iter /\ call'.events = call.events /\ call' # None
      /\ iter'[call.iter].internal_buffer = Buffer
      /\ \A j \in Iterators \ {call.iter} : iter'[j] = iter[j]
      /\ UNCHANGED <<queue, returned, lost>>
  <2>1. /\ call'.iter = call.iter /\ call'.events = call.events /\ call' \in Calls
        /\ iter'[call.iter].internal_buffer = Buffer
        /\ \A j \in Iterators \ {call.iter} : iter'[j] = iter[j]
        /\ UNCHANGED <<queue, returned, lost>>
    BY StartStep
  <2>. QED  BY <2>1, CallsAssumption
<1>2. UNCHANGED <<opened, channels, sunk>>
  BY DEF StartOfDelta, rawVars, pluginVars
<1>. QED  BY <1>1, <1>2, CallMoves

LEMMA ReturnInOrder ==
    ASSUME PyInv, OrderInv, host = "python", call # None,
           returned' = Returned, call' = None,
           UNCHANGED <<host, opened, channels, sunk, queue, lost>>,
           iter'[call.iter].internal_buffer = Buffer,
           \A j \in Iterators \ {call.iter} : iter'[j] = iter[j]
    PROVE  OrderInv'
<1>1. /\ returned'[call.iter] = returned[call.iter] \o call.events
      /\ \A d \in Consumers \ {call.iter} : returned'[d] = returned[d]
  BY ReturnedTypes DEF PyInv
<1>2. returned[call.iter] \in Seq(Event) /\ call.events \in Seq(Event)
  BY GivenInCall DEF PyInv
<1>3. (returned[call.iter] \o call.events) \o <<>> = returned[call.iter] \o call.events
  BY <1>2, ConcatEmptySeq, ConcatProperties
<1>4. returned'[call.iter] \o (IF call' = None THEN <<>> ELSE call'.events)
                           \o iter'[call.iter].internal_buffer
         = returned[call.iter] \o call.events \o Buffer
  BY <1>1, <1>3
<1>. QED  BY <1>1, <1>4, CallMoves

(* The call that meets the end of the file loses what it collected.        *)
LEMMA RaiseInOrder ==
    ASSUME PluginInv, PyInv, PyInv', OrderInv, host = "python", host' = host, call # None,
           ReplenishError
    PROVE  OrderInv'
<1> DEFINE i == call.iter
           es == call.events
           g == Given
           g2 == Given'
<1>1. /\ Buffer = <<>> /\ LoadError /\ sunk' = sunk
      /\ lost' = lost \union Range(es) /\ call' = None
      /\ UNCHANGED <<queue, iter, returned>>
  BY DEF ReplenishError, PluginLoadError, pluginVars
<1>2. /\ GivenInOrder(g, Coming', Unread(opened'[1]))
      /\ opened'[1].eof
  BY <1>1, LoadsInOrder DEF PyInv
<1>3. /\ i \in Consumers /\ i \in Iterators
      /\ g[i] = returned[i] \o es \o <<>>
      /\ returned[i] \in Seq(Event) /\ es \in Seq(Event)
  BY <1>1, CallFields, GivenInCall DEF PyInv
<1>4. /\ g \in [Consumers -> Seq(Event)] /\ g2 \in [Consumers -> Seq(Event)]
  BY GivenTypes, GivenTypesNext DEF PyInv
<1>5. g[i] = g2[i] \o es
  <2>1. g2[i] = returned[i] \o <<>> \o <<>>
    BY <1>1, <1>3 DEF Given, Buffer
  <2>2. /\ returned[i] \o <<>> = returned[i]
        /\ (returned[i] \o es) \o <<>> = returned[i] \o es
    BY <1>3, ConcatEmptySeq, ConcatProperties
  <2>. QED  BY <1>3, <2>1, <2>2
<1>6. \A d \in Consumers \ {i} : g2[d] = g[d]
  BY <1>1 DEF Given
<1>7. SunkEvents = Events(queue) \union (UNION {Range(g[d]) : d \in Consumers}) \union lost
  BY DEF OrderInv
<1> DEFINE coming == Coming'
           unread == Unread(opened'[1])
<1> HIDE DEF g, g2, es, i, coming, unread
<1>8. /\ GivenInOrder(g2, coming, unread)
      /\ (UNION {Range(g[d]) : d \in Consumers})
            = (UNION {Range(g2[d]) : d \in Consumers}) \union Range(es)
  <2>1. GivenInOrder(g, coming, unread)
    BY <1>2 DEF coming, unread
  <2>2. es \in Seq(Event) /\ i \in Consumers
    BY <1>3
  <2>3. GivenInOrder(g2, coming, unread)
    BY <1>4, <1>5, <1>6, <2>1, <2>2, OrderDrop
  <2>4. Range(g[i]) = Range(g2[i]) \union Range(es)
    <3>1. g2[i] \in Seq(Event)
      BY <1>4, <2>2
    <3>. QED  BY <1>5, <2>2, <3>1, ConcatRange
  <2>5. (UNION {Range(g[d]) : d \in Consumers})
           = (UNION {Range(g2[d]) : d \in Consumers}) \union Range(es)
    BY <1>6, <2>2, <2>4
  <2>. QED  BY <2>3, <2>5
<1>9. SunkEvents' = SunkEvents
  BY <1>1 DEF SunkEvents
<1>10. SunkEvents' = Events(queue') \union (UNION {Range(g2[d]) : d \in Consumers}) \union lost'
  BY <1>1, <1>7, <1>8, <1>9
<1>11. GivenInOrder(Given', Coming', Unread(opened'[1]))
  BY <1>8 DEF g2, coming, unread
<1>12. SunkEvents' = Events(queue') \union (UNION {Range(Given'[d]) : d \in Consumers}) \union lost'
  BY <1>10 DEF g2
<1>. QED  BY <1>2, <1>11, <1>12 DEF OrderInv, Events

-----------------------------------------------------------------------------
(* The steps of the three hosts.                                           *)
PyAll == PluginInv /\ PyInv /\ OrderInv

LEMMA PyLoads ==
    ASSUME PyAll, host = "python", host' = host,
           PluginLoad \/ PluginLoadError \/ FacilitySeekToNextExt, UNCHANGED pyVars
    PROVE  PyAll'
<1>1. PluginInv'
  BY PluginLoads DEF PyAll
<1>2. /\ UNCHANGED <<queue, iter, call, returned, lost, hung, windows, sunk>>
      /\ LoadOk \/ LoadError \/ SeekToNextExt
  BY DEF pyVars, PluginLoad, PluginLoadError, FacilitySeekToNextExt, pluginVars
<1>3. PyInv'
  <2>1. PyTypes'
    BY <1>2 DEF PyAll, PyInv, PyTypes
  <2>. QED  BY <1>2, <2>1, PyKept DEF PyAll
<1>4. OrderInv'
  BY <1>2, LoadKeepsOrder DEF PyAll, PyInv
<1>. QED  BY <1>1, <1>3, <1>4 DEF PyAll

(* The reader and the plugin are as they were.                             *)
LEMMA PluginKept ==
    ASSUME PluginInv, UNCHANGED <<rawVars, host, pluginVars>>
    PROVE  PluginInv'
<1>1. /\ UNCHANGED <<opened, channels, device, reader, index_failed>>
      /\ UNCHANGED <<host, plugin, phase, owed, sunk>>
  BY DEF rawVars, pluginVars
<1>2. RawInv'
  BY <1>1 DEF PluginInv, RawInv, RawTypeOK, Wired, ReaderIsOfOneFile, Current
<1>3. PluginTypes' /\ HostInv' /\ SinkInv'
  BY <1>1 DEF PluginInv, PluginTypes, HostInv, SinkInv
<1>. QED  BY <1>2, <1>3 DEF PluginInv

LEMMA PyTakes ==
    ASSUME PyAll, host = "python", host' = host, PyTryReceive \/ PyAwait
    PROVE  PyAll'
<1>1. /\ call = None /\ UNCHANGED <<rawVars, pluginVars, iter, call, lost, windows>>
      /\ \/ TakeBatch
         \/ UNCHANGED <<queue, returned>> /\ hung' \in {hung, TRUE}
  BY DEF PyTryReceive, PyAwait, Between
<1>2. PluginInv'
  BY <1>1, PluginKept DEF PyAll
<1>3. UNCHANGED <<opened, channels, sunk>>
  BY <1>1 DEF rawVars, pluginVars
<1>4. CASE TakeBatch
  <2>1. OrderInv' /\ PyTypes'
    BY <1>1, <1>3, <1>4, TakeInOrder DEF PyAll, PyInv
  <2>2. PyInv'
    BY <1>1, <2>1, PyKept DEF PyAll
  <2>. QED  BY <1>2, <2>1, <2>2 DEF PyAll
<1>5. CASE UNCHANGED <<queue, returned>> /\ hung' \in {hung, TRUE}
  <2>1. PyTypes'
    BY <1>1, <1>5 DEF PyAll, PyInv, PyTypes
  <2>2. PyInv'
    BY <1>1, <2>1, PyKept DEF PyAll
  <2>3. Given' = Given
    BY <1>1, <1>5, GivenKept
  <2>4. OrderInv'
    BY <1>1, <1>3, <1>5, <2>3, OrderSame DEF PyAll
  <2>. QED  BY <1>2, <2>2, <2>4 DEF PyAll
<1>. QED  BY <1>1, <1>4, <1>5

LEMMA PyDrains ==
    ASSUME PyAll, host = "python", host' = host, PyDrain
    PROVE  PyAll'
<1>1. PluginInv'
  BY PluginDrains DEF PyAll, PyDrain
<1>2. OrderInv' /\ PyTypes'
  BY DrainInOrder DEF PyAll, PyInv
<1>3. PyInv'
  BY <1>2, PyKept DEF PyAll, PyDrain
<1>. QED  BY <1>1, <1>2, <1>3 DEF PyAll

LEMMA PyIterates ==
    ASSUME PyAll, host = "python", host' = host, PyStep
    PROVE  PyAll'
<1>1. call # None /\ PyInv /\ PyTypes /\ PluginInv /\ OrderInv
  BY DEF PyStep, Busy, PyAll, PyInv
<1>2. /\ call \in Calls /\ Buffer \in Seq(Event) /\ Now \in Nat \union {None}
  BY <1>1, CallFields
<1>3. CASE Replenish
  <2>1. PluginInv'
    BY <1>1, <1>3, PluginKept DEF Replenish
  <2>. QED  BY <1>1, <1>3, <2>1, ReplenishStep, ReplenishInOrder DEF PyAll
<1>4. CASE ReplenishLoad
  BY <1>4, PyLoads DEF ReplenishLoad
<1>5. CASE ReplenishError
  <2>1. PluginInv'
    BY <1>1, <1>5, PluginLoads DEF ReplenishError
  <2>2. PyInv'
    BY <1>1, <1>5, RaiseStep DEF ReplenishError
  <2>. QED  BY <1>1, <1>5, <2>1, <2>2, RaiseInOrder DEF PyAll
<1>6. ASSUME NEW now \in Nat \union {None}, Pop(now), Buffer # <<>>,
             Now = None \/ now = Now,
             call.end # None => now = Now /\ Head(Buffer).t < call.end,
             call.dt # None => call.end # None
      PROVE  PyAll'
  <2>1. PluginInv'
    BY <1>1, <1>6, PluginKept DEF Pop
  <2>2. /\ PyInv'
        /\ call' = [call EXCEPT !.events = Append(call.events, Head(Buffer))]
        /\ iter' = [iter EXCEPT ![call.iter] =
                       [internal_buffer |-> Tail(Buffer), current_timestamp |-> now]]
    BY <1>1, <1>6, PopStep
  <2>3. OrderInv'
    BY <1>1, <1>6, <2>2, PopInOrder
  <2>. QED  BY <2>1, <2>2, <2>3 DEF PyAll
<1>7. CASE TakeUpTo
  <2> DEFINE now == IF Now = None THEN Head(Buffer).t ELSE Now
  <2>1. Pop(now) /\ Buffer # <<>> /\ call.n # None
    BY <1>7 DEF TakeUpTo
  <2>2. now \in Nat \union {None} /\ (Now = None \/ now = Now)
    BY <1>2, <2>1, HeadOfBuffer
  <2>3. call.dt = None /\ call.end = None
    BY <1>1, <2>1 DEF PyInv, WindowInv
  <2> HIDE DEF now
  <2>. QED  BY <1>6, <2>1, <2>2, <2>3
<1>8. CASE TakeDelta
  <2>1. Pop(Now) /\ Buffer # <<>> /\ call.end # None /\ Head(Buffer).t < call.end
    BY <1>8 DEF TakeDelta
  <2>. QED  BY <1>2, <1>6, <2>1
<1>9. CASE ReturnUpTo
  <2>1. PluginInv'
    BY <1>1, <1>9, PluginKept DEF ReturnUpTo
  <2>2. /\ returned' = Returned /\ call' = None
        /\ UNCHANGED <<opened, channels, sunk, queue, lost, iter>>
    BY <1>9 DEF ReturnUpTo, rawVars, pluginVars
  <2>3. OrderInv'
    BY <1>1, <2>2, ReturnInOrder DEF Buffer
  <2>. QED  BY <1>1, <1>9, <2>1, <2>3, ReturnUpToStep DEF PyAll
<1>10. CASE StartOfDelta
  <2>1. PluginInv'
    BY <1>1, <1>10, PluginKept DEF StartOfDelta
  <2>. QED  BY <1>1, <1>10, <2>1, StartStep, StartInOrder DEF PyAll
<1>11. CASE ReturnDelta
  <2>1. PluginInv'
    BY <1>1, <1>11, PluginKept DEF ReturnDelta
  <2>2. UNCHANGED <<opened, channels, sunk>>
    BY <1>11 DEF ReturnDelta, rawVars, pluginVars
  <2>3. /\ PyInv'
        /\ returned' = Returned /\ call' = None /\ UNCHANGED <<queue, lost>>
        /\ iter'[call.iter].internal_buffer = Buffer
        /\ \A j \in Iterators \ {call.iter} : iter'[j] = iter[j]
    BY <1>1, <1>11, ReturnDeltaStep
  <2>4. OrderInv'
    BY <1>1, <2>2, <2>3, ReturnInOrder
  <2>. QED  BY <2>1, <2>3, <2>4 DEF PyAll
<1>. QED  BY <1>3, <1>4, <1>5, <1>7, <1>8, <1>9, <1>10, <1>11 DEF PyStep

LEMMA PythonStep ==
    ASSUME PyAll, Python
    PROVE  PyAll'
<1>1. host = "python" /\ host' = host
  BY DEF Python
<1>2. ASSUME NEW i \in Iterators, PyCall(i)
      PROVE  PyAll'
  <2>1. PluginInv'
    BY <1>1, <1>2, PluginKept DEF PyAll, PyCall
  <2>. QED  BY <1>1, <1>2, <2>1, CallStep, CallInOrder DEF PyAll, PyInv
<1>3. PyLoad => PyAll'
  BY <1>1, PyLoads DEF PyLoad
<1>. QED  BY <1>1, <1>2, <1>3, PyDrains, PyTakes, PyIterates DEF Python

(* The application and the plugin's host: Python has nothing.              *)
LEMMA PyIdle ==
    ASSUME PyInv, OrderInv, host # "python", host' = host, UNCHANGED pyVars
    PROVE  PyInv' /\ OrderInv'
<1>1. UNCHANGED <<queue, iter, call, returned, lost, hung, windows>>
  BY DEF pyVars
<1>2. PyInv'
  <2>1. PyTypes'
    BY <1>1 DEF PyInv, PyTypes
  <2>. QED  BY <1>1, <2>1, PyKept
<1>. QED  BY <1>2 DEF OrderInv

LEMMA ApplicationStep ==
    ASSUME PyAll, Application
    PROVE  PyAll'
<1>1. /\ host = "application" /\ host' = host /\ UNCHANGED pyVars
      /\ UNCHANGED <<plugin, phase, owed, sunk>>
  BY DEF Application, pluginVars
<1>2. PyInv' /\ OrderInv'
  BY <1>1, PyIdle DEF PyAll
<1>3. /\ channels \in Seq(Receivers) /\ Len(channels) \in Nat /\ DOMAIN channels = 1..Len(channels)
      /\ opened \in Seq(Files) /\ RawInv
      /\ plugin \in [cd : 0..Len(channels), ext : 0..Len(channels),
                     sink : Sinks \union {PySink, None}]
      /\ plugin.cd = 0 /\ plugin.ext = 0
  BY <1>1, LenProperties DEF PyAll, PluginInv, PluginTypes, HostInv, RawInv, RawTypeOK
<1>4. RawInv'
  <2>1. ASSUME NEW p \in Paths, NEW do_index \in BOOLEAN, TryOpen(p, do_index)
        PROVE  RawInv'
    BY <1>3, <2>1, TryOpenStep
  <2>2. ASSUME NEW kind \in KindsOfEvent, Receiver(kind), UNCHANGED <<device, reader, index_failed>>
        PROVE  RawInv'
    BY <1>3, <2>2, ReceiverStep
  <2>3. ASSUME LoadOk \/ LoadError \/ Seek \/ SeekToNextExt,
               UNCHANGED <<device, reader, index_failed>>
        PROVE  RawInv'
    BY <1>3, <2>3, ReaderSteps
  <2>4. ASSUME NEW c \in DOMAIN channels, Take(c) \/ Drop(c),
               UNCHANGED <<opened, device, reader, index_failed>>
        PROVE  RawInv'
    BY <1>3, <2>4, TakeStep, DropStep
  <2>. QED  BY <2>1, <2>2, <2>3, <2>4 DEF Application
<1>5. channels' \in Seq(Receivers) /\ Len(channels') \in Nat
  BY <1>4, LenProperties DEF RawInv, RawTypeOK
<1>6. PluginTypes'
  <2>1. 0 \in 0..Len(channels')
    BY <1>5
  <2>2. plugin' \in [cd : 0..Len(channels'), ext : 0..Len(channels'),
                     sink : Sinks \union {PySink, None}]
    BY <1>1, <1>3, <2>1
  <2>. QED  BY <1>1, <2>2 DEF PyAll, PluginInv, PluginTypes
<1>7. HostInv' /\ SinkInv'
  BY <1>1 DEF PyAll, PluginInv, HostInv, SinkInv
<1>. QED  BY <1>2, <1>4, <1>6, <1>7 DEF PyAll, PluginInv

LEMMA PluginHostStep ==
    ASSUME PyAll, PluginHost
    PROVE  PyAll'
<1>1. host = "plugin" /\ host' = host /\ UNCHANGED pyVars
  BY DEF PluginHost
<1>2. PyInv' /\ OrderInv'
  BY <1>1, PyIdle DEF PyAll
<1>3. ASSUME NEW kind \in KindsOfEvent, NEW sink \in Sinks, StartKind(kind, sink)
      PROVE  PluginInv'
  BY <1>1, <1>3, PluginStarts DEF PyAll
<1>4. ASSUME PluginLoad \/ PluginLoadError \/ FacilitySeekToNextExt
      PROVE  PluginInv'
  BY <1>1, <1>4, PluginLoads DEF PyAll
<1>5. ASSUME NEW kind \in KindsOfEvent, DrainEvents(kind)
      PROVE  PluginInv'
  BY <1>1, <1>5, PluginDrains DEF PyAll
<1>6. PluginInv'
  BY <1>3, <1>4, <1>5 DEF PluginHost
<1>. QED  BY <1>2, <1>6 DEF PyAll

-----------------------------------------------------------------------------
(* The initial states of the three hosts.                                  *)
LEMMA RawOpened ==
    ASSUME NEW p \in Paths, NEW o \in Files, o.path = p,
           opened = <<o>>, Wired(opened, channels), device = 1, index_failed = FALSE,
           reader = [initialized |-> TRUE, session |-> 1, index |-> None]
    PROVE  RawInv
<1>1. Len(opened) = 1 /\ opened[1] = o /\ DOMAIN opened = 1..1
  OBVIOUS
<1>2. opened \in Seq(Files) /\ channels \in Seq(Receivers)
  BY DEF Wired
<1>3. \A s \in DOMAIN opened : opened[s].pos <= Len(Reads(opened[s].path))
  BY <1>1 DEF Wired
<1>4. /\ device \in 0..Len(opened)
      /\ reader \in [initialized : BOOLEAN, session : 0..Len(opened), index : Paths \union {None}]
      /\ reader.initialized /\ reader.session = 1 /\ reader.index = None
  <2>1. 1 \in 0..Len(opened)
    BY <1>1
  <2>. QED  BY <2>1
<1>5. RawTypeOK
  <2>1. (reader.initialized <=> reader.session # 0) /\ index_failed \in BOOLEAN
    <3>1. reader.session # 0
      BY <1>4
    <3>2. index_failed \in BOOLEAN
      OBVIOUS
    <3>. QED  BY <1>4, <3>1, <3>2
  <2> DEFINE R == [initialized : BOOLEAN, session : 0..Len(opened), index : Paths \union {None}]
  <2>2. reader \in R
    BY <1>4
  <2> HIDE DEF R
  <2>3. /\ device \in 0..Len(opened) /\ opened \in Seq(Files) /\ channels \in Seq(Receivers)
    BY <1>2, <1>4
  <2>. QED  BY <1>3, <2>1, <2>2, <2>3, Zenon DEF RawTypeOK, R
<1>6. ReaderIsOfOneFile
  BY <1>4 DEF ReaderIsOfOneFile
<1>. QED  BY <1>5, <1>6 DEF RawInv

LEMMA PyFileOpened ==
    ASSUME NEW p \in Paths, PyOpened(p)
    PROVE  /\ RawInv /\ Len(opened) = 1 /\ opened[1].started
           /\ Len(channels) = 1 /\ channels[1].kind = "cd" /\ channels[1].held
           /\ channels[1].queue = <<>>
           /\ Had(channels, 1) = 0 /\ channels[1].missed = 0
           /\ opened[1].sent["cd"] = <<>> /\ opened[1].sent["ext"] = <<>>
<1> DEFINE os == <<Opened(p)>>
           o == Subscribe(Opened(p), "cd", 1)
           ch == [kind |-> "cd", session |-> 1, held |-> TRUE, queue |-> <<>>,
                  missed |-> 0, taken |-> 0]
<1>1. /\ opened = <<o>> /\ channels = <<ch>> /\ device = 1 /\ index_failed = FALSE
      /\ reader = [initialized |-> TRUE, session |-> 1, index |-> None]
  BY DEF PyOpened
<1>2. Wired(os, <<>>) /\ Opened(p) \in Files /\ os \in Seq(Files) /\ Len(os) = 1
  BY OneOpened
<1>3. os[1] = Opened(p)
  OBVIOUS
<1>4. /\ Opened(p).path = p /\ Opened(p).sent = [cd |-> <<>>, ext |-> <<>>]
      /\ \A k \in KindsOfEvent : Opened(p).sent[k] = <<>>
  BY DEF Opened, KindsOfEvent
<1>5. /\ o \in Files /\ o.path = p /\ o.sent = Opened(p).sent /\ o.started = TRUE
  <2>1. o \in Files /\ o.path = Opened(p).path /\ o.sent = Opened(p).sent /\ o.started = TRUE
    BY <1>2, SubscribeFields DEF KindsOfEvent
  <2>. QED  BY <1>4, <2>1
<1>6. ch \in Receivers
  <2>1. <<>> \in Batches
    BY EmptySeq DEF Batches
  <2>. QED  BY <2>1 DEF Receivers, KindsOfEvent
<1>7. /\ ch.kind = "cd" /\ ch.session = 1 /\ ch.queue = <<>> /\ ch.missed = 0 /\ ch.taken = 0
      /\ ch.held = TRUE
  OBVIOUS
<1>8. Wired(<<o>>, <<ch>>)
  <2>1. Len(<<>>) + 1 = 1 /\ 1 \in 1..Len(os) /\ "cd" \in KindsOfEvent
    BY <1>2 DEF KindsOfEvent
  <2>2. ch.missed = Len(os[1].sent["cd"])
    BY <1>3, <1>4, <1>7, <2>1
  <2> DEFINE cs == <<>>
  <2>3. cs = <<>> /\ Len(cs) + 1 = 1
    OBVIOUS
  <2>4. Wired(os, cs)
    BY <1>2
  <2> HIDE DEF ch, os, cs
  <2>5. Wired([os EXCEPT ![1] = Subscribe(@, "cd", Len(cs) + 1)], Append(cs, ch))
    BY <1>6, <1>7, <2>1, <2>2, <2>4, Subscribes
  <2>6. [os EXCEPT ![1] = Subscribe(@, "cd", Len(cs) + 1)] = <<o>>
    <3>1. [os EXCEPT ![1] = Subscribe(@, "cd", Len(cs) + 1)] = [os EXCEPT ![1] = o]
      BY <1>3, <2>3
    <3> HIDE DEF o
    <3>2. \A x, y : [<<x>> EXCEPT ![1] = y] = <<y>>
      OBVIOUS
    <3>3. [os EXCEPT ![1] = o] = <<o>>
      BY <3>2 DEF os
    <3>. QED  BY <3>1, <3>3
  <2>7. Append(cs, ch) = <<ch>>
    BY <2>3
  <2>. QED  BY <2>5, <2>6, <2>7
<1> HIDE DEF o, ch, os
<1>9. /\ Len(opened) = 1 /\ opened[1] = o /\ Len(channels) = 1 /\ channels[1] = ch
  BY <1>1
<1>10. RawInv
  BY <1>1, <1>5, <1>8, RawOpened
<1>11. Had(channels, 1) = 0
  BY <1>7, <1>9 DEF Had
<1>. QED  BY <1>4, <1>5, <1>7, <1>9, <1>10, <1>11 DEF KindsOfEvent

LEMMA PyInitially ==
    ASSUME Init
    PROVE  PyInv /\ \A c \in Consumers : Given[c] = <<>>
<1>1. /\ queue = <<>> /\ call = None /\ lost = {} /\ hung = FALSE /\ windows = <<>>
      /\ iter = [i \in Iterators |-> [internal_buffer |-> <<>>, current_timestamp |-> None]]
      /\ returned = [c \in Consumers |-> <<>>]
  BY DEF Init
<1>2. <<>> \in Batches /\ <<>> \in Seq(Event) /\ <<>> \in Seq(Windows) /\ Len(<<>>) = 0
      /\ DOMAIN <<>> = {}
  BY EmptySeq DEF Batches
<1>3. PyTypes
  BY <1>1, <1>2 DEF PyTypes, Iteration
<1>4. WindowInv /\ WindowsAbut
  BY <1>1, <1>2 DEF WindowInv, WindowsAbut
<1>5. ASSUME NEW c \in Consumers
      PROVE  Given[c] = <<>>
  <2>1. Given[c] = <<>> \o <<>> \o <<>>
    BY <1>1 DEF Given
  <2>2. <<>> \o <<>> = <<>>
    BY <1>2, ConcatEmptySeq
  <2>. QED  BY <2>1, <2>2
<1>. QED  BY <1>3, <1>4, <1>5 DEF PyInv

LEMMA OrderInitially ==
    ASSUME Init, host = "python", channels[1].queue = <<>>
    PROVE  OrderInv
<1>1. queue = <<>> /\ lost = {} /\ sunk = <<>> /\ \A c \in Consumers : Given[c] = <<>>
  BY PyInitially DEF Init
<1>2. Range(<<>>) = {} /\ DOMAIN <<>> = {} /\ Events(<<>>) = {}
  BY DEF Range, Events
<1>3. Coming = <<>>
  <2>1. <<>> \o <<>> = <<>>
    BY EmptySeq, ConcatEmptySeq
  <2>. QED  BY <1>1, <2>1 DEF Coming
<1>4. GivenInOrder(Given, Coming, Unread(opened[1]))
  BY <1>1, <1>2, <1>3 DEF GivenInOrder, Ascending, Before, InOrder
<1>5. SunkEvents = {}
  BY <1>1, <1>2 DEF SunkEvents
<1>6. (UNION {Range(Given[c]) : c \in Consumers}) = {}
  BY <1>1, <1>2
<1>. QED  BY <1>1, <1>2, <1>4, <1>5, <1>6 DEF OrderInv

LEMMA Initially ==
    ASSUME Init
    PROVE  PyAll
<1>1. /\ phase = "idle" /\ owed = [kind \in KindsOfEvent |-> 0] /\ sunk = <<>> /\ Len(sunk) = 0
      /\ sunk \in Seq(SinkCalls)
  BY EmptySeq DEF Init
<1>2. PyInv
  BY PyInitially
<1>3. SinksInOrder(channels, plugin, sunk)
  BY <1>1 DEF SinksInOrder
<1>4. CASE /\ host = "application" /\ RawInit
           /\ plugin = [cd |-> 0, ext |-> 0, sink |-> None]
  <2>1. RawInv
    BY <1>4, NothingOpened
  <2>2. Len(channels) \in Nat
    BY <2>1, LenProperties DEF RawInv, RawTypeOK
  <2>3. PluginTypes
    <3>1. 0 \in 0..Len(channels)
      BY <2>2
    <3>. QED  BY <1>1, <1>4, <3>1 DEF PluginTypes
  <2>4. HostInv /\ SinkInv /\ OrderInv
    BY <1>1, <1>4 DEF HostInv, SinkInv, OrderInv
  <2>. QED  BY <1>2, <2>1, <2>3, <2>4 DEF PyAll, PluginInv
<1>5. ASSUME NEW p \in Paths, host = "plugin", RawInitOpened(p, FALSE),
             plugin = [cd |-> 0, ext |-> 0, sink |-> None]
      PROVE  PyAll
  <2>1. /\ opened = <<Opened(p)>> /\ channels = <<>> /\ device = 1 /\ index_failed = FALSE
        /\ reader = [initialized |-> TRUE, session |-> 1, index |-> None]
    BY <1>5 DEF RawInitOpened
  <2>2. Wired(<<Opened(p)>>, <<>>) /\ Opened(p) \in Files /\ Len(opened) = 1
    BY <2>1, OneOpened
  <2>3. Opened(p).path = p
    BY DEF Opened
  <2>4. RawInv
    BY <2>1, <2>2, <2>3, RawOpened
  <2>5. Len(channels) = 0
    BY <2>1
  <2>6. PluginTypes
    <3>1. 0 \in 0..Len(channels)
      BY <2>5
    <3>. QED  BY <1>1, <1>5, <3>1 DEF PluginTypes
  <2>7. HostInv
    BY <1>5, <2>1, <2>2 DEF HostInv, KindsOfEvent
  <2>8. SinkInv
    <3>1. SinksHadAll(channels, sunk)
      BY <2>5 DEF SinksHadAll
    <3>2. ASSUME NEW kind \in KindsOfEvent
          PROVE  plugin[kind] = 0 /\ owed[kind] <= Len(opened[1].sent[kind])
      <4>1. opened[1].sent[kind] = <<>>
        BY <2>1 DEF Opened, KindsOfEvent
      <4>. QED  BY <1>1, <1>5, <4>1 DEF KindsOfEvent
    <3>. QED  BY <1>3, <3>1, <3>2 DEF SinkInv, OwedIsHad
  <2>9. OrderInv
    BY <1>5 DEF OrderInv
  <2>. QED  BY <1>2, <2>4, <2>6, <2>7, <2>8, <2>9 DEF PyAll, PluginInv
<1>6. ASSUME NEW p \in Paths, host = "python", PyOpened(p)
      PROVE  PyAll
  <2>1. /\ RawInv /\ Len(opened) = 1 /\ opened[1].started
        /\ Len(channels) = 1 /\ channels[1].kind = "cd" /\ channels[1].held
        /\ channels[1].queue = <<>>
        /\ Had(channels, 1) = 0 /\ channels[1].missed = 0
        /\ opened[1].sent["cd"] = <<>> /\ opened[1].sent["ext"] = <<>>
    BY <1>6, PyFileOpened
  <2>2. /\ plugin = [cd |-> 1, ext |-> 0, sink |-> PySink]
        /\ reader = [initialized |-> TRUE, session |-> 1, index |-> None]
    BY <1>6 DEF PyOpened
  <2>3. PluginTypes
    <3>1. 0 \in 0..Len(channels) /\ 1 \in 0..Len(channels)
      BY <2>1
    <3>. QED  BY <1>1, <2>2, <3>1 DEF PluginTypes
  <2>4. HostInv
    BY <1>6, <2>1, <2>2 DEF HostInv, KindsOfEvent
  <2>5. SinkInv
    <3>1. SinksHadAll(channels, sunk)
      BY <2>1 DEF SinksHadAll
    <3>2. OwedIsHad(opened[1], channels, plugin, phase, owed)
      BY <1>1, <2>1, <2>2 DEF OwedIsHad, KindsOfEvent
    <3>. QED  BY <1>3, <3>1, <3>2 DEF SinkInv
  <2>6. OrderInv
    BY <1>6, <2>1, OrderInitially
  <2>. QED  BY <1>2, <2>1, <2>3, <2>4, <2>5, <2>6 DEF PyAll, PluginInv
<1>. QED  BY <1>4, <1>5, <1>6 DEF Init

-----------------------------------------------------------------------------
(* The inductive invariant, and what follows from it.                      *)
LEMMA IndParts ==
    IndInv <=> PyAll /\ host \in Hosts /\ calls \in 0..MaxCalls
BY TypesTogether DEF IndInv, PyAll, PluginInv, PyInv, RawInv

LEMMA IndPartsNext ==
    IndInv' <=> PyAll' /\ host' \in Hosts /\ calls' \in 0..MaxCalls
BY TypesTogetherNext DEF IndInv, PyAll, PluginInv, PyInv, RawInv

LEMMA CallsCounted ==
    ASSUME Next, calls \in 0..MaxCalls, host \in Hosts
    PROVE  calls' \in 0..MaxCalls /\ host' \in Hosts
<1>1. Counted => calls' \in 0..MaxCalls
  BY HostsAssumption DEF Counted
<1>2. host' = host
  BY DEF Next, Application, PluginHost, Python
<1>3. Counted \/ calls' = calls
  BY DEF Next, Application, PluginHost, Python, PyDrain, PyLoad, PyTryReceive, PyAwait, PyCall,
         PyStep, Replenish, ReplenishLoad, ReplenishError, TakeUpTo, TakeDelta, Pop, ReturnUpTo,
         StartOfDelta, ReturnDelta
<1>. QED  BY <1>1, <1>2, <1>3

LEMMA Inductive ==
    Spec => []IndInv
<1>1. Init => IndInv
  <2>1. SUFFICES ASSUME Init PROVE IndInv
    OBVIOUS
  <2>2. host \in Hosts /\ calls \in 0..MaxCalls
    BY <2>1, HostsAssumption DEF Init
  <2>. QED  BY <2>1, <2>2, Initially, IndParts
<1>2. IndInv /\ [Next]_vars => IndInv'
  <2>1. SUFFICES ASSUME IndInv, [Next]_vars PROVE IndInv'
    OBVIOUS
  <2>2. PyAll /\ host \in Hosts /\ calls \in 0..MaxCalls
    BY <2>1, IndParts
  <2>3. CASE Next
    <3>1. PyAll'
      BY <2>2, <2>3, ApplicationStep, PluginHostStep, PythonStep DEF Next
    <3>. QED  BY <2>2, <2>3, <3>1, CallsCounted, IndPartsNext
  <2>4. CASE UNCHANGED vars
    <3>1. /\ UNCHANGED <<rawVars, host, pluginVars, calls>>
          /\ UNCHANGED <<queue, iter, call, returned, lost, hung, windows>>
          /\ UNCHANGED <<opened, channels, sunk>>
      BY <2>4 DEF vars, rawVars, pluginVars
    <3>2. PluginInv'
      BY <2>2, <3>1, PluginKept DEF PyAll
    <3>3. PyInv'
      <4>1. PyTypes'
        BY <2>2, <3>1 DEF PyAll, PyInv, PyTypes
      <4>. QED  BY <2>2, <3>1, <4>1, PyKept DEF PyAll
    <3>4. OrderInv'
      <4>1. CASE host = "python"
        BY <2>2, <3>1, <4>1, GivenKept, OrderSame DEF PyAll
      <4>2. CASE host # "python"
        BY <3>1, <4>2 DEF OrderInv
      <4>. QED  BY <4>1, <4>2
    <3>. QED  BY <2>2, <3>1, <3>2, <3>3, <3>4, IndPartsNext DEF PyAll
  <2>. QED  BY <2>1, <2>3, <2>4
<1>. QED  BY <1>1, <1>2, PTL DEF Spec

LEMMA MissNothingFromWired ==
    RawInv => ReceiversMissNothing
<1>1. SUFFICES ASSUME RawInv, NEW c \in DOMAIN channels
               PROVE  channels[c].held =>
                         channels[c].queue =
                            SubSeq(opened[channels[c].session].sent[channels[c].kind],
                                   channels[c].missed + channels[c].taken + 1,
                                   Len(opened[channels[c].session].sent[channels[c].kind]))
  BY DEF ReceiversMissNothing
<1>2. c \in 1..Len(channels)
  BY <1>1, LenProperties DEF RawInv, RawTypeOK
<1>3. MissesNothing(channels[c], opened[channels[c].session].sent[channels[c].kind])
  BY <1>1, <1>2 DEF RawInv, Wired
<1>. QED  BY <1>3 DEF MissesNothing

LEMMA DeliversFromSinks ==
    PluginInv => LoadDeliversAll
<1>1. SUFFICES ASSUME PluginInv PROVE LoadDeliversAll
  OBVIOUS
<1>2. CASE host = "application"
  <2>1. plugin.cd = 0 /\ plugin.ext = 0 /\ sunk = <<>>
    BY <1>1, <1>2 DEF PluginInv, HostInv
  <2>2. DOMAIN sunk = {}
    BY <2>1
  <2>. QED  BY <2>1, <2>2 DEF LoadDeliversAll, KindsOfEvent
<1>3. CASE host # "application"
  <2>1. /\ OwedIsHad(opened[1], channels, plugin, phase, owed)
        /\ SinksInOrder(channels, plugin, sunk)
        /\ SinksHadAll(channels, sunk)
    BY <1>1, <1>3 DEF PluginInv, SinkInv
  <2>2. sunk \in Seq(SinkCalls) /\ owed \in [KindsOfEvent -> Nat] /\ channels \in Seq(Receivers)
    BY <1>1 DEF PluginInv, PluginTypes, RawInv, RawTypeOK
  <2>3. /\ DOMAIN sunk = 1..Len(sunk) /\ Len(sunk) \in Nat
        /\ \A i \in 1..Len(sunk) : sunk[i].no \in Nat
    <3>1. DOMAIN sunk = 1..Len(sunk) /\ Len(sunk) \in Nat
      BY <2>2, LenProperties
    <3>2. \A i \in 1..Len(sunk) : sunk[i] \in SinkCalls
      BY <2>2, <3>1, ElementOfSeq
    <3>. QED  BY <3>1, <3>2 DEF SinkCalls
  <2>4. ASSUME phase = "idle", NEW kind \in KindsOfEvent, plugin[kind] # 0
        PROVE  channels[plugin[kind]].missed + channels[plugin[kind]].taken >= owed[kind]
    <3>1. /\ Had(channels, plugin[kind]) \in Nat
          /\ owed[kind] \in Nat
      <4>1. plugin[kind] \in 1..Len(channels)
        BY <1>1, <1>3, <2>4, PluginFacts
      <4>2. channels[plugin[kind]] \in Receivers
        BY <2>2, <4>1, ElementOfSeq
      <4>3. channels[plugin[kind]].missed \in Nat /\ channels[plugin[kind]].taken \in Nat
        BY <4>2 DEF Receivers
      <4>4. owed[kind] \in Nat
        BY <2>2, <2>4
      <4>. QED  BY <4>3, <4>4 DEF Had
    <3>. QED  BY <2>1, <2>4, <3>1 DEF OwedIsHad, Had
  <2>5. ASSUME NEW i \in 1..Len(sunk), NEW j \in 1..Len(sunk), i < j, sunk[i].kind = sunk[j].kind
        PROVE  /\ sunk[i].no < sunk[j].no
               /\ sunk[i].from = sunk[j].from /\ sunk[i].no + 1 < sunk[j].no =>
                      \E k \in i..j : sunk[k].kind = sunk[i].kind /\ sunk[k].no = sunk[i].no + 1
    <3>1. \A a, b \in 1..Len(sunk) : a < b /\ sunk[a].kind = sunk[b].kind => sunk[a].no < sunk[b].no
      <4>1. SUFFICES ASSUME NEW a \in 1..Len(sunk), NEW b \in 1..Len(sunk),
                            a < b, sunk[a].kind = sunk[b].kind
                     PROVE  sunk[a].no < sunk[b].no
        OBVIOUS
      <4>2. a \in 1..b - 1
        BY <2>3, <4>1
      <4>. QED  BY <2>1, <4>1, <4>2 DEF SinksInOrder
    <3>2. ASSUME sunk[i].from = sunk[j].from, sunk[i].no + 1 < sunk[j].no
          PROVE  \E k \in i..j : sunk[k].kind = sunk[i].kind /\ sunk[k].no = sunk[i].no + 1
      <4> DEFINE c == sunk[i].from
      <4>1. /\ c \in 1..Len(channels)
            /\ channels[c].missed < sunk[i].no /\ sunk[j].no <= Had(channels, c)
            /\ \A k \in 1..Len(sunk) : sunk[k].kind = channels[sunk[k].from].kind
        BY <2>1, <3>2 DEF SinksInOrder
      <4>2. channels[c].missed \in Nat /\ Had(channels, c) \in Nat
        <5>1. channels[c] \in Receivers
          BY <2>2, <4>1, ElementOfSeq
        <5>2. channels[c].missed \in Nat /\ channels[c].taken \in Nat
          BY <5>1 DEF Receivers
        <5>. QED  BY <5>2, SMTT(60) DEF Had
      <4> HIDE DEF c
      <4>3. sunk[i].no + 1 \in channels[c].missed + 1..Had(channels, c)
        <5>1. sunk[i].no \in Nat /\ sunk[j].no \in Nat
          BY <2>3
        <5>2. sunk[j].no <= Had(channels, c) /\ channels[c].missed < sunk[i].no
          BY <4>1
        <5>3. \A m, a, b, h \in Nat : m < a /\ a + 1 < b /\ b <= h => a + 1 \in m + 1..h
          OBVIOUS
        <5>. QED  BY <3>2, <4>2, <5>1, <5>2, <5>3
      <4>4. PICK k \in 1..Len(sunk) : sunk[k].from = c /\ sunk[k].no = sunk[i].no + 1
        BY <2>1, <4>1, <4>3 DEF SinksHadAll
      <4>5. sunk[k].kind = sunk[i].kind /\ sunk[k].kind = sunk[j].kind
        BY <2>5, <4>1, <4>4 DEF c
      <4>6. ~(k < i) /\ ~(j < k)
        <5>1. sunk[i].no \in Nat /\ sunk[j].no \in Nat
          BY <2>3
        <5>2. k < i => sunk[k].no < sunk[i].no
          BY <3>1, <4>5
        <5>3. j < k => sunk[j].no < sunk[k].no
          BY <3>1, <4>5
        <5>. QED  BY <3>2, <4>4, <5>1, <5>2, <5>3
      <4>7. k \in i..j
        BY <2>3, <4>4, <4>6
      <4>. QED  BY <4>4, <4>5, <4>7 DEF c
    <3>. QED  BY <2>5, <3>1, <3>2
  <2>. QED  BY <2>3, <2>4, <2>5 DEF LoadDeliversAll
<1>. QED  BY <1>2, <1>3

(* What a consumer was given has what it returned as its beginning.        *)
LEMMA GivenParts ==
    ASSUME PyTypes, NEW c \in Consumers
    PROVE  /\ Ascending(Given[c]) => Ascending(returned[c])
           /\ Range(Given[c]) = Range(returned[c])
                 \union (IF call # None /\ call.iter = c THEN Range(call.events) ELSE {})
                 \union (IF c \in Iterators THEN Range(iter[c].internal_buffer) ELSE {})
<1> DEFINE a == IF call # None /\ call.iter = c THEN call.events ELSE <<>>
           b == IF c \in Iterators THEN iter[c].internal_buffer ELSE <<>>
<1>1. <<>> \in Seq(Event) /\ Range(<<>>) = {}
  BY EmptySeq DEF Range
<1>2. a \in Seq(Event) /\ b \in Seq(Event) /\ returned[c] \in Seq(Event)
  <2>1. a \in Seq(Event)
    BY <1>1 DEF Calls, PyTypes
  <2>2. b \in Seq(Event)
    BY <1>1 DEF Iteration, PyTypes
  <2>. QED  BY <2>1, <2>2 DEF PyTypes
<1>3. /\ Range(a) = IF call # None /\ call.iter = c THEN Range(call.events) ELSE {}
      /\ Range(b) = IF c \in Iterators THEN Range(iter[c].internal_buffer) ELSE {}
  BY <1>1
<1>4. Given[c] = (returned[c] \o a) \o b
  BY DEF Given
<1> HIDE DEF a, b
<1>5. returned[c] \o a \in Seq(Event)
  BY <1>2, ConcatProperties
<1>6. Range(Given[c]) = (Range(returned[c]) \union Range(a)) \union Range(b)
  <2>1. Range(returned[c] \o a) = Range(returned[c]) \union Range(a)
    BY <1>2, ConcatRange
  <2> DEFINE v == returned[c] \o a
  <2>2. Given[c] = v \o b /\ v \in Seq(Event)
    BY <1>4, <1>5
  <2> HIDE DEF v
  <2>3. Range(v \o b) = Range(v) \union Range(b)
    BY <1>2, <2>2, ConcatRange
  <2>. QED  BY <2>1, <2>2, <2>3 DEF v
<1>7. Ascending(Given[c]) => Ascending(returned[c])
  BY <1>2, <1>4, <1>5, AscendingPrefix
<1>. QED  BY <1>3, <1>6, <1>7

LEMMA ToOneFromOrder ==
    PyTypes /\ OrderInv => EachEventToOneConsumer
<1>1. SUFFICES ASSUME PyTypes, OrderInv, host = "python"
               PROVE  /\ SunkEvents = InFlight \union Delivered \union lost
                      /\ \A c, d \in Consumers : c # d => Range(returned[c]) \intersect Range(returned[d]) = {}
                      /\ \A c \in Consumers : Ascending(returned[c])
                      /\ lost # {} => opened[1].eof
  BY DEF EachEventToOneConsumer, Ascending
<1>2. /\ GivenInOrder(Given, Coming, Unread(opened[1]))
      /\ SunkEvents = Events(queue) \union (UNION {Range(Given[c]) : c \in Consumers}) \union lost
      /\ lost # {} => opened[1].eof
  BY <1>1 DEF OrderInv
<1>3. \A c \in Consumers : Range(returned[c]) \subseteq Range(Given[c]) /\ Ascending(returned[c])
  BY <1>1, <1>2, GivenParts DEF GivenInOrder
<1>4. \A c, d \in Consumers : c # d => Range(returned[c]) \intersect Range(returned[d]) = {}
  <2>1. SUFFICES ASSUME NEW c \in Consumers, NEW d \in Consumers, c # d
                 PROVE  Range(returned[c]) \intersect Range(returned[d]) = {}
    OBVIOUS
  <2>2. Range(Given[c]) \intersect Range(Given[d]) = {}
    BY <1>2, <2>1 DEF GivenInOrder
  <2>. QED  BY <1>3, <2>2
<1> DEFINE G(c) == Range(returned[c])
                      \union (IF call # None /\ call.iter = c THEN Range(call.events) ELSE {})
                      \union (IF c \in Iterators THEN Range(iter[c].internal_buffer) ELSE {})
           E == IF call = None THEN {} ELSE Range(call.events)
           B == UNION {Range(iter[i].internal_buffer) : i \in Iterators}
<1>5. UNION {Range(Given[c]) : c \in Consumers} = B \union E \union Delivered
  <2>1. \A c \in Consumers : Range(Given[c]) = G(c)
    BY <1>1, GivenParts
  <2>2. Iterators \subseteq Consumers
    BY DEF Consumers
  <2>3. call # None => call.iter \in Consumers
    BY <1>1, <2>2 DEF PyTypes, Calls
  <2>4. ASSUME NEW e, NEW c \in Consumers, e \in Range(Given[c])
        PROVE  e \in B \union E \union Delivered
    <3>1. \/ e \in Range(returned[c])
          \/ call # None /\ e \in Range(call.events)
          \/ c \in Iterators /\ e \in Range(iter[c].internal_buffer)
      BY <2>1, <2>4
    <3>. QED  BY <3>1 DEF Delivered
  <2>5. ASSUME NEW e, e \in B \union E \union Delivered
        PROVE  \E c \in Consumers : e \in Range(Given[c])
    <3>1. CASE e \in B
      <4>1. PICK i \in Iterators : e \in Range(iter[i].internal_buffer)
        BY <3>1
      <4>2. e \in G(i)
        BY <4>1
      <4>. QED  BY <2>1, <2>2, <4>2
    <3>2. CASE e \in E
      <4>1. call # None /\ e \in Range(call.events)
        BY <3>2
      <4>2. e \in G(call.iter)
        BY <4>1
      <4>. QED  BY <2>1, <2>3, <4>1, <4>2
    <3>3. CASE e \in Delivered
      <4>1. PICK c \in Consumers : e \in Range(returned[c])
        BY <3>3 DEF Delivered
      <4>2. e \in G(c)
        BY <4>1
      <4>. QED  BY <2>1, <4>2
    <3>. QED  BY <2>5, <3>1, <3>2, <3>3
  <2> HIDE DEF B, E
  <2>. QED  BY <2>4, <2>5
<1>6. InFlight = Events(queue) \union B \union E
  BY DEF InFlight
<1> HIDE DEF B, E
<1>7. SunkEvents = InFlight \union Delivered \union lost
  BY <1>2, <1>5, <1>6
<1>. QED  BY <1>2, <1>3, <1>4, <1>7

-----------------------------------------------------------------------------
(* Types: every variable stays in the set of values it can have.           *)
THEOREM TypeCorrect ==
    Spec => []TypeOK
<1>1. IndInv => TypeOK
  BY DEF IndInv
<1>. QED  BY <1>1, Inductive, PTL

(* "Sends a batch to all subscribers" (the dispatcher's dispatch): a       *)
(* receiver that is held misses no batch of those its decoder decoded      *)
(* since it was made, whatever is opened, sought, subscribed or dropped.   *)
THEOREM NothingIsMissed ==
    Spec => []ReceiversMissNothing
<1>1. IndInv => ReceiversMissNothing
  BY MissNothingFromWired DEF IndInv
<1>. QED  BY <1>1, Inductive, PTL

(* "This updates the device, facilities, and optional index in place" (the *)
(* reader's try_open): the reader and its index are of one file, also      *)
(* after an open that failed half way.                                     *)
THEOREM OneFile ==
    Spec => []ReaderIsOfOneFile
<1>1. IndInv => ReaderIsOfOneFile
  BY DEF IndInv, RawInv
<1>. QED  BY <1>1, Inductive, PTL

(* "Every batch produced by that decode is sent to the callback" (the      *)
(* plugin's load_batch): the sinks get every batch, once, in order and     *)
(* without a gap, whatever a facility in another thread decodes meanwhile. *)
THEOREM LoadsDeliver ==
    Spec => []LoadDeliversAll
<1>1. IndInv => LoadDeliversAll
  BY DeliversFromSinks, IndParts DEF PyAll
<1>. QED  BY <1>1, Inductive, PTL

(* An event that the plugin gave to Python goes to one iterator or one     *)
(* receiver, in the order of the file; only the end of the file loses any. *)
THEOREM ToOneConsumer ==
    Spec => []EachEventToOneConsumer
<1>1. IndInv => EachEventToOneConsumer
  BY ToOneFromOrder, IndParts DEF PyAll, PyInv
<1>. QED  BY <1>1, Inductive, PTL

(* "Containing events within dt of the current time baseline" (next_delta):*)
(* the windows of an iterator abut, and no event lies in a later window    *)
(* than its own.                                                           *)
THEOREM WindowsOfAnIteratorAbut ==
    Spec => []WindowsAbut
<1>1. IndInv => WindowsAbut
  BY DEF IndInv
<1>. QED  BY <1>1, Inductive, PTL
=============================================================================
