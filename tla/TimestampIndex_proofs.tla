------------------------ MODULE TimestampIndex_proofs ------------------------
(***************************************************************************)
(* Theorems about the timestamp index, for every file, every size of its   *)
(* reads and chunks, and every width of the clock's fields.                *)
(***************************************************************************)
EXTENDS TimestampIndex, SequenceTheorems, FiniteSetTheorems, WellFoundedInduction, TLAPS

-----------------------------------------------------------------------------
(* The clock. *)

(* A timestamp's parts stay in range, whatever the words said. *)
LEMMA SampleType ==
    ASSUME NEW c \in Clock
    PROVE  /\ Sample(c) \in Clock
           /\ T24(c) \in 0..Period - 1
           /\ Sample(c).last24 = T24(c)
           /\ Sample(c).offset = Offset(c)
           /\ Offset(c) \in Nat
           /\ Offset(c) \in {c.offset, c.offset + Period}
<1>1. T24(c) \in 0..Period - 1
  <2>1. c.high \in 0..HIGHS - 1 /\ c.low \in 0..LOWS - 1
    BY DEF Clock
  <2>. QED  BY <2>1, WidthsAssumption DEF T24
<1>2. Offset(c) \in Nat /\ Offset(c) \in {c.offset, c.offset + Period}
  <2>1. c.offset \in Nat
    BY DEF Clock
  <2>. QED  BY <2>1, WidthsAssumption DEF Offset
<1>3. AbsTime(c) \in Nat
  BY <1>1, <1>2, WidthsAssumption DEF AbsTime
<1>4. First(c) \in Nat
  BY <1>3 DEF First, Clock
<1>5. SaturatingSub(AbsTime(c), First(c)) \in Nat
  BY <1>3, <1>4 DEF SaturatingSub
<1>. QED  BY <1>1, <1>2, <1>3, <1>4, <1>5 DEF Sample, Clock

(* Time words and a restored timing state keep the clock in range.         *)
LEMMA FieldsType ==
    ASSUME NEW c \in Clock
    PROVE  /\ \A l \in 0..LOWS - 1 : TimeLow(c, l) \in Clock
           /\ \A h \in 0..HIGHS - 1 : TimeHigh(c, h) \in Clock
           /\ Snapshot(c) \in TimingState
           /\ \A s \in TimingState : Restore(c, s) \in Clock
<1>1. \A l \in 0..LOWS - 1 : TimeLow(c, l) \in Clock
  BY DEF TimeLow, Clock
<1>2. \A h \in 0..HIGHS - 1 : TimeHigh(c, h) \in Clock
  BY DEF TimeHigh, Clock
<1>3. Snapshot(c) \in TimingState
  BY DEF Snapshot, TimingState, Clock
<1>4. ASSUME NEW s \in TimingState  PROVE Restore(c, s) \in Clock
  BY DEF Restore, TimingState, Clock
<1>. QED  BY <1>1, <1>2, <1>3, <1>4

-----------------------------------------------------------------------------
(* Induction.  A set of numbers has a least one, so a property that fails  *)
(* somewhere fails at a first place.                                       *)
LEMMA LeastNumber ==
    ASSUME NEW S, S \subseteq Nat, S # {}
    PROVE  \E m \in S : \A n \in S : m <= n
<1> DEFINE R == OpToRel(<, Nat)
<1>1. \A a, b \in Nat : <<a, b>> \in R <=> a < b
  BY DEF OpToRel
<1>2. IsWellFoundedOn(R, Nat)
  BY NatLessThanWellFounded
<1> HIDE DEF R
<1>3. PICK m \in S : \A n \in S : ~(<<n, m>> \in R)
  BY <1>2, WFMin
<1>4. ASSUME NEW n \in S
      PROVE  m <= n
  <2>1. m \in Nat /\ n \in Nat /\ ~(n < m)
    BY <1>1, <1>3
  <2>. QED  BY <2>1
<1>. QED  BY <1>3, <1>4

(* What holds of 0, and of n + 1 when it holds of n, holds up to N.        *)
LEMMA UpTo ==
    ASSUME NEW N \in Nat, NEW Holds, 0 \in Holds,
           \A n \in 0..N - 1 : n \in Holds => n + 1 \in Holds
    PROVE  \A n \in 0..N : n \in Holds
<1> DEFINE S == {n \in 0..N : n \notin Holds}
<1>1. SUFFICES ASSUME S # {}
               PROVE  FALSE
  OBVIOUS
<1>2. PICK m \in S : \A n \in S : m <= n
  <2>1. S \subseteq Nat
    OBVIOUS
  <2> HIDE DEF S
  <2>. QED  BY <1>1, <2>1, LeastNumber
<1>3. m # 0 /\ m \in 1..N /\ m - 1 \in 0..N - 1 /\ m \notin Holds
  BY <1>2
<1>4. m - 1 \in Holds
  BY <1>2, <1>3
<1>5. m - 1 + 1 = m
  BY <1>3
<1>. QED  BY <1>3, <1>4, <1>5

(* A bounded set of numbers has a greatest one.                            *)
LEMMA GreatestNumber ==
    ASSUME NEW S, NEW n \in Nat, S \subseteq 1..n, S # {}
    PROVE  \E m \in S : \A k \in S : k <= m
<1> DEFINE T == {n - k : k \in S}
<1>1. T \subseteq Nat /\ T # {}
  <2>1. \A k \in S : k \in 1..n /\ n - k \in Nat
    OBVIOUS
  <2>. QED  BY <2>1
<1>2. PICK t \in T : \A u \in T : t <= u
  <2> HIDE DEF T
  <2>. QED  BY <1>1, LeastNumber
<1>3. PICK m \in S : t = n - m
  BY <1>2
<1>4. ASSUME NEW k \in S
      PROVE  k <= m
  BY <1>2, <1>3
<1>. QED  BY <1>4

(* The equation of a function that is defined by recursion on numbers has  *)
(* a solution.                                                             *)
Unfolds(f, lo, hi, base, step) ==
    \A w \in lo..hi : f[w] = IF w = lo THEN base ELSE step[<<w, f[w - 1]>>]

LEMMA Recursion ==
    ASSUME NEW V, NEW lo \in Nat, NEW hi \in Nat, lo <= hi, NEW base \in V,
           NEW step \in [(lo + 1..hi) \X V -> V]
    PROVE  \E f \in [lo..hi -> V] : Unfolds(f, lo, hi, base, step)
<1> DEFINE Solves(f, n) ==
              \A w \in lo..lo + n : f[w] = IF w = lo THEN base ELSE step[<<w, f[w - 1]>>]
           Holds == {n \in 0..hi - lo : \E f \in [lo..lo + n -> V] : Solves(f, n)}
<1>1. 0 \in Holds
  <2>1. [w \in lo..lo + 0 |-> base] \in [lo..lo + 0 -> V]
    OBVIOUS
  <2>2. Solves([w \in lo..lo + 0 |-> base], 0)
    OBVIOUS
  <2>3. 0 \in 0..hi - lo
    OBVIOUS
  <2> HIDE DEF Solves
  <2>. QED  BY <2>1, <2>2, <2>3
<1>2. ASSUME NEW n \in 0..(hi - lo) - 1, n \in Holds
      PROVE  n + 1 \in Holds
  <2>1. PICK f \in [lo..lo + n -> V] : Solves(f, n)
    BY <1>2
  <2> DEFINE top == lo + n + 1
             g == [w \in lo..lo + (n + 1) |-> IF w = top THEN step[<<top, f[lo + n]>>] ELSE f[w]]
  <2>2. f[lo + n] \in V /\ top \in lo + 1..hi
    OBVIOUS
  <2>3. step[<<top, f[lo + n]>>] \in V
    BY <2>2
  <2>4. g \in [lo..lo + (n + 1) -> V]
    BY <2>3
  <2>5. ASSUME NEW w \in lo..lo + (n + 1)
        PROVE  g[w] = IF w = lo THEN base ELSE step[<<w, g[w - 1]>>]
    <3>1. CASE w = top
      <4>1. w # lo /\ w - 1 = lo + n /\ w - 1 # top /\ w - 1 \in lo..lo + (n + 1)
        BY <3>1
      <4>2. g[w - 1] = f[lo + n]
        BY <4>1
      <4>. QED  BY <3>1, <4>1, <4>2
    <3>2. CASE w # top
      <4>1. w \in lo..lo + n
        BY <3>2
      <4>2. g[w] = f[w]
        BY <3>2
      <4>3. w # lo => g[w - 1] = f[w - 1]
        BY <4>1
      <4>. QED  BY <2>1, <4>1, <4>2, <4>3
    <3>. QED  BY <3>1, <3>2
  <2>6. Solves(g, n + 1)
    BY <2>5
  <2> HIDE DEF g, Solves
  <2>7. \E f2 \in [lo..lo + (n + 1) -> V] : Solves(f2, n + 1)
    BY <2>4, <2>6
  <2>. QED  BY <2>7
<1> HIDE DEF Solves
<1>3. hi - lo \in Nat
  OBVIOUS
<1>4. \A n \in 0..hi - lo : n \in Holds
  <2>1. \A n \in 0..(hi - lo) - 1 : n \in Holds => n + 1 \in Holds
    BY <1>2
  <2> HIDE DEF Holds
  <2>. QED  BY <1>1, <1>3, <2>1, UpTo
<1>5. hi - lo \in Holds
  <2> HIDE DEF Holds
  <2>1. hi - lo \in 0..hi - lo
    BY <1>3
  <2>. QED  BY <1>4, <2>1
<1>6. lo + (hi - lo) = hi
  OBVIOUS
<1>7. \E f \in [lo..hi -> V] : Solves(f, hi - lo)
  BY <1>5, <1>6
<1>. QED  BY <1>6, <1>7 DEF Solves, Unfolds

-----------------------------------------------------------------------------
(* What a file is. *)
LEMMA FileType ==
    ASSUME file \in Files
    PROVE  /\ file.words \in Seq([kind : Kinds, v : Nat])
           /\ Len(file.words) \in Nat /\ DOMAIN file.words = 1..Len(file.words)
           /\ file.trailing \in 0..1
           /\ Size = 2 * Len(file.words) + file.trailing /\ Size \in Nat
           /\ \A w \in 1..Len(file.words) :
                 /\ file.words[w].kind \in Kinds /\ file.words[w].v \in Nat
                 /\ file.words[w].kind = "low" => file.words[w].v \in 0..LOWS - 1
                 /\ file.words[w].kind = "high" => file.words[w].v \in 0..HIGHS - 1
<1>1. /\ file.words \in Seq([kind : Kinds, v : Nat])
      /\ file.trailing \in 0..1
      /\ \A w \in DOMAIN file.words :
            /\ file.words[w].kind = "low" => file.words[w].v < LOWS
            /\ file.words[w].kind = "high" => file.words[w].v < HIGHS
  BY FilesAssumption
<1>2. Len(file.words) \in Nat /\ DOMAIN file.words = 1..Len(file.words)
  BY <1>1
<1>3. \A w \in 1..Len(file.words) : file.words[w] \in [kind : Kinds, v : Nat]
  BY <1>1, ElementOfSeq
<1>4. Size = 2 * Len(file.words) + file.trailing /\ Size \in Nat
  BY <1>1, <1>2 DEF Size
<1>. QED  BY <1>1, <1>2, <1>3, <1>4, WidthsAssumption

(* What may be accepted are words of the file. *)
LEMMA AcceptableWords ==
    ASSUME file \in Files
    PROVE  \A w \in Acceptable(resumed.at) : w \in Nat
<1>1. \A w \in Acceptable(resumed.at) : w \in DOMAIN file.words
  BY DEF Acceptable, WordsIn
<1>. QED  BY <1>1, FileType

(* A word that the index scans keeps its clock a clock. *)
LEMMA ScanType ==
    ASSUME file \in Files, NEW c \in Clock, NEW w \in DOMAIN file.words
    PROVE  Scan(c, file.words[w]) \in Clock
<1>1. /\ file.words[w].kind = "low" => file.words[w].v \in 0..LOWS - 1
      /\ file.words[w].kind = "high" => file.words[w].v \in 0..HIGHS - 1
      /\ file.words[w].kind \in Kinds
  BY FileType
<1>2. Sample(c) \in Clock
  BY SampleType
<1>. QED  BY <1>1, <1>2, FieldsType DEF Scan, Kinds, EventWords

(* The clock after each word is the one before it that scans the word. *)
Scans(after, c, first, last) ==
    /\ after \in [first - 1..last -> Clock]
    /\ after[first - 1] = c
    /\ \A w \in first..last : after[w] = Scan(after[w - 1], file.words[w])

LEMMA ScanAllEquation ==
    ASSUME file \in Files, NEW c \in Clock, NEW first \in Nat \ {0}, NEW last \in Nat,
           first <= last + 1, last <= Len(file.words)
    PROVE  Scans(ScanAll(c, first, last), c, first, last)
<1> DEFINE lo == first - 1
           Solves(f) == f = [w \in first - 1..last |->
                               IF w < first THEN c ELSE Scan(f[w - 1], file.words[w])]
           step == [p \in (first..last) \X Clock |-> Scan(p[2], file.words[p[1]])]
<1>1. \A w \in first..last : w \in DOMAIN file.words
  BY FileType
<1>2. \A w \in lo + 1..last, v \in Clock :
         step[<<w, v>>] = Scan(v, file.words[w]) /\ step[<<w, v>>] \in Clock
  BY <1>1, ScanType
<1>3. \E f \in [lo..last -> Clock] : Unfolds(f, lo, last, c, step)
  <2>1. lo \in Nat /\ lo <= last
    OBVIOUS
  <2>2. step \in [(lo + 1..last) \X Clock -> Clock]
    BY <1>1, ScanType
  <2> HIDE DEF lo, step
  <2>. QED  BY <2>1, <2>2, Recursion
<1>4. PICK f \in [lo..last -> Clock] :
         \A w \in lo..last : f[w] = IF w = lo THEN c ELSE step[<<w, f[w - 1]>>]
  BY <1>3 DEF Unfolds
<1>5. ASSUME NEW w \in lo..last
      PROVE  f[w] = IF w < first THEN c ELSE Scan(f[w - 1], file.words[w])
  <2>1. CASE w = lo
    <3>1. w < first
      BY <2>1
    <3>2. f[w] = c
      <4> HIDE DEF step
      <4>. QED  BY <1>4, <2>1
    <3>. QED  BY <3>1, <3>2
  <2>2. CASE w # lo
    <3>1. w \in lo + 1..last /\ w - 1 \in lo..last /\ ~(w < first)
      BY <2>2
    <3>2. f[w - 1] \in Clock
      BY <3>1
    <3> HIDE DEF step
    <3>. QED  BY <1>2, <1>4, <2>2, <3>1, <3>2
  <2>. QED  BY <2>1, <2>2
<1>6. Solves(f)
  BY <1>5
<1>7. Solves(ScanAll(c, first, last))
  <2>1. ScanAll(c, first, last) = CHOOSE g : Solves(g)
    BY DEF ScanAll
  <2> HIDE DEF Solves
  <2>. QED  BY <1>6, <2>1
<1> DEFINE after == ScanAll(c, first, last)
<1>8. DOMAIN after = lo..last
  BY <1>7
<1>9. \A w \in lo..last : after[w] = IF w < first THEN c ELSE Scan(after[w - 1], file.words[w])
  BY <1>7
<1>10. after[lo] = c
  BY <1>9
<1>11. \A w \in first..last : after[w] = Scan(after[w - 1], file.words[w])
  BY <1>9
<1>12. \A w \in lo..last : after[w] \in Clock
  <2> DEFINE Holds == {n \in 0..last - lo : after[lo + n] \in Clock}
  <2>1. 0 \in Holds
    BY <1>10
  <2>2. ASSUME NEW n \in 0..(last - lo) - 1, n \in Holds
        PROVE  n + 1 \in Holds
    <3>1. lo + (n + 1) \in first..last /\ lo + (n + 1) - 1 = lo + n
      OBVIOUS
    <3>2. after[lo + (n + 1)] = Scan(after[lo + n], file.words[lo + (n + 1)])
      BY <1>11, <3>1
    <3>3. after[lo + n] \in Clock
      BY <2>2
    <3> HIDE DEF after
    <3>. QED  BY <1>1, <3>1, <3>2, <3>3, ScanType
  <2>3. last - lo \in Nat
    OBVIOUS
  <2>4. \A n \in 0..last - lo : n \in Holds
    <3> HIDE DEF Holds
    <3>. QED  BY <2>1, <2>2, <2>3, UpTo
  <2>5. ASSUME NEW w \in lo..last
        PROVE  after[w] \in Clock
    <3>1. w - lo \in 0..last - lo /\ lo + (w - lo) = w
      OBVIOUS
    <3>2. after[lo + (w - lo)] \in Clock
      BY <2>4, <3>1
    <3>. QED  BY <3>1, <3>2
  <2>. QED  BY <2>5
<1>13. after = [w \in lo..last |-> after[w]]
  BY <1>7, <1>8
<1> HIDE DEF after
<1>14. after \in [lo..last -> Clock]
  BY <1>12, <1>13
<1>15. Scans(after, c, first, last)
  BY <1>10, <1>11, <1>14 DEF Scans
<1>. QED  BY <1>15 DEF after

-----------------------------------------------------------------------------
(* What a decoder is, and that a word leaves it one. *)
Decoders == [clock : Clock, y : BOOLEAN, decoded : Seq(DecodedEvents)]

LEMMA DecodedType ==
    ASSUME NEW d \in Decoders, NEW w \in DOMAIN file.words
    PROVE  /\ Decoded(d, w) \in Decoders
           /\ Decoded(d, w) = [clock |-> Sample(d.clock), y |-> d.y,
                 decoded |-> Append(d.decoded, [word |-> w, t |-> Sample(d.clock).last])]
<1>1. Sample(d.clock) \in Clock /\ Sample(d.clock).last \in Nat
  <2>1. Sample(d.clock) \in Clock
    BY SampleType DEF Decoders
  <2>. QED  BY <2>1 DEF Clock
<1>2. [word |-> w, t |-> Sample(d.clock).last] \in DecodedEvents
  BY <1>1 DEF DecodedEvents
<1>3. Append(d.decoded, [word |-> w, t |-> Sample(d.clock).last]) \in Seq(DecodedEvents)
  BY <1>2 DEF Decoders
<1>4. Decoded(d, w) = [clock |-> Sample(d.clock), y |-> d.y,
         decoded |-> Append(d.decoded, [word |-> w, t |-> Sample(d.clock).last])]
  <2> DEFINE c == Sample(d.clock)
             e == Append(d.decoded, [word |-> w, t |-> Sample(d.clock).last])
  <2>1. Decoded(d, w) = [d EXCEPT !.clock = c, !.decoded = e]
    BY DEF Decoded
  <2> HIDE DEF c, e
  <2>2. [d EXCEPT !.clock = c, !.decoded = e] = [clock |-> c, y |-> d.y, decoded |-> e]
    <3>1. DOMAIN d = {"clock", "y", "decoded"}
      BY DEF Decoders
    <3>2. [d EXCEPT !.clock = c, !.decoded = e]
             = [x \in {"clock", "y", "decoded"} |->
                  IF x = "decoded" THEN e ELSE IF x = "clock" THEN c ELSE d[x]]
      BY <3>1
    <3>3. [clock |-> c, y |-> d.y, decoded |-> e]
             = [x \in {"clock", "y", "decoded"} |->
                  IF x = "decoded" THEN e ELSE IF x = "clock" THEN c ELSE d[x]]
      OBVIOUS
    <3>. QED  BY <3>2, <3>3
  <2>. QED  BY <2>1, <2>2 DEF c, e
<1>. QED  BY <1>1, <1>3, <1>4 DEF Decoders

LEMMA ProcessWordType ==
    ASSUME file \in Files, NEW d \in Decoders, NEW w \in DOMAIN file.words
    PROVE  ProcessWord(d, w) \in Decoders
<1>1. /\ file.words[w].kind = "low" => file.words[w].v \in 0..LOWS - 1
      /\ file.words[w].kind = "high" => file.words[w].v \in 0..HIGHS - 1
  BY FileType
<1>2. file.words[w].kind = "low" => [d EXCEPT !.clock = TimeLow(@, file.words[w].v)] \in Decoders
  BY <1>1, FieldsType DEF Decoders
<1>3. file.words[w].kind = "high" => [d EXCEPT !.clock = TimeHigh(@, file.words[w].v)] \in Decoders
  BY <1>1, FieldsType DEF Decoders
<1>4. [d EXCEPT !.y = TRUE] \in Decoders
  BY DEF Decoders
<1>. QED  BY <1>2, <1>3, <1>4, DecodedType DEF ProcessWord

(* A call of decode that starts with a whole word processes the words from *)
(* there on, one after another.                                            *)
StepsOf(after, d, first, count) ==
    /\ after \in [0..count -> Decoders]
    /\ after[0] = d
    /\ \A n \in 1..count : after[n] = ProcessWord(after[n - 1], first \div 2 + n)
    /\ DecodeWords(d, first, count) = after[count]

LEMMA DecodeWordsSteps ==
    ASSUME file \in Files, NEW d \in Decoders, NEW first \in Nat, first % 2 = 0,
           NEW count \in Nat, first \div 2 + count <= Len(file.words)
    PROVE  \E after : StepsOf(after, d, first, count)
<1> DEFINE Solves(f) == f = [n \in 0..count |->
              IF n = 0 THEN d
              ELSE LET b == first + 2 * (n - 1)
                   IN  IF b % 2 = 0 THEN ProcessWord(f[n - 1], b \div 2 + 1)
                                    ELSE TornWord(f[n - 1])]
           step == [p \in (0 + 1..count) \X Decoders |-> ProcessWord(p[2], first \div 2 + p[1])]
<1>1. \A n \in 1..count : first \div 2 + n \in DOMAIN file.words
  BY FileType
<1>2. \E f \in [0..count -> Decoders] : Unfolds(f, 0, count, d, step)
  <2>1. 0 <= count
    OBVIOUS
  <2>2. step \in [(0 + 1..count) \X Decoders -> Decoders]
    BY <1>1, ProcessWordType
  <2> HIDE DEF step
  <2>. QED  BY <2>1, <2>2, Recursion
<1>3. PICK f \in [0..count -> Decoders] : Unfolds(f, 0, count, d, step)
  BY <1>2
<1>4. f[0] = d
  <2>1. 0 \in 0..count
    OBVIOUS
  <2> HIDE DEF step
  <2>. QED  BY <1>3, <2>1 DEF Unfolds
<1>5. ASSUME NEW n \in 1..count
      PROVE  f[n] = ProcessWord(f[n - 1], first \div 2 + n)
  <2>1. n \in 0..count /\ n # 0 /\ n \in 0 + 1..count /\ n - 1 \in 0..count
    OBVIOUS
  <2>2. f[n] = step[<<n, f[n - 1]>>]
    <3> HIDE DEF step
    <3>. QED  BY <1>3, <2>1 DEF Unfolds
  <2>3. f[n - 1] \in Decoders
    BY <2>1
  <2>4. <<n, f[n - 1]>> \in (0 + 1..count) \X Decoders
    BY <2>1, <2>3
  <2>. QED  BY <2>2, <2>4
<1>6. \A n \in 1..count : LET b == first + 2 * (n - 1)
                          IN  b % 2 = 0 /\ b \div 2 + 1 = first \div 2 + n
  OBVIOUS
<1>7. Solves(f)
  <2>1. ASSUME NEW n \in 0..count
        PROVE  f[n] = IF n = 0 THEN d
                      ELSE LET b == first + 2 * (n - 1)
                           IN  IF b % 2 = 0 THEN ProcessWord(f[n - 1], b \div 2 + 1)
                                            ELSE TornWord(f[n - 1])
    <3>1. CASE n = 0
      BY <1>4, <3>1
    <3>2. CASE n # 0
      <4>1. n \in 1..count
        BY <3>2
      <4>. QED  BY <1>5, <1>6, <3>2, <4>1
    <3>. QED  BY <3>1, <3>2
  <2>. QED  BY <2>1
<1> DEFINE chosen == CHOOSE g : Solves(g)
<1>8. Solves(chosen)
  <2> HIDE DEF Solves
  <2>. QED  BY <1>7
<1>9. DecodeWords(d, first, count) = chosen[count]
  BY DEF DecodeWords
<1> HIDE DEF chosen
<1>10. chosen[0] = d
  BY <1>8
<1>11. \A n \in 1..count : chosen[n] = ProcessWord(chosen[n - 1], first \div 2 + n)
  BY <1>6, <1>8
<1>12. \A n \in 0..count : chosen[n] \in Decoders
  <2> DEFINE Holds == {n \in 0..count : chosen[n] \in Decoders}
  <2>1. 0 \in Holds
    BY <1>10
  <2>2. ASSUME NEW n \in 0..count - 1, n \in Holds
        PROVE  n + 1 \in Holds
    <3>1. n + 1 \in 1..count /\ n + 1 - 1 = n
      OBVIOUS
    <3>2. chosen[n + 1] = ProcessWord(chosen[n], first \div 2 + (n + 1))
      BY <1>11, <3>1
    <3>3. chosen[n] \in Decoders
      BY <2>2
    <3>4. chosen[n + 1] \in Decoders
      BY <1>1, <3>1, <3>2, <3>3, ProcessWordType
    <3>. QED  BY <3>1, <3>4
  <2>3. \A n \in 0..count : n \in Holds
    <3> HIDE DEF Holds
    <3>. QED  BY <2>1, <2>2, UpTo
  <2>. QED  BY <2>3
<1>13. chosen = [n \in 0..count |-> chosen[n]]
  BY <1>8
<1>14. chosen \in [0..count -> Decoders]
  BY <1>12, <1>13
<1>15. StepsOf(chosen, d, first, count)
  BY <1>9, <1>10, <1>11, <1>14 DEF StepsOf
<1>. QED  BY <1>15

-----------------------------------------------------------------------------
(* The last sample among the first n words: there is none, or it is the    *)
(* one of the latest word.                                                 *)
LEMMA LastSampleCases ==
    ASSUME NEW samples, NEW N \in Nat, DOMAIN samples \subseteq 1..N, NEW n \in Nat
    PROVE  \/ LastSample(samples, n) = InitClock /\ \A w \in DOMAIN samples : ~(w <= n)
           \/ \E w \in DOMAIN samples :
                 /\ w <= n /\ LastSample(samples, n) = samples[w]
                 /\ \A v \in DOMAIN samples : v <= n => v <= w
<1> DEFINE S == {w \in DOMAIN samples : w <= n}
<1>1. CASE S = {}
  BY <1>1 DEF LastSample
<1>2. CASE S # {}
  <2>1. \E w \in S : \A v \in S : v <= w
    <3>1. S \subseteq 1..N
      OBVIOUS
    <3> HIDE DEF S
    <3>. QED  BY <1>2, <3>1, GreatestNumber
  <2> DEFINE m == CHOOSE w \in S : \A v \in S : v <= w
  <2>2. m \in S /\ \A v \in S : v <= m
    BY <2>1
  <2>3. LastSample(samples, n) = samples[m]
    BY <1>2 DEF LastSample
  <2> HIDE DEF m
  <2>. QED  BY <2>2, <2>3
<1>. QED  BY <1>1, <1>2

LEMMA LastSampleIs ==
    ASSUME NEW samples, NEW N \in Nat, DOMAIN samples \subseteq 1..N, NEW n \in Nat,
           NEW w \in DOMAIN samples, w <= n, \A v \in DOMAIN samples : v <= n => v <= w
    PROVE  LastSample(samples, n) = samples[w]
<1>1. PICK m \in DOMAIN samples : /\ m <= n /\ LastSample(samples, n) = samples[m]
                                  /\ \A v \in DOMAIN samples : v <= n => v <= m
  BY LastSampleCases
<1>2. m <= w /\ w <= m /\ m \in Nat /\ w \in Nat
  BY <1>1
<1>. QED  BY <1>1, <1>2

LEMMA InitClockType == InitClock \in Clock
<1>1. 0 \in 0..HIGHS - 1 /\ 0 \in 0..LOWS - 1 /\ 0 \in 0..Period - 1
  BY WidthsAssumption
<1>. QED  BY <1>1 DEF InitClock, Clock

LEMMA LastSampleType ==
    ASSUME NEW samples, NEW N \in Nat, DOMAIN samples \subseteq 1..N, NEW n \in Nat,
           \A w \in DOMAIN samples : samples[w] \in Clock
    PROVE  LastSample(samples, n) \in Clock
BY InitClockType, LastSampleCases

(* It does not depend on what was sampled later.                           *)
LEMMA LastSampleSame ==
    ASSUME NEW s, NEW t, NEW N \in Nat, DOMAIN s \subseteq 1..N, DOMAIN t \subseteq 1..N,
           NEW n \in Nat, NEW m \in Nat,
           {w \in DOMAIN s : w <= n} = {w \in DOMAIN t : w <= m},
           \A w \in DOMAIN s : w <= n => s[w] = t[w]
    PROVE  LastSample(s, n) = LastSample(t, m)
<1>1. CASE \A w \in DOMAIN s : ~(w <= n)
  <2>1. \A w \in DOMAIN t : ~(w <= m)
    BY <1>1
  <2>2. LastSample(s, n) = InitClock
    BY <1>1, LastSampleCases
  <2>3. LastSample(t, m) = InitClock
    BY <2>1, LastSampleCases
  <2>. QED  BY <2>2, <2>3
<1>2. CASE \E w \in DOMAIN s : w <= n
  <2>1. PICK w \in DOMAIN s : /\ w <= n /\ LastSample(s, n) = s[w]
                              /\ \A v \in DOMAIN s : v <= n => v <= w
    BY <1>2, LastSampleCases
  <2>2. w \in DOMAIN t /\ w <= m /\ \A v \in DOMAIN t : v <= m => v <= w
    BY <2>1
  <2>3. LastSample(t, m) = t[w]
    BY <2>2, LastSampleIs
  <2>. QED  BY <2>1, <2>3
<1>. QED  BY <1>1, <1>2

(* The latest word of a kind is unique, and one more word may replace it.  *)
LEMMA LatestUnique ==
    ASSUME NEW f, NEW g, NEW kind, NEW n \in Nat, Latest(f, kind, n), Latest(g, kind, n)
    PROVE  f = g
<1>1. CASE \A w \in 1..n : file.words[w].kind # kind
  BY <1>1 DEF Latest
<1>2. CASE \E w \in 1..n : file.words[w].kind = kind
  <2>1. PICK v \in 1..n : /\ file.words[v].kind = kind /\ f = file.words[v].v
                          /\ \A u \in v + 1..n : file.words[u].kind # kind
    BY <1>2 DEF Latest
  <2>2. PICK w \in 1..n : /\ file.words[w].kind = kind /\ g = file.words[w].v
                          /\ \A u \in w + 1..n : file.words[u].kind # kind
    BY <1>2 DEF Latest
  <2>3. v = w
    <3>1. ~(v \in w + 1..n) /\ ~(w \in v + 1..n)
      BY <2>1, <2>2
    <3>. QED  BY <3>1
  <2>. QED  BY <2>1, <2>2, <2>3
<1>. QED  BY <1>1, <1>2

LEMMA LatestStep ==
    ASSUME NEW f, NEW kind, NEW n \in Nat, Latest(f, kind, n)
    PROVE  Latest(IF file.words[n + 1].kind = kind THEN file.words[n + 1].v ELSE f, kind, n + 1)
<1>1. CASE file.words[n + 1].kind = kind
  <2>1. n + 1 \in 1..n + 1 /\ \A u \in (n + 1) + 1..n + 1 : FALSE
    OBVIOUS
  <2>. QED  BY <1>1, <2>1 DEF Latest
<1>2. CASE file.words[n + 1].kind # kind
  <2>1. CASE f = 0 /\ \A w \in 1..n : file.words[w].kind # kind
    <3>1. \A w \in 1..n + 1 : w \in 1..n \/ w = n + 1
      OBVIOUS
    <3>. QED  BY <1>2, <2>1, <3>1 DEF Latest
  <2>2. CASE \E w \in 1..n : /\ file.words[w].kind = kind /\ f = file.words[w].v
                             /\ \A u \in w + 1..n : file.words[u].kind # kind
    <3>1. PICK w \in 1..n : /\ file.words[w].kind = kind /\ f = file.words[w].v
                            /\ \A u \in w + 1..n : file.words[u].kind # kind
      BY <2>2
    <3>2. w \in 1..n + 1 /\ \A u \in w + 1..n + 1 : u \in w + 1..n \/ u = n + 1
      OBVIOUS
    <3>3. \A u \in w + 1..n + 1 : file.words[u].kind # kind
      BY <1>2, <3>1, <3>2
    <3>. QED  BY <1>2, <3>1, <3>2, <3>3 DEF Latest
  <2>. QED  BY <2>1, <2>2 DEF Latest
<1>. QED  BY <1>1, <1>2

(* Two clocks whose fields are those of the same words ask for the same    *)
(* time.                                                                   *)
LEMMA FieldsUnique ==
    ASSUME NEW c, NEW d, NEW n \in Nat, FieldsOf(c, n), FieldsOf(d, n)
    PROVE  c.high = d.high /\ c.low = d.low /\ T24(c) = T24(d)
<1>1. c.high = d.high /\ c.low = d.low
  BY LatestUnique DEF FieldsOf
<1>. QED  BY <1>1 DEF T24

LEMMA FieldsStep ==
    ASSUME NEW c, NEW d, NEW n \in Nat, FieldsOf(c, n),
           d.high = IF file.words[n + 1].kind = "high" THEN file.words[n + 1].v ELSE c.high,
           d.low = IF file.words[n + 1].kind = "low" THEN file.words[n + 1].v ELSE c.low
    PROVE  FieldsOf(d, n + 1)
<1>1. Latest(d.high, "high", n + 1)
  BY LatestStep DEF FieldsOf
<1>2. Latest(d.low, "low", n + 1)
  BY LatestStep DEF FieldsOf
<1>. QED  BY <1>1, <1>2 DEF FieldsOf

-----------------------------------------------------------------------------
(* What a word does to a clock, of the index or of a decoder. *)
LEMMA SampleIs ==
    ASSUME NEW c \in Clock
    PROVE  /\ Sample(c).high = c.high /\ Sample(c).low = c.low
           /\ Sample(c).offset = Offset(c) /\ Sample(c).last24 = T24(c)
           /\ Sample(c).last24 = T24(Sample(c))
           /\ c.first # None => Sample(c).first = c.first
           /\ DoShift => Sample(c).first # None
           /\ Sample(c).last = Shown(Sample(c), Sample(c).first)
           /\ Follows(Sample(c), c)
<1>1. /\ Sample(c).high = c.high /\ Sample(c).low = c.low
      /\ Sample(c).offset = Offset(c) /\ Sample(c).last24 = T24(c)
      /\ Sample(c).first = IF DoShift THEN First(c) ELSE c.first
      /\ Sample(c).last = IF DoShift THEN SaturatingSub(AbsTime(c), First(c)) ELSE AbsTime(c)
  BY DEF Sample, Clock
<1>2. Sample(c).last24 = T24(Sample(c))
  BY <1>1 DEF T24
<1>3. Absolute(Sample(c)) = AbsTime(c)
  BY <1>1 DEF Absolute, AbsTime
<1>4. First(c) # None
  <2>1. AbsTime(c) \in Nat
    <3>1. Offset(c) \in Nat /\ T24(c) \in Nat
      BY SampleType
    <3>. QED  BY <3>1 DEF AbsTime
  <2>. QED  BY <2>1, NoneAssumption DEF First
<1>5. c.first # None => First(c) = c.first
  BY DEF First
<1>6. Follows(Sample(c), c)
  BY <1>1, SampleType, WidthsAssumption DEF Follows, Clock
<1>. QED  BY <1>1, <1>2, <1>3, <1>4, <1>5, <1>6 DEF Shown

LEMMA TimeWordsAre ==
    ASSUME NEW c \in Clock, NEW v
    PROVE  /\ TimeLow(c, v).high = c.high /\ TimeLow(c, v).low = v
           /\ TimeHigh(c, v).high = v /\ TimeHigh(c, v).low = c.low
           /\ \A d \in {TimeLow(c, v), TimeHigh(c, v)} :
                 Agrees(d, c) /\ d.last = c.last /\ d.first = c.first
BY DEF TimeLow, TimeHigh, Agrees, Clock

LEMMA ScanIs ==
    ASSUME NEW c \in Clock, NEW word, word.kind \in Kinds
    PROVE  /\ word.kind \in EventWords => Scan(c, word) = Sample(c)
           /\ word.kind \notin EventWords =>
                 /\ Agrees(Scan(c, word), c) /\ Scan(c, word).last = c.last
                 /\ Scan(c, word).first = c.first
           /\ Scan(c, word).high = IF word.kind = "high" THEN word.v ELSE c.high
           /\ Scan(c, word).low = IF word.kind = "low" THEN word.v ELSE c.low
<1>1. CASE word.kind = "low"
  <2>1. Scan(c, word) = TimeLow(c, word.v)
    BY <1>1 DEF Scan, EventWords
  <2>. QED  BY <1>1, <2>1, TimeWordsAre DEF EventWords
<1>2. CASE word.kind = "high"
  <2>1. Scan(c, word) = TimeHigh(c, word.v)
    BY <1>2 DEF Scan, EventWords
  <2>. QED  BY <1>2, <2>1, TimeWordsAre DEF EventWords
<1>3. CASE word.kind \in EventWords
  <2>1. Scan(c, word) = Sample(c)
    BY <1>3 DEF Scan, EventWords
  <2>2. word.kind # "high" /\ word.kind # "low"
    BY <1>3 DEF EventWords
  <2>. QED  BY <1>3, <2>1, <2>2, SampleIs
<1>4. CASE word.kind = "row"
  <2>1. Scan(c, word) = c
    BY <1>4 DEF Scan, EventWords
  <2>. QED  BY <1>4, <2>1 DEF EventWords, Agrees
<1>. QED  BY <1>1, <1>2, <1>3, <1>4 DEF Kinds, EventWords

LEMMA FollowsTransitive ==
    ASSUME NEW c, NEW d, NEW e, c.offset \in Nat, d.offset \in Nat, e.offset \in Nat,
           Follows(e, d), Follows(d, c)
    PROVE  Follows(e, c)
BY WidthsAssumption DEF Follows

(* The index keeps in step with the words, one after another. *)
LEMMA IndexStep ==
    ASSUME file \in Files, NEW samples, DOMAIN samples \subseteq 1..Len(file.words),
           \A w \in DOMAIN samples : samples[w] \in Clock,
           NEW n \in 0..Len(file.words) - 1, NEW c \in Clock, Indexed(c, samples, n),
           n + 1 \in DOMAIN samples <=> file.words[n + 1].kind \in EventWords,
           n + 1 \in DOMAIN samples => samples[n + 1] = Scan(c, file.words[n + 1])
    PROVE  Indexed(Scan(c, file.words[n + 1]), samples, n + 1)
<1> DEFINE N == Len(file.words)
           word == file.words[n + 1]
           d == Scan(c, word)
           last == LastSample(samples, n)
<1>1. N \in Nat /\ n \in Nat /\ n + 1 \in 1..N /\ n + 1 \in Nat /\ word.kind \in Kinds
  BY FileType
<1>2. FieldsOf(d, n + 1)
  <2>1. FieldsOf(c, n)
    BY DEF Indexed
  <2>. QED  BY <1>1, <2>1, ScanIs, FieldsStep
<1>3. CASE word.kind \notin EventWords
  <2>1. \A w \in DOMAIN samples : w <= n + 1 <=> w <= n
    <3>1. \A w \in DOMAIN samples : w \in Nat /\ w # n + 1
      BY <1>3
    <3>. QED  BY <1>1, <3>1
  <2>2. LastSample(samples, n + 1) = last
    <3>1. {w \in DOMAIN samples : w <= n + 1} = {w \in DOMAIN samples : w <= n}
      BY <2>1
    <3>. QED  BY <1>1, <3>1, LastSampleSame
  <2>3. Agrees(d, c) /\ d.last = c.last /\ d.first = c.first
    BY <1>1, <1>3, ScanIs
  <2>4. Agrees(d, last) /\ d.last = last.last
    BY <2>3 DEF Indexed, Agrees
  <2>5. \A w \in DOMAIN samples : w <= n + 1 =>
          /\ FieldsOf(samples[w], w) /\ samples[w].last24 = T24(samples[w])
          /\ DoShift => d.first # None
          /\ samples[w].last = Shown(samples[w], d.first)
          /\ Follows(samples[w], InitClock)
          /\ \A v \in DOMAIN samples : v < w => Follows(samples[w], samples[v])
    BY <2>1, <2>3 DEF Indexed
  <2> HIDE DEF d, word, last
  <2>6. Indexed(d, samples, n + 1)
    BY <1>2, <2>2, <2>4, <2>5 DEF Indexed
  <2>. QED  BY <2>6 DEF d, word
<1>4. CASE word.kind \in EventWords
  <2>1. n + 1 \in DOMAIN samples /\ samples[n + 1] = d /\ d = Sample(c)
    BY <1>1, <1>4, ScanIs
  <2>2. LastSample(samples, n + 1) = d
    <3>1. \A v \in DOMAIN samples : v <= n + 1 => v <= n + 1
      OBVIOUS
    <3>2. n + 1 <= n + 1
      BY <1>1
    <3>3. LastSample(samples, n + 1) = samples[n + 1]
      BY <1>1, <2>1, <3>2, LastSampleIs
    <3>. QED  BY <2>1, <3>3
  <2>3. d.last24 = T24(d) /\ (DoShift => d.first # None) /\ d.last = Shown(d, d.first)
        /\ Follows(d, c) /\ (c.first # None => d.first = c.first)
    BY <2>1, SampleIs
  <2>4. d \in Clock
    BY <2>1, SampleType
  <2>5. last \in Clock /\ Agrees(c, last)
    BY <1>1, LastSampleType DEF Indexed
  <2>6. Follows(d, last)
    BY <2>3, <2>5 DEF Agrees, Follows
  <2>7. \A w \in DOMAIN samples : w <= n => Follows(d, samples[w])
    <3>1. CASE \A w \in DOMAIN samples : ~(w <= n)
      BY <3>1
    <3>2. CASE \E w \in DOMAIN samples : w <= n
      <4>1. PICK m \in DOMAIN samples : /\ m <= n /\ last = samples[m]
                                        /\ \A v \in DOMAIN samples : v <= n => v <= m
        BY <1>1, <3>2, LastSampleCases
      <4>2. ASSUME NEW w \in DOMAIN samples, w <= n
            PROVE  Follows(d, samples[w])
        <5>1. CASE w = m
          BY <2>6, <4>1, <5>1
        <5>2. CASE w # m
          <6>1. w < m
            <7>1. w \in Nat /\ m \in Nat /\ w <= m
              BY <4>1, <4>2
            <7>. QED  BY <5>2, <7>1
          <6>2. Follows(last, samples[w])
            BY <4>1, <6>1 DEF Indexed
          <6>3. d.offset \in Nat /\ last.offset \in Nat /\ samples[w].offset \in Nat
            BY <2>4, <2>5 DEF Clock
          <6> HIDE DEF d, last
          <6>. QED  BY <2>6, <6>2, <6>3, FollowsTransitive
        <5>. QED  BY <5>1, <5>2
      <4>. QED  BY <4>2
    <3>. QED  BY <3>1, <3>2
  <2>8. Follows(d, InitClock)
    <3>1. CASE \A w \in DOMAIN samples : ~(w <= n)
      <4>1. last = InitClock
        BY <1>1, <3>1, LastSampleCases
      <4>. QED  BY <2>6, <4>1
    <3>2. CASE \E w \in DOMAIN samples : w <= n
      <4>1. PICK w \in DOMAIN samples : w <= n
        BY <3>2
      <4>2. Follows(samples[w], InitClock)
        BY <4>1 DEF Indexed
      <4>3. d.offset \in Nat /\ samples[w].offset \in Nat /\ InitClock.offset \in Nat
        BY <2>4 DEF Clock, InitClock
      <4> HIDE DEF d
      <4>. QED  BY <2>7, <4>1, <4>2, <4>3, FollowsTransitive
    <3>. QED  BY <3>1, <3>2
  <2> HIDE DEF d, word, last
  <2>9. ASSUME NEW w \in DOMAIN samples, w <= n + 1
        PROVE  /\ FieldsOf(samples[w], w) /\ samples[w].last24 = T24(samples[w])
               /\ DoShift => d.first # None
               /\ samples[w].last = Shown(samples[w], d.first)
               /\ Follows(samples[w], InitClock)
               /\ \A v \in DOMAIN samples : v < w => Follows(samples[w], samples[v])
    <3>1. CASE w = n + 1
      <4>1. \A v \in DOMAIN samples : v < w => v <= n
        BY <1>1, <3>1
      <4>. QED  BY <1>2, <2>1, <2>3, <2>7, <2>8, <3>1, <4>1
    <3>2. CASE w # n + 1
      <4>1. w <= n
        BY <1>1, <2>9, <3>2
      <4>2. samples[w].last = Shown(samples[w], c.first) /\ (DoShift => c.first # None)
        BY <4>1 DEF Indexed
      <4>3. samples[w].last = Shown(samples[w], d.first) /\ (DoShift => d.first # None)
        BY <2>3, <4>2 DEF Shown
      <4>. QED  BY <4>1, <4>3 DEF Indexed
    <3>. QED  BY <3>1, <3>2
  <2>10. Agrees(d, d)
    BY DEF Agrees
  <2>11. Indexed(d, samples, n + 1)
    BY <1>2, <2>2, <2>9, <2>10 DEF Indexed
  <2>. QED  BY <2>11 DEF d, word
<1>. QED  BY <1>3, <1>4

-----------------------------------------------------------------------------
(* A clock that has sampled last what the index had, when the index sampled*)
(* a word, counts the rollovers the index counted, if no gap hides one.    *)
LEMMA TraceStep ==
    ASSUME NEW c \in Clock, NEW from \in Clock, NEW to \in Clock,
           Agrees(c, from), Follows(to, from), to.last24 = T24(to), T24(c) = T24(to),
           Traceable(from, to)
    PROVE  /\ Agrees(Sample(c), to)
           /\ Absolute(Sample(c)) = Absolute(to)
<1>1. /\ c.offset = from.offset /\ c.last24 = from.last24 /\ from.last24 \in 0..Period - 1
      /\ T24(c) = to.last24 /\ to.last24 \in 0..Period - 1
      /\ c.offset \in Nat /\ to.offset \in Nat /\ Period \in Nat /\ Half \in Nat
  BY WidthsAssumption DEF Agrees, Clock
<1>2. Offset(c) = to.offset
  <2>1. CASE to.offset = from.offset
    BY <1>1, <2>1 DEF Traceable, Absolute, Offset, RolledOver
  <2>2. CASE to.offset # from.offset
    <3>1. to.offset + to.last24 < from.offset + from.last24 + Period - Half
      BY <2>2 DEF Traceable, Absolute
    <3>2. to.offset = from.offset + Period
      BY <1>1, <2>2, <3>1 DEF Follows
    <3>. QED  BY <1>1, <3>1, <3>2 DEF Offset, RolledOver
  <2>. QED  BY <2>1, <2>2
<1>3. Sample(c).offset = to.offset /\ Sample(c).last24 = to.last24
  BY <1>1, <1>2, SampleIs
<1>. QED  BY <1>3 DEF Agrees, Absolute

LEMMA ProcessWordIs ==
    ASSUME file \in Files, NEW d \in Decoders, NEW w \in DOMAIN file.words
    PROVE  LET kind == file.words[w].kind
               e == ProcessWord(d, w)
           IN  /\ kind = "ext" \/ (kind = "x" /\ d.y) => e = Decoded(d, w)
               /\ ~(kind = "ext" \/ (kind = "x" /\ d.y)) =>
                     /\ e.decoded = d.decoded
                     /\ Agrees(e.clock, d.clock) /\ e.clock.first = d.clock.first
                     /\ e.y <=> kind = "row" \/ d.y
                     /\ e.clock.high = IF kind = "high" THEN file.words[w].v ELSE d.clock.high
                     /\ e.clock.low = IF kind = "low" THEN file.words[w].v ELSE d.clock.low
<1> DEFINE kind == file.words[w].kind
           v == file.words[w].v
           e == ProcessWord(d, w)
<1>1. kind \in Kinds /\ d.clock \in Clock /\ d.y \in BOOLEAN
  BY FileType DEF Decoders
<1>2. CASE kind = "low"
  <2>1. e = [d EXCEPT !.clock = TimeLow(d.clock, v)]
    BY <1>2 DEF ProcessWord
  <2>2. e.clock = TimeLow(d.clock, v) /\ e.decoded = d.decoded /\ e.y = d.y
    BY <2>1 DEF Decoders
  <2> HIDE DEF e, v
  <2>3. TimeLow(d.clock, v).high = d.clock.high /\ TimeLow(d.clock, v).low = v
        /\ Agrees(TimeLow(d.clock, v), d.clock) /\ TimeLow(d.clock, v).first = d.clock.first
    BY <1>1, TimeWordsAre
  <2>. QED  BY <1>1, <1>2, <2>2, <2>3 DEF e, v
<1>3. CASE kind = "high"
  <2>1. e = [d EXCEPT !.clock = TimeHigh(d.clock, v)]
    BY <1>3 DEF ProcessWord
  <2>2. e.clock = TimeHigh(d.clock, v) /\ e.decoded = d.decoded /\ e.y = d.y
    BY <2>1 DEF Decoders
  <2> HIDE DEF e, v
  <2>3. TimeHigh(d.clock, v).low = d.clock.low /\ TimeHigh(d.clock, v).high = v
        /\ Agrees(TimeHigh(d.clock, v), d.clock) /\ TimeHigh(d.clock, v).first = d.clock.first
    BY <1>1, TimeWordsAre
  <2>. QED  BY <1>1, <1>3, <2>2, <2>3 DEF e, v
<1>4. CASE kind = "row"
  <2>1. e = [d EXCEPT !.y = TRUE]
    BY <1>4 DEF ProcessWord
  <2>2. e.clock = d.clock /\ e.decoded = d.decoded /\ e.y = TRUE
    BY <2>1 DEF Decoders
  <2>. QED  BY <1>4, <2>2 DEF Agrees
<1>5. CASE kind = "ext" \/ (kind = "x" /\ d.y)
  BY <1>5 DEF ProcessWord
<1>6. CASE kind \in {"x", "far"} /\ ~(kind = "x" /\ d.y)
  <2>1. e = d
    BY <1>6 DEF ProcessWord
  <2>. QED  BY <1>1, <1>6, <2>1 DEF Agrees
<1>. QED  BY <1>1, <1>2, <1>3, <1>4, <1>5, <1>6 DEF Kinds

(* A row is known once its word has been seen, and an event is accepted if *)
(* its row is known.                                                       *)
LEMMA RowStep ==
    ASSUME file \in Files, NEW at \in Nat, NEW n \in 0..Len(file.words) - 1, at <= 2 * n
    PROVE  (\E v \in WordsIn(at, 2 * (n + 1)) : file.words[v].kind = "row")
             <=> file.words[n + 1].kind = "row"
                 \/ \E v \in WordsIn(at, 2 * n) : file.words[v].kind = "row"
<1>1. Len(file.words) \in Nat /\ DOMAIN file.words = 1..Len(file.words)
  BY FileType
<1>2. n + 1 \in WordsIn(at, 2 * (n + 1))
  BY <1>1 DEF WordsIn
<1>3. \A v : v \in WordsIn(at, 2 * (n + 1)) <=> v \in WordsIn(at, 2 * n) \/ v = n + 1
  BY <1>1, <1>2 DEF WordsIn
<1>. QED  BY <1>3

LEMMA AcceptableStep ==
    ASSUME file \in Files, NEW at \in Nat, NEW n \in 0..Len(file.words) - 1, at <= 2 * n
    PROVE  n + 1 \in Acceptable(at)
             <=> \/ file.words[n + 1].kind = "ext"
                 \/ /\ file.words[n + 1].kind = "x"
                    /\ \E v \in WordsIn(at, 2 * n) : file.words[v].kind = "row"
<1>1. /\ Len(file.words) \in Nat /\ DOMAIN file.words = 1..Len(file.words)
      /\ Size \in Nat /\ 2 * Len(file.words) <= Size
  BY FileType
<1>2. n + 1 \in WordsIn(at, Size)
  BY <1>1 DEF WordsIn
<1>3. \A v : v \in WordsIn(at, 2 * n) <=> v \in WordsIn(at, Size) /\ v < n + 1
  BY <1>1 DEF WordsIn
<1>. QED  BY <1>2, <1>3 DEF Acceptable

-----------------------------------------------------------------------------
(* A decoder keeps in step with the index, one word after another. *)
Complete(c) ==
    /\ DOMAIN timeline = {w \in 1..Len(file.words) : file.words[w].kind \in EventWords}
    /\ \A w \in DOMAIN timeline : timeline[w] \in Clock
    /\ Indexed(c, timeline, Len(file.words))

(* What Sampled says of events that are in step: a clock of the index, of  *)
(* one of the words that were seen.                                        *)
LEMMA SampledIs ==
    ASSUME file \in Files, NEW c, Complete(c), resumed.at \in Nat,
           NEW n \in 0..Len(file.words), resumed.at <= 2 * n, NEW d \in Decoders, InStep(d, n),
           NEW i \in 0..Len(d.decoded)
    PROVE  /\ Sampled(d.decoded, i) \in Clock
           /\ \/ Sampled(d.decoded, i) = InitClock
              \/ \E w \in DOMAIN timeline : w <= n /\ Sampled(d.decoded, i) = timeline[w]
<1> DEFINE N == Len(file.words)
<1>1. N \in Nat /\ DOMAIN timeline \subseteq 1..N /\ n \in Nat
  BY FileType DEF Complete
<1>2. CASE i = 0
  <2>1. resumed.at \div 2 \in Nat /\ resumed.at \div 2 <= n
    BY <1>1
  <2>2. Sampled(d.decoded, i) = LastSample(timeline, resumed.at \div 2)
    BY <1>2 DEF Sampled, SampledBefore
  <2>3. LastSample(timeline, resumed.at \div 2) \in Clock
    BY <1>1, <2>1, LastSampleType DEF Complete
  <2>4. \/ LastSample(timeline, resumed.at \div 2) = InitClock
        \/ \E w \in DOMAIN timeline :
              w <= resumed.at \div 2 /\ LastSample(timeline, resumed.at \div 2) = timeline[w]
    BY <1>1, <2>1, LastSampleCases
  <2>5. \A w \in DOMAIN timeline : w <= resumed.at \div 2 => w <= n
    BY <1>1, <2>1
  <2>. QED  BY <2>2, <2>3, <2>4, <2>5
<1>3. CASE i # 0
  <2>1. i \in DOMAIN d.decoded
    BY <1>3 DEF Decoders
  <2>2. Sampled(d.decoded, i) = timeline[d.decoded[i].word]
    BY <1>3 DEF Sampled
  <2>3. d.decoded[i].word \in {w \in Acceptable(resumed.at) : w <= n}
    BY <2>1 DEF InStep
  <2>4. d.decoded[i].word \in DOMAIN timeline
    BY <2>3, FileType DEF Acceptable, WordsIn, EventWords, Complete
  <2>. QED  BY <2>2, <2>3, <2>4 DEF Complete
<1>. QED  BY <1>2, <1>3

(* An event is accepted. *)
LEMMA DecodedInStep ==
    ASSUME file \in Files, NEW c, Complete(c), resumed.at \in Nat,
           NEW n \in 0..Len(file.words) - 1, resumed.at <= 2 * n, NEW d \in Decoders, InStep(d, n),
           file.words[n + 1].kind \in {"ext", "x"}, n + 1 \in Acceptable(resumed.at)
    PROVE  InStep(Decoded(d, n + 1), n + 1)
<1> DEFINE N == Len(file.words)
           L == Len(d.decoded)
           old == d.decoded
           to == timeline[n + 1]
           sampled == Sample(d.clock)
           new == Append(old, [word |-> n + 1, t |-> sampled.last])
           e == Decoded(d, n + 1)
<1>1. /\ N \in Nat /\ n \in Nat /\ n + 1 \in 1..N /\ n + 1 \in DOMAIN file.words
      /\ n \in 0..N
  BY FileType
<1>2. /\ old \in Seq(DecodedEvents) /\ L \in Nat /\ d.clock \in Clock /\ DOMAIN old = 1..L
  BY DEF Decoders
<1>3. e.clock = sampled /\ e.y = d.y /\ e.decoded = new
  BY <1>1, DecodedType
<1>4. /\ Len(new) = L + 1 /\ DOMAIN new = 1..L + 1
      /\ \A i \in 1..L : new[i] = old[i]
      /\ new[L + 1] = [word |-> n + 1, t |-> sampled.last]
  BY <1>2
<1>5. n + 1 \in DOMAIN timeline /\ to \in Clock
  BY <1>1 DEF Complete, EventWords
<1>6. \A i \in 1..L : old[i].word \in Acceptable(resumed.at) /\ old[i].word <= n /\ old[i].word \in Nat
  <2>1. \A i \in 1..L : old[i].word \in {w \in Acceptable(resumed.at) : w <= n}
    <3>1. {d.decoded[i].word : i \in DOMAIN d.decoded} = {w \in Acceptable(resumed.at) : w <= n}
      BY DEF InStep
    <3>2. DOMAIN d.decoded = 1..L
      BY <1>2
    <3> HIDE DEF L
    <3>. QED  BY <3>1, <3>2
  <2>2. \A w \in Acceptable(resumed.at) : w \in Nat
    BY AcceptableWords
  <2> HIDE DEF old, L, new, e, sampled
  <2>3. ASSUME NEW i \in 1..L
        PROVE  old[i].word \in Acceptable(resumed.at) /\ old[i].word <= n
    BY <2>1
  <2>. QED  BY <2>2, <2>3
<1>7. FieldsOf(sampled, n + 1) /\ T24(d.clock) = T24(to)
  <2>1. file.words[n + 1].kind # "high" /\ file.words[n + 1].kind # "low"
    OBVIOUS
  <2>2. FieldsOf(d.clock, n)
    BY DEF InStep
  <2>3. FieldsOf(d.clock, n + 1)
    BY <1>1, <2>1, <2>2, FieldsStep
  <2>4. FieldsOf(to, n + 1)
    BY <1>1, <1>5 DEF Complete, Indexed
  <2>5. sampled.high = d.clock.high /\ sampled.low = d.clock.low
    BY <1>2, SampleIs
  <2>6. FieldsOf(sampled, n + 1)
    BY <2>3, <2>5 DEF FieldsOf
  <2>. QED  BY <1>1, <2>3, <2>4, <2>6, FieldsUnique
<1>8. e.y <=> \E v \in WordsIn(resumed.at, 2 * (n + 1)) : file.words[v].kind = "row"
  <2>1. file.words[n + 1].kind # "row"
    OBVIOUS
  <2>. QED  BY <1>3, <2>1, RowStep DEF InStep
<1> HIDE DEF e
<1>9. {new[i].word : i \in DOMAIN new} = {w \in Acceptable(resumed.at) : w <= n + 1}
  <2>1. {old[i].word : i \in 1..L} = {w \in Acceptable(resumed.at) : w <= n}
    BY <1>2 DEF InStep
  <2>2. \A w \in Acceptable(resumed.at) : w <= n + 1 <=> w <= n \/ w = n + 1
    <3>1. \A w \in Acceptable(resumed.at) : w \in Nat
      BY AcceptableWords
    <3>. QED  BY <1>1, <3>1
  <2>3. {new[i].word : i \in DOMAIN new} = {old[i].word : i \in 1..L} \union {n + 1}
    <3>1. \A i \in DOMAIN new : i \in 1..L \/ i = L + 1
      BY <1>2, <1>4
    <3>2. \A i \in 1..L : i \in DOMAIN new
      BY <1>2, <1>4
    <3>3. L + 1 \in DOMAIN new
      BY <1>2, <1>4
    <3>4. new[L + 1].word = n + 1 /\ \A i \in 1..L : new[i].word = old[i].word
      BY <1>4
    <3> HIDE DEF new, old, L
    <3>5. \A i \in DOMAIN new : new[i].word \in {old[j].word : j \in 1..L} \union {n + 1}
      BY <3>1, <3>4
    <3>6. \A i \in 1..L : old[i].word \in {new[j].word : j \in DOMAIN new}
      BY <3>2, <3>4
    <3>7. n + 1 \in {new[j].word : j \in DOMAIN new}
      BY <3>3, <3>4
    <3>. QED  BY <3>5, <3>6, <3>7
  <2>4. n + 1 <= n + 1
    BY <1>1
  <2> HIDE DEF new
  <2>. QED  BY <2>1, <2>2, <2>3, <2>4
<1>10. \A i, j \in DOMAIN new : j < i => new[j].word < new[i].word
  <2> HIDE DEF old, L, new, e, sampled, to
  <2>0. L \in Nat
    BY <1>2
  <2>1. ASSUME NEW i \in 1..L + 1, NEW j \in 1..L + 1, j < i
        PROVE  new[j].word < new[i].word
    <3>1. CASE i = L + 1
      <4>1. j \in 1..L
        BY <2>0, <2>1, <3>1
      <4>2. new[j].word <= n /\ new[j].word \in Nat /\ new[i].word = n + 1
        BY <1>4, <1>6, <3>1, <4>1
      <4>. QED  BY <1>1, <4>2
    <3>2. CASE i # L + 1
      <4>1. i \in 1..L /\ j \in 1..L
        BY <2>0, <2>1, <3>2
      <4>2. old[j].word < old[i].word
        <5>1. i \in DOMAIN d.decoded /\ j \in DOMAIN d.decoded
          BY <1>2, <4>1 DEF old
        <5>. QED  BY <2>1, <5>1 DEF InStep, old
      <4>. QED  BY <1>4, <4>1, <4>2
    <3>. QED  BY <3>1, <3>2
  <2>. QED  BY <1>4, <2>1
<1>11. DoShift => sampled.first # None
  BY <1>2, SampleIs
<1>12. \A i \in 0..L : Sampled(new, i) = Sampled(old, i)
  BY <1>2, <1>4 DEF Sampled
<1>13. Sampled(new, L + 1) = to
  <2>1. L + 1 # 0 /\ new[L + 1].word = n + 1
    BY <1>2, <1>4
  <2>. QED  BY <2>1 DEF Sampled
<1>14. \A i \in 0..L : Traced(new, i) <=> Traced(old, i)
  <2>1. ASSUME NEW i \in 0..L, NEW j \in 1..i
        PROVE  Sampled(new, j - 1) = Sampled(old, j - 1) /\ Sampled(new, j) = Sampled(old, j)
    <3>1. j - 1 \in 0..L /\ j \in 0..L
      BY <1>2
    <3>. QED  BY <1>12, <3>1
  <2>. QED  BY <2>1 DEF Traced
<1>15. Traced(new, L + 1) => Traced(new, L) /\ Traceable(Sampled(old, L), to)
  <2>1. L + 1 \in 1..L + 1 /\ (L + 1) - 1 = L /\ \A j \in 1..L : j \in 1..L + 1
    BY <1>2
  <2>2. L \in 0..L
    BY <1>2
  <2>3. Sampled(new, L) = Sampled(old, L)
    BY <1>12, <2>2
  <2>. QED  BY <1>13, <2>1, <2>3 DEF Traced
<1>16. Traced(new, L + 1) => Agrees(sampled, to) /\ Absolute(sampled) = Absolute(to)
  <2>1. SUFFICES ASSUME Traced(new, L + 1)
                 PROVE  Agrees(sampled, to) /\ Absolute(sampled) = Absolute(to)
    OBVIOUS
  <2>2. L \in 0..L
    BY <1>2
  <2>3. Traced(old, L) /\ Traceable(Sampled(old, L), to)
    BY <1>14, <1>15, <2>1, <2>2
  <2>4. Agrees(d.clock, Sampled(old, L))
    BY <2>3 DEF InStep
  <2>5. /\ Sampled(old, L) \in Clock
        /\ \/ Sampled(old, L) = InitClock
           \/ \E w \in DOMAIN timeline : w <= n /\ Sampled(old, L) = timeline[w]
    BY <1>1, <2>2, SampledIs
  <2>6. Follows(to, Sampled(old, L)) /\ to.last24 = T24(to)
    <3>1. \A w \in DOMAIN timeline : w <= n => w < n + 1
      BY <1>1 DEF Complete
    <3>2. n + 1 <= N
      BY <1>1
    <3>3. /\ Follows(to, InitClock) /\ to.last24 = T24(to)
          /\ \A v \in DOMAIN timeline : v < n + 1 => Follows(to, timeline[v])
      BY <1>5, <3>2 DEF Complete, Indexed
    <3>. QED  BY <2>5, <3>1, <3>3
  <2>. QED  BY <1>2, <1>5, <1>7, <2>3, <2>4, <2>5, <2>6, TraceStep
<1>17. \A i \in DOMAIN new : Traced(new, i) =>
          new[i].t = Shown(timeline[new[i].word], sampled.first)
  <2>1. ASSUME NEW i \in 1..L, Traced(new, i)
        PROVE  new[i].t = Shown(timeline[new[i].word], sampled.first)
    <3>1. Traced(old, i)
      BY <1>2, <1>14, <2>1
    <3>2. old[i].t = Shown(timeline[old[i].word], d.clock.first)
      BY <1>2, <3>1 DEF InStep
    <3>3. DoShift => sampled.first = d.clock.first
      <4>1. old # <<>>
        BY <1>2
      <4>2. DoShift => d.clock.first # None
        BY <4>1 DEF InStep
      <4>. QED  BY <1>2, <4>2, SampleIs
    <3> HIDE DEF new, sampled, old
    <3>. QED  BY <1>4, <2>1, <3>2, <3>3 DEF Shown
  <2>2. ASSUME Traced(new, L + 1)
        PROVE  new[L + 1].t = Shown(timeline[new[L + 1].word], sampled.first)
    <3>1. sampled.last = Shown(sampled, sampled.first)
      BY <1>2, SampleIs
    <3>2. Absolute(sampled) = Absolute(to)
      BY <1>16, <2>2
    <3>3. new[L + 1].t = sampled.last /\ new[L + 1].word = n + 1
      BY <1>4
    <3> HIDE DEF new, sampled
    <3>. QED  BY <3>1, <3>2, <3>3 DEF Shown
  <2>3. \A i \in DOMAIN new : i \in 1..L \/ i = L + 1
    BY <1>2, <1>4
  <2> HIDE DEF new, sampled
  <2>. QED  BY <2>1, <2>2, <2>3
<1>18. Traced(new, Len(new)) => Agrees(sampled, Sampled(new, Len(new)))
  BY <1>4, <1>13, <1>16
<1> HIDE DEF new, sampled
<1>19. InStep(e, n + 1)
  BY <1>3, <1>7, <1>8, <1>9, <1>10, <1>11, <1>17, <1>18 DEF InStep
<1>. QED  BY <1>19 DEF e

(* Any word. *)
LEMMA DecoderStep ==
    ASSUME file \in Files, NEW c, Complete(c), resumed.at \in Nat,
           NEW n \in 0..Len(file.words) - 1, resumed.at <= 2 * n, NEW d \in Decoders, InStep(d, n)
    PROVE  InStep(ProcessWord(d, n + 1), n + 1)
<1> DEFINE kind == file.words[n + 1].kind
           accepted == kind = "ext" \/ (kind = "x" /\ d.y)
           e == ProcessWord(d, n + 1)
<1>1. n \in Nat /\ n + 1 \in DOMAIN file.words /\ d.clock \in Clock
  BY FileType DEF Decoders
<1>2. accepted <=> n + 1 \in Acceptable(resumed.at)
  BY AcceptableStep DEF InStep
<1>3. CASE accepted
  <2>1. e = Decoded(d, n + 1)
    BY <1>1, <1>3, ProcessWordIs
  <2>. QED  BY <1>2, <1>3, <2>1, DecodedInStep
<1>4. CASE ~accepted
  <2>1. /\ e.decoded = d.decoded
        /\ Agrees(e.clock, d.clock) /\ e.clock.first = d.clock.first
        /\ e.y <=> kind = "row" \/ d.y
        /\ e.clock.high = IF kind = "high" THEN file.words[n + 1].v ELSE d.clock.high
        /\ e.clock.low = IF kind = "low" THEN file.words[n + 1].v ELSE d.clock.low
    BY <1>1, <1>4, ProcessWordIs
  <2> HIDE DEF e
  <2>2. FieldsOf(e.clock, n + 1)
    <3>1. FieldsOf(d.clock, n)
      BY DEF InStep
    <3>. QED  BY <1>1, <2>1, <3>1, FieldsStep
  <2>3. e.y <=> \E v \in WordsIn(resumed.at, 2 * (n + 1)) : file.words[v].kind = "row"
    BY <2>1, RowStep DEF InStep
  <2>4. {w \in Acceptable(resumed.at) : w <= n + 1} = {w \in Acceptable(resumed.at) : w <= n}
    <3>1. \A w \in Acceptable(resumed.at) : w \in Nat /\ w # n + 1
      <4>1. \A w \in Acceptable(resumed.at) : w \in Nat
        BY AcceptableWords
      <4>. QED  BY <1>2, <1>4, <4>1
    <3> DEFINE A == Acceptable(resumed.at)
    <3>2. \A w \in A : w <= n + 1 <=> w <= n
      BY <1>1, <3>1
    <3> HIDE DEF A
    <3>3. {w \in A : w <= n + 1} = {w \in A : w <= n}
      BY <3>2
    <3>. QED  BY <3>3 DEF A
  <2>5. Agrees(d.clock, Sampled(d.decoded, Len(d.decoded)))
           => Agrees(e.clock, Sampled(d.decoded, Len(d.decoded)))
    BY <2>1 DEF Agrees
  <2> HIDE DEF accepted, kind
  <2>6. InStep(e, n + 1)
    BY <2>1, <2>2, <2>3, <2>4, <2>5 DEF InStep
  <2>. QED  BY <2>6 DEF e
<1>. QED  BY <1>3, <1>4

(* A call of decode that starts with a whole word and ends in the file. *)
LEMMA DecodeInStep ==
    ASSUME file \in Files, NEW c, Complete(c), resumed.at \in Nat,
           NEW first \in Nat, first % 2 = 0, resumed.at <= first,
           NEW count \in Nat, first \div 2 + count <= Len(file.words),
           NEW d \in Decoders, InStep(d, first \div 2)
    PROVE  /\ DecodeWords(d, first, count) \in Decoders
           /\ InStep(DecodeWords(d, first, count), first \div 2 + count)
<1>0. PICK after : StepsOf(after, d, first, count)
  BY DecodeWordsSteps
<1>1. /\ after \in [0..count -> Decoders]
      /\ after[0] = d
      /\ \A n \in 1..count : after[n] = ProcessWord(after[n - 1], first \div 2 + n)
      /\ DecodeWords(d, first, count) = after[count]
  BY <1>0 DEF StepsOf
<1> DEFINE p == first \div 2
           Holds == {n \in 0..count : InStep(after[n], p + n)}
<1>2. p \in Nat /\ first = 2 * p /\ Len(file.words) \in Nat
  BY FileType
<1>3. 0 \in Holds
  BY <1>1
<1>4. ASSUME NEW n \in 0..count - 1, n \in Holds
      PROVE  n + 1 \in Holds
  <2>1. /\ n + 1 \in 1..count /\ n + 1 - 1 = n /\ n \in 0..count /\ n + 1 \in 0..count
        /\ p + n \in 0..Len(file.words) - 1
        /\ resumed.at <= 2 * (p + n) /\ p + (n + 1) = (p + n) + 1
    BY <1>2
  <2>2. after[n + 1] = ProcessWord(after[n], (p + n) + 1)
    BY <1>1, <2>1
  <2>3. after[n] \in Decoders /\ InStep(after[n], p + n)
    BY <1>1, <1>4, <2>1
  <2> HIDE DEF p
  <2>4. InStep(ProcessWord(after[n], (p + n) + 1), (p + n) + 1)
    BY <2>1, <2>3, DecoderStep
  <2>. QED  BY <2>1, <2>2, <2>4
<1>5. count \in Holds
  <2>1. \A n \in 0..count : n \in Holds
    <3> HIDE DEF Holds
    <3>. QED  BY <1>3, <1>4, UpTo
  <2>2. count \in 0..count
    OBVIOUS
  <2> HIDE DEF Holds
  <2>. QED  BY <2>1, <2>2
<1>6. after[count] \in Decoders
  BY <1>1
<1>. QED  BY <1>1, <1>5, <1>6

(* A decoder that was just moved to an offset, with the fields and the last*)
(* sample the index had there, is in step.                                 *)
Starts(d) ==
    /\ file \in Files /\ resumed.at \in 0..Size /\ Even(resumed.at)
    /\ d.decoded = <<>> /\ d.y = FALSE
    /\ FieldsOf(d.clock, resumed.at \div 2) /\ Agrees(d.clock, SampledBefore(resumed.at))

LEMMA StartInStep == \A d : Starts(d) => InStep(d, resumed.at \div 2)
<1> SUFFICES ASSUME NEW d, Starts(d)
             PROVE  InStep(d, resumed.at \div 2)
  OBVIOUS
<1> USE DEF Starts
<1> DEFINE n == resumed.at \div 2
<1>1. /\ resumed.at \in Nat /\ DOMAIN file.words = 1..Len(file.words) /\ Len(file.words) \in Nat
      /\ Size = 2 * Len(file.words) + file.trailing /\ file.trailing \in 0..1
  BY FileType
<1>2. WordsIn(resumed.at, 2 * n) = {}
  BY <1>1 DEF WordsIn
<1>3. \A w \in WordsIn(resumed.at, Size) : w > n
  <2>1. ASSUME NEW w \in 1..Len(file.words), 2 * w - 2 >= resumed.at
        PROVE  w > n
    BY <1>1, <2>1 DEF Even
  <2>. QED  BY <1>1, <2>1 DEF WordsIn
<1>4. {w \in Acceptable(resumed.at) : w <= n} = {}
  <2>1. \A w \in Acceptable(resumed.at) : w > n /\ w \in Nat /\ n \in Nat
    BY <1>1, <1>3 DEF Acceptable, WordsIn
  <2> HIDE DEF n
  <2>. QED  BY <2>1
<1>5. DOMAIN d.decoded = {} /\ Len(d.decoded) = 0
  OBVIOUS
<1>6. Sampled(d.decoded, 0) = SampledBefore(resumed.at)
  BY DEF Sampled
<1> HIDE DEF n
<1>7. InStep(d, n)
  BY <1>2, <1>4, <1>5, <1>6, FieldsUnique DEF InStep, n
<1>. QED  BY <1>7 DEF n

-----------------------------------------------------------------------------
(* The invariant.  It holds at the start ...                               *)
LEMMA StartMarker ==
    ASSUME NEW offset, NEW timestamp, NEW c \in Clock
    PROVE  LET m == Marker(offset, timestamp, c)
           IN  /\ m.byte_offset = offset /\ m.timestamp = timestamp
               /\ m.state.high = c.high /\ m.state.low = c.low
               /\ m.state.offset = c.offset /\ m.state.last24 = c.last24
               /\ m.state \in TimingState
               /\ offset \in 0..Size /\ timestamp \in Nat => m \in Markers
<1>1. Snapshot(c) \in TimingState
  BY FieldsType
<1>. QED  BY <1>1 DEF Marker, Snapshot, Markers

LEMMA InitFields ==
    ASSUME NEW c, c.high = 0, c.low = 0
    PROVE  FieldsOf(c, 0)
BY DEF FieldsOf, Latest

LEMMA InitIndInv == Init => IndInv
<1> SUFFICES ASSUME Init
             PROVE  IndInv
  OBVIOUS
<1> DEFINE m == Marker(0, 0, InitClock)
<1>1. /\ file \in Files /\ Size \in Nat /\ Len(file.words) \in Nat
      /\ DOMAIN file.words = 1..Len(file.words) /\ InitClock \in Clock
  BY FileType, InitClockType DEF Init
<1>2. /\ m.byte_offset = 0 /\ m.timestamp = 0 /\ m.state \in TimingState /\ m \in Markers
      /\ m.state.high = InitClock.high /\ m.state.low = InitClock.low
      /\ m.state.offset = InitClock.offset /\ m.state.last24 = InitClock.last24
  <2>1. 0 \in 0..Size
    BY <1>1
  <2>. QED  BY <1>1, <2>1, StartMarker
<1> HIDE DEF m
<1>3. markers = <<m>> /\ DOMAIN markers = 1..1 /\ markers[1] = m
  BY DEF Init, m
<1>4. timeline = <<>> /\ DOMAIN timeline = {}
  BY DEF Init
<1>5. \A n \in Nat : LastSample(timeline, n) = InitClock
  <2>1. \A n : {w \in DOMAIN timeline : w <= n} = {}
    BY <1>4
  <2>. QED  BY <2>1 DEF LastSample
<1>6. TypeOK
  <2>1. markers \in Seq(Markers)
    BY <1>2, <1>3
  <2>2. decoded \in Seq(DecodedEvents)
    BY DEF Init
  <2>3. resumed.at = 0 /\ resumed.target = 0 /\ index = None
    BY DEF Init
  <2>4. seeks \in 0..MaxSeeks /\ reads \in 0..MaxReads
    BY FilesAssumption DEF Init
  <2>5. /\ current_byte_offset = 0 /\ last_marked_offset = 0 /\ pos = 0 /\ split_byte = None
        /\ scan = InitClock /\ clock = InitClock /\ eof = FALSE /\ y = FALSE /\ 0 \in 0..Size
    BY <1>1 DEF Init
  <2>6. file \in Files /\ DOMAIN timeline \subseteq DOMAIN file.words
    BY <1>1, <1>4
  <2>7. \A w \in DOMAIN timeline : timeline[w] \in Clock
    BY <1>4
  <2>8. /\ current_byte_offset \in 0..Size /\ last_marked_offset \in 0..Size /\ pos \in 0..Size
        /\ split_byte \in 0..Size - 1 \union {None} /\ scan \in Clock /\ clock \in Clock
        /\ eof \in BOOLEAN /\ y \in BOOLEAN
    BY <1>1, <2>5
  <2>9. resumed.at \in 0..Size /\ resumed.target \in Nat
    BY <2>3, <2>5
  <2>. QED  BY <2>1, <2>2, <2>3, <2>4, <2>6, <2>7, <2>8, <2>9 DEF TypeOK
<1>7. FieldsOf(InitClock, 0) /\ FieldsOf(m.state, 0)
  BY <1>2, InitFields DEF InitClock
<1>8. current_byte_offset = 0 /\ scan = InitClock /\ 0 \div 2 = 0 /\ 0 % 2 = 0
  BY DEF Init
<1>9. ScanInv
  <2>1. {w \in 1..0 : file.words[w].kind \in EventWords} = {}
    OBVIOUS
  <2>2. Indexed(scan, timeline, 0)
    BY <1>4, <1>5, <1>7, <1>8 DEF Indexed, Agrees
  <2>. QED  BY <1>4, <1>8, <2>1, <2>2 DEF ScanInv, Even
<1>10. MarkersInv
  <2>1. SampledBefore(0) = InitClock
    BY <1>5, <1>8 DEF SampledBefore
  <2>2. ASSUME NEW i \in DOMAIN markers
        PROVE  /\ Even(markers[i].byte_offset) /\ markers[i].byte_offset <= current_byte_offset
               /\ FieldsOf(markers[i].state, markers[i].byte_offset \div 2)
               /\ Agrees(markers[i].state, SampledBefore(markers[i].byte_offset))
               /\ markers[i].timestamp = SampledBefore(markers[i].byte_offset).last
               /\ \A j \in 1..i - 1 : markers[j].byte_offset <= markers[i].byte_offset
    <3>1. i = 1 /\ markers[i] = m
      BY <1>3
    <3>2. InitClock.last = 0
      BY DEF InitClock
    <3>. QED  BY <1>2, <1>7, <1>8, <2>1, <3>1, <3>2 DEF Even, Agrees
  <2>3. index = None
    BY DEF Init
  <2>. QED  BY <2>2, <2>3 DEF MarkersInv
<1>11. PositionInv
  <2>1. /\ State = [clock |-> InitClock, y |-> FALSE, decoded |-> <<>>]
        /\ pos = 0 /\ split_byte = None /\ eof = FALSE /\ resumed = [at |-> 0, target |-> 0]
        /\ resumed.at = 0 /\ Reached = 0
    BY DEF Init, State, Reached
  <2>2. Even(0)
    BY <1>8 DEF Even
  <2>. QED  BY <2>1, <2>2 DEF PositionInv
<1>12. DecoderInv
  <2>1. /\ resumed.at = 0 /\ State.decoded = <<>> /\ State.y = FALSE /\ State.clock = InitClock
        /\ Reached = 0
    BY DEF Init, State, Reached
  <2>2. SampledBefore(0) = InitClock
    BY <1>5, <1>8 DEF SampledBefore
  <2>3. /\ resumed.at \in 0..Size /\ Even(resumed.at) /\ resumed.at \div 2 = 0
        /\ FieldsOf(State.clock, 0) /\ Agrees(State.clock, SampledBefore(resumed.at))
    BY <1>1, <1>7, <1>8, <2>1, <2>2 DEF Even, Agrees
  <2>4. InStep(State, resumed.at \div 2)
    BY <1>1, <2>1, <2>3, StartInStep DEF Starts
  <2>. QED  BY <1>8, <2>1, <2>3, <2>4 DEF DecoderInv
<1>13. SeekIsClosest
  BY DEF Init, SeekIsClosest
<1>. QED  BY <1>6, <1>9, <1>10, <1>11, <1>12, <1>13 DEF IndInv

(* ... and every step keeps it.  What is known of the first n words does   *)
(* not change when later ones are sampled.                                 *)
LEMMA IndexedSame ==
    ASSUME NEW s, NEW t, NEW N \in Nat, DOMAIN s \subseteq 1..N, DOMAIN t \subseteq 1..N,
           NEW n \in Nat, {w \in DOMAIN s : w <= n} = {w \in DOMAIN t : w <= n},
           \A w \in DOMAIN s : w <= n => s[w] = t[w],
           NEW c, Indexed(c, s, n)
    PROVE  Indexed(c, t, n)
<1>1. LastSample(s, n) = LastSample(t, n)
  BY LastSampleSame
<1>2. FieldsOf(c, n) /\ Agrees(c, LastSample(t, n)) /\ c.last = LastSample(t, n).last
  BY <1>1 DEF Indexed
<1>3. ASSUME NEW w \in DOMAIN t, w <= n
      PROVE  /\ FieldsOf(t[w], w) /\ t[w].last24 = T24(t[w])
             /\ DoShift => c.first # None
             /\ t[w].last = Shown(t[w], c.first)
             /\ Follows(t[w], InitClock)
             /\ \A v \in DOMAIN t : v < w => Follows(t[w], t[v])
  <2>1. w \in DOMAIN s /\ s[w] = t[w]
    BY <1>3
  <2>2. \A v \in DOMAIN t : v < w => v \in DOMAIN s /\ s[v] = t[v]
    <3>1. \A v \in DOMAIN t : v < w => v <= n
      BY <1>3
    <3>. QED  BY <3>1
  <2>3. /\ FieldsOf(s[w], w) /\ s[w].last24 = T24(s[w])
        /\ DoShift => c.first # None
        /\ s[w].last = Shown(s[w], c.first)
        /\ Follows(s[w], InitClock)
        /\ \A v \in DOMAIN s : v < w => Follows(s[w], s[v])
    BY <1>3, <2>1 DEF Indexed
  <2>. QED  BY <2>1, <2>2, <2>3
<1>. QED  BY <1>2, <1>3 DEF Indexed

(* One read of build_index: its clocks and samples. *)
LEMMA IndexReadIs ==
    ASSUME TypeOK, ScanInv, IndexRead
    PROVE  LET p == current_byte_offset \div 2
               q == current_byte_offset' \div 2
           IN  /\ index = None /\ file' = file
               /\ p \in Nat /\ q \in p..Len(file.words)
               /\ current_byte_offset <= current_byte_offset' /\ current_byte_offset' \in 0..Size
               /\ Even(current_byte_offset')
               /\ scan' \in Clock
               /\ DOMAIN timeline' = {w \in 1..q : file.words[w].kind \in EventWords}
               /\ \A w \in DOMAIN timeline' : timeline'[w] \in Clock
               /\ DOMAIN timeline = {w \in DOMAIN timeline' : w <= p}
               /\ \A w \in DOMAIN timeline : timeline'[w] = timeline[w]
               /\ Indexed(scan', timeline', q)
<1> DEFINE N == Len(file.words)
           upto == IF current_byte_offset + IndexBuffer < Size
                   THEN current_byte_offset + IndexBuffer ELSE Size
           p == current_byte_offset \div 2
           q == upto \div 2
           after == ScanAll(scan, p + 1, q)
           new == [w \in DOMAIN timeline
                             \union {v \in p + 1..q : file.words[v].kind \in EventWords} |->
                               IF w \in DOMAIN timeline THEN timeline[w] ELSE after[w]]
<1>1. /\ file \in Files /\ N \in Nat /\ DOMAIN file.words = 1..N
      /\ Size = 2 * N + file.trailing /\ file.trailing \in 0..1 /\ Size \in Nat
      /\ scan \in Clock
  BY FileType DEF TypeOK
<1>2. /\ index = None /\ file' = file /\ current_byte_offset < Size
      /\ current_byte_offset' = upto /\ scan' = after[q] /\ timeline' = new
  BY DEF IndexRead
<1>3. /\ current_byte_offset \in Nat /\ IndexBuffer \in Nat /\ IndexBuffer % 2 = 0
      /\ current_byte_offset % 2 = 0
  BY <1>1, <1>2, FilesAssumption DEF TypeOK, ScanInv, Even
<1>4. /\ upto \in 0..Size /\ current_byte_offset <= upto
      /\ Even(upto) /\ p \in Nat /\ q \in p..N
      /\ current_byte_offset = 2 * p
  <2>1. /\ upto \in 0..Size /\ current_byte_offset <= upto /\ upto \in Nat
        /\ upto % 2 = 0 \/ upto = Size
    <3> DEFINE full == current_byte_offset + IndexBuffer
    <3>1. full \in Nat /\ full % 2 = 0 /\ current_byte_offset <= full
      BY <1>3
    <3> HIDE DEF full
    <3>2. upto = IF full < Size THEN full ELSE Size
      BY DEF full
    <3>3. Size \in Nat /\ current_byte_offset \in Nat /\ current_byte_offset <= Size
      BY <1>1, <1>2, <1>3
    <3> HIDE DEF upto
    <3>4. CASE full < Size
      BY <3>1, <3>2, <3>3, <3>4
    <3>5. CASE ~(full < Size)
      BY <3>2, <3>3, <3>5
    <3>. QED  BY <3>4, <3>5
  <2> HIDE DEF upto
  <2>2. Even(upto)
    BY <2>1 DEF Even
  <2>3. p \in Nat /\ current_byte_offset = 2 * p
    BY <1>3
  <2>4. q \in Nat /\ q <= N
    BY <1>1, <2>1
  <2>5. p <= q
    BY <1>3, <2>1
  <2>. QED  BY <1>1, <2>1, <2>2, <2>3, <2>4, <2>5
<1>5. /\ after \in [p..q -> Clock] /\ after[p] = scan
      /\ \A w \in p + 1..q : after[w] = Scan(after[w - 1], file.words[w])
  <2> DEFINE first == p + 1
  <2>1. first \in Nat \ {0} /\ q \in Nat /\ first <= q + 1 /\ q <= Len(file.words)
        /\ first - 1 = p
    BY <1>1, <1>4
  <2> HIDE DEF p, q, first
  <2>2. Scans(ScanAll(scan, first, q), scan, first, q)
    BY <1>1, <2>1, ScanAllEquation
  <2>3. after = ScanAll(scan, first, q)
    BY DEF first
  <2> HIDE DEF after
  <2>4. /\ after \in [p..q -> Clock] /\ after[p] = scan
        /\ \A w \in first..q : after[w] = Scan(after[w - 1], file.words[w])
    BY <2>1, <2>2, <2>3 DEF Scans
  <2>. QED  BY <2>4 DEF first
<1>6. DOMAIN timeline = {w \in 1..p : file.words[w].kind \in EventWords}
  BY DEF ScanInv
<1> HIDE DEF after, p, q, upto
<1>7. DOMAIN new = {w \in 1..q : file.words[w].kind \in EventWords}
  <2>1. \A w : w \in 1..q <=> w \in 1..p \/ w \in p + 1..q
    BY <1>4
  <2>. QED  BY <1>6, <2>1
<1>8. /\ \A w \in DOMAIN timeline : w \in DOMAIN new /\ new[w] = timeline[w] /\ w <= p /\ w \in 1..p
      /\ \A w \in DOMAIN new : w > p => w \in p + 1..q /\ new[w] = after[w]
      /\ \A w \in DOMAIN new : w <= p => w \in DOMAIN timeline
  BY <1>4, <1>6, <1>7
<1>9. \A w \in DOMAIN new : new[w] \in Clock
  <2>1. ASSUME NEW w \in DOMAIN new, w > p
        PROVE  new[w] \in Clock
    <3>1. w \in p..q
      BY <1>4, <1>8, <2>1
    <3>. QED  BY <1>5, <1>8, <2>1, <3>1
  <2>2. ASSUME NEW w \in DOMAIN new, ~(w > p)
        PROVE  new[w] \in Clock
    <3>1. w <= p
      BY <1>4, <1>7, <2>2
    <3>. QED  BY <1>8, <3>1 DEF TypeOK
  <2>. QED  BY <2>1, <2>2
<1> HIDE DEF new
<1>10. DOMAIN timeline \subseteq 1..N /\ DOMAIN new \subseteq 1..N
  BY <1>1, <1>4, <1>6, <1>7
<1>11. Indexed(scan, new, p)
  <2>1. Indexed(scan, timeline, p)
    BY DEF ScanInv, p
  <2>2. {w \in DOMAIN timeline : w <= p} = {w \in DOMAIN new : w <= p}
    BY <1>8
  <2>. QED  BY <1>1, <1>4, <1>8, <1>10, <2>1, <2>2, IndexedSame
<1>12. Indexed(after[q], new, q)
  <2> DEFINE Holds == {n \in 0..q - p : Indexed(after[p + n], new, p + n)}
  <2>1. 0 \in Holds
    <3>1. p + 0 = p /\ 0 \in 0..q - p
      BY <1>4
    <3>. QED  BY <1>5, <1>11, <3>1
  <2>2. ASSUME NEW n \in 0..(q - p) - 1, n \in Holds
        PROVE  n + 1 \in Holds
    <3> DEFINE k == p + n
    <3>1. /\ k \in 0..N - 1 /\ k + 1 \in p + 1..q /\ k \in p..q /\ p + (n + 1) = k + 1
          /\ (k + 1) - 1 = k /\ n + 1 \in 0..q - p /\ k + 1 > p
      BY <1>1, <1>4
    <3>2. Indexed(after[k], new, k)
      BY <2>2
    <3> HIDE DEF k
    <3>3. after[k] \in Clock /\ after[k + 1] = Scan(after[k], file.words[k + 1])
      BY <1>5, <3>1
    <3>4. k + 1 \in DOMAIN new <=> file.words[k + 1].kind \in EventWords
      <4>1. k + 1 \in 1..q
        BY <1>4, <3>1
      <4>. QED  BY <1>7, <4>1
    <3>5. k + 1 \in DOMAIN new => new[k + 1] = Scan(after[k], file.words[k + 1])
      BY <1>8, <3>1, <3>3
    <3>6. Indexed(Scan(after[k], file.words[k + 1]), new, k + 1)
      BY <1>1, <1>9, <1>10, <3>1, <3>2, <3>3, <3>4, <3>5, IndexStep
    <3>. QED  BY <3>1, <3>3, <3>6
  <2>3. q - p \in Nat /\ q - p \in 0..q - p /\ p + (q - p) = q
    BY <1>4
  <2>4. \A n \in 0..q - p : n \in Holds
    <3> HIDE DEF Holds
    <3>. QED  BY <2>1, <2>2, <2>3, UpTo
  <2>5. Indexed(after[p + (q - p)], new, p + (q - p))
    BY <2>3, <2>4
  <2>. QED  BY <2>3, <2>5
<1>13. scan' \in Clock
  <2>1. q \in p..q
    BY <1>4
  <2>. QED  BY <1>2, <1>5, <2>1
<1>14. q = current_byte_offset' \div 2
  BY <1>2 DEF q
<1>15. DOMAIN timeline = {w \in DOMAIN new : w <= p}
  BY <1>8
<1>. QED
  BY <1>2, <1>4, <1>7, <1>8, <1>9, <1>12, <1>13, <1>14, <1>15 DEF p

(* What a step that changes nothing of the index keeps. *)
LEMMA SameFile ==
    ASSUME file' = file
    PROVE  /\ Size' = Size /\ Markers' = Markers /\ DecodedEvents' = DecodedEvents
           /\ \A c, n : FieldsOf(c, n)' <=> FieldsOf(c, n)
           /\ \A offset : Even(offset)' <=> Even(offset)
           /\ \A c, samples, n : Indexed(c, samples, n)' <=> Indexed(c, samples, n)
<1>1. Size' = Size
  BY DEF Size
<1>2. Markers' = Markers /\ DecodedEvents' = DecodedEvents
  BY <1>1 DEF Markers, DecodedEvents
<1>3. \A c, n : FieldsOf(c, n)' <=> FieldsOf(c, n)
  BY DEF FieldsOf, Latest
<1>4. \A offset : Even(offset)' <=> Even(offset)
  BY <1>1 DEF Even
<1>5. \A c, samples, n : Indexed(c, samples, n)' <=> Indexed(c, samples, n)
  BY DEF Indexed, FieldsOf, Latest
<1>. QED  BY <1>1, <1>2, <1>3, <1>4, <1>5

LEMMA IndexReadScan ==
    ASSUME IndInv, IndexRead
    PROVE  ScanInv'
<1> DEFINE q == current_byte_offset' \div 2
<1>1. TypeOK /\ ScanInv
  BY DEF IndInv
<1>2. /\ file' = file /\ Even(current_byte_offset')
      /\ DOMAIN timeline' = {w \in 1..q : file.words[w].kind \in EventWords}
      /\ Indexed(scan', timeline', q)
  BY <1>1, IndexReadIs
<1>. QED  BY <1>2, SameFile DEF ScanInv

LEMMA IndexReadType ==
    ASSUME IndInv, IndexRead
    PROVE  TypeOK' /\ MarkersInv'
<1> DEFINE p == current_byte_offset \div 2
           q == current_byte_offset' \div 2
           m == Marker(current_byte_offset', scan'.last, scan')
           N == Len(file.words)
<1>1. TypeOK /\ ScanInv /\ MarkersInv
  BY DEF IndInv
<1>2. /\ index = None /\ file' = file /\ p \in Nat /\ q \in p..N
      /\ current_byte_offset <= current_byte_offset' /\ current_byte_offset' \in 0..Size
      /\ Even(current_byte_offset') /\ scan' \in Clock
      /\ DOMAIN timeline' = {w \in 1..q : file.words[w].kind \in EventWords}
      /\ \A w \in DOMAIN timeline' : timeline'[w] \in Clock
      /\ DOMAIN timeline = {w \in DOMAIN timeline' : w <= p}
      /\ \A w \in DOMAIN timeline : timeline'[w] = timeline[w]
      /\ Indexed(scan', timeline', q)
  BY <1>1, IndexReadIs
<1>3. /\ N \in Nat /\ DOMAIN file.words = 1..N /\ Size \in Nat /\ file \in Files
  BY <1>1, FileType DEF TypeOK
<1>4. /\ UNCHANGED <<file, index, pos, eof, resumed, seeks, reads, clock, y, split_byte, decoded>>
  BY DEF IndexRead, decoder
<1>5. \/ UNCHANGED <<markers, last_marked_offset>>
      \/ /\ markers' = Append(markers, m)
         /\ last_marked_offset' = current_byte_offset'
  BY DEF IndexRead
<1>6. scan'.last \in Nat /\ current_byte_offset \in 0..Size
  BY <1>1, <1>2 DEF Clock, TypeOK
<1>7. /\ m.byte_offset = current_byte_offset' /\ m.timestamp = scan'.last
      /\ m.state.high = scan'.high /\ m.state.low = scan'.low
      /\ m.state.offset = scan'.offset /\ m.state.last24 = scan'.last24
      /\ m \in Markers
  BY <1>2, <1>6, StartMarker
<1> HIDE DEF m, p, q
<1>8. markers' \in Seq(Markers) /\ last_marked_offset' \in 0..Size
  <2>1. markers \in Seq(Markers) /\ last_marked_offset \in 0..Size
    BY <1>1 DEF TypeOK
  <2>2. Append(markers, m) \in Seq(Markers)
    BY <1>7, <2>1
  <2>. QED  BY <1>2, <1>5, <2>1, <2>2
<1>9. Size' = Size /\ Markers' = Markers /\ DecodedEvents' = DecodedEvents
  BY <1>2, SameFile
<1>10. DOMAIN timeline' \subseteq DOMAIN file.words
  BY <1>2, <1>3
<1>11. TypeOK'
  <2>1. (/\ file \in Files
         /\ pos \in 0..Size /\ eof \in BOOLEAN /\ y \in BOOLEAN
         /\ split_byte \in 0..Size - 1 \union {None}
         /\ clock \in Clock
         /\ resumed.at \in 0..Size /\ resumed.target \in Nat
         /\ decoded \in Seq(DecodedEvents)
         /\ seeks \in 0..MaxSeeks /\ reads \in 0..MaxReads)'
    BY <1>1, <1>4, <1>9 DEF TypeOK
  <2>2. index' = None
    BY <1>2, <1>4
  <2>. QED  BY <1>2, <1>4, <1>8, <1>9, <1>10, <2>1, <2>2 DEF TypeOK
<1> DEFINE known == LastSample(timeline', q)
<1>12. ASSUME NEW n \in Nat, n <= p
       PROVE  LastSample(timeline', n) = LastSample(timeline, n)
  <2>1. DOMAIN timeline \subseteq 1..N /\ DOMAIN timeline' \subseteq 1..N
    <3>1. q \in Nat /\ q <= N /\ N \in Nat /\ \A w \in 1..q : w \in 1..N
      BY <1>2, <1>3
    <3>. QED  BY <1>2, <3>1
  <2>2. {w \in DOMAIN timeline : w <= n} = {w \in DOMAIN timeline' : w <= n}
    <3>1. \A w \in DOMAIN timeline' : w <= n => w <= p
      BY <1>2, <1>12, <2>1
    <3>. QED  BY <1>2, <3>1
  <2>3. \A w \in DOMAIN timeline : w <= n => timeline[w] = timeline'[w]
    BY <1>2
  <2>4. LastSample(timeline, n) = LastSample(timeline', n)
    <3>1. N \in Nat
      BY <1>3
    <3> HIDE DEF N, known, p, q
    <3>. QED  BY <1>12, <2>1, <2>2, <2>3, <3>1, LastSampleSame
  <2>. QED  BY <2>4
<1>13. ASSUME NEW i \in DOMAIN markers
       PROVE  /\ Even(markers[i].byte_offset) /\ markers[i].byte_offset <= current_byte_offset'
              /\ FieldsOf(markers[i].state, markers[i].byte_offset \div 2)
              /\ Agrees(markers[i].state, LastSample(timeline', markers[i].byte_offset \div 2))
              /\ markers[i].timestamp = LastSample(timeline', markers[i].byte_offset \div 2).last
              /\ \A j \in 1..i - 1 : markers[j].byte_offset <= markers[i].byte_offset
              /\ markers[i].byte_offset \in Nat
  <2> DEFINE bo == markers[i].byte_offset
  <2>1. bo \in 0..Size
    <3>1. markers[i] \in Markers
      BY <1>1 DEF TypeOK
    <3>. QED  BY <3>1 DEF Markers
  <2>2. /\ Even(bo) /\ bo <= current_byte_offset
        /\ FieldsOf(markers[i].state, bo \div 2)
        /\ Agrees(markers[i].state, LastSample(timeline, bo \div 2))
        /\ markers[i].timestamp = LastSample(timeline, bo \div 2).last
        /\ \A j \in 1..i - 1 : markers[j].byte_offset <= bo
    BY <1>1 DEF MarkersInv, SampledBefore
  <2> HIDE DEF bo
  <2>3. bo \div 2 \in Nat /\ bo \div 2 <= p /\ bo <= current_byte_offset' /\ bo \in Nat
    BY <1>2, <1>3, <1>6, <2>1, <2>2 DEF p
  <2>4. LastSample(timeline', bo \div 2) = LastSample(timeline, bo \div 2)
    BY <1>12, <2>3
  <2>. QED  BY <2>2, <2>3, <2>4 DEF bo
<1>14. /\ FieldsOf(m.state, q) /\ Agrees(m.state, LastSample(timeline', q))
       /\ m.timestamp = LastSample(timeline', q).last
  <2>1. FieldsOf(scan', q) /\ Agrees(scan', known) /\ scan'.last = known.last
    BY <1>2 DEF Indexed
  <2>. QED  BY <1>7, <2>1 DEF FieldsOf, Agrees
<1>15. ASSUME NEW i \in DOMAIN markers'
       PROVE  /\ Even(markers'[i].byte_offset) /\ markers'[i].byte_offset <= current_byte_offset'
              /\ FieldsOf(markers'[i].state, markers'[i].byte_offset \div 2)
              /\ Agrees(markers'[i].state, LastSample(timeline', markers'[i].byte_offset \div 2))
              /\ markers'[i].timestamp = LastSample(timeline', markers'[i].byte_offset \div 2).last
              /\ \A j \in 1..i - 1 : markers'[j].byte_offset <= markers'[i].byte_offset
  <2>1. CASE UNCHANGED <<markers, last_marked_offset>>
    BY <1>13, <2>1
  <2>2. CASE markers' = Append(markers, m)
    <3> DEFINE L == Len(markers)
    <3>1. /\ markers \in Seq(Markers) /\ L \in Nat /\ DOMAIN markers = 1..L
          /\ DOMAIN markers' = 1..L + 1 /\ markers'[L + 1] = m
          /\ \A k \in 1..L : markers'[k] = markers[k]
      BY <1>1, <2>2 DEF TypeOK
    <3>2. CASE i = L + 1
      <4>1. \A j \in 1..i - 1 : j \in DOMAIN markers /\ markers'[j] = markers[j]
        BY <3>1, <3>2
      <4>2. \A j \in 1..i - 1 : markers'[j].byte_offset <= markers'[i].byte_offset
        BY <1>7, <1>13, <3>1, <3>2, <4>1
      <4>3. markers'[i] = m /\ m.byte_offset \div 2 = q
        BY <1>7, <3>1, <3>2 DEF q
      <4>4. current_byte_offset' <= current_byte_offset'
        BY <1>2
      <4>. QED  BY <1>2, <1>7, <1>14, <4>2, <4>3, <4>4
    <3>3. CASE i # L + 1
      <4>1. i \in DOMAIN markers /\ markers'[i] = markers[i]
            /\ \A j \in 1..i - 1 : markers'[j] = markers[j]
        BY <3>1, <3>3
      <4>. QED  BY <1>13, <4>1
    <3>. QED  BY <3>2, <3>3
  <2>. QED  BY <1>5, <2>1, <2>2
<1>16. MarkersInv'
  <2>1. index' = None
    BY <1>2, <1>4
  <2>2. \A c, n : FieldsOf(c, n)' <=> FieldsOf(c, n)
    BY <1>2, SameFile
  <2>3. \A offset : Even(offset)' <=> Even(offset)
    BY <1>2, SameFile
  <2>. QED  BY <1>15, <2>1, <2>2, <2>3 DEF MarkersInv, SampledBefore
<1>. QED  BY <1>11, <1>16

LEMMA IndexReadRest ==
    ASSUME IndInv, IndexRead
    PROVE  PositionInv' /\ DecoderInv' /\ SeekIsClosest'
<1>1. TypeOK /\ ScanInv /\ MarkersInv /\ PositionInv /\ DecoderInv
  BY DEF IndInv
<1>2. /\ UNCHANGED <<file, index, pos, eof, resumed, seeks, reads, clock, y, split_byte, decoded>>
      /\ index = None
  BY DEF IndexRead, decoder
<1>3. Size' = Size /\ State' = State /\ Reached' = Reached
  BY <1>2, SameFile DEF State, Reached
<1>4. PositionInv'
  <2>1. \A offset : Even(offset)' <=> Even(offset)
    BY <1>2, SameFile
  <2>2. PositionInv' <=> PositionInv
    BY <1>2, <1>3, <2>1 DEF PositionInv
  <2>. QED  BY <1>1, <2>2
<1>5. DecoderInv'
  <2>1. /\ State = [clock |-> InitClock, y |-> FALSE, decoded |-> <<>>]
        /\ pos = 0 /\ split_byte = None /\ resumed = [at |-> 0, target |-> 0]
    BY <1>1, <1>2 DEF PositionInv
  <2>2. resumed.at = 0 /\ Reached = 0 /\ 0 \div 2 = 0 /\ 0 % 2 = 0
    BY <2>1 DEF Reached
  <2>3. State.decoded = <<>> /\ State.y = FALSE /\ State.clock = InitClock
    BY <2>1
  <2>4. SampledBefore(0)' = InitClock
    <3>1. DOMAIN timeline' \subseteq 1..Len(file.words) /\ Len(file.words) \in Nat
      <4>1. /\ DOMAIN timeline' = {w \in 1..current_byte_offset' \div 2 : file.words[w].kind \in EventWords}
            /\ current_byte_offset' \div 2 \in current_byte_offset \div 2..Len(file.words)
            /\ current_byte_offset \div 2 \in Nat /\ Len(file.words) \in Nat
        BY <1>1, IndexReadIs, FileType DEF TypeOK
      <4>. QED  BY <4>1
    <3>2. \A w \in DOMAIN timeline' : ~(w <= 0)
      BY <3>1
    <3>3. LastSample(timeline', 0) = InitClock
      BY <3>1, <3>2, LastSampleCases
    <3>. QED  BY <2>2, <3>3 DEF SampledBefore
  <2>5. FieldsOf(InitClock, 0)
    BY InitFields DEF InitClock
  <2>6. Agrees(InitClock, InitClock)
    BY DEF Agrees
  <2>7. file' \in Files /\ resumed'.at = 0 /\ 0 \in 0..Size' /\ Even(0)'
    BY <1>1, <1>2, <1>3, <2>2, FileType DEF TypeOK, Even
  <2>8. \A c, n : FieldsOf(c, n)' <=> FieldsOf(c, n)
    BY <1>2, SameFile
  <2>9. (\A d : Starts(d) => InStep(d, resumed.at \div 2))'
    BY StartInStep, PTL
  <2>10. Starts(State)'
    BY <1>3, <2>2, <2>3, <2>4, <2>5, <2>6, <2>7, <2>8 DEF Starts
  <2>11. InStep(State, resumed.at \div 2)'
    BY <2>9, <2>10
  <2>. QED  BY <1>2, <1>3, <2>2, <2>11 DEF DecoderInv
<1>6. SeekIsClosest'
  BY <1>2 DEF SeekIsClosest
<1>. QED  BY <1>4, <1>5, <1>6

(* A step that leaves the index and the reader where they are. *)
LEMMA SameInStep ==
    ASSUME UNCHANGED <<file, timeline, resumed>>
    PROVE  \A d, n : InStep(d, n)' <=> InStep(d, n)
<1>1. Size' = Size /\ \A c, n : FieldsOf(c, n)' <=> FieldsOf(c, n)
  BY SameFile
<1>2. \A at, n : WordsIn(at, n)' = WordsIn(at, n)
  BY DEF WordsIn
<1>3. \A at : Acceptable(at)' = Acceptable(at)
  BY <1>1, <1>2 DEF Acceptable
<1>4. /\ \A events, i : Sampled(events, i)' = Sampled(events, i)
      /\ \A events, i : Traced(events, i)' <=> Traced(events, i)
  BY DEF Sampled, Traced, SampledBefore
<1>. QED  BY <1>1, <1>2, <1>3, <1>4 DEF InStep

LEMMA SameReader ==
    ASSUME UNCHANGED <<file, timeline, clock, y, decoded, resumed, pos, split_byte>>
    PROVE  DecoderInv' <=> DecoderInv
<1>1. State' = State /\ Reached' = Reached
  BY DEF State, Reached
<1>. QED  BY <1>1, SameInStep DEF DecoderInv

LEMMA SameIndex ==
    ASSUME UNCHANGED file, UNCHANGED building
    PROVE  /\ ScanInv' <=> ScanInv
           /\ \A at : SampledBefore(at)' = SampledBefore(at)
           /\ UNCHANGED index => (MarkersInv' <=> MarkersInv)
<1>1. UNCHANGED <<current_byte_offset, last_marked_offset, scan, timeline, markers>>
  BY DEF building
<1>2. \A at : SampledBefore(at)' = SampledBefore(at)
  BY <1>1 DEF SampledBefore
<1>3. /\ Size' = Size
      /\ \A c, n : FieldsOf(c, n)' <=> FieldsOf(c, n)
      /\ \A offset : Even(offset)' <=> Even(offset)
      /\ \A c, samples, n : Indexed(c, samples, n)' <=> Indexed(c, samples, n)
  BY SameFile
<1>4. ScanInv' <=> ScanInv
  BY <1>1, <1>3 DEF ScanInv
<1>5. UNCHANGED index => (MarkersInv' <=> MarkersInv)
  BY <1>1, <1>2, <1>3 DEF MarkersInv
<1>. QED  BY <1>2, <1>4, <1>5

LEMMA IndexDoneInd ==
    ASSUME IndInv, IndexDone
    PROVE  IndInv'
<1>1. TypeOK /\ ScanInv /\ MarkersInv /\ PositionInv /\ DecoderInv
  BY DEF IndInv
<1>2. /\ UNCHANGED <<file, pos, eof, resumed, seeks, reads, building, decoder>>
      /\ UNCHANGED <<current_byte_offset, last_marked_offset, scan, timeline, markers,
                     clock, y, split_byte, decoded>>
      /\ index = None /\ current_byte_offset = Size
      /\ index'.markers = markers /\ index'.t_min = ShiftOf(scan) /\ index'.t_max = scan.last
  BY DEF IndexDone, building, decoder
<1>3. Size' = Size /\ Markers' = Markers /\ DecodedEvents' = DecodedEvents
  BY <1>2, SameFile
<1>4. TypeOK'
  <2>1. index'.t_min \in Nat /\ index'.t_max \in Nat
    BY <1>1, <1>2 DEF TypeOK, Clock, ShiftOf
  <2>. QED  BY <1>1, <1>2, <1>3, <2>1 DEF TypeOK
<1>5. ScanInv'
  BY <1>1, <1>2, SameIndex
<1>6. MarkersInv'
  <2>1. /\ \A c, n : FieldsOf(c, n)' <=> FieldsOf(c, n)
        /\ \A offset : Even(offset)' <=> Even(offset)
        /\ \A at : SampledBefore(at)' = SampledBefore(at)
    BY <1>2, SameFile, SameIndex
  <2>. QED  BY <1>1, <1>2, <1>3, <2>1 DEF MarkersInv
<1>7. PositionInv'
  <2>1. State' = State /\ Reached' = Reached /\ \A offset : Even(offset)' <=> Even(offset)
    BY <1>2, SameFile DEF State, Reached
  <2>. QED  BY <1>1, <1>2, <1>3, <2>1 DEF PositionInv
<1>8. DecoderInv'
  BY <1>1, <1>2, SameReader
<1>9. SeekIsClosest'
  <2>1. resumed' = [at |-> 0, target |-> 0]
    BY <1>1, <1>2 DEF PositionInv
  <2>2. resumed'.at = 0 /\ resumed'.target = 0
    BY <2>1
  <2>3. \A w \in DOMAIN timeline' : ~(2 * w <= 0)
    BY <1>1, <1>2, FileType DEF TypeOK
  <2>4. \A i \in DOMAIN markers' : Timestamp(i)' \in Nat
    <3>1. ASSUME NEW i \in DOMAIN markers
          PROVE  markers[i].timestamp \in Nat
      <4>1. markers[i] \in Markers
        BY <1>1 DEF TypeOK
      <4>. QED  BY <4>1 DEF Markers
    <3>. QED  BY <1>2, <3>1 DEF Timestamp
  <2>5. \A i, j \in DOMAIN markers' : Timestamp(i)' <= 0 => Timestamp(i)' <= Timestamp(j)'
    BY <2>4
  <2>. QED  BY <2>2, <2>3, <2>5 DEF SeekIsClosest
<1>. QED  BY <1>4, <1>5, <1>6, <1>7, <1>8, <1>9 DEF IndInv

(* A seek.  Events in order make samples in order, and markers.            *)
InOrder ==
    \A v, w \in DOMAIN timeline : v < w => timeline[v].last <= timeline[w].last

LEMMA SamplesInOrder ==
    ASSUME TypeOK, InOrder, NEW n \in Nat
    PROVE  /\ LastSample(timeline, n) \in Clock
           /\ \A w \in DOMAIN timeline : w <= n => timeline[w].last <= LastSample(timeline, n).last
           /\ \A m \in Nat : m <= n => LastSample(timeline, m).last <= LastSample(timeline, n).last
<1> DEFINE N == Len(file.words)
<1>1. /\ N \in Nat /\ DOMAIN timeline \subseteq 1..N
      /\ \A w \in DOMAIN timeline : timeline[w] \in Clock /\ timeline[w].last \in Nat
  BY FileType DEF TypeOK, Clock
<1>2. \A m \in Nat : LastSample(timeline, m) \in Clock /\ LastSample(timeline, m).last \in Nat
  BY <1>1, LastSampleType DEF Clock
<1>3. ASSUME NEW w \in DOMAIN timeline, w <= n
      PROVE  timeline[w].last <= LastSample(timeline, n).last
  <2>1. PICK m \in DOMAIN timeline : /\ m <= n /\ LastSample(timeline, n) = timeline[m]
                                     /\ \A v \in DOMAIN timeline : v <= n => v <= m
    BY <1>1, <1>3, LastSampleCases
  <2>2. w = m \/ w < m
    <3>1. w \in Nat /\ m \in Nat /\ w <= m
      BY <1>1, <1>3, <2>1
    <3>. QED  BY <3>1
  <2>. QED  BY <1>1, <2>1, <2>2 DEF InOrder
<1>4. ASSUME NEW m \in Nat, m <= n
      PROVE  LastSample(timeline, m).last <= LastSample(timeline, n).last
  <2>1. CASE LastSample(timeline, m) = InitClock
    BY <1>2, <2>1 DEF InitClock
  <2>2. CASE \E w \in DOMAIN timeline : w <= m /\ LastSample(timeline, m) = timeline[w]
    <3>1. PICK w \in DOMAIN timeline : w <= m /\ LastSample(timeline, m) = timeline[w]
      BY <2>2
    <3>2. w <= n
      BY <1>1, <1>4, <3>1
    <3>. QED  BY <1>3, <3>1, <3>2
  <2>. QED  BY <1>1, <2>1, <2>2, LastSampleCases
<1>. QED  BY <1>2, <1>3, <1>4

LEMMA MarkersAre ==
    ASSUME TypeOK, MarkersInv, index # None
    PROVE  /\ index.markers = markers /\ markers \in Seq(Markers)
           /\ Len(markers) \in Nat /\ DOMAIN markers = 1..Len(markers)
           /\ \A i \in DOMAIN markers :
                 /\ Timestamp(i) = markers[i].timestamp /\ Timestamp(i) \in Nat
                 /\ markers[i].byte_offset \in 0..Size /\ markers[i].byte_offset \in Nat
                 /\ markers[i].byte_offset \div 2 \in Nat
                 /\ markers[i].state \in TimingState
<1>1. index.markers = markers /\ markers \in Seq(Markers) /\ Size \in Nat
  BY FileType DEF TypeOK, MarkersInv
<1>2. Len(markers) \in Nat /\ DOMAIN markers = 1..Len(markers)
  BY <1>1
<1>3. ASSUME NEW i \in DOMAIN markers
      PROVE  /\ markers[i].timestamp \in Nat /\ markers[i].byte_offset \in 0..Size
             /\ markers[i].byte_offset \in Nat /\ markers[i].byte_offset \div 2 \in Nat
             /\ markers[i].state \in TimingState
  <2>1. markers[i] \in Markers
    BY <1>1
  <2>2. markers[i].byte_offset \in 0..Size
    BY <2>1 DEF Markers
  <2>3. markers[i].byte_offset \in Nat /\ markers[i].byte_offset \div 2 \in Nat
    BY <1>1, <2>2
  <2>. QED  BY <2>1, <2>2, <2>3 DEF Markers
<1>. QED  BY <1>1, <1>2, <1>3 DEF Timestamp

LEMMA MarkersInOrder ==
    ASSUME TypeOK, MarkersInv, index # None, InOrder
    PROVE  Sorted
<1>1. ASSUME NEW i \in DOMAIN markers, NEW j \in DOMAIN markers, i < j
      PROVE  Timestamp(i) <= Timestamp(j)
  <2>1. i \in 1..j - 1
    BY <1>1, MarkersAre
  <2>2. markers[i].byte_offset <= markers[j].byte_offset
    BY <2>1 DEF MarkersInv
  <2>3. /\ Timestamp(i) = LastSample(timeline, markers[i].byte_offset \div 2).last
        /\ Timestamp(j) = LastSample(timeline, markers[j].byte_offset \div 2).last
    BY MarkersAre DEF MarkersInv, SampledBefore
  <2>4. /\ markers[i].byte_offset \div 2 \in Nat /\ markers[j].byte_offset \div 2 \in Nat
        /\ markers[i].byte_offset \div 2 <= markers[j].byte_offset \div 2
    <3>1. markers[i].byte_offset \in Nat /\ markers[j].byte_offset \in Nat
      BY MarkersAre
    <3>. QED  BY <2>2, <3>1
  <2>. QED  BY <2>3, <2>4, SamplesInOrder
<1>. QED  BY <1>1, MarkersAre DEF Sorted

(* The marker that is found is the latest one at or before the target.     *)
LEMMA ClosestIs ==
    ASSUME TypeOK, MarkersInv, index # None, Sorted, NEW ts \in Nat,
           NEW i \in ClosestMarkers(ts)
    PROVE  /\ i \in DOMAIN markers /\ Timestamp(i) <= ts
           /\ \A k \in DOMAIN markers : Timestamp(k) <= ts => Timestamp(k) <= Timestamp(i)
<1> DEFINE equal == {k \in DOMAIN markers : Timestamp(k) = ts}
           below == {k \in DOMAIN markers : Timestamp(k) < ts}
           L == Len(markers)
<1>1. /\ index.markers = markers /\ L \in Nat /\ DOMAIN markers = 1..L
      /\ \A k \in DOMAIN markers : Timestamp(k) \in Nat
  BY MarkersAre
<1>2. CASE equal # {}
  <2>1. i \in equal
    BY <1>1, <1>2 DEF ClosestMarkers
  <2>. QED  BY <2>1
<1>3. CASE equal = {}
  <2>1. i = Before(ts) /\ i \in DOMAIN markers /\ Before(ts) = Cardinality(below)
    BY <1>1, <1>3 DEF ClosestMarkers, Before
  <2>2. below \subseteq 1..L
    BY <1>1
  <2>3. below # {}
    <3>1. SUFFICES ASSUME below = {}
                   PROVE  FALSE
      OBVIOUS
    <3>2. Cardinality(below) = 0
      BY <3>1, FS_EmptySet
    <3>. QED  BY <1>1, <2>1, <3>2
  <2>4. PICK m \in below : \A k \in below : k <= m
    <3> HIDE DEF below
    <3>. QED  BY <1>1, <2>2, <2>3, GreatestNumber
  <2>5. below = 1..m
    <3>1. ASSUME NEW k \in 1..m
          PROVE  k \in below
      <4>1. k \in DOMAIN markers /\ m \in DOMAIN markers /\ (k < m \/ k = m) /\ Timestamp(m) < ts
        BY <1>1, <2>4
      <4>2. Timestamp(k) <= Timestamp(m)
        BY <1>1, <4>1 DEF Sorted
      <4>. QED  BY <1>1, <4>1, <4>2
    <3>2. ASSUME NEW k \in below
          PROVE  k \in 1..m
      BY <1>1, <2>4
    <3>. QED  BY <3>1, <3>2
  <2>6. i = m
    <3>1. m \in Nat /\ m >= 1
      BY <1>1, <2>4
    <3>2. Cardinality(1..m) = m
      BY <3>1, FS_Interval
    <3>. QED  BY <2>1, <2>5, <3>2
  <2>7. Timestamp(i) <= ts
    BY <1>1, <2>4, <2>6
  <2>8. ASSUME NEW k \in DOMAIN markers, Timestamp(k) <= ts
        PROVE  Timestamp(k) <= Timestamp(i)
    <3>1. k \in below
      BY <1>1, <1>3, <2>8
    <3>2. k < i \/ k = i
      BY <1>1, <2>4, <2>6, <3>1
    <3>. QED  BY <1>1, <2>1, <3>2 DEF Sorted
  <2>. QED  BY <2>1, <2>7, <2>8
<1>. QED  BY <1>2, <1>3

(* What a seek that finds a marker does to the decoder. *)
LEMMA RestoreIs ==
    ASSUME NEW c \in Clock, NEW s \in TimingState
    PROVE  /\ Restore(c, s) \in Clock
           /\ Restore(c, s).high = s.high /\ Restore(c, s).low = s.low
           /\ Restore(c, s).offset = s.offset /\ Restore(c, s).last24 = s.last24
<1>1. Restore(c, s) \in Clock
  BY FieldsType
<1>. QED  BY <1>1 DEF Restore, Clock

LEMMA SeekToMarker ==
    ASSUME IndInv, NEW ts \in Targets, NEW i \in ClosestMarkers(ts),
           index # None, seeks < MaxSeeks, seeks' = seeks + 1,
           pos' = index.markers[i].byte_offset, eof' = FALSE,
           Resume(index.markers[i].state),
           resumed' = [at |-> index.markers[i].byte_offset, target |-> ts],
           decoded' = <<>>, UNCHANGED <<file, index, reads, building>>
    PROVE  IndInv'
<1> DEFINE m == markers[i]
<1>1. TypeOK /\ ScanInv /\ MarkersInv /\ PositionInv /\ DecoderInv
  BY DEF IndInv
<1>2. /\ index.markers = markers
      /\ i \in DOMAIN markers
      /\ m.byte_offset \in 0..Size /\ m.byte_offset \in Nat /\ m.byte_offset \div 2 \in Nat
      /\ m.state \in TimingState
      /\ Timestamp(i) = m.timestamp
  <2>1. i \in DOMAIN index.markers
    BY DEF ClosestMarkers
  <2>. QED  BY <1>1, <2>1, MarkersAre
<1>3. /\ UNCHANGED <<current_byte_offset, last_marked_offset, scan, timeline, markers>>
      /\ pos' = m.byte_offset /\ eof' = FALSE /\ clock' = Restore(clock, m.state)
      /\ y' = FALSE /\ split_byte' = None /\ resumed'.at = m.byte_offset
      /\ resumed'.target = ts /\ ts \in Nat /\ decoded' = <<>>
  BY <1>2, FilesAssumption DEF building, Resume
<1>4. /\ Even(m.byte_offset)
      /\ FieldsOf(m.state, m.byte_offset \div 2)
      /\ Agrees(m.state, SampledBefore(m.byte_offset))
      /\ m.timestamp = SampledBefore(m.byte_offset).last
  BY <1>1, <1>2 DEF MarkersInv
<1> HIDE DEF m
<1>5. /\ clock' \in Clock /\ clock'.high = m.state.high /\ clock'.low = m.state.low
      /\ clock'.offset = m.state.offset /\ clock'.last24 = m.state.last24
  <2>1. clock \in Clock
    BY <1>1 DEF TypeOK
  <2>. QED  BY <1>2, <1>3, <2>1, RestoreIs
<1>6. /\ Size' = Size /\ Markers' = Markers /\ DecodedEvents' = DecodedEvents
      /\ \A c, n : FieldsOf(c, n)' <=> FieldsOf(c, n)
      /\ \A offset : Even(offset)' <=> Even(offset)
      /\ \A at : SampledBefore(at)' = SampledBefore(at)
  BY SameFile, SameIndex
<1>7. TypeOK'
  <2>1. (/\ file \in Files
         /\ current_byte_offset \in 0..Size /\ last_marked_offset \in 0..Size
         /\ scan \in Clock
         /\ DOMAIN timeline \subseteq DOMAIN file.words
         /\ \A w \in DOMAIN timeline : timeline[w] \in Clock
         /\ markers \in Seq(Markers)
         /\ index # None => /\ index.markers \in Seq(Markers)
                            /\ index.t_min \in Nat /\ index.t_max \in Nat
         /\ reads \in 0..MaxReads)'
    BY <1>1, <1>3, <1>6 DEF TypeOK
  <2>2. seeks' \in 0..MaxSeeks
    BY <1>1, FilesAssumption DEF TypeOK
  <2>3. pos' \in 0..Size' /\ resumed'.at \in 0..Size' /\ resumed'.target \in Nat
    BY <1>2, <1>3, <1>6
  <2>4. /\ eof' \in BOOLEAN /\ y' \in BOOLEAN /\ split_byte' \in 0..Size' - 1 \union {None}
        /\ decoded' \in Seq(DecodedEvents')
    <3>1. \A S : <<>> \in Seq(S)
      OBVIOUS
    <3>. QED  BY <1>3, <3>1
  <2>. QED  BY <1>5, <2>1, <2>2, <2>3, <2>4 DEF TypeOK
<1>8. ScanInv' /\ MarkersInv'
  BY <1>1, SameIndex
<1>9. Reached' = m.byte_offset
  BY <1>3 DEF Reached
<1>10. PositionInv'
  <2>1. index' # None
    OBVIOUS
  <2>2. m.byte_offset <= m.byte_offset
    BY <1>2
  <2>. QED  BY <1>3, <1>4, <1>6, <1>9, <2>1, <2>2 DEF PositionInv
<1>11. DecoderInv'
  <2>1. State' = [clock |-> clock', y |-> y', decoded |-> decoded']
    BY DEF State
  <2>2. State'.clock = clock' /\ State'.y = FALSE /\ State'.decoded = <<>>
    BY <1>3, <2>1
  <2>3. FieldsOf(clock', m.byte_offset \div 2) /\ Agrees(clock', SampledBefore(m.byte_offset))
    BY <1>4, <1>5 DEF FieldsOf, Agrees
  <2>4. file' \in Files /\ resumed'.at \in 0..Size'
    BY <1>7 DEF TypeOK
  <2>5. Starts(State)'
    BY <1>3, <1>4, <1>6, <2>2, <2>3, <2>4 DEF Starts
  <2>6. (\A d : Starts(d) => InStep(d, resumed.at \div 2))'
    BY StartInStep, PTL
  <2>7. InStep(State, resumed.at \div 2)'
    BY <2>5, <2>6
  <2>. QED  BY <1>3, <1>9, <2>7 DEF DecoderInv
<1>12. SeekIsClosest'
  <2>1. SUFFICES ASSUME InOrder
                 PROVE  /\ \A w \in DOMAIN timeline : 2 * w <= m.byte_offset => timeline[w].last <= ts
                        /\ \A k, j \in DOMAIN markers :
                              markers[j].byte_offset = m.byte_offset /\ Timestamp(k) <= ts
                                  => Timestamp(k) <= Timestamp(j)
    <3>1. \A k : Timestamp(k)' = Timestamp(k)
      BY DEF Timestamp
    <3>. QED  BY <1>3, <3>1 DEF SeekIsClosest, InOrder
  <2>2. /\ Timestamp(i) <= ts /\ Timestamp(i) \in Nat
        /\ \A k \in DOMAIN markers : Timestamp(k) <= ts => Timestamp(k) <= Timestamp(i)
    <3>1. Sorted
      BY <1>1, <2>1, MarkersInOrder
    <3>. QED  BY <1>1, <1>2, <1>3, <3>1, ClosestIs, MarkersAre
  <2>3. Timestamp(i) = LastSample(timeline, m.byte_offset \div 2).last
    BY <1>2, <1>4 DEF SampledBefore
  <2>4. ASSUME NEW w \in DOMAIN timeline, 2 * w <= m.byte_offset
        PROVE  timeline[w].last <= ts
    <3>1. w \in Nat /\ timeline[w].last \in Nat
      <4>1. file \in Files /\ timeline[w] \in Clock /\ w \in DOMAIN file.words
        BY <1>1 DEF TypeOK
      <4>2. w \in Nat
        BY <4>1, FileType
      <4>. QED  BY <4>1, <4>2 DEF Clock
    <3>2. w <= m.byte_offset \div 2
      BY <1>2, <2>4, <3>1
    <3>3. timeline[w].last <= LastSample(timeline, m.byte_offset \div 2).last
      BY <1>1, <1>2, <2>1, <3>2, SamplesInOrder
    <3>. QED  BY <1>3, <2>2, <2>3, <3>1, <3>3
  <2>5. ASSUME NEW j \in DOMAIN markers, markers[j].byte_offset = m.byte_offset
        PROVE  Timestamp(j) = Timestamp(i)
    <3>1. Timestamp(j) = markers[j].timestamp
      BY <1>1, MarkersAre
    <3>2. markers[j].timestamp = SampledBefore(m.byte_offset).last
      BY <1>1, <2>5 DEF MarkersInv
    <3>. QED  BY <1>2, <1>4, <3>1, <3>2
  <2>. QED  BY <2>2, <2>4, <2>5
<1>. QED  BY <1>7, <1>8, <1>10, <1>11, <1>12 DEF IndInv

LEMMA SeekToInd ==
    ASSUME IndInv, NEW ts \in Targets, SeekTo(ts)
    PROVE  IndInv'
<1>1. CASE \E i \in ClosestMarkers(ts) :
              LET marker == index.markers[i]
              IN  /\ pos' = marker.byte_offset
                  /\ eof' = FALSE
                  /\ Resume(marker.state)
                  /\ resumed' = [at |-> marker.byte_offset, target |-> ts]
                  /\ decoded' = <<>>
  BY <1>1, SeekToMarker DEF SeekTo
<1>2. CASE UNCHANGED <<pos, eof, resumed, decoder>>
  <2>1. /\ UNCHANGED <<file, index, pos, eof, resumed, reads, clock, y, split_byte, decoded>>
        /\ UNCHANGED <<current_byte_offset, last_marked_offset, scan, timeline, markers>>
        /\ UNCHANGED building
        /\ seeks < MaxSeeks /\ seeks' = seeks + 1
    BY <1>2 DEF SeekTo, decoder, building
  <2>2. TypeOK /\ ScanInv /\ MarkersInv /\ PositionInv /\ DecoderInv /\ SeekIsClosest
    BY DEF IndInv
  <2>3. /\ Size' = Size /\ Markers' = Markers /\ DecodedEvents' = DecodedEvents
        /\ State' = State /\ Reached' = Reached
        /\ \A offset : Even(offset)' <=> Even(offset)
    BY <2>1, SameFile DEF State, Reached
  <2>4. TypeOK'
    <3>1. seeks' \in 0..MaxSeeks
      BY <2>1, <2>2, FilesAssumption DEF TypeOK
    <3>. QED  BY <2>1, <2>2, <2>3, <3>1 DEF TypeOK
  <2>5. ScanInv' /\ MarkersInv' /\ DecoderInv'
    BY <2>1, <2>2, SameIndex, SameReader
  <2>6. PositionInv'
    BY <2>1, <2>2, <2>3 DEF PositionInv
  <2>7. SeekIsClosest'
    BY <2>1, <2>2 DEF SeekIsClosest, Timestamp
  <2>. QED  BY <2>4, <2>5, <2>6, <2>7 DEF IndInv
<1>. QED  BY <1>1, <1>2 DEF SeekTo

(* A batch.  The decoder goes on with whole words from where it had got to.*)
LEMMA BatchIs ==
    ASSUME TypeOK, PositionInv, pos # Size, NEW upto,
           upto = IF pos + StreamBuffer < Size THEN pos + StreamBuffer ELSE Size,
           Decode(pos, upto)
    PROVE  LET count == (upto - Reached) \div 2
               d == DecodeWords(State, Reached, count)
           IN  /\ Reached \in Nat /\ Reached % 2 = 0 /\ count \in Nat
               /\ Reached \div 2 + count <= Len(file.words)
               /\ upto \in 0..Size /\ State \in Decoders
               /\ clock' = d.clock /\ y' = d.y /\ decoded' = d.decoded
               /\ split_byte' \in 0..Size - 1 \union {None}
               /\ split_byte' # None => split_byte' = upto - 1 /\ split_byte' % 2 = 0
               /\ (IF split_byte' = None THEN upto ELSE split_byte') = Reached + 2 * count
<1> DEFINE count == (upto - Reached) \div 2
           N == Len(file.words)
           kept == split_byte # None
<1>1. /\ N \in Nat /\ Size = 2 * N + file.trailing /\ file.trailing \in 0..1 /\ Size \in Nat
      /\ pos \in 0..Size /\ pos \in Nat /\ pos < Size /\ StreamBuffer \in Nat \ {0}
  BY FileType, FilesAssumption DEF TypeOK
<1>2. upto \in 0..Size /\ pos < upto /\ upto \in Nat
  BY <1>1
<1>3. /\ kept => split_byte = pos - 1 /\ split_byte % 2 = 0
      /\ Even(Reached)
  BY DEF PositionInv
<1>4. /\ Reached \in Nat /\ Reached % 2 = 0 /\ Reached <= pos
      /\ kept => Reached = split_byte /\ Reached = pos - 1
      /\ ~kept => Reached = pos
  <2>1. CASE kept
    <3>1. Reached = split_byte
      BY <2>1 DEF Reached
    <3>2. split_byte \in Nat
      BY <2>1, <1>1 DEF TypeOK
    <3>. QED  BY <1>1, <1>3, <2>1, <3>1, <3>2
  <2>2. CASE ~kept
    <3>1. Reached = pos
      BY <2>2 DEF Reached
    <3>. QED  BY <1>1, <1>3, <2>2, <3>1 DEF Even
  <2>. QED  BY <2>1, <2>2
<1>5. count \in Nat /\ Reached \div 2 + count <= N
  <2> HIDE DEF N, kept
  <2>1. upto - Reached \in Nat /\ Reached <= upto
    BY <1>1, <1>2, <1>4
  <2>2. count \in Nat /\ Reached + 2 * count <= upto
    BY <1>4, <2>1
  <2>3. Reached = 2 * (Reached \div 2) /\ Reached \div 2 \in Nat
    BY <1>4
  <2>4. upto <= 2 * N + 1
    BY <1>1, <1>2
  <2> HIDE DEF count
  <2>. QED  BY <1>1, <1>2, <2>2, <2>3, <2>4
<1>6. State \in Decoders
  BY DEF TypeOK, State, Decoders
<1>7. LET d == DecodeWords(State, Reached, count)
      IN  clock' = d.clock /\ y' = d.y /\ decoded' = d.decoded
  <2>1. CASE kept
    <3>1. split_byte + 1 = pos
      BY <1>1, <1>3, <2>1
    <3>2. Reached = split_byte
      BY <1>4, <2>1
    <3>. QED  BY <2>1, <3>1, <3>2 DEF Decode
  <2>2. CASE ~kept
    <3>1. Reached = pos
      BY <1>4, <2>2
    <3>. QED  BY <2>2, <3>1 DEF Decode
  <2>. QED  BY <2>1, <2>2
<1> DEFINE odd == (upto - Reached) % 2 = 1
<1>8. split_byte' = IF odd THEN upto - 1 ELSE None
  <2>1. (upto - pos + (IF kept THEN 1 ELSE 0)) = upto - Reached
    BY <1>1, <1>2, <1>4
  <2>2. split_byte' = IF (upto - pos + (IF kept THEN 1 ELSE 0)) % 2 = 1 THEN upto - 1 ELSE None
    BY DEF Decode
  <2>. QED  BY <2>1, <2>2
<1> HIDE DEF kept
<1>9. CASE odd
  <2>1. split_byte' = upto - 1 /\ upto - 1 \in Nat /\ upto - 1 \in 0..Size - 1
    BY <1>1, <1>2, <1>8, <1>9
  <2>2. split_byte' # None
    BY <2>1, NoneAssumption
  <2>3. upto - 1 = Reached + 2 * count /\ (upto - 1) % 2 = 0
    BY <1>2, <1>4, <1>9
  <2>. QED  BY <1>2, <1>4, <1>5, <1>6, <1>7, <2>1, <2>2, <2>3
<1>10. CASE ~odd
  <2>1. split_byte' = None
    BY <1>8, <1>10
  <2>2. upto = Reached + 2 * count
    BY <1>2, <1>4, <1>10
  <2>. QED  BY <1>2, <1>4, <1>5, <1>6, <1>7, <2>1, <2>2
<1>. QED  BY <1>9, <1>10

LEMMA LoadBatchInd ==
    ASSUME IndInv, LoadBatch
    PROVE  IndInv'
<1>1. TypeOK /\ ScanInv /\ MarkersInv /\ PositionInv /\ DecoderInv /\ SeekIsClosest
  BY DEF IndInv
<1>2. /\ UNCHANGED <<file, index, resumed, seeks>>
      /\ UNCHANGED <<current_byte_offset, last_marked_offset, scan, timeline, markers>>
      /\ UNCHANGED building
      /\ index # None /\ eof = FALSE /\ reads < MaxReads /\ reads' = reads + 1
  BY <1>1 DEF LoadBatch, building, TypeOK
<1>3. /\ Size' = Size /\ Markers' = Markers /\ DecodedEvents' = DecodedEvents
      /\ \A offset : Even(offset)' <=> Even(offset)
      /\ \A d, n : InStep(d, n)' <=> InStep(d, n)
  BY <1>2, SameFile, SameInStep
<1>4. reads' \in 0..MaxReads
  BY <1>1, <1>2, FilesAssumption DEF TypeOK
<1>5. ScanInv' /\ MarkersInv' /\ SeekIsClosest'
  BY <1>1, <1>2, SameIndex DEF SeekIsClosest, Timestamp
<1>6. CASE pos = Size
  <2>1. eof' = TRUE /\ UNCHANGED <<pos, clock, y, split_byte, decoded>>
    BY <1>6 DEF LoadBatch, decoder
  <2>2. State' = State /\ Reached' = Reached
    BY <2>1 DEF State, Reached
  <2>3. TypeOK'
    BY <1>1, <1>2, <1>3, <1>4, <2>1 DEF TypeOK
  <2>4. PositionInv'
    BY <1>1, <1>2, <1>3, <1>6, <2>1, <2>2 DEF PositionInv
  <2>5. DecoderInv'
    BY <1>1, <1>2, <2>1, SameReader
  <2>. QED  BY <1>5, <2>3, <2>4, <2>5 DEF IndInv
<1>7. CASE pos # Size
  <2> DEFINE upto == IF pos + StreamBuffer < Size THEN pos + StreamBuffer ELSE Size
             count == (upto - Reached) \div 2
             d == DecodeWords(State, Reached, count)
  <2>1. Decode(pos, upto) /\ pos' = upto /\ eof' = FALSE
    BY <1>2, <1>7 DEF LoadBatch
  <2> HIDE DEF upto
  <2>2. /\ Reached \in Nat /\ Reached % 2 = 0 /\ count \in Nat
        /\ Reached \div 2 + count <= Len(file.words)
        /\ upto \in 0..Size /\ State \in Decoders
        /\ clock' = d.clock /\ y' = d.y /\ decoded' = d.decoded
        /\ split_byte' \in 0..Size - 1 \union {None}
        /\ split_byte' # None => split_byte' = upto - 1 /\ split_byte' % 2 = 0
        /\ (IF split_byte' = None THEN upto ELSE split_byte') = Reached + 2 * count
    <3>1. upto = IF pos + StreamBuffer < Size THEN pos + StreamBuffer ELSE Size
      BY DEF upto
    <3>. QED  BY <1>1, <1>7, <2>1, <3>1, BatchIs
  <2>3. Reached' = Reached + 2 * count
    BY <2>1, <2>2 DEF Reached
  <2>4. Complete(scan)
    <3>1. Size \div 2 = Len(file.words)
      <4>1. /\ Size = 2 * Len(file.words) + file.trailing /\ file.trailing \in 0..1
            /\ Len(file.words) \in Nat
        BY <1>1, FileType DEF TypeOK
      <4>. QED  BY <4>1
    <3>2. current_byte_offset = Size
      BY <1>1, <1>2 DEF MarkersInv
    <3>. QED  BY <1>1, <3>1, <3>2 DEF Complete, ScanInv, TypeOK
  <2>5. file \in Files /\ resumed.at \in Nat /\ resumed.at <= Reached
    <3>1. file \in Files /\ resumed.at \in 0..Size
      BY <1>1 DEF TypeOK
    <3>2. resumed.at \in Nat
      BY <3>1, FileType
    <3>. QED  BY <1>1, <3>1, <3>2 DEF PositionInv
  <2>6. InStep(State, Reached \div 2)
    BY <1>1 DEF DecoderInv
  <2>7. d \in Decoders /\ InStep(d, Reached \div 2 + count)
    <3> HIDE DEF count
    <3>. QED  BY <2>2, <2>4, <2>5, <2>6, DecodeInStep
  <2> HIDE DEF d, count
  <2>8. State' = d
    <3>1. State' = [clock |-> d.clock, y |-> d.y, decoded |-> d.decoded]
      BY <2>2 DEF State
    <3>2. d = [clock |-> d.clock, y |-> d.y, decoded |-> d.decoded]
      BY <2>7 DEF Decoders
    <3>. QED  BY <3>1, <3>2
  <2>9. TypeOK'
    <3>1. clock' \in Clock /\ y' \in BOOLEAN /\ decoded' \in Seq(DecodedEvents)
      BY <2>2, <2>7 DEF Decoders
    <3>2. (/\ file \in Files
           /\ current_byte_offset \in 0..Size /\ last_marked_offset \in 0..Size
           /\ scan \in Clock
           /\ DOMAIN timeline \subseteq DOMAIN file.words
           /\ \A w \in DOMAIN timeline : timeline[w] \in Clock
           /\ markers \in Seq(Markers)
           /\ index # None => /\ index.markers \in Seq(Markers)
                              /\ index.t_min \in Nat /\ index.t_max \in Nat
           /\ resumed.at \in 0..Size /\ resumed.target \in Nat
           /\ seeks \in 0..MaxSeeks)'
      BY <1>1, <1>2, <1>3 DEF TypeOK
    <3>3. pos' \in 0..Size' /\ eof' \in BOOLEAN /\ split_byte' \in 0..Size' - 1 \union {None}
      BY <1>3, <2>1, <2>2
    <3>. QED  BY <1>3, <1>4, <3>1, <3>2, <3>3 DEF TypeOK
  <2>10. PositionInv'
    <3>1. Even(Reached + 2 * count)
      <4>1. (Reached + 2 * count) % 2 = 0
        BY <2>2
      <4>. QED  BY <4>1 DEF Even
    <3>2. resumed.at <= Reached + 2 * count
      BY <2>2, <2>5
    <3>3. Even(resumed.at) /\ Even(resumed.at)'
      BY <1>1, <1>2, <1>3 DEF PositionInv
    <3>4. Even(Reached)'
      BY <1>3, <2>3, <3>1
    <3>. QED  BY <1>2, <2>1, <2>2, <2>3, <3>2, <3>3, <3>4 DEF PositionInv
  <2>11. DecoderInv'
    <3>1. Reached' \div 2 = Reached \div 2 + count
      BY <2>2, <2>3
    <3>2. InStep(State', Reached' \div 2)
      BY <2>7, <2>8, <3>1
    <3>. QED  BY <1>3, <3>2 DEF DecoderInv
  <2>. QED  BY <1>5, <2>9, <2>10, <2>11 DEF IndInv
<1>. QED  BY <1>6, <1>7

LEMMA StutterInd ==
    ASSUME IndInv, UNCHANGED vars
    PROVE  IndInv'
<1>1. /\ UNCHANGED <<file, current_byte_offset, last_marked_offset, scan, timeline, index,
                     markers, pos, eof, clock, y, split_byte, resumed, decoded, seeks, reads>>
      /\ UNCHANGED building
  BY DEF vars, building
<1>2. TypeOK /\ ScanInv /\ MarkersInv /\ PositionInv /\ DecoderInv /\ SeekIsClosest
  BY DEF IndInv
<1>3. /\ Size' = Size /\ Markers' = Markers /\ DecodedEvents' = DecodedEvents
      /\ State' = State /\ Reached' = Reached
      /\ \A offset : Even(offset)' <=> Even(offset)
  BY <1>1, SameFile DEF State, Reached
<1>4. TypeOK'
  BY <1>1, <1>2, <1>3 DEF TypeOK
<1>5. ScanInv' /\ MarkersInv' /\ DecoderInv'
  BY <1>1, <1>2, SameIndex, SameReader
<1>6. PositionInv'
  BY <1>1, <1>2, <1>3 DEF PositionInv
<1>7. SeekIsClosest'
  BY <1>1, <1>2 DEF SeekIsClosest, Timestamp
<1>. QED  BY <1>4, <1>5, <1>6, <1>7 DEF IndInv

(* The index and the reader are always in step with the file.              *)
THEOREM IndexInductive == Spec => []IndInv
<1>1. IndInv /\ [Next]_vars => IndInv'
  <2> SUFFICES ASSUME IndInv, [Next]_vars
               PROVE  IndInv'
    OBVIOUS
  <2>1. CASE IndexRead
    BY <2>1, IndexReadScan, IndexReadType, IndexReadRest DEF IndInv
  <2>2. CASE IndexDone
    BY <2>2, IndexDoneInd
  <2>3. ASSUME NEW ts \in Targets, SeekTo(ts)
        PROVE  IndInv'
    BY <2>3, SeekToInd
  <2>4. CASE LoadBatch
    BY <2>4, LoadBatchInd
  <2>5. CASE UNCHANGED vars
    BY <2>5, StutterInd
  <2>. QED  BY <2>1, <2>2, <2>3, <2>4, <2>5 DEF Next
<1>. QED  BY <1>1, InitIndInv, PTL DEF Spec

(* Every variable holds a value of its type: offsets lie in the file, the  *)
(* clocks of the index and the decoder in the widths of their fields.      *)
THEOREM TypeCorrect == Spec => []TypeOK
<1>1. IndInv => TypeOK
  BY DEF IndInv
<1>. QED  BY <1>1, IndexInductive, PTL

(* "Returns the closest marker occurring before or at target_ts"           *)
(* (RawFileIndex in index.rs): in a file whose events are in order, a seek *)
(* lands before every event later than the target, at the last marker that *)
(* does.                                                                   *)
THEOREM SeekLandsClosest == Spec => []SeekIsClosest
<1>1. IndInv => SeekIsClosest
  BY DEF IndInv
<1>. QED  BY <1>1, IndexInductive, PTL

(* "The next decode call resumes from the chosen marker" (seek in          *)
(* index.rs): the decoder delivers every event from there to the end of the*)
(* file whose row is known, once and in order, wherever reads cut words.   *)
THEOREM SeekResumesInStep == Spec => []ResumesInStep
<1>1. IndInv => ResumesInStep
  <2> SUFFICES ASSUME IndInv
               PROVE  ResumesInStep
    OBVIOUS
  <2>1. TypeOK /\ PositionInv /\ InStep(State, Reached \div 2) /\ State.decoded = decoded
    BY DEF IndInv, DecoderInv, State
  <2>2. /\ {decoded[i].word : i \in DOMAIN decoded}
             = {w \in Acceptable(resumed.at) : w <= Reached \div 2}
        /\ \A i, j \in DOMAIN decoded : j < i => decoded[j].word < decoded[i].word
    BY <2>1 DEF InStep
  <2>3. ASSUME NEW i \in DOMAIN decoded
        PROVE  /\ decoded[i].word \in Acceptable(resumed.at)
               /\ \A j \in 1..i - 1 : decoded[j].word < decoded[i].word
    <3>1. decoded[i].word \in {w \in Acceptable(resumed.at) : w <= Reached \div 2}
      BY <2>2
    <3>2. \A j \in 1..i - 1 : j \in DOMAIN decoded /\ j < i
      BY <2>1 DEF TypeOK
    <3>. QED  BY <2>2, <3>1, <3>2
  <2>4. ASSUME eof
        PROVE  {decoded[i].word : i \in DOMAIN decoded} = Acceptable(resumed.at)
    <3> DEFINE N == Len(file.words)
    <3>1. /\ N \in Nat /\ DOMAIN file.words = 1..N
          /\ Size = 2 * N + file.trailing /\ file.trailing \in 0..1
      BY <2>1, FileType DEF TypeOK
    <3>2. Reached \div 2 = N
      <4>1. pos = Size /\ (split_byte # None => split_byte = pos - 1 /\ split_byte % 2 = 0)
        BY <2>1, <2>4 DEF PositionInv
      <4>2. CASE split_byte = None
        <5>1. Reached = Size
          BY <4>1, <4>2 DEF Reached
        <5>. QED  BY <3>1, <5>1
      <4>3. CASE split_byte # None
        <5>1. Reached = Size - 1 /\ (Size - 1) % 2 = 0
          BY <4>1, <4>3 DEF Reached
        <5>. QED  BY <3>1, <5>1
      <4>. QED  BY <4>2, <4>3
    <3>3. \A w \in Acceptable(resumed.at) : w <= N
      BY <3>1 DEF Acceptable, WordsIn
    <3>4. {w \in Acceptable(resumed.at) : w <= Reached \div 2} = Acceptable(resumed.at)
      <4> HIDE DEF N
      <4>. QED  BY <3>2, <3>3
    <3>. QED  BY <2>2, <3>4
  <2>. QED  BY <2>3, <2>4 DEF ResumesInStep
<1>. QED  BY <1>1, IndexInductive, PTL

(* "Jump near a requested timestamp and restore decoder state" (index.rs): *)
(* after any seek an event has the time the index gave it, for a decoder   *)
(* that knows the file's first timestamp, if no gap hides a rollover.      *)
THEOREM SeekKeepsTime == Spec => []TimeAfterSeek
<1>1. IndInv => TimeAfterSeek
  <2> SUFFICES ASSUME IndInv
               PROVE  TimeAfterSeek
    OBVIOUS
  <2>1. /\ TypeOK /\ ScanInv /\ PositionInv /\ InStep(State, Reached \div 2)
        /\ State.decoded = decoded /\ State.clock = clock
    BY DEF IndInv, DecoderInv, State
  <2>2. SUFFICES ASSUME NEW i \in DOMAIN decoded, clock.first = scan.first,
                        \A j \in 1..i :
                           Traceable(IF j = 1 THEN SampledBefore(resumed.at)
                                     ELSE timeline[decoded[j - 1].word],
                                     timeline[decoded[j].word])
                 PROVE  decoded[i].t = timeline[decoded[i].word].last
    BY DEF TimeAfterSeek
  <2>3. i \in Nat /\ DOMAIN decoded = 1..Len(decoded)
    BY <2>1 DEF TypeOK
  <2>4. Traced(decoded, i)
    <3>1. ASSUME NEW j \in 1..i
          PROVE  Traceable(Sampled(decoded, j - 1), Sampled(decoded, j))
      <4>1. /\ Sampled(decoded, j) = timeline[decoded[j].word]
            /\ Sampled(decoded, j - 1) = IF j = 1 THEN SampledBefore(resumed.at)
                                         ELSE timeline[decoded[j - 1].word]
        BY <2>3 DEF Sampled
      <4>. QED  BY <2>2, <4>1
    <3>. QED  BY <3>1 DEF Traced
  <2>5. decoded[i].t = Shown(timeline[decoded[i].word], scan.first)
    BY <2>1, <2>2, <2>4 DEF InStep
  <2>6. decoded[i].word \in DOMAIN timeline
    <3>1. {decoded[k].word : k \in DOMAIN decoded}
             = {w \in Acceptable(resumed.at) : w <= Reached \div 2}
      BY <2>1 DEF InStep
    <3>2. decoded[i].word \in Acceptable(resumed.at)
      BY <3>1
    <3>3. /\ decoded[i].word \in DOMAIN file.words
          /\ file.words[decoded[i].word].kind \in EventWords
      BY <3>2 DEF Acceptable, WordsIn, EventWords
    <3>4. index # None /\ current_byte_offset = Size
      <4>1. index # None
        BY <2>1, <2>2 DEF PositionInv
      <4>. QED  BY <4>1 DEF IndInv, MarkersInv
    <3>5. Size \div 2 = Len(file.words) /\ DOMAIN file.words = 1..Len(file.words)
      <4>1. /\ Size = 2 * Len(file.words) + file.trailing /\ file.trailing \in 0..1
            /\ Len(file.words) \in Nat /\ DOMAIN file.words = 1..Len(file.words)
        BY <2>1, FileType DEF TypeOK
      <4>. QED  BY <4>1
    <3>. QED  BY <2>1, <3>3, <3>4, <3>5 DEF ScanInv
  <2>7. timeline[decoded[i].word].last = Shown(timeline[decoded[i].word], scan.first)
    <3>1. decoded[i].word <= current_byte_offset \div 2
      <4>1. DOMAIN timeline = {w \in 1..current_byte_offset \div 2 : file.words[w].kind \in EventWords}
        BY <2>1 DEF ScanInv
      <4>2. decoded[i].word \in 1..current_byte_offset \div 2
        BY <2>6, <4>1
      <4>. QED  BY <4>2
    <3>2. Indexed(scan, timeline, current_byte_offset \div 2)
      BY <2>1 DEF ScanInv
    <3>. QED  BY <2>6, <3>1, <3>2 DEF Indexed
  <2>. QED  BY <2>5, <2>7
<1>. QED  BY <1>1, IndexInductive, PTL

=============================================================================
