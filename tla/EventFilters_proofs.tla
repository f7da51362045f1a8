------------------------- MODULE EventFilters_proofs -------------------------
(***************************************************************************)
(* Theorems about the event filters and the time surfaces, for every       *)
(* sensor, every chain of filters, and every stream of events on it.       *)
(***************************************************************************)
EXTENDS EventFilters, SequenceTheorems, FiniteSetTheorems, WellFoundedInduction, TLAPS

-----------------------------------------------------------------------------
(* Induction.  A set of numbers has a least one, so a property that fails  *)
(* somewhere fails at a first place.                                       *)
LEMMA LeastNumber ==
    ASSUME NEW S, S \subseteq Nat, S # {}
    PROVE  \E m \in S : \A n \in S : m <= n
<1> DEFINE R == OpToRel(<, Nat)
<1>1. \A a, b \in Nat : <<a, b>> \in R <=> a < b
  BY DEF OpToRel
<1>2. IsWellFoundedOn(R, Nat)
  BY NatLessThanWellFounded
<1> HIDE DEF R
<1>3. PICK m \in S : \A n \in S : ~(<<n, m>> \in R)
  BY <1>2, WFMin
<1>4. ASSUME NEW n \in S
      PROVE  m <= n
  <2>1. m \in Nat /\ n \in Nat /\ ~(n < m)
    BY <1>1, <1>3
  <2>. QED  BY <2>1
<1>. QED  BY <1>3, <1>4

(* What holds of 0, and of n + 1 when it holds of n, holds up to N.        *)
LEMMA UpTo ==
    ASSUME NEW N \in Nat, NEW Holds, 0 \in Holds,
           \A n \in 0..N - 1 : n \in Holds => n + 1 \in Holds
    PROVE  \A n \in 0..N : n \in Holds
<1> DEFINE S == {n \in 0..N : n \notin Holds}
<1>1. SUFFICES ASSUME S # {}
               PROVE  FALSE
  OBVIOUS
<1>2. PICK m \in S : \A n \in S : m <= n
  <2>1. S \subseteq Nat
    OBVIOUS
  <2> HIDE DEF S
  <2>. QED  BY <1>1, <2>1, LeastNumber
<1>3. m # 0 /\ m \in 1..N /\ m - 1 \in 0..N - 1 /\ m \notin Holds
  BY <1>2
<1>4. m - 1 \in Holds
  BY <1>2, <1>3
<1>5. m - 1 + 1 = m
  BY <1>3
<1>. QED  BY <1>3, <1>4, <1>5

(* A bounded set of numbers has a greatest one.                            *)
LEMMA GreatestNumber ==
    ASSUME NEW S, NEW n \in Nat, S \subseteq 1..n, S # {}
    PROVE  \E m \in S : \A k \in S : k <= m
<1> DEFINE T == {n - k : k \in S}
<1>1. T \subseteq Nat /\ T # {}
  <2>1. \A k \in S : k \in 1..n /\ n - k \in Nat
    OBVIOUS
  <2>. QED  BY <2>1
<1>2. PICK t \in T : \A u \in T : t <= u
  <2> HIDE DEF T
  <2>. QED  BY <1>1, LeastNumber
<1>3. PICK m \in S : t = n - m
  BY <1>2
<1>4. ASSUME NEW k \in S
      PROVE  k <= m
  BY <1>2, <1>3
<1>. QED  BY <1>4

(* The equation of a function that is defined by recursion on numbers has  *)
(* a solution.                                                             *)
Unfolds(f, lo, hi, base, step) ==
    \A w \in lo..hi : f[w] = IF w = lo THEN base ELSE step[<<w, f[w - 1]>>]

LEMMA Recursion ==
    ASSUME NEW V, NEW lo \in Nat, NEW hi \in Nat, lo <= hi, NEW base \in V,
           NEW step \in [(lo + 1..hi) \X V -> V]
    PROVE  \E f \in [lo..hi -> V] : Unfolds(f, lo, hi, base, step)
<1> DEFINE Solves(f, n) ==
              \A w \in lo..lo + n : f[w] = IF w = lo THEN base ELSE step[<<w, f[w - 1]>>]
           Holds == {n \in 0..hi - lo : \E f \in [lo..lo + n -> V] : Solves(f, n)}
<1>1. 0 \in Holds
  <2>1. [w \in lo..lo + 0 |-> base] \in [lo..lo + 0 -> V]
    OBVIOUS
  <2>2. Solves([w \in lo..lo + 0 |-> base], 0)
    OBVIOUS
  <2>3. 0 \in 0..hi - lo
    OBVIOUS
  <2> HIDE DEF Solves
  <2>. QED  BY <2>1, <2>2, <2>3
<1>2. ASSUME NEW n \in 0..(hi - lo) - 1, n \in Holds
      PROVE  n + 1 \in Holds
  <2>1. PICK f \in [lo..lo + n -> V] : Solves(f, n)
    BY <1>2
  <2> DEFINE top == lo + n + 1
             g == [w \in lo..lo + (n + 1) |-> IF w = top THEN step[<<top, f[lo + n]>>] ELSE f[w]]
  <2>2. f[lo + n] \in V /\ top \in lo + 1..hi
    OBVIOUS
  <2>3. step[<<top, f[lo + n]>>] \in V
    BY <2>2
  <2>4. g \in [lo..lo + (n + 1) -> V]
    BY <2>3
  <2>5. ASSUME NEW w \in lo..lo + (n + 1)
        PROVE  g[w] = IF w = lo THEN base ELSE step[<<w, g[w - 1]>>]
    <3>1. CASE w = top
      <4>1. w # lo /\ w - 1 = lo + n /\ w - 1 # top /\ w - 1 \in lo..lo + (n + 1)
        BY <3>1
      <4>2. g[w - 1] = f[lo + n]
        BY <4>1
      <4>. QED  BY <3>1, <4>1, <4>2
    <3>2. CASE w # top
      <4>1. w \in lo..lo + n
        BY <3>2
      <4>2. g[w] = f[w]
        BY <3>2
      <4>3. w # lo => g[w - 1] = f[w - 1]
        BY <4>1
      <4>. QED  BY <2>1, <4>1, <4>2, <4>3
    <3>. QED  BY <3>1, <3>2
  <2>6. Solves(g, n + 1)
    BY <2>5
  <2> HIDE DEF g, Solves
  <2>7. \E f2 \in [lo..lo + (n + 1) -> V] : Solves(f2, n + 1)
    BY <2>4, <2>6
  <2>. QED  BY <2>7
<1> HIDE DEF Solves
<1>3. hi - lo \in Nat
  OBVIOUS
<1>4. \A n \in 0..hi - lo : n \in Holds
  <2>1. \A n \in 0..(hi - lo) - 1 : n \in Holds => n + 1 \in Holds
    BY <1>2
  <2> HIDE DEF Holds
  <2>. QED  BY <1>1, <1>3, <2>1, UpTo
<1>5. hi - lo \in Holds
  <2> HIDE DEF Holds
  <2>1. hi - lo \in 0..hi - lo
    BY <1>3
  <2>. QED  BY <1>4, <2>1
<1>6. lo + (hi - lo) = hi
  OBVIOUS
<1>7. \E f \in [lo..hi -> V] : Solves(f, hi - lo)
  BY <1>5, <1>6
<1>. QED  BY <1>6, <1>7 DEF Solves, Unfolds

-----------------------------------------------------------------------------
(* Sets of indices, and places on a surface. *)

LEMMA LastOfIs ==
    ASSUME NEW N \in Nat, NEW S, S \subseteq 1..N
    PROVE  /\ LastOf(S) \in 0..N
           /\ S = {} => LastOf(S) = 0
           /\ S # {} => LastOf(S) \in S /\ LastOf(S) # 0
           /\ \A k \in S : k <= LastOf(S)
<1>1. CASE S = {}
  BY <1>1 DEF LastOf
<1>2. CASE S # {}
  <2>1. \E m \in S : \A k \in S : m >= k
    <3>1. PICK m \in S : \A k \in S : k <= m
      BY <1>2, GreatestNumber
    <3>. QED  BY <3>1
  <2>2. Max(S) \in S /\ \A k \in S : Max(S) >= k
    BY <2>1 DEF Max
  <2>3. LastOf(S) = Max(S)
    BY <1>2 DEF LastOf
  <2>4. Max(S) \in 1..N /\ \A k \in S : k \in 1..N
    BY <2>2
  <2>5. \A k \in S : k <= Max(S)
    BY <2>2, <2>4
  <2>. QED  BY <1>2, <2>2, <2>3, <2>4, <2>5
<1>. QED  BY <1>1, <1>2

(* The last of some indices is the one that no other follows. *)
LEMMA LastOfUnique ==
    ASSUME NEW N \in Nat, NEW S, S \subseteq 1..N, NEW m \in S, \A k \in S : k <= m
    PROVE  LastOf(S) = m
<1>0. \A k \in S : k \in 1..N
  OBVIOUS
<1>1. LastOf(S) \in S /\ m <= LastOf(S)
  BY LastOfIs
<1>2. LastOf(S) <= m
  BY <1>1
<1>3. m \in 1..N
  BY <1>0
<1>4. LastOf(S) \in 1..N
  BY <1>0, <1>1
<1>. QED  BY <1>1, <1>2, <1>3, <1>4

(* Rows do not overlap. *)
LEMMA RowsApart ==
    ASSUME NEW a \in Nat, NEW b \in Nat, a < b
    PROVE  /\ a * Width + Width <= b * Width
           /\ a * Width \in Nat /\ b * Width \in Nat
<1>1. Width \in Nat
  BY SensorAssumption
<1>2. PICK c \in Nat : b = a + 1 + c
  <2>1. b - a - 1 \in Nat /\ b = a + 1 + (b - a - 1)
    OBVIOUS
  <2>. QED  BY <2>1
<1>3. (a + 1 + c) * Width = a * Width + Width + c * Width
  BY <1>1
<1>4. c * Width \in Nat /\ a * Width \in Nat /\ b * Width \in Nat
  BY <1>1
<1>. QED  BY <1>1, <1>2, <1>3, <1>4

(* Each pixel of the sensor and each polarity has a slot of its own.       *)
LEMMA SlotsAre ==
    /\ \A at \in Pixels, p \in BOOLEAN : GetIndex(at, p) \in Slots
    /\ \A at, bt \in Pixels, p, q \in BOOLEAN :
          GetIndex(at, p) = GetIndex(bt, q) => at = bt /\ p = q
<1>1. Width \in Nat \ {0} /\ Height \in Nat \ {0}
  BY SensorAssumption
<1>2. ASSUME NEW at \in Pixels
      PROVE  /\ at[1] \in 0..Width - 1 /\ at[2] \in 0..Height - 1 /\ at = <<at[1], at[2]>>
             /\ at[2] * Width + at[1] \in 0..Width * Height - 1
  <2>1. at[1] \in 0..Width - 1 /\ at[2] \in 0..Height - 1 /\ at = <<at[1], at[2]>>
    BY DEF Pixels
  <2>2. at[2] * Width + Width <= Height * Width /\ at[2] * Width \in Nat
    BY <1>1, <2>1, RowsApart
  <2>3. Height * Width = Width * Height /\ Width * Height \in Nat
    BY <1>1
  <2>. QED  BY <1>1, <2>1, <2>2, <2>3
<1>3. ASSUME NEW at \in Pixels, NEW p \in BOOLEAN
      PROVE  GetIndex(at, p) \in Slots
  <2>1. Width * Height \in Nat /\ Width * Height * 2 = 2 * (Width * Height)
    BY <1>1
  <2> DEFINE w == at[2] * Width + at[1]
             h == Width * Height
  <2>2. w \in 0..h - 1 /\ h \in Nat
    BY <1>2, <2>1
  <2>3. GetIndex(at, p) = w * 2 + (IF p THEN 1 ELSE 0) /\ Slots = 0..(2 * h) - 1
    BY <2>1 DEF GetIndex, Slots
  <2> HIDE DEF w, h
  <2>. QED  BY <2>2, <2>3
<1>4. ASSUME NEW at \in Pixels, NEW bt \in Pixels,
             at[2] * Width + at[1] = bt[2] * Width + bt[1]
      PROVE  at = bt
  <2>1. /\ at[1] \in 0..Width - 1 /\ at[2] \in Nat /\ at = <<at[1], at[2]>>
        /\ bt[1] \in 0..Width - 1 /\ bt[2] \in Nat /\ bt = <<bt[1], bt[2]>>
    BY <1>2, <1>1
  <2>2. ~(at[2] < bt[2])
    <3>1. SUFFICES ASSUME at[2] < bt[2]  PROVE FALSE
      OBVIOUS
    <3>2. at[2] * Width + Width <= bt[2] * Width /\ at[2] * Width \in Nat /\ bt[2] * Width \in Nat
      BY <2>1, <3>1, RowsApart
    <3>. QED  BY <1>1, <1>4, <2>1, <3>2
  <2>3. ~(bt[2] < at[2])
    <3>1. SUFFICES ASSUME bt[2] < at[2]  PROVE FALSE
      OBVIOUS
    <3>2. bt[2] * Width + Width <= at[2] * Width /\ at[2] * Width \in Nat /\ bt[2] * Width \in Nat
      BY <2>1, <3>1, RowsApart
    <3>. QED  BY <1>1, <1>4, <2>1, <3>2
  <2>4. at[2] = bt[2]
    BY <2>1, <2>2, <2>3
  <2>5. at[2] * Width \in Nat
    BY <1>1, <2>1
  <2>6. at[1] = bt[1]
    BY <1>1, <1>4, <2>1, <2>4, <2>5
  <2>. QED  BY <2>1, <2>4, <2>6
<1>5. ASSUME NEW at \in Pixels, NEW bt \in Pixels, NEW p \in BOOLEAN, NEW q \in BOOLEAN,
             GetIndex(at, p) = GetIndex(bt, q)
      PROVE  at = bt /\ p = q
  <2> DEFINE w == at[2] * Width + at[1]
             v == bt[2] * Width + bt[1]
  <2>1. w \in Nat /\ v \in Nat
    BY <1>1, <1>2
  <2>2. w * 2 + (IF p THEN 1 ELSE 0) = v * 2 + (IF q THEN 1 ELSE 0)
    BY <1>5 DEF GetIndex
  <2>3. w = v /\ p = q
    <3> HIDE DEF w, v
    <3>1. CASE p /\ q
      BY <2>1, <2>2, <3>1
    <3>2. CASE p /\ ~q
      BY <2>1, <2>2, <3>2
    <3>3. CASE ~p /\ q
      BY <2>1, <2>2, <3>3
    <3>4. CASE ~p /\ ~q
      BY <2>1, <2>2, <3>4
    <3>. QED  BY <3>1, <3>2, <3>3, <3>4
  <2>. QED  BY <1>4, <2>3
<1>. QED  BY <1>3, <1>5

-----------------------------------------------------------------------------
(* The filters' states and verdicts keep their types. *)

LEMMA MinIs ==
    ASSUME NEW a \in Nat, NEW b \in Nat
    PROVE  Min({a, b}) = IF a < b THEN a ELSE b
<1> DEFINE m == IF a < b THEN a ELSE b
<1>1. m \in {a, b} /\ \A u \in {a, b} : m <= u
  OBVIOUS
<1>2. \A u \in {a, b} : (\A v \in {a, b} : u <= v) => u = m
  OBVIOUS
<1>. QED  BY <1>1, <1>2 DEF Min

LEMMA UpdateIs ==
    ASSUME NEW s \in [Slots -> Nat], NEW e \in EventSpace
    PROVE  /\ Update(s, e) \in [Slots -> Nat]
           /\ \A at \in Pixels, p \in BOOLEAN :
                 Update(s, e)[GetIndex(at, p)] = IF at = e.at /\ p = e.p THEN e.t
                                                 ELSE s[GetIndex(at, p)]
<1>1. e.at \in Pixels /\ e.p \in BOOLEAN /\ e.t \in Nat
  BY DEF EventSpace
<1>2. GetIndex(e.at, e.p) \in Slots
  BY <1>1, SlotsAre
<1>3. Update(s, e) \in [Slots -> Nat]
  BY <1>1 DEF Update
<1>4. ASSUME NEW at \in Pixels, NEW p \in BOOLEAN
      PROVE  Update(s, e)[GetIndex(at, p)] = IF at = e.at /\ p = e.p THEN e.t
                                             ELSE s[GetIndex(at, p)]
  <2>1. GetIndex(at, p) \in Slots /\ (GetIndex(at, p) = GetIndex(e.at, e.p) <=> at = e.at /\ p = e.p)
    BY <1>1, SlotsAre
  <2>. QED  BY <2>1 DEF Update
<1>. QED  BY <1>3, <1>4

(* A frequency is no greater than that of events a microsecond apart.      *)
LEMMA FrequencyType ==
    ASSUME NEW period \in Nat \ {0}
    PROVE  FrequencyFromPeriod(period) \in 0..MICROSECONDS_PER_SECOND
<1> DEFINE M == MICROSECONDS_PER_SECOND
           a == M + period \div 2
           q == a \div period
<1>1. M \in Nat \ {0}
  BY SensorAssumption
<1>2. period \div 2 \in Nat /\ period \div 2 < period
  OBVIOUS
<1>3. a \in Nat
  BY <1>1, <1>2
<1>4. q \in Int /\ q >= 0 /\ q * period <= a
  <2> HIDE DEF a
  <2>. QED  BY <1>3
<1>5. q <= M
  <2>1. SUFFICES ASSUME q >= M + 1  PROVE FALSE
    BY <1>1, <1>4
  <2>2. PICK c \in Nat : q = M + 1 + c
    <3>1. q - M - 1 \in Nat /\ q = M + 1 + (q - M - 1)
      BY <1>1, <1>4, <2>1
    <3>. QED  BY <3>1
  <2> HIDE DEF q
  <2>3. q * period = M * period + period + c * period
    BY <1>1, <2>2
  <2>4. M * period >= M /\ c * period \in Nat /\ M * period \in Nat
    BY <1>1
  <2>5. q * period <= M + period \div 2
    BY <1>4
  <2>. QED  BY <1>1, <1>2, <2>3, <2>4, <2>5
<1>6. FrequencyFromPeriod(period) = q
  BY DEF FrequencyFromPeriod
<1> HIDE DEF q
<1>. QED  BY <1>1, <1>4, <1>5, <1>6

(* A ring's offset goes round. *)
LEMMA NextOffsetIs ==
    ASSUME NEW o \in 0..min_measurements - 1
    PROVE  NextOffset(o) = IF o + 1 = min_measurements THEN 0 ELSE o + 1
<1>1. min_measurements \in Nat \ {0}
  BY SensorAssumption
<1>. QED  BY <1>1 DEF NextOffset

LEMMA VerdictIs ==
    ASSUME NEW f, NEW b
    PROVE  Verdict(f, b).filter = f /\ Verdict(f, b).valid = b
BY DEF Verdict

LEMMA OppositeIs ==
    ASSUME NEW p \in BOOLEAN
    PROVE  (~p) \in BOOLEAN
OBVIOUS

(* What the anti-flicker filter does to the ring of a pixel: it adds a     *)
(* sample, or leaves the samples alone, and may start over.                *)
Pushes(f, g, px, frequency) ==
    /\ \A i \in Slots \ {px} :
          /\ g.sample_count[i] = f.sample_count[i]
          /\ g.sample_offset[i] = f.sample_offset[i]
          /\ g.frequency_samples[i] = f.frequency_samples[i]
          /\ g.is_blocked[i] = f.is_blocked[i]
    /\ g.sample_count[px] = Min({f.sample_count[px] + 1, min_measurements})
    /\ g.sample_offset[px] = NextOffset(f.sample_offset[px])
    /\ g.frequency_samples[px]
          = [f.frequency_samples[px] EXCEPT ![f.sample_offset[px]] = frequency]
    /\ g.is_blocked[px] = MedianInWindow(g, px)

Keeps(f, g, px, reset) ==
    /\ g.frequency_samples = f.frequency_samples
    /\ \A i \in Slots \ {px} :
          /\ g.sample_count[i] = f.sample_count[i]
          /\ g.sample_offset[i] = f.sample_offset[i]
          /\ g.is_blocked[i] = f.is_blocked[i]
    /\ IF reset
       THEN g.sample_count[px] = 0 /\ g.is_blocked[px] = FALSE
       ELSE /\ g.sample_count[px] = f.sample_count[px]
            /\ g.sample_offset[px] = f.sample_offset[px]
            /\ g.is_blocked[px] = f.is_blocked[px]

LEMMA FlickerFilterIs ==
    ASSUME NEW f \in FilterStates, NEW e \in EventSpace
    PROVE  LET px == PixelIndex(e)
               same_t == Get(f.surface, e)
               opp_t == GetOpposite(f.surface, e)
               frequency == FrequencyFromPeriod(e.t - same_t)
               v == AntiFlickerFilter(f, e)
           IN  /\ v.filter \in FilterStates /\ v.filter.kind = f.kind /\ v.valid \in BOOLEAN
               /\ v.filter.surface = Update(f.surface, e)
               /\ px \in Slots
               /\ IF IsAlternating(same_t, opp_t, e.t)
                  THEN /\ v.valid = ~(f.is_blocked[px] /\ FrequencyInWindow(frequency))
                       /\ Pushes(f, v.filter, px, frequency)
                  ELSE /\ v.valid = TRUE
                       /\ Keeps(f, v.filter, px, same_t > opp_t)
<1> DEFINE px == PixelIndex(e)
           same_t == Get(f.surface, e)
           opp_t == GetOpposite(f.surface, e)
           frequency == FrequencyFromPeriod(e.t - same_t)
           v == AntiFlickerFilter(f, e)
           g == v.filter
           m == min_measurements
           pushed == PushFrequencySample(f, px, frequency)
           reset == ResetFrequencySamples(f, px)
           judged == [pushed EXCEPT !.is_blocked[px] = MedianInWindow(pushed, px)]
           ring == [f.frequency_samples[px] EXCEPT ![f.sample_offset[px]] = frequency]
<1>1. /\ e.at \in Pixels /\ e.p \in BOOLEAN /\ e.t \in Nat /\ px \in Slots
      /\ m \in Nat \ {0} /\ same_t \in Nat /\ opp_t \in Nat
  <2>1. e.at \in Pixels /\ e.p \in BOOLEAN /\ e.t \in Nat
    BY DEF EventSpace
  <2>0. (~e.p) \in BOOLEAN
    BY <2>1, OppositeIs
  <2>2. GetIndex(e.at, FALSE) \in Slots /\ GetIndex(e.at, e.p) \in Slots /\ GetIndex(e.at, ~e.p) \in Slots
    BY <2>0, <2>1, SlotsAre
  <2>3. f.surface \in [Slots -> Nat]
    BY DEF FilterStates
  <2>. QED  BY <2>1, <2>2, <2>3, SensorAssumption DEF PixelIndex, Get, GetOpposite
<1>2. Update(f.surface, e) \in [Slots -> Nat]
  BY UpdateIs DEF FilterStates
<1>3. /\ f.sample_count[px] \in 0..m /\ f.sample_offset[px] \in 0..m - 1
      /\ f.frequency_samples[px] \in [0..m - 1 -> 0..MICROSECONDS_PER_SECOND]
      /\ f.is_blocked[px] \in BOOLEAN
  BY <1>1 DEF FilterStates
<1>4. Min({f.sample_count[px] + 1, m}) \in 0..m
  <2>1. f.sample_count[px] + 1 \in Nat /\ m \in Nat
    BY <1>1, <1>3
  <2>2. Min({f.sample_count[px] + 1, m})
           = IF f.sample_count[px] + 1 < m THEN f.sample_count[px] + 1 ELSE m
    BY <2>1, MinIs
  <2>. QED  BY <2>1, <2>2
<1>5. NextOffset(f.sample_offset[px]) \in 0..m - 1
  <2>1. f.sample_offset[px] + 1 \in Nat /\ f.sample_offset[px] \in 0..min_measurements - 1
    BY <1>3
  <2>2. NextOffset(f.sample_offset[px])
           = IF f.sample_offset[px] + 1 = min_measurements THEN 0 ELSE f.sample_offset[px] + 1
    BY <2>1, NextOffsetIs
  <2>. QED  BY <1>1, <2>1, <2>2
<1> HIDE DEF px, same_t, opp_t, frequency, m
<1>6. CASE IsAlternating(same_t, opp_t, e.t)
  <2>1. frequency \in 0..MICROSECONDS_PER_SECOND
    <3>1. e.t - same_t \in Nat \ {0}
      BY <1>1, <1>6 DEF IsAlternating
    <3>. QED  BY <3>1, FrequencyType DEF frequency
  <2>2. ring \in [0..m - 1 -> 0..MICROSECONDS_PER_SECOND]
    BY <1>3, <2>1
  <2>3. /\ pushed \in FilterStates /\ pushed.kind = f.kind /\ pushed.surface = f.surface
        /\ pushed.is_blocked = f.is_blocked
        /\ pushed.sample_count = [f.sample_count EXCEPT ![px] = Min({f.sample_count[px] + 1, m})]
        /\ pushed.sample_offset = [f.sample_offset EXCEPT ![px] = NextOffset(f.sample_offset[px])]
        /\ pushed.frequency_samples = [f.frequency_samples EXCEPT ![px] = ring]
    <3> HIDE DEF ring
    <3>1. pushed = [f EXCEPT !.frequency_samples = [f.frequency_samples EXCEPT ![px] = ring],
                             !.sample_offset = [f.sample_offset EXCEPT ![px] = NextOffset(f.sample_offset[px])],
                             !.sample_count = [f.sample_count EXCEPT ![px] = Min({f.sample_count[px] + 1, m})]]
      BY <1>1 DEF PushFrequencySample, FilterStates, ring, m
    <3> HIDE DEF pushed
    <3>. QED  BY <1>1, <1>4, <1>5, <2>2, <3>1 DEF FilterStates, m
  <2> HIDE DEF pushed, ring
  <2> DEFINE verdict == ~(f.is_blocked[px] /\ FrequencyInWindow(frequency))
  <2>4. v = Verdict([judged EXCEPT !.surface = Update(judged.surface, e)], verdict)
    BY <1>6 DEF AntiFlickerFilter, px, same_t, opp_t, frequency, pushed
  <2>4a. verdict \in BOOLEAN
    OBVIOUS
  <2> HIDE DEF verdict
  <2>5. MedianInWindow(pushed, px) \in BOOLEAN
    BY DEF MedianInWindow
  <2>6. judged \in FilterStates /\ judged = [pushed EXCEPT !.is_blocked = [pushed.is_blocked EXCEPT ![px] = MedianInWindow(pushed, px)]]
    BY <2>3, <2>5 DEF FilterStates
  <2>7. g = [judged EXCEPT !.surface = Update(f.surface, e)] /\ v.valid = verdict
    <3>1. judged.surface = f.surface
      BY <2>3, <2>6 DEF FilterStates
    <3> DEFINE h == [judged EXCEPT !.surface = Update(judged.surface, e)]
    <3>2. v = Verdict(h, verdict)
      BY <2>4
    <3> HIDE DEF v, h
    <3>3. v.filter = h
      BY <3>2, VerdictIs, Zenon
    <3>4. v.valid = verdict
      BY <3>2, VerdictIs, Zenon
    <3>. QED  BY <3>1, <3>3, <3>4 DEF h
  <2> HIDE DEF judged, v, g
  <2>8. /\ g \in FilterStates /\ g.kind = f.kind
        /\ g.surface = Update(f.surface, e)
        /\ g.sample_count = pushed.sample_count /\ g.sample_offset = pushed.sample_offset
        /\ g.frequency_samples = pushed.frequency_samples
        /\ g.is_blocked = [f.is_blocked EXCEPT ![px] = MedianInWindow(pushed, px)]
    BY <1>2, <2>3, <2>6, <2>7 DEF FilterStates
  <2>9. MedianInWindow(pushed, px) = MedianInWindow(g, px)
    BY <2>8 DEF MedianInWindow
  <2>10. v.valid \in BOOLEAN
    BY <2>4a, <2>7
  <2>11. /\ f.sample_count \in [Slots -> 0..m] /\ f.sample_offset \in [Slots -> 0..m - 1]
         /\ f.is_blocked \in [Slots -> BOOLEAN] /\ DOMAIN f.frequency_samples = Slots
    BY DEF FilterStates, m
  <2>12. g.is_blocked[px] = MedianInWindow(g, px)
    BY <1>1, <2>8, <2>9, <2>11
  <2>13. /\ \A i \in Slots \ {px} :
               /\ g.sample_count[i] = f.sample_count[i]
               /\ g.sample_offset[i] = f.sample_offset[i]
               /\ g.frequency_samples[i] = f.frequency_samples[i]
               /\ g.is_blocked[i] = f.is_blocked[i]
         /\ g.sample_count[px] = Min({f.sample_count[px] + 1, m})
         /\ g.sample_offset[px] = NextOffset(f.sample_offset[px])
         /\ g.frequency_samples[px] = ring
    BY <1>1, <2>3, <2>8, <2>11
  <2>14. Pushes(f, g, px, frequency)
    BY <2>12, <2>13 DEF Pushes, m, ring
  <2>. QED  BY <1>1, <1>6, <2>7, <2>8, <2>10, <2>14
            DEF px, same_t, opp_t, frequency, v, g, verdict
<1>7. CASE ~IsAlternating(same_t, opp_t, e.t)
  <2> DEFINE kept == IF same_t > opp_t THEN reset ELSE f
  <2>1. v = Verdict([kept EXCEPT !.surface = Update(kept.surface, e)], TRUE)
    BY <1>7 DEF AntiFlickerFilter, px, same_t, opp_t
  <2>2. reset = [f EXCEPT !.sample_count = [f.sample_count EXCEPT ![px] = 0],
                          !.sample_offset = [f.sample_offset EXCEPT ![px] = 0],
                          !.is_blocked = [f.is_blocked EXCEPT ![px] = FALSE]]
    BY DEF ResetFrequencySamples, FilterStates
  <2> HIDE DEF reset
  <2>3. reset \in FilterStates /\ reset.kind = f.kind
    <3>1. 0 \in 0..m /\ 0 \in 0..m - 1
      BY <1>1
    <3>. QED  BY <1>1, <2>2, <3>1 DEF FilterStates, m
  <2>4. kept \in FilterStates /\ kept.kind = f.kind /\ kept.surface = f.surface
        /\ kept.frequency_samples = f.frequency_samples
    BY <2>2, <2>3 DEF FilterStates
  <2>5. /\ \A i \in Slots \ {px} :
              /\ kept.sample_count[i] = f.sample_count[i]
              /\ kept.sample_offset[i] = f.sample_offset[i]
              /\ kept.is_blocked[i] = f.is_blocked[i]
        /\ IF same_t > opp_t
           THEN kept.sample_count[px] = 0 /\ kept.is_blocked[px] = FALSE
           ELSE /\ kept.sample_count[px] = f.sample_count[px]
                /\ kept.sample_offset[px] = f.sample_offset[px]
                /\ kept.is_blocked[px] = f.is_blocked[px]
    <3>1. CASE same_t > opp_t
      <4>1. kept = reset
        BY <3>1
      <4>2. reset.sample_count = [f.sample_count EXCEPT ![px] = 0]
            /\ reset.is_blocked = [f.is_blocked EXCEPT ![px] = FALSE]
            /\ reset.sample_offset = [f.sample_offset EXCEPT ![px] = 0]
        BY <2>2 DEF FilterStates
      <4>3. DOMAIN f.sample_count = Slots /\ DOMAIN f.is_blocked = Slots /\ DOMAIN f.sample_offset = Slots
        BY DEF FilterStates
      <4>. QED  BY <1>1, <3>1, <4>1, <4>2, <4>3
    <3>2. CASE ~(same_t > opp_t)
      BY <3>2
    <3>. QED  BY <3>1, <3>2
  <2> HIDE DEF kept
  <2>6. g = [kept EXCEPT !.surface = Update(f.surface, e)] /\ v.valid = TRUE
    <3> DEFINE h == [kept EXCEPT !.surface = Update(kept.surface, e)]
               yes == TRUE
    <3>1. v = Verdict(h, yes)
      BY <2>1
    <3> HIDE DEF v, h, yes
    <3>2. v.filter = h
      BY <3>1, VerdictIs, Zenon
    <3>3. v.valid = yes
      BY <3>1, VerdictIs, Zenon
    <3>. QED  BY <2>4, <3>2, <3>3 DEF h, yes
  <2> HIDE DEF v, g
  <2>7. /\ g \in FilterStates /\ g.kind = f.kind
        /\ g.surface = Update(f.surface, e)
        /\ g.sample_count = kept.sample_count /\ g.sample_offset = kept.sample_offset
        /\ g.frequency_samples = kept.frequency_samples
        /\ g.is_blocked = kept.is_blocked
    BY <1>2, <2>4, <2>6 DEF FilterStates
  <2>8. v.valid = TRUE /\ v.valid \in BOOLEAN
    BY <2>6
  <2>9. Keeps(f, g, px, same_t > opp_t)
    BY <2>4, <2>5, <2>7 DEF Keeps
  <2>. QED  BY <1>1, <1>7, <2>7, <2>8, <2>9 DEF px, same_t, opp_t, frequency, v, g
<1>. QED  BY <1>6, <1>7

LEMMA EventIs ==
    ASSUME NEW e \in EventSpace
    PROVE  /\ e.at \in Pixels /\ e.p \in BOOLEAN /\ (~e.p) \in BOOLEAN /\ e.t \in Nat
           /\ GetIndex(e.at, e.p) \in Slots /\ GetIndex(e.at, ~e.p) \in Slots
           /\ PixelIndex(e) \in Slots
<1>1. e.at \in Pixels /\ e.p \in BOOLEAN /\ e.t \in Nat
  BY DEF EventSpace
<1>2. (~e.p) \in BOOLEAN
  BY <1>1, OppositeIs
<1>3. GetIndex(e.at, FALSE) \in Slots /\ GetIndex(e.at, e.p) \in Slots /\ GetIndex(e.at, ~e.p) \in Slots
  BY <1>1, <1>2, SlotsAre
<1>. QED  BY <1>1, <1>2, <1>3 DEF PixelIndex

LEMMA TrailFilterIs ==
    ASSUME NEW f \in FilterStates, NEW e \in EventSpace
    PROVE  LET v == TrailFilter(f, e)
               valid == TrailValid(Get(f.surface, e), GetOpposite(f.surface, e), e.t)
           IN  /\ v.filter \in FilterStates /\ v.filter.kind = f.kind
               /\ v.valid = valid /\ v.valid \in BOOLEAN
               /\ v.filter.surface = IF valid THEN Update(f.surface, e) ELSE f.surface
<1> DEFINE v == TrailFilter(f, e)
           valid == TrailValid(Get(f.surface, e), GetOpposite(f.surface, e), e.t)
           h == IF valid THEN [f EXCEPT !.surface = Update(f.surface, e)] ELSE f
<1>1. Update(f.surface, e) \in [Slots -> Nat]
  BY UpdateIs DEF FilterStates
<1>2. v = Verdict(h, valid)
  BY DEF TrailFilter
<1>3. valid \in BOOLEAN
  BY DEF TrailValid
<1> HIDE DEF v, valid
<1>4. h \in FilterStates /\ h.kind = f.kind
      /\ h.surface = IF valid THEN Update(f.surface, e) ELSE f.surface
  BY <1>1 DEF FilterStates
<1> HIDE DEF h
<1>5. v.filter = h
  BY <1>2, VerdictIs, Zenon
<1>6. v.valid = valid
  BY <1>2, VerdictIs, Zenon
<1>7. v.valid \in BOOLEAN
  BY <1>3, <1>6
<1>8. v.filter \in FilterStates /\ v.filter.kind = f.kind
      /\ v.filter.surface = IF valid THEN Update(f.surface, e) ELSE f.surface
  BY <1>4, <1>5
<1>. QED  BY <1>6, <1>7, <1>8 DEF v, valid

LEMMA NoiseFilterIs ==
    ASSUME NEW f \in FilterStates, NEW e \in EventSpace
    PROVE  LET v == ActivityNoiseFilter(f, e)
               valid == \E at \in Neighbourhood(e) : Recent(f.surface[GetIndex(at, e.p)], e.t)
           IN  /\ v.filter \in FilterStates /\ v.filter.kind = f.kind
               /\ v.valid = valid /\ v.valid \in BOOLEAN
               /\ v.filter.surface = Update(f.surface, e)
<1> DEFINE v == ActivityNoiseFilter(f, e)
           valid == \E at \in Neighbourhood(e) : Recent(f.surface[GetIndex(at, e.p)], e.t)
           h == [f EXCEPT !.surface = Update(f.surface, e)]
<1>1. Update(f.surface, e) \in [Slots -> Nat]
  BY UpdateIs DEF FilterStates
<1>2. v = Verdict(h, valid)
  BY DEF ActivityNoiseFilter
<1>3. valid \in BOOLEAN
  OBVIOUS
<1> HIDE DEF v, valid
<1>4. h \in FilterStates /\ h.kind = f.kind /\ h.surface = Update(f.surface, e)
  BY <1>1 DEF FilterStates
<1> HIDE DEF h
<1>5. v.filter = h
  BY <1>2, VerdictIs, Zenon
<1>6. v.valid = valid
  BY <1>2, VerdictIs, Zenon
<1>7. v.valid \in BOOLEAN
  BY <1>3, <1>6
<1>8. v.filter \in FilterStates /\ v.filter.kind = f.kind
      /\ v.filter.surface = Update(f.surface, e)
  BY <1>4, <1>5
<1>. QED  BY <1>6, <1>7, <1>8 DEF v, valid

(* Without cut_trail the contrast filter cuts nothing. *)
LEMMA ContrastFilterIs ==
    ASSUME NEW f \in FilterStates, NEW e \in EventSpace
    PROVE  LET v == ContrastFilter(f, e)
               again == Recent(Get(f.surface, e), e.t) /\ ~f.is_cut[PixelIndex(e)]
               changed == ~again /\ Recent(GetOpposite(f.surface, e), e.t)
           IN  /\ v.filter \in FilterStates /\ v.filter.kind = f.kind
               /\ v.valid = (again \/ changed) /\ v.valid \in BOOLEAN
               /\ v.filter.surface = Update(f.surface, e)
               /\ ~cut_trail /\ (\A i \in Slots : ~f.is_cut[i])
                     => \A i \in Slots : ~v.filter.is_cut[i]
<1> DEFINE v == ContrastFilter(f, e)
           px == PixelIndex(e)
           again == Recent(Get(f.surface, e), e.t) /\ ~f.is_cut[px]
           changed == ~again /\ Recent(GetOpposite(f.surface, e), e.t)
           valid == again \/ changed
           now == (again /\ cut_trail) \/ (f.is_cut[px] /\ ~changed)
           h == [f EXCEPT !.surface = Update(f.surface, e),
                          !.is_cut = [f.is_cut EXCEPT ![px] = now]]
<1>1. Update(f.surface, e) \in [Slots -> Nat]
  BY UpdateIs DEF FilterStates
<1>2. v = Verdict(h, valid)
  BY DEF ContrastFilter, FilterStates
<1>3. valid \in BOOLEAN /\ now \in BOOLEAN
  OBVIOUS
<1>4. ~cut_trail => (now => f.is_cut[px])
  OBVIOUS
<1>0. px \in Slots
  BY EventIs
<1> HIDE DEF v, valid, now, px
<1>5. h \in FilterStates /\ h.kind = f.kind /\ h.surface = Update(f.surface, e)
      /\ h.is_cut = [f.is_cut EXCEPT ![px] = now]
  BY <1>1, <1>3 DEF FilterStates
<1> HIDE DEF h
<1>6. v.filter = h
  BY <1>2, VerdictIs, Zenon
<1>7. v.valid = valid
  BY <1>2, VerdictIs, Zenon
<1>8. v.valid \in BOOLEAN
  BY <1>3, <1>7
<1>9. ASSUME ~cut_trail, \A i \in Slots : ~f.is_cut[i], NEW i \in Slots
      PROVE  ~h.is_cut[i]
  <2>1. ~now
    BY <1>0, <1>4, <1>9
  <2>2. DOMAIN f.is_cut = Slots
    BY DEF FilterStates
  <2>3. CASE i = px
    BY <1>5, <2>1, <2>2, <2>3
  <2>4. CASE i # px
    BY <1>5, <1>9, <2>2, <2>4
  <2>. QED  BY <2>3, <2>4
<1>10. v.filter \in FilterStates /\ v.filter.kind = f.kind /\ v.filter.surface = Update(f.surface, e)
       /\ (~cut_trail /\ (\A i \in Slots : ~f.is_cut[i]) => \A i \in Slots : ~v.filter.is_cut[i])
  BY <1>5, <1>6, <1>9
<1>. QED  BY <1>7, <1>8, <1>10 DEF v, valid, px

(* Every filter keeps its kind and the types of its state.                 *)
LEMMA FilteredIs ==
    ASSUME NEW f \in FilterStates, NEW e \in EventSpace
    PROVE  /\ Filtered(f, e).filter \in FilterStates
           /\ Filtered(f, e).filter.kind = f.kind
           /\ Filtered(f, e).valid \in BOOLEAN
           /\ f.kind = "trail" => Filtered(f, e) = TrailFilter(f, e)
           /\ f.kind = "noise" => Filtered(f, e) = ActivityNoiseFilter(f, e)
           /\ f.kind = "contrast" => Filtered(f, e) = ContrastFilter(f, e)
           /\ f.kind = "flicker" => Filtered(f, e) = AntiFlickerFilter(f, e)
<1>1. f.kind \in Kinds
  BY DEF FilterStates
<1>2. CASE f.kind = "polarity"
  <2> DEFINE p == e.p
  <2>1. Filtered(f, e) = Verdict(f, p)
    BY <1>2 DEF Filtered, PolarityFilter
  <2>4. p \in BOOLEAN
    BY EventIs
  <2> HIDE DEF p
  <2>2. Filtered(f, e).filter = f
    BY <2>1, VerdictIs, Zenon
  <2>3. Filtered(f, e).valid = p
    BY <2>1, VerdictIs, Zenon
  <2>. QED  BY <1>2, <2>2, <2>3, <2>4
<1>3. CASE f.kind = "roi"
  <2> DEFINE inside == e.at[1] > x0 /\ e.at[1] < x1 /\ e.at[2] > y0 /\ e.at[2] < y1
  <2>1. Filtered(f, e) = Verdict(f, inside)
    BY <1>3 DEF Filtered, RoiFilter
  <2>0. inside \in BOOLEAN
    OBVIOUS
  <2> HIDE DEF inside
  <2>2. Filtered(f, e).filter = f
    BY <2>1, VerdictIs, Zenon
  <2>3. Filtered(f, e).valid = inside
    BY <2>1, VerdictIs, Zenon
  <2>. QED  BY <1>3, <2>0, <2>2, <2>3
<1>4. CASE f.kind = "trail"
  <2>0. f.kind # "polarity" /\ f.kind # "roi"
    BY <1>4
  <2>1. Filtered(f, e) = TrailFilter(f, e)
    BY <1>4, <2>0 DEF Filtered
  <2>. QED  BY <1>4, <2>1, TrailFilterIs
<1>5. CASE f.kind = "noise"
  <2>0. f.kind # "polarity" /\ f.kind # "roi" /\ f.kind # "trail"
    BY <1>5
  <2>1. Filtered(f, e) = ActivityNoiseFilter(f, e)
    BY <1>5, <2>0 DEF Filtered
  <2>. QED  BY <1>5, <2>1, NoiseFilterIs
<1>6. CASE f.kind = "contrast"
  <2>1. Filtered(f, e) = ContrastFilter(f, e)
    BY <1>6 DEF Filtered
  <2>. QED  BY <1>6, <2>1, ContrastFilterIs
<1>7. CASE f.kind = "flicker"
  <2>1. Filtered(f, e) = AntiFlickerFilter(f, e)
    BY <1>7 DEF Filtered
  <2>2. /\ AntiFlickerFilter(f, e).filter \in FilterStates
        /\ AntiFlickerFilter(f, e).filter.kind = f.kind
        /\ AntiFlickerFilter(f, e).valid \in BOOLEAN
    BY FlickerFilterIs, Zenon
  <2>. QED  BY <1>7, <2>1, <2>2
<1>. QED  BY <1>1, <1>2, <1>3, <1>4, <1>5, <1>6, <1>7 DEF Kinds

-----------------------------------------------------------------------------
(* The median does not depend on the order of the samples, so not on where *)
(* in the ring they are.                                                   *)
Rearranged(F, A, G, B, place) ==
    /\ F \in [A -> Nat] /\ G \in [B -> Nat] /\ place \in [A -> B]
    /\ \A a, b \in A : place[a] = place[b] => a = b
    /\ \A b \in B : \E a \in A : place[a] = b
    /\ \A a \in A : F[a] = G[place[a]]

LEMMA MedianRearranged ==
    ASSUME NEW A, NEW B, IsFiniteSet(A), NEW F, NEW G, NEW place,
           Rearranged(F, A, G, B, place)
    PROVE  Median(F) = Median(G)
<1> USE DEF Rearranged
<1>1. ASSUME NEW T \in SUBSET B
      PROVE  Cardinality({a \in A : place[a] \in T}) = Cardinality(T)
  <2> DEFINE S == {a \in A : place[a] \in T}
             h == [a \in S |-> place[a]]
  <2>1. IsFiniteSet(S)
    BY FS_Subset
  <2>2. h \in Injection(S, T)
    BY DEF Injection, IsInjective
  <2>3. h \in Surjection(S, T)
    <3>1. ASSUME NEW b \in T  PROVE \E a \in S : h[a] = b
      <4>1. PICK a \in A : place[a] = b
        OBVIOUS
      <4>. QED  BY <4>1
    <3>. QED  BY <2>2, <3>1 DEF Surjection, Injection
  <2>4. ExistsBijection(S, T)
    BY <2>2, <2>3 DEF ExistsBijection, Bijection
  <2>. QED  BY <2>1, <2>4, FS_Bijection
<1>2. DOMAIN F = A /\ DOMAIN G = B
  OBVIOUS
<1>3. Cardinality(A) = Cardinality(B)
  <2>1. {a \in A : place[a] \in B} = A
    OBVIOUS
  <2>. QED  BY <1>1, <2>1
<1>4. ASSUME NEW r
      PROVE  Ranked(F, r) = Ranked(G, r)
  <2>1. ASSUME NEW v
        PROVE  Cardinality({j \in A : F[j] <= v}) = Cardinality({j \in B : G[j] <= v})
    <3>1. {j \in A : F[j] <= v} = {a \in A : place[a] \in {j \in B : G[j] <= v}}
      OBVIOUS
    <3>. QED  BY <1>1, <3>1
  <2>2. {F[j] : j \in A} = {G[j] : j \in B}
    OBVIOUS
  <2> DEFINE inF(v) == Cardinality({j \in A : F[j] <= v})
             inG(v) == Cardinality({j \in B : G[j] <= v})
  <2>3. {v \in {F[j] : j \in A} : inF(v) >= r} = {v \in {G[j] : j \in B} : inG(v) >= r}
    <3>1. \A v : inF(v) = inG(v)
      BY <2>1
    <3> HIDE DEF inF, inG
    <3>. QED  BY <2>2, <3>1
  <2>. QED  BY <1>2, <2>3 DEF Ranked
<1>. QED  BY <1>2, <1>3, <1>4 DEF Median

(* The samples of a ring, latest first, are all its samples; the one that  *)
(* is pushed takes the place of the oldest.                                *)
LEMMA RingSlots ==
    ASSUME NEW o \in 0..min_measurements - 1
    PROVE  /\ \A j \in 1..min_measurements : RingSlot(o, j) \in 0..min_measurements - 1
           /\ \A j, k \in 1..min_measurements : RingSlot(o, j) = RingSlot(o, k) => j = k
           /\ \A s \in 0..min_measurements - 1 :
                 \E j \in 1..min_measurements : RingSlot(o, j) = s
           /\ RingSlot(NextOffset(o), 1) = o
           /\ \A j \in 1..min_measurements - 1 :
                 RingSlot(NextOffset(o), j + 1) = RingSlot(o, j) /\ RingSlot(o, j) # o
<1> DEFINE m == min_measurements
<1>1. m \in Nat \ {0}
  BY SensorAssumption
<1>2. ASSUME NEW q \in 0..m - 1, NEW j \in 1..m
      PROVE  RingSlot(q, j) = IF j <= q THEN q - j ELSE q + m - j
  <2>1. CASE j <= q
    <3>1. q + m - j = (q - j) + m /\ q - j \in 0..m - 1
      BY <1>1, <2>1
    <3>2. (q + m - j) % m = q - j
      <4> DEFINE c == q - j
      <4>1. c \in 0..m - 1 /\ q + m - j = c + m
        BY <3>1
      <4> HIDE DEF c
      <4>2. (c + m) % m = c
        BY <1>1, <4>1
      <4>. QED  BY <4>1, <4>2 DEF c
    <3>. QED  BY <2>1, <3>2 DEF RingSlot
  <2>2. CASE ~(j <= q)
    <3>1. q + m - j \in 0..m - 1
      BY <1>1, <2>2
    <3>2. (q + m - j) % m = q + m - j
      <4> DEFINE c == q + m - j
      <4>1. c \in 0..m - 1
        BY <3>1
      <4> HIDE DEF c
      <4>2. c % m = c
        BY <1>1, <4>1
      <4>. QED  BY <4>2 DEF c
    <3>. QED  BY <2>2, <3>2 DEF RingSlot
  <2>. QED  BY <2>1, <2>2
<1>3. NextOffset(o) = IF o + 1 = m THEN 0 ELSE o + 1
  BY NextOffsetIs
<1>4. NextOffset(o) \in 0..m - 1
  BY <1>1, <1>3
<1>5. \A j \in 1..m : RingSlot(o, j) \in 0..m - 1
  BY <1>1, <1>2
<1>6. \A j, k \in 1..m : RingSlot(o, j) = RingSlot(o, k) => j = k
  BY <1>1, <1>2
<1>7. ASSUME NEW s \in 0..m - 1
      PROVE  \E j \in 1..m : RingSlot(o, j) = s
  <2> DEFINE j == IF s < o THEN o - s ELSE o + m - s
  <2>1. j \in 1..m /\ (IF j <= o THEN o - j ELSE o + m - j) = s
    BY <1>1
  <2> HIDE DEF j
  <2>. QED  BY <1>2, <2>1
<1>8. RingSlot(NextOffset(o), 1) = o
  <2>1. 1 \in 1..m
    BY <1>1
  <2>2. RingSlot(NextOffset(o), 1) = IF 1 <= NextOffset(o) THEN NextOffset(o) - 1 ELSE NextOffset(o) + m - 1
    BY <1>2, <1>4, <2>1
  <2>. QED  BY <1>1, <1>3, <2>2
<1>9. ASSUME NEW j \in 1..m - 1
      PROVE  RingSlot(NextOffset(o), j + 1) = RingSlot(o, j) /\ RingSlot(o, j) # o
  <2>1. j \in 1..m /\ j + 1 \in 1..m
    BY <1>1
  <2>2. RingSlot(NextOffset(o), j + 1)
           = IF j + 1 <= NextOffset(o) THEN NextOffset(o) - (j + 1) ELSE NextOffset(o) + m - (j + 1)
    BY <1>2, <1>4, <2>1
  <2>3. RingSlot(o, j) = IF j <= o THEN o - j ELSE o + m - j
    BY <1>2, <2>1
  <2>. QED  BY <1>1, <1>3, <2>1, <2>2, <2>3
<1>. QED  BY <1>5, <1>6, <1>7, <1>8, <1>9

-----------------------------------------------------------------------------
(* A log with an entry more. *)

LEMMA AppendIs ==
    ASSUME NEW S, NEW q \in Seq(S), NEW x \in S
    PROVE  /\ Append(q, x) \in Seq(S)
           /\ Len(q) \in Nat /\ DOMAIN q = 1..Len(q) /\ \A i \in 1..Len(q) : q[i] \in S
           /\ Len(Append(q, x)) = Len(q) + 1 /\ DOMAIN Append(q, x) = 1..Len(q) + 1
           /\ \A i \in 1..Len(q) : Append(q, x)[i] = q[i]
           /\ Append(q, x)[Len(q) + 1] = x
<1>1. /\ Append(q, x) \in Seq(S) /\ Len(Append(q, x)) = Len(q) + 1
      /\ \A i \in 1..Len(q) : Append(q, x)[i] = q[i]
      /\ Append(q, x)[Len(q) + 1] = x
  BY AppendProperties
<1>2. Len(q) \in Nat /\ DOMAIN q = 1..Len(q)
  BY LenProperties
<1>3. DOMAIN Append(q, x) = 1..Len(q) + 1
  BY <1>1, LenProperties
<1>4. \A i \in 1..Len(q) : q[i] \in S
  BY ElementOfSeq
<1>. QED  BY <1>1, <1>2, <1>3, <1>4

(* What is said of an entry does not depend on later ones.                 *)
LEMMA EarlierBefore ==
    ASSUME NEW L, NEW M, NEW n \in Nat, \A i \in 1..n : M[i] = L[i], NEW k \in 1..n
    PROVE  /\ Before(M, k) = Before(L, k)
           /\ Previous(M, k) = Previous(L, k) /\ Previous(L, k) \in 0..k - 1
           /\ PreviousSame(M, k) = PreviousSame(L, k) /\ PreviousSame(L, k) \in 0..k - 1
           /\ FrequencyAt(M, k) = FrequencyAt(L, k) \/ PreviousSame(L, k) = 0
           /\ Alternates(M, k) <=> Alternates(L, k)
           /\ Increasing(M, k) <=> Increasing(L, k)
           /\ InOrder(M, k) <=> InOrder(L, k)
<1>1. k \in 1..n /\ k - 1 \in Nat /\ \A i \in 1..k - 1 : i \in 1..n
  OBVIOUS
<1>2. Before(M, k) = Before(L, k) /\ Before(L, k) \subseteq 1..k - 1
  BY <1>1 DEF Before
<1>3. Previous(M, k) = Previous(L, k) /\ Previous(L, k) \in 0..k - 1
  BY <1>1, <1>2, LastOfIs DEF Previous
<1>4. {i \in Before(M, k) : M[i].e.p = M[k].e.p} = {i \in Before(L, k) : L[i].e.p = L[k].e.p}
  BY <1>1, <1>2
<1>5. {i \in Before(L, k) : L[i].e.p = L[k].e.p} \subseteq 1..k - 1
  BY <1>2
<1>6. PreviousSame(M, k) = PreviousSame(L, k) /\ PreviousSame(L, k) \in 0..k - 1
  BY <1>1, <1>4, <1>5, LastOfIs DEF PreviousSame
<1>7. FrequencyAt(M, k) = FrequencyAt(L, k) \/ PreviousSame(L, k) = 0
  <2>1. CASE PreviousSame(L, k) # 0
    <3>1. M[PreviousSame(L, k)] = L[PreviousSame(L, k)] /\ M[k] = L[k]
      BY <1>1, <1>6, <2>1
    <3>. QED  BY <1>6, <3>1 DEF FrequencyAt
  <2>. QED  BY <2>1
<1>8. Alternates(M, k) <=> Alternates(L, k)
  <2>1. Previous(L, k) # 0 => M[Previous(L, k)] = L[Previous(L, k)]
    BY <1>1, <1>3
  <2>. QED  BY <1>1, <1>3, <1>6, <2>1 DEF Alternates
<1>9. \A i \in 1..k : M[i] = L[i] /\ (i > 1 => M[i - 1] = L[i - 1])
  BY <1>1
<1>10. Increasing(M, k) <=> Increasing(L, k)
  BY <1>9 DEF Increasing
<1>11. InOrder(M, k) <=> InOrder(L, k)
  BY <1>9 DEF InOrder
<1>. QED  BY <1>2, <1>3, <1>6, <1>7, <1>8, <1>10, <1>11

(* Times in order, from one entry to a later one. *)
LEMMA OrderIs ==
    ASSUME NEW n \in Nat, NEW L, \A i \in 1..n : L[i].e.t \in Nat
    PROVE  /\ Increasing(L, n) => /\ InOrder(L, n)
                                  /\ \A j \in 1..n : \A i \in 1..j - 1 : L[i].e.t < L[j].e.t
           /\ InOrder(L, n) => /\ \A i \in 1..n : L[i].e.t > 0
                               /\ \A j \in 1..n : \A i \in 1..j : L[i].e.t <= L[j].e.t
<1>1. ASSUME Increasing(L, n)
      PROVE  \A j \in 1..n : \A i \in 1..j - 1 : L[i].e.t < L[j].e.t
  <2> DEFINE Holds == {j \in 0..n : \A i \in 1..j - 1 : L[i].e.t < L[j].e.t}
  <2>1. 0 \in Holds
    OBVIOUS
  <2>2. ASSUME NEW j \in 0..n - 1, j \in Holds
        PROVE  j + 1 \in Holds
    <3>1. ASSUME NEW i \in 1..(j + 1) - 1
          PROVE  L[i].e.t < L[j + 1].e.t
      <4>1. j \in 1..n /\ j + 1 \in 1..n /\ j + 1 > 1 /\ (j + 1) - 1 = j /\ i \in 1..j
        OBVIOUS
      <4>2. L[j].e.t < L[j + 1].e.t
        BY <1>1, <4>1 DEF Increasing
      <4>3. i # j => L[i].e.t < L[j].e.t
        BY <2>2, <4>1
      <4>. QED  BY <4>1, <4>2, <4>3
    <3>. QED  BY <3>1
  <2> HIDE DEF Holds
  <2>3. \A j \in 0..n : j \in Holds
    BY <2>1, <2>2, UpTo
  <2>. QED  BY <2>3 DEF Holds
<1>2. Increasing(L, n) => InOrder(L, n)
  BY DEF Increasing, InOrder
<1>3. ASSUME InOrder(L, n)
      PROVE  \A j \in 1..n : \A i \in 1..j : L[i].e.t <= L[j].e.t
  <2> DEFINE Holds == {j \in 0..n : \A i \in 1..j : L[i].e.t <= L[j].e.t}
  <2>1. 0 \in Holds
    OBVIOUS
  <2>2. ASSUME NEW j \in 0..n - 1, j \in Holds
        PROVE  j + 1 \in Holds
    <3>1. ASSUME NEW i \in 1..j + 1
          PROVE  L[i].e.t <= L[j + 1].e.t
      <4>1. CASE i = j + 1
        BY <4>1
      <4>2. CASE i # j + 1
        <5>1. j \in 1..n /\ j + 1 \in 1..n /\ j + 1 > 1 /\ (j + 1) - 1 = j /\ i \in 1..j
          BY <4>2
        <5>2. L[j].e.t <= L[j + 1].e.t
          BY <1>3, <5>1 DEF InOrder
        <5>3. L[i].e.t <= L[j].e.t
          BY <2>2, <5>1
        <5>. QED  BY <5>1, <5>2, <5>3
      <4>. QED  BY <4>1, <4>2
    <3>. QED  BY <3>1
  <2> HIDE DEF Holds
  <2>3. \A j \in 0..n : j \in Holds
    BY <2>1, <2>2, UpTo
  <2>. QED  BY <2>3 DEF Holds
<1>4. InOrder(L, n) => \A i \in 1..n : L[i].e.t > 0
  BY DEF InOrder
<1>. QED  BY <1>1, <1>2, <1>3, <1>4

LEMMA EarlierFlicker ==
    ASSUME NEW L, NEW M, NEW n \in Nat, \A i \in 1..n : M[i] = L[i], NEW k \in 1..n,
           FlickerVerdict(L, k)
    PROVE  FlickerVerdict(M, k)
<1> DEFINE m == min_measurements
           Chain(X, back) ==
              /\ back[0] = k
              /\ \A j \in 1..m : back[j] = Previous(X, back[j - 1]) /\ Alternates(X, back[j])
           Samples(X, back) == [j \in 1..m |-> FrequencyAt(X, back[j])]
           Judged(X) == \E back \in [0..m -> 1..k] :
                            Chain(X, back) /\ FrequencyInWindow(Median(Samples(X, back)))
<1>1. m \in Nat \ {0}
  BY SensorAssumption
<1>2. ASSUME NEW i \in 1..k
      PROVE  /\ Previous(M, i) = Previous(L, i)
             /\ Alternates(M, i) <=> Alternates(L, i)
             /\ Alternates(L, i) => FrequencyAt(M, i) = FrequencyAt(L, i)
  <2>1. i \in 1..n
    OBVIOUS
  <2>2. FrequencyAt(M, i) = FrequencyAt(L, i) \/ PreviousSame(L, i) = 0
    BY <2>1, EarlierBefore
  <2>3. Alternates(L, i) => PreviousSame(L, i) # 0
    BY DEF Alternates
  <2>. QED  BY <2>1, <2>2, <2>3, EarlierBefore
<1>3. ASSUME NEW back \in [0..m -> 1..k]
      PROVE  /\ Chain(M, back) <=> Chain(L, back)
             /\ Chain(L, back) => Samples(M, back) = Samples(L, back)
  <2>1. \A j \in 1..m : j \in 0..m /\ j - 1 \in 0..m
    BY <1>1
  <2>2. \A j \in 1..m : back[j] \in 1..k /\ back[j - 1] \in 1..k
    BY <2>1
  <2>3. Chain(M, back) <=> Chain(L, back)
    BY <1>2, <2>2
  <2>4. Chain(L, back) => Samples(M, back) = Samples(L, back)
    BY <1>2, <2>2
  <2>. QED  BY <2>3, <2>4
<1>4. Judged(M) <=> Judged(L)
  <2> HIDE DEF Chain, Samples
  <2>. QED  BY <1>3
<1>5. M[k] = L[k] /\ k \in 1..k
  OBVIOUS
<1>6. (~L[k].valid) <=> (Alternates(L, k) /\ FrequencyInWindow(FrequencyAt(L, k)) /\ Judged(L))
  BY Zenon DEF FlickerVerdict
<1>7. (~M[k].valid) <=> (Alternates(M, k) /\ FrequencyInWindow(FrequencyAt(M, k)) /\ Judged(M))
  <2> HIDE DEF Judged
  <2>. QED  BY <1>2, <1>4, <1>5, <1>6
<1>. QED  BY <1>7, Zenon DEF FlickerVerdict

LEMMA EarlierRight ==
    ASSUME NEW L, NEW M, NEW n \in Nat, \A i \in 1..n : M[i] = L[i], NEW k \in 1..n
    PROVE  /\ TrailVerdict(L, k) => TrailVerdict(M, k)
           /\ NoiseVerdict(L, k) => NoiseVerdict(M, k)
           /\ ContrastVerdict(L, k) => ContrastVerdict(M, k)
<1>1. k \in 1..n /\ k - 1 \in Nat /\ \A i \in 1..k - 1 : i \in 1..n
  OBVIOUS
<1>2. /\ Before(M, k) = Before(L, k) /\ Before(L, k) \subseteq 1..k - 1
      /\ Previous(M, k) = Previous(L, k) /\ Previous(L, k) \in 0..k - 1
  BY EarlierBefore DEF Before
<1>3. {i \in Before(M, k) : M[i].valid} = {i \in Before(L, k) : L[i].valid}
  BY <1>1, <1>2
<1>4. M[k] = L[k] /\ \A i \in 1..k - 1 : M[i] = L[i]
  BY <1>1
<1>5. TrailVerdict(L, k) => TrailVerdict(M, k)
  <2> DEFINE last == LastOf({i \in Before(L, k) : L[i].valid})
  <2>1. {i \in Before(L, k) : L[i].valid} \subseteq 1..k - 1
    BY <1>2
  <2>2. last \in 0..k - 1
    BY <1>1, <2>1, LastOfIs
  <2>3. last # 0 => M[last] = L[last]
    BY <1>4, <2>2
  <2>. QED  BY <1>3, <1>4, <2>2, <2>3 DEF TrailVerdict
<1>6. NoiseVerdict(L, k) => NoiseVerdict(M, k)
  BY <1>4 DEF NoiseVerdict
<1>7. ContrastVerdict(L, k) => ContrastVerdict(M, k)
  <2>1. Previous(L, k) # 0 => M[Previous(L, k)] = L[Previous(L, k)]
    BY <1>2, <1>4
  <2>. QED  BY <1>2, <1>4, <2>1 DEF ContrastVerdict
<1>. QED  BY <1>5, <1>6, <1>7

LEMMA EntryIs ==
    ASSUME NEW x \in Entries
    PROVE  /\ x.e \in EventSpace /\ x.valid \in BOOLEAN
           /\ x.e.at \in Pixels /\ x.e.p \in BOOLEAN /\ (~x.e.p) \in BOOLEAN
           /\ x.e.t \in Nat
<1>1. x.e \in EventSpace /\ x.valid \in BOOLEAN
  BY DEF Entries
<1>. QED  BY <1>1, EventIs

LEMMA Grown ==
    ASSUME NEW L \in Seq(Entries), NEW x \in Entries
    PROVE  LET M == Append(L, x)
               n == Len(L) + 1
           IN  /\ M \in Seq(Entries) /\ Len(L) \in Nat /\ n \in Nat /\ n - 1 = Len(L)
               /\ n \in 1..n /\ \A i \in 1..n - 1 : i \in 1..n
               /\ Len(M) = n /\ DOMAIN L = 1..n - 1 /\ DOMAIN M = 1..n
               /\ \A i \in 1..n - 1 : M[i] = L[i]
               /\ M[n] = x
               /\ \A i \in 1..n : /\ M[i] \in Entries
                                  /\ M[i].e.at \in Pixels /\ M[i].e.p \in BOOLEAN
                                  /\ M[i].e.t \in Nat
<1> DEFINE M == Append(L, x)
           n == Len(L) + 1
<1>1. /\ M \in Seq(Entries) /\ Len(L) \in Nat
      /\ Len(M) = n /\ DOMAIN L = 1..Len(L) /\ DOMAIN M = 1..n
      /\ \A i \in 1..Len(L) : M[i] = L[i]
      /\ M[n] = x
  BY AppendIs
<1>2. n - 1 = Len(L) /\ n \in Nat /\ n \in 1..n /\ \A i \in 1..n - 1 : i \in 1..n
  BY <1>1
<1>3. \A i \in 1..n : M[i] \in Entries
  BY <1>1, ElementOfSeq
<1> HIDE DEF M, n
<1>4. \A i \in 1..n : M[i].e.at \in Pixels /\ M[i].e.p \in BOOLEAN /\ M[i].e.t \in Nat
  BY <1>3, EntryIs
<1>. QED  BY <1>1, <1>2, <1>3, <1>4 DEF M, n

LEMMA LatestTimeIs ==
    ASSUME NEW L, NEW S
    PROVE  LatestTime(L, S) = IF S = {} THEN 0 ELSE L[LastOf(S)].e.t
BY DEF LatestTime, LastOf

(* The entries a slot of the surface remembers. *)
LEMMA SlotGrows ==
    ASSUME NEW L \in Seq(Entries), NEW x \in Entries, NEW kind,
           NEW at \in Pixels, NEW p \in BOOLEAN
    PROVE  LET M == Append(L, x)
               n == Len(L) + 1
               here == at = x.e.at /\ p = x.e.p /\ (kind = "trail" => x.valid)
               S == AtSlot(kind, L, at, p)
           IN  /\ S \subseteq 1..n - 1
               /\ AtSlot(kind, M, at, p) = IF here THEN S \union {n} ELSE S
               /\ LatestTime(M, AtSlot(kind, M, at, p)) = IF here THEN x.e.t ELSE LatestTime(L, S)
<1> DEFINE M == Append(L, x)
           n == Len(L) + 1
           here == at = x.e.at /\ p = x.e.p /\ (kind = "trail" => x.valid)
           S == AtSlot(kind, L, at, p)
<1>1. /\ Len(L) \in Nat /\ n \in Nat /\ n - 1 = Len(L)
      /\ DOMAIN L = 1..n - 1 /\ DOMAIN M = 1..n
      /\ \A i \in 1..n - 1 : M[i] = L[i]
      /\ M[n] = x
  BY Grown
<1> HIDE DEF M, n
<1>2. S \subseteq 1..n - 1
  BY <1>1 DEF AtSlot
<1>3. ASSUME NEW i \in 1..n
      PROVE  i \in AtSlot(kind, M, at, p) <=> i \in (IF here THEN S \union {n} ELSE S)
  <2>1. CASE i = n
    BY <1>1, <1>2, <2>1 DEF AtSlot
  <2>2. CASE i # n
    <3>1. i \in 1..n - 1
      BY <1>1, <2>2
    <3>. QED  BY <1>1, <2>2, <3>1 DEF AtSlot
  <2>. QED  BY <2>1, <2>2
<1>4. AtSlot(kind, M, at, p) \subseteq 1..n /\ S \subseteq 1..n /\ n \in 1..n
  BY <1>1, <1>2 DEF AtSlot
<1> HIDE DEF here
<1>5. AtSlot(kind, M, at, p) = IF here THEN S \union {n} ELSE S
  BY <1>3, <1>4
<1> HIDE DEF S
<1>6. LatestTime(M, AtSlot(kind, M, at, p)) = IF here THEN x.e.t ELSE LatestTime(L, S)
  <2>1. CASE here
    <3> DEFINE T == S \union {n}
    <3>1. T \subseteq 1..n /\ n \in T /\ \A i \in T : i <= n
      BY <1>1, <1>2
    <3> HIDE DEF T
    <3>2. LastOf(T) = n
      BY <1>1, <3>1, LastOfUnique
    <3>3. LatestTime(M, T) = x.e.t
      BY <1>1, <3>1, <3>2, LatestTimeIs
    <3>. QED  BY <1>5, <2>1, <3>3 DEF T
  <2>2. CASE ~here
    <3>1. S # {} => LastOf(S) \in 1..n - 1
      BY <1>1, <1>2, LastOfIs
    <3>2. LatestTime(M, S) = LatestTime(L, S)
      BY <1>1, <3>1, LatestTimeIs
    <3>. QED  BY <1>5, <2>2, <3>2
  <2>. QED  BY <2>1, <2>2
<1>. QED  BY <1>2, <1>5, <1>6 DEF M, n, here, S

LEMMA RemembersStep ==
    ASSUME NEW f \in FilterStates, NEW g \in FilterStates, NEW L \in Seq(Entries),
           NEW x \in Entries,
           Remembers(f, L), g.kind = f.kind,
           f.kind \in {"trail", "noise", "contrast", "flicker"} =>
              g.surface = IF f.kind = "trail" /\ ~x.valid THEN f.surface ELSE Update(f.surface, x.e)
    PROVE  Remembers(g, Append(L, x))
<1> DEFINE M == Append(L, x)
<1>1. SUFFICES ASSUME g.kind \in {"trail", "noise", "contrast", "flicker"},
                      NEW at \in Pixels, NEW p \in BOOLEAN
               PROVE  g.surface[GetIndex(at, p)] = LatestTime(M, AtSlot(g.kind, M, at, p))
  BY DEF Remembers
<1>2. f.surface[GetIndex(at, p)] = LatestTime(L, AtSlot(f.kind, L, at, p))
  BY <1>1 DEF Remembers
<1>3. LatestTime(M, AtSlot(f.kind, M, at, p))
         = IF at = x.e.at /\ p = x.e.p /\ (f.kind = "trail" => x.valid) THEN x.e.t
           ELSE LatestTime(L, AtSlot(f.kind, L, at, p))
  BY SlotGrows
<1>4. Update(f.surface, x.e)[GetIndex(at, p)]
         = IF at = x.e.at /\ p = x.e.p THEN x.e.t ELSE f.surface[GetIndex(at, p)]
  <2>1. f.surface \in [Slots -> Nat] /\ x.e \in EventSpace
    BY EntryIs DEF FilterStates
  <2>. QED  BY <2>1, UpdateIs
<1> HIDE DEF M
<1>. QED  BY <1>1, <1>2, <1>3, <1>4

-----------------------------------------------------------------------------
(* The verdict on an event that a filter is given next. *)

Keepers == {"trail", "noise", "contrast", "flicker"}

(* The latest entries at the pixel of the n-th event: a has its polarity,  *)
(* b the other one, and both are what the surface remembers.               *)
AtPixel(f, M, n, A, B, a, b) ==
    /\ A \subseteq 1..n - 1 /\ B \subseteq 1..n - 1
    /\ \A i \in A : M[i].e.p = M[n].e.p
    /\ \A i \in B : M[i].e.p # M[n].e.p
    /\ {i \in Before(M, n) : f.kind = "trail" => M[i].valid} = A \union B
    /\ {i \in A \union B : M[i].e.p = M[n].e.p} = A
    /\ a \in 0..n - 1 /\ (a = 0 <=> A = {}) /\ (a # 0 => a \in A) /\ (\A i \in A : i <= a)
    /\ b \in 0..n - 1 /\ (b = 0 <=> B = {}) /\ (b # 0 => b \in B) /\ (\A i \in B : i <= b)
    /\ LastOf(A \union B) = IF a > b THEN a ELSE b
    /\ LastOf(A) = a
    /\ a = b => a = 0
    /\ Get(f.surface, M[n].e) = IF a = 0 THEN 0 ELSE M[a].e.t
    /\ GetOpposite(f.surface, M[n].e) = IF b = 0 THEN 0 ELSE M[b].e.t

LEMMA LastHere ==
    ASSUME NEW f \in FilterStates, NEW L \in Seq(Entries), NEW x \in Entries,
           Remembers(f, L), f.kind \in Keepers
    PROVE  \E A, B, a, b : AtPixel(f, Append(L, x), Len(L) + 1, A, B, a, b)
<1> DEFINE M == Append(L, x)
           n == Len(L) + 1
           A == AtSlot(f.kind, L, x.e.at, x.e.p)
           B == AtSlot(f.kind, L, x.e.at, ~x.e.p)
           a == LastOf(A)
           b == LastOf(B)
<1>1. /\ Len(L) \in Nat /\ n \in Nat /\ n - 1 = Len(L)
      /\ DOMAIN L = 1..n - 1 /\ DOMAIN M = 1..n
      /\ \A i \in 1..n - 1 : M[i] = L[i]
      /\ M[n] = x /\ \A i \in 1..n : M[i].e.p \in BOOLEAN
  BY Grown
<1>2. x.e.at \in Pixels /\ x.e.p \in BOOLEAN /\ (~x.e.p) \in BOOLEAN
  BY EntryIs
<1> HIDE DEF M, n
<1>3. A \subseteq 1..n - 1 /\ B \subseteq 1..n - 1
  BY <1>1 DEF AtSlot
<1>4. \A i \in 1..n - 1 : /\ i \in A <=> M[i].e.at = x.e.at /\ M[i].e.p = x.e.p
                                         /\ (f.kind = "trail" => M[i].valid)
                          /\ i \in B <=> M[i].e.at = x.e.at /\ M[i].e.p = (~x.e.p)
                                         /\ (f.kind = "trail" => M[i].valid)
  BY <1>1 DEF AtSlot
<1>5. \A i \in 1..n - 1 : M[i].e.p = (~x.e.p) <=> M[i].e.p # x.e.p
  <2>1. \A i \in 1..n - 1 : i \in 1..n
    BY <1>1
  <2>. QED  BY <1>1, <1>2, <2>1
<1> HIDE DEF A, B
<1>6. \A i \in A : M[i].e.p = x.e.p
  BY <1>3, <1>4
<1>7. \A i \in B : M[i].e.p # x.e.p
  BY <1>3, <1>4, <1>5
<1>8. {i \in Before(M, n) : f.kind = "trail" => M[i].valid} = A \union B
  <2>1. ASSUME NEW i \in 1..n - 1
        PROVE  i \in A \union B <=> M[i].e.at = x.e.at /\ (f.kind = "trail" => M[i].valid)
    BY <1>4, <1>5
  <2>. QED  BY <1>1, <1>3, <2>1 DEF Before
<1>9. {i \in A \union B : M[i].e.p = x.e.p} = A
  BY <1>6, <1>7
<1>10. /\ a \in 0..n - 1 /\ (a = 0 <=> A = {}) /\ (a # 0 => a \in A) /\ (\A i \in A : i <= a)
       /\ b \in 0..n - 1 /\ (b = 0 <=> B = {}) /\ (b # 0 => b \in B) /\ (\A i \in B : i <= b)
  <2>1. n - 1 \in Nat
    BY <1>1
  <2>. QED  BY <1>3, <2>1, LastOfIs
<1>11. Get(f.surface, x.e) = IF a = 0 THEN 0 ELSE M[a].e.t
  <2>1. Get(f.surface, x.e) = LatestTime(L, A)
    BY <1>2 DEF Remembers, Get, A, Keepers
  <2>2. LatestTime(L, A) = IF A = {} THEN 0 ELSE L[a].e.t
    BY LatestTimeIs
  <2>3. a # 0 => L[a] = M[a]
    BY <1>1, <1>3, <1>10
  <2>. QED  BY <1>10, <2>1, <2>2, <2>3
<1>12. GetOpposite(f.surface, x.e) = IF b = 0 THEN 0 ELSE M[b].e.t
  <2> DEFINE q == ~x.e.p
  <2>0. q \in BOOLEAN /\ B = AtSlot(f.kind, L, x.e.at, q) /\ GetOpposite(f.surface, x.e) = f.surface[GetIndex(x.e.at, q)]
    BY <1>2 DEF B, GetOpposite
  <2> HIDE DEF q
  <2>1. GetOpposite(f.surface, x.e) = LatestTime(L, B)
    BY <1>2, <2>0 DEF Remembers, Keepers
  <2>2. LatestTime(L, B) = IF B = {} THEN 0 ELSE L[b].e.t
    BY LatestTimeIs
  <2>3. b # 0 => L[b] = M[b]
    BY <1>1, <1>3, <1>10
  <2>. QED  BY <1>10, <2>1, <2>2, <2>3
<1>13. a = b => a = 0
  BY <1>6, <1>7, <1>10
<1>14. LastOf(A \union B) = IF a > b THEN a ELSE b
  <2> DEFINE C == A \union B
             c == IF a > b THEN a ELSE b
  <2>1. C \subseteq 1..n - 1 /\ n - 1 \in Nat
    BY <1>1, <1>3
  <2>2. CASE C = {}
    <3>1. a = 0 /\ b = 0
      BY <1>10, <2>2
    <3>. QED  BY <2>1, <2>2, <3>1, LastOfIs
  <2>3. CASE C # {}
    <3>0. a \in Nat /\ b \in Nat /\ \A i \in C : i \in Nat
      BY <1>1, <1>3, <1>10
    <3> HIDE DEF a, b
    <3>4. c \in C
      BY <1>10, <2>3, <3>0
    <3>5. ASSUME NEW i \in C
          PROVE  i <= c
      <4>1. i <= a \/ i <= b
        BY <1>10
      <4>. QED  BY <3>0, <4>1
    <3>1. c \in C /\ \A i \in C : i <= c
      BY <3>4, <3>5
    <3> HIDE DEF C, c
    <3>2. LastOf(C) = c
      BY <2>1, <3>1, LastOfUnique
    <3>. QED  BY <3>2 DEF C, c
  <2>. QED  BY <2>2, <2>3
<1> HIDE DEF a, b
<1>15. AtPixel(f, M, n, A, B, a, b)
  BY <1>1, <1>3, <1>6, <1>7, <1>8, <1>9, <1>10, <1>11, <1>12, <1>13, <1>14 DEF AtPixel, a
<1>. QED  BY <1>15 DEF M, n

LEMMA TrailRight ==
    ASSUME NEW f \in FilterStates, NEW L \in Seq(Entries), NEW x \in Entries,
           Remembers(f, L), f.kind = "trail",
           x.valid <=> TrailValid(Get(f.surface, x.e), GetOpposite(f.surface, x.e), x.e.t),
           Increasing(Append(L, x), Len(L) + 1)
    PROVE  TrailVerdict(Append(L, x), Len(L) + 1)
<1> DEFINE M == Append(L, x)
           n == Len(L) + 1
           same_t == Get(f.surface, x.e)
           opp_t == GetOpposite(f.surface, x.e)
<1>1. /\ Len(L) \in Nat /\ n \in Nat /\ n \in 1..n /\ M[n] = x
      /\ \A i \in 1..n : M[i].e.t \in Nat
  <2>1. /\ Len(L) \in Nat /\ n \in Nat /\ M[n] = x
        /\ \A i \in 1..n : M[i].e.t \in Nat
    BY Grown
  <2>2. n \in 1..n
    BY <2>1
  <2>. QED  BY <2>1, <2>2
<1>2. x.e.t \in Nat /\ dt \in Nat
  BY EntryIs, SensorAssumption
<1>3. f.kind \in Keepers
  BY DEF Keepers
<1>0. PICK A, B, a, b : AtPixel(f, M, n, A, B, a, b)
  BY <1>3, LastHere
<1>5. Increasing(M, n)
  OBVIOUS
<1>6. x.valid <=> TrailValid(same_t, opp_t, x.e.t)
  OBVIOUS
<1> HIDE DEF M, n
<1> DEFINE last == LastOf(A \union B)
<1>4. /\ \A i \in A : M[i].e.p = x.e.p
      /\ \A i \in B : M[i].e.p # x.e.p
      /\ {i \in Before(M, n) : f.kind = "trail" => M[i].valid} = A \union B
      /\ a \in 0..n - 1 /\ (a # 0 => a \in A)
      /\ b \in 0..n - 1 /\ (b # 0 => b \in B)
      /\ last = IF a > b THEN a ELSE b
      /\ a = b => a = 0
      /\ same_t = IF a = 0 THEN 0 ELSE M[a].e.t
      /\ opp_t = IF b = 0 THEN 0 ELSE M[b].e.t
  BY <1>0, <1>1 DEF AtPixel
<1> HIDE DEF same_t, opp_t, last
<1>7. {i \in Before(M, n) : M[i].valid} = A \union B
  BY <1>4
<1>8. /\ \A j \in 1..n : \A i \in 1..j - 1 : M[i].e.t < M[j].e.t
      /\ \A i \in 1..n : M[i].e.t > 0
  BY <1>1, <1>5, OrderIs
<1>9. a # 0 => /\ M[a].e.t \in Nat \ {0} /\ M[a].e.t < x.e.t
               /\ b > a => M[a].e.t < M[b].e.t /\ M[b].e.t \in Nat
  BY <1>1, <1>4, <1>8
<1>10. b # 0 => /\ M[b].e.t \in Nat \ {0} /\ M[b].e.t < x.e.t
                /\ a > b => M[b].e.t < M[a].e.t
  BY <1>1, <1>4, <1>8
<1>11. x.valid <=> opp_t > same_t \/ same_t = 0 \/ SaturatingSub(x.e.t, same_t) >= dt
  BY <1>6 DEF TrailValid
<1>12. ~x.valid <=> last # 0 /\ M[last].e.p = x.e.p /\ x.e.t - M[last].e.t < dt
  <2>1. CASE a = 0
    <3>1. same_t = 0 /\ last = b
      BY <1>4, <2>1
    <3>2. x.valid
      BY <1>11, <3>1
    <3>. QED  BY <1>4, <3>1, <3>2
  <2>2. CASE a # 0 /\ b > a
    <3>1. opp_t > same_t /\ last = b /\ b # 0
      BY <1>4, <1>9, <2>2
    <3>2. x.valid
      BY <1>11, <3>1
    <3>. QED  BY <1>4, <3>1, <3>2
  <2>3. CASE a # 0 /\ ~(b > a)
    <3>1. a > b /\ last = a /\ M[last].e.p = x.e.p
      BY <1>4, <2>3
    <3>2. same_t = M[a].e.t /\ same_t \in Nat \ {0} /\ same_t < x.e.t /\ ~(opp_t > same_t)
      BY <1>4, <1>9, <1>10, <2>3, <3>1
    <3>3. SaturatingSub(x.e.t, same_t) = x.e.t - same_t
      BY <1>2, <3>2 DEF SaturatingSub
    <3>4. x.valid <=> x.e.t - same_t >= dt
      BY <1>11, <3>2, <3>3
    <3>. QED  BY <1>2, <2>3, <3>1, <3>2, <3>4
  <2>. QED  BY <2>1, <2>2, <2>3
<1>13. TrailVerdict(M, n)
  BY <1>1, <1>4, <1>7, <1>12 DEF TrailVerdict, last
<1>. QED  BY <1>13 DEF M, n

(* The pixels around an event are on the sensor. *)
LEMMA NeighbourhoodIs ==
    ASSUME NEW e \in EventSpace
    PROVE  Neighbourhood(e) \subseteq Pixels
BY DEF Neighbourhood, Pixels

LEMMA NoiseRight ==
    ASSUME NEW f \in FilterStates, NEW L \in Seq(Entries), NEW x \in Entries,
           Remembers(f, L), f.kind = "noise",
           x.valid <=> (\E at \in Neighbourhood(x.e) : Recent(f.surface[GetIndex(at, x.e.p)], x.e.t)),
           InOrder(Append(L, x), Len(L) + 1)
    PROVE  NoiseVerdict(Append(L, x), Len(L) + 1)
<1> DEFINE M == Append(L, x)
           n == Len(L) + 1
<1>1. /\ Len(L) \in Nat /\ n \in Nat /\ n \in 1..n /\ M[n] = x
      /\ n - 1 = Len(L) /\ DOMAIN L = 1..n - 1
      /\ \A i \in 1..n - 1 : M[i] = L[i] /\ i \in 1..n
      /\ \A i \in 1..n : M[i].e.t \in Nat
  <2>1. /\ Len(L) \in Nat /\ n \in Nat /\ M[n] = x
        /\ n - 1 = Len(L) /\ DOMAIN L = 1..n - 1
        /\ \A i \in 1..n - 1 : M[i] = L[i]
        /\ \A i \in 1..n : M[i].e.t \in Nat
    BY Grown
  <2>2. n \in 1..n /\ \A i \in 1..n - 1 : i \in 1..n
    BY <2>1
  <2>. QED  BY <2>1, <2>2
<1>2. x.e.t \in Nat /\ dt \in Nat /\ x.e.p \in BOOLEAN
  BY EntryIs, SensorAssumption
<1>3. InOrder(M, n)
  OBVIOUS
<1> HIDE DEF M, n
<1>4. /\ \A i \in 1..n : M[i].e.t > 0
      /\ \A j \in 1..n : \A i \in 1..j : M[i].e.t <= M[j].e.t
  BY <1>1, <1>3, OrderIs
<1>5. ASSUME NEW at \in Pixels
      PROVE  Recent(f.surface[GetIndex(at, x.e.p)], x.e.t)
                <=> \E i \in 1..n - 1 : /\ M[i].e.p = x.e.p /\ x.e.t - M[i].e.t <= dt
                                        /\ M[i].e.at = at
  <2> DEFINE A == AtSlot("noise", L, at, x.e.p)
             a == LastOf(A)
  <2>1. A \subseteq 1..n - 1 /\ \A i \in 1..n - 1 : i \in A <=> M[i].e.at = at /\ M[i].e.p = x.e.p
    BY <1>1 DEF AtSlot
  <2>2. f.surface[GetIndex(at, x.e.p)] = LatestTime(L, A)
    BY <1>2 DEF Remembers
  <2> HIDE DEF A
  <2>3. CASE A = {}
    <3>1. LatestTime(L, A) = 0
      BY <2>3 DEF LatestTime
    <3>2. ~Recent(0, x.e.t)
      BY DEF Recent
    <3>. QED  BY <2>1, <2>2, <2>3, <3>1, <3>2
  <2>4. CASE A # {}
    <3>1. a \in A /\ \A i \in A : i <= a
      BY <1>1, <2>1, <2>4, LastOfIs
    <3>2. LatestTime(L, A) = M[a].e.t
      BY <1>1, <2>1, <2>4, <3>1, LatestTimeIs
    <3> HIDE DEF a
    <3>3. a \in 1..n - 1 /\ M[a].e.p = x.e.p /\ M[a].e.at = at
      BY <2>1, <3>1
    <3>4. M[a].e.t \in Nat \ {0} /\ M[a].e.t <= x.e.t
      BY <1>1, <1>4, <3>3
    <3>5. Recent(M[a].e.t, x.e.t) <=> x.e.t - M[a].e.t <= dt
      BY <1>2, <3>4 DEF Recent, SaturatingSub
    <3>6. ASSUME NEW i \in 1..n - 1, M[i].e.p = x.e.p, x.e.t - M[i].e.t <= dt, M[i].e.at = at
          PROVE  x.e.t - M[a].e.t <= dt
      <4>1. i \in A /\ i \in 1..a /\ a \in 1..n
        BY <1>1, <2>1, <3>1, <3>3, <3>6
      <4>2. M[i].e.t <= M[a].e.t /\ M[i].e.t \in Nat
        BY <1>1, <1>4, <4>1
      <4>. QED  BY <1>2, <3>4, <3>6, <4>2
    <3>. QED  BY <2>2, <3>2, <3>3, <3>5, <3>6
  <2>. QED  BY <2>3, <2>4
<1>6. Neighbourhood(x.e) \subseteq Pixels
  BY NeighbourhoodIs, EntryIs
<1>7. x.valid <=> \E i \in 1..n - 1 : /\ M[i].e.p = x.e.p /\ x.e.t - M[i].e.t <= dt
                                 /\ M[i].e.at \in Neighbourhood(x.e)
  BY <1>5, <1>6
<1>8. NoiseVerdict(M, n)
  BY <1>1, <1>7 DEF NoiseVerdict
<1>. QED  BY <1>8 DEF M, n

LEMMA ContrastRight ==
    ASSUME NEW f \in FilterStates, NEW L \in Seq(Entries), NEW x \in Entries,
           Remembers(f, L), f.kind = "contrast",
           ~cut_trail => ~f.is_cut[PixelIndex(x.e)],
           x.valid <=> LET again == /\ Recent(Get(f.surface, x.e), x.e.t)
                                    /\ ~f.is_cut[PixelIndex(x.e)]
                       IN  again \/ (~again /\ Recent(GetOpposite(f.surface, x.e), x.e.t)),
           InOrder(Append(L, x), Len(L) + 1)
    PROVE  ContrastVerdict(Append(L, x), Len(L) + 1)
<1> DEFINE M == Append(L, x)
           n == Len(L) + 1
           same_t == Get(f.surface, x.e)
           opp_t == GetOpposite(f.surface, x.e)
           cut == f.is_cut[PixelIndex(x.e)]
<1>1. /\ Len(L) \in Nat /\ n \in Nat /\ n \in 1..n /\ M[n] = x
      /\ \A i \in 1..n : M[i].e.t \in Nat
  BY Grown
<1>2. x.e.t \in Nat /\ dt \in Nat
  BY EntryIs, SensorAssumption
<1>3. f.kind \in Keepers
  BY DEF Keepers
<1>0. PICK A, B, a, b : AtPixel(f, M, n, A, B, a, b)
  BY <1>3, LastHere
<1>5. InOrder(M, n)
  OBVIOUS
<1>6. x.valid <=> (Recent(same_t, x.e.t) /\ ~cut) \/ Recent(opp_t, x.e.t)
  OBVIOUS
<1>6a. ~cut_trail => ~cut
  OBVIOUS
<1> HIDE DEF M, n
<1> DEFINE last == LastOf(A \union B)
<1>4. /\ A \subseteq 1..n - 1 /\ B \subseteq 1..n - 1
      /\ \A i \in A : M[i].e.p = x.e.p
      /\ \A i \in B : M[i].e.p # x.e.p
      /\ {i \in Before(M, n) : f.kind = "trail" => M[i].valid} = A \union B
      /\ a \in 0..n - 1 /\ (a # 0 => a \in A)
      /\ b \in 0..n - 1 /\ (b # 0 => b \in B)
      /\ last = IF a > b THEN a ELSE b
      /\ a = b => a = 0
      /\ same_t = IF a = 0 THEN 0 ELSE M[a].e.t
      /\ opp_t = IF b = 0 THEN 0 ELSE M[b].e.t
  BY <1>0, <1>1 DEF AtPixel
<1>7. Previous(M, n) = last
  <2>1. Before(M, n) = A \union B
    BY <1>4
  <2>. QED  BY <2>1 DEF Previous
<1> HIDE DEF same_t, opp_t, last, cut
<1>8. /\ \A j \in 1..n : \A i \in 1..j : M[i].e.t <= M[j].e.t
      /\ \A i \in 1..n : M[i].e.t > 0
  BY <1>1, <1>5, OrderIs
<1>9. ASSUME a # 0
      PROVE  /\ M[a].e.t \in Nat \ {0} /\ M[a].e.t <= x.e.t
             /\ last # 0 /\ M[a].e.t <= M[last].e.t
             /\ Recent(same_t, x.e.t) <=> x.e.t - M[a].e.t <= dt
  <2>2. M[a].e.t \in Nat \ {0} /\ M[a].e.t <= x.e.t
    BY <1>1, <1>4, <1>8, <1>9
  <2>3. last \in 1..n /\ a \in 1..last
    BY <1>1, <1>4, <1>9
  <2>4. Recent(same_t, x.e.t) <=> x.e.t - M[a].e.t <= dt
    BY <1>2, <1>4, <1>9, <2>2 DEF Recent, SaturatingSub
  <2>. QED  BY <1>8, <2>2, <2>3, <2>4
<1>10. ASSUME b # 0
       PROVE  /\ M[b].e.t \in Nat \ {0} /\ M[b].e.t <= x.e.t
              /\ last # 0 /\ M[b].e.t <= M[last].e.t
              /\ Recent(opp_t, x.e.t) <=> x.e.t - M[b].e.t <= dt
  <2>2. M[b].e.t \in Nat \ {0} /\ M[b].e.t <= x.e.t
    BY <1>1, <1>4, <1>8, <1>10
  <2>3. last \in 1..n /\ b \in 1..last
    BY <1>1, <1>4, <1>10
  <2>4. Recent(opp_t, x.e.t) <=> x.e.t - M[b].e.t <= dt
    BY <1>2, <1>4, <1>10, <2>2 DEF Recent, SaturatingSub
  <2>. QED  BY <1>8, <2>2, <2>3, <2>4
<1>11. (a = 0 => ~Recent(same_t, x.e.t)) /\ (b = 0 => ~Recent(opp_t, x.e.t))
  BY <1>4 DEF Recent
<1> DEFINE near == last # 0 /\ x.e.t - M[last].e.t <= dt
<1>12. last # 0 => M[last].e.t \in Nat
  BY <1>1, <1>4
<1>13. x.valid => near
  BY <1>2, <1>6, <1>9, <1>10, <1>11, <1>12
<1>14. near /\ (~cut_trail \/ M[last].e.p # x.e.p) => x.valid
  <2>1. SUFFICES ASSUME near, ~cut_trail \/ M[last].e.p # x.e.p  PROVE x.valid
    OBVIOUS
  <2>2. CASE a > b
    <3>1. last = a /\ a # 0 /\ M[last].e.p = x.e.p
      BY <1>4, <2>2
    <3>. QED  BY <1>6, <1>6a, <1>9, <2>1, <3>1
  <2>3. CASE ~(a > b)
    <3>1. last = b /\ b # 0
      BY <1>4, <2>1, <2>3
    <3>. QED  BY <1>6, <1>10, <2>1, <3>1
  <2>. QED  BY <2>2, <2>3
<1>15. ContrastVerdict(M, n)
  BY <1>1, <1>7, <1>13, <1>14 DEF ContrastVerdict
<1>. QED  BY <1>15 DEF M, n

-----------------------------------------------------------------------------
(* The anti-flicker filter: what it reads from its surface, what it has in *)
(* its rings, and what it decides from them.                               *)

LEMMA AlternatingIs ==
    ASSUME NEW f \in FilterStates, NEW L \in Seq(Entries), NEW x \in Entries,
           Remembers(f, L), f.kind = "flicker", Increasing(Append(L, x), Len(L) + 1)
    PROVE  LET M == Append(L, x)
               n == Len(L) + 1
               same_t == Get(f.surface, x.e)
               opp_t == GetOpposite(f.surface, x.e)
               newest == Newest(L, x.e.at)
           IN  /\ IsAlternating(same_t, opp_t, x.e.t) <=> Alternates(M, n)
               /\ Alternates(M, n) => FrequencyFromPeriod(x.e.t - same_t) = FrequencyAt(M, n)
               /\ Previous(M, n) = newest /\ newest \in 0..n - 1
               /\ PreviousSame(M, n) # 0 /\ ~Alternates(M, n) => same_t > opp_t
               /\ newest # 0 /\ Alternates(L, newest) => PreviousSame(M, n) # 0
<1> DEFINE M == Append(L, x)
           n == Len(L) + 1
           same_t == Get(f.surface, x.e)
           opp_t == GetOpposite(f.surface, x.e)
           newest == Newest(L, x.e.at)
<1>1. /\ Len(L) \in Nat /\ n \in Nat /\ n \in 1..n /\ M[n] = x /\ n - 1 = Len(L)
      /\ DOMAIN L = 1..n - 1 /\ \A i \in 1..n - 1 : M[i] = L[i] /\ i \in 1..n
      /\ \A i \in 1..n : M[i].e.t \in Nat /\ M[i].e.p \in BOOLEAN
  BY Grown
<1>2. x.e.t \in Nat
  BY EntryIs
<1>3. f.kind \in Keepers
  BY DEF Keepers
<1>0. PICK A, B, a, b : AtPixel(f, M, n, A, B, a, b)
  BY <1>3, LastHere
<1>5. Increasing(M, n)
  OBVIOUS
<1> HIDE DEF M, n
<1>4. /\ A \subseteq 1..n - 1 /\ B \subseteq 1..n - 1
      /\ \A i \in A : M[i].e.p = x.e.p
      /\ \A i \in B : M[i].e.p # x.e.p
      /\ {i \in Before(M, n) : f.kind = "trail" => M[i].valid} = A \union B
      /\ a \in 0..n - 1 /\ (a = 0 <=> A = {}) /\ (a # 0 => a \in A)
      /\ b \in 0..n - 1 /\ (b # 0 => b \in B)
      /\ LastOf(A \union B) = IF a > b THEN a ELSE b
      /\ a = b => a = 0
      /\ same_t = IF a = 0 THEN 0 ELSE M[a].e.t
      /\ opp_t = IF b = 0 THEN 0 ELSE M[b].e.t
  BY <1>0, <1>1 DEF AtPixel
<1>6. Before(M, n) = A \union B
  BY <1>4
<1>7. Previous(M, n) = IF a > b THEN a ELSE b
  BY <1>4, <1>6 DEF Previous
<1>8. PreviousSame(M, n) = a
  <2>1. {i \in Before(M, n) : M[i].e.p = M[n].e.p} = A /\ LastOf(A) = a
    BY <1>0, <1>6 DEF AtPixel
  <2>. QED  BY <2>1 DEF PreviousSame
<1> HIDE DEF same_t, opp_t
<1>9. /\ \A j \in 1..n : \A i \in 1..j - 1 : M[i].e.t < M[j].e.t
      /\ \A i \in 1..n : M[i].e.t > 0
  BY <1>1, <1>5, OrderIs
<1>10. a # 0 => /\ M[a].e.t \in Nat \ {0} /\ M[a].e.t < x.e.t
                /\ b > a => M[a].e.t < M[b].e.t /\ M[b].e.t \in Nat
  BY <1>1, <1>4, <1>9
<1>11. b # 0 => /\ M[b].e.t \in Nat \ {0}
                /\ a > b => M[b].e.t < M[a].e.t
  BY <1>1, <1>4, <1>9
<1>12. Alternates(M, n) <=> a # 0 /\ b > a
  <2>1. b > a => M[b].e.p # M[n].e.p
    BY <1>1, <1>4
  <2>2. a > b => M[a].e.p = M[n].e.p
    BY <1>1, <1>4
  <2>. QED  BY <1>4, <1>7, <1>8, <2>1, <2>2 DEF Alternates
<1>13. IsAlternating(same_t, opp_t, x.e.t) <=> a # 0 /\ b > a
  <2>1. CASE a = 0
    BY <1>4, <2>1 DEF IsAlternating
  <2>2. CASE a # 0 /\ b > a
    <3>1. b # 0
      BY <1>1, <1>4, <2>2
    <3>. QED  BY <1>2, <1>4, <1>10, <2>2, <3>1 DEF IsAlternating
  <2>3. CASE a # 0 /\ ~(b > a)
    <3>1. ~(opp_t > same_t)
      <4>1. CASE b = 0
        BY <1>4, <1>10, <2>3, <4>1
      <4>2. CASE b # 0
        <5>1. a > b
          BY <1>1, <1>4, <2>3, <4>2
        <5>2. M[b].e.t < M[a].e.t /\ M[b].e.t \in Nat /\ M[a].e.t \in Nat
          BY <1>10, <1>11, <2>3, <4>2, <5>1
        <5>3. same_t = M[a].e.t /\ opp_t = M[b].e.t
          BY <1>4, <2>3, <4>2
        <5>. QED  BY <5>2, <5>3
      <4>. QED  BY <4>1, <4>2
    <3>. QED  BY <2>3, <3>1 DEF IsAlternating
  <2>. QED  BY <2>1, <2>2, <2>3
<1>14. a # 0 /\ ~(b > a) => same_t > opp_t
  BY <1>4, <1>10, <1>11
<1>15. a # 0 => FrequencyFromPeriod(x.e.t - same_t) = FrequencyAt(M, n)
  BY <1>1, <1>4, <1>8 DEF FrequencyAt
<1>16. Previous(M, n) = newest
  <2>1. {i \in 1..n - 1 : L[i].e.at = x.e.at} = Before(M, n)
    BY <1>1 DEF Before
  <2>. QED  BY <1>1, <2>1 DEF Newest, Previous
<1>17. ASSUME newest # 0, Alternates(L, newest)
       PROVE  a # 0
  <2>1. newest \in A \union B /\ newest \in 1..n - 1
    BY <1>4, <1>7, <1>16, <1>17
  <2>2. Alternates(M, newest) /\ Previous(M, newest) = Previous(L, newest)
        /\ Previous(M, newest) \in 0..newest - 1
    <3> DEFINE m == n - 1
    <3>1. m \in Nat /\ newest \in 1..m /\ \A i \in 1..m : M[i] = L[i]
      BY <1>1, <2>1
    <3> HIDE DEF m, newest
    <3>2. /\ Previous(M, newest) = Previous(L, newest) /\ Previous(L, newest) \in 0..newest - 1
          /\ Alternates(M, newest) <=> Alternates(L, newest)
      BY <3>1, EarlierBefore
    <3>. QED  BY <1>17, <3>2
  <2> DEFINE j == Previous(M, newest)
  <2>3. j # 0 /\ M[j].e.p # M[newest].e.p
    BY <2>2 DEF Alternates
  <2>4. j \in 1..n - 1
    BY <1>1, <2>1, <2>2, <2>3
  <2>5. j \in A \union B
    <3>1. j \in Before(M, newest)
      <4>1. Before(M, newest) \subseteq 1..newest - 1 /\ newest - 1 \in Nat
        BY <1>1, <2>1 DEF Before
      <4>. QED  BY <2>3, <4>1, LastOfIs DEF Previous
    <3>2. M[j].e.at = M[newest].e.at /\ M[newest].e.at = M[n].e.at
      BY <1>6, <2>1, <3>1 DEF Before
    <3>. QED  BY <1>6, <2>4, <3>2 DEF Before
  <2> HIDE DEF j, newest
  <2>6. j \in A \/ newest \in A
    <3>1. M[j].e.p \in BOOLEAN /\ M[newest].e.p \in BOOLEAN /\ x.e.p \in BOOLEAN
      BY <1>1, <2>1, <2>4, EntryIs
    <3>2. M[j].e.p = x.e.p \/ M[newest].e.p = x.e.p
      BY <2>3, <3>1
    <3>. QED  BY <1>4, <2>1, <2>5, <3>2
  <2>. QED  BY <1>4, <2>6
<1>18. newest \in 0..n - 1
  BY <1>4, <1>7, <1>16
<1>. QED  BY <1>8, <1>12, <1>13, <1>14, <1>15, <1>16, <1>17, <1>18 DEF M, n, same_t, opp_t

(* What a pixel's ring says of the log, when the chain of entries it holds *)
(* the frequencies of starts at first.                                     *)
Holds(f, L, px, first, r) ==
    LET count == f.sample_count[px]
        older(j) == IF j = 1 THEN first ELSE Previous(L, r[j - 1])
    IN  /\ r \in [1..count -> DOMAIN L]
        /\ \A j \in 1..count :
              /\ r[j] = older(j) /\ Alternates(L, r[j])
              /\ f.frequency_samples[px][RingSlot(f.sample_offset[px], j)] = FrequencyAt(L, r[j])
        /\ count = min_measurements \/ older(count + 1) = 0 \/ ~Alternates(L, older(count + 1))

LEMMA InRingIs ==
    ASSUME NEW f, NEW L, NEW at
    PROVE  InRing(f, L, at) <=> \E r : Holds(f, L, GetIndex(at, FALSE), Newest(L, at), r)
BY DEF InRing, Holds

LEMMA RingMedian ==
    ASSUME NEW f \in FilterStates, NEW px \in Slots,
           NEW F \in [1..min_measurements -> Nat],
           \A j \in 1..min_measurements :
              F[j] = f.frequency_samples[px][RingSlot(f.sample_offset[px], j)]
    PROVE  Median(F) = Median(f.frequency_samples[px])
<1> DEFINE m == min_measurements
           o == f.sample_offset[px]
           G == f.frequency_samples[px]
           A == 1..m
           B == 0..m - 1
           place == [j \in A |-> RingSlot(o, j)]
<1>1. m \in Nat /\ MICROSECONDS_PER_SECOND \in Nat
  BY SensorAssumption
<1>2. o \in 0..m - 1 /\ G \in [B -> 0..MICROSECONDS_PER_SECOND]
  BY DEF FilterStates
<1>3. /\ \A j \in A : RingSlot(o, j) \in B
      /\ \A j, k \in A : RingSlot(o, j) = RingSlot(o, k) => j = k
      /\ \A s \in B : \E j \in A : RingSlot(o, j) = s
  BY <1>2, RingSlots
<1>4. G \in [B -> Nat]
  BY <1>1, <1>2
<1>5. /\ place \in [A -> B]
      /\ \A a, b \in A : place[a] = place[b] => a = b
      /\ \A b \in B : \E a \in A : place[a] = b
  BY <1>3
<1>6. \A a \in A : F[a] = G[place[a]]
  OBVIOUS
<1>7. F \in [A -> Nat]
  OBVIOUS
<1>8. IsFiniteSet(A)
  BY <1>1, FS_Interval
<1> HIDE DEF A, B, G, place
<1>9. Rearranged(F, A, G, B, place)
  BY <1>4, <1>5, <1>6, <1>7 DEF Rearranged
<1>10. Median(F) = Median(G)
  BY <1>8, <1>9, MedianRearranged
<1>. QED  BY <1>10 DEF G

(* A filter is full of samples in the window exactly when the log says so. *)
Judged(M, n) ==
    \E back \in [0..min_measurements -> 1..n] :
        /\ back[0] = n
        /\ \A j \in 1..min_measurements :
              back[j] = Previous(M, back[j - 1]) /\ Alternates(M, back[j])
        /\ FrequencyInWindow(Median([j \in 1..min_measurements |-> FrequencyAt(M, back[j])]))

LEMMA JudgedIs ==
    ASSUME NEW f \in FilterStates, NEW px \in Slots,
           NEW L, NEW M, NEW n \in Nat \ {0}, DOMAIN L = 1..n - 1,
           \A i \in 1..n - 1 : M[i] = L[i],
           NEW r, Holds(f, L, px, Previous(M, n), r)
    PROVE  MedianInWindow(f, px) <=> Judged(M, n)
<1> DEFINE m == min_measurements
           count == f.sample_count[px]
           samples == f.frequency_samples[px]
           o == f.sample_offset[px]
           first == Previous(M, n)
           older(j) == IF j = 1 THEN first ELSE Previous(L, r[j - 1])
           times(back) == [j \in 1..m |-> FrequencyAt(M, back[j])]
           Chain(back) ==
              /\ back[0] = n
              /\ \A j \in 1..m : back[j] = Previous(M, back[j - 1]) /\ Alternates(M, back[j])
<1>1. m \in Nat \ {0} /\ MICROSECONDS_PER_SECOND \in Nat
  BY SensorAssumption
<1>2. /\ count \in 0..m /\ o \in 0..m - 1
      /\ samples \in [0..m - 1 -> 0..MICROSECONDS_PER_SECOND]
  BY DEF FilterStates
<1>3. /\ r \in [1..count -> 1..n - 1]
      /\ \A j \in 1..count : /\ r[j] = older(j) /\ Alternates(L, r[j])
                             /\ samples[RingSlot(o, j)] = FrequencyAt(L, r[j])
      /\ count = m \/ older(count + 1) = 0 \/ ~Alternates(L, older(count + 1))
  BY DEF Holds
<1> HIDE DEF count, samples, o
<1>4. ASSUME NEW i \in 1..n - 1
      PROVE  /\ Previous(M, i) = Previous(L, i)
             /\ Alternates(M, i) <=> Alternates(L, i)
             /\ Alternates(L, i) => FrequencyAt(M, i) = FrequencyAt(L, i)
  <2> DEFINE k == n - 1
  <2>1. k \in Nat /\ i \in 1..k /\ \A j \in 1..k : M[j] = L[j]
    OBVIOUS
  <2> HIDE DEF k
  <2>2. /\ Previous(M, i) = Previous(L, i)
        /\ Alternates(M, i) <=> Alternates(L, i)
        /\ FrequencyAt(M, i) = FrequencyAt(L, i) \/ PreviousSame(L, i) = 0
    BY <2>1, EarlierBefore
  <2>3. Alternates(L, i) => PreviousSame(L, i) # 0
    BY DEF Alternates
  <2>. QED  BY <2>2, <2>3
<1>5. ASSUME count = m, NEW F, F = [j \in 1..m |-> FrequencyAt(M, r[j])]
      PROVE  Median(F) = Median(samples)
  <2>1. \A j \in 1..m : F[j] = samples[RingSlot(o, j)]
    BY <1>3, <1>4, <1>5
  <2>2. \A j \in 1..m : RingSlot(o, j) \in 0..m - 1
    BY <1>2, RingSlots
  <2>3. F \in [1..m -> Nat]
    BY <1>1, <1>2, <1>5, <2>1, <2>2
  <2>4. Median(F) = Median(f.frequency_samples[px])
    BY <2>1, <2>3, RingMedian DEF samples, o
  <2>. QED  BY <2>4 DEF samples
<1>6. ASSUME MedianInWindow(f, px)
      PROVE  Judged(M, n)
  <2>1. count = m /\ FrequencyInWindow(Median(samples))
    BY <1>6 DEF MedianInWindow, count, samples
  <2> DEFINE back == [j \in 0..m |-> IF j = 0 THEN n ELSE r[j]]
  <2>2. back \in [0..m -> 1..n]
    BY <1>1, <1>3, <2>1
  <2>3. \A j \in 1..m : back[j] = r[j] /\ back[j - 1] = (IF j = 1 THEN n ELSE r[j - 1])
    BY <1>1
  <2>4. ASSUME NEW j \in 1..m
        PROVE  back[j] = Previous(M, back[j - 1]) /\ Alternates(M, back[j])
    <3>1. r[j] = older(j) /\ Alternates(L, r[j]) /\ r[j] \in 1..n - 1
      BY <1>3, <2>1
    <3>2. ASSUME j # 1
          PROVE  r[j - 1] \in 1..n - 1
      <4>1. j - 1 \in 1..count
        BY <1>1, <2>1, <3>2
      <4>. QED  BY <1>3, <4>1
    <3> HIDE DEF back
    <3>3. Alternates(M, back[j])
      BY <1>4, <2>3, <3>1
    <3>4. CASE j = 1
      BY <2>3, <3>1, <3>3, <3>4
    <3>5. CASE j # 1
      <4>1. back[j] = Previous(L, r[j - 1]) /\ back[j - 1] = r[j - 1]
        BY <2>3, <3>1, <3>5
      <4>2. Previous(M, r[j - 1]) = Previous(L, r[j - 1])
        BY <1>4, <3>2, <3>5
      <4>. QED  BY <3>3, <4>1, <4>2
    <3>. QED  BY <3>3, <3>4, <3>5
  <2>5. back[0] = n
    BY <1>1
  <2>6. times(back) = [j \in 1..m |-> FrequencyAt(M, r[j])]
    BY <2>3
  <2>7. Median(times(back)) = Median(samples)
    <3> HIDE DEF times
    <3>. QED  BY <1>5, <2>1, <2>6
  <2> HIDE DEF back
  <2>. QED  BY <2>1, <2>2, <2>4, <2>5, <2>7 DEF Judged
<1>7. ASSUME NEW back \in [0..m -> 1..n], Chain(back), FrequencyInWindow(Median(times(back)))
      PROVE  MedianInWindow(f, px)
  <2> DEFINE Agree == {j \in 0..count : j = 0 \/ r[j] = back[j]}
  <2> HIDE DEF Chain, times
  <2>0. \A j \in 1..m : /\ back[j] = Previous(M, back[j - 1]) /\ Alternates(M, back[j])
                        /\ j \in 0..m /\ j - 1 \in 0..m
    BY <1>1, <1>7 DEF Chain
  <2>00. back[0] = n
    BY <1>7 DEF Chain
  <2>1. ASSUME NEW j \in 0..count, j = 0 \/ r[j] = back[j], j < m
        PROVE  older(j + 1) = back[j + 1]
    <3>0. j \in Nat /\ j < m /\ m \in Nat
      BY <1>1, <1>2, <2>1
    <3>1. j + 1 \in 1..m /\ j + 1 - 1 = j /\ (j + 1 = 1 <=> j = 0)
      BY <3>0
    <3>2. back[j + 1] = Previous(M, back[j])
      BY <2>0, <3>1
    <3>3. CASE j = 0
      BY <2>00, <3>1, <3>2, <3>3
    <3>4. CASE j # 0
      <4>1. j \in 1..count /\ r[j] \in 1..n - 1
        BY <1>2, <1>3, <3>4
      <4>2. older(j + 1) = Previous(L, r[j])
        BY <3>1, <3>4
      <4>. QED  BY <1>4, <2>1, <3>2, <3>4, <4>1, <4>2
    <3>. QED  BY <3>3, <3>4
  <2>2. \A j \in 0..count : j \in Agree
    <3>1. 0 \in Agree /\ count \in Nat
      BY <1>2
    <3>2. ASSUME NEW j \in 0..count - 1, j \in Agree
          PROVE  j + 1 \in Agree
      <4>1. j \in 0..count /\ j < m /\ j + 1 \in 1..count
        BY <1>1, <1>2, <3>2
      <4>2. older(j + 1) = back[j + 1]
        BY <2>1, <3>2, <4>1
      <4>3. r[j + 1] = older(j + 1)
        BY <1>3, <4>1
      <4>. QED  BY <4>1, <4>2, <4>3
    <3> HIDE DEF Agree
    <3>. QED  BY <3>1, <3>2, UpTo
  <2>3. count = m
    <3>1. SUFFICES ASSUME count < m  PROVE FALSE
      BY <1>1, <1>2
    <3>2. count \in 0..count /\ count + 1 \in 1..m
      BY <1>1, <1>2, <3>1
    <3>3. older(count + 1) = back[count + 1]
      BY <2>1, <2>2, <3>1, <3>2
    <3>4. back[count + 1] \in 1..n /\ Alternates(M, back[count + 1])
      BY <2>0, <3>2
    <3>5. back[count + 1] \in 1..n - 1
      <4>1. back[count + 1] = Previous(M, back[count])
        BY <1>2, <2>0, <3>2
      <4>2. back[count] \in 1..n
        BY <1>1, <1>2, <3>1
      <4>3. Previous(M, back[count]) \in 0..back[count] - 1
        BY <4>2, EarlierBefore
      <4>. QED  BY <3>4, <4>1, <4>2, <4>3
    <3>6. Alternates(L, back[count + 1])
      BY <1>4, <3>4, <3>5
    <3>7. count = m \/ older(count + 1) = 0 \/ ~Alternates(L, older(count + 1))
      BY <1>3
    <3> DEFINE u == older(count + 1)
    <3> HIDE DEF older, u
    <3>8. u \in 1..n - 1 /\ Alternates(L, u)
      BY <3>3, <3>5, <3>6 DEF u
    <3>9. u # 0 /\ count # m
      BY <1>1, <1>2, <3>1, <3>8
    <3>. QED  BY <3>7, <3>8, <3>9 DEF u
  <2>4. times(back) = [j \in 1..m |-> FrequencyAt(M, r[j])]
    BY <2>2, <2>3 DEF times
  <2>5. Median(times(back)) = Median(samples)
    BY <1>5, <2>3, <2>4
  <2>. QED  BY <1>7, <2>3, <2>5 DEF MedianInWindow, count, samples
<1>8. Judged(M, n) => MedianInWindow(f, px)
  BY <1>7 DEF Judged
<1>. QED  BY <1>6, <1>8

LEMMA IncreasingBefore ==
    ASSUME NEW L \in Seq(Entries), NEW x \in Entries, Increasing(Append(L, x), Len(L) + 1)
    PROVE  Increasing(L, Len(L))
<1> DEFINE M == Append(L, x)
           n == Len(L) + 1
<1>1. /\ Len(L) \in Nat /\ n \in Nat /\ n - 1 = Len(L)
      /\ \A i \in 1..n - 1 : M[i] = L[i] /\ i \in 1..n
  BY Grown
<1>2. Increasing(M, n)
  OBVIOUS
<1> HIDE DEF M, n
<1>3. \A i \in 1..n - 1 : M[i] = L[i] /\ (i > 1 => i - 1 \in 1..n - 1) /\ i \in 1..n
  BY <1>1
<1>. QED  BY <1>1, <1>2, <1>3 DEF Increasing

LEMMA FlickerRight ==
    ASSUME NEW f \in FilterStates, NEW L \in Seq(Entries), NEW x \in Entries,
           Remembers(f, L), Measures(f, L), f.kind = "flicker",
           Increasing(Append(L, x), Len(L) + 1),
           ~x.valid <=> /\ IsAlternating(Get(f.surface, x.e), GetOpposite(f.surface, x.e), x.e.t)
                        /\ f.is_blocked[PixelIndex(x.e)]
                        /\ FrequencyInWindow(FrequencyFromPeriod(x.e.t - Get(f.surface, x.e)))
    PROVE  FlickerVerdict(Append(L, x), Len(L) + 1)
<1> DEFINE M == Append(L, x)
           n == Len(L) + 1
           px == PixelIndex(x.e)
           newest == Newest(L, x.e.at)
           frequency == FrequencyFromPeriod(x.e.t - Get(f.surface, x.e))
           alternating == IsAlternating(Get(f.surface, x.e), GetOpposite(f.surface, x.e), x.e.t)
<1>1. /\ n \in Nat \ {0} /\ M[n] = x /\ n - 1 = Len(L)
      /\ DOMAIN L = 1..n - 1 /\ \A i \in 1..n - 1 : M[i] = L[i]
  <2>1. /\ Len(L) \in Nat /\ n \in Nat /\ M[n] = x /\ n - 1 = Len(L)
        /\ DOMAIN L = 1..n - 1 /\ \A i \in 1..n - 1 : M[i] = L[i]
    BY Grown
  <2>. QED  BY <2>1
<1>2. x.e.at \in Pixels /\ px \in Slots /\ px = GetIndex(x.e.at, FALSE)
  BY EntryIs, EventIs DEF PixelIndex
<1>3. /\ alternating <=> Alternates(M, n)
      /\ Alternates(M, n) => frequency = FrequencyAt(M, n)
      /\ Previous(M, n) = newest
  BY AlternatingIs
<1>4. ~x.valid <=> alternating /\ f.is_blocked[px] /\ FrequencyInWindow(frequency)
  OBVIOUS
<1>5. Increasing(L, Len(L))
  BY IncreasingBefore
<1> HIDE DEF M, n, px, newest, frequency, alternating
<1>6. InRing(f, L, x.e.at)
  BY <1>2, <1>5 DEF Measures
<1>7. PICK r : Holds(f, L, px, Previous(M, n), r)
  BY <1>2, <1>3, <1>6, InRingIs DEF newest
<1>8. f.is_blocked[px] = MedianInWindow(f, px)
  BY <1>2 DEF Measures
<1>9. MedianInWindow(f, px) <=> Judged(M, n)
  BY <1>1, <1>2, <1>7, JudgedIs
<1>10. ~M[n].valid <=> Alternates(M, n) /\ FrequencyInWindow(FrequencyAt(M, n)) /\ Judged(M, n)
  BY <1>1, <1>3, <1>4, <1>8, <1>9
<1>11. FlickerVerdict(M, n)
  BY <1>10, Zenon DEF FlickerVerdict, Judged
<1>. QED  BY <1>11 DEF M, n

Extends(M, L, n) ==
    /\ n \in Nat \ {0} /\ DOMAIN L = 1..n - 1 /\ DOMAIN M = 1..n
    /\ \A j \in 1..n - 1 : M[j] = L[j]

LEMMA EarlierAlternates ==
    ASSUME NEW L, NEW M, NEW n \in Nat \ {0}, \A j \in 1..n - 1 : M[j] = L[j],
           NEW i \in 1..n - 1
    PROVE  /\ Previous(M, i) = Previous(L, i) /\ Previous(L, i) \in 0..n - 1
           /\ Alternates(M, i) <=> Alternates(L, i)
           /\ Alternates(L, i) => FrequencyAt(M, i) = FrequencyAt(L, i)
<1> DEFINE k == n - 1
<1>1. k \in Nat /\ i \in 1..k /\ \A j \in 1..k : M[j] = L[j]
  OBVIOUS
<1> HIDE DEF k
<1>2. /\ Previous(M, i) = Previous(L, i) /\ Previous(L, i) \in 0..i - 1
      /\ Alternates(M, i) <=> Alternates(L, i)
      /\ FrequencyAt(M, i) = FrequencyAt(L, i) \/ PreviousSame(L, i) = 0
  BY <1>1, EarlierBefore
<1>3. Alternates(L, i) => PreviousSame(L, i) # 0
  BY DEF Alternates
<1>. QED  BY <1>2, <1>3

(* Another pixel's ring stays as it is. *)
LEMMA RingKept ==
    ASSUME NEW f \in FilterStates, NEW g, NEW px \in Slots,
           g.sample_count[px] = f.sample_count[px], g.sample_offset[px] = f.sample_offset[px],
           g.frequency_samples[px] = f.frequency_samples[px],
           NEW L, NEW M, NEW n \in Nat \ {0}, \A j \in 1..n - 1 : M[j] = L[j],
           DOMAIN L = 1..n - 1, DOMAIN M = 1..n,
           NEW first \in 0..n - 1, NEW r, Holds(f, L, px, first, r)
    PROVE  Holds(g, M, px, first, r)
<1> DEFINE m == min_measurements
           count == f.sample_count[px]
           samples == f.frequency_samples[px]
           o == f.sample_offset[px]
           olderL(j) == IF j = 1 THEN first ELSE Previous(L, r[j - 1])
           olderM(j) == IF j = 1 THEN first ELSE Previous(M, r[j - 1])
<1>1. count \in 0..m /\ m \in Nat
  BY SensorAssumption DEF FilterStates
<1>2. /\ r \in [1..count -> 1..n - 1]
      /\ \A j \in 1..count : /\ r[j] = olderL(j) /\ Alternates(L, r[j])
                             /\ samples[RingSlot(o, j)] = FrequencyAt(L, r[j])
      /\ count = m \/ olderL(count + 1) = 0 \/ ~Alternates(L, olderL(count + 1))
  BY DEF Holds
<1>3. g.sample_count[px] = count /\ g.frequency_samples[px] = samples /\ g.sample_offset[px] = o
  OBVIOUS
<1> HIDE DEF count, samples, o
<1>8. \A i \in 1..n - 1 : /\ Previous(M, i) = Previous(L, i) /\ Previous(L, i) \in 0..n - 1
                          /\ Alternates(M, i) <=> Alternates(L, i)
                          /\ Alternates(L, i) => FrequencyAt(M, i) = FrequencyAt(L, i)
  BY EarlierAlternates
<1>4. ASSUME NEW j \in 1..count + 1
      PROVE  olderM(j) = olderL(j) /\ olderL(j) \in 0..n - 1
  <2>1. CASE j = 1
    BY <2>1
  <2>2. CASE j # 1
    <3>1. j - 1 \in 1..count
      BY <1>1, <2>2
    <3>2. r[j - 1] \in 1..n - 1
      BY <1>2, <3>1
    <3>3. Previous(M, r[j - 1]) = Previous(L, r[j - 1]) /\ Previous(L, r[j - 1]) \in 0..n - 1
      BY <3>2, <1>8
    <3>. QED  BY <2>2, <3>3
  <2>. QED  BY <2>1, <2>2
<1>5. ASSUME NEW j \in 1..count
      PROVE  /\ r[j] = olderM(j) /\ Alternates(M, r[j])
             /\ samples[RingSlot(o, j)] = FrequencyAt(M, r[j])
  <2>1. r[j] \in 1..n - 1 /\ j \in 1..count + 1
    BY <1>1, <1>2
  <2>2. olderM(j) = olderL(j)
    BY <1>4, <2>1
  <2> HIDE DEF olderL, olderM
  <2>3. /\ Alternates(M, r[j]) <=> Alternates(L, r[j])
        /\ Alternates(L, r[j]) => FrequencyAt(M, r[j]) = FrequencyAt(L, r[j])
    BY <2>1, <1>8
  <2>4. /\ r[j] = olderL(j) /\ Alternates(L, r[j])
        /\ samples[RingSlot(o, j)] = FrequencyAt(L, r[j])
    BY <1>2
  <2>. QED  BY <2>2, <2>3, <2>4
<1>6. count = m \/ olderM(count + 1) = 0 \/ ~Alternates(M, olderM(count + 1))
  <2> DEFINE u == olderL(count + 1)
  <2>1. olderM(count + 1) = u /\ u \in 0..n - 1
    BY <1>1, <1>4
  <2>2. count = m \/ u = 0 \/ ~Alternates(L, u)
    BY <1>2
  <2> HIDE DEF u, olderM
  <2>3. u # 0 => (Alternates(M, u) <=> Alternates(L, u))
    BY <2>1, EarlierAlternates
  <2>. QED  BY <2>1, <2>2, <2>3
<1>7. r \in [1..count -> DOMAIN M]
  BY <1>2
<1>. QED  BY <1>3, <1>5, <1>6, <1>7 DEF Holds

(* A ring that gets a sample more.                                         *)
LEMMA RingPushed ==
    ASSUME NEW f \in FilterStates, NEW g, NEW px \in Slots, NEW frequency,
           Pushes(f, g, px, frequency),
           NEW L, NEW M, NEW n, Extends(M, L, n),
           NEW r, Holds(f, L, px, Previous(M, n), r), Previous(M, n) \in 0..n - 1,
           Alternates(M, n), frequency = FrequencyAt(M, n)
    PROVE  \E q : Holds(g, M, px, n, q)
<1> USE DEF Extends
<1> DEFINE m == min_measurements
           count == f.sample_count[px]
           samples == f.frequency_samples[px]
           o == f.sample_offset[px]
           count2 == g.sample_count[px]
           samples2 == g.frequency_samples[px]
           o2 == g.sample_offset[px]
           first == Previous(M, n)
           olderL(j) == IF j = 1 THEN first ELSE Previous(L, r[j - 1])
           q == [j \in 1..count2 |-> IF j = 1 THEN n ELSE r[j - 1]]
           olderM(j) == IF j = 1 THEN n ELSE Previous(M, q[j - 1])
<1>1. /\ count \in 0..m /\ m \in Nat \ {0} /\ o \in 0..m - 1
      /\ DOMAIN samples = 0..m - 1
  BY SensorAssumption DEF FilterStates
<1>2. /\ r \in [1..count -> 1..n - 1]
      /\ \A j \in 1..count : /\ r[j] = olderL(j) /\ Alternates(L, r[j])
                             /\ samples[RingSlot(o, j)] = FrequencyAt(L, r[j])
      /\ count = m \/ olderL(count + 1) = 0 \/ ~Alternates(L, olderL(count + 1))
  BY DEF Holds
<1>3. /\ count2 = Min({count + 1, m}) /\ o2 = NextOffset(o)
      /\ samples2 = [samples EXCEPT ![o] = frequency]
  BY DEF Pushes
<1> HIDE DEF count, samples, o, count2, samples2, o2, first
<1>4. count2 = IF count + 1 < m THEN count + 1 ELSE m
  <2>1. count + 1 \in Nat /\ m \in Nat
    BY <1>1
  <2>. QED  BY <1>3, <2>1, MinIs
<1>5. \A i \in 1..n - 1 : /\ Previous(M, i) = Previous(L, i) /\ Previous(L, i) \in 0..n - 1
                          /\ Alternates(M, i) <=> Alternates(L, i)
                          /\ Alternates(L, i) => FrequencyAt(M, i) = FrequencyAt(L, i)
  BY EarlierAlternates
<1>6. /\ RingSlot(o2, 1) = o
      /\ \A j \in 1..m - 1 : RingSlot(o2, j + 1) = RingSlot(o, j) /\ RingSlot(o, j) # o
      /\ \A j \in 1..m : RingSlot(o, j) \in 0..m - 1
  BY <1>1, <1>3, RingSlots
<1>7. q \in [1..count2 -> 1..n] /\ 1 \in 1..count2 /\ count2 \in Nat
  <2>1. ASSUME NEW j \in 1..count2
        PROVE  (IF j = 1 THEN n ELSE r[j - 1]) \in 1..n
    <3>1. CASE j = 1
      BY <3>1
    <3>2. CASE j # 1
      <4>1. j - 1 \in 1..count
        BY <1>1, <1>4, <3>2
      <4>2. r[j - 1] \in 1..n - 1
        BY <1>2, <4>1
      <4>. QED  BY <3>2, <4>2
    <3>. QED  BY <3>1, <3>2
  <2>. QED  BY <1>1, <1>4, <2>1
<1>8. /\ q[1] = n
      /\ \A j \in 1..count2 : j # 1 => q[j] = r[j - 1]
  BY <1>7
<1> HIDE DEF q
<1>9. ASSUME NEW k \in 0..count, k + 1 \in 1..count2
      PROVE  olderM(k + 2) = olderL(k + 1) /\ olderL(k + 1) \in 0..n - 1
  <2>0. k + 2 # 1 /\ k + 2 - 1 = k + 1 /\ (k + 1 = 1 <=> k = 0) /\ k + 1 - 1 = k
    BY <1>1
  <2>1. olderM(k + 2) = Previous(M, q[k + 1])
    BY <2>0
  <2>2. CASE k = 0
    <3>1. q[k + 1] = n /\ olderL(k + 1) = first
      BY <1>8, <2>0, <2>2
    <3>. QED  BY <2>1, <3>1 DEF first
  <2>3. CASE k # 0
    <3>1. q[k + 1] = r[k] /\ olderL(k + 1) = Previous(L, r[k])
      BY <1>8, <1>9, <2>0, <2>3
    <3>2. r[k] \in 1..n - 1
      BY <1>1, <1>2, <2>3
    <3>3. Previous(M, r[k]) = Previous(L, r[k]) /\ Previous(L, r[k]) \in 0..n - 1
      BY <1>5, <3>2
    <3>. QED  BY <2>1, <3>1, <3>3
  <2>. QED  BY <2>2, <2>3
<1>10. ASSUME NEW j \in 1..count2
       PROVE  /\ q[j] = olderM(j) /\ Alternates(M, q[j])
              /\ samples2[RingSlot(o2, j)] = FrequencyAt(M, q[j])
  <2>1. CASE j = 1
    <3>1. samples2[o] = frequency
      BY <1>1, <1>3
    <3>. QED  BY <1>6, <1>8, <2>1, <3>1
  <2>2. CASE j # 1
    <3> DEFINE k == j - 1
    <3>1. k \in 1..count /\ k \in 1..m - 1 /\ j = k + 1 /\ k - 1 \in 0..count
          /\ (k - 1) + 1 \in 1..count2 /\ (k - 1) + 1 = k /\ (k - 1) + 2 = j
      BY <1>1, <1>4, <2>2
    <3>2. q[j] = r[k]
      BY <1>8, <2>2
    <3> HIDE DEF k
    <3>3. olderM((k - 1) + 2) = olderL((k - 1) + 1)
      BY <1>9, <3>1
    <3>4. olderM(j) = olderL(k)
      BY <3>1, <3>3
    <3> HIDE DEF olderM, olderL
    <3>5. r[k] = olderL(k) /\ Alternates(L, r[k]) /\ samples[RingSlot(o, k)] = FrequencyAt(L, r[k])
          /\ r[k] \in 1..n - 1
      BY <1>2, <3>1
    <3>6. Alternates(M, r[k]) /\ FrequencyAt(M, r[k]) = FrequencyAt(L, r[k])
      BY <1>5, <3>5
    <3>7. RingSlot(o2, j) = RingSlot(o, k) /\ RingSlot(o, k) # o
      BY <1>6, <3>1
    <3>8. samples2[RingSlot(o, k)] = samples[RingSlot(o, k)]
      <4>1. k \in 1..m
        BY <1>1, <3>1
      <4>2. RingSlot(o, k) \in 0..m - 1
        BY <1>6, <4>1
      <4>. QED  BY <1>1, <1>3, <3>7, <4>2
    <3>. QED  BY <3>2, <3>4, <3>5, <3>6, <3>7, <3>8
  <2>. QED  BY <2>1, <2>2
<1>11. count2 = m \/ olderM(count2 + 1) = 0 \/ ~Alternates(M, olderM(count2 + 1))
  <2>1. SUFFICES ASSUME count2 # m
                 PROVE  olderM(count2 + 1) = 0 \/ ~Alternates(M, olderM(count2 + 1))
    OBVIOUS
  <2>2. count2 = count + 1 /\ count # m /\ count \in 0..count /\ count + 1 \in 1..count2
        /\ count2 + 1 = count + 2
    BY <1>1, <1>4, <2>1
  <2> DEFINE u == olderL(count + 1)
  <2>3. olderM(count2 + 1) = u /\ u \in 0..n - 1
    BY <1>9, <2>2
  <2>4. u = 0 \/ ~Alternates(L, u)
    BY <1>2, <2>2
  <2> HIDE DEF u, olderM
  <2>5. u # 0 => (Alternates(M, u) <=> Alternates(L, u))
    BY <1>5, <2>3
  <2>. QED  BY <2>3, <2>4, <2>5
<1>12. q \in [1..count2 -> DOMAIN M]
  BY <1>7
<1>13. Holds(g, M, px, n, q)
  BY <1>10, <1>11, <1>12 DEF Holds, count2, samples2, o2
<1>. QED  BY <1>13

LEMMA NewestIs ==
    ASSUME NEW L \in Seq(Entries), NEW x \in Entries, NEW at
    PROVE  /\ Newest(L, at) \in 0..Len(L)
           /\ Newest(Append(L, x), at) = IF x.e.at = at THEN Len(L) + 1 ELSE Newest(L, at)
<1> DEFINE M == Append(L, x)
           n == Len(L) + 1
           S == {i \in 1..n - 1 : L[i].e.at = at}
           T == {i \in 1..n : M[i].e.at = at}
<1>1. /\ Len(L) \in Nat /\ n \in Nat /\ n \in 1..n /\ M[n] = x /\ n - 1 = Len(L)
      /\ DOMAIN L = 1..n - 1 /\ DOMAIN M = 1..n
      /\ \A i \in 1..n - 1 : M[i] = L[i] /\ i \in 1..n
  BY Grown
<1> HIDE DEF M, n
<1>2. Newest(L, at) = LastOf(S) /\ Newest(M, at) = LastOf(T)
  BY <1>1 DEF Newest
<1>3. LastOf(S) \in 0..n - 1
  <2>1. S \subseteq 1..n - 1 /\ n - 1 \in Nat
    BY <1>1
  <2>. QED  BY <2>1, LastOfIs
<1>4. CASE x.e.at = at
  <2>1. T \subseteq 1..n /\ n \in T /\ \A i \in T : i <= n
    BY <1>1, <1>4
  <2> HIDE DEF T
  <2>2. LastOf(T) = n
    BY <1>1, <2>1, LastOfUnique
  <2>. QED  BY <1>1, <1>2, <1>3, <1>4, <2>2 DEF M, n
<1>5. CASE x.e.at # at
  <2>1. ASSUME NEW i \in 1..n, M[i].e.at = at
        PROVE  i \in 1..n - 1 /\ L[i].e.at = at
    <3>1. i # n
      BY <1>1, <1>5, <2>1
    <3>2. i \in 1..n - 1
      BY <1>1, <3>1
    <3>. QED  BY <1>1, <2>1, <3>2
  <2>2. T = S
    BY <1>1, <2>1
  <2>. QED  BY <1>1, <1>2, <1>3, <1>5, <2>2 DEF M, n
<1>. QED  BY <1>4, <1>5

LEMMA MeasuresStep ==
    ASSUME NEW f \in FilterStates, NEW g \in FilterStates,
           NEW L \in Seq(Entries), NEW x \in Entries,
           Remembers(f, L), Measures(f, L), f.kind = "flicker",
           LET same_t == Get(f.surface, x.e)
               opp_t == GetOpposite(f.surface, x.e)
           IN  IF IsAlternating(same_t, opp_t, x.e.t)
               THEN Pushes(f, g, PixelIndex(x.e), FrequencyFromPeriod(x.e.t - same_t))
               ELSE Keeps(f, g, PixelIndex(x.e), same_t > opp_t)
    PROVE  Measures(g, Append(L, x))
<1> DEFINE M == Append(L, x)
           n == Len(L) + 1
           px == PixelIndex(x.e)
           same_t == Get(f.surface, x.e)
           opp_t == GetOpposite(f.surface, x.e)
           newest == Newest(L, x.e.at)
           frequency == FrequencyFromPeriod(x.e.t - same_t)
           alternating == IsAlternating(same_t, opp_t, x.e.t)
<1>1. /\ n \in Nat \ {0} /\ M[n] = x /\ n - 1 = Len(L) /\ Len(M) = n
      /\ DOMAIN L = 1..n - 1 /\ \A i \in 1..n - 1 : M[i] = L[i]
      /\ DOMAIN M = 1..n
  <2>1. /\ Len(L) \in Nat /\ n \in Nat /\ M[n] = x /\ n - 1 = Len(L) /\ Len(M) = n
        /\ DOMAIN L = 1..n - 1 /\ \A i \in 1..n - 1 : M[i] = L[i]
        /\ DOMAIN M = 1..n
    BY Grown
  <2>. QED  BY <2>1
<1>2. x.e.at \in Pixels /\ px \in Slots /\ px = GetIndex(x.e.at, FALSE)
  BY EntryIs, EventIs DEF PixelIndex
<1>3. /\ alternating => Pushes(f, g, px, frequency)
      /\ ~alternating => Keeps(f, g, px, same_t > opp_t)
  OBVIOUS
<1>4. Increasing(M, n) => Increasing(L, Len(L))
  BY IncreasingBefore
<1>5. ASSUME Increasing(M, n)
      PROVE  /\ alternating <=> Alternates(M, n)
             /\ Alternates(M, n) => frequency = FrequencyAt(M, n)
             /\ Previous(M, n) = newest /\ newest \in 0..n - 1
             /\ PreviousSame(M, n) # 0 /\ ~Alternates(M, n) => same_t > opp_t
             /\ newest # 0 /\ Alternates(L, newest) => PreviousSame(M, n) # 0
  BY <1>5, AlternatingIs
<1>6. \A at : /\ Newest(L, at) \in 0..n - 1
              /\ Newest(M, at) = IF x.e.at = at THEN n ELSE Newest(L, at)
  BY <1>1, NewestIs
<1>7. 0 # min_measurements
  BY SensorAssumption
<1> HIDE DEF M, n, px, same_t, opp_t, frequency, alternating
<1>8. ASSUME NEW i \in Slots \ {px}
      PROVE  /\ g.sample_count[i] = f.sample_count[i]
             /\ g.frequency_samples[i] = f.frequency_samples[i]
             /\ g.sample_offset[i] = f.sample_offset[i]
             /\ g.is_blocked[i] = f.is_blocked[i]
  BY <1>3 DEF Pushes, Keeps
<1>9. ASSUME NEW i \in Slots
      PROVE  g.is_blocked[i] = MedianInWindow(g, i)
  <2>1. f.is_blocked[i] = MedianInWindow(f, i)
    BY DEF Measures
  <2>2. CASE /\ g.sample_count[i] = f.sample_count[i]
             /\ g.frequency_samples[i] = f.frequency_samples[i]
             /\ g.is_blocked[i] = f.is_blocked[i]
    <3>1. MedianInWindow(g, i) = MedianInWindow(f, i)
      BY <2>2 DEF MedianInWindow
    <3>. QED  BY <2>1, <2>2, <3>1
  <2>3. CASE i = px
    <3>1. CASE alternating
      BY <1>3, <2>3, <3>1 DEF Pushes
    <3>2. CASE ~alternating /\ ~(same_t > opp_t)
      BY <1>3, <2>2, <2>3, <3>2 DEF Keeps
    <3>3. CASE ~alternating /\ same_t > opp_t
      <4>1. g.sample_count[i] = 0 /\ g.is_blocked[i] = FALSE
        BY <1>3, <2>3, <3>3 DEF Keeps
      <4>2. MedianInWindow(g, i) = FALSE
        BY <1>7, <4>1 DEF MedianInWindow
      <4>. QED  BY <4>1, <4>2
    <3>. QED  BY <3>1, <3>2, <3>3
  <2>. QED  BY <1>8, <2>2, <2>3
<1>10. ASSUME Increasing(M, n), NEW at \in Pixels
       PROVE  InRing(g, M, at)
  <2> DEFINE q == GetIndex(at, FALSE)
  <2>1. q \in Slots /\ (q = px => at = x.e.at)
    BY <1>2, SlotsAre
  <2>2. InRing(f, L, at)
    BY <1>4, <1>10 DEF Measures
  <2>3. PICK r : Holds(f, L, q, Newest(L, at), r)
    BY <2>2, InRingIs
  <2>4. CASE at # x.e.at
    <3>1. q # px /\ Newest(L, at) \in 0..n - 1 /\ Newest(M, at) = Newest(L, at)
      BY <1>6, <2>1, <2>4
    <3>2. /\ g.sample_count[q] = f.sample_count[q]
          /\ g.frequency_samples[q] = f.frequency_samples[q]
          /\ g.sample_offset[q] = f.sample_offset[q]
      BY <1>8, <2>1, <3>1
    <3> HIDE DEF q
    <3>3. Holds(g, M, q, Newest(L, at), r)
      BY <1>1, <2>1, <2>3, <3>1, <3>2, RingKept
    <3>. QED  BY <3>1, <3>3, InRingIs DEF q
  <2>5. CASE at = x.e.at
    <3>1. q = px /\ Newest(M, at) = n /\ Newest(L, at) = newest /\ newest = Previous(M, n)
          /\ newest \in 0..n - 1
      BY <1>2, <1>5, <1>6, <1>10, <2>5
    <3>2. Holds(f, L, px, Previous(M, n), r)
      BY <2>3, <3>1
    <3> HIDE DEF q, newest
    <3>3. CASE Alternates(M, n)
      <4>1. Pushes(f, g, px, frequency) /\ frequency = FrequencyAt(M, n)
        BY <1>3, <1>5, <1>10, <3>3
      <4>2. \E c : Holds(g, M, px, n, c)
        <5>1. Extends(M, L, n) /\ Previous(M, n) \in 0..n - 1
          BY <1>1, <3>1 DEF Extends
        <5>. QED  BY <1>2, <3>2, <3>3, <4>1, <5>1, RingPushed
      <4>. QED  BY <3>1, <4>2, InRingIs DEF q
    <3>4. CASE ~Alternates(M, n)
      <4>1. Keeps(f, g, px, same_t > opp_t)
        BY <1>3, <1>5, <1>10, <3>4
      <4>2. g.sample_count[px] = 0
        <5>1. CASE same_t > opp_t
          BY <4>1, <5>1 DEF Keeps
        <5>2. CASE ~(same_t > opp_t)
          <6>1. ~(newest # 0 /\ Alternates(L, newest))
            BY <1>5, <1>10, <3>4, <5>2
          <6>2. f.sample_count[px] \in 0..min_measurements
            BY <1>2 DEF FilterStates
          <6>3. f.sample_count[px] # 0 => newest \in 1..n - 1 /\ Alternates(L, newest)
            <7>1. SUFFICES ASSUME f.sample_count[px] # 0
                           PROVE  newest \in 1..n - 1 /\ Alternates(L, newest)
              OBVIOUS
            <7>2. 1 \in 1..f.sample_count[px]
              BY <6>2, <7>1
            <7>3. r[1] = newest /\ Alternates(L, r[1]) /\ r[1] \in 1..n - 1
              BY <1>1, <3>1, <3>2, <7>2 DEF Holds
            <7>. QED  BY <7>3
          <6>4. f.sample_count[px] = 0
            BY <6>1, <6>3
          <6>. QED  BY <4>1, <5>2, <6>4 DEF Keeps
        <5>. QED  BY <5>1, <5>2
      <4> DEFINE none == [j \in 1..0 |-> n]
      <4>3. none \in [1..0 -> DOMAIN M] /\ \A j : j \notin 1..0
        OBVIOUS
      <4> HIDE DEF none
      <4>4. Holds(g, M, px, n, none)
        BY <3>4, <4>2, <4>3 DEF Holds
      <4>. QED  BY <3>1, <4>4, InRingIs DEF q
    <3>. QED  BY <3>3, <3>4
  <2>. QED  BY <2>4, <2>5
<1>. QED  BY <1>1, <1>9, <1>10 DEF Measures, M

-----------------------------------------------------------------------------
(* One event through one filter: it knows what it has to, and the verdict  *)
(* is right.                                                               *)

RightAt(kind, L, n) ==
    /\ kind = "trail" /\ Increasing(L, n) => TrailVerdict(L, n)
    /\ kind = "noise" /\ InOrder(L, n) => NoiseVerdict(L, n)
    /\ kind = "contrast" /\ InOrder(L, n) => ContrastVerdict(L, n)
    /\ kind = "flicker" /\ Increasing(L, n) => FlickerVerdict(L, n)

LEMMA RightStep ==
    ASSUME NEW kind, NEW L \in Seq(Entries), NEW x \in Entries, Right(kind, L),
           RightAt(kind, Append(L, x), Len(L) + 1)
    PROVE  Right(kind, Append(L, x))
<1> DEFINE M == Append(L, x)
           N == Len(L)
<1>1. /\ N \in Nat /\ DOMAIN L = 1..N /\ DOMAIN M = 1..N + 1
      /\ \A i \in 1..N : M[i] = L[i]
  BY AppendIs
<1>2. RightAt(kind, M, N + 1)
  OBVIOUS
<1> HIDE DEF M, N
<1>3. ASSUME NEW k \in 1..N
      PROVE  RightAt(kind, M, k)
  <2>1. RightAt(kind, L, k)
    BY <1>1 DEF Right, RightAt
  <2>2. (Increasing(M, k) <=> Increasing(L, k)) /\ (InOrder(M, k) <=> InOrder(L, k))
    BY <1>1, EarlierBefore
  <2>3. /\ TrailVerdict(L, k) => TrailVerdict(M, k)
        /\ NoiseVerdict(L, k) => NoiseVerdict(M, k)
        /\ ContrastVerdict(L, k) => ContrastVerdict(M, k)
    BY <1>1, EarlierRight
  <2>4. FlickerVerdict(L, k) => FlickerVerdict(M, k)
    BY <1>1, EarlierFlicker
  <2>. QED  BY <2>1, <2>2, <2>3, <2>4 DEF RightAt
<1>4. \A k \in DOMAIN M : RightAt(kind, M, k)
  <2>1. \A k \in 1..N + 1 : k = N + 1 \/ k \in 1..N
    BY <1>1
  <2>. QED  BY <1>1, <1>2, <1>3, <2>1
<1>5. Right(kind, M)
  BY <1>4 DEF Right, RightAt
<1>. QED  BY <1>5 DEF M

LEMMA EntryType ==
    ASSUME NEW e \in EventSpace, NEW b, b \in BOOLEAN
    PROVE  Entry(e, b) \in Entries /\ Entry(e, b).e = e /\ Entry(e, b).valid = b
BY DEF Entry, Entries

LEMMA KnowsStep ==
    ASSUME NEW f \in FilterStates, NEW L \in Seq(Entries), NEW e \in EventSpace,
           Knows(f, L), Right(f.kind, L)
    PROVE  LET v == Filtered(f, e)
               M == Append(L, Entry(e, v.valid))
           IN  /\ Entry(e, v.valid) \in Entries
               /\ Knows(v.filter, M) /\ Right(f.kind, M)
<1> DEFINE v == Filtered(f, e)
           g == v.filter
           x == Entry(e, v.valid)
           M == Append(L, x)
           n == Len(L) + 1
<1>1. g \in FilterStates /\ g.kind = f.kind /\ v.valid \in BOOLEAN
  BY FilteredIs
<1>2. x \in Entries /\ x.e = e /\ x.valid = v.valid
  <2> DEFINE b == v.valid
  <2>1. b \in BOOLEAN
    BY <1>1
  <2> HIDE DEF b
  <2>2. Entry(e, b) \in Entries /\ Entry(e, b).e = e /\ Entry(e, b).valid = b
    BY <2>1, EntryType
  <2>. QED  BY <2>2 DEF b
<1>3. Remembers(f, L)
  BY DEF Knows
<1>4. f.kind \in Kinds
  BY DEF FilterStates
<1>5. CASE f.kind \in {"polarity", "roi"}
  <2>1. RightAt(f.kind, M, n)
    BY <1>5 DEF RightAt
  <2>2. Right(f.kind, M)
    BY <1>2, <2>1, RightStep
  <2>3. Knows(g, M)
    BY <1>1, <1>5 DEF Knows, Remembers
  <2>. QED  BY <1>2, <2>2, <2>3
<1>6. CASE f.kind = "trail"
  <2> DEFINE valid == TrailValid(Get(f.surface, e), GetOpposite(f.surface, e), e.t)
  <2>1. v = TrailFilter(f, e)
    BY <1>6, FilteredIs
  <2>2. v.valid = valid /\ g.surface = IF valid THEN Update(f.surface, e) ELSE f.surface
    BY <2>1, TrailFilterIs
  <2> HIDE DEF v
  <2>3. x.valid <=> valid
    BY <1>2, <2>2
  <2>4. Remembers(g, M)
    <3>1. g.surface = IF f.kind = "trail" /\ ~x.valid THEN f.surface ELSE Update(f.surface, x.e)
      BY <1>2, <1>6, <2>2, <2>3
    <3> HIDE DEF x, g
    <3>. QED  BY <1>1, <1>2, <1>3, <3>1, RemembersStep
  <2>5. Increasing(M, n) => TrailVerdict(M, n)
    <3>1. x.valid <=> TrailValid(Get(f.surface, x.e), GetOpposite(f.surface, x.e), x.e.t)
      BY <1>2, <2>3
    <3> HIDE DEF x
    <3>. QED  BY <1>2, <1>3, <1>6, <3>1, TrailRight
  <2>6. RightAt(f.kind, M, n)
    BY <1>6, <2>5 DEF RightAt
  <2>7. Right(f.kind, M)
    BY <1>2, <2>6, RightStep
  <2>8. Knows(g, M)
    BY <1>1, <1>6, <2>4 DEF Knows
  <2>. QED  BY <1>2, <2>7, <2>8 DEF v
<1>7. CASE f.kind = "noise"
  <2> DEFINE valid == \E at \in Neighbourhood(e) : Recent(f.surface[GetIndex(at, e.p)], e.t)
  <2>1. v = ActivityNoiseFilter(f, e)
    BY <1>7, FilteredIs
  <2>2. v.valid = valid /\ g.surface = Update(f.surface, e)
    BY <2>1, NoiseFilterIs
  <2> HIDE DEF v
  <2>3. x.valid <=> valid
    BY <1>2, <2>2
  <2>4. Remembers(g, M)
    <3>1. g.surface = IF f.kind = "trail" /\ ~x.valid THEN f.surface ELSE Update(f.surface, x.e)
      BY <1>2, <1>7, <2>2
    <3> HIDE DEF x, g
    <3>. QED  BY <1>1, <1>2, <1>3, <3>1, RemembersStep
  <2>5. InOrder(M, n) => NoiseVerdict(M, n)
    <3>1. x.valid <=> \E at \in Neighbourhood(x.e) : Recent(f.surface[GetIndex(at, x.e.p)], x.e.t)
      BY <1>2, <2>3
    <3> HIDE DEF x
    <3>. QED  BY <1>2, <1>3, <1>7, <3>1, NoiseRight
  <2>6. RightAt(f.kind, M, n)
    BY <1>7, <2>5 DEF RightAt
  <2>7. Right(f.kind, M)
    BY <1>2, <2>6, RightStep
  <2>8. Knows(g, M)
    BY <1>1, <1>7, <2>4 DEF Knows
  <2>. QED  BY <1>2, <2>7, <2>8 DEF v
<1>8. CASE f.kind = "contrast"
  <2> DEFINE again == Recent(Get(f.surface, e), e.t) /\ ~f.is_cut[PixelIndex(e)]
             changed == ~again /\ Recent(GetOpposite(f.surface, e), e.t)
             valid == again \/ changed
  <2>1. v = ContrastFilter(f, e)
    BY <1>8, FilteredIs
  <2>2. /\ v.valid = valid /\ g.surface = Update(f.surface, e)
        /\ ~cut_trail /\ (\A i \in Slots : ~f.is_cut[i]) => \A i \in Slots : ~g.is_cut[i]
    BY <2>1, ContrastFilterIs
  <2>3. ~cut_trail => \A i \in Slots : ~f.is_cut[i]
    BY <1>8 DEF Knows
  <2> HIDE DEF v
  <2>4. x.valid <=> valid
    BY <1>2, <2>2
  <2>5. Remembers(g, M)
    <3>1. g.surface = IF f.kind = "trail" /\ ~x.valid THEN f.surface ELSE Update(f.surface, x.e)
      BY <1>2, <1>8, <2>2
    <3> HIDE DEF x, g
    <3>. QED  BY <1>1, <1>2, <1>3, <3>1, RemembersStep
  <2>6. InOrder(M, n) => ContrastVerdict(M, n)
    <3>1. x.valid <=> LET again2 == /\ Recent(Get(f.surface, x.e), x.e.t)
                                    /\ ~f.is_cut[PixelIndex(x.e)]
                      IN  again2 \/ (~again2 /\ Recent(GetOpposite(f.surface, x.e), x.e.t))
      BY <1>2, <2>4
    <3>2. ~cut_trail => ~f.is_cut[PixelIndex(x.e)]
      BY <1>2, <2>3, EventIs
    <3> HIDE DEF x
    <3>. QED  BY <1>2, <1>3, <1>8, <3>1, <3>2, ContrastRight
  <2>7. RightAt(f.kind, M, n)
    BY <1>8, <2>6 DEF RightAt
  <2>8. Right(f.kind, M)
    BY <1>2, <2>7, RightStep
  <2>9. Knows(g, M)
    BY <1>1, <1>8, <2>2, <2>3, <2>5 DEF Knows
  <2>. QED  BY <1>2, <2>8, <2>9 DEF v
<1>9. CASE f.kind = "flicker"
  <2> DEFINE px == PixelIndex(e)
             same_t == Get(f.surface, e)
             opp_t == GetOpposite(f.surface, e)
             frequency == FrequencyFromPeriod(e.t - same_t)
             alternating == IsAlternating(same_t, opp_t, e.t)
  <2>1. v = AntiFlickerFilter(f, e)
    BY <1>9, FilteredIs
  <2>2. /\ g.surface = Update(f.surface, e)
        /\ IF alternating
           THEN /\ v.valid = ~(f.is_blocked[px] /\ FrequencyInWindow(frequency))
                /\ Pushes(f, g, px, frequency)
           ELSE /\ v.valid = TRUE
                /\ Keeps(f, g, px, same_t > opp_t)
    <3> DEFINE w == AntiFlickerFilter(f, e)
    <3>1. /\ w.filter.surface = Update(f.surface, e)
          /\ IF alternating
             THEN /\ w.valid = ~(f.is_blocked[px] /\ FrequencyInWindow(frequency))
                  /\ Pushes(f, w.filter, px, frequency)
             ELSE /\ w.valid = TRUE
                  /\ Keeps(f, w.filter, px, same_t > opp_t)
      BY FlickerFilterIs
    <3> HIDE DEF w, v
    <3>2. v = w
      BY <2>1 DEF v, w
    <3>. QED  BY <3>1, <3>2
  <2>3. Measures(f, L)
    BY <1>9 DEF Knows
  <2> HIDE DEF v
  <2>4. ~x.valid <=> alternating /\ f.is_blocked[px] /\ FrequencyInWindow(frequency)
    BY <1>2, <2>2
  <2>5. Remembers(g, M)
    <3>1. g.surface = IF f.kind = "trail" /\ ~x.valid THEN f.surface ELSE Update(f.surface, x.e)
      BY <1>2, <1>9, <2>2
    <3> HIDE DEF x, g
    <3>. QED  BY <1>1, <1>2, <1>3, <3>1, RemembersStep
  <2>6. Increasing(M, n) => FlickerVerdict(M, n)
    <3>1. ~x.valid <=> /\ IsAlternating(Get(f.surface, x.e), GetOpposite(f.surface, x.e), x.e.t)
                       /\ f.is_blocked[PixelIndex(x.e)]
                       /\ FrequencyInWindow(FrequencyFromPeriod(x.e.t - Get(f.surface, x.e)))
      BY <1>2, <2>4
    <3> HIDE DEF x
    <3>. QED  BY <1>2, <1>3, <1>9, <2>3, <3>1, FlickerRight
  <2>7. Measures(g, M)
    <3>1. IF IsAlternating(Get(f.surface, x.e), GetOpposite(f.surface, x.e), x.e.t)
          THEN Pushes(f, g, PixelIndex(x.e), FrequencyFromPeriod(x.e.t - Get(f.surface, x.e)))
          ELSE Keeps(f, g, PixelIndex(x.e), Get(f.surface, x.e) > GetOpposite(f.surface, x.e))
      BY <1>2, <2>2
    <3> HIDE DEF x, g
    <3>. QED  BY <1>1, <1>2, <1>3, <1>9, <2>3, <3>1, MeasuresStep
  <2>8. RightAt(f.kind, M, n)
    BY <1>9, <2>6 DEF RightAt
  <2>9. Right(f.kind, M)
    BY <1>2, <2>8, RightStep
  <2>10. Knows(g, M)
    BY <1>1, <1>9, <2>5, <2>7 DEF Knows
  <2>. QED  BY <1>2, <2>9, <2>10 DEF v
<1>. QED  BY <1>4, <1>5, <1>6, <1>7, <1>8, <1>9 DEF Kinds

-----------------------------------------------------------------------------
(* The time a surface has reached, and what its values have decayed to.    *)

Notes == [slot : Slots \union {-1}, t : Nat]

LEMMA ReachedIs ==
    ASSUME NEW h \in Seq(Notes), NEW n \in 1..Len(h)
    PROVE  /\ Reached(h, n) \in Nat
           /\ \A i \in 1..n : h[i].t <= Reached(h, n)
           /\ \E i \in 1..n : Reached(h, n) = h[i].t
<1>1. Len(h) \in Nat /\ \A i \in 1..Len(h) : h[i].t \in Nat
  <2>1. Len(h) \in Nat /\ \A i \in 1..Len(h) : h[i] \in Notes
    BY LenProperties, ElementOfSeq
  <2>. QED  BY <2>1 DEF Notes
<1> DEFINE Top == {k \in 0..n : k = 0 \/ \E j \in 1..k : \A i \in 1..k : h[i].t <= h[j].t}
<1>2. n \in Top
  <2>1. 0 \in Top /\ n \in Nat /\ n \in 0..n
    OBVIOUS
  <2>2. ASSUME NEW k \in 0..n - 1, k \in Top
        PROVE  k + 1 \in Top
    <3>1. k + 1 \in 0..n /\ k + 1 \in 1..k + 1 /\ \A i \in 1..k + 1 : i = k + 1 \/ i \in 1..k
      OBVIOUS
    <3>2. \A i \in 1..k + 1 : h[i].t \in Nat
      BY <1>1
    <3>3. CASE k = 0
      <4>1. \A i \in 1..k + 1 : h[i].t <= h[k + 1].t
        BY <3>1, <3>2, <3>3
      <4>. QED  BY <3>1, <4>1
    <3>4. CASE k # 0
      <4>1. PICK j \in 1..k : \A i \in 1..k : h[i].t <= h[j].t
        BY <2>2, <3>4
      <4>2. CASE h[k + 1].t <= h[j].t
        <5>1. \A i \in 1..k + 1 : h[i].t <= h[j].t
          BY <3>1, <4>1, <4>2
        <5>2. j \in 1..k + 1
          BY <4>1
        <5>. QED  BY <3>1, <5>1, <5>2
      <4>3. CASE ~(h[k + 1].t <= h[j].t)
        <5>1. \A i \in 1..k + 1 : h[i].t <= h[k + 1].t
          BY <3>1, <3>2, <4>1, <4>3
        <5>. QED  BY <3>1, <5>1
      <4>. QED  BY <4>2, <4>3
    <3>. QED  BY <3>3, <3>4
  <2> HIDE DEF Top
  <2>. QED  BY <2>1, <2>2, UpTo
<1>3. PICK j \in 1..n : \A i \in 1..n : h[i].t <= h[j].t
  BY <1>2
<1> DEFINE S == {h[i].t : i \in 1..n}
<1>4. \E u \in S : \A v \in S : u >= v
  <2>1. h[j].t \in S /\ \A v \in S : h[j].t >= v
    BY <1>1, <1>3
  <2>. QED  BY <2>1
<1>5. Max(S) \in S /\ \A v \in S : Max(S) >= v
  <2> HIDE DEF S
  <2>. QED  BY <1>4 DEF Max
<1>6. \A i \in 1..n : h[i].t \in S /\ h[i].t \in Nat
  BY <1>1
<1>7. S \subseteq Nat /\ \A v \in S : \E i \in 1..n : v = h[i].t
  BY <1>6
<1>8. Reached(h, n) = Max(S)
  BY DEF Reached
<1> HIDE DEF S
<1>. QED  BY <1>5, <1>6, <1>7, <1>8

LEMMA ReachedStep ==
    ASSUME NEW h \in Seq(Notes), NEW x \in Notes
    PROVE  LET M == Append(h, x)
               N == Len(h)
           IN  /\ \A n \in 1..N : /\ Reached(M, n) = Reached(h, n) /\ Reached(h, n) \in Nat
                                  /\ Reached(h, n) <= Reached(h, N)
               /\ Reached(M, N + 1) = IF N = 0 THEN x.t
                                      ELSE IF x.t > Reached(h, N) THEN x.t ELSE Reached(h, N)
<1> DEFINE M == Append(h, x)
           N == Len(h)
<1>1. /\ M \in Seq(Notes) /\ N \in Nat /\ Len(M) = N + 1
      /\ \A i \in 1..N : M[i] = h[i] /\ h[i] \in Notes
      /\ M[N + 1] = x
  BY AppendIs
<1>2. /\ x.t \in Nat /\ \A i \in 1..N : h[i].t \in Nat
      /\ N + 1 \in 1..N + 1 /\ \A i \in 1..N + 1 : i = N + 1 \/ i \in 1..N
      /\ \A i \in 1..N : i \in 1..N + 1
  BY <1>1 DEF Notes
<1> HIDE DEF M
<1>3. ASSUME NEW n \in 1..N
      PROVE  /\ Reached(M, n) = Reached(h, n) /\ Reached(h, n) \in Nat
             /\ Reached(h, n) <= Reached(h, N)
  <2>1. \A i \in 1..n : i \in 1..N
    BY <1>1
  <2>2. {M[i].t : i \in 1..n} = {h[i].t : i \in 1..n}
    BY <1>1, <2>1
  <2>3. Reached(M, n) = Reached(h, n)
    BY <2>2 DEF Reached
  <2>4. Reached(h, n) \in Nat /\ \E i \in 1..n : Reached(h, n) = h[i].t
    BY ReachedIs
  <2>5. N \in 1..N
    BY <1>1
  <2>6. \A i \in 1..N : h[i].t <= Reached(h, N)
    BY <2>5, ReachedIs
  <2>. QED  BY <2>1, <2>3, <2>4, <2>6
<1>4. /\ Reached(M, N + 1) \in Nat
      /\ \A i \in 1..N + 1 : M[i].t <= Reached(M, N + 1)
      /\ \E i \in 1..N + 1 : Reached(M, N + 1) = M[i].t
  <2> DEFINE k == N + 1
  <2>1. k \in 1..Len(M)
    BY <1>1
  <2> HIDE DEF k
  <2>2. /\ Reached(M, k) \in Nat
        /\ \A i \in 1..k : M[i].t <= Reached(M, k)
        /\ \E i \in 1..k : Reached(M, k) = M[i].t
    BY <1>1, <2>1, ReachedIs
  <2>. QED  BY <2>2 DEF k
<1>5. CASE N = 0
  <2>1. Reached(M, N + 1) = x.t
    BY <1>1, <1>2, <1>4, <1>5
  <2>. QED  BY <1>3, <1>5, <2>1 DEF M
<1>6. CASE N # 0
  <2>1. N \in 1..N
    BY <1>1, <1>6
  <2>2. /\ Reached(h, N) \in Nat /\ \A i \in 1..N : h[i].t <= Reached(h, N)
        /\ \E i \in 1..N : Reached(h, N) = h[i].t
    BY <2>1, ReachedIs
  <2> DEFINE R == Reached(h, N)
             Q == Reached(M, N + 1)
  <2>3. Q >= R /\ Q >= x.t
    BY <1>1, <1>2, <1>4, <2>2
  <2>4. Q = x.t \/ Q <= R
    <3>1. PICK i \in 1..N + 1 : Q = M[i].t
      BY <1>4
    <3>2. CASE i = N + 1
      BY <1>1, <3>1, <3>2
    <3>3. CASE i \in 1..N
      BY <1>1, <2>2, <3>1, <3>3
    <3>. QED  BY <1>2, <3>2, <3>3
  <2>5. Q = IF x.t > R THEN x.t ELSE R
    BY <1>2, <1>4, <2>2, <2>3, <2>4
  <2>. QED  BY <1>3, <1>6, <2>5 DEF M
<1>. QED  BY <1>5, <1>6

LEMMA DecayIs ==
    ASSUME NEW s \in SurfaceStates, NEW ts \in Nat
    PROVE  LET d == DecayTo(s, ts)
               elapsed == SaturatingSub(ts, s.last_update_t)
           IN  /\ d \in SurfaceStates /\ d.time = s.time
               /\ d.last_update_t = IF ts > s.last_update_t THEN ts ELSE s.last_update_t
               /\ \A i \in Slots :
                     /\ d.linear[i] = IF elapsed = 0 THEN s.linear[i]
                                      ELSE LinearDecayed(s.linear[i], elapsed)
                     /\ d.exponent[i] = IF elapsed = 0 THEN s.exponent[i]
                                        ELSE ExponentDecayed(s.exponent[i], elapsed)
<1> DEFINE d == DecayTo(s, ts)
           elapsed == SaturatingSub(ts, s.last_update_t)
           linear == [i \in Slots |-> LinearDecayed(s.linear[i], elapsed)]
           exponent == [i \in Slots |-> ExponentDecayed(s.exponent[i], elapsed)]
<1>1. /\ s.time \in [Slots -> Nat] /\ s.linear \in [Slots -> 0..One]
      /\ s.exponent \in [Slots -> Nat \union {Zero}] /\ s.last_update_t \in Nat
  BY DEF SurfaceStates
<1>2. One \in Nat \ {0} /\ decay_time \in Nat /\ tau \in Nat
  BY SensorAssumption DEF One
<1>3. elapsed \in Nat /\ (elapsed = 0 <=> ~(ts > s.last_update_t))
  BY <1>1 DEF SaturatingSub
<1>4. CASE elapsed = 0
  <2>1. d = s
    BY <1>4 DEF DecayTo
  <2>. QED  BY <1>3, <1>4, <2>1
<1>5. CASE elapsed # 0
  <2>1. d = [s EXCEPT !.linear = linear, !.exponent = exponent, !.last_update_t = ts]
    BY <1>5 DEF DecayTo
  <2> HIDE DEF elapsed
  <2>2. linear \in [Slots -> 0..One]
    <3>1. ASSUME NEW value \in 0..One
          PROVE  LinearDecayed(value, elapsed) \in 0..One
      BY <1>2, <1>3 DEF LinearDecayed, SaturatingSub
    <3>2. \A i \in Slots : s.linear[i] \in 0..One
      BY <1>1
    <3>. QED  BY <3>1, <3>2
  <2>3. exponent \in [Slots -> Nat \union {Zero}]
    <3>1. ASSUME NEW value \in Nat \union {Zero}
          PROVE  ExponentDecayed(value, elapsed) \in Nat \union {Zero}
      BY <1>2, <1>3 DEF ExponentDecayed, Zero
    <3>2. \A i \in Slots : s.exponent[i] \in Nat \union {Zero}
      BY <1>1
    <3>. QED  BY <3>1, <3>2
  <2>4. /\ \A i \in Slots : linear[i] = LinearDecayed(s.linear[i], elapsed)
        /\ \A i \in Slots : exponent[i] = ExponentDecayed(s.exponent[i], elapsed)
    OBVIOUS
  <2> HIDE DEF d, linear, exponent
  <2>5. /\ d \in SurfaceStates /\ d.time = s.time /\ d.last_update_t = ts
        /\ d.linear = linear /\ d.exponent = exponent
    BY <2>1, <2>2, <2>3 DEF SurfaceStates
  <2>. QED  BY <1>3, <1>5, <2>4, <2>5 DEF d, elapsed
<1>. QED  BY <1>4, <1>5

(* A surface that was told a time more: the slot that is drawn shows it,   *)
(* the others have aged.                                                   *)
Tells(s, d, x) ==
    LET aged == DecayTo(s, x.t)
    IN  /\ d.last_update_t = aged.last_update_t
        /\ \A i \in Slots :
              IF i = x.slot
              THEN d.time[i] = x.t /\ d.linear[i] = One /\ d.exponent[i] = 0
              ELSE /\ d.time[i] = aged.time[i] /\ d.linear[i] = aged.linear[i]
                   /\ d.exponent[i] = aged.exponent[i]

LastTold(h, i) == LastOf({n \in DOMAIN h : h[n].slot = i})

LEMMA LastToldIs ==
    ASSUME NEW h \in Seq(Notes), NEW x \in Notes, NEW i
    PROVE  /\ LastTold(h, i) \in 0..Len(h)
           /\ LastTold(Append(h, x), i) = IF x.slot = i THEN Len(h) + 1 ELSE LastTold(h, i)
<1> DEFINE M == Append(h, x)
           N == Len(h)
           S == {n \in 1..N : h[n].slot = i}
           T == {n \in 1..N + 1 : M[n].slot = i}
<1>1. /\ N \in Nat /\ DOMAIN h = 1..N /\ DOMAIN M = 1..N + 1
      /\ \A n \in 1..N : M[n] = h[n]
      /\ M[N + 1] = x
  BY AppendIs
<1> HIDE DEF M, N
<1>2. LastTold(h, i) = LastOf(S) /\ LastTold(M, i) = LastOf(T)
  BY <1>1 DEF LastTold
<1>3. LastOf(S) \in 0..N
  <2>1. S \subseteq 1..N
    OBVIOUS
  <2>. QED  BY <1>1, <2>1, LastOfIs
<1>4. CASE x.slot = i
  <2> DEFINE k == N + 1
  <2>1. k \in Nat /\ T \subseteq 1..k /\ k \in T /\ \A n \in T : n <= k
    BY <1>1, <1>4
  <2> HIDE DEF T, k
  <2>2. LastOf(T) = k
    BY <2>1, LastOfUnique
  <2>. QED  BY <1>2, <1>3, <1>4, <2>2 DEF M, N, k
<1>5. CASE x.slot # i
  <2>1. ASSUME NEW n \in 1..N + 1, M[n].slot = i
        PROVE  n \in 1..N /\ h[n].slot = i
    <3>1. n # N + 1
      BY <1>1, <1>5, <2>1
    <3>2. n \in 1..N
      BY <1>1, <3>1
    <3>. QED  BY <1>1, <2>1, <3>2
  <2>2. \A n \in 1..N : n \in 1..N + 1
    BY <1>1
  <2>3. T = S
    BY <1>1, <2>1, <2>2
  <2>. QED  BY <1>2, <1>3, <1>5, <2>3 DEF M, N
<1>. QED  BY <1>4, <1>5

LEMMA SurfaceStep ==
    ASSUME NEW s \in SurfaceStates, NEW d \in SurfaceStates,
           NEW h \in Seq(Notes), NEW x \in Notes,
           SurfacesFollow(s, h), Tells(s, d, x)
    PROVE  SurfacesFollow(d, Append(h, x))
<1> DEFINE M == Append(h, x)
           N == Len(h)
           R == Reached(h, N)
           R2 == Reached(M, N + 1)
           old == s.last_update_t
           aged == DecayTo(s, x.t)
           elapsed == SaturatingSub(x.t, old)
           Shows(g, u, v, age) ==
              /\ g.time[u] = v
              /\ g.linear[u] = IF age >= One THEN 0 ELSE One - age
              /\ g.exponent[u] = IF tau = 0 /\ age > 0 THEN Zero ELSE age
<1>1. /\ M \in Seq(Notes) /\ N \in Nat /\ Len(M) = N + 1
      /\ \A i \in 1..N : M[i] = h[i]
      /\ M[N + 1] = x /\ (h = <<>> <=> N = 0) /\ M # <<>>
  <2>1. /\ M \in Seq(Notes) /\ N \in Nat /\ Len(M) = N + 1
        /\ \A i \in 1..N : M[i] = h[i]
        /\ M[N + 1] = x
    BY AppendIs
  <2>2. h = <<>> <=> N = 0
    BY EmptySeq
  <2>3. M # <<>>
    <3>1. Len(M) # 0
      BY <2>1
    <3>. QED  BY <2>1, <3>1, EmptySeq
  <2>. QED  BY <2>1, <2>2, <2>3
<1>2. x.t \in Nat /\ old \in Nat
  BY DEF Notes, SurfaceStates
<1>3. One \in Nat \ {0} /\ decay_time \in Nat /\ tau \in Nat
  BY SensorAssumption DEF One
<1>4. /\ \A n \in 1..N : /\ Reached(M, n) = Reached(h, n) /\ Reached(h, n) \in Nat
                         /\ Reached(h, n) <= R
      /\ R2 = IF N = 0 THEN x.t ELSE IF x.t > R THEN x.t ELSE R
  BY ReachedStep
<1>5. old = IF N = 0 THEN 0 ELSE R
  BY <1>1 DEF SurfacesFollow
<1>6. /\ aged.time = s.time
      /\ aged.last_update_t = IF x.t > old THEN x.t ELSE old
      /\ \A i \in Slots :
            /\ aged.linear[i] = IF elapsed = 0 THEN s.linear[i]
                                ELSE LinearDecayed(s.linear[i], elapsed)
            /\ aged.exponent[i] = IF elapsed = 0 THEN s.exponent[i]
                                  ELSE ExponentDecayed(s.exponent[i], elapsed)
  BY <1>2, DecayIs
<1>7. /\ d.last_update_t = aged.last_update_t
      /\ \A i \in Slots :
            IF i = x.slot
            THEN d.time[i] = x.t /\ d.linear[i] = One /\ d.exponent[i] = 0
            ELSE /\ d.time[i] = aged.time[i] /\ d.linear[i] = aged.linear[i]
                 /\ d.exponent[i] = aged.exponent[i]
  BY DEF Tells
<1>8. \A i : /\ LastTold(h, i) \in 0..N
             /\ LastTold(M, i) = IF x.slot = i THEN N + 1 ELSE LastTold(h, i)
  BY LastToldIs
<1>9. \A i \in Slots :
         IF LastTold(h, i) = 0 THEN s.linear[i] = 0 /\ s.exponent[i] = Zero
         ELSE Shows(s, i, h[LastTold(h, i)].t, R - Reached(h, LastTold(h, i)))
  BY DEF SurfacesFollow, ShowsAge, LastTold
<1> HIDE DEF M, N, R, R2, old, aged, elapsed
<1>10. d.last_update_t = R2 /\ R2 \in Nat
  <2>1. CASE N = 0
    BY <1>2, <1>4, <1>5, <1>6, <1>7, <2>1
  <2>2. CASE N # 0
    BY <1>2, <1>4, <1>5, <1>6, <1>7, <2>2
  <2>. QED  BY <2>1, <2>2
<1>11. elapsed \in Nat /\ (N # 0 => R \in Nat /\ R2 = R + elapsed)
  BY <1>2, <1>4, <1>5 DEF elapsed, SaturatingSub
<1>12. ASSUME NEW i \in Slots
       PROVE  IF LastTold(M, i) = 0 THEN d.linear[i] = 0 /\ d.exponent[i] = Zero
              ELSE Shows(d, i, M[LastTold(M, i)].t, R2 - Reached(M, LastTold(M, i)))
  <2>1. CASE i = x.slot
    <3>1. LastTold(M, i) = N + 1 /\ N + 1 # 0 /\ M[N + 1].t = x.t /\ Reached(M, N + 1) = R2
      BY <1>1, <1>8, <2>1 DEF R2
    <3>2. R2 - R2 = 0
      BY <1>10
    <3>3. Shows(d, i, x.t, 0)
      BY <1>3, <1>7, <2>1
    <3> HIDE DEF Shows
    <3>. QED  BY <3>1, <3>2, <3>3
  <2>2. CASE i # x.slot /\ LastTold(h, i) = 0
    <3>1. LastTold(M, i) = 0
      BY <1>8, <2>2
    <3>2. LinearDecayed(0, elapsed) = 0 /\ ExponentDecayed(Zero, elapsed) = Zero
      BY <1>11 DEF LinearDecayed, ExponentDecayed, SaturatingSub
    <3>3. s.linear[i] = 0 /\ s.exponent[i] = Zero
      BY <1>9, <2>2
    <3>4. aged.linear[i] = 0 /\ aged.exponent[i] = Zero
      BY <1>6, <3>2, <3>3
    <3>. QED  BY <1>7, <2>2, <3>1, <3>4
  <2>3. CASE i # x.slot /\ LastTold(h, i) # 0
    <3> DEFINE k == LastTold(h, i)
               age == R - Reached(h, k)
    <3>1. LastTold(M, i) = k /\ k \in 1..N /\ N # 0
      BY <1>1, <1>8, <2>3
    <3>2. M[k] = h[k] /\ Reached(M, k) = Reached(h, k) /\ Reached(h, k) \in Nat /\ age \in Nat
      BY <1>1, <1>4, <1>11, <3>1
    <3>3. R2 - Reached(M, k) = age + elapsed
      BY <1>11, <3>1, <3>2
    <3>4. Shows(s, i, h[k].t, age)
      BY <1>9, <2>3
    <3> HIDE DEF k, age
    <3>5. d.time[i] = s.time[i]
      BY <1>6, <1>7, <2>3
    <3>6. d.linear[i] = IF age + elapsed >= One THEN 0 ELSE One - (age + elapsed)
      <4>1. d.linear[i] = IF elapsed = 0 THEN s.linear[i] ELSE LinearDecayed(s.linear[i], elapsed)
        BY <1>6, <1>7, <2>3
      <4>2. s.linear[i] = IF age >= One THEN 0 ELSE One - age
        BY <3>4
      <4>. QED  BY <1>3, <1>11, <3>2, <4>1, <4>2 DEF LinearDecayed, SaturatingSub, One
    <3>7. d.exponent[i] = IF tau = 0 /\ age + elapsed > 0 THEN Zero ELSE age + elapsed
      <4>1. d.exponent[i] = IF elapsed = 0 THEN s.exponent[i]
                            ELSE ExponentDecayed(s.exponent[i], elapsed)
        BY <1>6, <1>7, <2>3
      <4>2. s.exponent[i] = IF tau = 0 /\ age > 0 THEN Zero ELSE age
        BY <3>4
      <4>. QED  BY <1>3, <1>11, <3>2, <4>1, <4>2 DEF ExponentDecayed, Zero
    <3>8. Shows(d, i, M[k].t, age + elapsed)
      BY <3>2, <3>4, <3>5, <3>6, <3>7
    <3> HIDE DEF Shows
    <3>. QED  BY <3>1, <3>3, <3>8
  <2>. QED  BY <2>1, <2>2, <2>3
<1>13. ShowsAge(d, M)
  BY <1>1, <1>12 DEF ShowsAge, LastTold, R2
<1>14. SurfacesFollow(d, M)
  BY <1>1, <1>10, <1>13 DEF SurfacesFollow, R2
<1>. QED  BY <1>14 DEF M

-----------------------------------------------------------------------------
(* Drawing and ageing. *)

NoteOf(e) == [slot |-> GetIndex(e.at, e.p), t |-> e.t]

LEMMA DrawIs ==
    ASSUME NEW s \in SurfaceStates, NEW e \in EventSpace
    PROVE  /\ Draw(s, e) \in SurfaceStates
           /\ NoteOf(e) \in Notes
           /\ Tells(s, Draw(s, e), NoteOf(e))
<1> DEFINE i == GetIndex(e.at, e.p)
           t == e.t
           d == DecayTo(s, t)
           time == [d.time EXCEPT ![i] = t]
           linear == [d.linear EXCEPT ![i] = One]
           exponent == [d.exponent EXCEPT ![i] = 0]
<1>1. i \in Slots /\ t \in Nat
  BY EventIs
<1>2. One \in Nat \ {0}
  BY SensorAssumption DEF One
<1>3. NoteOf(e) = [slot |-> i, t |-> t]
  BY DEF NoteOf
<1>4. Draw(s, e) = [d EXCEPT !.time = time, !.linear = linear, !.exponent = exponent]
  BY DEF Draw
<1> HIDE DEF i, t
<1>5. d \in SurfaceStates
  BY <1>1, DecayIs
<1> HIDE DEF d
<1>6. /\ d.time \in [Slots -> Nat] /\ d.linear \in [Slots -> 0..One]
      /\ d.exponent \in [Slots -> Nat \union {Zero}] /\ d.last_update_t \in Nat
  BY <1>5 DEF SurfaceStates
<1>7. /\ time \in [Slots -> Nat] /\ linear \in [Slots -> 0..One]
      /\ exponent \in [Slots -> Nat \union {Zero}]
  BY <1>1, <1>2, <1>6
<1>8. \A k \in Slots :
         IF k = i THEN time[k] = t /\ linear[k] = One /\ exponent[k] = 0
         ELSE time[k] = d.time[k] /\ linear[k] = d.linear[k] /\ exponent[k] = d.exponent[k]
  BY <1>6
<1> HIDE DEF time, linear, exponent
<1>9. /\ Draw(s, e) \in SurfaceStates
      /\ Draw(s, e).time = time /\ Draw(s, e).linear = linear /\ Draw(s, e).exponent = exponent
      /\ Draw(s, e).last_update_t = d.last_update_t
  BY <1>4, <1>5, <1>6, <1>7 DEF SurfaceStates
<1>10. [slot |-> i, t |-> t] \in Notes
  BY <1>1 DEF Notes
<1>11. Tells(s, Draw(s, e), [slot |-> i, t |-> t])
  BY <1>8, <1>9 DEF Tells, d
<1>. QED  BY <1>3, <1>9, <1>10, <1>11

LEMMA AgeIs ==
    ASSUME NEW s \in SurfaceStates, NEW ts \in Nat
    PROVE  /\ [slot |-> -1, t |-> ts] \in Notes
           /\ Tells(s, DecayTo(s, ts), [slot |-> -1, t |-> ts])
<1>1. \A i \in Slots : i # -1
  BY DEF Slots
<1>2. [slot |-> -1, t |-> ts] \in Notes
  BY DEF Notes
<1>. QED  BY <1>1, <1>2 DEF Tells

(* The beginnings of a sequence that is continued. *)
Continued(h, q, n) == SubSeq(h \o q, 1, Len(h) + n)

Continues(S, h, q) ==
    /\ h \o q \in Seq(S) /\ Len(q) \in Nat
    /\ Continued(h, q, 0) = h /\ Continued(h, q, Len(q)) = h \o q
    /\ \A n \in 0..Len(q) : Continued(h, q, n) \in Seq(S)
    /\ \A n \in 0..Len(q) - 1 : Continued(h, q, n + 1) = Append(Continued(h, q, n), q[n + 1])

LEMMA Prefixes ==
    ASSUME NEW S, NEW h \in Seq(S), NEW q \in Seq(S)
    PROVE  Continues(S, h, q)
<1> DEFINE H == h \o q
           k == Len(h)
<1>1. H \in Seq(S) /\ k \in Nat /\ Len(q) \in Nat /\ Len(H) = k + Len(q)
      /\ \A i \in 1..k + Len(q) : H[i] = IF i <= k THEN h[i] ELSE q[i - k]
  BY ConcatProperties, LenProperties
<1>2. \A i \in 1..k + Len(q) : H[i] \in S
  BY <1>1, ElementOfSeq
<1>3. \A i \in 1..k : h[i] \in S
  BY ElementOfSeq
<1>4. \A i \in 1..Len(q) : q[i] \in S
  BY ElementOfSeq
<1> HIDE DEF H
<1>5. ASSUME NEW n \in 0..Len(q)
      PROVE  /\ SubSeq(H, 1, k + n) \in Seq(S) /\ Len(SubSeq(H, 1, k + n)) = k + n
             /\ \A i \in 1..k + n : SubSeq(H, 1, k + n)[i] = H[i]
  <2> DEFINE m == k + n
  <2>1. m \in Nat /\ 1 \in Int /\ m \in Int /\ m - 1 + 1 = m
        /\ \A i \in 1..m : i \in 1..k + Len(q) /\ 1 + i - 1 = i
    BY <1>1
  <2>2. \A i \in 1..m : H[i] \in S
    BY <1>2, <2>1
  <2> HIDE DEF m, k
  <2>3. /\ SubSeq(H, 1, m) \in Seq(S)
        /\ Len(SubSeq(H, 1, m)) = IF 1 <= m THEN m - 1 + 1 ELSE 0
        /\ \A i \in 1..m - 1 + 1 : SubSeq(H, 1, m)[i] = H[1 + i - 1]
    BY <2>1, <2>2, SubSeqProperties
  <2>. QED  BY <2>1, <2>3 DEF m
<1>6. SubSeq(H, 1, k + 0) = h
  <2>1. 0 \in 0..Len(q) /\ k + 0 = k /\ \A i \in 1..k : i \in 1..k + Len(q) /\ i <= k
    BY <1>1
  <2>2. /\ SubSeq(H, 1, k) \in Seq(S) /\ Len(SubSeq(H, 1, k)) = k
        /\ \A i \in 1..k : SubSeq(H, 1, k)[i] = h[i]
    BY <1>1, <1>5, <2>1
  <2>. QED  BY <2>1, <2>2, SeqEqual
<1>7. SubSeq(H, 1, k + Len(q)) = H
  BY <1>1, SubSeqFull
<1>8. ASSUME NEW n \in 0..Len(q) - 1
      PROVE  SubSeq(H, 1, k + (n + 1)) = Append(SubSeq(H, 1, k + n), q[n + 1])
  <2> DEFINE a == SubSeq(H, 1, k + n)
             b == SubSeq(H, 1, k + (n + 1))
             y == q[n + 1]
  <2>1. n \in 0..Len(q) /\ n + 1 \in 0..Len(q) /\ n + 1 \in 1..Len(q)
    BY <1>1
  <2>2. a \in Seq(S) /\ Len(a) = k + n /\ \A i \in 1..k + n : a[i] = H[i]
    BY <1>5, <2>1
  <2>3. b \in Seq(S) /\ Len(b) = k + (n + 1) /\ \A i \in 1..k + (n + 1) : b[i] = H[i]
    BY <1>5, <2>1
  <2>4. y \in S
    BY <1>4, <2>1
  <2>5. H[k + (n + 1)] = y
    <3>1. k + (n + 1) \in 1..k + Len(q) /\ ~(k + (n + 1) <= k) /\ k + (n + 1) - k = n + 1
      BY <1>1, <2>1
    <3>. QED  BY <1>1, <3>1
  <2> HIDE DEF a, b, y, k
  <2>6. /\ Append(a, y) \in Seq(S) /\ Len(Append(a, y)) = Len(a) + 1
        /\ \A i \in 1..Len(a) : Append(a, y)[i] = a[i]
        /\ Append(a, y)[Len(a) + 1] = y
    BY <2>2, <2>4, AppendIs
  <2>7. Len(b) = Len(Append(a, y)) /\ Len(b) = k + n + 1
    BY <1>1, <2>1, <2>2, <2>3, <2>6
  <2>8. ASSUME NEW i \in 1..Len(b)
        PROVE  b[i] = Append(a, y)[i]
    <3>1. CASE i = k + (n + 1)
      BY <1>1, <2>1, <2>2, <2>3, <2>5, <2>6, <3>1
    <3>2. CASE i # k + (n + 1)
      <4>1. i \in 1..k + n /\ i \in 1..k + (n + 1)
        BY <1>1, <2>1, <2>7, <3>2
      <4>. QED  BY <2>2, <2>3, <2>6, <4>1
    <3>. QED  BY <3>1, <3>2
  <2>9. b = Append(a, y)
    BY <2>3, <2>6, <2>7, <2>8, SeqEqual
  <2>. QED  BY <2>9 DEF a, b, y, k
<1>9. /\ SubSeq(h \o q, 1, k + 0) = h /\ SubSeq(h \o q, 1, k + Len(q)) = h \o q
      /\ \A n \in 0..Len(q) : SubSeq(h \o q, 1, k + n) \in Seq(S)
      /\ \A n \in 0..Len(q) - 1 :
            SubSeq(h \o q, 1, k + (n + 1)) = Append(SubSeq(h \o q, 1, k + n), q[n + 1])
  BY <1>5, <1>6, <1>7, <1>8 DEF H
<1>. QED  BY <1>1, <1>9 DEF H, Continued, Continues

(* All events of an array are drawn, one after another.                    *)
Draws(after, s, events) ==
    /\ after \in [0..Len(events) -> SurfaceStates]
    /\ after[0] = s
    /\ \A n \in 0..Len(events) - 1 : after[n + 1] = Draw(after[n], events[n + 1])
    /\ DrawAll(s, events) = after[Len(events)]

LEMMA DrawAllSteps ==
    ASSUME NEW s \in SurfaceStates, NEW events \in Seq(EventSpace)
    PROVE  \E after : Draws(after, s, events)
<1> DEFINE N == Len(events)
           Solves(f) == f = [n \in 0..Len(events) |-> IF n = 0 THEN s
                                                      ELSE Draw(f[n - 1], events[n])]
           step == [p \in (0 + 1..N) \X SurfaceStates |-> Draw(p[2], events[p[1]])]
<1>1. N \in Nat /\ \A n \in 1..N : events[n] \in EventSpace
  BY LenProperties, ElementOfSeq
<1>2. \E f \in [0..N -> SurfaceStates] : Unfolds(f, 0, N, s, step)
  <2>1. 0 <= N
    BY <1>1
  <2>2. step \in [(0 + 1..N) \X SurfaceStates -> SurfaceStates]
    BY <1>1, DrawIs
  <2> HIDE DEF step, N
  <2>. QED  BY <1>1, <2>1, <2>2, Recursion
<1>3. PICK f \in [0..N -> SurfaceStates] : Unfolds(f, 0, N, s, step)
  BY <1>2
<1>4. f[0] = s
  <2>1. 0 \in 0..N
    BY <1>1
  <2> HIDE DEF step, N
  <2>. QED  BY <1>3, <2>1 DEF Unfolds
<1>5. ASSUME NEW n \in 1..N
      PROVE  f[n] = Draw(f[n - 1], events[n])
  <2>1. n \in 0..N /\ n # 0 /\ n \in 0 + 1..N /\ n - 1 \in 0..N
    BY <1>1
  <2>2. f[n] = step[<<n, f[n - 1]>>]
    <3> HIDE DEF step, N
    <3>. QED  BY <1>3, <2>1 DEF Unfolds
  <2>3. f[n - 1] \in SurfaceStates
    BY <2>1
  <2>4. <<n, f[n - 1]>> \in (0 + 1..N) \X SurfaceStates
    BY <2>1, <2>3
  <2>. QED  BY <2>2, <2>4
<1>7. Solves(f)
  <2>1. ASSUME NEW n \in 0..N
        PROVE  f[n] = IF n = 0 THEN s ELSE Draw(f[n - 1], events[n])
    <3>1. CASE n = 0
      BY <1>4, <3>1
    <3>2. CASE n # 0
      <4>1. n \in 1..N
        BY <1>1, <3>2
      <4>. QED  BY <1>5, <3>2, <4>1
    <3>. QED  BY <3>1, <3>2
  <2>. QED  BY <2>1
<1> DEFINE chosen == CHOOSE g : Solves(g)
<1>8. Solves(chosen)
  <2> HIDE DEF Solves
  <2>. QED  BY <1>7
<1>9. DrawAll(s, events) = chosen[N]
  BY DEF DrawAll
<1> HIDE DEF chosen
<1>10. chosen[0] = s
  BY <1>1, <1>8
<1>11. ASSUME NEW n \in 0..N - 1
       PROVE  chosen[n + 1] = Draw(chosen[n], events[n + 1])
  <2>1. n + 1 \in 0..N /\ n + 1 # 0 /\ n + 1 - 1 = n
    BY <1>1
  <2>. QED  BY <1>8, <2>1
<1>12. \A n \in 0..N : chosen[n] \in SurfaceStates
  <2> DEFINE Good == {n \in 0..N : chosen[n] \in SurfaceStates}
  <2>1. 0 \in Good
    BY <1>1, <1>10
  <2>2. ASSUME NEW n \in 0..N - 1, n \in Good
        PROVE  n + 1 \in Good
    <3>1. n + 1 \in 1..N /\ n + 1 \in 0..N
      BY <1>1
    <3>2. chosen[n] \in SurfaceStates /\ events[n + 1] \in EventSpace
      BY <1>1, <2>2, <3>1
    <3>3. chosen[n + 1] \in SurfaceStates
      BY <1>11, <3>2, DrawIs
    <3>. QED  BY <3>1, <3>3
  <2>3. \A n \in 0..N : n \in Good
    <3> HIDE DEF Good, N
    <3>. QED  BY <1>1, <2>1, <2>2, UpTo
  <2>. QED  BY <2>3
<1>13. chosen = [n \in 0..N |-> chosen[n]]
  BY <1>8
<1>14. chosen \in [0..N -> SurfaceStates]
  BY <1>12, <1>13
<1>15. Draws(chosen, s, events)
  BY <1>9, <1>10, <1>11, <1>14 DEF Draws
<1>. QED  BY <1>15

LEMMA ToldIs ==
    ASSUME NEW events \in Seq(EventSpace)
    PROVE  /\ Told(events) \in Seq(Notes) /\ Len(Told(events)) = Len(events)
           /\ \A n \in 1..Len(events) : Told(events)[n] = NoteOf(events[n])
<1>1. /\ Len(events) \in Nat /\ DOMAIN events = 1..Len(events)
      /\ \A n \in 1..Len(events) : events[n] \in EventSpace
  BY LenProperties, ElementOfSeq
<1>2. Told(events) = [n \in 1..Len(events) |-> NoteOf(events[n])]
  BY <1>1 DEF Told, NoteOf
<1>3. \A n \in 1..Len(events) : NoteOf(events[n]) \in Notes
  <2>1. \E s : s \in SurfaceStates
    <3>1. One \in Nat \ {0}
      BY SensorAssumption DEF One
    <3>2. [time |-> [i \in Slots |-> 0], linear |-> [i \in Slots |-> 0],
           exponent |-> [i \in Slots |-> Zero], last_update_t |-> 0] \in SurfaceStates
      BY <3>1 DEF SurfaceStates
    <3>. QED  BY <3>2
  <2>. QED  BY <1>1, <2>1, DrawIs
<1>4. Told(events) \in [1..Len(events) -> Notes]
  BY <1>2, <1>3
<1>. QED  BY <1>1, <1>2, <1>4

LEMMA DrawAllIs ==
    ASSUME NEW s \in SurfaceStates, NEW events \in Seq(EventSpace), NEW h \in Seq(Notes),
           SurfacesFollow(s, h)
    PROVE  /\ DrawAll(s, events) \in SurfaceStates
           /\ h \o Told(events) \in Seq(Notes)
           /\ SurfacesFollow(DrawAll(s, events), h \o Told(events))
<1> DEFINE q == Told(events)
           N == Len(events)
<1>1. PICK after : Draws(after, s, events)
  BY DrawAllSteps
<1>2. q \in Seq(Notes) /\ Len(q) = N /\ \A n \in 1..N : q[n] = NoteOf(events[n])
  BY ToldIs
<1>3. N \in Nat /\ \A n \in 1..N : events[n] \in EventSpace
  BY LenProperties, ElementOfSeq
<1> HIDE DEF q, N
<1>4. /\ h \o q \in Seq(Notes)
      /\ Continued(h, q, 0) = h /\ Continued(h, q, N) = h \o q
      /\ \A n \in 0..N : Continued(h, q, n) \in Seq(Notes)
      /\ \A n \in 0..N - 1 : Continued(h, q, n + 1) = Append(Continued(h, q, n), q[n + 1])
  <2>1. q \in Seq(Notes)
    BY <1>2
  <2>2. Continues(Notes, h, q)
    BY <2>1, Prefixes
  <2>. QED  BY <1>2, <2>2 DEF Continues
<1>5. /\ \A n \in 0..N : after[n] \in SurfaceStates
      /\ after[0] = s /\ DrawAll(s, events) = after[N]
      /\ \A n \in 0..N - 1 : after[n + 1] = Draw(after[n], events[n + 1])
  BY <1>1 DEF Draws, N
<1> DEFINE Good == {n \in 0..N : SurfacesFollow(after[n], Continued(h, q, n))}
<1>6. 0 \in Good
  BY <1>3, <1>4, <1>5
<1>7. ASSUME NEW n \in 0..N - 1, n \in Good
      PROVE  n + 1 \in Good
  <2>1. n \in 0..N /\ n + 1 \in 0..N /\ n + 1 \in 1..N
    BY <1>3
  <2> DEFINE a == after[n]
             b == after[n + 1]
             e == events[n + 1]
             g == Continued(h, q, n)
  <2>2. a \in SurfaceStates /\ b = Draw(a, e) /\ e \in EventSpace /\ g \in Seq(Notes)
    BY <1>3, <1>4, <1>5, <2>1
  <2>3. SurfacesFollow(a, g)
    BY <1>7
  <2>4. Continued(h, q, n + 1) = Append(g, NoteOf(e))
    BY <1>2, <1>4, <2>1
  <2> HIDE DEF a, b, e, g
  <2>5. b \in SurfaceStates /\ NoteOf(e) \in Notes /\ Tells(a, b, NoteOf(e))
    BY <2>2, DrawIs
  <2>6. SurfacesFollow(b, Append(g, NoteOf(e)))
    BY <2>2, <2>3, <2>5, SurfaceStep
  <2>. QED  BY <2>1, <2>4, <2>6 DEF b
<1>8. \A n \in 0..N : n \in Good
  <2> HIDE DEF Good
  <2>. QED  BY <1>3, <1>6, <1>7, UpTo
<1>9. SurfacesFollow(after[N], Continued(h, q, N)) /\ after[N] \in SurfaceStates
  BY <1>3, <1>5, <1>8
<1>. QED  BY <1>4, <1>5, <1>9 DEF q

LEMMA NewSurfacesAre == NewSurfaces \in SurfaceStates /\ SurfacesFollow(NewSurfaces, <<>>)
<1>1. One \in Nat \ {0}
  BY SensorAssumption DEF One
<1>2. NewSurfaces \in SurfaceStates
  BY <1>1 DEF NewSurfaces, NewSurface, SurfaceStates
<1>3. ASSUME NEW i \in Slots
      PROVE  /\ LastOf({n \in DOMAIN <<>> : <<>>[n].slot = i}) = 0
             /\ NewSurfaces.linear[i] = 0 /\ NewSurfaces.exponent[i] = Zero
  <2>1. DOMAIN <<>> = {}
    OBVIOUS
  <2>2. {n \in DOMAIN <<>> : <<>>[n].slot = i} = {}
    BY <2>1
  <2>. QED  BY <2>2 DEF LastOf, NewSurfaces
<1>4. ShowsAge(NewSurfaces, <<>>)
  BY <1>3 DEF ShowsAge
<1>5. NewSurfaces.last_update_t = 0
  BY DEF NewSurfaces
<1>. QED  BY <1>2, <1>4, <1>5 DEF SurfacesFollow

-----------------------------------------------------------------------------
(* An array through a filter. *)

Runs == [filter : FilterStates, log : Seq(Entries), output : Seq(EventSpace)]
Run(acc, e) ==
    LET v == Filtered(acc.filter, e)
    IN  [filter |-> v.filter,
         log |-> Append(acc.log, Entry(e, v.valid)),
         output |-> IF v.valid THEN Append(acc.output, e) ELSE acc.output]
RunKnows(acc) == Knows(acc.filter, acc.log) /\ Right(acc.filter.kind, acc.log)

LEMMA RunIs ==
    ASSUME NEW acc \in Runs, NEW e \in EventSpace
    PROVE  /\ Run(acc, e) \in Runs
           /\ Run(acc, e).filter.kind = acc.filter.kind
           /\ RunKnows(acc) => RunKnows(Run(acc, e))
<1> DEFINE f == acc.filter
           L == acc.log
           v == Filtered(f, e)
           b == v.valid
           g == v.filter
           x == Entry(e, b)
           M == Append(L, x)
           out == IF b THEN Append(acc.output, e) ELSE acc.output
<1>1. f \in FilterStates /\ L \in Seq(Entries) /\ acc.output \in Seq(EventSpace)
  BY DEF Runs
<1>2. g \in FilterStates /\ g.kind = f.kind /\ b \in BOOLEAN
  BY <1>1, FilteredIs
<1>3. Run(acc, e) = [filter |-> g, log |-> M, output |-> out]
  BY DEF Run
<1>4. Knows(f, L) /\ Right(f.kind, L) => Knows(g, M) /\ Right(f.kind, M)
  <2> HIDE DEF f, L
  <2>. QED  BY <1>1, KnowsStep
<1> HIDE DEF f, L, v, b, g
<1>5. x \in Entries
  BY <1>2, EntryType
<1>6. M \in Seq(Entries)
  <2> HIDE DEF x
  <2>. QED  BY <1>1, <1>5, AppendIs
<1>7. Append(acc.output, e) \in Seq(EventSpace)
  <2> DEFINE o == acc.output
  <2> HIDE DEF o
  <2>1. o \in Seq(EventSpace)
    BY <1>1 DEF o
  <2>2. Append(o, e) \in Seq(EventSpace)
    BY <2>1, AppendIs
  <2>. QED  BY <2>2 DEF o
<1>8. out \in Seq(EventSpace)
  BY <1>1, <1>7
<1> HIDE DEF M, out
<1>9. Run(acc, e) \in Runs
  BY <1>2, <1>3, <1>6, <1>8 DEF Runs
<1>10. Run(acc, e).filter = g /\ Run(acc, e).log = M
  BY <1>3
<1>11. RunKnows(acc) <=> Knows(f, L) /\ Right(f.kind, L)
  BY DEF RunKnows, f, L
<1>12. RunKnows(Run(acc, e)) <=> Knows(g, M) /\ Right(g.kind, M)
  BY <1>10 DEF RunKnows
<1>13. RunKnows(acc) => RunKnows(Run(acc, e))
  BY <1>2, <1>4, <1>11, <1>12
<1>14. Run(acc, e).filter.kind = f.kind
  BY <1>2, <1>10
<1>. QED  BY <1>9, <1>13, <1>14 DEF f

RunsThrough(after, f, entries, events) ==
    /\ after \in [0..Len(events) -> Runs]
    /\ after[0] = [filter |-> f, log |-> entries, output |-> <<>>]
    /\ \A n \in 0..Len(events) - 1 : after[n + 1] = Run(after[n], events[n + 1])
    /\ RunFilter(f, entries, events) = after[Len(events)]

LEMMA RunFilterSteps ==
    ASSUME NEW f \in FilterStates, NEW entries \in Seq(Entries), NEW events \in Seq(EventSpace)
    PROVE  \E after : RunsThrough(after, f, entries, events)
<1> DEFINE N == Len(events)
           base == [filter |-> f, log |-> entries, output |-> <<>>]
           Solves(r) == r = [n \in 0..Len(events) |->
              IF n = 0 THEN [filter |-> f, log |-> entries, output |-> <<>>]
              ELSE LET acc == r[n - 1]
                       v == Filtered(acc.filter, events[n])
                   IN  [filter |-> v.filter,
                        log |-> Append(acc.log, Entry(events[n], v.valid)),
                        output |-> IF v.valid THEN Append(acc.output, events[n])
                                   ELSE acc.output]]
           step == [p \in (0 + 1..N) \X Runs |-> Run(p[2], events[p[1]])]
<1>1. N \in Nat /\ \A n \in 1..N : events[n] \in EventSpace
  BY LenProperties, ElementOfSeq
<1>17. \A p \in (0 + 1..N) \X Runs : step[p] = Run(p[2], events[p[1]])
  BY Zenon
<1>2. base \in Runs
  <2>1. <<>> \in Seq(EventSpace)
    BY EmptySeq
  <2>. QED  BY <2>1 DEF Runs
<1>3. \E r \in [0..N -> Runs] : Unfolds(r, 0, N, base, step)
  <2>1. 0 <= N
    BY <1>1
  <2>2. step \in [(0 + 1..N) \X Runs -> Runs]
    BY <1>1, RunIs
  <2> HIDE DEF step, N, base
  <2>. QED  BY <1>1, <1>2, <2>1, <2>2, Recursion
<1>4. PICK r \in [0..N -> Runs] : Unfolds(r, 0, N, base, step)
  BY <1>3
<1>5. r[0] = base
  <2>1. 0 \in 0..N
    BY <1>1
  <2> HIDE DEF step, N, base
  <2>. QED  BY <1>4, <2>1 DEF Unfolds
<1>6. ASSUME NEW n \in 1..N
      PROVE  r[n] = Run(r[n - 1], events[n])
  <2>1. n \in 0..N /\ n # 0 /\ n \in 0 + 1..N /\ n - 1 \in 0..N
    BY <1>1
  <2>2. r[n] = step[<<n, r[n - 1]>>]
    <3> HIDE DEF step, N, base
    <3>. QED  BY <1>4, <2>1 DEF Unfolds
  <2>3. r[n - 1] \in Runs
    <3> HIDE DEF step, base, N
    <3>. QED  BY <2>1
  <2>4. <<n, r[n - 1]>> \in (0 + 1..N) \X Runs
    BY <2>1, <2>3
  <2> DEFINE p == <<n, r[n - 1]>>
  <2>5. p[1] = n /\ p[2] = r[n - 1]
    OBVIOUS
  <2>6. step[p] = Run(p[2], events[p[1]])
    <3> HIDE DEF step, base, N
    <3>1. p \in (0 + 1..N) \X Runs
      BY <2>4, Zenon
    <3> HIDE DEF p
    <3>. QED  BY <1>17, <3>1
  <2> HIDE DEF step
  <2>. QED  BY <2>2, <2>5, <2>6
<1>7. Solves(r)
  <2>1. r = [n \in 0..N |-> IF n = 0 THEN base ELSE Run(r[n - 1], events[n])]
    <3>1. ASSUME NEW n \in 0..N
          PROVE  r[n] = IF n = 0 THEN base ELSE Run(r[n - 1], events[n])
      <4>1. CASE n = 0
        BY <1>5, <4>1
      <4>2. CASE n # 0
        <5>1. n \in 1..N
          BY <1>1, <4>2
        <5> HIDE DEF base
        <5>. QED  BY <1>6, <4>2, <5>1
      <4>. QED  BY <4>1, <4>2
    <3> HIDE DEF base, N
    <3>. QED  BY <3>1
  <2>. QED  BY <2>1 DEF Run
<1> DEFINE chosen == CHOOSE g : Solves(g)
<1>8. Solves(chosen)
  <2> HIDE DEF Solves
  <2>. QED  BY <1>7
<1>9. RunFilter(f, entries, events) = chosen[N]
  <2> HIDE DEF step, base
  <2>. QED  BY Zenon DEF RunFilter
<1>10. chosen = [n \in 0..N |-> IF n = 0 THEN base ELSE Run(chosen[n - 1], events[n])]
  <2> HIDE DEF chosen
  <2>. QED  BY <1>8 DEF Run
<1> HIDE DEF chosen, Solves, base, step
<1>11. chosen[0] = base
  BY <1>1, <1>10
<1>12. ASSUME NEW n \in 0..N - 1
       PROVE  chosen[n + 1] = Run(chosen[n], events[n + 1])
  <2>1. n + 1 \in 0..N /\ n + 1 # 0 /\ n + 1 - 1 = n
    BY <1>1
  <2>. QED  BY <1>10, <2>1
<1>13. \A n \in 0..N : chosen[n] \in Runs
  <2> DEFINE Good == {n \in 0..N : chosen[n] \in Runs}
  <2>1. 0 \in Good
    BY <1>1, <1>2, <1>11
  <2>2. ASSUME NEW n \in 0..N - 1, n \in Good
        PROVE  n + 1 \in Good
    <3>1. n + 1 \in 1..N /\ n + 1 \in 0..N
      BY <1>1
    <3>2. chosen[n] \in Runs /\ events[n + 1] \in EventSpace
      BY <1>1, <2>2, <3>1
    <3>3. chosen[n + 1] \in Runs
      BY <1>12, <3>2, RunIs
    <3>. QED  BY <3>1, <3>3
  <2>3. \A n \in 0..N : n \in Good
    <3> HIDE DEF Good, N
    <3>. QED  BY <1>1, <2>1, <2>2, UpTo
  <2>. QED  BY <2>3
<1>14. chosen = [n \in 0..N |-> chosen[n]]
  BY <1>10
<1>15. chosen \in [0..N -> Runs]
  BY <1>13, <1>14
<1>16. RunsThrough(chosen, f, entries, events)
  BY <1>9, <1>11, <1>12, <1>15 DEF RunsThrough, base
<1>. QED  BY <1>16

LEMMA RunFilterIs ==
    ASSUME NEW f \in FilterStates, NEW entries \in Seq(Entries), NEW events \in Seq(EventSpace),
           Knows(f, entries), Right(f.kind, entries)
    PROVE  LET done == RunFilter(f, entries, events)
           IN  /\ done \in Runs /\ done.filter.kind = f.kind
               /\ Knows(done.filter, done.log) /\ Right(f.kind, done.log)
<1> DEFINE N == Len(events)
           done == RunFilter(f, entries, events)
           base == [filter |-> f, log |-> entries, output |-> <<>>]
<1>1. PICK after : RunsThrough(after, f, entries, events)
  BY RunFilterSteps
<1>2. N \in Nat /\ \A n \in 1..N : events[n] \in EventSpace
  BY LenProperties, ElementOfSeq
<1>3. /\ \A n \in 0..N : after[n] \in Runs
      /\ after[0] = base /\ done = after[N]
      /\ \A n \in 0..N - 1 : after[n + 1] = Run(after[n], events[n + 1])
  BY <1>1 DEF RunsThrough
<1>4. base.filter = f /\ base.log = entries
  OBVIOUS
<1> HIDE DEF base, done, N
<1> DEFINE Good == {n \in 0..N : after[n].filter.kind = f.kind /\ RunKnows(after[n])}
<1>5. 0 \in Good
  BY <1>2, <1>3, <1>4 DEF RunKnows
<1>6. ASSUME NEW n \in 0..N - 1, n \in Good
      PROVE  n + 1 \in Good
  <2> DEFINE a == after[n]
             b == after[n + 1]
             e == events[n + 1]
  <2>1. n \in 0..N /\ n + 1 \in 0..N /\ n + 1 \in 1..N
    BY <1>2
  <2>2. a \in Runs /\ b = Run(a, e) /\ e \in EventSpace /\ a.filter.kind = f.kind /\ RunKnows(a)
    BY <1>2, <1>3, <1>6, <2>1
  <2> HIDE DEF a, b, e
  <2>3. b.filter.kind = f.kind /\ RunKnows(b)
    BY <2>2, RunIs
  <2>. QED  BY <2>1, <2>3 DEF b
<1>7. \A n \in 0..N : n \in Good
  <2> HIDE DEF Good
  <2>. QED  BY <1>2, <1>5, <1>6, UpTo
<1>8. done \in Runs /\ done.filter.kind = f.kind /\ RunKnows(done)
  BY <1>2, <1>3, <1>7
<1>9. Knows(done.filter, done.log) /\ Right(f.kind, done.log)
  BY <1>8 DEF RunKnows
<1>. QED  BY <1>8, <1>9 DEF done

-----------------------------------------------------------------------------
(* A new filter knows what there is to know of no events.                  *)

LEMMA NewFilterIs ==
    ASSUME NEW kind \in Kinds
    PROVE  /\ NewFilter(kind) \in FilterStates /\ NewFilter(kind).kind = kind
           /\ Knows(NewFilter(kind), <<>>) /\ Right(kind, <<>>)
<1> DEFINE f == NewFilter(kind)
           L == <<>>
<1>1. min_measurements \in Nat \ {0} /\ MICROSECONDS_PER_SECOND \in Nat
  BY SensorAssumption
<1>2. f \in FilterStates /\ f.kind = kind
  <2>1. /\ 0 \in 0..min_measurements /\ 0 \in 0..min_measurements - 1
        /\ 0 \in 0..MICROSECONDS_PER_SECOND
    BY <1>1
  <2>. QED  BY <2>1 DEF NewFilter, NewSurface, FilterStates
<1>3. \A i \in Slots : /\ f.surface[i] = 0 /\ f.is_cut[i] = FALSE /\ f.sample_count[i] = 0
                       /\ f.is_blocked[i] = FALSE
  BY DEF NewFilter, NewSurface
<1>4. DOMAIN L = {} /\ Len(L) = 0
  OBVIOUS
<1> HIDE DEF f, L
<1>5. Remembers(f, L)
  <2>1. ASSUME NEW at \in Pixels, NEW p \in BOOLEAN
        PROVE  f.surface[GetIndex(at, p)] = LatestTime(L, AtSlot(f.kind, L, at, p))
    <3>1. AtSlot(f.kind, L, at, p) = {}
      BY <1>4 DEF AtSlot
    <3>2. GetIndex(at, p) \in Slots
      BY SlotsAre
    <3>. QED  BY <1>3, <3>1, <3>2 DEF LatestTime
  <2>. QED  BY <2>1 DEF Remembers
<1>6. \A i \in Slots : f.is_blocked[i] = MedianInWindow(f, i)
  <2>1. ASSUME NEW i \in Slots
        PROVE  f.is_blocked[i] = MedianInWindow(f, i)
    <3>1. f.sample_count[i] # min_measurements
      BY <1>1, <1>3
    <3>2. MedianInWindow(f, i) = FALSE
      BY <3>1 DEF MedianInWindow
    <3>3. f.is_blocked[i] = FALSE
      BY <1>3
    <3>. QED  BY <3>2, <3>3, Zenon
  <2>. QED  BY <2>1
<1>7. ASSUME NEW at \in Pixels
      PROVE  InRing(f, L, at)
  <2> DEFINE px == GetIndex(at, FALSE)
  <2>1. px \in Slots
    BY SlotsAre
  <2>2. Newest(L, at) = 0
    <3>1. {i \in DOMAIN L : L[i].e.at = at} = {}
      BY <1>4
    <3>. QED  BY <3>1 DEF Newest, LastOf
  <2> HIDE DEF px
  <2>3. f.sample_count[px] = 0
    BY <1>3, <2>1
  <2> DEFINE r == [j \in 1..0 |-> 0]
  <2>4. r \in [1..0 -> DOMAIN L]
    OBVIOUS
  <2>5. Holds(f, L, px, 0, r)
    <3>1. 0 + 1 = 1 /\ \A j \in 1..0 : FALSE
      OBVIOUS
    <3> HIDE DEF r
    <3>. QED  BY <2>3, <2>4, <3>1 DEF Holds
  <2>. QED  BY <2>2, <2>5, InRingIs DEF px
<1>8. Measures(f, L)
  BY <1>6, <1>7 DEF Measures
<1>9. \A i \in Slots : ~f.is_cut[i]
  BY <1>3
<1>10. Knows(f, L)
  BY <1>5, <1>8, <1>9 DEF Knows
<1>11. Right(kind, L)
  BY <1>4 DEF Right
<1>. QED  BY <1>2, <1>10, <1>11 DEF f, L

-----------------------------------------------------------------------------
(* The steps of the chain. *)

FiltersKnow == \A k \in Stages : Knows(filter[k], log[k]) /\ Right(filter[k].kind, log[k])

LEMMA StagesAre ==
    ASSUME setup \in Setups
    PROVE  /\ Len(setup.chain) \in Nat /\ Stages = 1..Len(setup.chain)
           /\ \A k \in Stages : setup.chain[k] \in Kinds
           /\ setup.pixels \subseteq Pixels /\ setup.length \in Nat /\ setup.steps \subseteq Int
           /\ setup.decays \in Nat
<1>1. /\ setup.chain \in Seq(Kinds)
      /\ setup.pixels \subseteq Pixels /\ setup.length \in Nat /\ setup.steps \subseteq Int
      /\ setup.decays \in Nat
  BY SetupsAssumption
<1> DEFINE c == setup.chain
<1>2. c \in Seq(Kinds)
  BY <1>1
<1> HIDE DEF c
<1>3. Len(c) \in Nat /\ DOMAIN c = 1..Len(c) /\ \A k \in 1..Len(c) : c[k] \in Kinds
  BY <1>2, LenProperties, ElementOfSeq
<1>4. Len(setup.chain) \in Nat /\ Stages = 1..Len(setup.chain) /\ \A k \in Stages : setup.chain[k] \in Kinds
  BY <1>3 DEF c, Stages
<1>. QED  BY <1>1, <1>4

LEMMA EventsAre ==
    ASSUME setup \in Setups, NEW e \in Events
    PROVE  e \in EventSpace
<1>1. setup.pixels \subseteq Pixels
  BY StagesAre
<1>2. FirstTimes \subseteq Nat
  BY SensorAssumption
<1> DEFINE T == IF fed = 0 THEN FirstTimes ELSE {clock + s : s \in setup.steps} \intersect Nat
<1>3. T \subseteq Nat
  BY <1>2
<1>4. e \in [at : setup.pixels, p : BOOLEAN, t : T]
  BY DEF Events
<1> HIDE DEF T
<1>. QED  BY <1>1, <1>3, <1>4 DEF EventSpace

LEMMA OutputIs ==
    ASSUME surface \in SurfaceStates, drawn \in Seq(EventSpace), heard \in Seq(Notes),
           SurfacesFollow(surface, heard),
           NEW events \in Seq(EventSpace), Output(events)
    PROVE  /\ surface' \in SurfaceStates /\ drawn' \in Seq(EventSpace) /\ heard' \in Seq(Notes)
           /\ SurfacesFollow(surface', heard')
<1>1. /\ DrawAll(surface, events) \in SurfaceStates
      /\ heard \o Told(events) \in Seq(Notes)
      /\ SurfacesFollow(DrawAll(surface, events), heard \o Told(events))
  BY DrawAllIs
<1>2. drawn \o events \in Seq(EventSpace)
  BY ConcatProperties
<1>3. /\ surface' = DrawAll(surface, events) /\ drawn' = drawn \o events
      /\ heard' = heard \o Told(events)
  BY DEF Output
<1>. QED  BY <1>1, <1>2, <1>3

LEMMA PullKeeps ==
    ASSUME IndInv, NEW e \in Events, Pull(e)
    PROVE  IndInv'
<1>1. TypeOK /\ FiltersKnow /\ SurfacesFollow(surface, heard)
  BY DEF IndInv, FiltersKnow
<1>2. e \in EventSpace
  BY <1>1, EventsAre DEF TypeOK
<1>3. setup' = setup /\ Stages' = Stages /\ queue' = queue /\ decays' = decays
      /\ clock' = e.t /\ fed' = fed + 1 /\ fed < setup.length
  BY DEF Pull, Feed, Stages
<1> DEFINE b(k) == Filtered(filter[k], e).valid
           g(k) == Filtered(filter[k], e).filter
           M(k) == Append(log[k], Entry(e, b(k)))
           out == IF \A k \in Stages : b(k) THEN <<e>> ELSE <<>>
<1>4. /\ filter' = [k \in Stages |-> IF \A j \in 1..k - 1 : b(j) THEN g(k) ELSE filter[k]]
      /\ log' = [k \in Stages |-> IF \A j \in 1..k - 1 : b(j) THEN M(k) ELSE log[k]]
      /\ Output(out)
  BY DEF Pull
<1>5. \A k \in Stages : \/ filter'[k] = g(k) /\ log'[k] = M(k)
                        \/ filter'[k] = filter[k] /\ log'[k] = log[k]
  <2> HIDE DEF b, g, M, out
  <2>. QED  BY <1>4
<1>6. ASSUME NEW k \in Stages
      PROVE  /\ g(k) \in FilterStates /\ g(k).kind = filter[k].kind
             /\ M(k) \in Seq(Entries) /\ Knows(g(k), M(k)) /\ Right(filter[k].kind, M(k))
  <2> DEFINE f == filter[k]
             L == log[k]
             v == Filtered(f, e)
             x == Entry(e, v.valid)
  <2>1. f \in FilterStates /\ L \in Seq(Entries) /\ Knows(f, L) /\ Right(f.kind, L)
    BY <1>1 DEF TypeOK, FiltersKnow
  <2> HIDE DEF f, L
  <2>2. v.filter \in FilterStates /\ v.filter.kind = f.kind
    BY <1>2, <2>1, FilteredIs
  <2>3. x \in Entries /\ Knows(v.filter, Append(L, x)) /\ Right(f.kind, Append(L, x))
    BY <1>2, <2>1, KnowsStep
  <2> HIDE DEF x
  <2>4. Append(L, x) \in Seq(Entries)
    BY <2>1, <2>3, AppendIs
  <2>. QED  BY <2>2, <2>3, <2>4 DEF f, L, x
<1> HIDE DEF b, g, M
<1>7. filter' \in [Stages -> FilterStates]
  <2>1. \A k \in Stages : filter[k] \in FilterStates
    BY <1>1 DEF TypeOK
  <2>. QED  BY <1>4, <1>6, <2>1
<1>8. log' \in [Stages -> Seq(Entries)]
  <2>1. \A k \in Stages : log[k] \in Seq(Entries)
    BY <1>1 DEF TypeOK
  <2>. QED  BY <1>4, <1>6, <2>1
<1>9. ASSUME NEW k \in Stages
      PROVE  /\ filter'[k].kind = setup.chain[k]
             /\ Knows(filter'[k], log'[k]) /\ Right(filter'[k].kind, log'[k])
  <2>1. /\ filter[k].kind = setup.chain[k]
        /\ Knows(filter[k], log[k]) /\ Right(filter[k].kind, log[k])
    BY <1>1 DEF TypeOK, FiltersKnow
  <2>2. CASE filter'[k] = g(k) /\ log'[k] = M(k)
    BY <1>6, <2>1, <2>2
  <2>3. CASE filter'[k] = filter[k] /\ log'[k] = log[k]
    BY <2>1, <2>3
  <2>. QED  BY <1>5, <2>2, <2>3
<1>10. out \in Seq(EventSpace)
  BY <1>2
<1> HIDE DEF out
<1>11. /\ surface' \in SurfaceStates /\ drawn' \in Seq(EventSpace) /\ heard' \in Seq(Notes)
       /\ SurfacesFollow(surface', heard')
  BY <1>1, <1>4, <1>10, OutputIs DEF TypeOK, Notes
<1>12. clock' \in Nat /\ fed' \in 0..setup.length /\ setup.length \in Nat
  BY <1>1, <1>2, <1>3, EventIs, StagesAre DEF TypeOK
<1>13. TypeOK'
  BY <1>1, <1>3, <1>7, <1>8, <1>9, <1>11, <1>12 DEF TypeOK, Notes
<1>. QED  BY <1>3, <1>9, <1>11, <1>13 DEF IndInv

LEMMA ArriveKeeps ==
    ASSUME IndInv, NEW e \in Events, Arrive(e)
    PROVE  IndInv'
<1>1. TypeOK
  BY DEF IndInv
<1>2. e \in EventSpace /\ e.t \in Nat
  BY <1>1, EventsAre, EventIs DEF TypeOK
<1>3. /\ setup' = setup /\ Stages' = Stages /\ decays' = decays
      /\ clock' = e.t /\ fed' = fed + 1 /\ fed < setup.length
      /\ Stages # {} /\ queue' = [queue EXCEPT ![1] = Append(@, e)]
      /\ filter' = filter /\ surface' = surface /\ log' = log /\ drawn' = drawn /\ heard' = heard
  BY DEF Arrive, Feed, Stages
<1>4. Stages = 1..Len(setup.chain) /\ Len(setup.chain) \in Nat /\ setup.length \in Nat
  BY <1>1, StagesAre DEF TypeOK
<1>5. 1 \in Stages
  BY <1>3, <1>4
<1>6. queue \in [Stages -> Seq(EventSpace)]
  BY <1>1 DEF TypeOK
<1>7. queue' \in [Stages -> Seq(EventSpace)]
  <2> DEFINE q == queue[1]
  <2>1. q \in Seq(EventSpace)
    BY <1>5, <1>6
  <2> HIDE DEF q
  <2>2. Append(q, e) \in Seq(EventSpace)
    BY <1>2, <2>1, AppendIs
  <2>. QED  BY <1>3, <1>5, <1>6, <2>2 DEF q
<1>8. clock' \in Nat /\ fed' \in 0..setup.length
  BY <1>1, <1>2, <1>3, <1>4 DEF TypeOK
<1>9. TypeOK'
  BY <1>1, <1>3, <1>7, <1>8 DEF TypeOK
<1>. QED  BY <1>3, <1>9 DEF IndInv

LEMMA ProcessFilterKeeps ==
    ASSUME IndInv, NEW k \in Stages, ProcessFilter(k)
    PROVE  IndInv'
<1>1. TypeOK /\ FiltersKnow /\ SurfacesFollow(surface, heard)
  BY DEF IndInv, FiltersKnow
<1> DEFINE f == filter[k]
           L == log[k]
           q == queue[k]
           done == RunFilter(f, L, q)
           out == done.output
<1>2. /\ f \in FilterStates /\ L \in Seq(Entries) /\ q \in Seq(EventSpace)
      /\ Knows(f, L) /\ Right(f.kind, L)
  BY <1>1 DEF TypeOK, FiltersKnow
<1>3. /\ setup' = setup /\ Stages' = Stages /\ clock' = clock /\ fed' = fed /\ decays' = decays
      /\ filter' = [filter EXCEPT ![k] = done.filter]
      /\ log' = [log EXCEPT ![k] = done.log]
  BY DEF ProcessFilter, StateOf, Stages
<1>4. \/ /\ k + 1 \in Stages
         /\ queue' = [queue EXCEPT ![k] = <<>>, ![k + 1] = @ \o out]
         /\ surface' = surface /\ drawn' = drawn /\ heard' = heard
      \/ queue' = [queue EXCEPT ![k] = <<>>] /\ Output(out)
  BY DEF ProcessFilter, StateOf
<1> HIDE DEF f, L, q
<1>5. /\ done \in Runs /\ done.filter.kind = f.kind
      /\ Knows(done.filter, done.log) /\ Right(f.kind, done.log)
  BY <1>2, RunFilterIs
<1> HIDE DEF done
<1>6. /\ done.filter \in FilterStates /\ done.log \in Seq(Entries)
      /\ done.output \in Seq(EventSpace)
  BY <1>5 DEF Runs
<1> HIDE DEF out
<1>7. out \in Seq(EventSpace)
  BY <1>6 DEF out
<1>8. filter' \in [Stages -> FilterStates] /\ log' \in [Stages -> Seq(Entries)]
  BY <1>1, <1>3, <1>6 DEF TypeOK
<1>9. ASSUME NEW j \in Stages
      PROVE  /\ filter'[j].kind = setup.chain[j]
             /\ Knows(filter'[j], log'[j]) /\ Right(filter'[j].kind, log'[j])
  <2>1. /\ filter[j].kind = setup.chain[j]
        /\ Knows(filter[j], log[j]) /\ Right(filter[j].kind, log[j])
        /\ filter \in [Stages -> FilterStates] /\ log \in [Stages -> Seq(Entries)]
    BY <1>1 DEF TypeOK, FiltersKnow
  <2>2. CASE j = k
    <3>1. filter'[j] = done.filter /\ log'[j] = done.log
      BY <1>3, <2>1, <2>2
    <3>. QED  BY <1>5, <2>1, <2>2, <3>1 DEF f
  <2>3. CASE j # k
    <3>1. filter'[j] = filter[j] /\ log'[j] = log[j]
      BY <1>3, <2>1, <2>3
    <3>. QED  BY <2>1, <3>1
  <2>. QED  BY <2>2, <2>3
<1>10. queue \in [Stages -> Seq(EventSpace)] /\ <<>> \in Seq(EventSpace)
  BY <1>1, EmptySeq DEF TypeOK
<1>11. /\ queue' \in [Stages -> Seq(EventSpace)]
       /\ surface' \in SurfaceStates /\ drawn' \in Seq(EventSpace) /\ heard' \in Seq(Notes)
       /\ SurfacesFollow(surface', heard')
  <2>1. /\ surface \in SurfaceStates /\ drawn \in Seq(EventSpace) /\ heard \in Seq(Notes)
    BY <1>1 DEF TypeOK, Notes
  <2>2. CASE /\ k + 1 \in Stages
             /\ queue' = [queue EXCEPT ![k] = <<>>, ![k + 1] = @ \o out]
             /\ surface' = surface /\ drawn' = drawn /\ heard' = heard
    <3>1. k + 1 # k
      <4>1. k \in Nat
        BY <1>1, StagesAre DEF TypeOK
      <4>. QED  BY <4>1
    <3> DEFINE n == k + 1
               r == queue[n]
    <3>2. r \in Seq(EventSpace) /\ n \in Stages /\ n # k
      BY <1>10, <2>2, <3>1
    <3> HIDE DEF r
    <3>3. r \o out \in Seq(EventSpace)
      BY <1>7, <3>2, ConcatProperties
    <3>4. queue' = [j \in Stages |-> IF j = n THEN r \o out ELSE IF j = k THEN <<>> ELSE queue[j]]
      <4> HIDE DEF n
      <4>1. queue' = [queue EXCEPT ![k] = <<>>, ![n] = @ \o out]
        BY <2>2 DEF n
      <4>. QED  BY <1>10, <3>2, <4>1 DEF r
    <3> HIDE DEF n
    <3>5. queue' \in [Stages -> Seq(EventSpace)]
      BY <1>10, <3>3, <3>4
    <3>. QED  BY <1>1, <2>1, <2>2, <3>5
  <2>3. CASE queue' = [queue EXCEPT ![k] = <<>>] /\ Output(out)
    <3>1. queue' \in [Stages -> Seq(EventSpace)]
      BY <1>10, <2>3
    <3>2. /\ surface' \in SurfaceStates /\ drawn' \in Seq(EventSpace) /\ heard' \in Seq(Notes)
          /\ SurfacesFollow(surface', heard')
      BY <1>1, <1>7, <2>1, <2>3, OutputIs
    <3>. QED  BY <3>1, <3>2
  <2>. QED  BY <1>4, <2>2, <2>3
<1>12. TypeOK'
  BY <1>1, <1>3, <1>8, <1>9, <1>11 DEF TypeOK, Notes
<1>. QED  BY <1>3, <1>9, <1>11, <1>12 DEF IndInv

LEMMA AgeKeeps ==
    ASSUME IndInv, Age
    PROVE  IndInv'
<1>1. TypeOK /\ SurfacesFollow(surface, heard)
  BY DEF IndInv
<1>2. /\ setup' = setup /\ Stages' = Stages /\ filter' = filter /\ queue' = queue /\ log' = log
      /\ drawn' = drawn /\ clock' = clock /\ fed' = fed
      /\ decays' = decays + 1 /\ decays < setup.decays
  BY DEF Age, Stages
<1>3. PICK s \in setup.steps : /\ clock + s \in Nat
                               /\ surface' = DecayTo(surface, clock + s)
                               /\ heard' = Append(heard, [slot |-> -1, t |-> clock + s])
  BY DEF Age
<1> DEFINE ts == clock + s
           x == [slot |-> -1, t |-> ts]
<1>4. ts \in Nat /\ surface' = DecayTo(surface, ts) /\ heard' = Append(heard, x)
  BY <1>3
<1>5. surface \in SurfaceStates /\ heard \in Seq(Notes)
  BY <1>1 DEF TypeOK, Notes
<1> HIDE DEF ts
<1>6. surface' \in SurfaceStates
  BY <1>4, <1>5, DecayIs
<1>7. x \in Notes /\ Tells(surface, surface', x)
  BY <1>4, <1>5, AgeIs
<1> HIDE DEF x
<1>8. heard' \in Seq(Notes)
  BY <1>4, <1>5, <1>7, AppendIs
<1>9. SurfacesFollow(surface', heard')
  BY <1>1, <1>4, <1>5, <1>6, <1>7, SurfaceStep
<1>10. decays' \in 0..setup.decays
  BY <1>1, <1>2, StagesAre DEF TypeOK
<1>11. TypeOK'
  BY <1>1, <1>2, <1>6, <1>8, <1>10 DEF TypeOK, Notes
<1>. QED  BY <1>2, <1>9, <1>11 DEF IndInv

LEMMA TransformEventsKeeps ==
    ASSUME IndInv, TransformEvents
    PROVE  IndInv'
<1>1. TypeOK /\ drawn \in Seq(EventSpace)
  BY DEF IndInv, TypeOK
<1>2. /\ setup' = setup /\ Stages' = Stages /\ filter' = filter /\ queue' = queue /\ log' = log
      /\ drawn' = drawn /\ clock' = clock /\ fed' = fed /\ decays' = decays
      /\ surface' = DrawAll(NewSurfaces, drawn) /\ heard' = Told(drawn)
  BY DEF TransformEvents, Stages
<1> DEFINE none == <<>>
<1>3. none \in Seq(Notes) /\ NewSurfaces \in SurfaceStates /\ SurfacesFollow(NewSurfaces, none)
  BY NewSurfacesAre, EmptySeq
<1>4. Told(drawn) \in Seq(Notes)
  BY <1>1, ToldIs
<1>5. none \o Told(drawn) = Told(drawn)
  BY <1>4, ConcatEmptySeq
<1> HIDE DEF none
<1>6. /\ DrawAll(NewSurfaces, drawn) \in SurfaceStates
      /\ SurfacesFollow(DrawAll(NewSurfaces, drawn), none \o Told(drawn))
  BY <1>1, <1>3, DrawAllIs
<1>7. /\ surface' \in SurfaceStates /\ heard' \in Seq(Notes)
      /\ SurfacesFollow(surface', heard')
  BY <1>2, <1>4, <1>5, <1>6
<1>8. TypeOK'
  BY <1>1, <1>2, <1>7 DEF TypeOK, Notes
<1>. QED  BY <1>2, <1>7, <1>8 DEF IndInv

-----------------------------------------------------------------------------
(* The theorems.                                                           *)

LEMMA StartKnows == Init => IndInv
<1>1. SUFFICES ASSUME Init
               PROVE  IndInv
  OBVIOUS
<1>2. /\ setup \in Setups
      /\ filter = [k \in Stages |-> NewFilter(setup.chain[k])]
      /\ queue = [k \in Stages |-> <<>>] /\ log = [k \in Stages |-> <<>>]
      /\ surface = NewSurfaces /\ drawn = <<>> /\ heard = <<>>
      /\ clock = 0 /\ fed = 0 /\ decays = 0
  BY <1>1 DEF Init
<1>3. ASSUME NEW k \in Stages
      PROVE  /\ filter[k] \in FilterStates /\ filter[k].kind = setup.chain[k]
             /\ Knows(filter[k], log[k]) /\ Right(filter[k].kind, log[k])
  <2> DEFINE kind == setup.chain[k]
  <2>1. kind \in Kinds
    BY <1>2, StagesAre
  <2>2. filter[k] = NewFilter(kind) /\ log[k] = <<>>
    BY <1>2
  <2> HIDE DEF kind
  <2>. QED  BY <2>1, <2>2, NewFilterIs DEF kind
<1>4. /\ <<>> \in Seq(EventSpace) /\ <<>> \in Seq(Entries) /\ <<>> \in Seq(Notes)
  BY EmptySeq
<1>5. filter \in [Stages -> FilterStates] /\ log \in [Stages -> Seq(Entries)]
      /\ queue \in [Stages -> Seq(EventSpace)]
  BY <1>2, <1>3, <1>4
<1>6. surface \in SurfaceStates /\ SurfacesFollow(surface, heard)
  BY <1>2, NewSurfacesAre
<1>7. clock \in Nat /\ fed \in 0..setup.length /\ decays \in 0..setup.decays
  BY <1>2, StagesAre
<1>8. TypeOK
  BY <1>2, <1>3, <1>4, <1>5, <1>6, <1>7 DEF TypeOK, Notes
<1>. QED  BY <1>3, <1>6, <1>8 DEF IndInv

(* A filter's state is always what the events it was given make of it, its *)
(* verdicts are right, and the surfaces show the ages of what was drawn.   *)
THEOREM ChainInductive == Spec => []IndInv
<1>1. IndInv /\ [Next]_vars => IndInv'
  <2> SUFFICES ASSUME IndInv, [Next]_vars
               PROVE  IndInv'
    OBVIOUS
  <2>1. ASSUME NEW e \in Events, Pull(e)
        PROVE  IndInv'
    BY <2>1, PullKeeps
  <2>2. ASSUME NEW e \in Events, Arrive(e)
        PROVE  IndInv'
    BY <2>2, ArriveKeeps
  <2>3. ASSUME NEW k \in Stages, ProcessFilter(k)
        PROVE  IndInv'
    BY <2>3, ProcessFilterKeeps
  <2>4. CASE Age
    BY <2>4, AgeKeeps
  <2>5. CASE TransformEvents
    BY <2>5, TransformEventsKeeps
  <2>6. CASE UNCHANGED vars
    BY <2>6 DEF vars, IndInv, TypeOK, Stages
  <2>. QED  BY <2>1, <2>2, <2>3, <2>4, <2>5, <2>6 DEF Next
<1>. QED  BY <1>1, StartKnows, PTL DEF Spec

(* Every variable holds a value of its type: the sample ring of a pixel is *)
(* never written outside its bounds, and a linear value never leaves the   *)
(* range from 0.0 to 1.0.                                                  *)
THEOREM TypeCorrect == Spec => []TypeOK
<1>1. IndInv => TypeOK
  BY DEF IndInv
<1>. QED  BY <1>1, ChainInductive, PTL

LEMMA RightVerdicts ==
    ASSUME IndInv, NEW kind, NEW k \in FiltersOf(kind)
    PROVE  k \in Stages /\ \A n \in DOMAIN log[k] : RightAt(kind, log[k], n)
<1>1. k \in Stages /\ setup.chain[k] = kind
  BY DEF FiltersOf
<1>2. filter[k].kind = kind
  BY <1>1 DEF IndInv, TypeOK
<1>3. Right(kind, log[k])
  BY <1>1, <1>2 DEF IndInv
<1>. QED  BY <1>1, <1>3 DEF Right, RightAt

(* "Rejects same polarity trail events until threshold or polarity change":*)
(* the trail filter rejects an event exactly when the last event it let    *)
(* through at the pixel has its polarity and is less than dt older.        *)
THEOREM TrailIsCut == Spec => []TrailCut
<1>1. IndInv => TrailCut
  <2>1. SUFFICES ASSUME IndInv, NEW k \in FiltersOf("trail"), NEW n \in DOMAIN log[k],
                        Increasing(log[k], n)
                 PROVE  TrailVerdict(log[k], n)
    BY DEF TrailCut
  <2>. QED  BY <2>1, RightVerdicts DEF RightAt
<1>. QED  BY <1>1, ChainInductive, PTL

(* The noise filter forwards an event exactly when its neighbourhood had   *)
(* one of the same polarity within dt; the contrast filter nothing but     *)
(* what follows another event of the pixel within dt, and all that follows *)
(* one of the other polarity.                                              *)
THEOREM SupportIsNeeded == Spec => []SupportedOnly
<1>1. IndInv => SupportedOnly
  <2>1. ASSUME IndInv, NEW k \in FiltersOf("noise"), NEW n \in DOMAIN log[k],
               InOrder(log[k], n)
        PROVE  NoiseVerdict(log[k], n)
    BY <2>1, RightVerdicts DEF RightAt
  <2>2. ASSUME IndInv, NEW k \in FiltersOf("contrast"), NEW n \in DOMAIN log[k],
               InOrder(log[k], n)
        PROVE  ContrastVerdict(log[k], n)
    BY <2>2, RightVerdicts DEF RightAt
  <2>. QED  BY <2>1, <2>2 DEF SupportedOnly
<1>. QED  BY <1>1, ChainInductive, PTL

(* The anti-flicker filter suppresses an event exactly when it and the     *)
(* min_measurements events before it at its pixel all change the polarity, *)
(* the median of their frequencies lies in the window, and its own does.   *)
THEOREM FlickerIsJustified == Spec => []FlickerJustified
<1>1. IndInv => FlickerJustified
  <2>1. SUFFICES ASSUME IndInv, NEW k \in FiltersOf("flicker"), NEW n \in DOMAIN log[k],
                        Increasing(log[k], n)
                 PROVE  FlickerVerdict(log[k], n)
    BY DEF FlickerJustified
  <2>. QED  BY <2>1, RightVerdicts DEF RightAt
<1>. QED  BY <1>1, ChainInductive, PTL

(* However often the surfaces are aged on the way, a value shows the age of*)
(* the latest event of its pixel and polarity.                             *)
THEOREM DecayMatchesAge == Spec => []DecayFollowsAge
<1>1. IndInv => DecayFollowsAge
  BY DEF IndInv, SurfacesFollow, DecayFollowsAge
<1>. QED  BY <1>1, ChainInductive, PTL

=============================================================================
