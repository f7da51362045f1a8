------------------------ MODULE Evt3Decoder_proofs ------------------------
(***************************************************************************)
(* Theorems about the EVT3 decoder: its clock, the clock driven by a       *)
(* sensor (Evt3Source), and the word machine (Evt3Decoder), for every      *)
(* sensor, field width, threshold, vector length and batch size.           *)
(***************************************************************************)
EXTENDS Evt3Decoder, Evt3Source, FiniteSetTheorems, TLAPS

(* The clock. *)

(* A timestamp's parts stay in range, whatever the words said. *)
LEMMA SampleType ==
    ASSUME NEW c \in Clock
    PROVE  /\ Sample(c) \in Clock
           /\ T24(c) \in 0..Period - 1
           /\ Sample(c).last24 = T24(c)
           /\ Sample(c).offset = Offset(c)
           /\ Offset(c) \in Nat
           /\ Offset(c) \in {c.offset, c.offset + Period}
<1>1. T24(c) \in 0..Period - 1
  <2>1. c.high \in 0..HIGHS - 1 /\ c.low \in 0..LOWS - 1
    BY DEF Clock
  <2>. QED  BY <2>1, WidthsAssumption DEF T24
<1>2. Offset(c) \in Nat /\ Offset(c) \in {c.offset, c.offset + Period}
  <2>1. c.offset \in Nat
    BY DEF Clock
  <2>. QED  BY <2>1, WidthsAssumption DEF Offset
<1>3. AbsTime(c) \in Nat
  BY <1>1, <1>2, WidthsAssumption DEF AbsTime
<1>4. First(c) \in Nat
  BY <1>3 DEF First, Clock
<1>5. SaturatingSub(AbsTime(c), First(c)) \in Nat
  BY <1>3, <1>4 DEF SaturatingSub
<1>. QED  BY <1>1, <1>2, <1>3, <1>4, <1>5 DEF Sample, Clock

(* An event's absolute time is at most Half before the one of the event    *)
(* sampled last.                                                           *)
LEMMA SampleBackward ==
    ASSUME NEW c \in Clock
    PROVE  Offset(c) + T24(c) >= c.offset + c.last24 - Half
BY SampleType, WidthsAssumption DEF Clock, Offset, RolledOver

(* Time words and a restored timing state keep the clock in range.         *)
LEMMA FieldsType ==
    ASSUME NEW c \in Clock
    PROVE  /\ \A l \in 0..LOWS - 1 : TimeLow(c, l) \in Clock
           /\ \A h \in 0..HIGHS - 1 : TimeHigh(c, h) \in Clock
           /\ Snapshot(c) \in TimingState
           /\ \A s \in TimingState : Restore(c, s) \in Clock
<1>1. \A l \in 0..LOWS - 1 : TimeLow(c, l) \in Clock
  BY DEF TimeLow, Clock
<1>2. \A h \in 0..HIGHS - 1 : TimeHigh(c, h) \in Clock
  BY DEF TimeHigh, Clock
<1>3. Snapshot(c) \in TimingState
  BY DEF Snapshot, TimingState, Clock
<1>4. ASSUME NEW s \in TimingState  PROVE Restore(c, s) \in Clock
  BY DEF Restore, TimingState, Clock
<1>. QED  BY <1>1, <1>2, <1>3, <1>4
-----------------------------------------------------------------------------
(* The clock driven by a sensor. *)

(* The state of an event's step, put in names. *)
LEMMA EventStep ==
    ASSUME SourceTypeOK, NEW late \in 0..Jitter, Event(late)
    PROVE  \E c \in Clock :
              /\ c.offset = timing.offset /\ c.last24 = timing.last24
              /\ T24(c) = IF late <= phase THEN phase - late ELSE phase - late + Period
              /\ timing' = Sample(c)
              /\ abs' = Offset(c) + T24(c)
              /\ late <= base + phase
<1>1. PICK f \in Fields(IF late <= phase THEN phase - late ELSE phase - late + Period) :
          timing' = Sample(TimeLow(TimeHigh(timing, f[1]), f[2]))
  BY DEF Event
<1> DEFINE c == TimeLow(TimeHigh(timing, f[1]), f[2])
<1>2. f \in (0..HIGHS - 1) \X (0..LOWS - 1)
  BY <1>1 DEF Fields
<1>3. c \in Clock
  BY <1>2 DEF SourceTypeOK, Clock, TimeHigh, TimeLow
<1>4. c.offset = timing.offset /\ c.last24 = timing.last24
  BY DEF SourceTypeOK, Clock, TimeHigh, TimeLow
<1>5. T24(c) = IF late <= phase THEN phase - late ELSE phase - late + Period
  <2>1. c.high = f[1] /\ c.low = f[2]
    BY DEF SourceTypeOK, Clock, TimeHigh, TimeLow
  <2>. QED  BY <1>1, <2>1 DEF Fields, T24
<1>6. abs' = Offset(c) + T24(c)
  BY <1>1, <1>3, SampleType DEF Event
<1>. QED  BY <1>1, <1>3, <1>4, <1>5, <1>6 DEF Event

(* Clock fields, sensor time and event times stay in range.                *)
LEMMA SourceTypeInductive == SourceTypeOK /\ [SourceNext]_sourceVars => SourceTypeOK'
<1>. SUFFICES ASSUME SourceTypeOK, [SourceNext]_sourceVars  PROVE SourceTypeOK'
  OBVIOUS
<1>1. ASSUME NEW d \in 1..Period - 1, Quiet(d)  PROVE SourceTypeOK'
  <2>1. /\ base' \in Nat /\ phase' \in 0..Period - 1 /\ gap' \in Nat
        /\ abs' \in Nat /\ orderly' \in BOOLEAN
    BY <1>1, WidthsAssumption DEF Quiet, SourceTypeOK
  <2>2. PICK f \in Fields(phase') : timing' = TimeHigh(timing, f[1])
    BY <1>1 DEF Quiet
  <2>3. f[1] \in 0..HIGHS - 1
    BY DEF Fields
  <2>4. timing' \in Clock
    BY <2>2, <2>3 DEF SourceTypeOK, TimeHigh, Clock
  <2>. QED  BY <2>1, <2>4 DEF SourceTypeOK
<1>2. ASSUME NEW late \in 0..Jitter, Event(late)  PROVE SourceTypeOK'
  <2>1. PICK c \in Clock : timing' = Sample(c) /\ abs' = Offset(c) + T24(c)
    BY <1>2, EventStep
  <2>2. timing' \in Clock /\ abs' \in Nat
    BY <2>1, SampleType, WidthsAssumption
  <2>. QED  BY <1>2, <2>2 DEF Event, SourceTypeOK
<1>3. CASE UNCHANGED sourceVars
  BY <1>3 DEF sourceVars, SourceTypeOK
<1>. QED  BY <1>1, <1>2, <1>3 DEF SourceNext

LEMMA SourceTypeInitial == SourceInit => SourceTypeOK
BY WidthsAssumption DEF SourceInit, SourceTypeOK, InitClock, Clock

(* The decoder's clock, its offset and every event's time stay in range.   *)
THEOREM SourceTypeCorrect == SourceSpec => []SourceTypeOK
BY SourceTypeInitial, SourceTypeInductive, PTL DEF SourceSpec

(* As long as events are orderly the decoder counts each rollover at the   *)
(* first event behind it.                                                  *)
LEMMA TimingInductive == SourceTypeOK /\ SourceInv /\ [SourceNext]_sourceVars => SourceInv'
<1>. SUFFICES ASSUME SourceTypeOK, SourceInv, [SourceNext]_sourceVars  PROVE SourceInv'
  OBVIOUS
<1>. USE DEF TracksWrapAround
<1>1. ASSUME NEW d \in 1..Period - 1, Quiet(d)  PROVE SourceInv'
  <2>1. timing'.offset = timing.offset /\ timing'.last24 = timing.last24
    BY <1>1 DEF Quiet, TimeHigh, SourceTypeOK, Clock
  <2>2. timing.offset \in Nat /\ timing.last24 \in 0..Period - 1
    BY DEF SourceTypeOK, Clock
  <2>. QED  BY <1>1, <2>1, <2>2, WidthsAssumption, SourceAssumption DEF Quiet, SourceInv, SourceTypeOK
<1>2. ASSUME NEW late \in 0..Jitter, Event(late)  PROVE SourceInv'
  <2>1. ~orderly' \/ (orderly /\ late = 0 /\ gap < Half)
    BY <1>2 DEF Event
  <2>2. CASE ~orderly'
    BY <2>2 DEF SourceInv
  <2>3. CASE orderly /\ late = 0 /\ gap < Half
    <3>1. PICK c \in Clock : /\ c.offset = timing.offset /\ c.last24 = timing.last24
                             /\ T24(c) = phase
                             /\ timing' = Sample(c)
                             /\ abs' = Offset(c) + T24(c)
      BY <1>2, <2>3, EventStep DEF SourceTypeOK
    <3>2. timing'.offset = Offset(c) /\ timing'.last24 = phase
      BY <3>1, SampleType
    <3>3. timing.offset \in Nat /\ timing.last24 \in 0..Period - 1
      BY DEF SourceTypeOK, Clock
    <3>4. Offset(c) = base
      BY <2>3, <3>1, <3>3, WidthsAssumption, SourceAssumption
      DEF Offset, RolledOver, SourceInv, SourceTypeOK
    <3>. QED  BY <1>2, <2>3, <3>1, <3>2, <3>4, WidthsAssumption, SourceAssumption
              DEF Event, SourceInv, SourceTypeOK
  <2>. QED  BY <2>1, <2>2, <2>3
<1>3. CASE UNCHANGED sourceVars
  BY <1>3 DEF sourceVars, SourceInv
<1>. QED  BY <1>1, <1>2, <1>3 DEF SourceNext

(* "The decoder tracks wrap-around", as long as events are orderly.        *)
THEOREM WrapAroundTracked == SourceSpec => []TracksWrapAround
<1>1. SourceInit => SourceInv
  BY SourceAssumption DEF SourceInit, SourceInv, InitClock, TracksWrapAround
<1>2. SourceInv => TracksWrapAround
  BY DEF SourceInv
<1>. QED  BY <1>1, <1>2, SourceTypeInitial, SourceTypeInductive, TimingInductive, PTL DEF SourceSpec

(* The time of an event never falls back by more than the threshold,       *)
(* whatever the order of the words.                                        *)
THEOREM BackwardIsBounded == SourceSpec => BackwardBounded
<1> DEFINE Sum == abs = timing.offset + timing.last24
<1>1. SourceInit => Sum
  BY DEF SourceInit, InitClock
<1>2. SourceTypeOK /\ Sum /\ [SourceNext]_sourceVars => Sum' /\ [abs' >= abs - Half]_sourceVars
  <2>. SUFFICES ASSUME SourceTypeOK, Sum, [SourceNext]_sourceVars  PROVE Sum' /\ [abs' >= abs - Half]_sourceVars
    OBVIOUS
  <2>1. ASSUME NEW d \in 1..Period - 1, Quiet(d)  PROVE Sum' /\ abs' >= abs - Half
    <3>1. timing'.offset = timing.offset /\ timing'.last24 = timing.last24 /\ abs' = abs
      BY <2>1 DEF Quiet, TimeHigh, SourceTypeOK, Clock
    <3>. QED  BY <3>1, WidthsAssumption DEF SourceTypeOK
  <2>2. ASSUME NEW late \in 0..Jitter, Event(late)  PROVE Sum' /\ abs' >= abs - Half
    <3>1. PICK c \in Clock : /\ c.offset = timing.offset /\ c.last24 = timing.last24
                             /\ timing' = Sample(c)
                             /\ abs' = Offset(c) + T24(c)
      BY <2>2, EventStep
    <3>2. timing'.offset = Offset(c) /\ timing'.last24 = T24(c)
      BY <3>1, SampleType
    <3>3. Offset(c) + T24(c) >= c.offset + c.last24 - Half
      BY SampleBackward
    <3>4. abs' >= abs - Half
      <4>1. abs = c.offset + c.last24 /\ abs' = Offset(c) + T24(c)
        BY <3>1
      <4>2. c.offset \in Nat /\ c.last24 \in Nat /\ Offset(c) \in Nat /\ T24(c) \in Nat
        BY SampleType, WidthsAssumption DEF Clock
      <4>. QED  BY <3>3, <4>1, <4>2, WidthsAssumption
    <3>5. Sum'
      BY <3>1, <3>2
    <3>. QED  BY <3>4, <3>5
  <2>3. CASE UNCHANGED sourceVars
    BY <2>3 DEF sourceVars
  <2>. QED  BY <2>1, <2>2, <2>3 DEF SourceNext
<1>. QED  BY <1>1, <1>2, SourceTypeInitial, SourceTypeInductive, PTL DEF SourceSpec, BackwardBounded
-----------------------------------------------------------------------------
(* The word machine. *)

(* The tail of a word leaves less than a batch in either buffer.           *)
LEMMA EmitBounded ==
    ASSUME TypeOK, BuffersBounded, NEW cds, IsFiniteSet(cds), NEW exts \in Nat,
           Emit(cds, exts)
    PROVE  /\ cd_buffer' \in Nat /\ ext_trigger_buffer' \in Nat
           /\ BuffersBounded'
           /\ emitted' = cds /\ outcome' = "ok"
<1> DEFINE cd == cd_buffer + Cardinality(cds)
           ext == ext_trigger_buffer + exts
<1>1. cd \in Nat /\ ext \in Nat
  BY FS_CardinalityType DEF TypeOK
<1>2. SetBuffers(IF Full(cd, ext) THEN Dispatched(cd, ext) ELSE <<cd, ext>>)
  BY DEF Emit
<1>. HIDE DEF cd, ext
<1>3. CASE Full(cd, ext)
  BY <1>2, <1>3, DecoderAssumption DEF SetBuffers, Dispatched, BuffersBounded, Emit
<1>4. CASE ~Full(cd, ext)
  BY <1>1, <1>2, <1>4, DecoderAssumption DEF SetBuffers, Full, BuffersBounded, Emit
<1>. QED  BY <1>3, <1>4

(* The pixels of a vector word: finitely many, on the sensor.              *)
LEMMA VectorPixels ==
    ASSUME TypeOK, VectorHasRow, InVector, NEW n \in Nat, VectorFits(n),
           NEW bits \in SUBSET (0..n - 1), y < MAX_Y
    PROVE  LET cds == {<<base_x + i, y>> : i \in bits}
           IN  /\ IsFiniteSet(cds)
               /\ cds \subseteq Nat \X (0..YS - 1)
               /\ \A e \in cds : e[1] <= MAX_X /\ e[2] < MAX_Y
<1> DEFINE cds == {<<base_x + i, y>> : i \in bits}
           box == (base_x..base_x + (n - 1)) \X {y}
<1>1. y \in 0..YS - 1 /\ base_x \in Nat /\ base_x + (n - 1) <= MAX_X
  BY NoWordAssumption DEF TypeOK, VectorHasRow, VectorFits
<1>2. cds \subseteq box
  BY <1>1
<1>3. IsFiniteSet(box)
  <2>1. IsFiniteSet(base_x..base_x + (n - 1))
    BY <1>1, FS_Interval
  <2>2. IsFiniteSet({y})
    BY FS_Singleton
  <2>. QED  BY <2>1, <2>2, FS_Product
<1>4. IsFiniteSet(cds)
  BY <1>2, <1>3, FS_Subset
<1>5. box \subseteq Nat \X (0..YS - 1) /\ \A e \in box : e[1] <= MAX_X /\ e[2] < MAX_Y
  BY <1>1, DecoderAssumption
<1>. QED  BY <1>2, <1>4, <1>5

(* A refused word keeps the invariant.                                     *)
LEMMA RejectInductive ==
    ASSUME DecoderInv, decoding' = TRUE, UNCHANGED saved, vectX' \in Nat,
           NEW v \in Outcomes, Reject(v)
    PROVE  DecoderInv'
<1>1. TypeOK'
  BY DEF DecoderInv, TypeOK, Reject, buffers
<1>2. RowInv' /\ VectorAligned' /\ EmittedInBounds' /\ NoStaleRow'
  BY NoWordAssumption DEF DecoderInv, RowInv, VectorHasRow, InVector, VectorAligned,
       EmittedInBounds, NoStaleRow, Reject, EVTWord
<1>3. BuffersBounded' /\ NothingLeftBehind' /\ WidthsHold'
  BY DEF DecoderInv, BuffersBounded, NothingLeftBehind, WidthsHold, Reject, buffers
<1>. QED  BY <1>1, <1>2, <1>3 DEF DecoderInv

(* So does an accepted word, whatever it emits, when the rest of its state *)
(* is as the invariant wants it.                                           *)
LEMMA AcceptInductive ==
    ASSUME DecoderInv, decoding' = TRUE, UNCHANGED saved,
           NEW cds, IsFiniteSet(cds), NEW exts \in Nat, Emit(cds, exts),
           cds \subseteq Nat \X (0..YS - 1),
           \A e \in cds : e[1] <= MAX_X /\ e[2] < MAX_Y,
           cds # {} => rowSeen',
           clock' \in Clock, y' \in 0..YS - 1 \union {None}, base_x' \in Nat,
           base_x' <= MAX_X + XS, prev_word' \in EVTWord \union {None},
           payload_bit_shift' \in Nat, payload_bit_shift' < PAYLOAD_BITS + CONT12,
           rowSeen' \in BOOLEAN, vectX' \in Nat,
           y' # None => rowSeen', InVector' => y' # None /\ base_x' = vectX'
    PROVE  DecoderInv'
<1>1. TypeOK /\ BuffersBounded
  BY DEF DecoderInv
<1>2. /\ cd_buffer' \in Nat /\ ext_trigger_buffer' \in Nat
      /\ BuffersBounded'
      /\ emitted' = cds /\ outcome' = "ok"
  BY <1>1, EmitBounded
<1>3. TypeOK'
  BY <1>1, <1>2 DEF TypeOK, Outcomes
<1>4. RowInv' /\ VectorAligned' /\ EmittedInBounds' /\ NoStaleRow' /\ NothingLeftBehind' /\ WidthsHold'
  BY <1>2 DEF RowInv, VectorHasRow, VectorAligned, EmittedInBounds, NoStaleRow, NothingLeftBehind,
       WidthsHold
<1>. QED  BY <1>2, <1>3, <1>4 DEF DecoderInv

(* One step per class of words.                                            *)
LEMMA WordInductive ==
    ASSUME DecoderInv, Word, decoding' = TRUE, UNCHANGED saved
    PROVE  DecoderInv'
<1>. USE DecoderAssumption
<1>1. /\ TypeOK /\ VectorHasRow /\ VectorAligned /\ BuffersBounded
      /\ payload_bit_shift < PAYLOAD_BITS + CONT12 /\ base_x <= MAX_X + XS
      /\ y # None => rowSeen
  BY DEF DecoderInv, RowInv, WidthsHold
<1>2. /\ clock \in Clock /\ y \in 0..YS - 1 \union {None} /\ base_x \in Nat
      /\ prev_word \in EVTWord \union {None} /\ payload_bit_shift \in Nat
      /\ rowSeen \in BOOLEAN /\ vectX \in Nat
      /\ InVector => y # None /\ base_x = vectX
  BY <1>1 DEF TypeOK, VectorHasRow, VectorAligned
<1>3. IsFiniteSet({})
  BY FS_EmptySet
<1>4. Sample(clock) \in Clock
  BY <1>2, SampleType
<1>5. ASSUME NEW v \in 0..YS - 1, AddrY(v)  PROVE DecoderInv'
  <2>1. /\ Emit({}, 0) /\ y' = v /\ rowSeen' = TRUE /\ prev_word' = "AddrY"
        /\ UNCHANGED <<clock, base_x, payload_bit_shift, vectX>>
    BY <1>5 DEF AddrY
  <2>2. ~InVector' /\ prev_word' \in EVTWord
    BY <2>1 DEF InVector, EVTWord
  <2>. QED  BY <1>1, <1>2, <1>3, <2>1, <2>2, AcceptInductive
<1>6. ASSUME NEW x \in 0..XS - 1, AddrX(x)  PROVE DecoderInv'
  <2>1. vectX' = vectX
    BY <1>6 DEF AddrX
  <2>2. ASSUME NEW v \in Outcomes, Reject(v)  PROVE DecoderInv'
    BY <1>2, <2>1, <2>2, RejectInductive
  <2>3. CASE HasRow /\ x <= MAX_X /\ y < MAX_Y
    <3>1. /\ Emit({<<x, y>>}, 0) /\ clock' = Sample(clock) /\ prev_word' = "AddrX"
          /\ UNCHANGED <<y, base_x, payload_bit_shift, rowSeen>>
      BY <1>6, <2>3 DEF AddrX, Reject
    <3>2. IsFiniteSet({<<x, y>>})
      BY FS_Singleton
    <3>3. /\ {<<x, y>>} \subseteq Nat \X (0..YS - 1)
          /\ \A e \in {<<x, y>>} : e[1] <= MAX_X /\ e[2] < MAX_Y
      BY <1>2, <2>3 DEF HasRow
    <3>4. ~InVector' /\ prev_word' \in EVTWord
      BY <3>1 DEF InVector, EVTWord
    <3>5. rowSeen'
      BY <1>1, <2>3, <3>1 DEF HasRow
    <3>. QED  BY <1>1, <1>2, <1>4, <2>1, <3>1, <3>2, <3>3, <3>4, <3>5, AcceptInductive
  <2>4. CASE HasRow /\ x <= MAX_X /\ ~(y < MAX_Y)
    <3>1. Emit({}, 0) /\ UNCHANGED <<clock, prev_word, y, base_x, payload_bit_shift, rowSeen>>
      BY <1>6, <2>4 DEF AddrX, Reject
    <3>2. InVector' = InVector
      BY <3>1 DEF InVector
    <3>. QED  BY <1>1, <1>2, <1>3, <2>1, <3>1, <3>2, AcceptInductive
  <2>5. CASE ~(HasRow /\ x <= MAX_X)
    BY <1>6, <2>2, <2>5 DEF AddrX, Outcomes
  <2>. QED  BY <2>3, <2>4, <2>5
<1>7. ASSUME NEW x \in 0..XS - 1, VectBaseX(x)  PROVE DecoderInv'
  <2>1. vectX' = x
    BY <1>7 DEF VectBaseX
  <2>2. CASE Reject("MissingYAddr")
    BY <2>1, <2>2, RejectInductive DEF Outcomes
  <2>3. CASE /\ HasRow /\ base_x' = x /\ prev_word' = "VectBaseX" /\ Emit({}, 0)
             /\ UNCHANGED <<clock, y, payload_bit_shift, rowSeen>>
    <3>1. prev_word' \in EVTWord /\ y' # None
      BY <2>3 DEF EVTWord, HasRow
    <3>. QED  BY <1>1, <1>2, <1>3, <2>1, <2>3, <3>1, AcceptInductive
  <2>. QED  BY <1>7, <2>2, <2>3 DEF VectBaseX
<1>8. ASSUME NEW n \in Nat, NEW type \in {"Vect12", "Vect8"}, NEW bits \in SUBSET (0..n - 1),
             Vect(type, n, bits)
      PROVE DecoderInv'
  <2>1. vectX' = vectX + n /\ vectX' \in Nat
    BY <1>2, <1>8 DEF Vect
  <2>2. ASSUME NEW v \in Outcomes, Reject(v)  PROVE DecoderInv'
    BY <2>1, <2>2, RejectInductive
  <2>3. CASE InVector /\ VectorFits(n)
    <3> DEFINE cds == IF y < MAX_Y THEN {<<base_x + i, y>> : i \in bits} ELSE {}
    <3>1. /\ Emit(cds, 0) /\ clock' = Sample(clock) /\ base_x' = base_x + n /\ prev_word' = type
          /\ UNCHANGED <<y, payload_bit_shift, rowSeen>>
      BY <1>8, <2>3 DEF Vect, Reject, InVector
    <3>2. /\ IsFiniteSet(cds)
          /\ cds \subseteq Nat \X (0..YS - 1)
          /\ \A e \in cds : e[1] <= MAX_X /\ e[2] < MAX_Y
      BY <1>1, <1>3, <2>3, VectorPixels
    <3>3. prev_word' \in EVTWord /\ y' # None /\ rowSeen'
      BY <1>1, <1>2, <2>3, <3>1 DEF EVTWord
    <3>4. base_x' \in Nat /\ base_x' <= MAX_X + XS /\ base_x' = vectX'
      BY <1>2, <2>1, <2>3, <3>1 DEF VectorFits
    <3>. HIDE DEF cds
    <3>. QED  BY <1>1, <1>2, <1>4, <2>1, <3>1, <3>2, <3>3, <3>4, AcceptInductive
  <2>4. CASE ~(InVector /\ VectorFits(n))
    BY <1>8, <2>2, <2>4 DEF Vect, InVector, Outcomes
  <2>. QED  BY <2>3, <2>4
<1>9. ASSUME ExtTrigger  PROVE DecoderInv'
  <2>1. /\ Emit({}, 1) /\ clock' = Sample(clock) /\ prev_word' = "ExtTrigger"
        /\ UNCHANGED <<y, base_x, payload_bit_shift, rowSeen, vectX>>
    BY <1>9 DEF ExtTrigger, stream
  <2>2. ~InVector' /\ prev_word' \in EVTWord
    BY <2>1 DEF InVector, EVTWord
  <2>. QED  BY <1>1, <1>2, <1>3, <1>4, <2>1, <2>2, AcceptInductive
<1>10. ASSUME NEW l \in 0..LOWS - 1, TimeLowWord(l)  PROVE DecoderInv'
  <2>1. /\ Emit({}, 0) /\ clock' = TimeLow(clock, l) /\ prev_word' = "TimeLow"
        /\ UNCHANGED <<y, base_x, payload_bit_shift, rowSeen, vectX>>
    BY <1>10 DEF TimeLowWord, stream
  <2>2. ~InVector' /\ prev_word' \in EVTWord
    BY <2>1 DEF InVector, EVTWord
  <2>3. clock' \in Clock
    BY <1>2, <2>1, FieldsType
  <2>. QED  BY <1>1, <1>2, <1>3, <2>1, <2>2, <2>3, AcceptInductive
<1>11. ASSUME NEW h \in 0..HIGHS - 1, TimeHighWord(h)  PROVE DecoderInv'
  <2>1. /\ clock' \in Clock /\ prev_word' = "TimeHigh" /\ emitted' = {}
        /\ outcome' = TimeHighOutcome(clock, h)
        /\ UNCHANGED <<y, base_x, payload_bit_shift, cd_buffer, ext_trigger_buffer, rowSeen, vectX>>
    BY <1>2, <1>11, FieldsType DEF TimeHighWord, stream, buffers
  <2>2. ~InVector' /\ prev_word' \in EVTWord /\ outcome' \in Outcomes
    BY <2>1 DEF InVector, EVTWord, TimeHighOutcome, Outcomes
  <2>3. TypeOK'
    BY <1>1, <2>1, <2>2 DEF TypeOK
  <2>4. RowInv' /\ VectorAligned' /\ EmittedInBounds' /\ NoStaleRow'
    BY <1>1, <2>1, <2>2 DEF RowInv, VectorHasRow, VectorAligned, EmittedInBounds, NoStaleRow
  <2>5. BuffersBounded' /\ NothingLeftBehind' /\ WidthsHold'
    BY <1>1, <2>1 DEF BuffersBounded, NothingLeftBehind, WidthsHold
  <2>. QED  BY <2>3, <2>4, <2>5 DEF DecoderInv
<1>12. ASSUME NEW n \in 0..CONT12, NEW type \in {"Continued12", "Continued4"},
              NEW after, Continued(type, n, after)
       PROVE DecoderInv'
  <2>1. UNCHANGED <<y, base_x, clock, rowSeen, vectX>>
    BY <1>12 DEF Continued, stream
  <2>2. CASE Reject("PartialContinued")
    BY <1>2, <2>1, <2>2, RejectInductive DEF Outcomes
  <2>3. CASE payload_bit_shift' = 0 /\ prev_word' = None /\ outcome' = "ok" /\ emitted' = {} /\ UNCHANGED buffers
    <3>1. TypeOK'
      BY <1>1, <2>1, <2>3 DEF TypeOK, buffers, Outcomes
    <3>2. RowInv' /\ VectorAligned' /\ EmittedInBounds' /\ NoStaleRow'
      BY <1>1, <2>1, <2>3, NoWordAssumption
         DEF RowInv, VectorHasRow, InVector, VectorAligned, EmittedInBounds, NoStaleRow, EVTWord
    <3>3. BuffersBounded' /\ NothingLeftBehind' /\ WidthsHold'
      BY <1>1, <2>1, <2>3 DEF BuffersBounded, NothingLeftBehind, WidthsHold, buffers
    <3>. QED  BY <3>1, <3>2, <3>3 DEF DecoderInv
  <2>4. CASE CanShift /\ payload_bit_shift' = payload_bit_shift + n /\ prev_word' = type /\ Emit({}, 0)
    <3>1. ~InVector' /\ prev_word' \in EVTWord
      BY <2>4 DEF InVector, EVTWord
    <3>2. payload_bit_shift' \in Nat /\ payload_bit_shift' < PAYLOAD_BITS + CONT12
      BY <1>2, <2>4 DEF CanShift
    <3>. QED  BY <1>1, <1>2, <1>3, <2>1, <2>4, <3>1, <3>2, AcceptInductive
  <2>. QED  BY <1>12, <2>2, <2>3, <2>4 DEF Continued
<1>13. ASSUME Others  PROVE DecoderInv'
  <2>1. /\ Emit({}, 0) /\ payload_bit_shift' = 0 /\ prev_word' = "Others"
        /\ UNCHANGED <<clock, y, base_x, rowSeen, vectX>>
    BY <1>13 DEF Others, stream
  <2>2. ~InVector' /\ prev_word' \in EVTWord
    BY <2>1 DEF InVector, EVTWord
  <2>. QED  BY <1>1, <1>2, <1>3, <2>1, <2>2, AcceptInductive
<1>14. ASSUME Unsupported  PROVE DecoderInv'
  BY <1>2, <1>14, RejectInductive DEF Unsupported, Outcomes
<1>. QED
  BY <1>5, <1>6, <1>7, <1>8, <1>9, <1>10, <1>11, <1>12, <1>13, <1>14 DEF Word

(* The steps between two words.                                            *)
LEMMA DecoderInductive == DecoderInv /\ [Next]_vars => DecoderInv'
<1>. SUFFICES ASSUME DecoderInv, [Next]_vars  PROVE DecoderInv'
  OBVIOUS
<1>1. /\ TypeOK /\ RowInv /\ VectorAligned /\ EmittedInBounds
      /\ BuffersBounded /\ NothingLeftBehind /\ WidthsHold /\ NoStaleRow
  BY DEF DecoderInv
<1>2. CASE DecodeWord
  BY <1>2, WordInductive DEF DecodeWord
<1>3. CASE DecodeReturns
  <2>1. /\ cd_buffer' = 0 /\ ext_trigger_buffer' = 0 /\ decoding' = FALSE
        /\ emitted' = {} /\ outcome' = "ok"
        /\ UNCHANGED <<clock, y, base_x, prev_word, payload_bit_shift, saved, rowSeen, vectX>>
    BY <1>3 DEF DecodeReturns, SetBuffers, Dispatched, stream
  <2>2. TypeOK'
    BY <1>1, <2>1 DEF TypeOK, Outcomes
  <2>3. RowInv' /\ VectorAligned' /\ EmittedInBounds' /\ NoStaleRow'
    BY <1>1, <2>1
       DEF RowInv, VectorHasRow, InVector, VectorAligned, EmittedInBounds, NoStaleRow
  <2>4. BuffersBounded' /\ NothingLeftBehind' /\ WidthsHold'
    BY <1>1, <2>1, DecoderAssumption DEF BuffersBounded, NothingLeftBehind, WidthsHold
  <2>. QED  BY <2>2, <2>3, <2>4 DEF DecoderInv
<1>4. CASE GetTimingState
  <2>1. saved' \in TimingState
    BY <1>1, <1>4, FieldsType DEF GetTimingState, TypeOK
  <2>2. TypeOK'
    BY <1>1, <1>4, <2>1 DEF GetTimingState, TypeOK, buffers, stream
  <2>3. RowInv' /\ VectorAligned' /\ EmittedInBounds' /\ NoStaleRow'
    BY <1>1, <1>4
       DEF GetTimingState, stream, RowInv, VectorHasRow, InVector, VectorAligned, EmittedInBounds,
           NoStaleRow
  <2>4. BuffersBounded' /\ NothingLeftBehind' /\ WidthsHold'
    BY <1>1, <1>4 DEF GetTimingState, buffers, BuffersBounded, NothingLeftBehind, WidthsHold
  <2>. QED  BY <2>2, <2>3, <2>4 DEF DecoderInv
<1>5. CASE SetTimingState
  <2>1. /\ clock' = Restore(clock, saved) /\ saved \in TimingState
        /\ y' = None /\ rowSeen' = FALSE /\ base_x' = 0 /\ prev_word' = None
        /\ payload_bit_shift' = 0 /\ ~decoding
        /\ UNCHANGED <<cd_buffer, ext_trigger_buffer, decoding, saved, emitted, outcome, vectX>>
    BY <1>1, <1>5 DEF SetTimingState, TypeOK, RestoredRow, RestoredWord, buffers
  <2>2. clock' \in Clock
    BY <1>1, <2>1, FieldsType DEF TypeOK
  <2>3. TypeOK'
    BY <1>1, <2>1, <2>2 DEF TypeOK
  <2>4. RowInv' /\ VectorAligned' /\ EmittedInBounds' /\ NoStaleRow'
    BY <1>1, <2>1, NoWordAssumption
       DEF RowInv, VectorHasRow, InVector, VectorAligned, EmittedInBounds, NoStaleRow, EVTWord
  <2>5. BuffersBounded' /\ NothingLeftBehind' /\ WidthsHold'
    BY <1>1, <2>1, DecoderAssumption DEF BuffersBounded, NothingLeftBehind, WidthsHold
  <2>. QED  BY <2>3, <2>4, <2>5 DEF DecoderInv
<1>6. ASSUME NEW c \in Clock, ResetTimestamps(c)  PROVE DecoderInv'
  <2>1. TypeOK'
    BY <1>1, <1>6 DEF ResetTimestamps, TypeOK, buffers, stream
  <2>2. RowInv' /\ VectorAligned' /\ EmittedInBounds' /\ NoStaleRow'
    BY <1>1, <1>6
       DEF ResetTimestamps, stream, RowInv, VectorHasRow, InVector, VectorAligned,
           EmittedInBounds, NoStaleRow
  <2>3. BuffersBounded' /\ NothingLeftBehind' /\ WidthsHold'
    BY <1>1, <1>6 DEF ResetTimestamps, buffers, BuffersBounded, NothingLeftBehind, WidthsHold
  <2>. QED  BY <2>1, <2>2, <2>3 DEF DecoderInv
<1>7. \A s \in Shifts : [clock EXCEPT !.first = s] \in Clock /\ [clock EXCEPT !.last = s] \in Clock
  BY <1>1, DecoderAssumption DEF TypeOK, Clock
<1>8. CASE UNCHANGED vars
  BY <1>1, <1>8
     DEF vars, buffers, stream, DecoderInv, TypeOK, RowInv, VectorHasRow, InVector, VectorAligned,
         EmittedInBounds, NoStaleRow, BuffersBounded, NothingLeftBehind, WidthsHold
<1>. QED  BY <1>2, <1>3, <1>4, <1>5, <1>6, <1>7, <1>8 DEF Next

LEMMA DecoderInitial == Init => DecoderInv
<1>. SUFFICES ASSUME Init  PROVE DecoderInv
  OBVIOUS
<1>1. InitClock \in Clock
  BY WidthsAssumption DEF InitClock, Clock
<1>2. TypeOK
  BY <1>1 DEF Init, TypeOK, Outcomes
<1>3. RowInv /\ VectorAligned /\ EmittedInBounds /\ NoStaleRow
  BY NoWordAssumption
     DEF Init, RowInv, VectorHasRow, InVector, VectorAligned, EmittedInBounds, NoStaleRow, EVTWord
<1>4. BuffersBounded /\ NothingLeftBehind /\ WidthsHold
  BY DecoderAssumption DEF Init, BuffersBounded, NothingLeftBehind, WidthsHold
<1>. QED  BY <1>2, <1>3, <1>4 DEF DecoderInv

LEMMA DecoderInvariant == Spec => []DecoderInv
BY DecoderInitial, DecoderInductive, PTL DEF Spec

(* Every register of the word machine keeps its type.                      *)
THEOREM TypeCorrect == Spec => []TypeOK
<1>1. DecoderInv => TypeOK
  BY DEF DecoderInv
<1>. QED  BY <1>1, DecoderInvariant, PTL

(* The unwrap() of y in a vector word never panics.                        *)
THEOREM VectorRowKnown == Spec => []VectorHasRow
<1>1. DecoderInv => VectorHasRow
  BY DEF DecoderInv, RowInv
<1>. QED  BY <1>1, DecoderInvariant, PTL

(* Every event is within max_x and max_y, in a row that came after the     *)
(* last jump, and a vector's pixels lie where the stream put them.         *)
THEOREM PixelsCorrect == Spec => []PixelsInPlace
<1>1. DecoderInv => PixelsInPlace
  BY DEF DecoderInv, RowInv, PixelsInPlace
<1>. QED  BY <1>1, DecoderInvariant, PTL

(* The buffers hold less than a batch between words and nothing between    *)
(* calls, and no register outgrows its type.                               *)
THEOREM ResourcesBounded == Spec => []WithinBounds
<1>1. DecoderInv => WithinBounds
  BY DEF DecoderInv, WithinBounds
<1>. QED  BY <1>1, DecoderInvariant, PTL

-----------------------------------------------------------------------------
(* The outcome of a word is gone when decode returns, so whatever a caller *)
(* does between two calls is not the trace of a refused word.              *)
Accepted == {"ok", "NonMonotonicTimeHigh", "NonContinuousTimeHigh"}

LEMMA RefusedOrAccepted ==
    ASSUME Word
    PROVE  outcome' \in Accepted \/ (prev_word' = None /\ UNCHANGED <<clock, y, buffers>>)
<1>1. \A v : Reject(v) => prev_word' = None /\ UNCHANGED <<clock, y, buffers>>
  BY DEF Reject
<1>2. \A cds, exts : Emit(cds, exts) => outcome' \in Accepted
  BY DEF Emit, Accepted
<1>3. CASE \E v \in 0..YS - 1 : AddrY(v)
  BY <1>2, <1>3 DEF AddrY
<1>4. CASE \E x \in 0..XS - 1 : AddrX(x)
  BY <1>1, <1>2, <1>4 DEF AddrX
<1>5. CASE \E x \in 0..XS - 1 : VectBaseX(x)
  BY <1>1, <1>2, <1>5 DEF VectBaseX
<1>6. ASSUME NEW type, NEW n, NEW bits, Vect(type, n, bits)
      PROVE  outcome' \in Accepted \/ (prev_word' = None /\ UNCHANGED <<clock, y, buffers>>)
  BY <1>1, <1>2, <1>6 DEF Vect
<1>7. CASE ExtTrigger
  BY <1>2, <1>7 DEF ExtTrigger
<1>8. CASE \E l \in 0..LOWS - 1 : TimeLowWord(l)
  BY <1>2, <1>8 DEF TimeLowWord
<1>9. CASE \E h \in 0..HIGHS - 1 : TimeHighWord(h)
  BY <1>9 DEF TimeHighWord, TimeHighOutcome, Accepted
<1>10. ASSUME NEW type, NEW n, NEW after, Continued(type, n, after)
       PROVE  outcome' \in Accepted \/ (prev_word' = None /\ UNCHANGED <<clock, y, buffers>>)
  BY <1>1, <1>2, <1>10 DEF Continued, Accepted
<1>11. CASE Others
  BY <1>2, <1>11 DEF Others
<1>12. CASE Unsupported
  BY <1>1, <1>12 DEF Unsupported
<1>. QED  BY <1>3, <1>4, <1>5, <1>6, <1>7, <1>8, <1>9, <1>10, <1>11, <1>12 DEF Word

LEMMA QuietBetweenCalls ==
    Spec => [](~decoding => outcome = "ok")
<1> DEFINE Idle == ~decoding => outcome = "ok"
<1>1. Init => Idle
  BY DEF Init
<1>2. Idle /\ [Next]_vars => Idle'
  BY DEF Next, DecodeWord, DecodeReturns, GetTimingState, SetTimingState, ResetTimestamps, vars
<1>. QED  BY <1>1, <1>2, PTL DEF Spec

(* process_word resets prev_word before it returns a violation: a word     *)
(* that is refused leaves no trace in the clock, the row or the buffers,   *)
(* and no vector word is accepted until the next base.                     *)
THEOREM RefusedLeavesNoTrace ==
    Spec => RefusedWordIsInert
<1> DEFINE Idle == ~decoding => outcome = "ok"
           Refused == outcome' \notin {"ok", "NonMonotonicTimeHigh", "NonContinuousTimeHigh"}
           Inert == ~InVector' /\ UNCHANGED <<clock, y, buffers>>
<1>1. Idle /\ [Next]_vars => [Refused => Inert]_vars
  <2>1. SUFFICES ASSUME Idle, Next, Refused PROVE Inert
    OBVIOUS
  <2>2. CASE DecodeWord
    <3>1. prev_word' = None /\ UNCHANGED <<clock, y, buffers>>
      BY <2>1, <2>2, RefusedOrAccepted DEF DecodeWord, Accepted
    <3>2. ~InVector'
      BY <3>1, NoWordAssumption DEF InVector, EVTWord
    <3>. QED  BY <3>1, <3>2
  <2>3. CASE ~DecodeWord
    <3>1. outcome' = "ok"
      BY <2>1, <2>3 DEF Next, DecodeReturns, GetTimingState, SetTimingState, ResetTimestamps
    <3>. QED  BY <2>1, <3>1
  <2>. QED  BY <2>2, <2>3
<1>2. Spec => []Idle
  BY QuietBetweenCalls
<1>. QED  BY <1>1, <1>2, PTL DEF Spec, RefusedWordIsInert, Inert, Refused
=============================================================================
