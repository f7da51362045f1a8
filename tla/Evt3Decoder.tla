---------------------------- MODULE Evt3Decoder ----------------------------
(***************************************************************************)
(* The word machine of the EVT3 decoder (src/hal/decoders/evt3.rs):        *)
(* process_word over any sequence of words, the batching of what it emits, *)
(* and what callers may do between two calls of decode.  A word is its     *)
(* class and the fields the decoder reads.  Left out: polarity, channel    *)
(* and value of an event, and the payload of an Others sequence, which     *)
(* nothing reads; the split byte between two chunks.                       *)
(***************************************************************************)
EXTENDS Evt3Timing, FiniteSets

CONSTANTS
    XS, YS,        \* values of the x and the y field   (1 << 11 in the code)
    MAX_X, MAX_Y,  \* max_x and max_y: the header's width and height
    VEC12, VEC8,   \* pixels of a vector word           (12 and 8)
    BATCH_SIZE,    \* 4096
    PAYLOAD_BITS,  \* width of payload_accumulator      (64)
    CONT12, CONT4, \* bits of a continued word          (12 and 4)
    Shifts,        \* arguments of the reset_ calls that are tried
    MaxTime        \* bound on the decoder's time

ASSUME DecoderAssumption ==
    /\ XS \in Nat \ {0} /\ YS \in Nat /\ MAX_X \in Nat /\ MAX_Y \in Nat
    /\ VEC12 \in Nat \ {0} /\ VEC8 \in Nat \ {0}
    /\ BATCH_SIZE \in Nat \ {0} /\ PAYLOAD_BITS \in Nat \ {0}
    /\ CONT12 \in Nat /\ CONT4 \in 0..CONT12
    /\ Shifts \subseteq Nat /\ MaxTime \in Nat

VARIABLES
    clock,               \* time_high .. last_t (Evt3Timing)
    y, base_x,           \* the row, and the x of the next vector word
    prev_word,
    payload_bit_shift,
    cd_buffer,           \* number of events waiting for dispatch
    ext_trigger_buffer,
    decoding,            \* inside a call of decode
    saved,               \* a timing state a caller kept
    \* what the latest word did
    emitted,             \* pixels of its CD events
    outcome,             \* process_word's result
    \* what the stream said
    rowSeen,             \* an AddrY came since the last set_timing_state
    vectX                \* the x of the latest vector base plus the pixels since

stream == <<rowSeen, vectX>>
buffers == <<cd_buffer, ext_trigger_buffer>>
vars == <<clock, y, base_x, prev_word, payload_bit_shift, buffers, decoding, saved,
          emitted, outcome, stream>>

EVTWord == {"AddrY", "AddrX", "VectBaseX", "Vect12", "Vect8", "TimeLow", "TimeHigh",
            "Continued4", "ExtTrigger", "Others", "Continued12"}

Outcomes == {"ok", "UnsupportedWord", "MissingYAddr", "OutOfBoundsEventCoordinate",
             "InvalidVectBase", "NonMonotonicTimeHigh", "NonContinuousTimeHigh",
             "PartialContinued"}

ASSUME NoWordAssumption == None \notin EVTWord

Init ==
    /\ clock = InitClock
    /\ y = None /\ base_x = 0 /\ prev_word = None /\ payload_bit_shift = 0
    /\ cd_buffer = 0 /\ ext_trigger_buffer = 0
    /\ decoding = FALSE /\ saved = None
    /\ emitted = {} /\ outcome = "ok"
    /\ rowSeen = FALSE /\ vectX = 0

-----------------------------------------------------------------------------
(* The decisions of the code.  Mutant_X is X with a plausible bug.         *)

Mutant_Full(cd, ext) == cd > BATCH_SIZE \/ ext > BATCH_SIZE
Full(cd, ext) == cd >= BATCH_SIZE \/ ext >= BATCH_SIZE

(* What dispatch leaves in the two buffers. *)
Dispatched(cd, ext) == <<0, 0>>

HasRow == y # None

VectorFits(n) == base_x + (n - 1) <= MAX_X

CanShift == payload_bit_shift < PAYLOAD_BITS

(* The row and the previous word after set_timing_state. *)
RestoredRow == None
RestoredWord == None

SetBuffers(left) == cd_buffer' = left[1] /\ ext_trigger_buffer' = left[2]

(* Tail of an accepted word: its events are pushed, full buffers go.       *)
Emit(cds, exts) ==
    LET cd == cd_buffer + Cardinality(cds)
        ext == ext_trigger_buffer + exts
    IN  /\ emitted' = cds
        /\ outcome' = "ok"
        /\ SetBuffers(IF Full(cd, ext) THEN Dispatched(cd, ext) ELSE <<cd, ext>>)

(* reset(), and the word is refused. *)
Mutant_Reject(violation) ==
    /\ outcome' = violation
    /\ emitted' = {}
    /\ UNCHANGED <<prev_word, clock, y, base_x, payload_bit_shift, buffers, rowSeen>>
Reject(violation) ==
    /\ outcome' = violation
    /\ emitted' = {}
    /\ prev_word' = None
    /\ UNCHANGED <<clock, y, base_x, payload_bit_shift, buffers, rowSeen>>

-----------------------------------------------------------------------------
(* One action per class of words. *)

AddrY(v) ==
    /\ y' = v /\ rowSeen' = TRUE
    /\ prev_word' = "AddrY"
    /\ Emit({}, 0)
    /\ UNCHANGED <<clock, base_x, payload_bit_shift, vectX>>

(* A row off the sensor is dropped in silence, and so is the word's trace. *)
AddrX(x) ==
    /\ UNCHANGED vectX
    /\ \/ ~HasRow /\ Reject("MissingYAddr")
       \/ HasRow /\ x > MAX_X /\ Reject("OutOfBoundsEventCoordinate")
       \/ /\ HasRow /\ x <= MAX_X
          /\ IF y < MAX_Y
             THEN clock' = Sample(clock) /\ Emit({<<x, y>>}, 0) /\ prev_word' = "AddrX"
             ELSE Emit({}, 0) /\ UNCHANGED <<clock, prev_word>>
          /\ UNCHANGED <<y, base_x, payload_bit_shift, rowSeen>>

VectBaseX(x) ==
    /\ vectX' = x
    /\ \/ ~HasRow /\ Reject("MissingYAddr")
       \/ /\ HasRow
          /\ base_x' = x
          /\ prev_word' = "VectBaseX"
          /\ Emit({}, 0)
          /\ UNCHANGED <<clock, y, payload_bit_shift, rowSeen>>

(* The bits of the word are the pixels from base_x on. *)
Vect(type, n, bits) ==
    /\ vectX' = vectX + n
    /\ \/ prev_word \notin {"VectBaseX", "Vect12"} /\ Reject("InvalidVectBase")
       \/ /\ prev_word \in {"VectBaseX", "Vect12"}
          /\ ~VectorFits(n)
          /\ Reject("OutOfBoundsEventCoordinate")
       \/ /\ prev_word \in {"VectBaseX", "Vect12"}
          /\ VectorFits(n)
          /\ clock' = Sample(clock)
          /\ Emit(IF y < MAX_Y THEN {<<base_x + i, y>> : i \in bits} ELSE {}, 0)
          /\ base_x' = base_x + n
          /\ prev_word' = type
          /\ UNCHANGED <<y, payload_bit_shift, rowSeen>>

ExtTrigger ==
    /\ clock' = Sample(clock)
    /\ prev_word' = "ExtTrigger"
    /\ Emit({}, 1)
    /\ UNCHANGED <<y, base_x, payload_bit_shift, stream>>

TimeLowWord(l) ==
    /\ clock' = TimeLow(clock, l)
    /\ prev_word' = "TimeLow"
    /\ Emit({}, 0)
    /\ UNCHANGED <<y, base_x, payload_bit_shift, stream>>

(* A violation is returned before the full buffers go. *)
TimeHighWord(h) ==
    /\ clock' = TimeHigh(clock, h)
    /\ prev_word' = "TimeHigh"
    /\ outcome' = TimeHighOutcome(clock, h)
    /\ emitted' = {}
    /\ UNCHANGED <<y, base_x, payload_bit_shift, buffers, stream>>

(* An orphan is swallowed; it is not a violation. *)
Continued(type, n, after) ==
    /\ UNCHANGED <<y, base_x, clock, stream>>
    /\ \/ /\ prev_word \notin after
          /\ payload_bit_shift' = 0
          /\ prev_word' = None
          /\ outcome' = "ok" /\ emitted' = {}
          /\ UNCHANGED buffers
       \/ prev_word \in after /\ ~CanShift /\ Reject("PartialContinued")
       \/ /\ prev_word \in after /\ CanShift
          /\ payload_bit_shift' = payload_bit_shift + n
          /\ prev_word' = type
          /\ Emit({}, 0)

Others ==
    /\ payload_bit_shift' = 0
    /\ prev_word' = "Others"
    /\ Emit({}, 0)
    /\ UNCHANGED <<clock, y, base_x, stream>>

Unsupported == Reject("UnsupportedWord") /\ UNCHANGED vectX

(* process_word. *)
Word ==
    \/ \E v \in 0..YS - 1 : AddrY(v)
    \/ \E x \in 0..XS - 1 : AddrX(x)
    \/ \E x \in 0..XS - 1 : VectBaseX(x)
    \/ \E bits \in SUBSET (0..VEC12 - 1) : Vect("Vect12", VEC12, bits)
    \/ \E bits \in SUBSET (0..VEC8 - 1) : Vect("Vect8", VEC8, bits)
    \/ ExtTrigger
    \/ \E l \in 0..LOWS - 1 : TimeLowWord(l)
    \/ \E h \in 0..HIGHS - 1 : TimeHighWord(h)
    \/ Continued("Continued12", CONT12, {"Others", "Continued12"})
    \/ Continued("Continued4", CONT4, {"Others", "Continued12", "Continued4"})
    \/ Others
    \/ Unsupported

DecodeWord ==
    /\ Offset(clock) <= MaxTime
    /\ vectX <= MAX_X + XS
    /\ Word
    /\ decoding' = TRUE
    /\ UNCHANGED saved

(* The end of decode, and flush. *)
DecodeReturns ==
    /\ decoding
    /\ decoding' = FALSE
    /\ SetBuffers(Dispatched(cd_buffer, ext_trigger_buffer))
    /\ emitted' = {} /\ outcome' = "ok"
    /\ UNCHANGED <<clock, y, base_x, prev_word, payload_bit_shift, saved, stream>>

-----------------------------------------------------------------------------
(* Between two calls. *)

GetTimingState ==
    /\ ~decoding
    /\ saved' = Snapshot(clock)
    /\ UNCHANGED <<clock, y, base_x, prev_word, payload_bit_shift, buffers, decoding,
                   emitted, outcome, stream>>

SetTimingState ==
    /\ ~decoding /\ saved # None
    /\ clock' = Restore(clock, saved)
    /\ y' = RestoredRow /\ rowSeen' = FALSE
    /\ base_x' = 0 /\ prev_word' = RestoredWord /\ payload_bit_shift' = 0
    /\ UNCHANGED <<buffers, decoding, saved, emitted, outcome, vectX>>

(* reset_timestamp_shift and reset_last_timestamp. *)
ResetTimestamps(c) ==
    /\ ~decoding
    /\ clock' = c
    /\ UNCHANGED <<y, base_x, prev_word, payload_bit_shift, buffers, decoding, saved,
                   emitted, outcome, stream>>

Next ==
    \/ DecodeWord
    \/ DecodeReturns
    \/ GetTimingState
    \/ SetTimingState
    \/ \E s \in Shifts : ResetTimestamps([clock EXCEPT !.first = s])
    \/ \E s \in Shifts : ResetTimestamps([clock EXCEPT !.last = s])

Spec == Init /\ [][Next]_vars

-----------------------------------------------------------------------------
TypeOK ==
    /\ clock \in Clock
    /\ y \in 0..YS - 1 \union {None} /\ base_x \in Nat
    /\ prev_word \in EVTWord \union {None}
    /\ payload_bit_shift \in Nat
    /\ cd_buffer \in Nat /\ ext_trigger_buffer \in Nat
    /\ decoding \in BOOLEAN
    /\ saved \in TimingState \union {None}
    /\ emitted \subseteq Nat \X (0..YS - 1)
    /\ outcome \in Outcomes
    /\ rowSeen \in BOOLEAN /\ vectX \in Nat

InVector == prev_word \in {"VectBaseX", "Vect12"}

(* A vector word is accepted only in a state with a row: the unwrap() of y *)
(* never fails.  No word checks it where y is used: it rests on which      *)
(* words may stand between the base and the vector.                        *)
VectorHasRow == InVector => y # None

(* An event is on the sensor as the decoder sees it, and nothing a caller  *)
(* does between two words changes that.                                    *)
EmittedInBounds == \A e \in emitted : e[1] <= MAX_X /\ e[2] < MAX_Y

(* After set_timing_state no event carries a row from before the jump.     *)
NoStaleRow == emitted # {} => rowSeen

(* Between two words neither buffer holds a full batch, however a word     *)
(* that emits many events and words that return early follow each other.   *)
BuffersBounded == cd_buffer < BATCH_SIZE /\ ext_trigger_buffer < BATCH_SIZE

(* When decode returns, every event it decoded has been delivered.         *)
NothingLeftBehind == ~decoding => cd_buffer = 0 /\ ext_trigger_buffer = 0

(* The pixels of a vector word lie where the stream says: a word that was  *)
(* refused or skipped since the base never shifts the ones after it.       *)
VectorAligned == InVector => base_x = vectX

(* Neither base_x nor the shift of the payload (a u8) outgrows its type:   *)
(* however long a sequence of continued words is, it is cut off in time.   *)
WidthsHold ==
    /\ payload_bit_shift < PAYLOAD_BITS + CONT12
    /\ base_x <= MAX_X + XS

(* A refused word leaves no trace: neither the clock nor the row nor an    *)
(* event waiting for dispatch changes, and no vector word is accepted      *)
(* until the next base.                                                    *)
RefusedWordIsInert ==
    [][outcome' \notin {"ok", "NonMonotonicTimeHigh", "NonContinuousTimeHigh"} =>
          /\ ~InVector'
          /\ UNCHANGED <<clock, y, buffers>>]_vars

(* Every pixel is on the sensor, in a row that came after the last jump,   *)
(* and where the stream of words put it.                                   *)
PixelsInPlace == VectorHasRow /\ EmittedInBounds /\ NoStaleRow /\ VectorAligned

(* Buffers are flushed in time and registers keep their widths.            *)
WithinBounds == BuffersBounded /\ NothingLeftBehind /\ WidthsHold

(* The inductive invariant of the invariants above: a row in use came      *)
(* after the last jump, and no result of a word outlives decode.           *)
RowInv ==
    /\ y # None => rowSeen
    /\ ~decoding => emitted = {}
    /\ VectorHasRow

DecoderInv ==
    /\ TypeOK /\ RowInv /\ VectorAligned /\ EmittedInBounds
    /\ BuffersBounded /\ NothingLeftBehind /\ WidthsHold /\ NoStaleRow

=============================================================================
