----------------------------- MODULE Evt3Timing -----------------------------
(***************************************************************************)
(* The clock of the EVT3 decoder (src/hal/decoders/evt3.rs).  A stream     *)
(* carries a time as two fields of 12 bits; the decoder puts them together *)
(* when an event asks for a timestamp and counts the rollovers of the      *)
(* 24-bit value.  The widths are constants, so that TLC can use small ones.*)
(* prev_time_high is left out: it is written and never read.               *)
(***************************************************************************)
EXTENDS Integers

CONSTANTS
    HIGHS,      \* values of time_high   (1 << 12 in the code)
    LOWS,       \* values of time_low    (1 << 12)
    Period,     \* HIGHS * LOWS          (1 << 24)
    Half,       \* rollover threshold    (1 << 23)
    WRAP_FROM,  \* a wrap leaves a time_high above this one   (0xF00)
    WRAP_TO,    \* and reaches one below this one             (0x0FF)
    MAX_STEP,   \* largest step of time_high taken as normal  (10)
    DoShift,    \* do_time_shift
    None

ASSUME WidthsAssumption ==
    /\ HIGHS \in Nat \ {0} /\ LOWS \in Nat \ {0}
    /\ Period \in Nat /\ Half \in Nat /\ Half < Period
    /\ \A h \in 0..HIGHS - 1, l \in 0..LOWS - 1 : h * LOWS + l \in 0..Period - 1
ASSUME ShiftAssumption == DoShift \in BOOLEAN
ASSUME NoneAssumption == None \notin Nat

Clock == [high : 0..HIGHS - 1, low : 0..LOWS - 1,
          offset : Nat,               \* time_offset
          last24 : 0..Period - 1,     \* last_t24
          first  : Nat \union {None}, \* first_ts
          last   : Nat]               \* last_t

InitClock == [high |-> 0, low |-> 0, offset |-> 0, last24 |-> 0, first |-> None, last |-> 0]

T24(c) == c.high * LOWS + c.low

(* A definition called Mutant_X is X with a plausible bug, for the         *)
(* mutation runs; nothing else uses it.                                    *)

(* The 24-bit value dropped by more than half its range: a rollover.       *)
RolledOver(c) == T24(c) < c.last24 /\ c.last24 - T24(c) > Half

Mutant_Offset(c) == c.offset
Offset(c) == IF RolledOver(c) THEN c.offset + Period ELSE c.offset

AbsTime(c) == Offset(c) + T24(c)

First(c) == IF c.first = None THEN AbsTime(c) ELSE c.first

Mutant_SaturatingSub(a, b) == a - b
SaturatingSub(a, b) == IF a < b THEN 0 ELSE a - b

(* current_timestamp, called for an event; the event's time is the new     *)
(* value of last.                                                          *)
Sample(c) ==
    [c EXCEPT !.offset = Offset(c),
              !.last24 = T24(c),
              !.first  = IF DoShift THEN First(c) ELSE c.first,
              !.last   = IF DoShift THEN SaturatingSub(AbsTime(c), First(c)) ELSE AbsTime(c)]

(* The words that set the clock.  A time_high out of step is reported once *)
(* a first timestamp is known, and taken all the same.                     *)
TimeLow(c, l) == [c EXCEPT !.low = l]
TimeHigh(c, h) == [c EXCEPT !.high = h]

Wraps(c, h) == c.high > WRAP_FROM /\ h < WRAP_TO

TimeHighOutcome(c, h) ==
    IF c.first = None THEN "ok"
    ELSE IF h < c.high /\ ~Wraps(c, h) THEN "NonMonotonicTimeHigh"
    ELSE IF h > c.high + MAX_STEP THEN "NonContinuousTimeHigh"
    ELSE "ok"

(* get_timing_state and set_timing_state: all of it but the time shift.    *)
TimingState == [high : 0..HIGHS - 1, low : 0..LOWS - 1, offset : Nat,
                last24 : 0..Period - 1, last : Nat]

Snapshot(c) == [high |-> c.high, low |-> c.low, offset |-> c.offset,
                last24 |-> c.last24, last |-> c.last]
Mutant_Restore(c, s) == [c EXCEPT !.high = s.high, !.low = s.low, !.offset = s.offset,
                                  !.last = s.last]
Restore(c, s) == [c EXCEPT !.high = s.high, !.low = s.low, !.offset = s.offset,
                           !.last24 = s.last24, !.last = s.last]

=============================================================================
