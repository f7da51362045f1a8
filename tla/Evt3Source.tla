----------------------------- MODULE Evt3Source -----------------------------
(***************************************************************************)
(* The EVT3 clock driven by a sensor.  The sensor's time is unbounded; it  *)
(* puts the time of an event into the stream as the two fields of its low  *)
(* 24 bits, and sends time_high words on its own while nothing happens.    *)
(* Multiplexing may deliver an event up to Jitter late, after words that   *)
(* carry later times.  Is the time the decoder reconstructs the sensor's?  *)
(***************************************************************************)
EXTENDS Evt3Timing

CONSTANTS MaxGap,        \* longest time between two events
          Jitter,        \* how late an event may come
          MaxSensorTime  \* bound on the sensor's time

ASSUME SourceAssumption ==
    MaxGap \in Nat /\ Jitter \in Nat /\ MaxSensorTime \in Nat /\ Period = 2 * Half

VARIABLES timing,  \* the decoder's clock
          base,    \* sensor time rounded down to a multiple of Period
          phase,   \* and the rest of it
          gap,     \* time since the newest event
          abs,     \* absolute time the decoder gave the latest event
          orderly \* no event came late, or half a period after the one before

sourceVars == <<timing, base, phase, gap, abs, orderly>>

SourceInit ==
    /\ timing = InitClock
    /\ base = 0
    /\ phase = 0
    /\ gap = 0
    /\ abs = 0
    /\ orderly = TRUE

(* The fields that carry a 24-bit value. *)
Fields(p) == {f \in (0..HIGHS - 1) \X (0..LOWS - 1) : f[1] * LOWS + f[2] = p}

(* Time passes; a time_high word tells so. *)
Quiet(d) ==
    /\ gap + d <= MaxGap
    /\ base + phase + d <= MaxSensorTime
    /\ gap' = gap + d
    /\ IF phase + d < Period THEN phase' = phase + d /\ UNCHANGED base
                             ELSE phase' = phase + d - Period /\ base' = base + Period
    /\ \E f \in Fields(phase') : timing' = TimeHigh(timing, f[1])
    /\ UNCHANGED <<abs, orderly>>

(* An event of the given lateness: its time words, then the event word.    *)
(* Late events can move the decoder's time on without end, hence a bound.  *)
Event(late) ==
    /\ late <= base + phase
    /\ timing.offset <= MaxSensorTime
    /\ \E f \in Fields(IF late <= phase THEN phase - late ELSE phase - late + Period) :
          timing' = Sample(TimeLow(TimeHigh(timing, f[1]), f[2]))
    /\ abs' = timing'.offset + timing'.last24
    /\ gap' = IF late = 0 THEN 0 ELSE gap
    /\ orderly' = (orderly /\ late = 0 /\ gap < Half)
    /\ UNCHANGED <<base, phase>>

SourceNext ==
    \/ \E d \in 1..Period - 1 : Quiet(d)
    \/ \E late \in 0..Jitter : Event(late)

SourceSpec == SourceInit /\ [][SourceNext]_sourceVars

SourceTypeOK ==
    /\ timing \in Clock
    /\ base \in Nat /\ phase \in 0..Period - 1
    /\ gap \in Nat /\ abs \in Nat /\ orderly \in BOOLEAN

(* "The decoder tracks wrap-around": as long as events come in order and   *)
(* less than half a period apart, the time the decoder gave the newest one *)
(* is the sensor's time of that event, over any number of rollovers.       *)
TracksWrapAround == orderly => abs = base + phase - gap

(* "It is a genuine hardware counter rollover": the decoder never counts   *)
(* more rollovers than the sensor's counter made.  The code breaks this    *)
(* when an event comes late (README, section 8), so no run checks it.      *)
GenuineRollover == timing.offset <= base

(* Whatever comes late, the time of an event is never further back from    *)
(* the time of the one before than the threshold.                          *)
BackwardBounded == [][abs' >= abs - Half]_sourceVars

(* The inductive invariant of TracksWrapAround: while no event came since  *)
(* the sensor rolled over, the decoder is one Period behind.               *)
SourceInv ==
    /\ TracksWrapAround
    /\ orderly /\ gap < Half =>
          IF gap <= phase THEN timing.offset = base /\ timing.last24 = phase - gap
          ELSE timing.offset = base - Period /\ timing.last24 = phase - gap + Period

=============================================================================
