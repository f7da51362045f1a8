--------------------------- MODULE TimestampIndex ---------------------------
(***************************************************************************)
(* The timestamp index of a raw file (src/devices/raw/index.rs) and what a *)
(* reader does with it: seeks, and reads of the stream into the decoder.   *)
(*                                                                         *)
(* A file is a sequence of two-byte words, and perhaps half a word more.   *)
(* Byte b of the file belongs to word b \div 2 + 1.  A read of a file      *)
(* returns a full buffer unless the file ends first.                       *)
(*                                                                         *)
(* build_index drives the clock of a decoder of its own over all words of  *)
(* the file, and counts every event word as a sample; the reader's decoder *)
(* samples its clock at the events it accepts.  The clock is Evt3Timing's. *)
(***************************************************************************)
EXTENDS Evt3Timing, Sequences, FiniteSets

CONSTANTS Files,            \* sequences of words
          IndexBuffer,      \* bytes of one read of build_index (65536)
          ChunkSize,        \* chunk_size_bytes                 (1 << 20)
          StreamBuffer,     \* N of RawEventStream
          Targets,          \* timestamps asked for
          MaxSeeks, MaxReads

Kinds == {"low", "high", "row", "x", "far", "ext"}

(* "far" is an AddrX word the sensor has no pixel for.                     *)
EventWords == {"x", "far", "ext"}

ASSUME FilesAssumption ==
    /\ \A f \in Files :
          /\ f.words \in Seq([kind : Kinds, v : Nat])
          /\ f.trailing \in 0..1
          /\ \A w \in DOMAIN f.words :
                /\ f.words[w].kind = "low" => f.words[w].v < LOWS
                /\ f.words[w].kind = "high" => f.words[w].v < HIGHS
    /\ {IndexBuffer, ChunkSize, StreamBuffer} \subseteq Nat \ {0}
    /\ IndexBuffer % 2 = 0
    /\ Targets \subseteq Nat /\ MaxSeeks \in Nat /\ MaxReads \in Nat

VARIABLES
    file,
    current_byte_offset, last_marked_offset,   \* of build_index
    scan,       \* the clock of build_index
    timeline,   \* for each word it has sampled, the clock it gave (a history)
    index,      \* markers, t_min and t_max; None while it is built
    markers,
    pos, eof,   \* the reader's stream
    clock, y, split_byte,       \* its decoder
    resumed,    \* byte offset the stream was last moved to, and the target
    decoded,    \* events decoded since then: the words, or None for one
                \* put together from bytes of two, and the times
    seeks, reads

vars == <<file, current_byte_offset, last_marked_offset, scan, timeline, index,
          markers, pos, eof, clock, y, split_byte, resumed, decoded, seeks, reads>>

building == <<current_byte_offset, last_marked_offset, scan, timeline, markers>>
decoder == <<clock, y, split_byte, decoded>>

Size == 2 * Len(file.words) + file.trailing
Word(b) == file.words[b \div 2 + 1]

(* The word numbers whose bytes all lie in first..last - 1. *)
WordsIn(first, last) == {w \in DOMAIN file.words : 2 * w - 2 >= first /\ 2 * w <= last}

-----------------------------------------------------------------------------
(* Building the index.  Mutant_X is X with a plausible bug, for the        *)
(* mutation runs; nothing else uses it.                                    *)

Marker(offset, timestamp, c) ==
    [byte_offset |-> offset, timestamp |-> timestamp, state |-> Snapshot(c)]

Scan(c, word) ==
    CASE word.kind = "low"  -> TimeLow(c, word.v)
      [] word.kind = "high" -> TimeHigh(c, word.v)
      [] word.kind \in EventWords -> Sample(c)
      [] OTHER -> c

(* The clock after each word from w on, up to the last. *)
ScanAll(c, first, last) ==
    LET after[w \in first - 1..last] ==
            IF w < first THEN c ELSE Scan(after[w - 1], file.words[w])
    IN  after

(* Reads are of an even number of bytes, but for the last one of a file    *)
(* that ends within a word: its last byte is dropped.                      *)
IndexRead ==
    /\ index = None /\ current_byte_offset < Size
    /\ LET upto  == IF current_byte_offset + IndexBuffer < Size
                    THEN current_byte_offset + IndexBuffer ELSE Size
           first == current_byte_offset \div 2 + 1
           after == ScanAll(scan, first, upto \div 2)
       IN  /\ current_byte_offset' = upto
           /\ scan' = after[upto \div 2]
           /\ timeline' = [w \in DOMAIN timeline
                             \union {v \in first..upto \div 2 : file.words[v].kind \in EventWords} |->
                               IF w \in DOMAIN timeline THEN timeline[w] ELSE after[w]]
           /\ IF upto - last_marked_offset >= ChunkSize
              THEN /\ markers' = Append(markers, Marker(upto, scan'.last, scan'))
                   /\ last_marked_offset' = upto
              ELSE UNCHANGED <<markers, last_marked_offset>>
    /\ UNCHANGED <<file, index, pos, eof, resumed, seeks, reads, decoder>>

ShiftOf(c) == IF c.first = None THEN 0 ELSE c.first

IndexDone ==
    /\ index = None /\ current_byte_offset = Size
    /\ index' = [markers |-> markers, t_min |-> ShiftOf(scan), t_max |-> scan.last]
    /\ UNCHANGED <<file, pos, eof, resumed, seeks, reads, building, decoder>>

-----------------------------------------------------------------------------
(* Looking up a marker: the binary search returns any marker of the target *)
(* timestamp, else the one before the place it would be inserted at; if    *)
(* the markers are not sorted it returns any, or none.                     *)

Timestamp(i) == index.markers[i].timestamp
Sorted == \A i, j \in DOMAIN index.markers : i < j => Timestamp(i) <= Timestamp(j)

(* Where target_ts would be inserted, as the number of markers before it.  *)
Before(target_ts) == Cardinality({i \in DOMAIN index.markers : Timestamp(i) < target_ts})

Mutant_ClosestMarkers(target_ts) ==
    LET equal == {i \in DOMAIN index.markers : Timestamp(i) = target_ts}
    IN  IF ~Sorted THEN DOMAIN index.markers
        ELSE IF equal # {} THEN equal
        ELSE {Before(target_ts) + 1} \intersect DOMAIN index.markers
ClosestMarkers(target_ts) ==
    LET equal == {i \in DOMAIN index.markers : Timestamp(i) = target_ts}
    IN  IF ~Sorted THEN DOMAIN index.markers
        ELSE IF equal # {} THEN equal
        ELSE {Before(target_ts)} \intersect DOMAIN index.markers

(* set_timing_state: the clock of the marker, and nothing of the row, the  *)
(* vector or the split word that was being decoded.  The time shift stays. *)
Mutant_Resume(state) ==
    /\ clock' = Restore(clock, state)
    /\ y' = FALSE
    /\ UNCHANGED split_byte
Resume(state) ==
    /\ clock' = Restore(clock, state)
    /\ y' = FALSE
    /\ split_byte' = None

(* seek: a target before all markers leaves everything as it is. *)
SeekTo(ts) ==
    /\ index # None /\ seeks < MaxSeeks
    /\ seeks' = seeks + 1
    /\ \/ \E i \in ClosestMarkers(ts) :
             LET marker == index.markers[i]
             IN  /\ pos' = marker.byte_offset
                 /\ eof' = FALSE
                 /\ Resume(marker.state)
                 /\ resumed' = [at |-> marker.byte_offset, target |-> ts]
                 /\ decoded' = <<>>
       \/ /\ ClosestMarkers(ts) = {} \/ ~Sorted
          /\ UNCHANGED <<pos, eof, resumed, decoder>>
    /\ UNCHANGED <<file, index, reads, building>>

-----------------------------------------------------------------------------
(* Reading the stream and decoding what was read.                          *)

State == [clock |-> clock, y |-> y, decoded |-> decoded]

Decoded(d, w) ==
    LET c == Sample(d.clock)
    IN  [d EXCEPT !.clock = c, !.decoded = Append(@, [word |-> w, t |-> c.last])]

(* process_word.  Only accepted events are samples of the clock. *)
ProcessWord(d, w) ==
    LET word == file.words[w]
    IN  CASE word.kind = "low"  -> [d EXCEPT !.clock = TimeLow(@, word.v)]
          [] word.kind = "high" -> [d EXCEPT !.clock = TimeHigh(@, word.v)]
          [] word.kind = "row"  -> [d EXCEPT !.y = TRUE]
          [] word.kind = "ext" \/ (word.kind = "x" /\ d.y) -> Decoded(d, w)
          [] OTHER -> d

(* Two bytes that were not written as one word: what they stand for        *)
(* depends on data the model leaves out.  An event it is not.              *)
TornWord(d) == [d EXCEPT !.decoded = Append(@, [word |-> None, t |-> 0])]

(* The words of a decode call are at bytes first, first + 2, ...           *)
DecodeWords(d, first, count) ==
    LET after[n \in 0..count] ==
            IF n = 0 THEN d
            ELSE LET b == first + 2 * (n - 1)
                 IN  IF b % 2 = 0 THEN ProcessWord(after[n - 1], b \div 2 + 1)
                                  ELSE TornWord(after[n - 1])
    IN  after[count]

(* A call of decode with the bytes from..upto - 1; a byte kept from the    *)
(* call before makes a word with the first one.                            *)
Decode(from, upto) ==
    LET kept  == split_byte # None
        whole == kept => split_byte + 1 = from
        d     == IF ~kept THEN DecodeWords(State, from, (upto - from) \div 2)
                 ELSE IF whole THEN DecodeWords(State, split_byte, (upto - split_byte) \div 2)
                 ELSE DecodeWords(TornWord(State), from + 1, (upto - from - 1) \div 2)
        odd   == (upto - from + (IF kept THEN 1 ELSE 0)) % 2 = 1
    IN  /\ clock' = d.clock
        /\ y' = d.y
        /\ decoded' = d.decoded
        /\ split_byte' = IF odd THEN upto - 1 ELSE None

(* load_batch: at the end of the file the stream latches eof. *)
LoadBatch ==
    /\ index # None /\ reads < MaxReads
    /\ ~eof
    /\ reads' = reads + 1
    /\ IF pos = Size THEN eof' = TRUE /\ UNCHANGED <<pos, decoder>>
       ELSE LET upto == IF pos + StreamBuffer < Size THEN pos + StreamBuffer ELSE Size
            IN  /\ Decode(pos, upto)
                /\ pos' = upto
                /\ UNCHANGED eof
    /\ UNCHANGED <<file, index, resumed, seeks, building>>

-----------------------------------------------------------------------------

Init ==
    /\ file \in Files
    /\ current_byte_offset = 0 /\ last_marked_offset = 0
    /\ scan = InitClock /\ timeline = <<>>
    /\ markers = <<Marker(0, 0, InitClock)>>
    /\ index = None
    /\ pos = 0 /\ eof = FALSE
    /\ clock = InitClock /\ y = FALSE /\ split_byte = None
    /\ resumed = [at |-> 0, target |-> 0]
    /\ decoded = <<>>
    /\ seeks = 0 /\ reads = 0

Next ==
    \/ IndexRead
    \/ IndexDone
    \/ \E ts \in Targets : SeekTo(ts)
    \/ LoadBatch

Spec == Init /\ [][Next]_vars

-----------------------------------------------------------------------------
Markers == [byte_offset : 0..Size, timestamp : Nat, state : TimingState]
DecodedEvents == [word : DOMAIN file.words \union {None}, t : Nat]

(* Every variable holds a value of its type. *)
TypeOK ==
    /\ file \in Files
    /\ current_byte_offset \in 0..Size /\ last_marked_offset \in 0..Size
    /\ scan \in Clock /\ clock \in Clock
    /\ DOMAIN timeline \subseteq DOMAIN file.words
    /\ \A w \in DOMAIN timeline : timeline[w] \in Clock
    /\ markers \in Seq(Markers)
    /\ index # None => /\ index.markers \in Seq(Markers)
                       /\ index.t_min \in Nat /\ index.t_max \in Nat
    /\ pos \in 0..Size /\ eof \in BOOLEAN /\ y \in BOOLEAN
    /\ split_byte \in 0..Size - 1 \union {None}
    /\ resumed.at \in 0..Size /\ resumed.target \in Nat
    /\ decoded \in Seq(DecodedEvents)
    /\ seeks \in 0..MaxSeeks /\ reads \in 0..MaxReads

(* What a decoder that starts at byte offset `at` with no row accepts.     *)
Acceptable(at) ==
    {w \in WordsIn(at, Size) :
        \/ file.words[w].kind = "ext"
        \/ /\ file.words[w].kind = "x"
           /\ \E v \in WordsIn(at, Size) : v < w /\ file.words[v].kind = "row"}

(* "The next decode call resumes from the chosen marker": from a marker to *)
(* the end of the file the decoder delivers every event that has its row   *)
(* there, each once and in order, wherever reads cut words in two, and     *)
(* never makes a word of bytes from both sides of a seek.                  *)
ResumesInStep ==
    /\ \A i \in DOMAIN decoded :
          /\ decoded[i].word \in Acceptable(resumed.at)
          /\ \A j \in 1..i - 1 : decoded[j].word < decoded[i].word
    /\ eof => {decoded[i].word : i \in DOMAIN decoded} = Acceptable(resumed.at)

(* The clock that the last sample among the first n words gave, and the    *)
(* one the index last sampled before a byte offset: a 24-bit value and the *)
(* rollovers that were counted.                                            *)
LastSample(samples, n) ==
    LET S == {w \in DOMAIN samples : w <= n}
    IN  IF S = {} THEN InitClock
        ELSE samples[CHOOSE w \in S : \A v \in S : v <= w]
SampledBefore(at) == LastSample(timeline, at \div 2)

Absolute(c) == c.offset + c.last24

(* One rollover at most between two samples, and one that can be told from *)
(* a late event.                                                           *)
Traceable(from, to) ==
    IF to.offset = from.offset THEN Absolute(to) >= Absolute(from) - Half
    ELSE Absolute(to) < Absolute(from) + Period - Half

(* "Jump near a requested timestamp and restore decoder state": after any  *)
(* seek an event gets the time it has on the index's timeline, although    *)
(* the decoder has not seen what came before, provided the decoder knows   *)
(* the file's first timestamp and no gap hides a rollover.                 *)
TimeAfterSeek ==
    \A i \in DOMAIN decoded :
        /\ clock.first = scan.first
        /\ \A j \in 1..i :
              Traceable(IF j = 1 THEN SampledBefore(resumed.at) ELSE timeline[decoded[j - 1].word],
                        timeline[decoded[j].word])
        => decoded[i].t = timeline[decoded[i].word].last

(* "Returns the closest marker occurring before or at target_ts": if the   *)
(* file's events come in order, no event later than the target lies before *)
(* the place the stream was moved to, and no later marker would do.        *)
SeekIsClosest ==
    (index # None /\ \A v, w \in DOMAIN timeline :
                         v < w => timeline[v].last <= timeline[w].last) =>
        /\ \A w \in DOMAIN timeline : 2 * w <= resumed.at => timeline[w].last <= resumed.target
        /\ \A i, j \in DOMAIN markers :
              markers[j].byte_offset = resumed.at /\ Timestamp(i) <= resumed.target
                  => Timestamp(i) <= Timestamp(j)

-----------------------------------------------------------------------------
(* What the properties rest on.  The fields of a clock that has seen the   *)
(* first n words are those of the latest time words.                       *)
Latest(field, kind, n) ==
    \/ field = 0 /\ \A w \in 1..n : file.words[w].kind # kind
    \/ \E w \in 1..n :
          /\ file.words[w].kind = kind /\ field = file.words[w].v
          /\ \A v \in w + 1..n : file.words[v].kind # kind
FieldsOf(c, n) == Latest(c.high, "high", n) /\ Latest(c.low, "low", n)

(* c has sampled last what d has. *)
Agrees(c, d) == c.offset = d.offset /\ c.last24 = d.last24

(* d counted as many rollovers as c, or one more, or more.                 *)
Follows(d, c) ==
    d.offset \in {c.offset, c.offset + Period} \/ d.offset >= c.offset + 2 * Period

(* The time of a sample, counted from the first one. *)
Shown(c, first) == IF DoShift THEN SaturatingSub(Absolute(c), first) ELSE Absolute(c)

Even(offset) == offset % 2 = 0 \/ offset = Size

(* What is known after n words: the clock's fields are the file's, it has  *)
(* sampled last what the samples say, and each sample has the time that is *)
(* shown for it and never lies a rollover before an earlier one.           *)
Indexed(c, samples, n) ==
    /\ FieldsOf(c, n)
    /\ Agrees(c, LastSample(samples, n)) /\ c.last = LastSample(samples, n).last
    /\ \A w \in DOMAIN samples : w <= n =>
          /\ FieldsOf(samples[w], w) /\ samples[w].last24 = T24(samples[w])
          /\ DoShift => c.first # None
          /\ samples[w].last = Shown(samples[w], c.first)
          /\ Follows(samples[w], InitClock)
          /\ \A v \in DOMAIN samples : v < w => Follows(samples[w], samples[v])

ScanInv ==
    /\ Even(current_byte_offset)
    /\ DOMAIN timeline = {w \in 1..current_byte_offset \div 2 : file.words[w].kind \in EventWords}
    /\ Indexed(scan, timeline, current_byte_offset \div 2)

(* A marker holds the clock the words before its offset left.              *)
MarkersInv ==
    /\ \A i \in DOMAIN markers :
          LET m == markers[i]
          IN  /\ Even(m.byte_offset) /\ m.byte_offset <= current_byte_offset
              /\ FieldsOf(m.state, m.byte_offset \div 2)
              /\ Agrees(m.state, SampledBefore(m.byte_offset))
              /\ m.timestamp = SampledBefore(m.byte_offset).last
              /\ \A j \in 1..i - 1 : markers[j].byte_offset <= m.byte_offset
    /\ index # None => index.markers = markers /\ current_byte_offset = Size

(* The decoder starts when the index is done.  It has decoded whole words, *)
(* and keeps the first byte of the next one if a read ended there.         *)
Reached == IF split_byte = None THEN pos ELSE split_byte

PositionInv ==
    /\ index = None => /\ State = [clock |-> InitClock, y |-> FALSE, decoded |-> <<>>]
                       /\ pos = 0 /\ split_byte = None /\ ~eof
                       /\ resumed = [at |-> 0, target |-> 0]
    /\ Even(Reached) /\ Even(resumed.at) /\ resumed.at <= Reached
    /\ split_byte # None => split_byte = pos - 1 /\ split_byte % 2 = 0
    /\ eof => pos = Size

(* A decoder that was moved to resumed.at and has reached word n there.    *)
Sampled(events, i) ==
    IF i = 0 THEN SampledBefore(resumed.at) ELSE timeline[events[i].word]
Traced(events, i) ==
    \A j \in 1..i : Traceable(Sampled(events, j - 1), Sampled(events, j))

InStep(d, n) ==
    /\ FieldsOf(d.clock, n)
    /\ d.y <=> \E v \in WordsIn(resumed.at, 2 * n) : file.words[v].kind = "row"
    /\ {d.decoded[i].word : i \in DOMAIN d.decoded} = {w \in Acceptable(resumed.at) : w <= n}
    /\ \A i, j \in DOMAIN d.decoded : j < i => d.decoded[j].word < d.decoded[i].word
    /\ d.decoded # <<>> /\ DoShift => d.clock.first # None
    /\ Traced(d.decoded, Len(d.decoded)) => Agrees(d.clock, Sampled(d.decoded, Len(d.decoded)))
    /\ \A i \in DOMAIN d.decoded : Traced(d.decoded, i) =>
          d.decoded[i].t = Shown(timeline[d.decoded[i].word], d.clock.first)

DecoderInv == InStep(State, Reached \div 2)

IndInv ==
    /\ TypeOK /\ ScanInv /\ MarkersInv /\ PositionInv /\ DecoderInv /\ SeekIsClosest

(* "Earliest timestamp in the indexed file" (FileIndex, types.rs:183): no  *)
(* event of a file read from its start is earlier than t_min, once the     *)
(* decoder knows the first timestamp the index knows.  The code breaks     *)
(* this (README, section 8), so no run checks it.                          *)
EarliestIsEarliest ==
    (index # None /\ clock.first = scan.first) =>
        \A i \in DOMAIN decoded : decoded[i].t >= index.t_min

=============================================================================
