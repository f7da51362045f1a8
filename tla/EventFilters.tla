---------------------------- MODULE EventFilters ----------------------------
(***************************************************************************)
(* The event filters and time surfaces of src/algorithms: a chain of       *)
(* filters that each keep what they need of the past, and the surfaces     *)
(* drawn from what the chain lets through.                                 *)
(*                                                                         *)
(* The chain runs in one of two ways.  A Rust Pipeline pulls one event     *)
(* through all filters before it takes the next; a Python host calls       *)
(* process of one filter after the other, each on a whole array, and keeps *)
(* the filters between its calls.                                          *)
(*                                                                         *)
(* Decaying surfaces hold floating-point values.  Here a linear value is   *)
(* counted in parts of 1.0, and an exponential value exp(-a / tau) is its  *)
(* exponent a, so that multiplying values adds exponents.  Left out: the   *)
(* rounding of both, and frequencies above 2^32.                           *)
(***************************************************************************)
EXTENDS Integers, Sequences, FiniteSetsExt

CONSTANTS Width, Height,           \* of the sensor
          Setups,                  \* chains of filters and what is fed to them
          FirstTimes,              \* times of the first event
          dt,                      \* of the trail, noise and contrast filters
          cut_trail,               \* of the contrast filter
          min_measurements, min_freq, max_freq,   \* of the anti-flicker filter
          MICROSECONDS_PER_SECOND,
          x0, x1, y0, y1,          \* of the region filter
          decay_time, tau          \* of the surfaces

Kinds == {"polarity", "roi", "trail", "noise", "contrast", "flicker"}
Modes == {"pipeline", "calls"}

ASSUME SensorAssumption ==
    /\ Width \in Nat \ {0} /\ Height \in Nat \ {0}
    /\ FirstTimes \subseteq Nat
    /\ {dt, min_freq, max_freq, decay_time, tau} \subseteq Nat
    /\ cut_trail \in BOOLEAN
    /\ min_measurements \in Nat \ {0} /\ MICROSECONDS_PER_SECOND \in Nat \ {0}
    /\ {x0, x1, y0, y1} \subseteq Nat
Pixels == (0..Width - 1) \X (0..Height - 1)

(* get_index checks no coordinates: events have to be of the sensor that   *)
(* the chain was made for, as the decoder's are (PixelsInPlace of          *)
(* Evt3Decoder).                                                           *)
ASSUME SetupsAssumption ==
    \A s \in Setups :
        /\ s.mode \in Modes /\ s.chain \in Seq(Kinds)
        /\ s.pixels \subseteq Pixels
        /\ s.length \in Nat             \* number of events
        /\ s.steps \subseteq Int        \* from the time of one event to the next
        /\ s.decays \in Nat             \* number of decay_to calls

VARIABLES
    setup,      \* the chain, how it is run, and the events fed to it
    filter,     \* the state of each filter
    queue,      \* arrays the host has yet to pass to each filter
    surface,    \* BaseTimeSurface, linear and exponential surface of the output
    log,        \* for each filter, the events it was given and its verdicts
    drawn,      \* the events the chain let through
    heard,      \* the times the surfaces were told, with the slot that was drawn
    clock, fed, \* time of the latest event, number of events
    decays

vars == <<setup, filter, queue, surface, log, drawn, heard, clock, fed, decays>>

Stages == DOMAIN setup.chain

-----------------------------------------------------------------------------
(* The time surface.  Mutant_X is X with a plausible bug, for the mutation *)
(* runs; nothing else uses it.                                             *)

Slots == 0..Width * Height * 2 - 1

(* One place for each pixel and polarity. *)
GetIndex(at, p) == (at[2] * Width + at[1]) * 2 + (IF p THEN 1 ELSE 0)

NewSurface == [i \in Slots |-> 0]
Get(s, e) == s[GetIndex(e.at, e.p)]
GetOpposite(s, e) == s[GetIndex(e.at, ~e.p)]
Update(s, e) == [s EXCEPT ![GetIndex(e.at, e.p)] = e.t]

SaturatingSub(a, b) == IF a < b THEN 0 ELSE a - b

-----------------------------------------------------------------------------
(* The filters: verdict on an event, and the state after it.               *)

Verdict(f, valid) == [filter |-> f, valid |-> valid]

NewFilter(kind) ==
    [kind |-> kind,
     surface |-> NewSurface,
     is_cut |-> [i \in Slots |-> FALSE],
     sample_count |-> [i \in Slots |-> 0],
     sample_offset |-> [i \in Slots |-> 0],
     frequency_samples |-> [i \in Slots |-> [j \in 0..min_measurements - 1 |-> 0]],
     is_blocked |-> [i \in Slots |-> FALSE]]

(* Per-pixel state is kept at the pixel's first slot. *)
PixelIndex(e) == GetIndex(e.at, FALSE)

PolarityFilter(f, e) == Verdict(f, e.p)

RoiFilter(f, e) ==
    Verdict(f, e.at[1] > x0 /\ e.at[1] < x1 /\ e.at[2] > y0 /\ e.at[2] < y1)

Mutant_TrailValid(same_pol_t, opp_pol_t, t) ==
    opp_pol_t > same_pol_t \/ same_pol_t = 0 \/ SaturatingSub(t, same_pol_t) + 1 >= dt
TrailValid(same_pol_t, opp_pol_t, t) ==
    opp_pol_t > same_pol_t \/ same_pol_t = 0 \/ SaturatingSub(t, same_pol_t) >= dt

(* Only events that are let through are remembered. *)
TrailFilter(f, e) ==
    LET valid == TrailValid(Get(f.surface, e), GetOpposite(f.surface, e), e.t)
    IN  Verdict(IF valid THEN [f EXCEPT !.surface = Update(@, e)] ELSE f, valid)

Recent(prev_t, t) == prev_t > 0 /\ SaturatingSub(t, prev_t) <= dt

(* The pixels around e that are on the surface, e's own among them. *)
Neighbourhood(e) ==
    {at \in (e.at[1] - 1..e.at[1] + 1) \X (e.at[2] - 1..e.at[2] + 1) :
        at[1] \in 0..Width - 1 /\ at[2] \in 0..Height - 1}

(* Every event is remembered. *)
Mutant_ActivityNoiseFilter(f, e) ==
    LET valid == \E at \in Neighbourhood(e) : Recent(f.surface[GetIndex(at, e.p)], e.t)
    IN  Verdict(IF valid THEN [f EXCEPT !.surface = Update(@, e)] ELSE f, valid)
ActivityNoiseFilter(f, e) ==
    Verdict([f EXCEPT !.surface = Update(@, e)],
            \E at \in Neighbourhood(e) : Recent(f.surface[GetIndex(at, e.p)], e.t))

(* The same polarity again, once if trails are cut; or a change of it. *)
ContrastFilter(f, e) ==
    LET px == PixelIndex(e)
        again == Recent(Get(f.surface, e), e.t) /\ ~f.is_cut[px]
        changed == ~again /\ Recent(GetOpposite(f.surface, e), e.t)
    IN  Verdict([f EXCEPT !.surface = Update(@, e),
                          !.is_cut[px] = (again /\ cut_trail) \/ (@ /\ ~changed)],
                again \/ changed)

FrequencyFromPeriod(period_us) == (MICROSECONDS_PER_SECOND + period_us \div 2) \div period_us

FrequencyInWindow(frequency) == min_freq <= frequency /\ frequency <= max_freq

Mutant_NextOffset(offset) == offset
NextOffset(offset) == (offset + 1) % min_measurements

PushFrequencySample(f, px, frequency) ==
    [f EXCEPT !.frequency_samples[px][f.sample_offset[px]] = frequency,
              !.sample_offset[px] = NextOffset(@),
              !.sample_count[px] = Min({@ + 1, min_measurements})]

(* The r-th of the samples in increasing order.                            *)
Ranked(samples, r) ==
    LET reaches(v) == Cardinality({j \in DOMAIN samples : samples[j] <= v}) >= r
    IN  Min({v \in {samples[j] : j \in DOMAIN samples} : reaches(v)})

Median(samples) ==
    LET count == Cardinality(DOMAIN samples)
        lo == Ranked(samples, count \div 2)
        hi == Ranked(samples, count \div 2 + 1)
    IN  IF count % 2 = 1 THEN hi ELSE lo + (hi - lo) \div 2

MedianInWindow(f, px) ==
    /\ f.sample_count[px] = min_measurements
    /\ FrequencyInWindow(Median(f.frequency_samples[px]))

ResetFrequencySamples(f, px) ==
    [f EXCEPT !.sample_count[px] = 0, !.sample_offset[px] = 0, !.is_blocked[px] = FALSE]

(* The period is that of the polarity: from the event before the previous. *)
IsAlternating(same_t, opp_t, t) == same_t > 0 /\ opp_t > same_t /\ t > same_t

AntiFlickerFilter(f, e) ==
    LET px == PixelIndex(e)
        same_t == Get(f.surface, e)
        opp_t == GetOpposite(f.surface, e)
        frequency == FrequencyFromPeriod(e.t - same_t)
        pushed == PushFrequencySample(f, px, frequency)
        seen(g) == [g EXCEPT !.surface = Update(@, e)]
    IN  IF IsAlternating(same_t, opp_t, e.t)
        THEN Verdict(seen([pushed EXCEPT !.is_blocked[px] = MedianInWindow(pushed, px)]),
                     ~(f.is_blocked[px] /\ FrequencyInWindow(frequency)))
        ELSE Verdict(seen(IF same_t > opp_t THEN ResetFrequencySamples(f, px) ELSE f), TRUE)

Filtered(f, e) ==
    CASE f.kind = "polarity" -> PolarityFilter(f, e)
      [] f.kind = "roi"      -> RoiFilter(f, e)
      [] f.kind = "trail"    -> TrailFilter(f, e)
      [] f.kind = "noise"    -> ActivityNoiseFilter(f, e)
      [] f.kind = "contrast" -> ContrastFilter(f, e)
      [] f.kind = "flicker"  -> AntiFlickerFilter(f, e)

-----------------------------------------------------------------------------
(* The decaying surfaces.                                                  *)

One == IF decay_time = 0 THEN 1 ELSE decay_time   \* the linear value 1.0
Zero == -1                                        \* the exponent of the value 0.0

NewSurfaces ==
    [time |-> NewSurface, linear |-> [i \in Slots |-> 0], exponent |-> [i \in Slots |-> Zero],
     last_update_t |-> 0]

LinearDecayed(value, elapsed) == IF decay_time = 0 THEN 0 ELSE SaturatingSub(value, elapsed)

ExponentDecayed(value, elapsed) ==
    IF tau = 0 \/ value = Zero THEN Zero ELSE value + elapsed

(* A late time decays nothing, and does not take last_update_t back. *)
Mutant_DecayTo(s, ts) ==
    LET elapsed == SaturatingSub(ts, s.last_update_t)
    IN  IF elapsed = 0 THEN s
        ELSE [s EXCEPT !.linear = [i \in Slots |-> LinearDecayed(@[i], elapsed)],
                       !.exponent = [i \in Slots |-> ExponentDecayed(@[i], elapsed)]]
DecayTo(s, ts) ==
    LET elapsed == SaturatingSub(ts, s.last_update_t)
    IN  IF elapsed = 0 THEN s
        ELSE [s EXCEPT !.linear = [i \in Slots |-> LinearDecayed(@[i], elapsed)],
                       !.exponent = [i \in Slots |-> ExponentDecayed(@[i], elapsed)],
                       !.last_update_t = ts]

Draw(s, e) ==
    LET i == GetIndex(e.at, e.p)
        d == DecayTo(s, e.t)
    IN  [d EXCEPT !.time[i] = e.t, !.linear[i] = One, !.exponent[i] = 0]

DrawAll(s, events) ==
    LET after[n \in 0..Len(events)] ==
            IF n = 0 THEN s ELSE Draw(after[n - 1], events[n])
    IN  after[Len(events)]

Told(events) == [n \in DOMAIN events |-> [slot |-> GetIndex(events[n].at, events[n].p),
                                          t |-> events[n].t]]

(* Events that leave the chain are drawn on the surfaces. *)
Output(events) ==
    /\ surface' = DrawAll(surface, events)
    /\ drawn' = drawn \o events
    /\ heard' = heard \o Told(events)

(* transform_events: the whole output drawn on new surfaces. *)
TransformEvents ==
    /\ drawn # <<>> /\ fed = setup.length
    /\ surface' = DrawAll(NewSurfaces, drawn)
    /\ heard' = Told(drawn)
    /\ UNCHANGED <<setup, filter, queue, log, drawn, clock, fed, decays>>

-----------------------------------------------------------------------------
Events ==
    [at : setup.pixels, p : BOOLEAN,
     t : IF fed = 0 THEN FirstTimes ELSE {clock + s : s \in setup.steps} \intersect Nat]

Init ==
    /\ setup \in Setups
    /\ filter = [k \in Stages |-> NewFilter(setup.chain[k])]
    /\ queue = [k \in Stages |-> <<>>]
    /\ surface = NewSurfaces
    /\ log = [k \in Stages |-> <<>>]
    /\ drawn = <<>> /\ heard = <<>>
    /\ clock = 0 /\ fed = 0 /\ decays = 0

Feed(e) ==
    /\ fed < setup.length
    /\ e \in Events
    /\ clock' = e.t /\ fed' = fed + 1
    /\ UNCHANGED <<setup, decays>>

Entry(e, valid) == [e |-> e, valid |-> valid]

(* Pipeline::process: the event passes the filters until one rejects it.   *)
Pull(e) ==
    LET verdict(k) == Filtered(filter[k], e)
        comes(k) == \A j \in 1..k - 1 : verdict(j).valid
    IN  /\ setup.mode = "pipeline"
        /\ Feed(e)
        /\ filter' = [k \in Stages |-> IF comes(k) THEN verdict(k).filter ELSE filter[k]]
        /\ log' = [k \in Stages |->
                     IF comes(k) THEN Append(log[k], Entry(e, verdict(k).valid)) ELSE log[k]]
        /\ Output(IF \A k \in Stages : verdict(k).valid THEN <<e>> ELSE <<>>)
        /\ UNCHANGED queue

(* The host has an event more in its array. *)
Arrive(e) ==
    /\ setup.mode = "calls" /\ Stages # {}
    /\ Feed(e)
    /\ queue' = [queue EXCEPT ![1] = Append(@, e)]
    /\ UNCHANGED <<filter, surface, log, drawn, heard>>

(* A call runs with the state the latest one left. *)
StateOf(k) == filter[k]

(* A filter, its log and its output, after some events more. *)
RunFilter(f, entries, events) ==
    LET after[n \in 0..Len(events)] ==
            IF n = 0 THEN [filter |-> f, log |-> entries, output |-> <<>>]
            ELSE LET acc == after[n - 1]
                     v == Filtered(acc.filter, events[n])
                 IN  [filter |-> v.filter,
                      log |-> Append(acc.log, Entry(events[n], v.valid)),
                      output |-> IF v.valid THEN Append(acc.output, events[n]) ELSE acc.output]
    IN  after[Len(events)]

(* process_filter: a whole array through one filter. *)
ProcessFilter(k) ==
    LET done == RunFilter(StateOf(k), log[k], queue[k])
    IN  /\ queue[k] # <<>>
        /\ filter' = [filter EXCEPT ![k] = done.filter]
        /\ log' = [log EXCEPT ![k] = done.log]
        /\ IF k + 1 \in Stages
           THEN /\ queue' = [queue EXCEPT ![k] = <<>>, ![k + 1] = @ \o done.output]
                /\ UNCHANGED <<surface, drawn, heard>>
           ELSE /\ queue' = [queue EXCEPT ![k] = <<>>]
                /\ Output(done.output)
        /\ UNCHANGED <<setup, clock, fed, decays>>

(* decay_to: the host lets the surfaces age. *)
Age ==
    /\ decays < setup.decays
    /\ fed > 0
    /\ \E s \in setup.steps :
          /\ clock + s \in Nat
          /\ surface' = DecayTo(surface, clock + s)
          /\ heard' = Append(heard, [slot |-> -1, t |-> clock + s])
    /\ decays' = decays + 1
    /\ UNCHANGED <<setup, filter, queue, log, drawn, clock, fed>>

Next ==
    \/ \E e \in Events : Pull(e) \/ Arrive(e)
    \/ \E k \in Stages : ProcessFilter(k)
    \/ Age \/ TransformEvents

Spec == Init /\ [][Next]_vars

-----------------------------------------------------------------------------
(* Properties.  They compare the verdicts with the events that led to      *)
(* them: L is the log of a filter, n the number of one of its entries.     *)

LastOf(S) == IF S = {} THEN 0 ELSE Max(S)

(* The entries before the n-th at its pixel, and the latest one of them.   *)
Before(L, n) == {i \in 1..n - 1 : L[i].e.at = L[n].e.at}
Previous(L, n) == LastOf(Before(L, n))

(* Times of the first n events increase, and none of them is 0, which the  *)
(* surfaces read as "no event".                                            *)
Increasing(L, n) == \A i \in 1..n : L[i].e.t > 0 /\ (i > 1 => L[i - 1].e.t < L[i].e.t)
InOrder(L, n) == \A i \in 1..n : L[i].e.t > 0 /\ (i > 1 => L[i - 1].e.t <= L[i].e.t)

FiltersOf(kind) == {k \in Stages : setup.chain[k] = kind}

EventSpace == [at : Pixels, p : BOOLEAN, t : Nat]
Entries == [e : EventSpace, valid : BOOLEAN]
FilterStates ==
    [kind : Kinds,
     surface : [Slots -> Nat],
     is_cut : [Slots -> BOOLEAN],
     sample_count : [Slots -> 0..min_measurements],
     sample_offset : [Slots -> 0..min_measurements - 1],
     frequency_samples : [Slots -> [0..min_measurements - 1 -> 0..MICROSECONDS_PER_SECOND]],
     is_blocked : [Slots -> BOOLEAN]]
SurfaceStates ==
    [time : [Slots -> Nat], linear : [Slots -> 0..One],
     exponent : [Slots -> Nat \union {Zero}], last_update_t : Nat]

(* Every variable holds a value of its type: samples stay in their ring,   *)
(* linear values between 0.0 and 1.0.                                      *)
TypeOK ==
    /\ setup \in Setups
    /\ filter \in [Stages -> FilterStates] /\ \A k \in Stages : filter[k].kind = setup.chain[k]
    /\ queue \in [Stages -> Seq(EventSpace)]
    /\ surface \in SurfaceStates
    /\ log \in [Stages -> Seq(Entries)]
    /\ drawn \in Seq(EventSpace)
    /\ heard \in Seq([slot : Slots \union {-1}, t : Nat])
    /\ clock \in Nat /\ fed \in 0..setup.length /\ decays \in 0..setup.decays

(* "rejects same polarity trail events until threshold or polarity change":*)
(* an event is rejected exactly when the last one let through at its pixel *)
(* has its polarity and is less than dt older, in a stream whose times     *)
(* increase.                                                               *)
TrailVerdict(L, n) ==
    LET e == L[n].e
        last == LastOf({i \in Before(L, n) : L[i].valid})
    IN  ~L[n].valid <=> last # 0 /\ L[last].e.p = e.p /\ e.t - L[last].e.t < dt
TrailCut ==
    \A k \in FiltersOf("trail") : \A n \in DOMAIN log[k] :
        Increasing(log[k], n) => TrailVerdict(log[k], n)

(* "forwards same polarity events with recent neighbor activity", whether  *)
(* that activity was itself let through or not; and the contrast filter    *)
(* forwards nothing but what follows another event of the pixel within dt, *)
(* and everything that follows one of the other polarity.                  *)
NoiseVerdict(L, n) ==
    LET e == L[n].e
    IN  L[n].valid <=> \E i \in 1..n - 1 : /\ L[i].e.p = e.p /\ e.t - L[i].e.t <= dt
                                           /\ L[i].e.at \in Neighbourhood(e)
ContrastVerdict(L, n) ==
    LET e == L[n].e
        last == Previous(L, n)
        near == last # 0 /\ e.t - L[last].e.t <= dt
    IN  /\ L[n].valid => near
        /\ near /\ (~cut_trail \/ L[last].e.p # e.p) => L[n].valid
SupportedOnly ==
    /\ \A k \in FiltersOf("noise") : \A n \in DOMAIN log[k] :
          InOrder(log[k], n) => NoiseVerdict(log[k], n)
    /\ \A k \in FiltersOf("contrast") : \A n \in DOMAIN log[k] :
          InOrder(log[k], n) => ContrastVerdict(log[k], n)

(* The anti-flicker filter suppresses an event exactly when it and the     *)
(* min_measurements events of its pixel before it each change the polarity,*)
(* the median of their frequencies lies in the window and its own does     *)
(* too.  A frequency counts from the last event of the same polarity.      *)
PreviousSame(L, n) == LastOf({i \in Before(L, n) : L[i].e.p = L[n].e.p})
FrequencyAt(L, n) == FrequencyFromPeriod(L[n].e.t - L[PreviousSame(L, n)].e.t)
Alternates(L, n) ==
    /\ Previous(L, n) # 0 /\ L[Previous(L, n)].e.p # L[n].e.p
    /\ PreviousSame(L, n) # 0
FlickerVerdict(L, n) ==
    ~L[n].valid <=>
        /\ Alternates(L, n) /\ FrequencyInWindow(FrequencyAt(L, n))
        /\ \E back \in [0..min_measurements -> 1..n] :
              /\ back[0] = n
              /\ \A j \in 1..min_measurements :
                    back[j] = Previous(L, back[j - 1]) /\ Alternates(L, back[j])
              /\ FrequencyInWindow(Median([j \in 1..min_measurements |->
                                              FrequencyAt(L, back[j])]))
FlickerJustified ==
    \A k \in FiltersOf("flicker") : \A n \in DOMAIN log[k] :
        Increasing(log[k], n) => FlickerVerdict(log[k], n)

(* However often the surfaces were aged on the way, a value says how long  *)
(* ago its event was: linear decay has lost that much, exponential decay   *)
(* has it as its exponent.  An event that comes late counts from the time  *)
(* the surface had reached.                                                *)
Reached(h, n) == Max({h[i].t : i \in 1..n})
ShowsAge(s, h) ==
    \A i \in Slots :
        LET last == LastOf({n \in DOMAIN h : h[n].slot = i})
            age == Reached(h, Len(h)) - Reached(h, last)
        IN  IF last = 0 THEN s.linear[i] = 0 /\ s.exponent[i] = Zero
            ELSE /\ s.time[i] = h[last].t
                 /\ s.linear[i] = IF age >= One THEN 0 ELSE One - age
                 /\ s.exponent[i] = IF tau = 0 /\ age > 0 THEN Zero ELSE age
DecayFollowsAge == ShowsAge(surface, heard)

(* With trails cut, the repetition of a polarity is forwarded once, and    *)
(* again only after an event of the other polarity: "cut_trail_rejects_    *)
(* repeated_same_polarity_until_opposite_polarity_activity".  The code     *)
(* breaks its test's name (README, section 8), so no run checks this.      *)
CutUntilOpposite ==
    \A k \in FiltersOf("contrast") : \A n \in DOMAIN log[k] :
        LET L == log[k]
        IN  cut_trail => ~ \E i \in Before(L, n) :
                /\ Previous(L, i) # 0 /\ L[i].valid /\ L[n].valid
                /\ \A j \in Before(L, n) : j >= Previous(L, i) => L[j].e.p = L[n].e.p

-----------------------------------------------------------------------------
(* What the properties rest on: a filter's state is what its log says.     *)

(* The time of the last of some entries; 0 stands for none.                *)
LatestTime(L, S) == IF S = {} THEN 0 ELSE L[Max(S)].e.t

(* The trail filter remembers what it let through, the others all.         *)
AtSlot(kind, L, at, p) ==
    {i \in DOMAIN L : L[i].e.at = at /\ L[i].e.p = p /\ (kind = "trail" => L[i].valid)}
Remembers(f, L) ==
    f.kind \in {"trail", "noise", "contrast", "flicker"} =>
        \A at \in Pixels, p \in BOOLEAN :
            f.surface[GetIndex(at, p)] = LatestTime(L, AtSlot(f.kind, L, at, p))

(* The sample pushed j-th last to a ring that is written at offset next.   *)
RingSlot(offset, j) == (offset + min_measurements - j) % min_measurements

(* A pixel's ring holds the frequencies of its latest events that changed  *)
(* the polarity, back to one that did not or until the ring is full.       *)
Newest(L, at) == LastOf({i \in DOMAIN L : L[i].e.at = at})
InRing(f, L, at) ==
    LET px == GetIndex(at, FALSE)
        count == f.sample_count[px]
    IN  \E back \in [1..count -> DOMAIN L] :
          LET older(j) == IF j = 1 THEN Newest(L, at) ELSE Previous(L, back[j - 1])
          IN  /\ \A j \in 1..count :
                    /\ back[j] = older(j) /\ Alternates(L, back[j])
                    /\ f.frequency_samples[px][RingSlot(f.sample_offset[px], j)]
                          = FrequencyAt(L, back[j])
              /\ count = min_measurements \/ older(count + 1) = 0
                 \/ ~Alternates(L, older(count + 1))
Measures(f, L) ==
    /\ \A i \in Slots : f.is_blocked[i] = MedianInWindow(f, i)
    /\ Increasing(L, Len(L)) => \A at \in Pixels : InRing(f, L, at)

Knows(f, L) ==
    /\ Remembers(f, L)
    /\ f.kind = "contrast" /\ ~cut_trail => \A i \in Slots : ~f.is_cut[i]
    /\ f.kind = "flicker" => Measures(f, L)

(* The verdicts that are on record are the right ones.                     *)
Right(kind, L) ==
    \A n \in DOMAIN L :
        /\ kind = "trail" /\ Increasing(L, n) => TrailVerdict(L, n)
        /\ kind = "noise" /\ InOrder(L, n) => NoiseVerdict(L, n)
        /\ kind = "contrast" /\ InOrder(L, n) => ContrastVerdict(L, n)
        /\ kind = "flicker" /\ Increasing(L, n) => FlickerVerdict(L, n)

(* The surfaces have the time they were told to have reached.              *)
SurfacesFollow(s, h) ==
    ShowsAge(s, h) /\ s.last_update_t = IF h = <<>> THEN 0 ELSE Reached(h, Len(h))

IndInv ==
    /\ TypeOK
    /\ \A k \in Stages : Knows(filter[k], log[k]) /\ Right(filter[k].kind, log[k])
    /\ SurfacesFollow(surface, heard)
=============================================================================
