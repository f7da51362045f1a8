# A TLA+ project for openeb-rs

This directory holds a verification project for openeb-rs: TLA+ models of the
parts of the program whose correctness depends on order, state and
concurrency, the TLC configurations that check them on small instances, and
theorems about them that TLAPS proves for every value of the constants.
`PROJECT.json` is the index: components, runs, mutants, the source lines each
definition stands for, findings, hazards and theorems.

## 1. The system

openeb-rs reads streams of an event camera. An event camera has no frames: each
pixel reports its own brightness changes as (x, y, polarity, time). The program
gets such a stream from a recorded RAW file or makes one out of a video, and
hands the events to subscribers in batches.

    RAW file --> RawFileEventStream --> RawEventStreamDecoder --> EventDispatcher --> subscribers
                 (buffers of bytes)     (EVT3: words to events)                       | channel
                                                                                     v
                                             RawFileReader --- load_batch --- EventWindowIterator --> caller

    RawFileReader --> raw plugin (receivers, one sink) --> Python reader (one channel) --> its iterators, receivers

    video --> worker thread --> bounded channel --> SimulatorState::advance --> sinks of the host

    PluginRegistry --> configuration schemas --> the raw plugin, the simulator, a vendor's

    subscribers --> filters (pipeline or one by one) --> time surfaces

The inventory, with what makes each part correct:

| component | source | state | operations | what is hard | what must hold |
|---|---|---|---|---|---|
| Video simulator plugin | `openevt-plugins/src/simulator/plugin.rs` | the `SimulatorState` mutex: channel receiver, worker handle, sinks, `started`; two atomics `active` and `stop` shared with the worker; the worker's frame index | `advance` (behind `load_batch`, `poll_buffer`, `wait_next_buffer`), `seek`, `start`, `stop`, subscriptions, `Drop` | a worker blocked in a bounded channel while others join it; a lock held while waiting; sinks taken out of the state during callbacks | no waiting for a channel nobody feeds, no batch from before a seek, no lost sink, bounded read-ahead, seek and drop end |
| EVT3 decoder | `src/hal/decoders/evt3.rs` | clock (time fields, offset, last 24-bit value, first time), row, vector base, previous word, payload, two event buffers | `decode` (`process_word` for each word), `flush`, `get_timing_state`, `set_timing_state`, resets | a 24-bit counter that rolls over, events that come late, words whose meaning depends on earlier ones, errors in the middle, jumps of the file | one period per rollover, pixels on the sensor and where the stream put them, no row from before a jump, bounded buffers and registers |
| EVT2 decoder | `src/hal/decoders/evt2.rs`, `dat.rs`, `raw_fmt_decoder.rs` | clock, buffers | `decode` | as EVT3 | not reachable: `RawEventStreamDecoder::new` is `todo!()` for it |
| Dispatchers | `src/hal/dispatcher.rs` | lists of callbacks under an `RwLock` | `subscribe`, `dispatch` | callbacks run under the lock of the list | a callback may subscribe without waiting for itself |
| Raw event stream | `src/devices/raw/stream.rs` | file position, `started`, EOF latch, current buffer | `start`, `stop`, `poll_buffer`, `seek_to_offset` | the latch against a seek | every byte is handed out once, in order |
| Raw stream decoder | `src/devices/raw/decoder.rs` | a lock around the format's decoder | subscriptions, `decode` | lock order with the stream | no events between a poll and its decode from another buffer |
| Raw file handler, header, facilities | `src/devices/raw/device.rs`, `facilities.rs`, `src/devices/header.rs` | facility registry | `open_file` | opening a second file replaces facilities one by one | no mix of two files |
| Raw file reader | `src/devices/raw/reader.rs` | device handles, index | `load_batch`, `seek`, `seek_to_next_ext`, `subscribe`, `try_open` | try-locks, one of several steps failing, subscriptions nobody ends | an error leaves a usable reader |
| Event window iterator | `src/devices/raw/iterator.rs` | unbounded channel, buffer, base time | `next_n`, `next_delta`, their asynchronous forms | several loaders on one file, the end of the file, errors in the middle of a batch | each event is returned once and in order; the end is reported once nothing is left |
| Timestamp index | `src/devices/raw/index.rs`, `src/devices/types.rs` | markers (time, offset, timing state) | build, look up, seek | the index keeps its own clock next to the decoder's | a seek lands where reading from the start would have been |
| Raw file plugin | `src/devices/raw/plugin.rs` | handler, sink, worker | start of events and of triggers, streaming | two subscriptions, one sink | every subscriber gets its events |
| EVS circuit solver | `openevt-plugins/src/simulator/solver.rs` | floating-point state of each pixel, frame index, packet flags | integrate a frame, drain the video's decoder, seek | frames the decoder keeps back, packets of other streams, errors between frames | the circuit sees each frame once and in order, a seek lands on the frame shown |
| Registry and discovery | `src/hal/device/discovery.rs` | list of loaded plugins | load, schemas, `open_device`, `open_device_with_configuration` | discovery that answers differently the second time | the plugin that opens a device knows the form it is given |
| Configuration schema | `src/hal/device/configuration.rs` | none | parse a schema, make a form, validate it | the order of the checks, forms nobody can fill in | a form passes exactly when it fits its schema |
| Device adapter and ABI | `src/hal/device/device.rs`, `plugin.rs`, `src/hal/facilities.rs` | facility registry | forwarded calls | casts across the ABI | the facility asked for is the one returned |
| Filters, time surfaces | `src/algorithms/*.rs`, `src/python/pyalgorithms.rs` | times, samples and cuts per pixel and polarity | the six filters, the pipeline, decay of the surfaces | 0 stands for "none yet", rings that go round, late times, state kept between calls | the events kept are those the past calls for; a surface shows the age of the latest event |
| Recyclable buffers | `src/buffer.rs` | a bounded pool | drop | the pool at its limit | nothing builds a pool in this tree |
| Frame generation ABI | `src/framegen.rs` | none | type declarations | none | nothing to check |
| Python bindings | `src/python/*.rs` | a second window iterator, one channel for all of them, NumPy conversion | `next_n`, `next_delta`, receivers, `__next__` | errors in the middle of a batch, waiting under the interpreter's lock | each event goes to one consumer, windows abut |

How they interact. The reader calls the stream and then the decoder, both
behind locks it only tries to take. The decoder calls the dispatcher, which
calls the subscribers under a lock. A subscriber of the iterator sends into an
unbounded channel the iterator later drains. The raw plugin owns a reader and a
receiver of each kind, which it drains into its one sink after every load; the
Python reader is a host of that plugin whose sink sends to a channel of its own.
The simulator's worker talks to its host through a bounded channel and two
atomics; the host's handles share one mutex. The index is built once and its
markers carry a timing state that a seek puts back into the decoder. The
registry asks each plugin what it discovers, hands out a form made from the
schema of the one that answers, and asks again before it opens a device.

## 2. The modules

| module | models | kind |
|---|---|---|
| `SimulatorPrefetch` | the simulator plugin: worker, channel, lock, requests, seeks, sinks, Drop | state machine |
| `FrameDelivery` | what that plugin promises: frames delivered one at a time | abstract specification |
| `VideoSimulator` | what that worker drives: the loop over packets and frames, the seek, preloading | state machine |
| `Evt3Timing` | the clock of the EVT3 decoder | operators |
| `Evt3Source` | that clock behind a sensor whose true time is known | state machine |
| `Evt3Decoder` | the words of EVT3, batching, timing snapshots | state machine |
| `TimestampIndex` | building the index of a file, looking up a marker, seeking, decoding from there; extends `Evt3Timing` | state machine |
| `EventBatches` | what it means that batches of numbered events are in order | operators |
| `EventWindow` | RAW stream, reader, window iterators, by threads; extends `EventBatches` | state machine |
| `RawReader` | file handler, reader, receivers and dispatcher, across files and failures; extends `EventBatches` | state machine without a next-state relation of its own |
| `PluginReader` | an application, the raw plugin or the Python reader on top of `RawReader`, which it extends | state machine |
| `PluginConfiguration` | schemas, forms and their validation | operators |
| `PluginRegistry` | loading plugins, handing out forms, opening devices; extends `PluginConfiguration` | state machine |
| `EventFilters` | filters, pipeline and time surfaces | state machine |
| `SimulatorPrefetch_proofs` | its safety properties, and the refinement of `FrameDelivery` | proofs |
| `VideoSimulator_proofs` | its safety properties | proofs |
| `Evt3Decoder_proofs` | lemmas on the clock, the safety properties of `Evt3Source` and of `Evt3Decoder` | proofs |
| `TimestampIndex_proofs` | its safety properties | proofs |
| `EventWindow_proofs` | its safety properties | proofs |
| `PluginReader_proofs` | those of `RawReader` and of its hosts | proofs |
| `PluginRegistry_proofs` | that the checks of a form are exact, and the registry's properties | proofs |
| `EventFilters_proofs` | its safety properties | proofs |
| `MC*` | the state machines above for TLC | |

A definition `Mutant_X` next to `X` is `X` with a plausible bug. No
specification uses it; the mutation runs listed in `PROJECT.json` put it in the
place of `X` and must see the named property fail.

### SimulatorPrefetch

State. `started`, `active` and `stop` are the flag in `SimulatorState` and the
two atomics; `receiver` says whether `SimulatorState.batches` is `Some`, `queue`
is what the channel holds; `lock` is the holder of the state mutex; `wpc`,
`frame` and `held` are the worker's program counter, its frame index and the
message it holds; `sinks` are those in the state, `taken[c]` those an `advance`
of thread `c` took out, `todo[c]` those of them it has not called; `pc`, `batch`
and `result` belong to the host's threads. `gen`, `last` and `ended` are history.

Actions follow the code one step at a time wherever another thread may come
between. The worker has one action for each test of a flag, for decoding a
frame and for sending (`WorkerChecksStop` to `WorkerChecksAfterSend`), and so
has the worker of preloaded videos (`PreloadedAwaits` to `PreloadedSends`).
`advance` is `RequestBegins` (takes the lock and waits), `ReceiveMessage` or
`ReceiveFails`, `TakeSinks` (takes the lock again), `CallSink` without the lock,
`RestoreSinks`. `seek` is `SeekBegins`, `SeekDropsReceiver`, `SeekJoins`,
`SeekSpawns` or `SeekFails`, all under the lock. Critical sections in which
nothing waits (`Start`, `StopStream`, `Subscribe`, `StartEvents`) are one action
that needs the lock free. `Drop` runs when no call is in progress, for it needs
the last handle.

Only a thread that waits for a message or seeks holds the lock over several
steps, so a lock that is free to one action is free to all of it.

### FrameDelivery

A stream stands at a frame; `Publish`, `Call`, `Complete` hand the frame to the
subscribed sinks, `Skip` passes over a frame that cannot be decoded, `Leave` and
`Resume` are a seek. `SimulatorPrefetch!Abstract` maps to it: the position is the
frame in the hands of a request, else the head of the channel, else the
worker's message, else the worker's next frame. The mapping shows that the
order of the parts of the pipeline never lets a frame overtake another.

### Evt3Timing, Evt3Source, Evt3Decoder

`Evt3Timing` holds the clock as a record (`time_high`, `time_low`,
`time_offset`, `last_t24`, `first_ts`, `last_t`) and `Sample`, which is
`current_timestamp`. Its widths are constants: 12-bit fields in the code, a few
values for TLC. `Evt3Source` puts the clock behind a sensor: `base + phase` is
the sensor's unbounded time, `Quiet` lets time pass and sends a `TIME_HIGH`
word, `Event(late)` sends the two time words and an event, `late` units behind
the newest time, as multiplexing in the camera may do. `orderly` is history: no
event came late and no two events were half a period or more apart.

`Evt3Decoder` has an action for each class of word, `Reject` for a word that is
refused, `Emit` for the common tail of `process_word` with its dispatch of full
buffers, `DecodeReturns` for the end of `decode`, and what a caller may do
between two calls (`GetTimingState`, `SetTimingState`, `ResetTimestamps`). An
event is its place; a buffer is the number of events in it. `rowSeen` and
`vectX` say what the stream said, independently of the decoder's registers.

### EventWindow

The file is what its words decode to: a CD event, a trigger or nothing. `pos`,
`eof` and `started` are the stream's. `lock` stands for the stream's and the
decoder's lock: everybody takes the stream's first and only with `try_write`.
`LoadReads`, `DecodeSends`, `LoadReturns` are `load_batch`, the same code in the
reader and in the iterator; batches reach the channels one by one, in any sizes
(`DecodeSends` sends any prefix), while the lock is held. `LoadFails` gathers
the errors. An iterator's call goes `take` (pop from `internal_buffer`), `drain`
(`try_recv`, or `recv` in asynchronous mode), `load`. `TakeEvents` pops all the
call may take at once: nobody else sees that buffer. Events carry their number
in decoding order, their word and their time; `returned[i]` is the number of
the last event a call of iterator `i` returned, and `InHand(i)` what it has
received and not returned, as a sequence of batches: the one its call is
collecting, its buffer, its channel. `LoadReads` lists the events of a read with
`Listings`, which has one member: the sequence in the file's order.

A behaviour runs one of the `Programs`: `program` says which iterators it makes,
which calls its reader makes, what its file holds, how far times fall back, and
whether reads may fail. A property that only holds of some programs names the
condition: `OneLoader` says that one thread loads, `~program.ioErrors` that reads
succeed.

### TimestampIndex

A file is a sequence of two-byte words and perhaps half a word more. `IndexRead`
is one read of `build_index` with the loop over its words: `Scan` drives the
index's own clock, and a chunk that fills makes a marker. `IndexDone` ends it.
`SeekTo` is `find_closest_marker` with the binary search, the move of the stream
and `Resume`, which is `set_timing_state`: the clock, and nothing of the row or
the byte kept in `split_byte`. `LoadBatch` reads a buffer that may end within a
word and decodes it with `ProcessWord`. An event carries the number of its word,
or `None` if its two bytes were not written as one; `timeline` remembers what
clock the index had at each word.

### RawReader, PluginReader

`RawReader` has one step for each operation of the reader: the locks are
`EventWindow`'s business, which marker a seek finds is `TimestampIndex`'s.
`opened` holds the facilities of each file opened so far, with the channels that
subscribed, for `open_file` makes new facilities and old receivers keep theirs;
`device` is the handler's file and `reader` the reader's handles, which `try_open`
replaces in that order. `SeekToNextExt` subscribes, loads one batch, looks, seeks
and drops its receiver.

`PluginReader` puts a host on it. An application calls it directly. A plugin host
makes `StartKind` (`start_events`, `start_external_triggers`), `PluginLoad` and then
`DrainEvents`, one batch at a time, CD events before triggers; another of its
threads holds a seek facility and may act between those steps. In Python the
interpreter's lock makes one call run at a time: `PyCall` begins `next_n` or
`next_delta`, `PyStep` are its turns (`Replenish`, `ReplenishLoad`,
`ReplenishError`, then the events popped one by one), `PyTryReceive` and `PyAwait`
are the receivers.

### PluginConfiguration, PluginRegistry

`Parse`, `NewConfiguration` and `Validate` are functions of the same names; a text
stands for all texts the same kinds of parameter accept. `Fits` and `Fillable` say
the same as the code should, without the order of its checks. The registry's
loops take a step for each plugin asked (`AskForSchema`, `AskToOpen`,
`AskToOpenBySerial`), and `Replug` is a device or file that comes or goes between
two of them. `FillIn`, `AddEntry` and `RemoveEntry` are the application's edits of a
form, whose fields are public. `maker`, `checked`, `moved` and `device` are history.
The simulator's one serial is always discovered; a vendor's plugin (external)
opens by serial without a check of its own, as the trait's default does.

### VideoSimulator

A step is one turn of the loop in `next_frame_events`: `ReceiveFrame`,
`DecoderIsEmpty` (EAGAIN), `NoMoreFrames`, `SkipPacket`, `SendPacket`, `SendEof`.
`call` is what the loop runs for: a batch, a seek that decodes up to its target,
or `preload_events`. FFmpeg's container and decoder are external: the decoder
keeps `Delay` frames back until it is drained. `circuit` is the list of frames the
circuit has integrated since its reset, `circuitTime` for how long; which pixels
fire in a step is arbitrary, and the arbiter caps their number.

### EventFilters

A chain of filters runs as a Rust `Pipeline` (`Pull`: one event through all filters)
or as calls from Python, each with a whole array (`Arrive`, `ProcessFilter`), where
the filters keep their state between calls. Each filter is an operator from its
state and an event to a verdict and a new state: `TrailFilter`,
`ActivityNoiseFilter`, `ContrastFilter`, `AntiFlickerFilter`, `PolarityFilter`,
`RoiFilter`. `Draw` and `DecayTo` are the surfaces; a linear value is counted in
parts of 1.0 and an exponential one is its exponent. `log` and `heard` are history:
what each filter was given and said, and what the surfaces were told. `Median` sorts
nothing: the r-th sample in increasing order is the least that r samples do not
exceed (`Ranked`). `RunFilter` and `DrawAll`, which take a whole array, are recursive
functions. Events lie on the sensor (`SetupsAssumption`): `get_index` checks no
coordinates, and would read the slot of another pixel.

## 3. Runs

| run | asks | bounds |
|---|---|---|
| `simulator` | does the plugin implement `FrameDelivery`, keep its flags, lock and sinks consistent, bound its read-ahead, and let every call return? | 2 threads, one of which requests and seeks, 2 sinks, 3 frames, a channel of 1, 2 seeks; 0.2 million states |
| `video` | does the circuit see each frame once, in order and at its time, through delays, errors and seeks? | 4 frames among other packets, 2 of them kept back by the decoder, frame durations below, at and above 2 integration steps, a wrong frame count, 4 targets; 12 000 states |
| `evt3_clock` | is the reconstructed time the sensor's, and what does lateness cost? | 4 x 4 field values, period 16, gaps up to 15, lateness up to 3, time up to 40 |
| `evt3_words` | the word machine over every sequence of words | 5 columns of which 4 accepted, 2 rows of which 1 on the sensor, vectors of 2 and 1, batches of 2; 1.7 million states |
| `timestamp_index` | is a decoder after a seek where reading from the start would have put it? | all files of 5 words of 7 kinds (and half a word more) with two events and a time word, reads of 3 bytes, a marker every 2 words, 4 targets, 1 seek; 0.9 million states |
| `windows` | does an iterator return everything, in order, in exact windows, end only at the end, and do its calls return? | 5 programs with a synchronous and an asynchronous iterator, 3 words, reads of up to 2, 1 seek; 0.6 million states |
| `plugin_reader` | do batches reach receivers, sinks and Python once and in order, across files, failures and seeks, and do iterator calls return? | 3 hosts, 2 files of 3 reads and 1, 2 opens, 3 channels, 2 sinks, 2 Python iterators, 6 calls; 0.1 million states |
| `registry` | does a form reach only a plugin whose schema it fits, while devices come and go? | 3 plugins, 2 libraries, a vendor's schema missing, usable or wrong in 4 ways, 2 serials, forms of up to 2 entries; 5.3 million states |
| `filters` | is every verdict and every value of a surface the one the past calls for? | 3 x 2 pixels, 9 chains in both modes, 3 to 6 events, times that stay, jump or fall back; 90 000 states |
| `windows_async_end` | does an asynchronous call return? (violated) | 1 iterator, a reader that loads |
| `windows_next_ext` | does `seek_to_next_ext` find the next trigger? (violated) | 3 words, reads of up to 2 |
| `plugin_reader_lost` | does the Python iterator keep the events a failing call has collected? (violated) | as `plugin_reader` |

Why the bounds are enough. The simulator's protocol has no counter but the
channel: one slot fills, blocks and drains like thirty-two, and a third frame
makes a read-ahead of more than one slot and one message visible. Two threads are what
any race over the lock or the sinks needs, two seeks let a worker of one meet
the channel of the next. In `video` a frame is in each of its states at once
(read, kept back, integrated), and the container may claim a frame too many or
too few, which is where a seek's target and the video's end part. The clock sees
two rollovers and more, gaps on both
sides of the threshold and lateness across a rollover. The word machine has a
vector that fits, one that does not, a row off the sensor and a batch that
fills in the middle of a vector word; `MaxTime` bounds the decoder's offset, one
rollover. In `timestamp_index` the file has two markers, the reads cut every other
word in two, and the period is short enough that a file has a rollover or a gap
that hides one. In `windows` a read leaves a rest, a decode cuts batches in every
way, times fall back or stay, and `next_n` and `next_delta` leave leftovers. In
`plugin_reader` a file has a read with two batches, one with a trigger alone and one
with both, so that draining the wrong kind, in the wrong order or too little
shows; two files are what a failed `try_open` mixes up. In `registry` two libraries
make the first one's answer differ from the second's, and a form of two entries
has one that is twice, unknown, unset or missing. In `filters` a chain fills the
ring of the flicker filter and goes round it, and cuts a trail and lifts the cut.

Fairness. `simulator` assumes that the worker's
thread runs (`WF` of its next step), and that a thread in the middle of a call
of `advance`, `seek` or `drop` runs on. Host threads need not make calls. Weak
fairness is what an operating system gives a runnable thread; a thread that
waits for the mutex needs no strong fairness here because, with one thread that
drives, nobody keeps taking the lock over several steps against it. `windows`
and `windows_async_end` assume that calls in progress run on; the latter also that
the feeding thread goes on loading, which is what the asynchronous mode asks of it
("assumes another thread is feeding the decoder"): the wait lasts in spite of it.
`plugin_reader` assumes that a Python call in progress runs on (`PyStep`, and the
draining it waits for), `video` that the loop over packets does: a thread inside a
loop that never waits. The other runs check safety alone.

Deadlock is checked in `simulator`, `evt3_words`, `registry`, `windows` and the
violations of the same modules. In `evt3_clock` time is bounded, in `filters` the events
fed, in `timestamp_index` and `plugin_reader` the calls, so the model stops where the
program would not; a Python receiver that waits (`hung`) stops for good, as the code
does. In `video` a preloaded video is read once, and then nothing more happens.

`simulator` and `evt3_words` list `TypeOK`. `EventWindow`, `PluginReader`,
`PluginRegistry`, `VideoSimulator`, `Evt3Source` (`SourceTypeOK`), `TimestampIndex` and
`EventFilters` have one that TLAPS proves (section 5) and that no run repeats.

## 4. What the runs show

Simulator. A request waits only under a lock that keeps everyone from stopping
or replacing the worker that feeds it (`ReceiverIsFed`); a batch from before a
seek is gone when the seek returns (`NoStalePrefetch`); a sink
taken for a delivery comes back next to those subscribed meanwhile
(`SinksKept`); the host hears of the end before it hears of a lost worker
(`EndBeforeDisconnect`); frames are delivered one at a time and in order
(`ImplementsFrameDelivery`). Dropping the receiver before joining the worker is
what lets seeks and drops return (`CallsReturn`): its mutant keeps it.

Video. The frame index, which dates events, agrees with what the circuit saw
(`Aligned`) until a frame is lost to an error, and again after the next seek; the end comes
after the frames the decoder kept back (`EndMeansAllFrames`); no event leaves the
time its frame is shown (`EventsWithinFrame`), although a frame is integrated in
whole steps; a seek lands at the rate in force, not at the encoded one
(`SeekLands`); every call ends (`CallEnds`).

Clock. `TracksWrapAround` has two conditions, and `orderly` is exactly them.
`BackwardBounded` holds whatever comes late.

Words. `PixelsInPlace`: a vector word never meets a missing row, its pixels lie
where the stream says even when refused or skipped words came between, and
after a jump no event has a row from before it. `WithinBounds`: buffers, registers
and shifts stay bounded, and nothing stays behind when `decode` returns.
`RefusedWordIsInert`.

Index. From a marker to the end of the file the decoder delivers every event
that has its row there, and no word is put together over a seek
(`ResumesInStep`); those events get the times of the index's timeline, unless a
gap hides a rollover (`TimeAfterSeek`); the marker is the last one not after the
target (`SeekIsClosest`). Two decoders, one of which has not seen the beginning,
agree.

Windows. `NothingSkipped` relates the channel, the buffer, the batch and what was
returned: each event decoded since the iterator was created is in exactly one
of them, in order, across seeks of the reader. `EndMeansEnd`, `WindowIsExact`,
`InFileOrder` and `SyncReturns` say what a caller sees of it. `WindowIsExact` also
speaks of what the window leaves behind: nothing in the iterator's hands belonged
to it.

Plugin and Python. A receiver has been given, with what it has queued, exactly
what its decoder decoded since, whatever was opened, sought or dropped
(`ReceiversMissNothing`); reader, index and handler are of one file after a failed
`try_open` too (`ReaderIsOfOneFile`); when `load_batch` returns, the sink has what it
decoded (`LoadDeliversAll`); Python's consumers share the events, each of which
goes to one (`EachEventToOneConsumer`), successive windows abut (`WindowsAbut`),
and calls return (`IteratorCallReturns`).

Registry. Every form handed out can be filled in (`FormCanBeFilled`), the checks
in the code's order accept exactly the forms that fit (`FormIsCheckedExactly`),
and the one plugin that may be given a form that fits another's schema is a
vendor's that trusts the registry, when devices moved between its two questions
(`OpenerKnowsItsForm`).

Filters. `TrailCut`, `SupportedOnly`, `FlickerJustified` compare each verdict with the
events before it, not with the filter's state; `DecayFollowsAge` compares a surface
with the time since the latest event drawn.

## 5. What is proved

TLAPS checks these for every value of the constants, from the named
assumptions next to them. No proof assumes more than the modules' `ASSUME`s,
which TLC evaluates on every run; the two hypotheses beside them are `OneDriver`
of the simulator and the conditions that properties state themselves.

| theorem | says |
|---|---|
| `SimulatorPrefetch_proofs!TypeCorrect`, `ReceiverFed`, `PrefetchIsCurrent`, `SinksNeverLost`, `EndComesFirst` | `TypeOK`, `ReceiverIsFed`, `NoStalePrefetch`, `SinksKept`, `EndBeforeDisconnect`, for any number of threads, sinks, frames, slots and seeks |
| `SimulatorPrefetch_proofs!StopNeverSeen` | `RequestNeverSeesStop`: the branch of `advance` that looks at the stop flag never fires; no run repeats it |
| `SimulatorPrefetch_proofs!ReadAhead`, `ImplementsDelivery` | with `OneDriver`: `ReadAheadBounded`, and `ImplementsFrameDelivery` |
| `VideoSimulator_proofs!TypeCorrect`, `CircuitSeesEveryFrame`, `EndIsTheEnd`, `EventsInOrder`, `SeekLandsAtItsTime` | `TypeOK`, `Aligned`, `EndMeansAllFrames`, `EventsWithinFrame`, `SeekLands`, for any video, delay of the decoder and frame rate |
| `Evt3Decoder_proofs!SourceTypeCorrect`, `WrapAroundTracked`, `BackwardIsBounded` | `SourceTypeOK`, `TracksWrapAround`, `BackwardBounded` of `Evt3Source`, for any widths with `Period = 2 * Half` |
| `Evt3Decoder_proofs!TypeCorrect`, `VectorRowKnown`, `PixelsCorrect`, `ResourcesBounded`, `RefusedLeavesNoTrace` | `TypeOK`, `VectorHasRow`, then all of `PixelsInPlace` and of `WithinBounds`, and `RefusedWordIsInert` |
| `TimestampIndex_proofs!TypeCorrect`, `SeekResumesInStep`, `SeekKeepsTime`, `SeekLandsClosest` | `TypeOK`, `ResumesInStep`, `TimeAfterSeek`, `SeekIsClosest`, for any files, sizes of reads and chunks, targets and number of seeks |
| `EventWindow_proofs!TypeCorrect`, `NothingIsSkipped`, `HandsInFileOrder`, `EndIsTheEnd`, `WindowsAreExact` | `TypeOK`, `NothingSkipped`, `InFileOrder`, `EndMeansEnd`, `WindowIsExact`, for any file, number of iterators and threads, and programs |
| `PluginReader_proofs!TypeCorrect`, `NothingIsMissed`, `OneFile`, `LoadsDeliver`, `ToOneConsumer`, `WindowsOfAnIteratorAbut` | `TypeOK`, `ReceiversMissNothing`, `ReaderIsOfOneFile`, `LoadDeliversAll`, `EachEventToOneConsumer`, `WindowsAbut`, for any files, hosts, receivers and consumers |
| `PluginRegistry_proofs!TypeCorrect`, `FormsCanBeFilled`, `CheckIsExact`, `OpenerFits` | `TypeOK`, `FormCanBeFilled`, `FormIsCheckedExactly`, `OpenerKnowsItsForm`, for any names, texts, schemas of the vendor and devices |
| `EventFilters_proofs!TypeCorrect`, `TrailIsCut`, `SupportIsNeeded`, `FlickerIsJustified`, `DecayMatchesAge` | `TypeOK`, `TrailCut`, `SupportedOnly`, `FlickerJustified`, `DecayFollowsAge`, for any sensor, chain, streams of events and settings of the filters |

The inductive invariants, and why the properties do not carry themselves:

- `SimulatorPrefetch!IndInv`. `ReceiverIsFed` holds after `Start` only if a stream
  that has a receiver and is not being moved has its stop flag down and its
  active flag up (`WorkerInv`), which holds after a seek only because the seeking
  thread had the lock (`LockInv`). `SinkInv` says that only a delivering thread has
  taken sinks, without which `TakeSinks` would lose those of an earlier one.
  `EndBeforeDisconnect` needs `ExitInv`: a worker that left without being told to
  has put the end into the channel, or the host has had it.
- `SimulatorPrefetch!StreamInv`, with one thread that drives: the batch in hand,
  the channel, the message that waits for room and the worker's frame index are
  one stretch of the video, each following the one before (`StretchInv`,
  `InHandInv`). It bounds the read-ahead, and it is what makes every step of the
  threads one of `FrameDelivery` or none: `ReceiveMessage` moves nothing, because
  the batch it takes is what `Position` pointed at, or is `Skip` for a frame that
  could not be decoded; `TakeSinks` is `Publish`, `CallSink` is `Call`, and
  `RestoreSinks` is `Complete`, because the head of the channel is the next frame.
  Two drivers may each have a batch in hand, and then the stream stands at no one
  frame; hence the hypothesis.
- `VideoSimulator!IndInv`. `HeldIsNext`: the frames the video decoder keeps back
  are those that follow the frames seen, and the container stands behind them.
  `DrainInv`: the decoder is drained only at the container's end. Both are what
  `EndMeansAllFrames` rests on when the last packet and the first `EAGAIN` meet.
- `Evt3Source!SourceInv`: between a rollover of the sensor and the next event the
  decoder is one period behind, and `TracksWrapAround` does not say so.
- `Evt3Decoder!DecoderInv` with `RowInv`: a row in use came after the last jump.
  `RefusedWordIsInert` needs that an error is seen only inside `decode`.
  Both, and the index, use two lemmas on the clock: the fields of a sampled clock
  (`SampleType`) and how far a sample may fall back (`SampleBackward`).
- `TimestampIndex!IndInv`. `ScanInv` says what the index's clock is at each word: its
  two fields are those of the latest time words (`FieldsOf`), and its time is never
  less than at an earlier word by more than the threshold. `MarkersInv`: a marker
  holds the clock that the words before it left, up to the first timestamp, which a
  later word may set. `PositionInv`: the decoder has had whole words, and the byte it
  keeps is the first of the next. `DecoderInv` (`InStep`) is the decoder's half: of
  the words since the seek it has delivered those that have their row, and its clock
  is that of the index at the last of them as long as no gap hid a rollover.
  `ResumesInStep` and `TimeAfterSeek` follow from it, and would not carry themselves:
  they say nothing of the clock between two events.
- `EventWindow!IndInv`. `LockInv`: the thread that decodes has the lock, and only it
  has events that are not yet sent, so channels fill in the order of decoding.
  `ThreadInv`: who may be where, and that the end of the stream is latched only
  at the end of the file or after a failed read. `BufferInv`: an iterator that
  loads has an empty buffer, and an empty channel if it is the only loader: that is
  why the end it meets is one. `OrderInv` is `NothingSkipped` without its
  condition, for what stays true with errors and several loaders: order, and no
  event twice. `FileInv` ties events in hand, events being sent and the position
  of the stream to the file. `BaselineInv` says of the baseline of an iterator
  that it is not later than anything in hand, being sent or unread, which is what
  makes a window exact when its last event comes with the next load.
- `PluginReader!IndInv`. `RawInv` is of the reader: each channel counts what its
  decoder sent since it subscribed (`Wired`). `SinkInv`: a sink was given
  just what the plugin's receivers handed out, in order and without a gap; a gap
  is allowed where a new receiver replaced an old one. `OrderInv` (`GivenInOrder`)
  puts the consumers' events before those in the two channels and those not yet
  read, which `EachEventToOneConsumer` needs when a batch is taken. It uses
  `NumberingAssumption`: events are numbered as they stand in a file.
  `WindowInv` keeps the last window of an iterator and its baseline together, over
  the calls that other iterators make in between.
- `PluginRegistry!IndInv`. While devices stay where they are, a form's maker, and
  the plugin it was checked against, is the first module that discovers the serial
  (`FirstToDiscover`), and a scan has passed none that does (`CallInv`): the opener
  is then the plugin of the check. `CheckIsExact` rests on a lemma on `Validate`
  (`ValidateIsExact`): the two loops of the code find an error in some entry or some
  parameter exactly when the form does not fit its schema.
- `EventFilters!IndInv`. A filter's state is what its log says (`Knows`): a slot of the
  surface holds the time of the latest entry of that pixel and polarity, of those let
  through in the case of the trail filter (`Remembers`), and a pixel's ring holds the
  frequencies of its latest events, each a change of polarity from the one before,
  as far back as they go or the ring reaches (`Measures`, `InRing`). The verdict on
  the next event is then what the log calls for (`TrailRight`, `NoiseRight`,
  `ContrastRight`, `FlickerRight`), and those on record stay right, for they do not
  depend on later entries (`Right`). The median of the ring is that of the
  frequencies whatever slot it starts at (`MedianRearranged`). `SurfacesFollow` adds to
  `DecayFollowsAge` the time that the surfaces have reached: the next decay is counted
  from there.

Induction over data, which those two modules need for the words of a read and the
events of an array, is made without the library's induction rules: a set of numbers
has a least one (`LeastNumber`, from the well-foundedness of the order), so what
holds of 0 and passes from each number to the next holds up to any (`UpTo`), and the
equation of a recursive function has a solution (`Recursion`).

TLC checked each of these invariants on the module's run before it was proved;
that of `TimestampIndex`, which is slow to evaluate, on files of four words instead
of five.

Only model-checked, because the prover does not reach it: the liveness
properties `CallsReturn`, `CallEnds`, `SyncReturns` and `IteratorCallReturns` (fairness
and ENABLED), and the violations. Every safety invariant that a passing run checks, and
the refinement, is also a theorem.

## 6. What is not modelled

- EVT2, DAT and HDF5 decoders: `RawEventStreamDecoder::new` is `todo!()` for all but
  EVT3, so nothing reaches them. Recyclable buffers: nothing builds a pool. Frame
  generation: type declarations.
- `device.rs` and `facilities.rs`, but for what the registry uses: they forward
  calls across the ABI and convert types.
- The text of headers and of TOML, the wording of errors, conversions to NumPy.
- The pixel circuit's floating point and its noise: which pixels fire is
  arbitrary. Rounding of decays and of time surfaces.
- The error dispatcher: nothing in the tree subscribes to errors. A callback
  that subscribes: none in the tree does.
- `list_devices` and other queries that change nothing; `try_open` of the Python
  reader, which makes a new one; `stop` of the raw stream, which only a test calls.
- Lock poisoning by a panic in a callback: a model of it would say that
  everything panics.

One hazard has no property that a run checks: two requests that compete for the
sinks lose a batch, and `EveryBatchToEverySink` states what does not hold then
(section 8).

Within modelled parts, `PROJECT.json` says under each component what is left out.

## 7. What is left

All modules of the plan are written and their safety properties proved. What would
say more about the code, in this order:

1. Two drivers of the simulator: a property of what a sink may still miss, and not
   just the counterexample (`EveryBatchToEverySink`, section 8).
2. `device.rs` and `facilities.rs`: lifetimes of objects across the ABI, once a second
   host or plugin uses them in a way that can go wrong.
3. The error dispatcher and EVT2, when something in the tree subscribes to errors and
   `RawEventStreamDecoder::new` builds that decoder.

## 8. Deviations met

With a run, and quoted under `findings`:

- `windows_async_end`: an asynchronous iterator waits for ever at the end of the file,
  events in hand.
- `windows_next_ext`: `seek_to_next_ext` gives up after one buffer.
- `plugin_reader_lost`: a Python iterator loses the events it collected when the file
  ends.

Stated as a property that no run checks; adding it to the configuration of the
module's run, with the constants named here, shows the behaviour:

- `EveryBatchToEverySink` (`SimulatorPrefetch`, `Drivers = {c1, c2}`): a batch reaches no
  sink because another request has taken them, although
  `docs/simulator-plugin.md:26` says "delivered in one callback to every subscribed CD
  sink".
- `CircuitKeepsPace` (`VideoSimulator`, `Periods = {5}`): a frame is integrated for the
  next whole number of steps, so what a pixel does depends on the frame rate, although
  `docs/simulator-plugin.md:25` says "the model does not silently change behavior when
  the video FPS changes".
- `GenuineRollover` (`Evt3Source`, `MaxGap = 7`): a late event makes the clock count a
  rollover twice; `src/hal/decoders/evt3.rs:182` says "it is a genuine hardware counter
  rollover".
- `EarliestIsEarliest` (`TimestampIndex`, `MaxSeeks = 0`): `t_min` is absolute, while
  `t_max` and the times of events count from the first event; `src/devices/types.rs:183`
  calls it "Earliest timestamp in the indexed file".
- `CutUntilOpposite` (`EventFilters`): while an older event of the opposite polarity is
  within `dt`, an event of the same polarity is passed and lifts the cut, against the
  name of the test `cut_trail_rejects_repeated_same_polarity_until_opposite_polarity_activity`.

Seen while modelling, and reproduced by changing a constant or a property of
the models, or read from the code:

- Clock and words. With gaps of half a period or more between events the clock loses
  a rollover although `TIME_HIGH` words told of it (drop `orderly` from
  `TracksWrapAround`). The decoder accepts x equal to the header's width, because it
  compares with `>` (`EmittedInBounds` with `e[1] < MAX_X`).
- Index. Before the first decode the decoder does not know the file's first time, so
  a seek made first rebases times to 0. Events of the target's own time before
  a marker of that time are skipped. Events after a seek are refused until the
  next row. `t_max` is the last sample, not the latest. The index samples events
  the decoder refuses.
- Windows. A `LockError` or an I/O error in the middle of a batch drops the events
  it held (`NothingSkipped` without its condition `OneLoader /\ ~program.ioErrors`).
  Another thread that loads the last buffer between `try_recv` and `load_batch`
  makes a call end while events wait in its channel (`EndMeansEnd` without
  `OneLoader`). The stream latches a failed read as its end: the next load reports
  an end of file that is none (`EndMeansEnd` without `~program.ioErrors`).
  After a seek, windows hold events of other times, for neither the channel nor
  the baseline of an iterator follows the seek (`WindowIsExact` without `seeks = 0`).
- Plugin and Python. The plugin opens its reader without an index and still
  advertises the facilities that seek, which then always fail; Python's `index`
  argument changes nothing. Starting events or triggers replaces the one sink
  and drops what the old receiver held. Batches that `seek_to_next_ext` decodes
  before the file's end wait for the next load, which fails, so they are
  never drained. A `for` loop never sees `StopIteration`. `__anext__` of a receiver
  waits under the interpreter's lock (`hung`). `shape` is documented as width and
  height and is height and width. Callbacks of dropped receivers stay subscribed.
  After a `try_open` whose index fails the handler is of the new file and the stream
  of the old.
- Registry. The raw plugin takes any serial for a path when opened by serial, and
  with a form opens the form's file whatever the serial. `open_device` asks
  plugins until one succeeds, while the scan with a form ends at the first that
  discovers the device. A device's facilities come from the plugin alone, so those
  the host registered are left out of the list (`device.rs:17`), and every
  handle it returns has a lock of its own.
- Video. A frame lost to an error moves the times of all later ones until the next
  seek. `f32` timestamps lose microseconds from 2^24 on. An override of the frame
  rate leaves the duration at the encoded rate.
- Filters. Time 0 means "no event yet", so an event at time 0 supports nothing. A late
  event is drawn as new. An x equal to the width is the next row's first pixel, and
  panics in the last row.
