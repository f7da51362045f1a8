---------------------------- MODULE PluginReader ----------------------------
(***************************************************************************)
(* What is built on the raw reader: the raw-file plugin                    *)
(* (src/devices/raw/plugin.rs), and on the plugin the Python reader with   *)
(* its iterators and receivers (src/python/pydevice.rs).                   *)
(*                                                                         *)
(* One of three hosts drives it.  An "application" uses the raw reader     *)
(* itself.  A "plugin" host calls the plugin, while another thread of it   *)
(* holds a seek facility, which shares the plugin's reader.  In "python"   *)
(* the interpreter lock makes one call run at a time; its plugin sends to  *)
(* one channel, which all iterators and receivers of the reader share.     *)
(***************************************************************************)
EXTENDS RawReader

CONSTANTS Hosts,
          Sinks,            \* of a plugin host
          Iterators,
          Counts, Deltas,   \* arguments of next_n and next_delta
          MaxCalls

ASSUME HostsAssumption ==
    /\ Hosts \subseteq {"application", "plugin", "python"}
    /\ Counts \subseteq Nat \ {0} /\ Deltas \subseteq Nat \ {0} /\ MaxCalls \in Nat
    /\ None \notin Sinks \union Iterators /\ "CDEventReceiver" \notin Iterators

PySink == "PyEventSink"

VARIABLES
    host,
    plugin,     \* cd_receiver, ext_receiver (0 is none), sink
    phase,      \* of load_batch: "idle", or the receiver it is draining
    owed,       \* batches decoded when load_batch last began to drain
    sunk,       \* a history of the batches given to sinks
    queue,      \* of the Python reader's channel
    iter,       \* per iterator: internal_buffer, current_timestamp
    call,       \* the iterator call in progress
    returned,   \* a history of the events that Python was given, per consumer
    lost,       \* events an iterator took and did not return
    hung,       \* recv waits on an empty channel, under the interpreter lock
    windows,    \* a history of the windows of next_delta
    calls

vars == <<rawVars, host, plugin, phase, owed, sunk, queue, iter, call, returned,
          lost, hung, windows, calls>>

pluginVars == <<plugin, phase, owed, sunk>>
pyVars == <<queue, iter, call, returned, lost, hung, windows>>

Consumers == Iterators \union {"CDEventReceiver"}

(* What a sink is given, a call in progress, and a window. *)
SinkCalls == [sink : Sinks \union {PySink, None}, kind : KindsOfEvent, from : Nat, no : Nat,
              batch : Seq(Event)]
Calls == [iter : Iterators, n : Counts \union {None}, dt : Deltas \union {None},
          end : Nat \union {None}, events : Seq(Event)]
Windows == [iter : Iterators, dt : Deltas, events : Seq(Event), next : Nat, now : Nat, end : Nat]
ASSUME CallsAssumption == None \notin Calls

Counted == calls < MaxCalls /\ calls' = calls + 1

-----------------------------------------------------------------------------
(* An application and the raw reader. *)

Application ==
    /\ host = "application"
    /\ Counted
    /\ \/ \E p \in Paths, do_index \in BOOLEAN : TryOpen(p, do_index)
       \/ /\ \/ \E kind \in KindsOfEvent : Receiver(kind)
             \/ LoadOk
             \/ LoadError
             \/ Seek
             \/ SeekToNextExt
          /\ UNCHANGED <<device, reader, index_failed>>
       \/ /\ \E c \in DOMAIN channels : Take(c) \/ Drop(c)
          /\ UNCHANGED <<opened, device, reader, index_failed>>
    /\ UNCHANGED <<host, pluginVars, pyVars>>

-----------------------------------------------------------------------------
(* The plugin.  Mutant_X is X with a plausible bug, for the mutation runs; *)
(* nothing else uses it.                                                   *)

Ready == phase = "idle" /\ ~hung

Released(cs, c) ==
    [d \in DOMAIN cs |-> IF d = c THEN [cs[d] EXCEPT !.held = FALSE, !.queue = <<>>] ELSE cs[d]]

(* start_events and start_external_triggers replace the receiver of their  *)
(* kind, with what it holds, and the one sink of both.                     *)
StartKind(kind, sink) ==
    /\ Ready
    /\ Len(channels) < MaxChannels
    /\ LET old == IF kind = "cd" THEN plugin.cd ELSE plugin.ext
       IN  channels' = Append(Released(channels, old), Channel(kind, 1, <<>>))
    /\ opened' = [opened EXCEPT ![1] = Subscribe(@, kind, Len(channels) + 1)]
    /\ plugin' = [plugin EXCEPT ![kind] = Len(channels) + 1, !.sink = sink]
    /\ UNCHANGED <<device, reader, index_failed, phase, owed, sunk>>

(* load_batch: decode under the reader's lock, then drain without it. *)
PluginLoad ==
    /\ Ready
    /\ LoadOk
    /\ phase' = "cd"
    /\ owed' = [kind \in KindsOfEvent |-> Len(opened'[1].sent[kind])]
    /\ UNCHANGED <<device, reader, index_failed, plugin, sunk>>

PluginLoadError ==
    /\ Ready
    /\ LoadError
    /\ UNCHANGED <<device, reader, index_failed, pluginVars>>

Pending(kind) == IF plugin[kind] = 0 THEN <<>> ELSE channels[plugin[kind]].queue

(* One batch of the receiver that is being drained, to the sink of now. *)
Drained(kind) ==
    /\ phase = kind
    /\ Pending(kind) # <<>>
    /\ Take(plugin[kind])
    /\ LET ch == channels[plugin[kind]]
       IN  sunk' = Append(sunk, [sink |-> plugin.sink, kind |-> kind, from |-> plugin[kind],
                                 no |-> ch.missed + ch.taken + 1, batch |-> Head(ch.queue)])

NextPhase(kind) == IF kind = "cd" THEN "ext" ELSE "idle"

(* drain_events: first the CD events, as long as there are any, then the   *)
(* triggers.                                                               *)
Mutant_DrainEvents(kind) ==
    /\ \/ Drained(kind) /\ phase' = NextPhase(kind)
       \/ /\ phase = kind
          /\ Pending(kind) = <<>>
          /\ phase' = NextPhase(kind)
          /\ UNCHANGED <<channels, sunk>>
    /\ UNCHANGED <<opened, device, reader, index_failed, plugin, owed>>
DrainEvents(kind) ==
    /\ \/ Drained(kind) /\ UNCHANGED phase
       \/ /\ phase = kind
          /\ Pending(kind) = <<>>
          /\ phase' = NextPhase(kind)
          /\ UNCHANGED <<channels, sunk>>
    /\ UNCHANGED <<opened, device, reader, index_failed, plugin, owed>>

(* The external-trigger seek of a facility handle, in any thread; the      *)
(* plugin's reader has no index, so it fails once it found a trigger.      *)
FacilitySeekToNextExt ==
    /\ SeekToNextExt
    /\ UNCHANGED <<device, reader, index_failed, pluginVars>>

PluginHost ==
    /\ host = "plugin"
    /\ \/ /\ Counted
          /\ \/ \E kind \in KindsOfEvent, sink \in Sinks : StartKind(kind, sink)
             \/ PluginLoad
             \/ PluginLoadError
             \/ FacilitySeekToNextExt
       \/ \E kind \in KindsOfEvent : DrainEvents(kind) /\ UNCHANGED calls
    /\ UNCHANGED <<host, pyVars>>

-----------------------------------------------------------------------------
(* Python.  A batch given to its sink is sent on to the reader's channel;  *)
(* triggers are dropped.                                                   *)

PyDrain ==
    /\ \E kind \in KindsOfEvent :
          /\ DrainEvents(kind)
          /\ queue' = IF sunk' # sunk /\ kind = "cd" THEN Append(queue, Last(sunk').batch) ELSE queue
    /\ UNCHANGED <<iter, call, returned, lost, hung, windows, calls>>

Between == call = None /\ Ready

(* load_batch and seek_to_next_ext of the reader object. *)
PyLoad ==
    /\ Between /\ Counted
    /\ \/ PluginLoad
       \/ PluginLoadError
       \/ FacilitySeekToNextExt
    /\ UNCHANGED pyVars

TakeBatch ==
    /\ queue # <<>>
    /\ queue' = Tail(queue)
    /\ returned' = [returned EXCEPT !["CDEventReceiver"] = @ \o Head(queue)]
    /\ UNCHANGED hung

(* try_recv of a CDEventReceiver, which is told that there is no batch. *)
PyTryReceive ==
    /\ Between /\ Counted
    /\ TakeBatch \/ (queue = <<>> /\ UNCHANGED <<queue, returned, hung>>)
    /\ UNCHANGED <<rawVars, pluginVars, iter, call, lost, windows>>

(* __anext__ of a receiver or of an asynchronous iterator, which waits for *)
(* a batch without giving up the interpreter.                              *)
PyAwait ==
    /\ Between /\ Counted
    /\ TakeBatch \/ (queue = <<>> /\ hung' = TRUE /\ UNCHANGED <<queue, returned>>)
    /\ UNCHANGED <<rawVars, pluginVars, iter, call, lost, windows>>

(* Calls of an iterator.  take_up_to wants a number of events; take_delta  *)
(* those before a time it knows once it has an event.                      *)
PyCall(i) ==
    /\ Between /\ Counted
    /\ call' \in {[iter |-> i, n |-> n, dt |-> None, end |-> None, events |-> <<>>] : n \in Counts}
         \union {[iter |-> i, n |-> None, dt |-> dt, end |-> None, events |-> <<>>] : dt \in Deltas}
    /\ UNCHANGED <<rawVars, pluginVars, queue, iter, returned, lost, hung, windows>>

Buffer == iter[call.iter].internal_buffer
Busy == call # None /\ Ready

(* replenish: only an empty buffer; from the channel, or by load_batch.    *)
Mutant_Replenish ==
    /\ queue # <<>>
    /\ queue' = Tail(queue)
    /\ iter' = [iter EXCEPT ![call.iter].internal_buffer = Head(queue)]
    /\ UNCHANGED <<rawVars, pluginVars, call, returned, lost, hung, windows, calls>>
Replenish ==
    /\ Buffer = <<>>
    /\ queue # <<>>
    /\ queue' = Tail(queue)
    /\ iter' = [iter EXCEPT ![call.iter].internal_buffer = @ \o Head(queue)]
    /\ UNCHANGED <<rawVars, pluginVars, call, returned, lost, hung, windows, calls>>

ReplenishLoad ==
    /\ Buffer = <<>> /\ queue = <<>>
    /\ PluginLoad
    /\ UNCHANGED <<pyVars, calls>>

(* The error leaves the call at once, and drops what it had collected. *)
Mutant_ReplenishError ==
    /\ Buffer = <<>> /\ queue = <<>>
    /\ PluginLoadError
    /\ UNCHANGED <<lost, call, queue, iter, returned, hung, windows, calls>>
ReplenishError ==
    /\ Buffer = <<>> /\ queue = <<>>
    /\ PluginLoadError
    /\ lost' = lost \union Range(call.events)
    /\ call' = None
    /\ UNCHANGED <<queue, iter, returned, hung, windows, calls>>

Pop(now) ==
    /\ call' = [call EXCEPT !.events = Append(@, Head(Buffer))]
    /\ iter' = [iter EXCEPT ![call.iter] =
                   [internal_buffer |-> Tail(@.internal_buffer), current_timestamp |-> now]]
    /\ UNCHANGED <<rawVars, pluginVars, queue, returned, lost, hung, windows, calls>>

Now == iter[call.iter].current_timestamp
Wanted == Len(call.events) < call.n

TakeUpTo ==
    /\ call.n # None /\ Buffer # <<>> /\ Wanted
    /\ Pop(IF Now = None THEN Head(Buffer).t ELSE Now)

(* take_delta: where the window starts, and where it ends. *)
StartOfDelta ==
    /\ call.dt # None /\ call.end = None /\ Buffer # <<>>
    /\ LET start_ts == IF Now = None THEN Head(Buffer).t ELSE Now
       IN  /\ iter' = [iter EXCEPT ![call.iter].current_timestamp = start_ts]
           /\ call' = [call EXCEPT !.end = start_ts + call.dt]
    /\ UNCHANGED <<rawVars, pluginVars, queue, returned, lost, hung, windows, calls>>

TakeDelta ==
    /\ call.dt # None /\ call.end # None /\ Buffer # <<>>
    /\ Head(Buffer).t < call.end
    /\ Pop(Now)

Returned == [returned EXCEPT ![call.iter] = @ \o call.events]

ReturnUpTo ==
    /\ call.n # None /\ ~Wanted
    /\ returned' = Returned
    /\ call' = None
    /\ UNCHANGED <<rawVars, pluginVars, queue, iter, lost, hung, windows, calls>>

Mutant_Baseline(end_ts) == Head(Buffer).t
Baseline(end_ts) == end_ts

ReturnDelta ==
    /\ call.dt # None /\ call.end # None /\ Buffer # <<>>
    /\ ~(Head(Buffer).t < call.end)
    /\ returned' = Returned
    /\ iter' = [iter EXCEPT ![call.iter].current_timestamp = Baseline(call.end)]
    /\ windows' = Append(windows, [iter |-> call.iter, dt |-> call.dt,
                                   events |-> call.events, next |-> Head(Buffer).t,
                                   now |-> Now, end |-> Baseline(call.end)])
    /\ call' = None
    /\ UNCHANGED <<rawVars, pluginVars, queue, lost, hung, calls>>

PyStep ==
    /\ Busy
    /\ \/ (call.n # None => Wanted) /\ (Replenish \/ ReplenishLoad \/ ReplenishError)
       \/ TakeUpTo \/ ReturnUpTo
       \/ StartOfDelta \/ TakeDelta \/ ReturnDelta

Python ==
    /\ host = "python"
    /\ \/ PyDrain
       \/ PyLoad
       \/ PyTryReceive
       \/ PyAwait
       \/ \E i \in Iterators : PyCall(i)
       \/ PyStep
    /\ UNCHANGED host

-----------------------------------------------------------------------------

(* PluginReader::open: the device is opened and its CD events started. *)
PyOpened(p) ==
    /\ opened = <<Subscribe(Opened(p), "cd", 1)>>
    /\ channels = <<[kind |-> "cd", session |-> 1, held |-> TRUE, queue |-> <<>>,
                     missed |-> 0, taken |-> 0]>>
    /\ device = 1 /\ index_failed = FALSE
    /\ reader = [initialized |-> TRUE, session |-> 1, index |-> None]
    /\ plugin = [cd |-> 1, ext |-> 0, sink |-> PySink]

Init ==
    /\ host \in Hosts
    /\ \/ host = "application" /\ RawInit /\ plugin = [cd |-> 0, ext |-> 0, sink |-> None]
       \/ /\ host = "plugin"
          /\ \E p \in Paths : RawInitOpened(p, FALSE)
          /\ plugin = [cd |-> 0, ext |-> 0, sink |-> None]
       \/ host = "python" /\ (\E p \in Paths : PyOpened(p))
    /\ phase = "idle" /\ owed = [kind \in KindsOfEvent |-> 0] /\ sunk = <<>>
    /\ queue = <<>> /\ call = None /\ lost = {} /\ hung = FALSE /\ windows = <<>>
    /\ iter = [i \in Iterators |-> [internal_buffer |-> <<>>, current_timestamp |-> None]]
    /\ returned = [c \in Consumers |-> <<>>]
    /\ calls = 0

Next == Application \/ PluginHost \/ Python

Spec == Init /\ [][Next]_vars

(* A call in progress is run, and a loop over a receiver goes on. *)
FairSpec == Spec /\ WF_vars(host = "python" /\ (PyStep \/ PyDrain) /\ UNCHANGED host)

-----------------------------------------------------------------------------
TypeOK ==
    /\ RawTypeOK
    /\ host \in Hosts
    /\ plugin \in [cd : 0..Len(channels), ext : 0..Len(channels),
                   sink : Sinks \union {PySink, None}]
    /\ phase \in {"idle", "cd", "ext"}
    /\ owed \in [KindsOfEvent -> Nat]
    /\ sunk \in Seq(SinkCalls)
    /\ queue \in Batches
    /\ iter \in [Iterators -> [internal_buffer : Seq(Event), current_timestamp : Nat \union {None}]]
    /\ call \in Calls \union {None}
    /\ returned \in [Consumers -> Seq(Event)]
    /\ lost \subseteq Event
    /\ windows \in Seq(Windows)
    /\ hung \in BOOLEAN /\ calls \in 0..MaxCalls

(* "Every batch produced by that decode is sent to the callback" (the      *)
(* plugin's load_batch): when it returns, the sinks have had every batch   *)
(* decoded up to then by any call, once and in order, but those of before  *)
(* the plugin subscribed and those of a receiver it replaced.              *)
LoadDeliversAll ==
    /\ phase = "idle" => \A kind \in KindsOfEvent :
           plugin[kind] # 0 =>
               LET ch == channels[plugin[kind]] IN ch.missed + ch.taken >= owed[kind]
    /\ \A i, j \in DOMAIN sunk :
           i < j /\ sunk[i].kind = sunk[j].kind =>
               /\ sunk[i].no < sunk[j].no
               /\ sunk[i].from = sunk[j].from /\ sunk[i].no + 1 < sunk[j].no =>
                      \E k \in i..j : sunk[k].kind = sunk[i].kind /\ sunk[k].no = sunk[i].no + 1

InFlight == Events(queue)
    \union (UNION {Range(iter[i].internal_buffer) : i \in Iterators})
    \union (IF call = None THEN {} ELSE Range(call.events))

SunkEvents == UNION {Range(r.batch) : r \in {r \in Range(sunk) : r.kind = "cd"}}

Delivered == UNION {Range(returned[c]) : c \in Consumers}

(* "Return up to n events while preserving any remaining events": whatever *)
(* iterators and receivers share the channel, an event the plugin gave to  *)
(* Python is on its way to one of them or was returned by one, to one only *)
(* and in order; it is lost only by a call that met the end of the file.   *)
EachEventToOneConsumer ==
    host = "python" =>
        /\ SunkEvents = InFlight \union Delivered \union lost
        /\ \A c, d \in Consumers : c # d => Range(returned[c]) \intersect Range(returned[d]) = {}
        /\ \A c \in Consumers : \A i, j \in DOMAIN returned[c] :
               i < j => returned[c][i].n < returned[c][j].n
        /\ lost # {} => opened[1].eof

(* "Containing events within dt of the current time baseline": the windows *)
(* of an iterator abut, and an event is returned with the window before    *)
(* whose end it lies, or is the first of what the iterator keeps.          *)
WindowsAbut ==
    \A k \in DOMAIN windows :
        LET w == windows[k]
        IN  /\ w.end = w.now + w.dt
            /\ \A e \in Range(w.events) : e.t < w.end
            /\ w.next >= w.end
            /\ \A j \in 1..(k - 1) :
                  windows[j].iter = w.iter /\ (\A m \in (j + 1)..(k - 1) : windows[m].iter # w.iter)
                  => w.now = windows[j].end

(* What the safety properties rest on.  The plugin and Python read one     *)
(* file, without an index.                                                 *)
HostInv ==
    /\ host = "application" => plugin.cd = 0 /\ plugin.ext = 0 /\ phase = "idle" /\ sunk = <<>>
    /\ host # "application" =>
          /\ Len(opened) = 1 /\ reader.initialized /\ reader.session = 1 /\ reader.index = None
          /\ \A kind \in KindsOfEvent : plugin[kind] # 0 =>
                channels[plugin[kind]].kind = kind /\ channels[plugin[kind]].held
    /\ host = "python" => plugin.cd = 1 /\ plugin.ext = 0 /\ opened[1].started

(* How many batches of its kind a receiver has had or came too late for.   *)
Had(cs, c) == cs[c].missed + cs[c].taken

(* The sinks have had just what the receivers of the plugin handed out:    *)
(* all that load_batch owed once it went on, each batch after the ones     *)
(* before it, and no batch that a receiver took is missing.  It is said of *)
(* any file and receivers.                                                 *)
OwedIsHad(o, cs, pl, ph, ow) ==
    \A kind \in KindsOfEvent :
        /\ ow[kind] <= Len(o.sent[kind])
        /\ pl[kind] # 0 /\ (ph = "idle" \/ (ph = "ext" /\ kind = "cd")) =>
              ow[kind] <= Had(cs, pl[kind])
SinksInOrder(cs, pl, sk) ==
    \A i \in 1..Len(sk) :
        /\ sk[i].from \in 1..Len(cs)
        /\ sk[i].kind = cs[sk[i].from].kind
        /\ cs[sk[i].from].missed < sk[i].no /\ sk[i].no <= Had(cs, sk[i].from)
        /\ pl[sk[i].kind] # 0 => sk[i].no <= Had(cs, pl[sk[i].kind])
        /\ \A j \in 1..i - 1 : sk[j].kind = sk[i].kind => sk[j].no < sk[i].no
SinksHadAll(cs, sk) ==
    \A c \in 1..Len(cs) : \A no \in cs[c].missed + 1..Had(cs, c) :
        \E i \in 1..Len(sk) : sk[i].from = c /\ sk[i].no = no

SinkInv ==
    host # "application" =>
        /\ OwedIsHad(opened[1], channels, plugin, phase, owed)
        /\ SinksInOrder(channels, plugin, sunk)
        /\ SinksHadAll(channels, sunk)

(* The window of a call in progress, and of the last call.                 *)
WindowInv ==
    /\ call # None =>
          /\ call.n = None <=> call.dt # None
          /\ call.dt # None /\ call.end = None => call.events = <<>>
          /\ call.end # None =>
                /\ call.dt # None /\ Now \in Nat /\ call.end = Now + call.dt
                /\ \A e \in Range(call.events) : e.t < call.end
    /\ \A k \in 1..Len(windows) :
          (\A m \in k + 1..Len(windows) : windows[m].iter # windows[k].iter) =>
              iter[windows[k].iter].current_timestamp = windows[k].end

(* What a consumer was given and is about to be: the events it returned,   *)
(* those of its call in progress, its buffer.  What comes is in the two    *)
(* channels; later still is what was not read.                             *)
Given ==
    [c \in Consumers |->
        returned[c] \o (IF call # None /\ call.iter = c THEN call.events ELSE <<>>)
                    \o (IF c \in Iterators THEN iter[c].internal_buffer ELSE <<>>)]
Coming == queue \o channels[1].queue
Unread(o) == UNION {Events(Reads(o.path)[i].cd) : i \in o.pos + 1..Len(Reads(o.path))}

(* Whatever the consumers were given comes before what comes and what was  *)
(* not read, and that is in order.                                         *)
GivenInOrder(g, coming, unread) ==
    /\ \A c \in Consumers :
          /\ Ascending(g[c])
          /\ Before(Range(g[c]), Events(coming) \union unread)
          /\ \A d \in Consumers \ {c} : Range(g[c]) \intersect Range(g[d]) = {}
    /\ InOrder(coming)
    /\ Before(Events(coming), unread)

OrderInv ==
    host = "python" =>
        /\ GivenInOrder(Given, Coming, Unread(opened[1]))
        /\ SunkEvents = Events(queue) \union (UNION {Range(Given[c]) : c \in Consumers}) \union lost
        /\ lost # {} => opened[1].eof

IndInv ==
    TypeOK /\ RawInv /\ HostInv /\ SinkInv /\ WindowInv /\ WindowsAbut /\ OrderInv

(* An iterator call returns or raises; the batch it waits for is one it    *)
(* loads itself.                                                           *)
IteratorCallReturns == call # None ~> call = None

(* "Preserving any remaining events" (next_n, pydevice.rs:345).            *)
NothingIsLost == lost = {}

=============================================================================
