------------------------------ MODULE RawReader ------------------------------
(***************************************************************************)
(* A raw file opened for reading: the handler that registers one set of    *)
(* facilities per opened file (src/devices/raw/device.rs), the reader that *)
(* holds handles to them (reader.rs), and the dispatcher of its decoder,   *)
(* whose subscribers are the sending ends of channels                      *)
(* (src/hal/dispatcher.rs).                                                *)
(*                                                                         *)
(* Every operation is one step: the reader takes the locks it needs with   *)
(* try_write, and EventWindow models what happens when it does not get     *)
(* them.  What a read of the file decodes to is given, as batches of       *)
(* events; which marker a seek finds is modelled by TimestampIndex.        *)
(*                                                                         *)
(* Mutant_X is X with a plausible bug, for the mutation runs; nothing else *)
(* uses it.                                                                *)
(***************************************************************************)
EXTENDS EventBatches

CONSTANTS Paths,
          Reads(_),     \* what the reads of a file decode to
          MaxOpens, MaxChannels,
          None

KindsOfEvent == {"cd", "ext"}
Event == [n : Nat, t : Nat]

(* Events are numbered in the order of the file. *)
ASSUME ContentAssumption ==
    /\ \A p \in Paths : Reads(p) \in Seq([cd : Seq(Seq(Event)), ext : Seq(Seq(Event))])
    /\ None \notin Paths \union Nat
    /\ MaxOpens \in Nat /\ MaxChannels \in Nat
ASSUME NumberingAssumption ==
    \A p \in Paths : \A i \in 1..Len(Reads(p)) :
        /\ InOrder(Reads(p)[i].cd)
        /\ \A j \in 1..(i - 1) : Before(Events(Reads(p)[j].cd), Events(Reads(p)[i].cd))

VARIABLES
    opened,     \* the facilities of each opened file: stream and decoder,
                \* with a history of the batches it decoded
    channels,   \* receivers: what is queued, whether it still is held
    device,     \* the handler's file and facilities, by their number
    reader,     \* the reader's handles and index
    index_failed \* the last try_open replaced the handler and then failed

rawVars == <<opened, channels, device, reader, index_failed>>

Opened(path) ==
    [path |-> path, pos |-> 0, eof |-> FALSE, started |-> FALSE,
     cd |-> <<>>, ext |-> <<>>,             \* subscribers, by their channels
     sent |-> [cd |-> <<>>, ext |-> <<>>]]

NewReader == [initialized |-> FALSE, session |-> 0, index |-> None]

Current == opened[reader.session]

(* The handler's new_from_path: facilities of a file of its own. *)
OpenHandler(path) ==
    /\ Len(opened) < MaxOpens
    /\ opened' = Append(opened, Opened(path))
    /\ device' = Len(opened) + 1

(* try_open: the handler first, then the index, then the handles.  Opening *)
(* or parsing may fail, and leaves all as it was; so may the index.        *)
Mutant_TryOpen(path, do_index) ==
    \/ UNCHANGED rawVars
    \/ /\ OpenHandler(path)
       /\ do_index
       /\ index_failed' = TRUE
       /\ reader' = [reader EXCEPT !.initialized = TRUE, !.session = device']
       /\ UNCHANGED channels
    \/ /\ OpenHandler(path)
       /\ reader' = [initialized |-> TRUE, session |-> device',
                     index |-> IF do_index THEN path ELSE None]
       /\ index_failed' = FALSE
       /\ UNCHANGED channels
TryOpen(path, do_index) ==
    \/ UNCHANGED rawVars
    \/ /\ OpenHandler(path)
       /\ do_index
       /\ index_failed' = TRUE
       /\ UNCHANGED <<reader, channels>>
    \/ /\ OpenHandler(path)
       /\ reader' = [initialized |-> TRUE, session |-> device',
                     index |-> IF do_index THEN path ELSE None]
       /\ index_failed' = FALSE
       /\ UNCHANGED channels

-----------------------------------------------------------------------------
(* Subscriptions.  The decoder keeps the callback of a receiver that was   *)
(* dropped; sending to it fails and is ignored.                            *)

Channel(kind, session, queue) ==
    [kind |-> kind, session |-> session, held |-> TRUE, queue |-> queue,
     missed |-> Len(opened[session].sent[kind]),    \* decoded before it
     taken |-> 0]                                   \* received so far

Subscribe(o, kind, c) == [o EXCEPT ![kind] = Append(@, c), !.started = TRUE]

(* cd_receiver and ext_receiver: subscribe, and start the stream. *)
Receiver(kind) ==
    /\ reader.initialized
    /\ Len(channels) < MaxChannels
    /\ channels' = Append(channels, Channel(kind, reader.session, <<>>))
    /\ opened' = [opened EXCEPT ![reader.session] = Subscribe(@, kind, Len(channels) + 1)]

Mutant_Send(cs, o, kind, batches) ==
    [c \in DOMAIN cs |->
        IF o[kind] # <<>> /\ Last(o[kind]) = c /\ cs[c].held
        THEN [cs[c] EXCEPT !.queue = @ \o batches] ELSE cs[c]]
Send(cs, o, kind, batches) ==
    [c \in DOMAIN cs |->
        IF c \in Range(o[kind]) /\ cs[c].held
        THEN [cs[c] EXCEPT !.queue = @ \o batches] ELSE cs[c]]

-----------------------------------------------------------------------------
(* load_batch: one buffer of the stream into the decoder, which dispatches *)
(* the batches.  It fails before the stream was started and at the end of  *)
(* the file.                                                               *)

CanRead(o) == o.started /\ ~o.eof /\ o.pos < Len(Reads(o.path))

AfterPoll(o) == IF o.started THEN [o EXCEPT !.eof = @ \/ o.pos = Len(Reads(o.path))] ELSE o

AfterRead(o) ==
    LET r == Reads(o.path)[o.pos + 1]
    IN  [o EXCEPT !.pos = @ + 1, !.sent = [cd |-> @.cd \o r.cd, ext |-> @.ext \o r.ext]]

Dispatched(cs, o) ==
    LET r == Reads(o.path)[o.pos + 1]
    IN  Send(Send(cs, o, "cd", r.cd), o, "ext", r.ext)

LoadOk ==
    /\ reader.initialized /\ CanRead(Current)
    /\ channels' = Dispatched(channels, Current)
    /\ opened' = [opened EXCEPT ![reader.session] = AfterRead(@)]

LoadError ==
    /\ reader.initialized /\ ~CanRead(Current)
    /\ opened' = [opened EXCEPT ![reader.session] = AfterPoll(@)]
    /\ UNCHANGED channels

Places(o) == 0..Len(Reads(o.path))

(* seek: to the place of some marker, if there is an index. *)
Seek ==
    /\ reader.initialized /\ reader.index # None
    /\ \E n \in Places(Current) :
          opened' = [opened EXCEPT ![reader.session].pos = n, ![reader.session].eof = FALSE]
    /\ UNCHANGED channels

(* seek_to_next_ext subscribes a receiver of its own, loads one batch, and *)
(* fails if that had no trigger in it; with one, it seeks, if it can.  The *)
(* receiver is dropped on return.                                          *)
SeekToNextExt ==
    /\ reader.initialized
    /\ Len(channels) < MaxChannels
    /\ LET o  == Subscribe(Current, "ext", Len(channels) + 1)
           cs == Append(channels, [Channel("ext", reader.session, <<>>) EXCEPT !.held = FALSE])
       IN  IF ~CanRead(o)
           THEN /\ opened' = [opened EXCEPT ![reader.session] = AfterPoll(o)]
                /\ channels' = cs
           ELSE /\ channels' = Dispatched(cs, o)
                /\ IF Reads(o.path)[o.pos + 1].ext = <<>> \/ reader.index = None
                   THEN opened' = [opened EXCEPT ![reader.session] = AfterRead(o)]
                   ELSE \E n \in Places(o) :
                           opened' = [opened EXCEPT ![reader.session] =
                                         [AfterRead(o) EXCEPT !.pos = n, !.eof = FALSE]]

(* What an application does with a receiver it holds. *)
Take(c) ==
    /\ channels[c].held /\ channels[c].queue # <<>>
    /\ channels' = [channels EXCEPT ![c].queue = Tail(@), ![c].taken = @ + 1]

Drop(c) ==
    /\ channels[c].held
    /\ channels' = [channels EXCEPT ![c].held = FALSE, ![c].queue = <<>>]

RawInit ==
    /\ opened = <<>> /\ channels = <<>>
    /\ device = 0 /\ reader = NewReader
    /\ index_failed = FALSE

(* try_from_file. *)
RawInitOpened(path, do_index) ==
    /\ opened = <<Opened(path)>> /\ channels = <<>>
    /\ device = 1
    /\ reader = [initialized |-> TRUE, session |-> 1, index |-> IF do_index THEN path ELSE None]
    /\ index_failed = FALSE

-----------------------------------------------------------------------------
Batches == Seq(Seq(Event))
Files == [path : Paths, pos : Nat, eof : BOOLEAN, started : BOOLEAN,
          cd : Seq(Nat), ext : Seq(Nat), sent : [cd : Batches, ext : Batches]]
Receivers == [kind : KindsOfEvent, session : Nat, held : BOOLEAN, queue : Batches,
              missed : Nat, taken : Nat]

RawTypeOK ==
    /\ opened \in Seq(Files) /\ channels \in Seq(Receivers)
    /\ \A s \in DOMAIN opened : opened[s].pos <= Len(Reads(opened[s].path))
    /\ device \in 0..Len(opened)
    /\ reader \in [initialized : BOOLEAN, session : 0..Len(opened), index : Paths \union {None}]
    /\ reader.initialized <=> reader.session # 0
    /\ index_failed \in BOOLEAN

(* "Sends a batch to all subscribers": a receiver that is held has had, or *)
(* has queued, exactly the batches of its kind that the decoder it was     *)
(* made for has decoded since, in order, whatever was subscribed, dropped, *)
(* opened or sought in between.                                            *)
ReceiversMissNothing ==
    \A c \in DOMAIN channels :
        LET ch == channels[c]
            sent == opened[ch.session].sent[ch.kind]
        IN  ch.held => ch.queue = SubSeq(sent, ch.missed + ch.taken + 1, Len(sent))

(* "This updates the device, facilities, and optional index in place":     *)
(* the index is of the file the reader reads, even after a try_open that   *)
(* failed half way; the handler's shape is too, unless it did.             *)
ReaderIsOfOneFile ==
    reader.initialized =>
        /\ reader.index \in {None, Current.path}
        /\ device = reader.session \/ index_failed

(* Why receivers miss nothing: the subscribers of a decoder are the        *)
(* receivers made for it, each for one kind, and none has had more than    *)
(* the decoder has sent.  It is said of any files and receivers, so that   *)
(* an operation of several steps can be taken apart.                       *)
Subscribers(cs, s, k) == {c \in 1..Len(cs) : cs[c].session = s /\ cs[c].kind = k}
MissesNothing(ch, sent) ==
    /\ ch.missed + ch.taken <= Len(sent)
    /\ ch.held => ch.queue = SubSeq(sent, ch.missed + ch.taken + 1, Len(sent))
Wired(os, cs) ==
    /\ os \in Seq(Files) /\ cs \in Seq(Receivers)
    /\ \A s \in 1..Len(os) :
          /\ os[s].pos <= Len(Reads(os[s].path))
          /\ \A k \in KindsOfEvent : Range(os[s][k]) = Subscribers(cs, s, k)
    /\ \A c \in 1..Len(cs) :
          cs[c].session \in 1..Len(os) /\ MissesNothing(cs[c], os[cs[c].session].sent[cs[c].kind])

RawInv == RawTypeOK /\ Wired(opened, channels) /\ ReaderIsOfOneFile

=============================================================================
