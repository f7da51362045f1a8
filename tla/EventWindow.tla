---------------------------- MODULE EventWindow ----------------------------
(***************************************************************************)
(* Reading a RAW file: the stream of the file, the reader, and the event   *)
(* window iterators on it (src/devices/raw/stream.rs, reader.rs,           *)
(* iterator.rs), each used by its own thread or all by one.                *)
(*                                                                         *)
(* The file is what its words decode to: CD events, triggers and words     *)
(* that emit nothing.  Whoever takes the lock of the decoder has taken the *)
(* lock of the stream before, so one lock stands for both; it is only ever *)
(* tried.  A seek goes to any word: which one, and what the decoder's row  *)
(* and clock are there, is the index's business.  Left out: a decode error *)
(* (EVT3's decode returns none), stopping the stream, which no caller in   *)
(* the repository but a test does, and iterators that are dropped.         *)
(***************************************************************************)
EXTENDS EventBatches

CONSTANTS SyncIters, AsyncIters, \* iterators in synchronous, asynchronous mode
          Reader,                \* the thread that owns the RawFileReader
          NoOne, None,
          FileLen,               \* words of the file
          BUFFER_SIZE,           \* words a read returns at most
          Calls,                 \* next_n and next_delta calls
          Programs,              \* the programs that use the reader
          MaxSeeks,              \* bound on the seeks of a behaviour
          Concurrent             \* every iterator has a thread of its own

Iters == SyncIters \union AsyncIters
Threads == Iters \union {Reader}

ASSUME ThreadsAssumption ==
    /\ Reader \notin Iters /\ NoOne \notin Threads
    /\ SyncIters \intersect AsyncIters = {}
    /\ None \notin Nat /\ None \notin Iters
ASSUME DataAssumption ==
    /\ FileLen \in Nat /\ MaxSeeks \in Nat
    /\ BUFFER_SIZE \in Nat \ {0}
    /\ Calls \subseteq [kind : {"n", "delta"}, size : Nat \ {0}]
    /\ Concurrent \in BOOLEAN

(* A program and the file it reads: the iterators it makes, the calls its  *)
(* reader makes, the words of the file, how far their times fall back, and *)
(* whether reads may fail.                                                 *)
ASSUME ProgramAssumption ==
    \A q \in Programs :
        /\ q.iters \subseteq Iters
        /\ q.calls \subseteq {"load", "ext", "seek"}
        /\ q.kinds \subseteq {"cd", "ext", "none"}
        /\ q.times \subseteq Nat /\ q.late \in Nat
        /\ q.ioErrors \in BOOLEAN

VARIABLES
    program, file,
    pos, eof, started,       \* RawEventStream
    lock,
    pending, decoded,        \* a decode in progress: events not sent yet; all events sent
    shift,                   \* the decoder's first timestamp
    subscribed,              \* iterators that were created
    receiver,                \* their channels: batches of events
    internal_buffer, current_timestamp,
    batch,                   \* what the latest call has taken
    returned,                \* number of the last event a call returned
    pc, call, result,        \* threads: where they are, latest call and its result
    trigger,                 \* word of the first trigger seek_to_next_ext received
    seeks                    \* calls that seek so far

fileVars == <<program, file>>
streamVars == <<fileVars, pos, eof, started>>
decodeVars == <<pending, decoded, shift>>
iterVars == <<internal_buffer, current_timestamp, batch, returned>>
threadVars == <<pc, call, result>>
readerVars == <<trigger, seeks>>
vars == <<streamVars, lock, decodeVars, subscribed, receiver, iterVars, threadVars,
          readerVars>>

Word == [kind : program.kinds, time : program.times]
NoCall == [kind |-> "none", size |-> 0]
Timed(w) == w.kind # "none"

Init ==
    /\ program \in Programs
    /\ file \in [1..FileLen -> Word]
    /\ \A i, j \in 1..FileLen :
          i < j /\ Timed(file[i]) /\ Timed(file[j]) => file[i].time <= file[j].time + program.late
    /\ \A i \in 1..FileLen : ~Timed(file[i]) => file[i].time = Min(program.times)
    /\ pos = 0 /\ eof = FALSE /\ started = FALSE
    /\ lock = NoOne
    /\ pending = [t \in Threads |-> <<>>] /\ decoded = 0 /\ shift = None
    /\ subscribed = {}
    /\ receiver = [i \in Iters |-> <<>>]
    /\ internal_buffer = [i \in Iters |-> <<>>]
    /\ current_timestamp = [i \in Iters |-> None]
    /\ batch = [i \in Iters |-> <<>>]
    /\ returned = [i \in Iters |-> 0]
    /\ pc = [t \in Threads |-> "idle"]
    /\ call = [t \in Threads |-> NoCall]
    /\ result = [t \in Threads |-> "none"]
    /\ trigger = None /\ seeks = 0

-----------------------------------------------------------------------------
(* The decisions of the code.  Mutant_X is X with a plausible bug, for the *)
(* mutation runs; nothing else uses it.                                    *)

(* read() returns 0 bytes, or has done so before. *)
Mutant_AtEnd == eof
AtEnd == eof \/ pos = FileLen

(* The guards of stream and decoder live until load_batch returns. *)
Mutant_Holds(t) == lock' = NoOne
Holds(t) == lock' = t

(* An event belongs to a window that ends at end_ts. *)
Mutant_InWindow(e, end_ts) == e.t <= end_ts
InWindow(e, end_ts) == e.t < end_ts

(* try_drain_channel_once found nothing. *)
Mutant_NothingReceived(i) == TRUE
NothingReceived(i) == receiver[i] = <<>>

(* The error ends the batch, which is returned as it is. *)
Mutant_EndsBatch(i, error) == FALSE
EndsBatch(i, error) == batch[i] # <<>> /\ error = "EndOfFile"

(* A thread may begin a call; without threads, when no call is in progress.*)
Free(t) == IF Concurrent THEN pc[t] = "idle" ELSE \A u \in Threads : pc[u] = "idle"

Begins(t, c, where) ==
    /\ Free(t)
    /\ pc' = [pc EXCEPT ![t] = where]
    /\ call' = [call EXCEPT ![t] = c]
    /\ UNCHANGED result

ReaderBegins(kind, where) ==
    kind \in program.calls /\ Begins(Reader, [kind |-> kind, size |-> 0], where)

Goes(t, where) == pc' = [pc EXCEPT ![t] = where] /\ UNCHANGED <<call, result>>

Return(t, r) ==
    /\ pc' = [pc EXCEPT ![t] = "idle"]
    /\ result' = [result EXCEPT ![t] = r]
    /\ UNCHANGED call

-----------------------------------------------------------------------------
(* load_batch, the same in the reader and in a synchronous iterator.       *)

(* try_write, poll_buffer and wait_next_buffer: how they fail. *)
LoadFails(t, error) ==
    /\ pc[t] = "load"
    /\ \/ lock # NoOne /\ error = "LockError" /\ UNCHANGED eof
       \/ lock = NoOne /\ ~started /\ error = "Disconnected" /\ UNCHANGED eof
       \/ lock = NoOne /\ started /\ AtEnd /\ error = "EndOfFile" /\ eof' = TRUE
       \/ lock = NoOne /\ started /\ ~eof /\ program.ioErrors /\ error = "IoError" /\ eof' = TRUE
    /\ UNCHANGED <<fileVars, pos, started, lock, decodeVars, subscribed, receiver, readerVars>>

ReadSizes == {k \in 0..FileLen - pos : k <= BUFFER_SIZE /\ (k = 0 => pos = FileLen)}

(* current_timestamp: times count from the first one decoded. *)
SaturatingSub(a, b) == IF a < b THEN 0 ELSE a - b
Shown(p, first) == [p |-> p, t |-> SaturatingSub(file[p].time, first)]

(* The sequence of a set of events in the order of the file, the only one. *)
FileOrder(s) == \A a, b \in DOMAIN s : a < b => s[a].p < s[b].p
Listings(events) == {s \in [1..Cardinality(events) -> events] : FileOrder(s)}

(* A read succeeds; its words are about to be decoded. *)
LoadReads(t) ==
    /\ pc[t] = "load"
    /\ lock = NoOne /\ started /\ ~AtEnd
    /\ Holds(t)
    /\ Goes(t, "decode")
    /\ \E k \in ReadSizes :
          LET read == pos + 1..pos + k
              timed == {p \in read : Timed(file[p])}
              triggers == {p \in read : file[p].kind = "ext"}
          IN  /\ pos' = pos + k
              /\ shift' = IF shift = None /\ timed # {} THEN file[Min(timed)].time ELSE shift
              /\ \E events \in Listings({Shown(p, shift') : p \in {p \in read : file[p].kind = "cd"}}) :
                    pending' = [pending EXCEPT ![t] = events]
              /\ trigger' = IF trigger = None /\ call[Reader].kind = "ext" /\ triggers # {}
                            THEN Min(triggers) ELSE trigger
    /\ UNCHANGED <<fileVars, eof, started, decoded, subscribed, receiver, iterVars, seeks>>

(* The decoder hands a batch to every subscriber: full ones while it goes  *)
(* on, the rest at the end of decode.                                      *)
DecodeSends(t) ==
    /\ pc[t] = "decode" /\ pending[t] # <<>>
    /\ \E k \in 1..Len(pending[t]) :
          LET events == [j \in 1..k |-> [n |-> decoded + j, p |-> pending[t][j].p,
                                         t |-> pending[t][j].t]]
          IN  /\ receiver' = [i \in Iters |->
                    IF i \in subscribed THEN Append(receiver[i], events) ELSE receiver[i]]
              /\ decoded' = decoded + k
              /\ pending' = [pending EXCEPT ![t] = SubSeq(@, k + 1, Len(@))]
    /\ UNCHANGED <<streamVars, lock, shift, subscribed, iterVars, threadVars, readerVars>>

LoadReturns(t) ==
    /\ pc[t] = "decode" /\ pending[t] = <<>>
    /\ lock' = NoOne
    /\ IF t \in SyncIters THEN Goes(t, "drain")
       ELSE IF call[t].kind = "ext" THEN Goes(t, "check")
       ELSE Return(t, "ok")
    /\ UNCHANGED <<streamVars, decodeVars, subscribed, receiver, iterVars, readerVars>>

-----------------------------------------------------------------------------
(* The reader.                                                             *)

(* as_windows: cd_receiver subscribes and starts the stream.  When the     *)
(* lock is held it fails and changes nothing.                              *)
AsWindows(i) ==
    /\ Free(Reader) /\ lock = NoOne
    /\ i \in program.iters \ subscribed
    /\ subscribed' = subscribed \union {i}
    /\ returned' = [returned EXCEPT ![i] = decoded]
    /\ started' = TRUE
    /\ UNCHANGED <<fileVars, pos, eof, lock, decodeVars, receiver, internal_buffer,
                   current_timestamp, batch, threadVars, readerVars>>

LoadBatch ==
    /\ ReaderBegins("load", "load")
    /\ UNCHANGED <<streamVars, lock, decodeVars, subscribed, receiver, iterVars, readerVars>>

(* seek: to a word before the wanted one.  Channels and buffers stay.      *)
SeekTo(targets) ==
    /\ lock = NoOne
    /\ pos' \in targets
    /\ eof' = FALSE

Seek ==
    /\ seeks < MaxSeeks
    /\ ReaderBegins("seek", "idle")
    /\ SeekTo(0..FileLen)
    /\ seeks' = seeks + 1
    /\ UNCHANGED <<fileVars, started, lock, decodeVars, subscribed, receiver, iterVars, trigger>>

(* seek_to_next_ext: subscribe, load one buffer, look, seek.               *)
SeekToNextExt ==
    /\ seeks < MaxSeeks
    /\ lock = NoOne
    /\ ReaderBegins("ext", "load")
    /\ started' = TRUE
    /\ trigger' = None
    /\ seeks' = seeks + 1
    /\ UNCHANGED <<fileVars, pos, eof, lock, decodeVars, subscribed, receiver, iterVars>>

NextExtReceived ==
    /\ pc[Reader] = "check"
    /\ IF trigger = None THEN Return(Reader, "TryRecv") ELSE Goes(Reader, "seek")
    /\ UNCHANGED <<streamVars, lock, decodeVars, subscribed, receiver, iterVars, readerVars>>

NextExtSeeks ==
    /\ pc[Reader] = "seek"
    /\ \/ SeekTo(0..trigger - 1) /\ Return(Reader, "ok")
       \/ lock # NoOne /\ Return(Reader, "LockError") /\ UNCHANGED <<pos, eof>>
    /\ UNCHANGED <<fileVars, started, lock, decodeVars, subscribed, receiver, iterVars, readerVars>>

ReaderFails(error) ==
    /\ LoadFails(Reader, error)
    /\ Return(Reader, error)
    /\ UNCHANGED iterVars

-----------------------------------------------------------------------------
(* The iterators: next_n and next_delta.                                   *)

NextEvents(i, c) ==
    /\ i \in subscribed
    /\ Begins(i, c, "take")
    /\ batch' = [batch EXCEPT ![i] = <<>>]
    /\ UNCHANGED <<streamVars, lock, decodeVars, subscribed, receiver, internal_buffer,
                   current_timestamp, returned, readerVars>>

(* The window's start: the baseline, or the first event there is. *)
EndTs(i) ==
    call[i].size + (IF current_timestamp[i] = None THEN Head(internal_buffer[i]).t
                                                  ELSE current_timestamp[i])

(* How many events of internal_buffer the call pops. *)
Popped(i) ==
    IF call[i].kind = "n" THEN Min({call[i].size - Len(batch[i]), Len(internal_buffer[i])})
    ELSE Max({k \in 0..Len(internal_buffer[i]) :
                 \A j \in 1..k : InWindow(internal_buffer[i][j], EndTs(i))})

Complete(i, k) ==
    IF call[i].kind = "n" THEN Len(batch[i]) + k = call[i].size
                         ELSE k < Len(internal_buffer[i])

TakeEvents(i) ==
    /\ pc[i] = "take" /\ internal_buffer[i] # <<>>
    /\ LET k == Popped(i)
           taken == batch[i] \o SubSeq(internal_buffer[i], 1, k)
           first == Head(internal_buffer[i]).t
       IN  /\ batch' = [batch EXCEPT ![i] = taken]
           /\ internal_buffer' = [internal_buffer EXCEPT ![i] = SubSeq(@, k + 1, Len(@))]
           /\ current_timestamp' = [current_timestamp EXCEPT ![i] =
                 IF call[i].kind = "delta" /\ Complete(i, k) THEN EndTs(i)
                 ELSE IF @ = None THEN first ELSE @]
           /\ IF Complete(i, k)
              THEN /\ Return(i, "ok")
                   /\ returned' = [returned EXCEPT ![i] =
                                      IF taken = <<>> THEN @ ELSE Last(taken).n]
              ELSE Goes(i, "drain") /\ UNCHANGED returned
    /\ UNCHANGED <<streamVars, lock, decodeVars, subscribed, receiver, readerVars>>

(* replenish_buffer: an asynchronous iterator waits for a batch, a         *)
(* synchronous one loads when there is none.                               *)
Replenish(i) ==
    /\ pc[i] = "take" /\ internal_buffer[i] = <<>>
    /\ Goes(i, "drain")
    /\ UNCHANGED <<streamVars, lock, decodeVars, subscribed, receiver, iterVars, readerVars>>

DrainChannel(i) ==
    /\ pc[i] = "drain" /\ receiver[i] # <<>>
    /\ internal_buffer' = [internal_buffer EXCEPT ![i] = Head(receiver[i])]
    /\ receiver' = [receiver EXCEPT ![i] = Tail(@)]
    /\ Goes(i, "take")
    /\ UNCHANGED <<streamVars, lock, decodeVars, subscribed, current_timestamp, batch,
                   returned, readerVars>>

TryDrainFails(i) ==
    /\ pc[i] = "drain" /\ i \in SyncIters
    /\ NothingReceived(i)
    /\ Goes(i, "load")
    /\ UNCHANGED <<streamVars, lock, decodeVars, subscribed, receiver, iterVars, readerVars>>

(* The end of the file ends a batch that holds something; every other      *)
(* error is returned, and what the batch holds is dropped.                 *)
IterFails(i, error) ==
    /\ LoadFails(i, error)
    /\ IF EndsBatch(i, error)
       THEN /\ Return(i, "ok")
            /\ returned' = [returned EXCEPT ![i] = Last(batch[i]).n]
            /\ current_timestamp' = [current_timestamp EXCEPT ![i] =
                                        IF call[i].kind = "delta" THEN @ + call[i].size ELSE @]
            /\ UNCHANGED <<internal_buffer, batch>>
       ELSE /\ Return(i, error)
            /\ batch' = [batch EXCEPT ![i] = <<>>]
            /\ UNCHANGED <<internal_buffer, current_timestamp, returned>>

-----------------------------------------------------------------------------
Errors == {"LockError", "Disconnected", "EndOfFile", "IoError"}

LoadStep(t) == LoadReads(t) \/ DecodeSends(t) \/ LoadReturns(t)

IterStep(i) ==
    \/ TakeEvents(i) \/ Replenish(i) \/ DrainChannel(i) \/ TryDrainFails(i)
    \/ LoadStep(i)
    \/ \E error \in Errors : IterFails(i, error)

ReaderStep ==
    \/ LoadStep(Reader) \/ NextExtReceived \/ NextExtSeeks
    \/ \E error \in Errors : ReaderFails(error)

Next ==
    \/ \E i \in Iters : AsWindows(i) \/ IterStep(i) \/ \E c \in Calls : NextEvents(i, c)
    \/ LoadBatch \/ Seek \/ SeekToNextExt
    \/ ReaderStep

Spec == Init /\ [][Next]_vars

(* Calls in progress are scheduled; with another thread that feeds the     *)
(* decoder, so is that one, which loads until the file ends.               *)
FairSpec ==
    /\ Spec
    /\ \A i \in Iters : WF_vars(IterStep(i))
    /\ WF_vars(ReaderStep)
    /\ WF_vars(LoadBatch)

-----------------------------------------------------------------------------
(* Properties.                                                             *)

Event == [n : Nat, p : 1..FileLen, t : Nat]
Batches == Seq(Seq(Event))
Reads == [p : 1..FileLen, t : Nat]

(* Every variable holds a value of its type. *)
TypeOK ==
    /\ program \in Programs
    /\ file \in [1..FileLen -> Word]
    /\ pos \in 0..FileLen /\ eof \in BOOLEAN /\ started \in BOOLEAN
    /\ lock \in Threads \union {NoOne}
    /\ pending \in [Threads -> Seq(Reads)]
    /\ decoded \in Nat /\ shift \in program.times \union {None}
    /\ subscribed \subseteq Iters
    /\ receiver \in [Iters -> Batches]
    /\ internal_buffer \in [Iters -> Seq(Event)]
    /\ current_timestamp \in [Iters -> Nat \union {None}]
    /\ batch \in [Iters -> Seq(Event)]
    /\ returned \in [Iters -> Nat]
    /\ pc \in [Threads -> {"idle", "take", "drain", "load", "decode", "check", "seek"}]
    /\ call \in [Threads -> Calls \union [kind : program.calls \union {"none"}, size : {0}]]
    /\ result \in [Threads -> Errors \union {"none", "ok", "TryRecv"}]
    /\ trigger \in 1..FileLen \union {None}
    /\ seeks \in 0..MaxSeeks

(* One thread loads. *)
OneLoader ==
    /\ program.calls \intersect {"load", "ext"} = {}
    /\ \A i, j \in program.iters \intersect SyncIters : i = j

(* What an iterator has received and not returned: the batch of the call   *)
(* in progress, its buffer, its channel.                                   *)
Taken(i) == IF pc[i] = "idle" THEN <<>> ELSE batch[i]
InHand(i) == <<Taken(i), internal_buffer[i]>> \o receiver[i]

(* "Returns the next n decoded CD events": every event decoded since the   *)
(* iterator was created is returned by one of its calls or still in its    *)
(* hands, once and in order.  A call that returns a LockError or an I/O    *)
(* error drops what it had taken, so one thread loads and reads succeed.   *)
NothingSkipped ==
    OneLoader /\ ~program.ioErrors => \A i \in subscribed :
        /\ InOrder(InHand(i))
        /\ {e.n : e \in Events(InHand(i))} = returned[i] + 1..decoded

(* However many threads load, an iterator sees the events of the file in   *)
(* the order of the file, as long as nobody seeks.                         *)
InFileOrder ==
    seeks = 0 => \A i \in subscribed :
        /\ InOrder(InHand(i))
        /\ \A e, f \in Events(InHand(i)) : e.n < f.n => e.p < f.p

(* "or fewer if the stream ends": a call ends for the end of the file only *)
(* when all of the file was decoded and the iterator keeps nothing - if no *)
(* other thread loads between the look into the channel and the load, and  *)
(* no read failed, which the stream remembers as its end.                  *)
EndsForGood(i) == pos = FileLen /\ internal_buffer[i] = <<>> /\ receiver[i] = <<>>
EndMeansEnd ==
    [][\A i \in Iters :
         OneLoader /\ ~program.ioErrors /\ pc[i] = "load" /\ pc'[i] = "idle"
         /\ result'[i] \in {"ok", "EndOfFile"}
         => EndsForGood(i)']_vars

(* "events that fall within dt from the current timestamp baseline": in a  *)
(* file whose times are in order, and as long as nobody seeks, the window  *)
(* that next_delta returns holds events of its time only, and every event  *)
(* left in the iterator's hands is of a later one.                         *)
TimesInOrder ==
    \A p, q \in 1..FileLen :
        p < q /\ Timed(file[p]) /\ Timed(file[q]) => file[p].time <= file[q].time

WindowIsExact ==
    [][\A i \in Iters :
         OneLoader /\ TimesInOrder /\ seeks = 0 /\
         pc[i] # "idle" /\ pc'[i] = "idle" /\ result'[i] = "ok" /\ call[i].kind = "delta" =>
            LET end_ts == current_timestamp'[i]
            IN  /\ \A k \in DOMAIN batch'[i] :
                      batch'[i][k].t < end_ts /\ end_ts <= batch'[i][k].t + call[i].size
                /\ \A e \in Events(InHand(i))' : end_ts <= e.t]_vars

-----------------------------------------------------------------------------
(* What the safety properties rest on.  The thread that decodes holds the  *)
(* lock, and only it has events that were not sent.  Iterators that were   *)
(* made for the program run calls, and synchronous ones load; so does the  *)
(* reader, in load_batch and seek_to_next_ext.                             *)
LockInv ==
    \A t \in Threads :
        /\ pc[t] = "decode" <=> lock = t
        /\ pc[t] # "decode" => pending[t] = <<>>

ThreadInv ==
    /\ subscribed \subseteq program.iters
    /\ subscribed # {} => started
    /\ \A i \in Iters :
          /\ pc[i] \in {"idle", "take", "drain", "load", "decode"}
          /\ pc[i] # "idle" => i \in subscribed /\ call[i] \in Calls
          /\ pc[i] \in {"load", "decode"} => i \in SyncIters
    /\ pc[Reader] \in {"idle", "load", "decode", "check", "seek"}
    /\ pc[Reader] # "idle" => call[Reader].kind \in program.calls \intersect {"load", "ext"}
    /\ pc[Reader] \in {"check", "seek"} => call[Reader].kind = "ext"
    /\ pc[Reader] = "seek" => trigger # None
    /\ call[Reader].kind = "ext" => seeks > 0
    /\ eof => pos = FileLen \/ program.ioErrors

(* An iterator loads with an empty buffer and, if it is the only one, an   *)
(* empty channel.  A call of next_n has not yet taken what it wants.       *)
BufferInv ==
    \A i \in Iters :
        /\ i \notin subscribed => internal_buffer[i] = <<>> /\ receiver[i] = <<>>
        /\ pc[i] \in {"drain", "load", "decode"} => internal_buffer[i] = <<>>
        /\ OneLoader /\ pc[i] = "load" => receiver[i] = <<>>
        /\ pc[i] # "idle" /\ call[i].kind = "n" => Len(batch[i]) < call[i].size

(* What an iterator has in its hands is in the order of decoding and later *)
(* than what it returned; without errors it is all that is later.          *)
OrderInv ==
    \A i \in Iters :
        /\ InOrder(InHand(i))
        /\ returned[i] <= decoded
        /\ \A e \in Events(InHand(i)) : e.n \in returned[i] + 1..decoded
        /\ OneLoader /\ ~program.ioErrors /\ i \in subscribed =>
              \A n \in returned[i] + 1..decoded : \E e \in Events(InHand(i)) : e.n = n

(* Events are of the words read; while nobody seeks, later ones of later   *)
(* words.                                                                  *)
IsShown(e) ==
    /\ file[e.p].kind = "cd" /\ shift # None
    /\ e.t = SaturatingSub(file[e.p].time, shift)
FileInv ==
    /\ \A i \in Iters : \A e \in Events(InHand(i)) : IsShown(e)
    /\ \A t \in Threads : \A x \in Range(pending[t]) : IsShown(x)
    /\ seeks = 0 =>
          /\ \A i \in Iters : \A e \in Events(InHand(i)) :
                /\ e.p <= pos
                /\ \A f \in Events(InHand(i)) : e.n < f.n => e.p < f.p
                /\ \A t \in Threads : \A x \in Range(pending[t]) : e.p < x.p
          /\ \A t \in Threads :
                /\ FileOrder(pending[t])
                /\ \A x \in Range(pending[t]) : x.p <= pos

(* The baseline of an iterator is not later than anything it has, gets or  *)
(* could read, and the batch of a window is earlier than the window's end. *)
BaselineInv ==
    \A i \in Iters :
        LET ts == current_timestamp[i]
        IN  /\ ts # None => shift # None
            /\ Taken(i) # <<>> => ts # None
            /\ OneLoader /\ TimesInOrder /\ seeks = 0 /\ ts # None =>
                  /\ \A e \in Events(InHand(i)) : ts <= e.t
                  /\ \A t \in Threads : \A x \in Range(pending[t]) : ts <= x.t
                  /\ eof \/ \A p \in pos + 1..FileLen :
                              file[p].kind = "cd" => ts <= SaturatingSub(file[p].time, shift)
                  /\ call[i].kind = "delta" =>
                        \A e \in Range(Taken(i)) : e.t < ts + call[i].size

IndInv ==
    TypeOK /\ LockInv /\ ThreadInv /\ BufferInv /\ OrderInv /\ FileInv /\ BaselineInv

-----------------------------------------------------------------------------
(* A call of an iterator returns. *)
Returns(i) == pc[i] # "idle" ~> pc[i] = "idle"
SyncReturns == \A i \in SyncIters : Returns(i)

(* "If the stream ends after some events were already collected, those     *)
(* events are still returned", of every mode.                              *)
AsyncReturns == \A i \in AsyncIters : Returns(i)

(* seek_to_next_ext "consumes decoded batches until an external trigger    *)
(* appears": it does not give up while the file holds another trigger.     *)
NextExtFound ==
    result[Reader] = "TryRecv" => \A p \in pos + 1..FileLen : file[p].kind # "ext"

=============================================================================
