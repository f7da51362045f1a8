------------------------- MODULE SimulatorPrefetch -------------------------
(***************************************************************************)
(* The video simulator plugin: one worker thread that decodes frames ahead *)
(* into a bounded channel, and the host threads that hold handles on the   *)
(* shared SimulatorState (openevt-plugins/src/simulator/plugin.rs).        *)
(*                                                                         *)
(* A message stands for one decoded frame: its events, an error or the end *)
(* of the video.  Numeric work (scaling, photocurrents, the circuit model) *)
(* is left out: only the frame a batch belongs to matters here.            *)
(*                                                                         *)
(* The state mutex is held over more than one step only by a thread that   *)
(* waits for a message or that seeks, so the other critical sections are   *)
(* single actions that need the lock free.                                 *)
(***************************************************************************)
EXTENDS Naturals, Sequences

CONSTANTS Callers,          \* host threads with a handle on the device
          Drivers,          \* those among them that request frames or seek
          Sinks,            \* CD and trigger sinks the host may subscribe
          NFrames,          \* decodable frames of the video
          PREFETCH_BATCHES, \* capacity of the channel
          MaxSeeks,         \* bound on the seeks of a behaviour
          NoOne,            \* holder of a free lock
          Nowhere           \* see FrameDelivery

ASSUME DriversAssumption == Drivers \subseteq Callers
ASSUME NoOneAssumption == NoOne \notin Callers
ASSUME SizesAssumption ==
    /\ NFrames \in Nat
    /\ PREFETCH_BATCHES \in Nat \ {0}
    /\ MaxSeeks \in Nat
    /\ Nowhere \notin 0..NFrames

VARIABLES
    started, active, stop, \* the flag of the state and the two atomics shared with the worker
    receiver, queue,       \* SimulatorState.batches is Some, and what the channel holds
    lock,                  \* the state mutex
    wpc, frame, held,      \* worker: where it is, its frame index, the message it holds
    sinks, taken, todo,    \* subscribed sinks, those an advance took, those it has not called
    pc, batch, result,     \* host threads: where they are, the message in hand, last result
    dropPc,                \* progress of Drop once the last handle is gone
    gen, last, ended       \* history: seeks begun, last call of each sink, End was handed out

flagVars   == <<started, active, stop>>
chanVars   == <<receiver, queue>>
workerVars == <<wpc, frame, held>>
sinkVars   == <<sinks, taken, todo>>
callVars   == <<pc, batch, result>>
histVars   == <<gen, last, ended>>
vars == <<flagVars, chanVars, lock, workerVars, sinkVars, callVars, dropPc, histVars>>

-----------------------------------------------------------------------------
Msg(kind, f) == [kind |-> kind, frame |-> f, gen |-> gen]
Nothing == [kind |-> "None", frame |-> 0, gen |-> 0]
Never == [gen |-> 0, frame |-> NFrames]

Init ==
    /\ started = FALSE
    /\ active = FALSE
    /\ stop = FALSE
    /\ receiver = TRUE
    /\ queue = <<>>
    /\ lock = NoOne
    /\ wpc \in {"top", "await"}  \* run_prefetch_worker, or run_preloaded_worker
    /\ frame = 0
    /\ held = Nothing
    /\ sinks = {}
    /\ taken = [c \in Callers |-> {}]
    /\ todo = [c \in Callers |-> {}]
    /\ pc = [c \in Callers |-> "idle"]
    /\ batch = [c \in Callers |-> Nothing]
    /\ result = [c \in Callers |-> "none"]
    /\ dropPc = "live"
    /\ gen = 0
    /\ last = [s \in Sinks |-> Never]
    /\ ended = FALSE

-----------------------------------------------------------------------------
(* The pieces the operations below share.  A definition called Mutant_X    *)
(* is X with a plausible bug, for the mutation runs; nothing else uses it. *)

(* sync_channel(PREFETCH_BATCHES): a sender waits for room. *)
Mutant_HasRoom == TRUE
HasRoom == Len(queue) < PREFETCH_BATCHES

(* process_frame: frame_index += 1. *)
Mutant_AdvanceFrame == UNCHANGED frame
AdvanceFrame == frame' = frame + 1

(* self.batches.take(), in seek and in Drop. *)
Mutant_DropReceiver == UNCHANGED chanVars
DropReceiver == receiver' = FALSE /\ queue' = <<>>

(* The last message of run_preloaded_worker. *)
Mutant_SendEnd == UNCHANGED queue
SendEnd == queue' = Append(queue, Msg("End", frame))

(* VideoSimulator::seek clamps to the video and stops at its end. *)
Mutant_SeekTargets == 0..NFrames + 1
SeekTargets == 0..NFrames

(* self.active.store(was_started) at the end of seek. *)
Mutant_Reactivate == active' = FALSE
Reactivate == active' = started

(* A thread may begin an operation that locks the state. *)
Free(c) == pc[c] = "idle" /\ lock = NoOne /\ dropPc = "live"

(* The guard of the state ends before the callbacks are made. *)
UnlockForCallbacks(c) == lock' = NoOne

(* lock.cd_sinks.append(&mut cd_sinks) after the callbacks. *)
Mutant_GiveSinksBack(c) == sinks' = taken[c]
GiveSinksBack(c) == sinks' = sinks \union taken[c]

-----------------------------------------------------------------------------
(* run_prefetch_worker *)

HostUnchanged ==
    UNCHANGED <<flagVars, lock, sinkVars, callVars, dropPc, histVars>>

WorkerChecksStop ==
    /\ wpc = "top"
    /\ wpc' = IF stop THEN "exited" ELSE "gate"
    /\ UNCHANGED <<chanVars, frame, held>> /\ HostUnchanged

WorkerChecksActive ==
    /\ wpc = "gate"
    /\ wpc' = IF active THEN "produce" ELSE "top"
    /\ UNCHANGED <<chanVars, frame, held>> /\ HostUnchanged

(* next_events_batch: a frame's events, the end (repeated if asked again), *)
(* or an error met before or after the frame index was advanced.           *)
WorkerProduces ==
    /\ wpc = "produce"
    /\ \/ /\ frame < NFrames
          /\ held' = Msg("Events", frame)
          /\ AdvanceFrame
       \/ /\ frame = NFrames
          /\ held' = Msg("End", frame)
          /\ UNCHANGED frame
       \/ /\ held' = Msg("Error", frame)
          /\ frame' \in {frame, frame + 1} \intersect 0..NFrames
    /\ wpc' = "send"
    /\ UNCHANGED chanVars /\ HostUnchanged

(* A send into a full channel waits until there is room or no receiver.    *)
WorkerSends ==
    /\ wpc = "send"
    /\ \/ /\ ~receiver
          /\ wpc' = "exited"
          /\ UNCHANGED queue
       \/ /\ receiver
          /\ HasRoom
          /\ queue' = Append(queue, held)
          /\ wpc' = "check"
    /\ held' = Nothing
    /\ UNCHANGED <<receiver, frame>> /\ HostUnchanged

WorkerChecksAfterSend ==
    /\ wpc = "check"
    /\ wpc' = IF stop THEN "exited" ELSE "top"
    /\ UNCHANGED <<chanVars, frame, held>> /\ HostUnchanged

(* run_preloaded_worker: waits for the first activation, then sends every  *)
(* batch and one End without looking at the active flag again.             *)
PreloadedAwaits ==
    /\ wpc = "await"
    /\ active \/ stop
    /\ wpc' = "pcheck"
    /\ UNCHANGED <<chanVars, frame, held>> /\ HostUnchanged

PreloadedChecksStop ==
    /\ wpc = "pcheck"
    /\ wpc' = IF stop THEN "exited" ELSE "psend"
    /\ UNCHANGED <<chanVars, frame, held>> /\ HostUnchanged

PreloadedSends ==
    /\ wpc = "psend"
    /\ \/ /\ ~receiver
          /\ wpc' = "exited"
          /\ UNCHANGED <<queue, frame>>
       \/ /\ receiver
          /\ HasRoom
          /\ IF frame < NFrames
             THEN /\ queue' = Append(queue, Msg("Events", frame))
                  /\ AdvanceFrame
                  /\ wpc' = "pcheck"
             ELSE /\ SendEnd
                  /\ wpc' = "exited"
                  /\ UNCHANGED frame
    /\ UNCHANGED <<receiver, held>> /\ HostUnchanged

Worker ==
    \/ WorkerChecksStop \/ WorkerChecksActive \/ WorkerProduces
    \/ WorkerSends \/ WorkerChecksAfterSend
    \/ PreloadedAwaits \/ PreloadedChecksStop \/ PreloadedSends

-----------------------------------------------------------------------------
(* SimulatorState::advance, behind load_batch, poll_buffer and             *)
(* wait_next_buffer.                                                       *)

Return(c, r) ==
    /\ pc' = [pc EXCEPT ![c] = "idle"]
    /\ result' = [result EXCEPT ![c] = r]

RequestRefused(c) ==
    /\ Free(c)
    /\ \/ ~started /\ Return(c, "not_started")
       \/ started /\ ~receiver /\ Return(c, "unavailable")
    /\ UNCHANGED <<flagVars, chanVars, lock, workerVars, sinkVars, batch, dropPc, histVars>>

RequestBegins(c) ==
    /\ Free(c)
    /\ started
    /\ receiver
    /\ lock' = c
    /\ pc' = [pc EXCEPT ![c] = "recv"]
    /\ result' = [result EXCEPT ![c] = "none"]
    /\ UNCHANGED <<flagVars, chanVars, workerVars, sinkVars, batch, dropPc, histVars>>

ReceiveMessage(c) ==
    /\ pc[c] = "recv"
    /\ queue # <<>>
    /\ queue' = Tail(queue)
    /\ lock' = NoOne
    /\ LET m == Head(queue)
       IN  \/ /\ m.kind = "Events"
              /\ pc' = [pc EXCEPT ![c] = "take"]
              /\ batch' = [batch EXCEPT ![c] = m]
              /\ UNCHANGED <<result, ended>>
           \/ /\ m.kind = "End"
              /\ Return(c, "end")
              /\ ended' = TRUE
              /\ UNCHANGED batch
           \/ /\ m.kind = "Error"
              /\ Return(c, "error")
              /\ UNCHANGED <<batch, ended>>
    /\ UNCHANGED <<flagVars, receiver, workerVars, sinkVars, dropPc, gen, last>>

(* An empty channel: no sender is left, or the wait timed out and the stop *)
(* flag is up.  A time-out without the flag waits again.                   *)
ReceiveFails(c) ==
    /\ pc[c] = "recv"
    /\ queue = <<>>
    /\ IF wpc = "exited" THEN Return(c, "disconnected")
                         ELSE stop /\ Return(c, "stopped")
    /\ lock' = NoOne
    /\ UNCHANGED <<flagVars, chanVars, workerVars, sinkVars, batch, dropPc, histVars>>

TakeSinks(c) ==
    /\ pc[c] = "take"
    /\ lock = NoOne
    /\ taken' = [taken EXCEPT ![c] = sinks]
    /\ todo' = [todo EXCEPT ![c] = sinks]
    /\ sinks' = {}
    /\ UnlockForCallbacks(c)
    /\ pc' = [pc EXCEPT ![c] = "deliver"]
    /\ UNCHANGED <<flagVars, chanVars, workerVars, batch, result, dropPc, histVars>>

CallSink(c, s) ==
    /\ pc[c] = "deliver"
    /\ s \in todo[c]
    /\ todo' = [todo EXCEPT ![c] = @ \ {s}]
    /\ last' = [last EXCEPT ![s] = [gen |-> batch[c].gen, frame |-> batch[c].frame]]
    /\ UNCHANGED <<flagVars, chanVars, lock, workerVars, sinks, taken, callVars,
                   dropPc, gen, ended>>

RestoreSinks(c) ==
    /\ pc[c] = "deliver"
    /\ todo[c] = {}
    /\ lock = NoOne
    /\ GiveSinksBack(c)
    /\ taken' = [taken EXCEPT ![c] = {}]
    /\ batch' = [batch EXCEPT ![c] = Nothing]
    /\ Return(c, "ok")
    /\ UNCHANGED <<flagVars, chanVars, lock, workerVars, todo, dropPc, histVars>>

-----------------------------------------------------------------------------
(* SimulatorState::seek, all of it under the lock.                         *)

SeekBegins(c) ==
    /\ Free(c)
    /\ gen < MaxSeeks
    /\ lock' = c
    /\ active' = FALSE
    /\ stop' = TRUE
    /\ pc' = [pc EXCEPT ![c] = "drop"]
    /\ result' = [result EXCEPT ![c] = "none"]
    /\ UNCHANGED <<started, chanVars, workerVars, sinkVars, batch, dropPc, histVars>>

SeekDropsReceiver(c) ==
    /\ pc[c] = "drop"
    /\ DropReceiver
    /\ gen' = gen + 1
    /\ pc' = [pc EXCEPT ![c] = "join"]
    /\ UNCHANGED <<flagVars, lock, workerVars, sinkVars, batch, result, dropPc, last, ended>>

Joined == wpc \in {"exited", "none"}

SeekJoins(c) ==
    /\ pc[c] = "join"
    /\ Joined
    /\ wpc' = "none"
    /\ pc' = [pc EXCEPT ![c] = "spawn"]
    /\ UNCHANGED <<flagVars, chanVars, lock, frame, held, sinkVars, batch, result,
                   dropPc, histVars>>

(* spawn_worker reopens the video and decodes up to the requested frame.   *)
SeekSpawns(c) ==
    /\ pc[c] = "spawn"
    /\ frame' \in SeekTargets
    /\ receiver' = TRUE
    /\ stop' = FALSE
    /\ Reactivate
    /\ wpc' = "top"
    /\ ended' = FALSE
    /\ lock' = NoOne
    /\ Return(c, "ok")
    /\ UNCHANGED <<started, queue, held, sinkVars, batch, dropPc, gen, last>>

(* The video cannot be reopened or decoded that far: the error is returned *)
(* before any field is assigned.                                           *)
SeekFails(c) ==
    /\ pc[c] = "spawn"
    /\ lock' = NoOne
    /\ Return(c, "error")
    /\ UNCHANGED <<flagVars, chanVars, workerVars, sinkVars, batch, dropPc, histVars>>

-----------------------------------------------------------------------------
(* Operations of one critical section, and Drop.                           *)

Start(c) ==
    /\ Free(c)
    /\ started' = TRUE
    /\ active' = TRUE
    /\ UNCHANGED <<stop, chanVars, lock, workerVars, sinkVars, callVars, dropPc, histVars>>

StopStream(c) ==
    /\ Free(c)
    /\ started' = FALSE
    /\ active' = FALSE
    /\ UNCHANGED <<stop, chanVars, lock, workerVars, sinkVars, callVars, dropPc, histVars>>

(* A sink is moved into the call, so each is subscribed at most once.      *)
NewSink(s) == s \notin sinks /\ \A c \in Callers : s \notin taken[c]

Subscribe(c, s) ==
    /\ Free(c)
    /\ NewSink(s)
    /\ sinks' = sinks \union {s}
    /\ UNCHANGED <<flagVars, chanVars, lock, workerVars, taken, todo, callVars,
                   dropPc, histVars>>

(* start_events and start_external_triggers.                               *)
StartEvents(c, s) ==
    /\ Free(c)
    /\ NewSink(s)
    /\ started' = TRUE
    /\ active' = TRUE
    /\ sinks' = sinks \union {s}
    /\ UNCHANGED <<stop, chanVars, lock, workerVars, taken, todo, callVars, dropPc, histVars>>

(* The last handle is dropped, so no call is in progress.                  *)
DropBegins ==
    /\ dropPc = "live"
    /\ \A c \in Callers : pc[c] = "idle"
    /\ active' = FALSE
    /\ stop' = TRUE
    /\ dropPc' = "drop"
    /\ UNCHANGED <<started, chanVars, lock, workerVars, sinkVars, callVars, histVars>>

DropDropsReceiver ==
    /\ dropPc = "drop"
    /\ DropReceiver
    /\ dropPc' = "join"
    /\ UNCHANGED <<flagVars, lock, workerVars, sinkVars, callVars, histVars>>

DropJoins ==
    /\ dropPc = "join"
    /\ Joined
    /\ dropPc' = "gone"
    /\ UNCHANGED <<flagVars, chanVars, lock, workerVars, sinkVars, callVars, histVars>>

(* Nothing is left to run: keeps TLC's deadlock check for real deadlocks.  *)
Gone == dropPc = "gone" /\ UNCHANGED vars

-----------------------------------------------------------------------------
(* What a host thread does of its own accord, and what it must then finish.*)
HostBegins(c) ==
    \/ c \in Drivers /\ (RequestRefused(c) \/ RequestBegins(c) \/ SeekBegins(c))
    \/ Start(c) \/ StopStream(c)
    \/ \E s \in Sinks : Subscribe(c, s) \/ StartEvents(c, s)

RequestStep(c) ==
    \/ ReceiveMessage(c) \/ ReceiveFails(c) \/ TakeSinks(c)
    \/ (\E s \in Sinks : CallSink(c, s)) \/ RestoreSinks(c)

SeekStep(c) ==
    SeekDropsReceiver(c) \/ SeekJoins(c) \/ SeekSpawns(c) \/ SeekFails(c)

DropStep == DropDropsReceiver \/ DropJoins

Next ==
    \/ Worker
    \/ \E c \in Callers : HostBegins(c) \/ RequestStep(c) \/ SeekStep(c)
    \/ DropBegins \/ DropStep \/ Gone

(* The worker thread and a call in progress are scheduled; the host is     *)
(* free never to call again.                                               *)
Fairness ==
    /\ WF_vars(Worker)
    /\ \A c \in Drivers : WF_vars(RequestStep(c)) /\ WF_vars(SeekStep(c))
    /\ WF_vars(DropStep)

Spec == Init /\ [][Next]_vars
FairSpec == Spec /\ Fairness

-----------------------------------------------------------------------------
(* Properties.                                                             *)

Frames == 0..NFrames
Message == [kind : {"None", "Events", "End", "Error"}, frame : Frames, gen : Nat]

(* Every variable holds a value of its type. *)
TypeOK ==
    /\ started \in BOOLEAN /\ active \in BOOLEAN /\ stop \in BOOLEAN
    /\ receiver \in BOOLEAN
    /\ queue \in Seq(Message)
    /\ lock \in Callers \union {NoOne}
    /\ wpc \in {"top", "gate", "produce", "send", "check",
                "await", "pcheck", "psend", "exited", "none"}
    /\ frame \in Frames
    /\ held \in Message
    /\ sinks \subseteq Sinks
    /\ taken \in [Callers -> SUBSET Sinks]
    /\ todo \in [Callers -> SUBSET Sinks]
    /\ pc \in [Callers -> {"idle", "recv", "take", "deliver", "drop", "join", "spawn"}]
    /\ batch \in [Callers -> Message]
    /\ result \in [Callers -> {"none", "ok", "not_started", "unavailable", "stopped",
                               "disconnected", "end", "error"}]
    /\ dropPc \in {"live", "drop", "join", "gone"}
    /\ gen \in Nat
    /\ last \in [Sinks -> [gen : Nat, frame : Frames]]
    /\ ended \in BOOLEAN

(* A thread that waits for a message does so under the state lock, where   *)
(* nobody else can start the stream, stop it or replace the worker.  So it *)
(* waits only for a channel that is being fed: the stream is started, the  *)
(* worker's active flag is up, no stop was asked and the receiver is open. *)
ReceiverIsFed ==
    \A c \in Callers : pc[c] = "recv" =>
        lock = c /\ started /\ active /\ ~stop /\ receiver /\ wpc # "none"

(* The channel and the worker never hold a batch decoded before the latest *)
(* seek dropped the receiver: "Seeking also clears prefetched batches".    *)
NoStalePrefetch ==
    /\ \A i \in 1..Len(queue) : queue[i].gen = gen
    /\ receiver /\ held.kind # "None" => held.gen = gen

(* The stop test in the time-out branch of advance never fires: the flag   *)
(* is raised only under the lock the waiting thread holds.                 *)
RequestNeverSeesStop == \A c \in Callers : result[c] # "stopped"

(* The inductive invariant behind the properties above and SinksKept: who  *)
(* holds the lock, what the flags say while the worker is not being        *)
(* stopped, which worker has a message in hand, and which thread has sinks.*)
Seeking == \E c \in Callers : pc[c] \in {"drop", "join", "spawn"}

LockInv ==
    /\ \A c \in Callers : pc[c] \in {"recv", "drop", "join", "spawn"} <=> lock = c
    /\ dropPc # "live" => \A c \in Callers : pc[c] = "idle"

WorkerInv ==
    /\ receiver /\ ~Seeking /\ dropPc = "live" => ~stop /\ (started => active)
    /\ receiver /\ ~Seeking => wpc # "none"
    /\ ~receiver => queue = <<>>
    /\ wpc = "send" <=> held.kind # "None"
    /\ \A c \in Callers :
          /\ pc[c] = "recv" => started /\ receiver
          /\ pc[c] \in {"join", "spawn"} => ~receiver
          /\ pc[c] = "spawn" => wpc = "none"

SinkInv == \A c \in Callers : pc[c] # "deliver" => taken[c] = {}

IndInv ==
    TypeOK /\ LockInv /\ WorkerInv /\ SinkInv /\ NoStalePrefetch /\ RequestNeverSeesStop

(* The worker decodes at most PREFETCH_BATCHES frames into the channel and *)
(* one more that waits for room, beyond the frame being delivered.         *)
InHand == {c \in Callers : pc[c] \in {"take", "deliver"}}

Position ==
    IF ~receiver THEN Nowhere
    ELSE IF InHand # {} THEN batch[CHOOSE c \in InHand : TRUE].frame
    ELSE IF queue # <<>> THEN Head(queue).frame
    ELSE IF held.kind # "None" THEN held.frame
    ELSE frame

ReadAheadBounded ==
    receiver => frame <= Position + PREFETCH_BATCHES + 1 + (IF InHand = {} THEN 0 ELSE 1)

(* No step loses a subscribed sink: one that an advance took out of the    *)
(* state comes back, next to those subscribed in the meantime.             *)
Subscribed == sinks \union UNION {taken[c] : c \in Callers}
SinksKept == [][Subscribed \subseteq Subscribed']_vars

(* A host is told "end of simulator video" before it can be told that the  *)
(* worker is disconnected.                                                 *)
EndBeforeDisconnect ==
    [][\A c \in Callers :
         pc[c] = "recv" /\ pc'[c] = "idle" /\ result'[c] = "disconnected" => ended]_vars

(* docs/simulator-plugin.md: batches "are delivered in one callback to     *)
(* every subscribed CD sink".  The code breaks this when two threads       *)
(* request at a time (README, section 8), so no run checks it.             *)
EveryBatchToEverySink ==
    [][\A c \in Callers : pc[c] = "take" /\ pc'[c] = "deliver" => todo'[c] = Subscribed]_vars

(* With one driver the threads, the lock and the channel implement the     *)
(* atomic deliveries of FrameDelivery.                                     *)
Delivering == \E c \in Callers : pc[c] = "deliver"
Owed == UNION {todo[c] : c \in Callers}
Abstract == INSTANCE FrameDelivery WITH
    position   <- Position,
    delivering <- Delivering,
    owed       <- Owed,
    subscribed <- Subscribed,
    epoch      <- gen
ImplementsFrameDelivery == Abstract!Spec

(* Two more invariants, on top of IndInv.  A worker that has exited        *)
(* without being told to stop has sent the end of the video.               *)
ExitInv ==
    receiver /\ wpc = "exited" /\ ~stop
        => ended \/ \E i \in 1..Len(queue) : queue[i].kind = "End"

(* With one driver, the batch in hand, the channel, the message that waits *)
(* for room and the worker's frame index are one stretch of the video.     *)
OneDriver == \A c, d \in Drivers : c = d

WorkerFrame == IF held.kind = "None" THEN frame ELSE held.frame
AtHead == IF queue = <<>> THEN WorkerFrame ELSE Head(queue).frame

Follows(m, f) ==
    \/ m.kind = "Events" /\ f = m.frame + 1
    \/ m.kind = "End" /\ m.frame = NFrames /\ f = NFrames
    \/ m.kind = "Error" /\ f \in {m.frame, m.frame + 1}

DriverInv ==
    \A c \in Callers :
        /\ pc[c] # "idle" => c \in Drivers
        /\ pc[c] # "deliver" => todo[c] = {}

Stretch(q, w) ==
    /\ Len(q) <= PREFETCH_BATCHES
    /\ \A i \in 1..Len(q) :
          /\ Follows(q[i], IF i = Len(q) THEN w ELSE q[i + 1].frame)
          /\ w <= q[i].frame + (Len(q) - i) + 1

StretchInv ==
    receiver => (held.kind # "None" => Follows(held, frame)) /\ Stretch(queue, WorkerFrame)

InHandInv ==
    \A c \in InHand :
        /\ receiver
        /\ batch[c].kind = "Events" /\ batch[c].gen = gen
        /\ Follows(batch[c], AtHead)

StreamInv == DriverInv /\ StretchInv /\ InHandInv

(* A request that waits for a message gets one or an error.                *)
RequestReturns == \A c \in Drivers : pc[c] = "recv" ~> pc[c] # "recv"

(* A seek returns: the worker it joins is not left waiting for room in the *)
(* channel.                                                                *)
SeekReturns == \A c \in Drivers : pc[c] \in {"drop", "join", "spawn"} ~> pc[c] = "idle"

(* A delivery that has begun hands the sinks back.                         *)
DeliveryCompletes == \A c \in Drivers : pc[c] \in {"take", "deliver"} ~> pc[c] = "idle"

(* Dropping the device joins the worker.                                   *)
DropCompletes == dropPc = "drop" ~> dropPc = "gone"

(* Every call that has begun returns: a request is fed, a seek and Drop    *)
(* find a worker that ends, a delivery is not kept from the lock.          *)
CallsReturn == RequestReturns /\ SeekReturns /\ DeliveryCompletes /\ DropCompletes

=============================================================================
