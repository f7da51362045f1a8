--------------------------- MODULE VideoSimulator ---------------------------
(***************************************************************************)
(* The simulator behind the video plugin, as the worker of                 *)
(* SimulatorPrefetch drives it: packets of the container go into the       *)
(* decoder, frames come out of it later, each frame is held for its        *)
(* duration and integrated in steps of dt, and a seek replays the video    *)
(* from its start (VideoSimulator in simulator/plugin.rs and EvsSimulator  *)
(* in simulator/solver.rs).                                                *)
(*                                                                         *)
(* A step is one turn of the loop of next_frame_events.  The container,    *)
(* the decoder and the scaler are FFmpeg's (external).  Times are          *)
(* integers, the floating-point circuit is the list of the frames it has   *)
(* seen, and the pixels that fire in a step are arbitrary.                 *)
(***************************************************************************)
EXTENDS Naturals, Sequences

CONSTANTS NFrames,        \* frames of the video
          Other,          \* a packet of another stream
          Container,      \* the packets: a frame's number, or Other
          Delay,          \* frames the decoder keeps back until it is drained
          EncodedPeriod,  \* duration of a frame at the encoded rate
          Periods,        \* durations of a frame at the rates that may override it
          FrameCounts,    \* what the container may claim NFrames to be
          Times,          \* timestamps to seek
          Dt,             \* integration step
          MaxFiring,      \* pixels that may fire in a step
          MaxEvents,      \* events the arbiter passes in a step
          FRAME_BATCH_SIZE

ASSUME VideoAssumption ==
    /\ NFrames \in Nat /\ Delay \in Nat /\ Container \in Seq(1..NFrames \union {Other})
    /\ Other \notin 1..NFrames
    /\ \A f \in 1..NFrames : \E i \in 1..Len(Container) : Container[i] = f
    /\ \A i, j \in 1..Len(Container) :
          i < j /\ Container[i] # Other /\ Container[j] # Other => Container[i] < Container[j]
    /\ EncodedPeriod \in Nat \ {0} /\ Periods \subseteq Nat \ {0}
    /\ FrameCounts \subseteq Nat /\ Times \subseteq Nat
    /\ Dt \in Nat \ {0} /\ FRAME_BATCH_SIZE \in Nat \ {0}
    /\ MaxFiring \in Nat /\ MaxEvents \in Nat

VARIABLES
    period, frame_count,               \* fixed when the video is opened
    pos, held, draining,               \* external: packets read, frames in the decoder, send_eof
    packet_pending, eof_sent, frame_index,
    circuit, circuitTime,              \* frames integrated since the reset, and for how long
    events,                            \* what the last frame generated, a record for each step
    call, result,                      \* the call in progress, what the last one returned
    failed                             \* history: a frame was lost to an error since the seek

ffmpeg == <<pos, held, draining>>
flags  == <<packet_pending, eof_sent>>
solver == <<circuit, circuitTime, events>>
vars == <<period, frame_count, ffmpeg, flags, frame_index, solver, call, result, failed>>

-----------------------------------------------------------------------------
Smaller(a, b) == IF a < b THEN a ELSE b
Duration == NFrames * EncodedPeriod  \* duration_us

(* process_frame_over_interval: how many steps a frame takes, and when the *)
(* events of each are dated.                                               *)
Steps == (period + Dt - 1) \div Dt
Mutant_StepTime(i) == i * Dt
StepTime(i) == Smaller(i * Dt, period)

(* One step of the circuit: any of the pixels fire, as the floating-point  *)
(* voltages have it; the arbiter passes some of them.                      *)
Fires == 0..MaxFiring
Arbitrate(n) == Smaller(n, MaxEvents)

Idle == [kind |-> "idle", target |-> 0, time |-> 0, frames |-> 0]

Init ==
    /\ period \in Periods /\ frame_count \in FrameCounts
    /\ pos = 0 /\ held = <<>> /\ draining = FALSE
    /\ packet_pending = FALSE /\ eof_sent = FALSE /\ frame_index = 0
    /\ circuit = <<>> /\ circuitTime = 0 /\ events = <<>>
    /\ call \in {Idle, [Idle EXCEPT !.kind = "preload"]}
    /\ result = "none"
    /\ failed = FALSE

-----------------------------------------------------------------------------
(* How a call goes on.  next_events_batch ends with its last frame, a seek *)
(* with the target, preload_events when a batch stays empty; an error ends *)
(* any of them, and what was preloaded is all that remains of the video.   *)
Return(r) == call' = Idle /\ result' = r
Preloaded(r) == call' = [Idle EXCEPT !.kind = "gone"] /\ result' = r
GoOn == UNCHANGED <<call, result>>

AfterFrame ==
    CASE call.kind = "next" /\ call.frames + 1 = FRAME_BATCH_SIZE -> Return("events")
      [] call.kind = "next" /\ call.frames + 1 < FRAME_BATCH_SIZE ->
            call' = [call EXCEPT !.frames = @ + 1] /\ UNCHANGED result
      [] call.kind = "seek" -> IF frame_index + 1 < call.target THEN GoOn ELSE Return("ok")
      [] call.kind = "preload" -> GoOn

AfterNone ==
    CASE call.kind = "next" -> Return(IF call.frames = 0 THEN "end" ELSE "events")
      [] call.kind = "seek" -> Return("ok")
      [] call.kind = "preload" -> Preloaded("end")

Fail ==
    /\ IF call.kind = "preload" THEN Preloaded("error") ELSE Return("error")
    /\ failed' = TRUE
    /\ UNCHANGED <<period, frame_count, frame_index, solver>>

Quiet == UNCHANGED <<period, frame_count, frame_index, solver, failed>>
InFrameLoop == call.kind \in {"next", "seek", "preload"}

-----------------------------------------------------------------------------
(* process_frame: the frame is integrated in the steps of its duration.    *)
ProcessFrame(f) ==
    /\ frame_index' = frame_index + 1
    /\ circuit' = Append(circuit, f)
    /\ circuitTime' = circuitTime + Steps * Dt
    /\ \E fires \in [1..Steps -> Fires] :
          events' = [i \in 1..Steps |-> [t |-> frame_index * period + StepTime(i),
                                         n |-> Arbitrate(fires[i])]]

(* receive_frame: the frame is processed, or lost because it could not be  *)
(* decoded or scaled.                                                      *)
ReceiveFrame ==
    /\ InFrameLoop /\ packet_pending
    /\ held # <<>> /\ (Len(held) > Delay \/ draining)
    /\ held' = Tail(held)
    /\ \/ ProcessFrame(Head(held)) /\ AfterFrame /\ UNCHANGED <<period, frame_count, failed>>
       \/ Fail
    /\ UNCHANGED <<pos, draining, flags>>

(* EAGAIN: the decoder wants another packet. *)
Mutant_WantPacket == UNCHANGED packet_pending
WantPacket == packet_pending' = FALSE
DecoderIsEmpty ==
    /\ InFrameLoop /\ packet_pending
    /\ Len(held) <= Delay /\ ~draining
    /\ WantPacket
    /\ GoOn /\ Quiet /\ UNCHANGED <<ffmpeg, eof_sent>>

(* The decoder has given all it had, now or in an earlier call. *)
NoMoreFrames ==
    /\ InFrameLoop
    /\ IF packet_pending THEN held = <<>> /\ draining ELSE eof_sent
    /\ AfterNone
    /\ Quiet /\ UNCHANGED <<ffmpeg, flags>>

SkipPacket ==
    /\ InFrameLoop /\ ~packet_pending /\ ~eof_sent
    /\ pos < Len(Container) /\ Container[pos + 1] = Other
    /\ pos' = pos + 1
    /\ GoOn /\ Quiet /\ UNCHANGED <<held, draining, flags>>

SendPacket ==
    /\ InFrameLoop /\ ~packet_pending /\ ~eof_sent
    /\ pos < Len(Container) /\ Container[pos + 1] # Other
    /\ pos' = pos + 1
    /\ \/ /\ held' = Append(held, Container[pos + 1])
          /\ packet_pending' = TRUE
          /\ GoOn /\ Quiet
       \/ Fail /\ UNCHANGED <<held, packet_pending>>
    /\ UNCHANGED <<draining, eof_sent>>

(* At the end of the container the frames kept back are drained. *)
Mutant_PendingAfterEof == FALSE
PendingAfterEof == TRUE
SendEof ==
    /\ InFrameLoop /\ ~packet_pending /\ ~eof_sent
    /\ pos = Len(Container)
    /\ draining' = TRUE
    /\ eof_sent' = TRUE
    /\ packet_pending' = PendingAfterEof
    /\ GoOn /\ Quiet /\ UNCHANGED <<pos, held>>

-----------------------------------------------------------------------------
NextEventsBatch ==
    /\ call.kind = "idle"
    /\ call' = [Idle EXCEPT !.kind = "next"]
    /\ Quiet /\ UNCHANGED <<ffmpeg, flags, result>>

(* seek rewinds everything and then decodes up to the frame that is shown  *)
(* at the timestamp; or the container cannot be rewound.                   *)
Mutant_ResetSolver == UNCHANGED <<circuit, circuitTime>>
ResetSolver == circuit' = <<>> /\ circuitTime' = 0

Mutant_TargetFrame(t) == Smaller(t \div EncodedPeriod, frame_count)
TargetFrame(t) == Smaller(Smaller(t, Duration) \div period, frame_count)

Seek(t) ==
    /\ call.kind = "idle"
    /\ \/ /\ pos' = 0 /\ held' = <<>> /\ draining' = FALSE
          /\ packet_pending' = FALSE /\ eof_sent' = FALSE /\ frame_index' = 0
          /\ ResetSolver /\ events' = <<>> /\ failed' = FALSE
          /\ IF TargetFrame(t) = 0 THEN Return("ok")
             ELSE /\ call' = [kind |-> "seek", target |-> TargetFrame(t),
                              time |-> t, frames |-> 0]
                  /\ UNCHANGED result
          /\ UNCHANGED <<period, frame_count>>
       \/ Return("error") /\ Quiet /\ UNCHANGED <<ffmpeg, flags>>

Turn == ReceiveFrame \/ DecoderIsEmpty \/ NoMoreFrames \/ SkipPacket \/ SendPacket \/ SendEof
Next == Turn \/ NextEventsBatch \/ \E t \in Times : Seek(t)

Spec == Init /\ [][Next]_vars
FairSpec == Spec /\ WF_vars(Turn)

-----------------------------------------------------------------------------
(* Whatever is read, sought and drained in whatever order, the circuit has *)
(* seen the first frame_index frames of the video, each once and in order, *)
(* since its last reset; only a frame lost to an error breaks this, until  *)
(* the next seek.                                                          *)
Aligned == ~failed => circuit = [i \in 1..frame_index |-> i]

(* The end is reported, to the worker and to preload_events, when every    *)
(* frame has come out, those the decoder had kept back included.           *)
EndMeansAllFrames ==
    result = "end" /\ call.kind \in {"idle", "gone"} /\ ~failed => frame_index = NFrames

(* The events of a frame are dated in order and inside the time the frame  *)
(* is shown, so those of successive frames are in order too.               *)
EventsWithinFrame ==
    \A i \in DOMAIN events :
        /\ (frame_index - 1) * period < events[i].t /\ events[i].t <= frame_index * period
        /\ i > 1 => events[i - 1].t < events[i].t

(* A seek that returns leaves the simulator at the frame shown at that     *)
(* time at the rate in force, or at the end.                               *)
Shown(f, t) ==
    /\ f * period <= Smaller(t, Duration)
    /\ f \in {frame_count, NFrames} \/ Smaller(t, Duration) < (f + 1) * period
SeekLands ==
    [][call.kind = "seek" /\ call'.kind = "idle" /\ result' = "ok"
        => Shown(frame_index', call.time)]_vars

-----------------------------------------------------------------------------
(* The inductive invariant of the three invariants above and of SeekLands: *)
(* the types; the packets read are the first frame_index + Len(held)       *)
(* frames, of which the decoder keeps back the last; draining begins at    *)
(* the end of the container and never asks for a packet again; a seek in   *)
(* progress has lost no frame and has not reached its target.              *)
Calls == [kind : {"idle", "next", "seek", "preload", "gone"}, target : Nat,
          time : {0} \union Times, frames : 0..FRAME_BATCH_SIZE - 1]
Results == {"none", "events", "end", "ok", "error"}

TypeOK ==
    /\ period \in Periods /\ frame_count \in FrameCounts
    /\ pos \in 0..Len(Container) /\ held \in Seq(1..NFrames) /\ draining \in BOOLEAN
    /\ packet_pending \in BOOLEAN /\ eof_sent \in BOOLEAN /\ frame_index \in Nat
    /\ circuit \in Seq(1..NFrames) /\ circuitTime \in Nat
    /\ events \in Seq([t : Nat, n : 0..MaxEvents])
    /\ call \in Calls /\ result \in Results /\ failed \in BOOLEAN

HeldIsNext ==
    ~failed =>
        /\ \A i \in 1..Len(held) : held[i] = frame_index + i
        /\ frame_index + Len(held) <= NFrames
        /\ \A i \in 1..Len(Container) :
              Container[i] # Other => (i <= pos <=> Container[i] <= frame_index + Len(held))

DrainInv ==
    /\ draining <=> eof_sent
    /\ eof_sent => packet_pending /\ pos = Len(Container)

SeekInv ==
    call.kind = "seek" =>
        /\ ~failed
        /\ call.time \in Times /\ call.target = TargetFrame(call.time)
        /\ frame_index < call.target

IndInv ==
    TypeOK /\ Aligned /\ HeldIsNext /\ DrainInv /\ SeekInv /\ EndMeansAllFrames /\ EventsWithinFrame

(* Every call ends: the loop reads on, drains the decoder and stops. *)
CallEnds == InFrameLoop ~> ~InFrameLoop

(* docs/simulator-plugin.md: each frame is held for its duration, "so the  *)
(* model does not silently change behavior when the video FPS changes":    *)
(* the circuit's time is the video's, give or take a step.  The code       *)
(* breaks this (README, section 8), so no run checks it.                   *)
CircuitKeepsPace ==
    circuitTime < Len(circuit) * period + Dt
=============================================================================
