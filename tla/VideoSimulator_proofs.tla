----------------------- MODULE VideoSimulator_proofs -----------------------
(***************************************************************************)
(* Theorems about the video simulator, for every video, every decoder      *)
(* delay, every frame rate and integration step.                           *)
(***************************************************************************)
EXTENDS VideoSimulator, SequenceTheorems, TLAPS

(* What integer division promises, as the simulator uses it to count steps *)
(* in a frame and frames before a timestamp.                               *)
LEMMA DivBounds ==
    ASSUME NEW a \in Nat, NEW b \in Nat \ {0}
    PROVE  /\ a \div b \in Nat
           /\ (a \div b) * b <= a
           /\ a < (a \div b + 1) * b
<1>1. a \div b \in Nat
  OBVIOUS
<1>2. a = b * (a \div b) + (a % b) /\ a % b \in 0..b - 1
  OBVIOUS
<1>3. (a \div b + 1) * b = b * (a \div b) + b
  BY <1>1, SMTT(30)
<1>. QED  BY <1>1, <1>2, <1>3

(* Multiplication keeps order. *)
LEMMA TimesMonotone ==
    ASSUME NEW a \in Nat, NEW b \in Nat, NEW d \in Nat \ {0}
    PROVE  a < b => a * d < b * d
BY SMTT(30)

(* The steps of a frame end inside its duration, one after the other. *)
LEMMA StepTimes ==
    ASSUME period \in Nat \ {0}
    PROVE  /\ Steps \in Nat
           /\ \A i \in 1..Steps :
                 /\ StepTime(i) \in Nat /\ 0 < StepTime(i) /\ StepTime(i) <= period
                 /\ i > 1 => StepTime(i - 1) < StepTime(i)
<1>1. /\ Dt \in Nat \ {0} /\ period + Dt - 1 \in Nat
      /\ Steps \in Nat /\ Steps * Dt <= period + Dt - 1
  <2> DEFINE a == period + Dt - 1
  <2>1. Dt \in Nat \ {0} /\ a \in Nat
    BY VideoAssumption
  <2> HIDE DEF a
  <2>2. a \div Dt \in Nat /\ (a \div Dt) * Dt <= a
    BY <2>1, DivBounds
  <2>. QED  BY <2>1, <2>2 DEF Steps, a
<1>2. ASSUME NEW i \in 1..Steps
      PROVE  /\ i * Dt \in Nat /\ 0 < i * Dt
             /\ i > 1 => (i - 1) * Dt \in Nat /\ (i - 1) * Dt < i * Dt /\ (i - 1) * Dt < period
  <2>1. i * Dt \in Nat /\ 0 * Dt = 0 /\ 0 * Dt < i * Dt
    BY <1>1, TimesMonotone
  <2>2. ASSUME i > 1
        PROVE  (i - 1) * Dt \in Nat /\ (i - 1) * Dt < i * Dt
    BY <1>1, <2>2, TimesMonotone
  <2>3. i * Dt <= Steps * Dt
    <3>1. CASE i = Steps
      BY <3>1, <1>1
    <3>2. CASE i < Steps
      BY <3>2, <1>1, TimesMonotone
    <3>. QED  BY <3>1, <3>2, <1>1
  <2>4. (i - 1) * Dt = i * Dt - Dt
    BY <1>1, SMTT(30)
  <2>. QED  BY <1>1, <2>1, <2>2, <2>3, <2>4
<1>. QED  BY <1>1, <1>2 DEF StepTime, Smaller

(* A target frame is shown at the timestamp or is the last one claimed.    *)
LEMMA TargetShown ==
    ASSUME period \in Nat \ {0}, frame_count \in Nat, NEW t \in Nat
    PROVE  /\ TargetFrame(t) \in Nat
           /\ Shown(TargetFrame(t), t)
<1> DEFINE m == Smaller(t, Duration)
           q == m \div period
<1>1. m \in Nat
  BY VideoAssumption, SMTT(30) DEF Smaller, Duration
<1>2. q \in Nat /\ q * period <= m /\ m < (q + 1) * period
  BY <1>1, DivBounds
<1>3. CASE q < frame_count
  BY <1>2, <1>3 DEF TargetFrame, Shown, Smaller
<1>4. CASE ~(q < frame_count)
  <2>1. TargetFrame(t) = frame_count
    BY <1>4 DEF TargetFrame, Smaller
  <2>2. frame_count * period <= q * period
    BY <1>2, <1>4, TimesMonotone
  <2>3. frame_count * period \in Nat /\ q * period \in Nat
    BY <1>2
  <2>. QED  BY <1>1, <1>2, <2>1, <2>2, <2>3 DEF Shown
<1>. QED  BY <1>3, <1>4

-----------------------------------------------------------------------------
(* The constants' types, without what is said of the container.            *)
LEMMA ConstantTypes ==
    /\ NFrames \in Nat /\ Delay \in Nat /\ Dt \in Nat \ {0}
    /\ Periods \subseteq Nat \ {0} /\ FrameCounts \subseteq Nat /\ Times \subseteq Nat
    /\ FRAME_BATCH_SIZE \in Nat \ {0} /\ MaxFiring \in Nat /\ MaxEvents \in Nat
    /\ Container \in Seq(1..NFrames \union {Other}) /\ Len(Container) \in Nat
BY VideoAssumption

(* The calls that are not in progress. *)
LEMMA IdleCalls ==
    /\ Idle \in Calls /\ Idle.kind = "idle"
    /\ \A k \in {"idle", "next", "seek", "preload", "gone"} :
          /\ [Idle EXCEPT !.kind = k] \in Calls
          /\ [Idle EXCEPT !.kind = k].kind = k
BY ConstantTypes DEF Idle, Calls

(* Packets of the container are frames of the video or of another stream.  *)
LEMMA PacketType ==
    ASSUME NEW i \in 1..Len(Container), Container[i] # Other
    PROVE  Container[i] \in 1..NFrames
BY VideoAssumption

(* The initial states. *)
LEMMA InitIndInv == Init => IndInv
<1> SUFFICES ASSUME Init  PROVE IndInv
  OBVIOUS
<1> USE DEF Init
<1>1. TypeOK
  <2>1. call \in Calls /\ result \in Results
    BY IdleCalls DEF Results
  <2>2. /\ held \in Seq(1..NFrames) /\ circuit \in Seq(1..NFrames)
        /\ events \in Seq([t : Nat, n : 0..MaxEvents])
    OBVIOUS
  <2>3. pos \in 0..Len(Container) /\ frame_index \in Nat /\ circuitTime \in Nat
    BY ConstantTypes
  <2>. QED  BY <2>1, <2>2, <2>3 DEF TypeOK
<1>2. Aligned
  BY DEF Aligned
<1>3. HeldIsNext
  <2>1. ASSUME NEW i \in 1..Len(Container), Container[i] # Other
        PROVE  Container[i] \in 1..NFrames
    BY <2>1, PacketType
  <2>. QED  BY <2>1, ConstantTypes DEF HeldIsNext
<1>4. DrainInv /\ SeekInv /\ EndMeansAllFrames /\ EventsWithinFrame
  BY DEF DrainInv, SeekInv, EndMeansAllFrames, EventsWithinFrame, Idle
<1>. QED  BY <1>1, <1>2, <1>3, <1>4 DEF IndInv

(* The next packet of a frame is the frame after those read.               *)
LEMMA NextPacketIsNextFrame ==
    ASSUME TypeOK, HeldIsNext, ~failed,
           pos < Len(Container), Container[pos + 1] # Other
    PROVE  Container[pos + 1] = frame_index + Len(held) + 1
<1> DEFINE n == frame_index + Len(held)
           f == Container[pos + 1]
<1>1. n \in Nat /\ pos + 1 \in 1..Len(Container) /\ NFrames \in Nat /\ Len(Container) \in Nat
  BY VideoAssumption DEF TypeOK
<1>2. f \in 1..NFrames
  BY <1>1, PacketType
<1>3. f > n
  BY <1>1, <1>2 DEF HeldIsNext, TypeOK
<1>4. ASSUME n + 1 < f  PROVE FALSE
  <2>1. n + 1 \in 1..NFrames
    BY <1>1, <1>2, <1>4
  <2>2. PICK j \in 1..Len(Container) : Container[j] = n + 1
    BY <2>1, VideoAssumption
  <2>3. Container[j] # Other
    BY <2>1, <2>2, VideoAssumption
  <2>4. ~(pos + 1 < j)
    <3> SUFFICES ASSUME pos + 1 < j  PROVE FALSE
      OBVIOUS
    <3>1. f < n + 1
      BY <1>1, <2>2, <2>3, VideoAssumption
    <3>. QED  BY <3>1, <1>1, <1>2, <1>4
  <2>5. j <= pos
    BY <1>1, <1>4, <2>2, <2>4 DEF TypeOK
  <2>. QED  BY <1>1, <2>2, <2>3, <2>5 DEF HeldIsNext
<1>. QED  BY <1>1, <1>2, <1>3, <1>4

-----------------------------------------------------------------------------
(* How a call goes on: it stays in its type; a seek goes on only short of  *)
(* its target, and returns only there or at the end of the video.          *)
LEMMA AfterFrameStep ==
    ASSUME TypeOK, InFrameLoop, AfterFrame
    PROVE  /\ call' \in Calls /\ result' \in Results
           /\ call'.kind \in {"idle", call.kind}
           /\ call'.kind = "idle" => result' # "end"
           /\ call'.kind = "seek" => call' = call /\ frame_index + 1 < call.target
           /\ call.kind = "seek" /\ call'.kind = "idle" => ~(frame_index + 1 < call.target)
<1> USE DEF TypeOK, Results, Return, GoOn
<1>1. CASE call.kind = "next"
  <2>1. CASE call.frames + 1 = FRAME_BATCH_SIZE
    <3>1. ~(call.frames + 1 < FRAME_BATCH_SIZE)
      BY <2>1, ConstantTypes DEF Calls
    <3>2. call' = Idle /\ result' = "events"
      BY <1>1, <2>1, <3>1 DEF AfterFrame
    <3>. QED  BY <1>1, <3>2, IdleCalls
  <2>2. CASE call.frames + 1 < FRAME_BATCH_SIZE
    <3>1. call' = [call EXCEPT !.frames = @ + 1] /\ result' = result
      BY <1>1, <2>2 DEF AfterFrame
    <3>2. call.frames + 1 \in 0..FRAME_BATCH_SIZE - 1
      BY <2>2, ConstantTypes DEF Calls
    <3>3. call'.kind = "next" /\ call' \in Calls
      BY <1>1, <3>1, <3>2 DEF Calls
    <3>. QED  BY <1>1, <3>1, <3>3
  <2>. QED  BY <2>1, <2>2, ConstantTypes DEF Calls
<1>2. CASE call.kind = "seek"
  <2>1. CASE frame_index + 1 < call.target
    BY <1>2, <2>1 DEF AfterFrame
  <2>2. CASE ~(frame_index + 1 < call.target)
    <3>1. call' = Idle /\ result' = "ok"
      BY <1>2, <2>2 DEF AfterFrame
    <3>. QED  BY <1>2, <2>2, <3>1, IdleCalls
  <2>. QED  BY <2>1, <2>2
<1>3. CASE call.kind = "preload"
  BY <1>3 DEF AfterFrame
<1>. QED  BY <1>1, <1>2, <1>3 DEF InFrameLoop

LEMMA AfterNoneStep ==
    ASSUME TypeOK, InFrameLoop, AfterNone
    PROVE  /\ call' \in Calls /\ result' \in Results
           /\ call'.kind \in {"idle", "gone"}
<1> USE IdleCalls DEF Results, Return, Preloaded
<1>1. CASE call.kind = "next"
  BY <1>1 DEF AfterNone
<1>2. CASE call.kind = "seek"
  BY <1>2 DEF AfterNone
<1>3. CASE call.kind = "preload"
  BY <1>3 DEF AfterNone
<1>. QED  BY <1>1, <1>2, <1>3 DEF InFrameLoop

(* A failed step: the call ends, and nothing is promised until a seek.     *)
LEMMA FailStep ==
    ASSUME IndInv, Fail,
           pos' \in 0..Len(Container), held' \in Seq(1..NFrames), draining' = draining,
           packet_pending' = packet_pending, eof_sent' = eof_sent,
           eof_sent => pos' = Len(Container)
    PROVE  IndInv'
<1>1. /\ call' \in Calls /\ call'.kind \in {"idle", "gone"} /\ result' = "error" /\ failed' = TRUE
      /\ UNCHANGED <<period, frame_count, frame_index, solver>>
  BY VideoAssumption DEF Fail, Preloaded, Return, Idle, Calls
<1>2. TypeOK'
  BY <1>1 DEF IndInv, TypeOK, solver, Results
<1>3. (Aligned /\ HeldIsNext /\ DrainInv /\ SeekInv /\ EndMeansAllFrames)'
  BY <1>1 DEF IndInv, Aligned, HeldIsNext, DrainInv, SeekInv, EndMeansAllFrames
<1>4. EventsWithinFrame'
  BY <1>1 DEF IndInv, EventsWithinFrame, solver
<1>. QED  BY <1>2, <1>3, <1>4 DEF IndInv

(* The rest of the state when nothing but the reader and the call moves.   *)
LEMMA QuietStep ==
    ASSUME IndInv, Quiet
    PROVE  /\ Aligned' /\ EventsWithinFrame'
           /\ period' = period /\ frame_count' = frame_count /\ frame_index' = frame_index
           /\ circuit' = circuit /\ circuitTime' = circuitTime /\ events' = events
           /\ failed' = failed
           /\ \A t : TargetFrame(t)' = TargetFrame(t)
BY DEF IndInv, Quiet, solver, Aligned, EventsWithinFrame, TargetFrame, Smaller, Duration

-----------------------------------------------------------------------------
(* One lemma for each turn of the loop. *)

(* A frame of the video is integrated: what its steps leave in events.     *)
LEMMA ProcessFrameEvents ==
    ASSUME TypeOK, NEW f, ProcessFrame(f)
    PROVE  /\ events' \in Seq([t : Nat, n : 0..MaxEvents])
           /\ circuitTime' \in Nat /\ frame_index' = frame_index + 1
           /\ period' = period => EventsWithinFrame'
<1>1. period \in Nat \ {0} /\ frame_index \in Nat /\ circuitTime \in Nat
      /\ Dt \in Nat \ {0} /\ MaxFiring \in Nat /\ MaxEvents \in Nat
  BY ConstantTypes DEF TypeOK
<1>2. /\ Steps \in Nat
      /\ \A i \in 1..Steps :
            /\ StepTime(i) \in Nat /\ 0 < StepTime(i) /\ StepTime(i) <= period
            /\ i > 1 => StepTime(i - 1) < StepTime(i)
  BY <1>1, StepTimes
<1>3. PICK fires \in [1..Steps -> Fires] :
         events' = [i \in 1..Steps |-> [t |-> frame_index * period + StepTime(i),
                                        n |-> Arbitrate(fires[i])]]
  BY DEF ProcessFrame
<1> DEFINE base == frame_index * period
<1>4. base \in Nat
  BY <1>1
<1>5. frame_index' = frame_index + 1 /\ frame_index' - 1 = frame_index
  BY <1>1 DEF ProcessFrame
<1>6. (frame_index' - 1) * period = base /\ frame_index' * period = base + period
  <2>1. (frame_index + 1) * period = base + period
    BY <1>1, SMTT(30)
  <2>. QED  BY <1>5, <2>1
<1> HIDE DEF base
<1>7. ASSUME NEW n \in Fires  PROVE Arbitrate(n) \in 0..MaxEvents
  BY <1>1 DEF Fires, Arbitrate, Smaller
<1>8. events' \in Seq([t : Nat, n : 0..MaxEvents])
  BY <1>2, <1>3, <1>4, <1>7 DEF base
<1>9. circuitTime' \in Nat
  <2>1. Steps * Dt \in Nat
    BY <1>1, <1>2
  <2>. QED  BY <1>1, <2>1 DEF ProcessFrame
<1>10. ASSUME period' = period  PROVE EventsWithinFrame'
  <2>1. DOMAIN events' = 1..Steps
    BY <1>3
  <2>2. \A i \in 1..Steps : events'[i].t = base + StepTime(i)
    BY <1>3 DEF base
  <2> SUFFICES ASSUME NEW i \in 1..Steps
               PROVE  /\ base < events'[i].t /\ events'[i].t <= base + period
                      /\ i > 1 => events'[i - 1].t < events'[i].t
    BY <1>6, <1>10, <2>1 DEF EventsWithinFrame
  <2>3. base < events'[i].t /\ events'[i].t <= base + period
    BY <1>1, <1>2, <1>4, <2>2
  <2>4. ASSUME i > 1  PROVE events'[i - 1].t < events'[i].t
    <3>1. i - 1 \in 1..Steps
      BY <1>2, <2>4
    <3>. QED  BY <1>2, <1>4, <2>2, <2>4, <3>1
  <2>. QED  BY <2>3, <2>4
<1>. QED  BY <1>5, <1>8, <1>9, <1>10

LEMMA ReceiveFrameStep == ASSUME IndInv, ReceiveFrame  PROVE IndInv'
<1> USE DEF IndInv
<1>1. /\ held' \in Seq(1..NFrames) /\ Head(held) \in 1..NFrames /\ Head(held) = held[1]
      /\ Len(held') = Len(held) - 1 /\ Len(held) \in Nat /\ Len(held) > 0
      /\ \A i \in 1..Len(held') : held'[i] = held[i + 1]
  <2>1. held \in Seq(1..NFrames) /\ held # <<>> /\ held' = Tail(held)
    BY DEF ReceiveFrame, TypeOK
  <2>2. Len(held) \in Nat \ {0}
    BY <2>1, EmptySeq
  <2>3. /\ Head(held) \in 1..NFrames /\ Tail(held) \in Seq(1..NFrames)
        /\ Len(Tail(held)) = Len(held) - 1
        /\ \A i \in 1..Len(Tail(held)) : Tail(held)[i] = held[i + 1]
    BY <2>1, HeadTailProperties
  <2>4. Head(held) = held[1]
    BY <2>1, <2>2
  <2>. QED  BY <2>1, <2>2, <2>3, <2>4
<1>2. /\ InFrameLoop /\ pos' = pos /\ draining' = draining
      /\ packet_pending' = packet_pending /\ eof_sent' = eof_sent
  BY DEF ReceiveFrame, flags
<1>3. CASE Fail
  BY <1>1, <1>2, <1>3, FailStep DEF TypeOK, DrainInv
<1>4. CASE /\ ProcessFrame(Head(held)) /\ AfterFrame
           /\ UNCHANGED <<period, frame_count, failed>>
  <2>1. /\ circuit' = Append(circuit, Head(held)) /\ frame_index' = frame_index + 1
        /\ frame_index \in Nat /\ circuit \in Seq(1..NFrames)
    BY <1>4 DEF ProcessFrame, TypeOK
  <2>2. /\ events' \in Seq([t : Nat, n : 0..MaxEvents])
        /\ circuitTime' \in Nat /\ EventsWithinFrame'
    BY <1>4, ProcessFrameEvents
  <2>3. /\ call' \in Calls /\ result' \in Results
        /\ call'.kind \in {"idle", call.kind}
        /\ call'.kind = "idle" => result' # "end"
        /\ call'.kind = "seek" => call' = call /\ frame_index + 1 < call.target
    BY <1>2, <1>4, AfterFrameStep
  <2>4. TypeOK'
    <3>1. circuit' \in Seq(1..NFrames)
      BY <1>1, <2>1
    <3>. QED  BY <1>1, <1>2, <1>4, <2>1, <2>2, <2>3, <3>1 DEF TypeOK
  <2>5. Aligned'
    <3>1. ASSUME ~failed  PROVE circuit' = [i \in 1..frame_index + 1 |-> i]
      <4>1. Head(held) = frame_index + 1
        BY <1>1, <3>1 DEF HeldIsNext
      <4>2. circuit = [i \in 1..frame_index |-> i] /\ Len(circuit) = frame_index
        BY <2>1, <3>1 DEF Aligned
      <4>. QED  BY <2>1, <4>1, <4>2
    <3>. QED  BY <1>4, <2>1, <3>1 DEF Aligned
  <2>6. HeldIsNext'
    <3>1. frame_index' + Len(held') = frame_index + Len(held)
      BY <1>1, <2>1
    <3>2. ASSUME ~failed  PROVE \A i \in 1..Len(held') : held'[i] = frame_index' + i
      BY <1>1, <2>1, <3>2 DEF HeldIsNext
    <3>. QED  BY <1>2, <1>4, <3>1, <3>2 DEF HeldIsNext
  <2>7. DrainInv'
    BY <1>2 DEF DrainInv
  <2>8. SeekInv'
    <3>1. TargetFrame(call.time)' = TargetFrame(call'.time)
      BY <1>4 DEF TargetFrame, Smaller, Duration
    <3>. QED  BY <1>4, <2>1, <2>3, <3>1 DEF SeekInv
  <2>9. EndMeansAllFrames'
    BY <1>2, <2>3 DEF EndMeansAllFrames, InFrameLoop
  <2>. QED  BY <2>2, <2>4, <2>5, <2>6, <2>7, <2>8, <2>9
<1>. QED  BY <1>3, <1>4 DEF ReceiveFrame

LEMMA DecoderIsEmptyStep == ASSUME IndInv, DecoderIsEmpty  PROVE IndInv'
<1> USE DEF IndInv
<1>1. /\ packet_pending' = FALSE /\ eof_sent' = eof_sent /\ ~draining
      /\ pos' = pos /\ held' = held /\ draining' = draining
      /\ call' = call /\ result' = result /\ Quiet /\ InFrameLoop
  BY DEF DecoderIsEmpty, WantPacket, GoOn, ffmpeg
<1>2. TypeOK'
  BY <1>1, QuietStep DEF TypeOK
<1>3. HeldIsNext' /\ DrainInv' /\ EndMeansAllFrames'
  BY <1>1, QuietStep DEF HeldIsNext, DrainInv, EndMeansAllFrames
<1>4. SeekInv'
  BY <1>1, QuietStep DEF SeekInv
<1>. QED  BY <1>1, <1>2, <1>3, <1>4, QuietStep

(* Everything has come out of the decoder. *)
LEMMA NothingHeldAtTheEnd ==
    ASSUME IndInv, draining, held = <<>>, ~failed
    PROVE  frame_index = NFrames
<1> USE DEF IndInv
<1>1. /\ frame_index \in Nat /\ NFrames \in Nat /\ Len(Container) \in Nat
      /\ pos = Len(Container) /\ frame_index + Len(held) = frame_index
  BY ConstantTypes DEF TypeOK, DrainInv
<1>2. frame_index <= NFrames
  BY <1>1 DEF HeldIsNext
<1>3. ASSUME frame_index < NFrames  PROVE FALSE
  <2>1. PICK i \in 1..Len(Container) : Container[i] = NFrames
    BY <1>1, <1>3, VideoAssumption
  <2>2. Container[i] # Other
    BY <1>1, <1>3, <2>1, VideoAssumption
  <2>. QED  BY <1>1, <1>3, <2>1, <2>2 DEF HeldIsNext
<1>. QED  BY <1>1, <1>2, <1>3

LEMMA NoMoreFramesStep == ASSUME IndInv, NoMoreFrames  PROVE IndInv'
<1> USE DEF IndInv
<1>1. /\ UNCHANGED <<pos, held, draining, packet_pending, eof_sent>> /\ Quiet
      /\ held = <<>> /\ draining
      /\ call' \in Calls /\ result' \in Results /\ call'.kind \in {"idle", "gone"}
  BY AfterNoneStep DEF NoMoreFrames, ffmpeg, flags, DrainInv, TypeOK
<1>2. TypeOK'
  BY <1>1, QuietStep DEF TypeOK
<1>3. HeldIsNext' /\ DrainInv' /\ SeekInv'
  BY <1>1, QuietStep DEF HeldIsNext, DrainInv, SeekInv
<1>4. EndMeansAllFrames'
  BY <1>1, QuietStep, NothingHeldAtTheEnd DEF EndMeansAllFrames
<1>. QED  BY <1>1, <1>2, <1>3, <1>4, QuietStep

LEMMA SkipPacketStep == ASSUME IndInv, SkipPacket  PROVE IndInv'
<1> USE DEF IndInv
<1>1. /\ UNCHANGED <<held, draining, packet_pending, eof_sent, call, result>> /\ Quiet
      /\ pos' = pos + 1 /\ pos < Len(Container) /\ Container[pos + 1] = Other /\ ~eof_sent
      /\ pos' \in 0..Len(Container) /\ pos \in Nat
  BY ConstantTypes DEF SkipPacket, flags, GoOn, TypeOK
<1>2. TypeOK'
  BY <1>1, QuietStep DEF TypeOK
<1>3. HeldIsNext'
  <2>1. ASSUME NEW i \in 1..Len(Container), Container[i] # Other
        PROVE  i <= pos' <=> i <= pos
    BY <1>1, <2>1
  <2>. QED  BY <1>1, <2>1, QuietStep DEF HeldIsNext
<1>4. DrainInv' /\ EndMeansAllFrames' /\ SeekInv'
  BY <1>1, QuietStep DEF DrainInv, EndMeansAllFrames, SeekInv
<1>. QED  BY <1>1, <1>2, <1>3, <1>4, QuietStep

LEMMA SendPacketStep == ASSUME IndInv, SendPacket  PROVE IndInv'
<1> USE DEF IndInv
<1> DEFINE f == Container[pos + 1]
<1>1. /\ draining' = draining /\ eof_sent' = eof_sent /\ ~eof_sent /\ InFrameLoop
      /\ pos' = pos + 1 /\ pos < Len(Container) /\ f # Other
      /\ pos' \in 0..Len(Container) /\ pos \in Nat /\ pos + 1 \in 1..Len(Container)
  BY ConstantTypes DEF SendPacket, TypeOK
<1>2. CASE Fail /\ UNCHANGED <<held, packet_pending>>
  BY <1>1, <1>2, FailStep DEF TypeOK
<1>3. CASE held' = Append(held, f) /\ packet_pending' = TRUE /\ GoOn /\ Quiet
  <2>1. call' = call /\ result' = result
    BY <1>3 DEF GoOn
  <2>2. /\ f \in 1..NFrames /\ held \in Seq(1..NFrames) /\ held' \in Seq(1..NFrames)
        /\ Len(held) \in Nat /\ Len(held') = Len(held) + 1
        /\ \A i \in 1..Len(held') : held'[i] = IF i = Len(held) + 1 THEN f ELSE held[i]
    <3>1. f \in 1..NFrames /\ held \in Seq(1..NFrames)
      BY <1>1, PacketType DEF TypeOK
    <3> HIDE DEF f
    <3>2. held' = Append(held, f)
      BY <1>3
    <3>. QED  BY <3>1, <3>2, AppendProperties, LenProperties
  <2>3. TypeOK'
    BY <1>1, <1>3, <2>1, <2>2, QuietStep DEF TypeOK
  <2>4. HeldIsNext'
    <3> SUFFICES ASSUME ~failed  PROVE HeldIsNext'
      BY <1>3, QuietStep DEF HeldIsNext
    <3>1. f = frame_index + Len(held) + 1 /\ frame_index \in Nat
      BY <1>1, NextPacketIsNextFrame DEF TypeOK
    <3>2. frame_index' + Len(held') = f
      BY <1>3, <2>2, <3>1, QuietStep
    <3>3. \A i \in 1..Len(held') : held'[i] = frame_index' + i
      BY <1>3, <2>2, <3>1, QuietStep DEF HeldIsNext
    <3>4. ASSUME NEW i \in 1..Len(Container), Container[i] # Other
          PROVE  i <= pos' <=> Container[i] <= f
      <4>1. Container[i] \in 1..NFrames
        BY <3>4, PacketType
      <4>2. CASE i <= pos
        BY <1>1, <2>2, <3>1, <3>4, <4>1, <4>2 DEF HeldIsNext
      <4>3. CASE i = pos + 1
        BY <1>1, <2>2, <4>3
      <4>4. CASE i > pos + 1
        <5>1. f < Container[i]
          BY <1>1, <3>4, <4>4, VideoAssumption
        <5>. QED  BY <1>1, <2>2, <4>1, <4>4, <5>1
      <4>. QED  BY <1>1, <4>2, <4>3, <4>4
    <3>. QED  BY <2>2, <3>2, <3>3, <3>4 DEF HeldIsNext
  <2>5. DrainInv' /\ EndMeansAllFrames' /\ SeekInv'
    BY <1>1, <1>3, <2>1, QuietStep DEF DrainInv, EndMeansAllFrames, SeekInv, InFrameLoop
  <2>. QED  BY <1>3, <2>3, <2>4, <2>5, QuietStep
<1>. QED  BY <1>2, <1>3 DEF SendPacket

LEMMA SendEofStep == ASSUME IndInv, SendEof  PROVE IndInv'
<1> USE DEF IndInv
<1>1. /\ draining' = TRUE /\ eof_sent' = TRUE /\ packet_pending' = TRUE
      /\ pos' = pos /\ held' = held /\ pos = Len(Container)
      /\ call' = call /\ result' = result /\ Quiet
  BY DEF SendEof, PendingAfterEof, GoOn
<1>2. TypeOK'
  BY <1>1, QuietStep DEF TypeOK
<1>3. HeldIsNext' /\ DrainInv' /\ EndMeansAllFrames' /\ SeekInv'
  BY <1>1, QuietStep DEF HeldIsNext, DrainInv, EndMeansAllFrames, SeekInv
<1>. QED  BY <1>1, <1>2, <1>3, QuietStep

LEMMA NextEventsBatchStep == ASSUME IndInv, NextEventsBatch  PROVE IndInv'
<1> USE DEF IndInv
<1>1. /\ call' \in Calls /\ call'.kind = "next" /\ Quiet
      /\ UNCHANGED <<pos, held, draining, packet_pending, eof_sent, result>>
  BY IdleCalls DEF NextEventsBatch, ffmpeg, flags
<1>2. TypeOK'
  BY <1>1, QuietStep DEF TypeOK
<1>3. HeldIsNext' /\ DrainInv' /\ EndMeansAllFrames' /\ SeekInv'
  BY <1>1, QuietStep DEF HeldIsNext, DrainInv, EndMeansAllFrames, SeekInv
<1>. QED  BY <1>1, <1>2, <1>3, QuietStep

(* A seek rewinds the reader, the decoder and the circuit together.        *)
LEMMA SeekStep == ASSUME IndInv, NEW t \in Times, Seek(t)  PROVE IndInv'
<1> USE DEF IndInv
<1>1. CASE Return("error") /\ Quiet /\ UNCHANGED <<ffmpeg, flags>>
  <2>1. /\ call' = Idle /\ result' = "error" /\ Quiet
        /\ UNCHANGED <<pos, held, draining, packet_pending, eof_sent>>
    BY <1>1 DEF Return, ffmpeg, flags
  <2>2. TypeOK'
    BY <2>1, QuietStep, IdleCalls DEF TypeOK, Results
  <2>3. HeldIsNext' /\ DrainInv' /\ EndMeansAllFrames' /\ SeekInv'
    BY <2>1, QuietStep, IdleCalls DEF HeldIsNext, DrainInv, EndMeansAllFrames, SeekInv
  <2>. QED  BY <1>1, <2>2, <2>3, QuietStep
<1>2. CASE /\ pos' = 0 /\ held' = <<>> /\ draining' = FALSE
           /\ packet_pending' = FALSE /\ eof_sent' = FALSE /\ frame_index' = 0
           /\ ResetSolver /\ events' = <<>> /\ failed' = FALSE
           /\ IF TargetFrame(t) = 0 THEN Return("ok")
              ELSE /\ call' = [kind |-> "seek", target |-> TargetFrame(t),
                               time |-> t, frames |-> 0]
                   /\ UNCHANGED result
           /\ UNCHANGED <<period, frame_count>>
  <2>1. circuit' = <<>> /\ circuitTime' = 0
    BY <1>2 DEF ResetSolver
  <2>2. t \in Nat /\ period \in Nat \ {0} /\ frame_count \in Nat
    BY ConstantTypes DEF TypeOK
  <2>3. TargetFrame(t) \in Nat /\ \A u : TargetFrame(u)' = TargetFrame(u)
    BY <1>2, <2>2, TargetShown DEF TargetFrame, Smaller, Duration
  <2>4. /\ call' \in Calls /\ result' \in Results
        /\ \/ call'.kind = "idle" /\ result' = "ok"
           \/ /\ call'.kind = "seek" /\ call'.target = TargetFrame(t)
              /\ call'.time = t /\ TargetFrame(t) > 0
    <3>1. CASE TargetFrame(t) = 0
      BY <1>2, <3>1, IdleCalls DEF Return, Results
    <3>2. CASE TargetFrame(t) # 0
      <4>1. call' = [kind |-> "seek", target |-> TargetFrame(t), time |-> t, frames |-> 0]
            /\ result' = result
        BY <1>2, <3>2
      <4>2. call' \in Calls
        BY <2>3, <4>1, ConstantTypes DEF Calls
      <4>. QED  BY <2>3, <3>2, <4>1, <4>2 DEF TypeOK
    <3>. QED  BY <3>1, <3>2
  <2>5. TypeOK'
    <3>1. /\ held' \in Seq(1..NFrames) /\ circuit' \in Seq(1..NFrames)
          /\ events' \in Seq([t : Nat, n : 0..MaxEvents]) /\ pos' \in 0..Len(Container)
      BY <1>2, <2>1, ConstantTypes
    <3>. QED  BY <1>2, <2>1, <2>4, <3>1 DEF TypeOK
  <2>6. Aligned' /\ DrainInv' /\ EventsWithinFrame'
    BY <1>2, <2>1 DEF Aligned, DrainInv, EventsWithinFrame
  <2>7. HeldIsNext'
    <3>1. ASSUME NEW i \in 1..Len(Container), Container[i] # Other
          PROVE  Container[i] \in 1..NFrames
      BY <3>1, PacketType
    <3>2. Len(held') = 0 /\ frame_index' = 0
      BY <1>2
    <3>. QED  BY <1>2, <3>1, <3>2, ConstantTypes DEF HeldIsNext
  <2>8. SeekInv' /\ EndMeansAllFrames'
    BY <1>2, <2>3, <2>4 DEF SeekInv, EndMeansAllFrames
  <2>. QED  BY <2>5, <2>6, <2>7, <2>8
<1>. QED  BY <1>1, <1>2 DEF Seek

-----------------------------------------------------------------------------
LEMMA NextKeepsIndInv == IndInv /\ [Next]_vars => IndInv'
<1> SUFFICES ASSUME IndInv, [Next]_vars  PROVE IndInv'
  OBVIOUS
<1>1. CASE Turn
  BY <1>1, ReceiveFrameStep, DecoderIsEmptyStep, NoMoreFramesStep, SkipPacketStep,
     SendPacketStep, SendEofStep DEF Turn
<1>2. CASE NextEventsBatch
  BY <1>2, NextEventsBatchStep
<1>3. CASE \E t \in Times : Seek(t)
  BY <1>3, SeekStep
<1>4. CASE UNCHANGED vars
  BY <1>4 DEF vars, ffmpeg, flags, solver, IndInv, TypeOK, Aligned, HeldIsNext, DrainInv,
     SeekInv, EndMeansAllFrames, EventsWithinFrame, TargetFrame, Smaller, Duration
<1>. QED  BY <1>1, <1>2, <1>3, <1>4 DEF Next

LEMMA Inductive == Spec => []IndInv
BY InitIndInv, NextKeepsIndInv, PTL DEF Spec

(* The state keeps its types. *)
THEOREM TypeCorrect == Spec => []TypeOK
<1>1. IndInv => TypeOK
  BY DEF IndInv
<1>. QED  BY <1>1, Inductive, PTL

(* The circuit has seen the first frame_index frames of the video, each    *)
(* once and in order, however calls of next_events_batch and seek follow   *)
(* each other and however many frames the decoder keeps back.              *)
THEOREM CircuitSeesEveryFrame == Spec => []Aligned
<1>1. IndInv => Aligned
  BY DEF IndInv
<1>. QED  BY <1>1, Inductive, PTL

(* The end is only reported when no frame is left, in the container or in  *)
(* the decoder.                                                            *)
THEOREM EndIsTheEnd == Spec => []EndMeansAllFrames
<1>1. IndInv => EndMeansAllFrames
  BY DEF IndInv
<1>. QED  BY <1>1, Inductive, PTL

(* The events of a frame are in order and inside the frame's time.         *)
THEOREM EventsInOrder == Spec => []EventsWithinFrame
<1>1. IndInv => EventsWithinFrame
  BY DEF IndInv
<1>. QED  BY <1>1, Inductive, PTL

(* Where a seek in progress can return: after the frame before its target, *)
(* or at the end of a video that is shorter than was claimed.              *)
LEMMA SeekReturns ==
    IndInv /\ [Next]_vars =>
        (call.kind = "seek" /\ call'.kind = "idle" /\ result' = "ok"
            => Shown(frame_index', call.time))
<1> SUFFICES ASSUME IndInv, [Next]_vars, call.kind = "seek", call'.kind = "idle", result' = "ok"
             PROVE  Shown(frame_index', call.time)
  OBVIOUS
<1> USE DEF IndInv
<1> DEFINE t == call.time
           target == TargetFrame(t)
<1>1. /\ t \in Nat /\ period \in Nat \ {0} /\ frame_count \in Nat /\ frame_index \in Nat
      /\ ~failed /\ call.target = target /\ frame_index < target
  BY ConstantTypes DEF TypeOK, SeekInv
<1>2. target \in Nat /\ Shown(target, t)
  BY <1>1, TargetShown
<1> HIDE DEF t, target
<1>3. Turn /\ call' # call
  BY DEF Next, NextEventsBatch, Seek, vars
<1>4. CASE ReceiveFrame
  <2>1. ~Fail
    BY DEF Fail, Return
  <2>2. ProcessFrame(Head(held)) /\ AfterFrame /\ InFrameLoop
    BY <1>4, <2>1 DEF ReceiveFrame
  <2>3. ~(frame_index + 1 < call.target)
    BY <2>2, AfterFrameStep
  <2>4. frame_index' = target
    BY <1>1, <1>2, <2>2, <2>3 DEF ProcessFrame
  <2>. QED  BY <1>2, <2>4 DEF t
<1>5. CASE NoMoreFrames
  <2>1. draining /\ held = <<>> /\ frame_index' = frame_index
    BY <1>5 DEF NoMoreFrames, Quiet, DrainInv, TypeOK
  <2>2. frame_index' = NFrames /\ NFrames < target /\ NFrames \in Nat
    BY <1>1, <2>1, NothingHeldAtTheEnd, ConstantTypes
  <2>3. NFrames * period < target * period
    BY <1>1, <1>2, <2>2, TimesMonotone
  <2>4. NFrames * period \in Nat /\ target * period \in Nat /\ Smaller(t, Duration) \in Nat
    BY <1>1, <1>2, <2>2, VideoAssumption DEF Smaller, Duration
  <2>5. target * period <= Smaller(t, Duration)
    BY <1>2 DEF Shown
  <2>6. NFrames * period <= Smaller(t, Duration)
    BY <2>3, <2>4, <2>5
  <2>. QED  BY <2>2, <2>6 DEF Shown, t
<1>6. CASE DecoderIsEmpty \/ SkipPacket \/ SendEof
  BY <1>3, <1>6 DEF DecoderIsEmpty, SkipPacket, SendEof, GoOn
<1>7. CASE SendPacket
  BY <1>3, <1>7 DEF SendPacket, GoOn, Fail, Return
<1>. QED  BY <1>3, <1>4, <1>5, <1>6, <1>7 DEF Turn

(* A seek that returns leaves the simulator at the frame shown at its      *)
(* timestamp at the rate in force, or at the end.                          *)
THEOREM SeekLandsAtItsTime == Spec => SeekLands
BY Inductive, SeekReturns, PTL DEF Spec, SeekLands
=============================================================================
