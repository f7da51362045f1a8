---------------------- MODULE SimulatorPrefetch_proofs ----------------------
(***************************************************************************)
(* Theorems about SimulatorPrefetch for every number of host threads,      *)
(* drivers, sinks, frames and channel slots.  IndInv is inductive: each    *)
(* action of the worker and of a host thread preserves each of its         *)
(* conjuncts; the theorems at the end read their property off it.          *)
(***************************************************************************)
EXTENDS SimulatorPrefetch, SequenceTheorems, TLAPS

(* The messages the worker builds are messages. *)
LEMMA MsgType ==
    ASSUME gen \in Nat, NEW f \in Frames, NEW k \in {"Events", "End", "Error"}
    PROVE  Msg(k, f) \in Message /\ Msg(k, f).kind = k /\ Msg(k, f).gen = gen
BY DEF Msg, Message

LEMMA ConstantsType ==
    /\ 0 \in Frames
    /\ NFrames \in Frames
    /\ Nothing \in Message
    /\ Nothing.kind = "None"
    /\ Never \in [gen : Nat, frame : Frames]
    /\ <<>> \in Seq(Message)
BY SizesAssumption DEF Frames, Nothing, Message, Never

(* A channel that holds messages of one generation only still does when a  *)
(* message of that generation is sent, and when one is received.           *)
OfGen(q, g) == \A i \in 1..Len(q) : q[i].gen = g

LEMMA QueueOfGen ==
    ASSUME NEW q \in Seq(Message), NEW g, OfGen(q, g)
    PROVE  /\ \A m \in Message : m.gen = g => OfGen(Append(q, m), g)
           /\ q # <<>> => OfGen(Tail(q), g) /\ Head(q) \in Message
<1>1. ASSUME NEW m \in Message, m.gen = g PROVE OfGen(Append(q, m), g)
  BY <1>1 DEF OfGen
<1>2. ASSUME q # <<>> PROVE OfGen(Tail(q), g) /\ Head(q) \in Message
  BY <1>2 DEF OfGen
<1>. QED  BY <1>1, <1>2

LEMMA InitIndInv == Init => IndInv
<1> SUFFICES ASSUME Init PROVE IndInv
  OBVIOUS
<1>1. TypeOK
  <2>1. /\ taken \in [Callers -> SUBSET Sinks]
        /\ todo \in [Callers -> SUBSET Sinks]
        /\ pc \in [Callers -> {"idle", "recv", "take", "deliver", "drop", "join", "spawn"}]
        /\ batch \in [Callers -> Message]
        /\ result \in [Callers -> {"none", "ok", "not_started", "unavailable", "stopped",
                                   "disconnected", "end", "error"}]
        /\ last \in [Sinks -> [gen : Nat, frame : Frames]]
    BY ConstantsType DEF Init
  <2>2. wpc \in {"top", "gate", "produce", "send", "check",
                 "await", "pcheck", "psend", "exited", "none"}
    BY DEF Init
  <2>3. queue \in Seq(Message) /\ frame \in Frames /\ held \in Message /\ gen \in Nat
    BY ConstantsType DEF Init
  <2>. QED  BY <2>1, <2>2, <2>3 DEF Init, TypeOK
<1>2. LockInv /\ WorkerInv /\ SinkInv /\ NoStalePrefetch /\ RequestNeverSeesStop
  BY NoOneAssumption
  DEF Init, LockInv, WorkerInv, SinkInv, NoStalePrefetch, RequestNeverSeesStop, Nothing
<1>. QED  BY <1>1, <1>2 DEF IndInv

-----------------------------------------------------------------------------
(* The worker's steps. *)

LEMMA WorkerKeepsTypeOK == TypeOK /\ Worker => TypeOK'
<1> SUFFICES ASSUME TypeOK, Worker PROVE TypeOK'
  OBVIOUS
<1>0. ASSUME HostUnchanged, queue' \in Seq(Message), receiver' \in BOOLEAN,
             frame' \in Frames, held' \in Message,
             wpc' \in {"top", "gate", "produce", "send", "check",
                       "await", "pcheck", "psend", "exited", "none"}
      PROVE  TypeOK'
  BY <1>0 DEF TypeOK, HostUnchanged, flagVars, sinkVars, callVars, histVars
<1>01. gen \in Nat /\ frame \in Frames /\ queue \in Seq(Message) /\ held \in Message
  BY DEF TypeOK
<1>02. frame < NFrames => frame + 1 \in Frames
  BY <1>01, SizesAssumption DEF Frames
<1>1. CASE WorkerChecksStop
  BY <1>0, <1>1 DEF WorkerChecksStop, TypeOK, chanVars
<1>2. CASE WorkerChecksActive
  BY <1>0, <1>2 DEF WorkerChecksActive, TypeOK, chanVars
<1>3. CASE WorkerProduces
  <2>1. frame' \in Frames
    BY <1>01, <1>02, <1>3, SizesAssumption DEF WorkerProduces, AdvanceFrame, Frames
  <2>2. held' \in Message
    BY <1>01, <1>3, MsgType DEF WorkerProduces
  <2>. QED  BY <1>0, <1>3, <2>1, <2>2 DEF WorkerProduces, TypeOK, chanVars
<1>4. CASE WorkerSends
  <2>1. Append(queue, held) \in Seq(Message)
    BY <1>01
  <2>. QED  BY <1>0, <1>4, <2>1, ConstantsType DEF WorkerSends, TypeOK
<1>5. CASE WorkerChecksAfterSend
  BY <1>0, <1>5 DEF WorkerChecksAfterSend, TypeOK, chanVars
<1>6. CASE PreloadedAwaits
  BY <1>0, <1>6 DEF PreloadedAwaits, TypeOK, chanVars
<1>7. CASE PreloadedChecksStop
  BY <1>0, <1>7 DEF PreloadedChecksStop, TypeOK, chanVars
<1>8. CASE PreloadedSends
  <2>1. /\ Append(queue, Msg("Events", frame)) \in Seq(Message)
        /\ Append(queue, Msg("End", frame)) \in Seq(Message)
    BY <1>01, MsgType
  <2>. QED  BY <1>0, <1>02, <1>8, <2>1 DEF PreloadedSends, SendEnd, AdvanceFrame, TypeOK
<1>. QED  BY <1>1, <1>2, <1>3, <1>4, <1>5, <1>6, <1>7, <1>8 DEF Worker

LEMMA WorkerKeepsRest ==
    IndInv /\ Worker =>
        LockInv' /\ WorkerInv' /\ SinkInv' /\ NoStalePrefetch' /\ RequestNeverSeesStop'
<1> SUFFICES ASSUME IndInv, Worker
             PROVE  LockInv' /\ WorkerInv' /\ SinkInv' /\ NoStalePrefetch'
                    /\ RequestNeverSeesStop'
  OBVIOUS
<1>0. HostUnchanged /\ receiver' = receiver
  BY DEF Worker, WorkerChecksStop, WorkerChecksActive, WorkerProduces, WorkerSends,
         WorkerChecksAfterSend, PreloadedAwaits, PreloadedChecksStop, PreloadedSends, chanVars
<1>1. LockInv' /\ SinkInv' /\ RequestNeverSeesStop'
  BY <1>0 DEF IndInv, LockInv, SinkInv, RequestNeverSeesStop, HostUnchanged, callVars, sinkVars
<1>2. wpc # "none" /\ wpc' # "none"
  BY DEF Worker, WorkerChecksStop, WorkerChecksActive, WorkerProduces, WorkerSends,
         WorkerChecksAfterSend, PreloadedAwaits, PreloadedChecksStop, PreloadedSends
<1>3. /\ wpc' = "send" <=> held'.kind # "None"
      /\ ~receiver => queue' = <<>>
  <2>1. gen \in Nat /\ frame \in Frames
    BY DEF IndInv, TypeOK
  <2>. QED
    BY <1>0, <2>1, ConstantsType, MsgType
    DEF IndInv, WorkerInv, Worker, WorkerChecksStop, WorkerChecksActive, WorkerProduces,
        WorkerSends, WorkerChecksAfterSend, PreloadedAwaits, PreloadedChecksStop,
        PreloadedSends, chanVars
<1>4. WorkerInv'
  BY <1>0, <1>2, <1>3
  DEF IndInv, WorkerInv, Seeking, HostUnchanged, flagVars, callVars
<1>5. NoStalePrefetch'
  <2>0. /\ gen \in Nat /\ queue \in Seq(Message) /\ held \in Message /\ frame \in Frames
        /\ OfGen(queue, gen)
        /\ receiver /\ held.kind # "None" => held.gen = gen
        /\ gen' = gen
    BY <1>0 DEF IndInv, TypeOK, NoStalePrefetch, OfGen, HostUnchanged, histVars
  <2>1. OfGen(queue', gen)
    <3>1. CASE WorkerSends
      BY <2>0, <3>1, QueueOfGen DEF WorkerSends, IndInv, WorkerInv
    <3>2. CASE PreloadedSends
      BY <2>0, <3>2, MsgType, QueueOfGen DEF PreloadedSends, SendEnd
    <3>. QED
      BY <2>0, <3>1, <3>2
      DEF Worker, WorkerChecksStop, WorkerChecksActive, WorkerProduces, WorkerChecksAfterSend,
          PreloadedAwaits, PreloadedChecksStop, chanVars
  <2>2. receiver' /\ held'.kind # "None" => held'.gen = gen
    BY <1>0, <2>0, ConstantsType, MsgType
    DEF Worker, WorkerChecksStop, WorkerChecksActive, WorkerProduces, WorkerSends,
        WorkerChecksAfterSend, PreloadedAwaits, PreloadedChecksStop, PreloadedSends
  <2>. QED  BY <2>0, <2>1, <2>2 DEF NoStalePrefetch, OfGen
<1>. QED  BY <1>1, <1>4, <1>5

-----------------------------------------------------------------------------
(* The steps of a host thread and of Drop. *)

DropAction == DropBegins \/ DropStep

LEMMA HostKeepsTypeOK ==
    ASSUME TypeOK, NEW c \in Callers, HostBegins(c) \/ RequestStep(c) \/ SeekStep(c)
    PROVE  TypeOK'
<1> USE DEF TypeOK, flagVars, chanVars, workerVars, sinkVars, callVars, histVars, Return
<1>1. CASE RequestRefused(c)  BY <1>1, SMTT(60) DEF RequestRefused
<1>2. CASE RequestBegins(c)  BY <1>2 DEF RequestBegins
<1>3. CASE SeekBegins(c)  BY <1>3 DEF SeekBegins
<1>4. CASE Start(c)  BY <1>4 DEF Start
<1>5. CASE StopStream(c)  BY <1>5 DEF StopStream
<1>6. ASSUME NEW s \in Sinks, Subscribe(c, s) PROVE TypeOK'
  BY <1>6 DEF Subscribe
<1>7. ASSUME NEW s \in Sinks, StartEvents(c, s) PROVE TypeOK'
  BY <1>7 DEF StartEvents
<1>8. CASE ReceiveMessage(c)
  <2>1. Tail(queue) \in Seq(Message) /\ Head(queue) \in Message
    BY <1>8 DEF ReceiveMessage
  <2>2. /\ pc' \in [Callers -> {"idle", "recv", "take", "deliver", "drop", "join", "spawn"}]
        /\ batch' \in [Callers -> Message]
        /\ ended' \in BOOLEAN
    BY <1>8, <2>1 DEF ReceiveMessage
  <2>3. result' \in [Callers -> {"none", "ok", "not_started", "unavailable", "stopped",
                                 "disconnected", "end", "error"}]
    BY <1>8 DEF ReceiveMessage
  <2>. QED  BY <1>8, <2>1, <2>2, <2>3 DEF ReceiveMessage
<1>9. CASE ReceiveFails(c)  BY <1>9 DEF ReceiveFails
<1>10. CASE TakeSinks(c)  BY <1>10 DEF TakeSinks, UnlockForCallbacks
<1>11. ASSUME NEW s \in Sinks, CallSink(c, s) PROVE TypeOK'
  <2>1. [gen |-> batch[c].gen, frame |-> batch[c].frame] \in [gen : Nat, frame : Frames]
    BY DEF Message
  <2>. QED  BY <1>11, <2>1 DEF CallSink
<1>12. CASE RestoreSinks(c)  BY <1>12, ConstantsType DEF RestoreSinks, GiveSinksBack
<1>13. CASE SeekDropsReceiver(c)
  <2>1. queue' \in Seq(Message) /\ receiver' \in BOOLEAN
    BY <1>13, ConstantsType DEF SeekDropsReceiver, DropReceiver
  <2>2. gen' \in Nat
    BY <1>13 DEF SeekDropsReceiver
  <2>. QED  BY <1>13, <2>1, <2>2 DEF SeekDropsReceiver
<1>14. CASE SeekJoins(c)  BY <1>14 DEF SeekJoins
<1>15. CASE SeekSpawns(c)  BY <1>15 DEF SeekSpawns, SeekTargets, Reactivate, Frames
<1>16. CASE SeekFails(c)  BY <1>16 DEF SeekFails
<1>. QED
  BY <1>1, <1>2, <1>3, <1>4, <1>5, <1>6, <1>7, <1>8, <1>9, <1>10, <1>11, <1>12, <1>13,
     <1>14, <1>15, <1>16
  DEF HostBegins, RequestStep, SeekStep

LEMMA DropKeepsTypeOK == TypeOK /\ DropAction => TypeOK'
BY ConstantsType, ZenonT(60)
   DEF TypeOK, DropAction, DropBegins, DropStep, DropDropsReceiver, DropJoins, DropReceiver,
       flagVars, chanVars, workerVars, sinkVars, callVars, histVars

(* Who may hold the lock, and when: a thread that begins finds it free and *)
(* only the thread that holds it goes on to wait, join or spawn.           *)
LEMMA HostKeepsLockInv ==
    ASSUME TypeOK, LockInv, NEW c \in Callers, HostBegins(c) \/ RequestStep(c) \/ SeekStep(c)
    PROVE  LockInv'
<1> USE NoOneAssumption DEF TypeOK, LockInv, Return, Free, callVars
<1>1. CASE RequestRefused(c)  BY <1>1 DEF RequestRefused
<1>2. CASE RequestBegins(c)  BY <1>2 DEF RequestBegins
<1>3. CASE SeekBegins(c)  BY <1>3 DEF SeekBegins
<1>4. CASE Start(c)  BY <1>4 DEF Start
<1>5. CASE StopStream(c)  BY <1>5 DEF StopStream
<1>6. ASSUME NEW s \in Sinks, Subscribe(c, s) PROVE LockInv'
  BY <1>6 DEF Subscribe
<1>7. ASSUME NEW s \in Sinks, StartEvents(c, s) PROVE LockInv'
  BY <1>7 DEF StartEvents
<1>8. CASE ReceiveMessage(c)  BY <1>8 DEF ReceiveMessage
<1>9. CASE ReceiveFails(c)  BY <1>9 DEF ReceiveFails
<1>10. CASE TakeSinks(c)  BY <1>10 DEF TakeSinks, UnlockForCallbacks
<1>11. ASSUME NEW s \in Sinks, CallSink(c, s) PROVE LockInv'
  BY <1>11 DEF CallSink
<1>12. CASE RestoreSinks(c)  BY <1>12 DEF RestoreSinks
<1>13. CASE SeekDropsReceiver(c)  BY <1>13 DEF SeekDropsReceiver
<1>14. CASE SeekJoins(c)  BY <1>14 DEF SeekJoins
<1>15. CASE SeekSpawns(c)  BY <1>15 DEF SeekSpawns
<1>16. CASE SeekFails(c)  BY <1>16 DEF SeekFails
<1>. QED
  BY <1>1, <1>2, <1>3, <1>4, <1>5, <1>6, <1>7, <1>8, <1>9, <1>10, <1>11, <1>12, <1>13,
     <1>14, <1>15, <1>16
  DEF HostBegins, RequestStep, SeekStep

(* The flags: only a seek and Drop raise stop, only under the lock, and a  *)
(* seek that succeeds leaves them as the state of the stream asks.         *)
LEMMA HostKeepsWorkerInv ==
    ASSUME IndInv, NEW c \in Callers, HostBegins(c) \/ RequestStep(c) \/ SeekStep(c)
    PROVE  WorkerInv'
<1> USE NoOneAssumption
    DEF IndInv, TypeOK, LockInv, WorkerInv, Seeking, Return, Free,
        flagVars, chanVars, workerVars, callVars
<1>1. CASE RequestRefused(c)  BY <1>1 DEF RequestRefused
<1>2. CASE RequestBegins(c)  BY <1>2 DEF RequestBegins
<1>3. CASE SeekBegins(c)  BY <1>3 DEF SeekBegins
<1>4. CASE Start(c)  BY <1>4 DEF Start
<1>5. CASE StopStream(c)  BY <1>5 DEF StopStream
<1>6. ASSUME NEW s \in Sinks, Subscribe(c, s) PROVE WorkerInv'
  BY <1>6 DEF Subscribe
<1>7. ASSUME NEW s \in Sinks, StartEvents(c, s) PROVE WorkerInv'
  BY <1>7 DEF StartEvents
<1>8. CASE ReceiveMessage(c)  BY <1>8 DEF ReceiveMessage
<1>9. CASE ReceiveFails(c)  BY <1>9 DEF ReceiveFails
<1>10. CASE TakeSinks(c)  BY <1>10 DEF TakeSinks
<1>11. ASSUME NEW s \in Sinks, CallSink(c, s) PROVE WorkerInv'
  BY <1>11 DEF CallSink
<1>12. CASE RestoreSinks(c)  BY <1>12 DEF RestoreSinks
<1>13. CASE SeekDropsReceiver(c)  BY <1>13 DEF SeekDropsReceiver, DropReceiver
<1>14. CASE SeekJoins(c)  BY <1>14 DEF SeekJoins, Joined
<1>15. CASE SeekSpawns(c)  BY <1>15 DEF SeekSpawns, Reactivate
<1>16. CASE SeekFails(c)  BY <1>16 DEF SeekFails
<1>. QED
  BY <1>1, <1>2, <1>3, <1>4, <1>5, <1>6, <1>7, <1>8, <1>9, <1>10, <1>11, <1>12, <1>13,
     <1>14, <1>15, <1>16
  DEF HostBegins, RequestStep, SeekStep

(* The channel changes only by a receive and by the end of its receiver,   *)
(* and a new worker starts with nothing in hand.                           *)
LEMMA HostKeepsNoStalePrefetch ==
    ASSUME IndInv, NEW c \in Callers, HostBegins(c) \/ RequestStep(c) \/ SeekStep(c)
    PROVE  NoStalePrefetch'
<1>0. queue \in Seq(Message) /\ OfGen(queue, gen)
  BY DEF IndInv, TypeOK, NoStalePrefetch, OfGen
<1>1. CASE ReceiveMessage(c)
  <2>1. OfGen(Tail(queue), gen)
    BY <1>0, <1>1, QueueOfGen DEF ReceiveMessage
  <2>. QED
    BY <1>1, <2>1 DEF ReceiveMessage, workerVars, NoStalePrefetch, OfGen, IndInv
<1>2. CASE SeekDropsReceiver(c)
  BY <1>2 DEF SeekDropsReceiver, DropReceiver, NoStalePrefetch
<1>3. CASE SeekSpawns(c)
  BY <1>3 DEF SeekSpawns, NoStalePrefetch, IndInv, WorkerInv
<1>4. ASSUME UNCHANGED <<queue, receiver, held, gen>> PROVE NoStalePrefetch'
  BY <1>4 DEF IndInv, NoStalePrefetch
<1>. QED
  BY <1>1, <1>2, <1>3, <1>4
  DEF HostBegins, RequestStep, SeekStep, RequestRefused, RequestBegins, SeekBegins, Start,
      StopStream, Subscribe, StartEvents, ReceiveFails, TakeSinks, CallSink, RestoreSinks,
      SeekJoins, SeekFails, chanVars, workerVars, histVars

(* A thread has sinks in its own hands only while it calls them. *)
LEMMA HostKeepsSinkInv ==
    ASSUME IndInv, NEW c \in Callers, HostBegins(c) \/ RequestStep(c) \/ SeekStep(c)
    PROVE  SinkInv'
<1> USE DEF IndInv, TypeOK, SinkInv, Return, Free, callVars, sinkVars
<1>1. CASE HostBegins(c)
  BY <1>1
  DEF HostBegins, RequestRefused, RequestBegins, SeekBegins, Start, StopStream, Subscribe,
      StartEvents
<1>2. CASE RequestStep(c)
  BY <1>2
  DEF RequestStep, ReceiveMessage, ReceiveFails, TakeSinks, CallSink, RestoreSinks
<1>3. CASE SeekStep(c)
  BY <1>3 DEF SeekStep, SeekDropsReceiver, SeekJoins, SeekSpawns, SeekFails
<1>. QED  BY <1>1, <1>2, <1>3

LEMMA HostKeepsRequestNeverSeesStop ==
    ASSUME IndInv, NEW c \in Callers, HostBegins(c) \/ RequestStep(c) \/ SeekStep(c)
    PROVE  RequestNeverSeesStop'
<1>0. RequestNeverSeesStop /\ result \in [Callers -> {"none", "ok", "not_started",
          "unavailable", "stopped", "disconnected", "end", "error"}]
  BY DEF IndInv, TypeOK
<1>1. pc[c] = "recv" => ~stop
  BY DEF IndInv, LockInv, WorkerInv, Seeking
<1>2. ASSUME NEW r, r # "stopped", result' = [result EXCEPT ![c] = r]
      PROVE  RequestNeverSeesStop'
  BY <1>0, <1>2 DEF RequestNeverSeesStop
<1>3. ASSUME UNCHANGED result PROVE RequestNeverSeesStop'
  BY <1>0, <1>3 DEF RequestNeverSeesStop
<1>4. CASE HostBegins(c)
  BY <1>2, <1>3, <1>4
  DEF HostBegins, RequestRefused, RequestBegins, SeekBegins, Start, StopStream, Subscribe,
      StartEvents, Return, callVars
<1>5. CASE RequestStep(c)
  BY <1>1, <1>2, <1>3, <1>5
  DEF RequestStep, ReceiveMessage, ReceiveFails, TakeSinks, CallSink, RestoreSinks, Return,
      callVars
<1>6. CASE SeekStep(c)
  BY <1>2, <1>3, <1>6
  DEF SeekStep, SeekDropsReceiver, SeekJoins, SeekSpawns, SeekFails, Return
<1>. QED  BY <1>4, <1>5, <1>6

LEMMA DropKeepsIndInv == IndInv /\ DropAction => IndInv'
<1> SUFFICES ASSUME IndInv, DropAction PROVE IndInv'
  OBVIOUS
<1>1. TypeOK'
  BY DropKeepsTypeOK DEF IndInv
<1>2. LockInv' /\ SinkInv' /\ RequestNeverSeesStop'
  BY DEF IndInv, LockInv, SinkInv, RequestNeverSeesStop, DropAction, DropBegins, DropStep,
         DropDropsReceiver, DropJoins, callVars, sinkVars
<1>3. WorkerInv'
  BY DEF IndInv, TypeOK, LockInv, WorkerInv, Seeking, DropAction, DropBegins, DropStep,
         DropDropsReceiver, DropJoins, DropReceiver, flagVars, chanVars, workerVars, callVars
<1>4. NoStalePrefetch'
  BY DEF IndInv, NoStalePrefetch, DropAction, DropBegins, DropStep, DropDropsReceiver,
         DropJoins, DropReceiver, chanVars, workerVars, histVars
<1>. QED  BY <1>1, <1>2, <1>3, <1>4 DEF IndInv

-----------------------------------------------------------------------------
LEMMA NextKeepsIndInv == IndInv /\ [Next]_vars => IndInv'
<1> SUFFICES ASSUME IndInv, [Next]_vars PROVE IndInv'
  OBVIOUS
<1>1. CASE Worker
  BY <1>1, WorkerKeepsTypeOK, WorkerKeepsRest DEF IndInv
<1>2. ASSUME NEW c \in Callers, HostBegins(c) \/ RequestStep(c) \/ SeekStep(c)
      PROVE  IndInv'
  <2>1. TypeOK'
    BY <1>2, HostKeepsTypeOK DEF IndInv
  <2>2. LockInv'
    BY <1>2, HostKeepsLockInv DEF IndInv
  <2>. QED
    BY <1>2, <2>1, <2>2, HostKeepsWorkerInv, HostKeepsNoStalePrefetch,
       HostKeepsRequestNeverSeesStop, HostKeepsSinkInv
    DEF IndInv
<1>3. CASE DropBegins \/ DropStep
  BY <1>3, DropKeepsIndInv DEF DropAction
<1>4. CASE UNCHANGED vars
  BY <1>4
  DEF vars, flagVars, chanVars, workerVars, sinkVars, callVars, histVars, IndInv, TypeOK,
      LockInv, WorkerInv, SinkInv, Seeking, NoStalePrefetch, RequestNeverSeesStop
<1>. QED  BY <1>1, <1>2, <1>3, <1>4 DEF Next, Gone

(* The inductive invariant holds throughout. *)
LEMMA Inductive == Spec => []IndInv
<1>1. Init => IndInv
  BY InitIndInv
<1>2. IndInv /\ [Next]_vars => IndInv'
  BY NextKeepsIndInv
<1>. QED  BY <1>1, <1>2, PTL DEF Spec

(* Every variable of the plugin keeps a value of its type. *)
THEOREM TypeCorrect == Spec => []TypeOK
<1>1. IndInv => TypeOK
  BY DEF IndInv
<1>. QED  BY <1>1, Inductive, PTL

(* A host thread that waits for a frame, holding the state lock, waits for *)
(* a worker that runs, is active and has not been told to stop.            *)
THEOREM ReceiverFed == Spec => []ReceiverIsFed
<1>1. IndInv => ReceiverIsFed
  <2> SUFFICES ASSUME IndInv, NEW c \in Callers, pc[c] = "recv"
               PROVE  lock = c /\ started /\ active /\ ~stop /\ receiver /\ wpc # "none"
    BY DEF ReceiverIsFed
  <2>1. lock = c /\ started /\ receiver /\ dropPc = "live"
    BY DEF IndInv, TypeOK, LockInv, WorkerInv
  <2>2. ~Seeking
    BY <2>1 DEF IndInv, LockInv, Seeking
  <2>. QED  BY <2>1, <2>2 DEF IndInv, WorkerInv
<1>. QED  BY <1>1, Inductive, PTL

(* What waits in the channel was decoded after the latest seek. *)
THEOREM PrefetchIsCurrent == Spec => []NoStalePrefetch
<1>1. IndInv => NoStalePrefetch
  BY DEF IndInv
<1>. QED  BY <1>1, Inductive, PTL

(* The stop branch of the time-out loop in advance is dead code. *)
THEOREM StopNeverSeen == Spec => []RequestNeverSeesStop
<1>1. IndInv => RequestNeverSeesStop
  BY DEF IndInv
<1>. QED  BY <1>1, Inductive, PTL

(* No step loses a subscribed sink. An advance may take the list only with *)
(* none left in its hands, or it would drop those it had taken before.     *)
THEOREM SinksNeverLost == Spec => SinksKept
<1>1. IndInv /\ [Next]_vars => [Subscribed \subseteq Subscribed']_vars
  <2> SUFFICES ASSUME IndInv, Next PROVE Subscribed \subseteq Subscribed'
    OBVIOUS
  <2>0. taken \in [Callers -> SUBSET Sinks]
    BY DEF IndInv, TypeOK
  <2>1. ASSUME sinks \subseteq sinks', UNCHANGED taken PROVE Subscribed \subseteq Subscribed'
    BY <2>1 DEF Subscribed
  <2>2. ASSUME NEW c \in Callers, TakeSinks(c) PROVE Subscribed \subseteq Subscribed'
    <3>1. taken[c] = {} /\ taken' = [taken EXCEPT ![c] = sinks]
      BY <2>2 DEF TakeSinks, IndInv, SinkInv
    <3>2. taken'[c] = sinks /\ \A d \in Callers : taken[d] \subseteq taken'[d]
      BY <2>0, <3>1
    <3>. QED  BY <3>2 DEF Subscribed
  <2>3. ASSUME NEW c \in Callers, RestoreSinks(c) PROVE Subscribed \subseteq Subscribed'
    <3>1. sinks' = sinks \union taken[c] /\ taken' = [taken EXCEPT ![c] = {}]
      BY <2>3 DEF RestoreSinks, GiveSinksBack
    <3>2. \A d \in Callers : d # c => taken'[d] = taken[d]
      BY <2>0, <3>1
    <3>. QED  BY <3>1, <3>2 DEF Subscribed
  <2>. QED
    BY <2>1, <2>2, <2>3
    DEF Next, Worker, WorkerChecksStop, WorkerChecksActive, WorkerProduces, WorkerSends,
        WorkerChecksAfterSend, PreloadedAwaits, PreloadedChecksStop, PreloadedSends,
        HostUnchanged, HostBegins, RequestStep, SeekStep, RequestRefused, RequestBegins,
        SeekBegins, Start, StopStream, Subscribe, StartEvents, ReceiveMessage, ReceiveFails,
        CallSink, SeekDropsReceiver, SeekJoins, SeekSpawns, SeekFails, DropBegins, DropStep,
        DropDropsReceiver, DropJoins, Gone, vars, sinkVars
<1>. QED  BY <1>1, Inductive, PTL DEF Spec, SinksKept

-----------------------------------------------------------------------------
(* The end of the video and the exit of the worker.                        *)
HasEnd(q) == \E i \in 1..Len(q) : q[i].kind = "End"

LEMMA QueueWithEnd ==
    ASSUME NEW q \in Seq(Message)
    PROVE  /\ \A m \in Message : m.kind = "End" \/ HasEnd(q) => HasEnd(Append(q, m))
           /\ q # <<>> /\ HasEnd(q) => Head(q).kind = "End" \/ HasEnd(Tail(q))
<1>1. ASSUME NEW m \in Message, m.kind = "End" \/ HasEnd(q)  PROVE HasEnd(Append(q, m))
  <2>1. /\ Len(Append(q, m)) = Len(q) + 1 /\ Append(q, m)[Len(q) + 1] = m /\ Len(q) \in Nat
        /\ \A i \in 1..Len(q) : Append(q, m)[i] = q[i]
    BY AppendProperties, LenProperties
  <2>. QED  BY <1>1, <2>1 DEF HasEnd
<1>2. ASSUME q # <<>>, HasEnd(q)  PROVE Head(q).kind = "End" \/ HasEnd(Tail(q))
  <2>1. PICK i \in 1..Len(q) : q[i].kind = "End"
    BY <1>2 DEF HasEnd
  <2>2. /\ Len(q) \in Nat /\ Head(q) = q[1] /\ Len(Tail(q)) = Len(q) - 1
        /\ \A j \in 1..Len(Tail(q)) : Tail(q)[j] = q[j + 1]
    BY <1>2, HeadTailProperties, LenProperties
  <2>3. CASE i = 1
    BY <2>1, <2>2, <2>3
  <2>4. CASE i # 1
    <3>1. i - 1 \in 1..Len(Tail(q)) /\ Tail(q)[i - 1] = q[i]
      BY <2>1, <2>2, <2>4
    <3>. QED  BY <2>1, <3>1 DEF HasEnd
  <2>. QED  BY <2>3, <2>4
<1>. QED  BY <1>1, <1>2

(* A worker exits after the end of the video, or because it was told to    *)
(* stop, or because its receiver is gone.                                  *)
LEMMA WorkerKeepsExitInv == IndInv /\ ExitInv /\ Worker => ExitInv'
<1> SUFFICES ASSUME IndInv, ExitInv, Worker  PROVE ExitInv'
  OBVIOUS
<1>1. queue \in Seq(Message) /\ held \in Message /\ gen \in Nat /\ frame \in Frames
  BY DEF IndInv, TypeOK
<1>2. HostUnchanged /\ receiver' = receiver /\ stop' = stop /\ ended' = ended
  BY DEF Worker, WorkerChecksStop, WorkerChecksActive, WorkerProduces, WorkerSends,
         WorkerChecksAfterSend, PreloadedAwaits, PreloadedChecksStop, PreloadedSends,
         chanVars, HostUnchanged, flagVars, histVars
<1>3. CASE PreloadedSends
  <2>1. CASE ~receiver
    BY <1>2, <2>1 DEF ExitInv
  <2>2. CASE receiver /\ frame < NFrames
    BY <1>3, <2>2 DEF PreloadedSends, ExitInv
  <2>3. CASE receiver /\ ~(frame < NFrames)
    <3>1. queue' = Append(queue, Msg("End", frame))
      BY <1>3, <2>3 DEF PreloadedSends, SendEnd
    <3>2. HasEnd(queue')
      BY <1>1, <3>1, MsgType, QueueWithEnd
    <3>. QED  BY <3>2 DEF ExitInv, HasEnd
  <2>. QED  BY <2>1, <2>2, <2>3
<1>4. CASE ~PreloadedSends
  <2>1. wpc' = "exited" => ~receiver \/ stop
    BY <1>4
    DEF Worker, WorkerChecksStop, WorkerChecksActive, WorkerProduces, WorkerSends,
        WorkerChecksAfterSend, PreloadedAwaits, PreloadedChecksStop
  <2>. QED  BY <1>2, <2>1 DEF ExitInv
<1>. QED  BY <1>3, <1>4

LEMMA NextKeepsExitInv == IndInv /\ ExitInv /\ [Next]_vars => ExitInv'
<1> SUFFICES ASSUME IndInv, ExitInv, [Next]_vars  PROVE ExitInv'
  OBVIOUS
<1>1. CASE Worker
  BY <1>1, WorkerKeepsExitInv
<1>2. ASSUME NEW c \in Callers, ReceiveMessage(c)  PROVE ExitInv'
  <2>1. queue \in Seq(Message) /\ queue # <<>> /\ queue' = Tail(queue)
    BY <1>2 DEF ReceiveMessage, IndInv, TypeOK
  <2>2. UNCHANGED <<receiver, wpc, stop>> /\ (ended => ended')
    BY <1>2 DEF ReceiveMessage, flagVars, workerVars
  <2>3. Head(queue).kind = "End" => ended'
    BY <1>2 DEF ReceiveMessage
  <2>4. HasEnd(queue) => ended' \/ HasEnd(queue')
    BY <2>1, <2>3, QueueWithEnd
  <2>. QED  BY <2>2, <2>4 DEF ExitInv, HasEnd
<1>3. ASSUME NEW c \in Callers,
             SeekBegins(c) \/ SeekDropsReceiver(c) \/ SeekJoins(c) \/ SeekSpawns(c)
      PROVE  ExitInv'
  BY <1>3 DEF SeekBegins, SeekDropsReceiver, DropReceiver, SeekJoins, SeekSpawns, ExitInv
<1>4. CASE DropBegins \/ DropDropsReceiver
  BY <1>4 DEF DropBegins, DropDropsReceiver, DropReceiver, ExitInv
<1>5. ASSUME UNCHANGED <<receiver, wpc, stop, ended, queue>>  PROVE ExitInv'
  BY <1>5 DEF ExitInv
<1>. QED
  BY <1>1, <1>2, <1>3, <1>4, <1>5
  DEF Next, HostBegins, RequestStep, SeekStep, RequestRefused, RequestBegins, Start,
      StopStream, Subscribe, StartEvents, ReceiveFails, TakeSinks, CallSink, RestoreSinks,
      SeekFails, DropStep, DropJoins, Gone, vars, flagVars, chanVars, workerVars, histVars

(* A host is told of the end of the video before it can be told that the   *)
(* worker is gone: the worker exits of its own accord only after the end.  *)
THEOREM EndComesFirst == Spec => EndBeforeDisconnect
<1>1. Init => ExitInv
  BY DEF Init, ExitInv
<1>2. ASSUME IndInv, ExitInv, [Next]_vars, NEW c \in Callers,
             pc[c] = "recv", pc'[c] = "idle", result'[c] = "disconnected"
      PROVE  ended
  <2>1. \A d \in Callers : \A v : pc' = [pc EXCEPT ![d] = v] => d = c
    BY <1>2 DEF IndInv, TypeOK
  <2>2. ~UNCHANGED pc /\ dropPc = "live"
    BY <1>2 DEF IndInv, LockInv, TypeOK
  <2>3. ReceiveMessage(c) \/ ReceiveFails(c)
    BY <1>2, <2>1, <2>2
    DEF Next, Worker, WorkerChecksStop, WorkerChecksActive, WorkerProduces, WorkerSends,
        WorkerChecksAfterSend, PreloadedAwaits, PreloadedChecksStop, PreloadedSends,
        HostUnchanged, HostBegins, RequestStep, SeekStep, RequestRefused, RequestBegins,
        SeekBegins, Start, StopStream, Subscribe, StartEvents, ReceiveMessage, ReceiveFails,
        TakeSinks, CallSink, RestoreSinks, SeekDropsReceiver, SeekJoins, SeekSpawns,
        SeekFails, DropBegins, DropStep, DropDropsReceiver, DropJoins, Gone, Return, Free,
        vars, callVars
  <2>4. result \in [Callers -> {"none", "ok", "not_started", "unavailable", "stopped",
                                "disconnected", "end", "error"}]
    BY <1>2 DEF IndInv, TypeOK
  <2>5. ~ReceiveMessage(c)
    BY <1>2, <2>4 DEF ReceiveMessage, Return, IndInv, TypeOK
  <2>6. queue = <<>> /\ wpc = "exited"
    BY <1>2, <2>3, <2>4, <2>5 DEF ReceiveFails, Return
  <2>7. receiver /\ ~stop
    BY <1>2, <2>2 DEF IndInv, TypeOK, LockInv, WorkerInv, Seeking
  <2>. QED  BY <1>2, <2>6, <2>7 DEF ExitInv
<1>3. IndInv /\ ExitInv /\ [Next]_vars =>
         (\A c \in Callers :
            pc[c] = "recv" /\ pc'[c] = "idle" /\ result'[c] = "disconnected" => ended)
  BY <1>2
<1>. QED  BY <1>1, <1>3, Inductive, NextKeepsExitInv, PTL DEF Spec, EndBeforeDisconnect
-----------------------------------------------------------------------------
(* With one driver, what the worker has decoded and not delivered is one   *)
(* stretch of the video.                                                   *)

LEMMA StretchAppend ==
    ASSUME NEW q \in Seq(Message), NEW m \in Message, NEW w \in Frames,
           Stretch(q, m.frame), Len(q) < PREFETCH_BATCHES, Follows(m, w)
    PROVE  Stretch(Append(q, m), w)
<1> DEFINE n == Len(q)
           r == Append(q, m)
<1>1. n \in Nat /\ Len(r) = n + 1 /\ r[n + 1] = m /\ \A i \in 1..n : r[i] = q[i]
  BY AppendProperties, LenProperties
<1>2. m.frame \in Nat /\ w \in Nat /\ w <= m.frame + 1
  BY SizesAssumption DEF Message, Frames, Follows
<1>3. ASSUME NEW i \in 1..n
      PROVE  /\ Follows(r[i], IF i = n + 1 THEN w ELSE r[i + 1].frame)
             /\ w <= r[i].frame + (n + 1 - i) + 1
  <2>1. q[i].frame \in Nat
    <3>1. q[i] \in Message
      BY ElementOfSeq
    <3>. QED  BY <3>1, SizesAssumption DEF Message, Frames
  <2>2. /\ Follows(q[i], IF i = n THEN m.frame ELSE q[i + 1].frame)
        /\ m.frame <= q[i].frame + (n - i) + 1
    BY DEF Stretch
  <2>3. i # n + 1 /\ r[i + 1].frame = IF i = n THEN m.frame ELSE q[i + 1].frame
    BY <1>1
  <2>4. r[i] = q[i]
    BY <1>1
  <2>5. Follows(r[i], IF i = n + 1 THEN w ELSE r[i + 1].frame)
    BY <2>2, <2>3, <2>4
  <2>6. \A a, b, c, l, j \in Nat :
           a <= b + 1 /\ b <= c + (l - j) + 1 => a <= c + (l + 1 - j) + 1
    OBVIOUS
  <2>7. n \in Nat /\ i \in Nat /\ q[i].frame \in Nat
    BY <1>1, <2>1
  <2> HIDE DEF n, r
  <2>8. w <= q[i].frame + (n + 1 - i) + 1
    BY <1>2, <2>2, <2>6, <2>7
  <2>. QED  BY <2>4, <2>5, <2>8
<1>4. /\ Follows(r[n + 1], w)
      /\ w <= r[n + 1].frame + (n + 1 - (n + 1)) + 1
  BY <1>1, <1>2
<1>5. n + 1 <= PREFETCH_BATCHES
  BY <1>1, SizesAssumption
<1> HIDE DEF n, r
<1>6. \A i \in 1..n + 1 : i \in 1..n \/ i = n + 1
  BY <1>1
<1>. QED  BY <1>1, <1>3, <1>4, <1>5, <1>6 DEF Stretch, r

LEMMA StretchTail ==
    ASSUME NEW q \in Seq(Message), NEW w \in Frames, q # <<>>, Stretch(q, w)
    PROVE  /\ Stretch(Tail(q), w)
           /\ Follows(Head(q), IF Tail(q) = <<>> THEN w ELSE Head(Tail(q)).frame)
<1> DEFINE n == Len(q)
           r == Tail(q)
<1>1. /\ n \in Nat \ {0} /\ r \in Seq(Message) /\ Len(r) = n - 1
      /\ \A i \in 1..n - 1 : r[i] = q[i + 1]
      /\ Head(q) = q[1]
  BY EmptySeq, HeadTailProperties
<1>2. Follows(Head(q), IF r = <<>> THEN w ELSE Head(r).frame)
  <2>1. Follows(q[1], IF n = 1 THEN w ELSE q[2].frame)
    <3>1. 1 \in 1..n /\ (1 = n <=> n = 1)
      BY <1>1
    <3>2. Follows(q[1], IF 1 = n THEN w ELSE q[1 + 1].frame)
      BY <3>1 DEF Stretch
    <3>. QED  BY <3>1, <3>2
  <2>2. r = <<>> <=> n = 1
    BY <1>1, EmptySeq
  <2>3. n # 1 => Head(r) = q[2]
    BY <1>1, <2>2
  <2>. QED  BY <1>1, <2>1, <2>2, <2>3
<1>3. ASSUME NEW i \in 1..n - 1
      PROVE  /\ Follows(r[i], IF i = n - 1 THEN w ELSE r[i + 1].frame)
             /\ w <= r[i].frame + (n - 1 - i) + 1
  <2>1. i + 1 \in 1..n /\ r[i] = q[i + 1] /\ (i # n - 1 => r[i + 1] = q[i + 1 + 1])
    <3>1. \A k \in Nat \ {0} : \A j \in 1..k - 1 :
             j + 1 \in 1..k /\ (j # k - 1 => j + 1 \in 1..k - 1)
      OBVIOUS
    <3> HIDE DEF n, r
    <3>2. i + 1 \in 1..n /\ (i # n - 1 => i + 1 \in 1..n - 1)
      BY <1>1, <3>1
    <3>3. r[i] = q[i + 1]
      BY <1>1
    <3>4. i # n - 1 => r[i + 1] = q[i + 1 + 1]
      BY <1>1, <3>2
    <3>. QED  BY <3>2, <3>3, <3>4
  <2>2. /\ Follows(q[i + 1], IF i + 1 = n THEN w ELSE q[i + 1 + 1].frame)
        /\ w <= q[i + 1].frame + (n - (i + 1)) + 1
    BY <2>1 DEF Stretch
  <2>3. n - (i + 1) = n - 1 - i /\ (i + 1 = n <=> i = n - 1)
    BY <1>1
  <2> HIDE DEF n, r
  <2>4. w <= r[i].frame + (n - 1 - i) + 1
    BY <2>1, <2>2, <2>3
  <2>5. Follows(r[i], IF i = n - 1 THEN w ELSE r[i + 1].frame)
    BY <2>1, <2>2, <2>3
  <2>. QED  BY <2>4, <2>5
<1>4. n - 1 <= PREFETCH_BATCHES
  <2>1. n <= PREFETCH_BATCHES
    BY DEF Stretch
  <2>. QED  BY <1>1, <2>1, SizesAssumption
<1>. QED  BY <1>1, <1>2, <1>3, <1>4 DEF Stretch

(* A single driver is alone with its request or its seek. *)
LEMMA DriverIsAlone ==
    ASSUME OneDriver, DriverInv, NEW c \in Callers, pc[c] # "idle"
    PROVE  \A d \in Callers : d # c => pc[d] = "idle" /\ todo[d] = {}
BY DEF OneDriver, DriverInv

LEMMA NextKeepsDriverInv == IndInv /\ DriverInv /\ [Next]_vars => DriverInv'
<1> SUFFICES ASSUME IndInv, DriverInv, [Next]_vars  PROVE DriverInv'
  OBVIOUS
<1>0. /\ pc \in [Callers -> {"idle", "recv", "take", "deliver", "drop", "join", "spawn"}]
      /\ todo \in [Callers -> SUBSET Sinks]
  BY DEF IndInv, TypeOK
<1>1. ASSUME UNCHANGED <<pc, todo>>  PROVE DriverInv'
  BY <1>1 DEF DriverInv
<1>2. ASSUME NEW c \in Callers, NEW v, pc' = [pc EXCEPT ![c] = v],
             v = "idle" \/ c \in Drivers, pc[c] # "deliver", UNCHANGED todo
      PROVE  DriverInv'
  BY <1>0, <1>2 DEF DriverInv
<1>3. ASSUME NEW c \in Callers, HostBegins(c)  PROVE DriverInv'
  BY <1>1, <1>2, <1>3
  DEF HostBegins, RequestRefused, RequestBegins, SeekBegins, Start, StopStream, Subscribe,
      StartEvents, Free, Return, callVars, sinkVars
<1>4. ASSUME NEW c \in Callers, SeekStep(c)  PROVE DriverInv'
  BY <1>2, <1>4
  DEF SeekStep, SeekDropsReceiver, SeekJoins, SeekSpawns, SeekFails, Return, sinkVars,
      DriverInv
<1>5. ASSUME NEW c \in Callers, RequestStep(c)  PROVE DriverInv'
  <2>1. c \in Drivers
    BY <1>5
    DEF RequestStep, ReceiveMessage, ReceiveFails, TakeSinks, CallSink, RestoreSinks, DriverInv
  <2>2. CASE ReceiveMessage(c) \/ ReceiveFails(c)
    BY <1>2, <2>1, <2>2 DEF ReceiveMessage, ReceiveFails, Return, sinkVars
  <2>3. CASE TakeSinks(c) \/ (\E s \in Sinks : CallSink(c, s))
    BY <1>0, <2>1, <2>3 DEF TakeSinks, CallSink, DriverInv, callVars
  <2>4. CASE RestoreSinks(c)
    BY <1>0, <2>4 DEF RestoreSinks, Return, DriverInv
  <2>. QED  BY <1>5, <2>2, <2>3, <2>4 DEF RequestStep
<1>6. CASE Worker \/ DropBegins \/ DropStep \/ Gone \/ UNCHANGED vars
  BY <1>1, <1>6
  DEF Worker, WorkerChecksStop, WorkerChecksActive, WorkerProduces, WorkerSends,
      WorkerChecksAfterSend, PreloadedAwaits, PreloadedChecksStop, PreloadedSends,
      HostUnchanged, DropBegins, DropStep, DropDropsReceiver, DropJoins, Gone, vars,
      callVars, sinkVars
<1>. QED  BY <1>3, <1>4, <1>5, <1>6 DEF Next
(* The worker adds to the stretch at its far end; its head stays.          *)
LEMMA WorkerKeepsStretch ==
    ASSUME IndInv, StretchInv, Worker, receiver
    PROVE  StretchInv' /\ AtHead' = AtHead
<1>1. /\ queue \in Seq(Message) /\ held \in Message /\ gen \in Nat /\ frame \in Frames
      /\ NFrames \in Nat /\ frame \in Nat /\ Len(queue) \in Nat
      /\ held.kind # "None" => Follows(held, frame)
      /\ Stretch(queue, WorkerFrame)
      /\ wpc # "send" => held.kind = "None" /\ WorkerFrame = frame
  BY SizesAssumption, LenProperties DEF IndInv, TypeOK, StretchInv, WorkerInv, Frames, WorkerFrame
<1>2. receiver' = receiver /\ frame' \in Frames
  BY WorkerKeepsTypeOK
  DEF Worker, WorkerChecksStop, WorkerChecksActive, WorkerProduces, WorkerSends,
      WorkerChecksAfterSend, PreloadedAwaits, PreloadedChecksStop, PreloadedSends, chanVars,
      IndInv, TypeOK
(* A message goes into the channel, w is the frame the worker is at then.  *)
<1>3. ASSUME NEW m \in Message, NEW w \in Frames, WorkerFrame = m.frame, Follows(m, w),
             HasRoom, queue' = Append(queue, m)
      PROVE  /\ Stretch(queue', w)
             /\ queue' # <<>> /\ Head(queue').frame = AtHead
  <2>1. Stretch(queue', w)
    BY <1>1, <1>3, StretchAppend DEF HasRoom
  <2>2. Len(queue') = Len(queue) + 1 /\ queue' # <<>>
    BY <1>1, <1>3, AppendProperties
  <2>3. CASE queue = <<>>
    <3>1. Head(queue') = m
      BY <1>3, <2>3
    <3>. QED  BY <1>3, <2>1, <2>2, <2>3, <3>1 DEF AtHead
  <2>4. CASE queue # <<>>
    <3>1. Len(queue) \in Nat \ {0}
      BY <1>1, <2>4, EmptySeq
    <3>2. Head(queue') = queue'[1] /\ queue'[1] = queue[1] /\ Head(queue) = queue[1]
      BY <1>1, <1>3, <2>2, <3>1, AppendProperties
    <3>. QED  BY <2>1, <2>2, <2>4, <3>2 DEF AtHead
  <2>. QED  BY <2>1, <2>2, <2>3, <2>4
<1>4. CASE WorkerProduces
  <2>1. queue' = queue /\ WorkerFrame = frame
    BY <1>1, <1>4 DEF WorkerProduces, chanVars
  <2>2. held'.kind # "None" /\ held'.frame = frame /\ Follows(held', frame')
    BY <1>1, <1>4 DEF WorkerProduces, AdvanceFrame, Msg, Follows
  <2>3. WorkerFrame' = frame
    BY <2>2 DEF WorkerFrame
  <2>4. AtHead' = AtHead
    BY <2>1, <2>3 DEF AtHead
  <2>. QED  BY <1>1, <1>2, <2>1, <2>2, <2>3, <2>4 DEF StretchInv, Stretch
<1>5. CASE WorkerSends
  <2>1. /\ HasRoom /\ queue' = Append(queue, held) /\ frame' = frame
        /\ held'.kind = "None" /\ held.kind # "None"
    BY <1>5, ConstantsType DEF WorkerSends, IndInv, WorkerInv
  <2>2. WorkerFrame = held.frame /\ WorkerFrame' = frame
    BY <2>1 DEF WorkerFrame
  <2>3. Stretch(queue', frame) /\ queue' # <<>> /\ Head(queue').frame = AtHead
    <3>1. held \in Message /\ frame \in Frames /\ Follows(held, frame)
      BY <1>1, <2>1
    <3>. QED  BY <1>3, <2>1, <2>2, <3>1
  <2>. QED  BY <2>1, <2>2, <2>3 DEF StretchInv, Stretch, AtHead
<1>6. CASE PreloadedSends
  <2>1. HasRoom /\ held' = held /\ held.kind = "None" /\ WorkerFrame = frame
    BY <1>1, <1>6 DEF PreloadedSends
  <2>2. WorkerFrame' = frame'
    BY <2>1 DEF WorkerFrame
  <2>3. PICK m \in Message :
           m.frame = frame /\ Follows(m, frame') /\ queue' = Append(queue, m)
    <3>1. CASE frame < NFrames
      <4>1. queue' = Append(queue, Msg("Events", frame)) /\ frame' = frame + 1
        BY <1>6, <3>1 DEF PreloadedSends, AdvanceFrame
      <4>. QED  BY <1>1, <4>1, MsgType DEF Msg, Follows
    <3>2. CASE ~(frame < NFrames)
      <4>1. queue' = Append(queue, Msg("End", frame)) /\ frame' = frame /\ frame = NFrames
        BY <1>1, <1>6, <3>2 DEF PreloadedSends, SendEnd, Frames
      <4>. QED  BY <1>1, <4>1, MsgType DEF Msg, Follows
    <3>. QED  BY <3>1, <3>2
  <2>4. Stretch(queue', frame') /\ queue' # <<>> /\ Head(queue').frame = AtHead
    <3>1. frame' \in Frames /\ WorkerFrame = m.frame
      BY <1>2, <2>1, <2>3
    <3>. QED  BY <1>3, <2>1, <2>3, <3>1
  <2>. QED  BY <2>1, <2>2, <2>4 DEF StretchInv, Stretch, AtHead
<1>7. CASE UNCHANGED <<queue, held, frame>>
  BY <1>1, <1>2, <1>7 DEF StretchInv, Stretch, AtHead, WorkerFrame
<1>. QED
  BY <1>4, <1>5, <1>6, <1>7
  DEF Worker, WorkerChecksStop, WorkerChecksActive, WorkerChecksAfterSend, PreloadedAwaits,
      PreloadedChecksStop, chanVars
(* A request takes the head of the stretch into its hands.                 *)
LEMMA ReceiveKeepsStretch ==
    ASSUME OneDriver, IndInv, StreamInv, NEW c \in Callers, ReceiveMessage(c)
    PROVE  /\ StretchInv' /\ InHandInv' /\ InHand = {}
           /\ receiver' = receiver /\ receiver
           /\ AtHead = Head(queue).frame /\ Follows(Head(queue), AtHead')
<1> USE DEF StreamInv
<1>1. /\ queue \in Seq(Message) /\ queue # <<>> /\ queue' = Tail(queue)
      /\ UNCHANGED <<receiver, held, frame, gen>>
      /\ held \in Message /\ frame \in Frames /\ gen \in Nat
      /\ pc[c] = "recv" /\ receiver
  BY DEF ReceiveMessage, workerVars, IndInv, TypeOK, WorkerInv
<1>2. WorkerFrame \in Frames /\ WorkerFrame' = WorkerFrame
  BY <1>1 DEF WorkerFrame, Message
<1>3. Stretch(queue, WorkerFrame)
  BY <1>1 DEF StretchInv
<1>4. /\ Stretch(queue', WorkerFrame)
      /\ Follows(Head(queue), IF queue' = <<>> THEN WorkerFrame ELSE Head(queue').frame)
  BY <1>1, <1>2, <1>3, StretchTail
<1>5. StretchInv'
  BY <1>1, <1>2, <1>4 DEF StretchInv, Stretch
<1>6. Follows(Head(queue), AtHead')
  BY <1>1, <1>2, <1>4 DEF AtHead
<1>7. InHand = {} /\ \A d \in Callers : d # c => pc[d] = "idle"
  <2>1. \A d \in Callers : d # c => pc[d] = "idle"
    BY <1>1, DriverIsAlone
  <2>. QED  BY <1>1, <2>1 DEF InHand
<1>8. InHandInv'
  <2> SUFFICES ASSUME NEW d \in Callers, pc'[d] \in {"take", "deliver"}
               PROVE  /\ receiver'
                      /\ batch'[d].kind = "Events" /\ batch'[d].gen = gen'
                      /\ Follows(batch'[d], AtHead')
    BY DEF InHandInv, InHand
  <2>1. d = c
    BY <1>7 DEF ReceiveMessage, Return, IndInv, TypeOK
  <2>2. Head(queue).kind = "Events" /\ batch'[c] = Head(queue)
    BY <2>1 DEF ReceiveMessage, Return, IndInv, TypeOK
  <2>3. Head(queue).gen = gen
    <3>1. Head(queue) = queue[1] /\ 1 \in 1..Len(queue)
      BY <1>1, EmptySeq
    <3>. QED  BY <3>1 DEF IndInv, NoStalePrefetch
  <2>. QED  BY <1>1, <1>6, <2>1, <2>2, <2>3
<1>. QED  BY <1>1, <1>5, <1>6, <1>7, <1>8 DEF AtHead

(* Steps that leave the worker, the channel and its receiver alone, and    *)
(* take nothing new into a thread's hands.                                 *)
LEMMA StretchUntouched ==
    ASSUME StreamInv, UNCHANGED <<receiver, queue, held, frame, gen, batch>>, InHand' \subseteq InHand
    PROVE  StretchInv' /\ InHandInv' /\ AtHead' = AtHead
<1>1. AtHead' = AtHead /\ WorkerFrame' = WorkerFrame
  BY DEF AtHead, WorkerFrame
<1>2. StretchInv'
  BY <1>1 DEF StreamInv, StretchInv
<1>3. InHandInv'
  BY <1>1 DEF StreamInv, InHandInv
<1>. QED  BY <1>1, <1>2, <1>3

LEMMA NextKeepsStreamInv ==
    ASSUME OneDriver
    PROVE  IndInv /\ StreamInv /\ [Next]_vars => StreamInv'
<1> SUFFICES ASSUME IndInv, StreamInv, [Next]_vars  PROVE StreamInv'
  OBVIOUS
<1>0. DriverInv'
  BY NextKeepsDriverInv DEF StreamInv
<1>1. ASSUME NEW c \in Callers, NEW v \in {"idle", "recv", "drop", "join", "spawn"},
             pc' = pc \/ pc' = [pc EXCEPT ![c] = v]
      PROVE  InHand' \subseteq InHand
  BY <1>1 DEF InHand, IndInv, TypeOK
<1>2. ASSUME InHand' = {}, ~receiver'  PROVE StreamInv'
  BY <1>0, <1>2 DEF StreamInv, StretchInv, InHandInv
<1>3. CASE Worker
  <2>1. /\ receiver' = receiver /\ UNCHANGED <<pc, batch, gen>>
    BY <1>3
    DEF Worker, WorkerChecksStop, WorkerChecksActive, WorkerProduces, WorkerSends,
        WorkerChecksAfterSend, PreloadedAwaits, PreloadedChecksStop, PreloadedSends,
        HostUnchanged, callVars, histVars, chanVars
  <2>2. InHand' = InHand
    BY <2>1 DEF InHand
  <2>3. CASE receiver
    <3>1. StretchInv' /\ AtHead' = AtHead
      BY <1>3, <2>3, WorkerKeepsStretch DEF StreamInv
    <3>2. InHandInv'
      BY <2>1, <2>2, <3>1 DEF StreamInv, InHandInv
    <3>. QED  BY <1>0, <3>1, <3>2 DEF StreamInv
  <2>4. CASE ~receiver
    <3>1. InHand = {}
      BY <2>4 DEF StreamInv, InHandInv
    <3>. QED  BY <1>2, <2>1, <2>2, <2>4, <3>1
  <2>. QED  BY <2>3, <2>4
<1>4. ASSUME NEW c \in Callers, HostBegins(c)  PROVE StreamInv'
  <2>1. UNCHANGED <<receiver, queue, held, frame, gen, batch>>
    BY <1>4
    DEF HostBegins, RequestRefused, RequestBegins, SeekBegins, Start, StopStream, Subscribe,
        StartEvents, chanVars, workerVars, histVars, callVars
  <2>2. InHand' \subseteq InHand
    BY <1>1, <1>4
    DEF HostBegins, RequestRefused, RequestBegins, SeekBegins, Start, StopStream, Subscribe,
        StartEvents, callVars, Return
  <2>. QED  BY <1>0, <2>1, <2>2, StretchUntouched DEF StreamInv
<1>5. ASSUME NEW c \in Callers, RequestStep(c)  PROVE StreamInv'
  <2>1. CASE ReceiveMessage(c)
    BY <1>0, <2>1, ReceiveKeepsStretch DEF StreamInv
  <2>2. CASE ReceiveFails(c) \/ TakeSinks(c) \/ \E s \in Sinks : CallSink(c, s)
    <3>1. UNCHANGED <<receiver, queue, held, frame, gen, batch>>
      BY <2>2 DEF ReceiveFails, TakeSinks, CallSink, chanVars, workerVars, histVars, callVars
    <3>2. InHand' \subseteq InHand
      BY <1>1, <2>2
      DEF ReceiveFails, TakeSinks, CallSink, InHand, Return, callVars, IndInv, TypeOK
    <3>. QED  BY <1>0, <3>1, <3>2, StretchUntouched DEF StreamInv
  <2>3. CASE RestoreSinks(c)
    <3>1. UNCHANGED <<receiver, queue, held, frame, gen>>
      BY <2>3 DEF RestoreSinks, chanVars, workerVars, histVars
    <3>2. InHand' = {}
      <4>1. \A d \in Callers : d # c => pc[d] = "idle"
        BY <2>3, DriverIsAlone DEF RestoreSinks, StreamInv
      <4>. QED  BY <2>3, <4>1 DEF RestoreSinks, Return, InHand, IndInv, TypeOK
    <3>3. StretchInv'
      BY <3>1 DEF StreamInv, StretchInv, WorkerFrame
    <3>. QED  BY <1>0, <3>2, <3>3 DEF StreamInv, InHandInv
  <2>. QED  BY <1>5, <2>1, <2>2, <2>3 DEF RequestStep
<1>6. ASSUME NEW c \in Callers, SeekStep(c)  PROVE StreamInv'
  <2>1. InHand = {}
    <3>1. pc[c] \in {"drop", "join", "spawn"}
      BY <1>6 DEF SeekStep, SeekDropsReceiver, SeekJoins, SeekSpawns, SeekFails
    <3>2. \A d \in Callers : d # c => pc[d] = "idle"
      BY <3>1, DriverIsAlone DEF StreamInv
    <3>. QED  BY <3>1, <3>2 DEF InHand
  <2>2. InHand' = {}
    <3>1. InHand' \subseteq InHand
      BY <1>1, <1>6
      DEF SeekStep, SeekDropsReceiver, SeekJoins, SeekSpawns, SeekFails, Return
    <3>. QED  BY <2>1, <3>1
  <2>3. CASE SeekDropsReceiver(c)
    BY <1>2, <2>2, <2>3 DEF SeekDropsReceiver, DropReceiver
  <2>4. CASE SeekJoins(c) \/ SeekFails(c)
    <3>1. ~receiver'
      BY <2>4 DEF SeekJoins, SeekFails, chanVars, IndInv, WorkerInv
    <3>. QED  BY <1>2, <2>2, <3>1
  <2>5. CASE SeekSpawns(c)
    <3>1. queue' = <<>> /\ held'.kind = "None"
      BY <2>5 DEF SeekSpawns, IndInv, WorkerInv
    <3>2. Len(queue') = 0
      BY <3>1
    <3>3. StretchInv'
      BY <3>1, <3>2, SizesAssumption DEF StretchInv, Stretch
    <3>. QED  BY <1>0, <2>2, <3>3 DEF StreamInv, InHandInv
  <2>. QED  BY <1>6, <2>3, <2>4, <2>5 DEF SeekStep
<1>7. CASE DropBegins \/ DropStep
  <2>1. InHand = {} /\ UNCHANGED <<pc, batch, held, frame, gen>>
    BY <1>7
    DEF DropBegins, DropStep, DropDropsReceiver, DropJoins, InHand, IndInv, LockInv,
        callVars, workerVars, histVars
  <2>2. InHand' = {}
    BY <2>1 DEF InHand
  <2>3. CASE DropDropsReceiver
    BY <1>2, <2>2, <2>3 DEF DropDropsReceiver, DropReceiver
  <2>4. CASE DropBegins \/ DropJoins
    <3>1. UNCHANGED <<receiver, queue>>
      BY <2>4 DEF DropBegins, DropJoins, chanVars
    <3>. QED  BY <1>0, <2>1, <2>2, <3>1, StretchUntouched DEF StreamInv
  <2>. QED  BY <1>7, <2>3, <2>4 DEF DropStep
<1>8. CASE UNCHANGED vars
  <2>1. UNCHANGED <<receiver, queue, held, frame, gen, batch>> /\ InHand' = InHand
    BY <1>8 DEF vars, chanVars, workerVars, histVars, callVars, InHand
  <2>. QED  BY <1>0, <2>1, StretchUntouched DEF StreamInv
<1>. QED  BY <1>3, <1>4, <1>5, <1>6, <1>7, <1>8 DEF Next, Gone
LEMMA InitStreamInv == Init => StreamInv
<1> SUFFICES ASSUME Init  PROVE StreamInv
  OBVIOUS
<1>1. DriverInv /\ InHandInv
  BY DEF Init, DriverInv, InHandInv, InHand
<1>2. StretchInv
  <2>1. Len(queue) = 0
    BY DEF Init
  <2>. QED  BY <2>1, ConstantsType, SizesAssumption DEF Init, StretchInv, Stretch
<1>. QED  BY <1>1, <1>2 DEF StreamInv

LEMMA StreamInductive ==
    ASSUME OneDriver
    PROVE  Spec => [](IndInv /\ StreamInv)
<1>1. Init => IndInv /\ StreamInv
  BY InitIndInv, InitStreamInv
<1>2. (IndInv /\ StreamInv) /\ [Next]_vars => (IndInv /\ StreamInv)'
  BY NextKeepsIndInv, NextKeepsStreamInv
<1>. QED  BY <1>1, <1>2, PTL DEF Spec

(* Where the stream stands. *)
LEMMA PositionIs ==
    ASSUME OneDriver, DriverInv
    PROVE  /\ ~receiver => Position = Nowhere
           /\ receiver /\ InHand = {} => Position = AtHead
           /\ \A c \in InHand : receiver => Position = batch[c].frame
<1>1. ASSUME NEW c \in InHand, receiver  PROVE Position = batch[c].frame
  <2>1. \A d \in InHand : d = c
    BY DEF OneDriver, DriverInv, InHand
  <2>2. (CHOOSE d \in InHand : TRUE) = c
    BY <2>1
  <2>. QED  BY <1>1, <2>2 DEF Position
<1>. QED  BY <1>1 DEF Position, AtHead, WorkerFrame

(* The worker runs ahead by at most the channel, the message that waits    *)
(* for room and the batch in hand. Two drivers could each have one in hand.*)
THEOREM ReadAhead ==
    ASSUME OneDriver
    PROVE  Spec => []ReadAheadBounded
<1>1. IndInv /\ StreamInv => ReadAheadBounded
  <2> SUFFICES ASSUME IndInv, StreamInv, receiver
               PROVE  frame <= Position + PREFETCH_BATCHES + 1 + (IF InHand = {} THEN 0 ELSE 1)
    BY DEF ReadAheadBounded
  <2>1. /\ frame \in Nat /\ WorkerFrame \in Nat /\ frame <= WorkerFrame + 1
        /\ PREFETCH_BATCHES \in Nat \ {0}
    BY SizesAssumption
    DEF IndInv, TypeOK, StreamInv, StretchInv, WorkerFrame, Follows, Message, Frames
  <2>2. AtHead \in Nat /\ frame <= AtHead + PREFETCH_BATCHES + 1
    <3>1. CASE queue = <<>>
      BY <2>1, <3>1 DEF AtHead
    <3>2. CASE queue # <<>>
      <4>1. /\ queue \in Seq(Message) /\ Len(queue) \in Nat \ {0}
            /\ Head(queue) = queue[1] /\ queue[1] \in Message
        BY <3>2, EmptySeq, ElementOfSeq DEF IndInv, TypeOK
      <4>2. WorkerFrame <= queue[1].frame + (Len(queue) - 1) + 1 /\ Len(queue) <= PREFETCH_BATCHES
        BY <4>1 DEF StreamInv, StretchInv, Stretch
      <4>3. queue[1].frame \in Nat
        BY <4>1, SizesAssumption DEF Message, Frames
      <4>. QED  BY <2>1, <3>2, <4>1, <4>2, <4>3 DEF AtHead
    <3>. QED  BY <3>1, <3>2
  <2>3. CASE InHand = {}
    BY <2>1, <2>2, <2>3, PositionIs DEF StreamInv
  <2>4. ASSUME NEW c \in InHand
        PROVE  frame <= Position + PREFETCH_BATCHES + 1 + (IF InHand = {} THEN 0 ELSE 1)
    <3>1. Position = batch[c].frame /\ AtHead = batch[c].frame + 1
      BY <2>4, PositionIs DEF StreamInv, InHandInv, Follows
    <3>2. batch[c].frame \in Nat
      BY SizesAssumption DEF InHand, IndInv, TypeOK, Message, Frames
    <3>. QED  BY <2>1, <2>2, <2>4, <3>1, <3>2
  <2>. QED  BY <2>3, <2>4
<1>. QED  BY <1>1, StreamInductive, PTL

-----------------------------------------------------------------------------
(* The threads, the lock and the channel implement FrameDelivery.          *)


LEMMA InitRefines == Init => Abstract!Init
<1> SUFFICES ASSUME Init  PROVE Abstract!Init
  OBVIOUS
<1>1. InHand = {} /\ Delivering = FALSE
  BY DEF Init, InHand, Delivering
<1>2. Position = 0
  BY <1>1 DEF Init, Position, Nothing
<1>3. Owed = {} /\ Subscribed = {}
  BY DEF Init, Owed, Subscribed
<1>. QED  BY <1>1, <1>2, <1>3 DEF Init, Abstract!Init, Never, Abstract!Never

(* Nothing of what the host sees has moved. *)
Unseen == UNCHANGED Abstract!vars

LEMMA PositionStays ==
    ASSUME receiver' = receiver, InHand' = InHand, batch' = batch, receiver => AtHead' = AtHead
    PROVE  Position' = Position
BY DEF Position, AtHead, WorkerFrame

(* A thread that does not deliver goes somewhere else. *)
LEMMA ThreadMoves ==
    ASSUME IndInv, NEW c \in Callers, NEW v \in {"idle", "recv", "drop", "join", "spawn"},
           pc' = pc \/ pc' = [pc EXCEPT ![c] = v], pc[c] \notin {"take", "deliver"}
    PROVE  InHand' = InHand /\ Delivering' = Delivering
BY DEF IndInv, TypeOK, InHand, Delivering

LEMMA WorkerRefines ==
    ASSUME IndInv, StreamInv, Worker
    PROVE  Unseen
<1>1. receiver' = receiver /\ UNCHANGED <<pc, batch, gen, sinks, taken, todo, last>>
  BY DEF Worker, WorkerChecksStop, WorkerChecksActive, WorkerProduces, WorkerSends,
         WorkerChecksAfterSend, PreloadedAwaits, PreloadedChecksStop, PreloadedSends,
         HostUnchanged, callVars, histVars, chanVars, sinkVars
<1>2. Position' = Position
  BY <1>1, WorkerKeepsStretch, PositionStays DEF InHand, StreamInv
<1>. QED  BY <1>1, <1>2 DEF Unseen, Abstract!vars, Delivering, Owed, Subscribed

LEMMA HostBeginsRefines ==
    ASSUME IndInv, StreamInv, NEW c \in Callers, HostBegins(c)
    PROVE  Unseen \/ \E s \in Sinks : Abstract!Subscribe(s)
<1>1. UNCHANGED <<receiver, queue, held, frame, gen, batch, taken, todo, last>>
  BY DEF HostBegins, RequestRefused, RequestBegins, SeekBegins, Start, StopStream, Subscribe,
         StartEvents, chanVars, workerVars, histVars, callVars, sinkVars
<1>2. InHand' = InHand /\ Delivering' = Delivering
  BY ThreadMoves
  DEF HostBegins, RequestRefused, RequestBegins, SeekBegins, Start, StopStream, Subscribe,
      StartEvents, callVars, Return, Free
<1>3. Position' = Position
  BY <1>1, <1>2, PositionStays DEF AtHead, WorkerFrame
<1>4. Owed' = Owed
  BY <1>1 DEF Owed
<1>5. CASE sinks' = sinks
  BY <1>1, <1>2, <1>3, <1>4, <1>5 DEF Unseen, Abstract!vars, Subscribed
<1>6. ASSUME NEW s \in Sinks, sinks' = sinks \union {s}
      PROVE  Abstract!Subscribe(s)
  <2>1. Subscribed' = Subscribed \union {s}
    BY <1>1, <1>6 DEF Subscribed
  <2>. QED  BY <1>1, <1>2, <1>3, <1>4, <2>1 DEF Abstract!Subscribe
<1>. QED
  BY <1>5, <1>6
  DEF HostBegins, RequestRefused, RequestBegins, SeekBegins, Start, StopStream, Subscribe,
      StartEvents, sinkVars

(* A received batch stays where the stream stands; a frame that could not  *)
(* be decoded is skipped, unless the index had not moved.                  *)
LEMMA ReceiveRefines ==
    ASSUME OneDriver, IndInv, StreamInv, NEW c \in Callers, ReceiveMessage(c)
    PROVE  Unseen \/ Abstract!Skip
<1>1. /\ StretchInv' /\ InHandInv' /\ InHand = {} /\ DriverInv /\ DriverInv'
      /\ receiver' = receiver /\ receiver
      /\ AtHead = Head(queue).frame /\ Follows(Head(queue), AtHead')
  BY ReceiveKeepsStretch, NextKeepsDriverInv DEF StreamInv, Next, RequestStep
<1>2. Position = Head(queue).frame
  BY <1>1, PositionIs
<1>3. UNCHANGED <<gen, sinks, taken, todo, last>>
  BY DEF ReceiveMessage, sinkVars
<1>4. Delivering = FALSE /\ Delivering' = FALSE
  BY <1>1 DEF Delivering, InHand, ReceiveMessage, Return, IndInv, TypeOK
<1>5. Owed' = Owed /\ Subscribed' = Subscribed
  BY <1>3 DEF Owed, Subscribed
<1>6. CASE Head(queue).kind = "Events"
  <2>1. c \in InHand' /\ batch'[c] = Head(queue)
    BY <1>6 DEF ReceiveMessage, InHand, Return, IndInv, TypeOK
  <2>2. \A d \in InHand' : d = c
    BY <1>1 DEF InHand, ReceiveMessage, Return, IndInv, TypeOK
  <2>3. Position' = Head(queue).frame
    BY <1>1, <2>1, <2>2 DEF Position
  <2>. QED  BY <1>2, <1>3, <1>4, <1>5, <2>3 DEF Unseen, Abstract!vars
<1>7. CASE Head(queue).kind # "Events"
  <2>1. InHand' = {}
    BY <1>1, <1>7 DEF ReceiveMessage, InHand, Return, IndInv, TypeOK
  <2>2. Position' = AtHead'
    BY <1>1, <2>1 DEF Position, AtHead, WorkerFrame
  <2>3. CASE AtHead' = Head(queue).frame
    BY <1>2, <1>3, <1>4, <1>5, <2>2, <2>3 DEF Unseen, Abstract!vars
  <2>4. CASE AtHead' = Head(queue).frame + 1
    <3>1. queue' \in Seq(Message) /\ held' \in Message /\ frame' \in Frames
          /\ queue \in Seq(Message) /\ queue # <<>>
      BY DEF ReceiveMessage, IndInv, TypeOK, workerVars
    <3>2. Head(queue) \in Message /\ (queue' # <<>> => Head(queue') \in Message)
      BY <3>1, HeadTailProperties
    <3>3. AtHead' \in Frames /\ Head(queue).frame \in Frames
      BY <3>1, <3>2 DEF AtHead, WorkerFrame, Message
    <3>4. Position \in 0..NFrames - 1 /\ Position' = Position + 1
      BY <1>2, <2>2, <2>4, <3>3, SizesAssumption DEF Frames
    <3>. QED  BY <1>3, <1>4, <1>5, <3>4 DEF Abstract!Skip
  <2>. QED  BY <1>1, <1>7, <2>3, <2>4, SizesAssumption DEF Follows
<1>. QED  BY <1>6, <1>7
LEMMA RequestRefines ==
    ASSUME OneDriver, IndInv, StreamInv, NEW c \in Callers, RequestStep(c)
    PROVE  Unseen \/ [Abstract!Next]_(Abstract!vars)
<1>0. DriverInv /\ DriverInv' /\ InHandInv /\ pc[c] # "idle"
      /\ \A d \in Callers : d # c => pc[d] = "idle" /\ todo[d] = {}
  <2>1. pc[c] # "idle"
    BY DEF RequestStep, ReceiveMessage, ReceiveFails, TakeSinks, CallSink, RestoreSinks
  <2>. QED  BY <2>1, NextKeepsDriverInv, DriverIsAlone DEF StreamInv, Next
<1>1. /\ pc \in [Callers -> {"idle", "recv", "take", "deliver", "drop", "join", "spawn"}]
      /\ todo \in [Callers -> SUBSET Sinks] /\ taken \in [Callers -> SUBSET Sinks]
      /\ batch \in [Callers -> Message]
  BY DEF IndInv, TypeOK
<1>2. CASE ReceiveMessage(c)
  BY <1>2, ReceiveRefines DEF Abstract!Next
<1>3. CASE ReceiveFails(c)
  <2>1. UNCHANGED <<receiver, queue, held, frame, gen, batch, sinks, taken, todo, last>>
    BY <1>3 DEF ReceiveFails, chanVars, workerVars, sinkVars, histVars
  <2>2. InHand' = InHand /\ Delivering' = Delivering
    BY <1>3, ThreadMoves DEF ReceiveFails, Return
  <2>3. Position' = Position
    BY <2>1, <2>2, PositionStays DEF AtHead, WorkerFrame
  <2>. QED  BY <2>1, <2>2, <2>3 DEF Unseen, Abstract!vars, Owed, Subscribed
<1>4. CASE TakeSinks(c)
  <2>1. /\ UNCHANGED <<receiver, queue, held, frame, gen, batch, last>>
        /\ pc[c] = "take" /\ pc' = [pc EXCEPT ![c] = "deliver"]
        /\ sinks' = {} /\ todo' = [todo EXCEPT ![c] = sinks] /\ taken' = [taken EXCEPT ![c] = sinks]
    BY <1>4 DEF TakeSinks, chanVars, workerVars, histVars
  <2>2. c \in InHand /\ InHand' = InHand
    BY <1>0, <1>1, <2>1 DEF InHand
  <2>3. Delivering = FALSE /\ Delivering' = TRUE
    BY <1>0, <1>1, <2>1 DEF Delivering
  <2>4. Position' = Position
    BY <2>1, <2>2, PositionStays DEF AtHead, WorkerFrame
  <2>5. \A d \in Callers : taken[d] = {}
    BY <1>0, <2>1 DEF IndInv, SinkInv
  <2>6. Subscribed = sinks
    BY <2>5 DEF Subscribed
  <2>7. Subscribed' = sinks
    BY <1>1, <2>1, <2>5 DEF Subscribed
  <2>8. Owed' = sinks
    BY <1>0, <1>1, <2>1 DEF Owed
  <2>9. Position \in 0..NFrames - 1
    <3>1. /\ receiver /\ Position = batch[c].frame /\ AtHead = batch[c].frame + 1
          /\ batch[c].frame \in Frames
      BY <1>0, <1>1, <2>2, PositionIs DEF InHandInv, Follows, Message
    <3>2. AtHead \in Frames
      <4>1. queue \in Seq(Message) /\ held \in Message /\ frame \in Frames
        BY DEF IndInv, TypeOK
      <4>2. queue # <<>> => Head(queue) \in Message
        BY <4>1, HeadTailProperties
      <4>. QED  BY <4>1, <4>2 DEF AtHead, WorkerFrame, Message
    <3>. QED  BY <3>1, <3>2, SizesAssumption DEF Frames
  <2>10. Abstract!Publish
    BY <2>1, <2>3, <2>4, <2>6, <2>7, <2>8, <2>9 DEF Abstract!Publish
  <2>. QED  BY <2>10 DEF Abstract!Next
<1>5. ASSUME NEW s \in Sinks, CallSink(c, s)
      PROVE  Unseen \/ [Abstract!Next]_(Abstract!vars)
  <2>1. /\ UNCHANGED <<receiver, queue, held, frame, gen, batch, pc, sinks, taken>>
        /\ pc[c] = "deliver" /\ s \in todo[c] /\ todo' = [todo EXCEPT ![c] = @ \ {s}]
        /\ last' = [last EXCEPT ![s] = [gen |-> batch[c].gen, frame |-> batch[c].frame]]
    BY <1>5 DEF CallSink, chanVars, workerVars, histVars, callVars
  <2>2. Position' = Position /\ Delivering' = Delivering /\ Subscribed' = Subscribed
    BY <2>1, PositionStays DEF AtHead, WorkerFrame, InHand, Delivering, Subscribed
  <2>3. c \in InHand /\ batch[c].gen = gen /\ batch[c].frame = Position
    BY <1>0, <2>1, PositionIs DEF InHand, InHandInv
  <2>4. Owed = todo[c] /\ Owed' = todo[c] \ {s}
    BY <1>0, <1>1, <2>1 DEF Owed
  <2>5. Abstract!Call(s)
    BY <2>1, <2>2, <2>3, <2>4 DEF Abstract!Call
  <2>. QED  BY <2>5 DEF Abstract!Next
<1>6. CASE RestoreSinks(c)
  <2>1. /\ UNCHANGED <<receiver, queue, held, frame, gen, todo, last>>
        /\ pc[c] = "deliver" /\ todo[c] = {} /\ pc' = [pc EXCEPT ![c] = "idle"]
        /\ sinks' = sinks \union taken[c] /\ taken' = [taken EXCEPT ![c] = {}]
    BY <1>6 DEF RestoreSinks, Return, GiveSinksBack, chanVars, workerVars, histVars
  <2>2. c \in InHand /\ InHand' = {}
    BY <1>0, <1>1, <2>1 DEF InHand
  <2>3. Delivering = TRUE /\ Delivering' = FALSE
    BY <1>0, <1>1, <2>1 DEF Delivering
  <2>4. Owed = {} /\ Owed' = Owed
    BY <1>0, <2>1 DEF Owed
  <2>5. Subscribed' = Subscribed
    <3>1. \A d \in Callers : d # c => taken[d] = {}
      BY <1>0 DEF IndInv, SinkInv
    <3>2. Subscribed = sinks \union taken[c]
      BY <3>1 DEF Subscribed
    <3>3. \A d \in Callers : taken'[d] = {}
      BY <1>1, <2>1, <3>1
    <3>. QED  BY <2>1, <3>2, <3>3 DEF Subscribed
  <2>6. Position = batch[c].frame /\ AtHead = batch[c].frame + 1 /\ receiver
    BY <1>0, <2>2, PositionIs DEF InHandInv, Follows
  <2>7. AtHead' = AtHead
    BY <2>1 DEF AtHead, WorkerFrame
  <2>8. Position' = AtHead'
    BY <2>1, <2>2, <2>6 DEF Position, AtHead, WorkerFrame
  <2>9. Abstract!Complete
    BY <2>1, <2>3, <2>4, <2>5, <2>6, <2>7, <2>8 DEF Abstract!Complete
  <2>. QED  BY <2>9 DEF Abstract!Next
<1>. QED  BY <1>2, <1>3, <1>4, <1>5, <1>6 DEF RequestStep

LEMMA SeekRefines ==
    ASSUME OneDriver, IndInv, StreamInv, NEW c \in Callers, SeekStep(c)
    PROVE  Unseen \/ Abstract!Leave \/ \E f \in 0..NFrames : Abstract!Resume(f)
<1>1. /\ pc[c] \in {"drop", "join", "spawn"}
      /\ UNCHANGED <<batch, sinks, taken, todo, last>>
  BY DEF SeekStep, SeekDropsReceiver, SeekJoins, SeekSpawns, SeekFails, sinkVars, histVars
<1>2. InHand' = InHand /\ Delivering' = Delivering
  BY <1>1, ThreadMoves DEF SeekStep, SeekDropsReceiver, SeekJoins, SeekSpawns, SeekFails, Return
<1>3. InHand = {} /\ ~Delivering
  BY <1>1, DriverIsAlone DEF InHand, Delivering, StreamInv
<1>4. Owed' = Owed /\ Subscribed' = Subscribed
  BY <1>1 DEF Owed, Subscribed
<1>5. CASE SeekDropsReceiver(c)
  <2>1. Position' = Nowhere /\ gen' = gen + 1
    BY <1>5 DEF SeekDropsReceiver, DropReceiver, Position
  <2>. QED  BY <1>1, <1>2, <1>3, <1>4, <2>1 DEF Abstract!Leave
<1>6. CASE SeekJoins(c) \/ SeekFails(c)
  <2>1. UNCHANGED <<receiver, gen>> /\ ~receiver
    BY <1>6 DEF SeekJoins, SeekFails, chanVars, histVars, IndInv, WorkerInv
  <2>2. Position' = Position
    BY <2>1 DEF Position
  <2>. QED  BY <1>1, <1>2, <1>4, <2>1, <2>2 DEF Unseen, Abstract!vars
<1>7. CASE SeekSpawns(c)
  <2>1. ~receiver /\ queue' = <<>> /\ held'.kind = "None" /\ receiver' /\ gen' = gen
    BY <1>7 DEF SeekSpawns, IndInv, WorkerInv
  <2>2. Position = Nowhere /\ Position' = frame'
    BY <1>2, <1>3, <2>1 DEF Position
  <2>3. frame' \in 0..NFrames
    BY <1>7 DEF SeekSpawns, SeekTargets
  <2>4. Abstract!Resume(frame')
    BY <1>1, <1>2, <1>4, <2>1, <2>2 DEF Abstract!Resume
  <2>. QED  BY <2>3, <2>4
<1>. QED  BY <1>5, <1>6, <1>7 DEF SeekStep

LEMMA DropRefines ==
    ASSUME IndInv, DropBegins \/ DropStep
    PROVE  Unseen \/ Abstract!Leave
<1>1. /\ UNCHANGED <<pc, batch, held, frame, gen, sinks, taken, todo, last>>
      /\ \A d \in Callers : pc[d] = "idle"
  BY DEF DropBegins, DropStep, DropDropsReceiver, DropJoins, IndInv, LockInv,
         callVars, workerVars, histVars, sinkVars
<1>2. InHand' = InHand /\ Delivering' = Delivering /\ ~Delivering
  BY <1>1 DEF InHand, Delivering
<1>3. Owed' = Owed /\ Subscribed' = Subscribed
  BY <1>1 DEF Owed, Subscribed
<1>4. CASE DropDropsReceiver
  <2>1. Position' = Nowhere
    BY <1>4 DEF DropDropsReceiver, DropReceiver, Position
  <2>. QED  BY <1>1, <1>2, <1>3, <2>1 DEF Abstract!Leave
<1>5. CASE DropBegins \/ DropJoins
  <2>1. UNCHANGED <<receiver, queue>>
    BY <1>5 DEF DropBegins, DropJoins, chanVars
  <2>2. Position' = Position
    BY <1>1, <1>2, <2>1, PositionStays DEF AtHead, WorkerFrame
  <2>. QED  BY <1>1, <1>2, <1>3, <2>2 DEF Unseen, Abstract!vars
<1>. QED  BY <1>4, <1>5 DEF DropStep

(* With one driver every step of the threads is a step of FrameDelivery or *)
(* is not seen there: a delivery gives the frame the stream stands at to   *)
(* every subscribed sink, once, and only then moves the stream on by one.  *)
THEOREM ImplementsDelivery ==
    ASSUME OneDriver
    PROVE  Spec => ImplementsFrameDelivery
<1>1. IndInv /\ StreamInv /\ [Next]_vars => [Abstract!Next]_(Abstract!vars)
  <2> SUFFICES ASSUME IndInv, StreamInv, [Next]_vars
               PROVE  [Abstract!Next]_(Abstract!vars)
    OBVIOUS
  <2>1. Unseen => [Abstract!Next]_(Abstract!vars)
    BY DEF Unseen
  <2>2. CASE UNCHANGED vars
    <3>1. UNCHANGED <<receiver, queue, held, frame, gen, batch, pc, sinks, taken, todo, last>>
      BY <2>2 DEF vars, chanVars, workerVars, histVars, callVars, sinkVars
    <3>2. Unseen
      BY <3>1, PositionStays
      DEF Unseen, Abstract!vars, AtHead, WorkerFrame, InHand, Delivering, Owed, Subscribed
    <3>. QED  BY <2>1, <3>2
  <2>3. CASE Worker
    BY <2>1, <2>3, WorkerRefines
  <2>4. ASSUME NEW c \in Callers, HostBegins(c) \/ RequestStep(c) \/ SeekStep(c)
        PROVE  [Abstract!Next]_(Abstract!vars)
    BY <2>1, <2>4, HostBeginsRefines, RequestRefines, SeekRefines DEF Abstract!Next
  <2>5. CASE DropBegins \/ DropStep
    BY <2>1, <2>5, DropRefines DEF Abstract!Next
  <2>. QED  BY <2>2, <2>3, <2>4, <2>5 DEF Next, Gone
<1>. QED
  BY <1>1, InitRefines, StreamInductive, PTL DEF Spec, ImplementsFrameDelivery, Abstract!Spec
=============================================================================
