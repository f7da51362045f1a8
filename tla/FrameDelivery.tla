--------------------------- MODULE FrameDelivery ---------------------------
(***************************************************************************)
(* What the video simulator plugin promises its host, with no thread, lock *)
(* or queue in sight.  A stream stands at a frame of the video.  A request *)
(* hands that frame to every sink subscribed when the delivery begins,     *)
(* each once, and moves the stream to the next frame; a frame that cannot  *)
(* be decoded is passed over and reported instead.  A seek takes the       *)
(* stream away and, when it succeeds, puts it down at another frame, in a  *)
(* new epoch.                                                              *)
(***************************************************************************)
EXTENDS Naturals

CONSTANTS Sinks,    \* event sinks a host may subscribe
          NFrames,  \* decodable frames of the video, numbered from 0
          Nowhere   \* position of a stream that is being moved, or is gone;
                    \* not in 0..NFrames (SimulatorPrefetch!SizesAssumption)

VARIABLES position,   \* frame the next delivery is about, or Nowhere
          delivering, \* a frame is being handed out
          owed,       \* sinks that have not been called with it yet
          subscribed, \* sinks the host subscribed
          epoch,      \* number of seeks begun
          last        \* what each sink was last called with

vars == <<position, delivering, owed, subscribed, epoch, last>>

Never == [gen |-> 0, frame |-> NFrames]

Init ==
    /\ position = 0
    /\ delivering = FALSE
    /\ owed = {}
    /\ subscribed = {}
    /\ epoch = 0
    /\ last = [s \in Sinks |-> Never]

Publish ==
    /\ ~delivering
    /\ position \in 0..NFrames - 1
    /\ delivering' = TRUE
    /\ owed' = subscribed
    /\ UNCHANGED <<position, subscribed, epoch, last>>

Call(s) ==
    /\ s \in owed
    /\ owed' = owed \ {s}
    /\ last' = [last EXCEPT ![s] = [gen |-> epoch, frame |-> position]]
    /\ UNCHANGED <<position, delivering, subscribed, epoch>>

Complete ==
    /\ delivering
    /\ owed = {}
    /\ delivering' = FALSE
    /\ position' = position + 1
    /\ UNCHANGED <<owed, subscribed, epoch, last>>

Skip ==
    /\ ~delivering
    /\ position \in 0..NFrames - 1
    /\ position' = position + 1
    /\ UNCHANGED <<delivering, owed, subscribed, epoch, last>>

Subscribe(s) ==
    /\ subscribed' = subscribed \union {s}
    /\ UNCHANGED <<position, delivering, owed, epoch, last>>

Leave ==
    /\ ~delivering
    /\ position' = Nowhere
    /\ epoch' \in {epoch, epoch + 1}
    /\ UNCHANGED <<delivering, owed, subscribed, last>>

Resume(f) ==
    /\ position = Nowhere
    /\ position' = f
    /\ UNCHANGED <<delivering, owed, subscribed, epoch, last>>

Next ==
    \/ Publish
    \/ \E s \in Sinks : Call(s)
    \/ Complete
    \/ Skip
    \/ \E s \in Sinks : Subscribe(s)
    \/ Leave
    \/ \E f \in 0..NFrames : Resume(f)

Spec == Init /\ [][Next]_vars

=============================================================================
