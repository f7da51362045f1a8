-------------------------- MODULE MCTimestampIndex --------------------------
EXTENDS TimestampIndex

(* Files of five words: time words, rows and events, half of a sixth word  *)
(* in every other one.  At least two events, so that there is a time to    *)
(* seek to.                                                                *)
MCWords ==
    {[kind |-> "low", v |-> 1], [kind |-> "high", v |-> 2], [kind |-> "high", v |-> 0],
     [kind |-> "row", v |-> 0], [kind |-> "x", v |-> 0], [kind |-> "far", v |-> 0],
     [kind |-> "ext", v |-> 0]}

MCFiles ==
    {[words |-> f, trailing |-> k] : k \in 0..1,
        f \in {g \in [1..5 -> MCWords] :
                 /\ Cardinality({i \in 1..5 : g[i].kind \in {"x", "ext"}}) >= 2
                 /\ Cardinality({i \in 1..5 : g[i].kind \in {"low", "high"}}) >= 1
                 /\ \A i \in 1..4 : ~(g[i].kind = "row" /\ g[i + 1].kind \in {"row", "low", "high"})
                 /\ \A i \in 1..4 : g[i] # g[i + 1]}}

=============================================================================
