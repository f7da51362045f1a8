--------------------------- MODULE MCEventFilters ---------------------------
(* EventFilters for TLC: chains, the pixels they see, and times.           *)
EXTENDS EventFilters

Setup(mode, chain, pixels, length, steps, ageing) ==
    [mode |-> mode, chain |-> chain, pixels |-> pixels, length |-> length, steps |-> steps,
     decays |-> ageing]

Single == {<<0, 0>>}
Diagonal == {<<0, 0>>, <<1, 1>>}
Row == {<<0, 0>>, <<1, 0>>, <<2, 0>>}
Late == {-1, 0, 1, 3}
Forward == {0, 1, 3}

(* Enough events to fill the sample ring and go round it once; to have a   *)
(* trail cut and the cut lifted; to have a neighbour in a row and out of   *)
(* reach.                                                                  *)
MCSetups ==
    {Setup("pipeline", <<"trail">>, Single, 5, Late, 0),
     Setup("pipeline", <<"contrast">>, Single, 5, Late, 0),
     Setup("pipeline", <<"flicker">>, Single, 6, {-1, 1, 2}, 0),
     Setup("pipeline", <<"noise">>, Row, 3, Late, 0),
     Setup("pipeline", <<"polarity", "trail">>, Diagonal, 3, Forward, 0),
     Setup("pipeline", <<"roi", "noise">>, Diagonal, 3, Forward, 0),
     Setup("pipeline", <<>>, Single, 3, Late, 2),
     Setup("calls", <<"noise", "contrast">>, Single, 4, {1, 3}, 0),
     Setup("calls", <<"flicker">>, Single, 5, {1}, 0)}

MCFirstTimes == {0, 1}
=============================================================================
