--------------------------- MODULE MCPluginReader ---------------------------
EXTENDS PluginReader

E(n, t) == [n |-> n, t |-> t]

(* File a: a read with two batches, one with a trigger and no CD events,   *)
(* one with two events of a later window.  File b: a single read.          *)
MCReads(p) ==
    IF p = "a" THEN <<[cd |-> <<<<E(1, 0), E(2, 1)>>, <<E(3, 1)>>>>, ext |-> <<>>],
                      [cd |-> <<>>, ext |-> <<<<E(4, 2)>>>>],
                      [cd |-> <<<<E(5, 2), E(6, 5)>>>>, ext |-> <<<<E(7, 5)>>>>]>>
    ELSE <<[cd |-> <<<<E(1, 3)>>>>, ext |-> <<<<E(2, 3)>>>>]>>

=============================================================================
