--------------------------- MODULE MCEventWindow ---------------------------
(* EventWindow for TLC: the calls of the iterators, and the programs.      *)
EXTENDS EventWindow

CONSTANTS i1, i2

MCCalls == {[kind |-> "n", size |-> 2], [kind |-> "delta", size |-> 2]}

Program(iters, calls, kinds, times, late, ioErrors) ==
    [iters |-> iters, calls |-> calls, kinds |-> kinds, times |-> times, late |-> late,
     ioErrors |-> ioErrors]

(* Iterators of both modes; an iterator and seeks, with times that fall    *)
(* back; an iterator next to a reader that loads and searches, with reads  *)
(* that fail.                                                              *)
MCPrograms ==
    {Program({i1, i2}, {}, {"cd"}, {0, 2}, 0, FALSE),
     Program({i1, i2}, {"seek"}, {"cd"}, {0}, 0, FALSE),
     Program({i1}, {"seek"}, {"cd"}, {0, 2}, 2, FALSE),
     Program({i1}, {"load", "ext"}, {"cd", "ext"}, {0}, 0, TRUE),
     Program({i1}, {}, {"cd"}, {0, 2}, 0, TRUE)}

(* An asynchronous iterator, and a reader that feeds it.                   *)
MCFed == {Program({i2}, {"load"}, {"cd"}, {0, 1, 2}, 0, FALSE)}

(* A reader that searches triggers, next to an iterator of its thread.     *)
MCSearch == {Program({i1}, {"ext"}, {"cd", "ext"}, {0, 1, 2}, 0, FALSE)}

=============================================================================
