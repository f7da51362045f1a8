------------------------ MODULE MCSimulatorPrefetch ------------------------
(* SimulatorPrefetch for TLC.  Callers and sinks are model values.  Sinks  *)
(* are interchangeable, but no symmetry is declared: it is not sound for   *)
(* the liveness property.                                                  *)
EXTENDS SimulatorPrefetch

=============================================================================
