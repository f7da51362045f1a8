-------------------------- MODULE MCVideoSimulator --------------------------
(* Four frames among packets of another stream, one of them first. *)
EXTENDS VideoSimulator
MCContainer == <<Other, 1, 2, Other, 3, 4>>
=============================================================================
