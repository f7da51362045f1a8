---------------------------- MODULE MCEvt3Source ----------------------------
(* Evt3Source for TLC: fields of a few values instead of 4096.             *)
EXTENDS Evt3Source

=============================================================================
