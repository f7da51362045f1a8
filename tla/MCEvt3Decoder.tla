--------------------------- MODULE MCEvt3Decoder ---------------------------
(* Evt3Decoder for TLC.                                                    *)
EXTENDS Evt3Decoder

=============================================================================
