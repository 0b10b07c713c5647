------------------------- MODULE MCMpscRelaxedFifo -------------------------
(* An instance of MpscRelaxedFifo, and of SpscFifo in it, for TLC. *)
EXTENDS MpscRelaxedFifo

=============================================================================
