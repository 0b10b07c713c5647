------------------------- MODULE MCFifoStealBuffer -------------------------
(* Instances of FifoStealBuffer for TLC; the cfg files give the constants. *)
EXTENDS FifoStealBuffer

=============================================================================
