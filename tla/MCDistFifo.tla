----------------------------- MODULE MCDistFifo -----------------------------
(* An instance of DistFifo, and of MpmcLifo in it, for TLC. *)
EXTENDS DistFifo

=============================================================================
