----------------------------- MODULE MCMpmcFifo -----------------------------
(* An instance of MpmcFifo for TLC. *)
EXTENDS MpmcFifo

CONSTANTS t1, t2

Two == <<t1, t2>>

=============================================================================
