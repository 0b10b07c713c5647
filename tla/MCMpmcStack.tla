---------------------------- MODULE MCMpmcStack ----------------------------
(* An instance of MpmcStack for TLC. *)
EXTENDS MpmcStack

=============================================================================
