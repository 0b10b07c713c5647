---------------------------- MODULE MCWorkQueue ----------------------------
(* Instances of WorkQueue for TLC; the cfg files give the constants. *)
EXTENDS WorkQueue

=============================================================================
