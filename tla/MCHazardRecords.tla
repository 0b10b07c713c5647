-------------------------- MODULE MCHazardRecords --------------------------
(* An instance of HazardRecords for TLC. *)
EXTENDS HazardRecords

\* Threads are interchangeable; nodes are not: a scan sorts their addresses.
Symmetry == Permutations(Threads)

=============================================================================
