---------------------- MODULE MCShardedFifoStealBuffer ----------------------
(* An instance of ShardedFifoStealBuffer for TLC. *)
EXTENDS ShardedFifoStealBuffer

=============================================================================
