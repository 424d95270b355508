----------------------- MODULE MCChannelStoreAdapter -----------------------
(* ChannelStoreAdapter on small instances. *)
EXTENDS ChannelStoreAdapter, TLC

Symmetry == Permutations(Callers) \cup Permutations(Locks)
=============================================================================
