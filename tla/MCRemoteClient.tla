---------------------------- MODULE MCRemoteClient ----------------------------
(* RemoteClient for TLC.  Goroutines and bags are interchangeable; the     *)
(* torrents are not, for CreateTorrent takes them in TLC's order.          *)
EXTENDS RemoteClient, TLC

Symmetry == Permutations(Procs) \cup Permutations(Bags)

(* What was done to a torrent nobody refers to makes no difference:        *)
(* NewTorrent resets it before it is used again.                           *)
View ==
  <<pc, bag, held, lock, store, cache, age,
    [t \in Torrents |-> IF t \in Unused THEN <<>> ELSE <<run[t], dl[t], tbag[t]>>]>>
=============================================================================
