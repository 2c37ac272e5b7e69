----------------------------- MODULE MCLaikad -----------------------------
(* laikad on small pools for TLC.                                           *)
EXTENDS Laikad, TLC

Pool == Permutations(Workers)
PoolAndClients == Permutations(Workers) \cup Permutations(Clients)
===========================================================================
