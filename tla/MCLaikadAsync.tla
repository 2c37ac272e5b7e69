--------------------------- MODULE MCLaikadAsync --------------------------
(* laikad with asynchronous clients, on small pools for TLC.                *)
EXTENDS LaikadAsync, TLC

Pool == Permutations(Workers)
===========================================================================
