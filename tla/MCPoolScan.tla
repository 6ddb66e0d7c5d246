----------------------------- MODULE MCPoolScan -----------------------------
(* Instances of PoolScan for TLC. *)
EXTENDS PoolScan, TLC

CONSTANTS a, b, c, d

MCValue == {a, b, c, d}

(* In words of 2 bytes: small buffers of 1 and 2 words, large ones of 2 and *)
(* 3 words.                                                                 *)
MCValueBytes == a :> 1 @@ b :> 3 @@ c :> 4 @@ d :> 6
=============================================================================
