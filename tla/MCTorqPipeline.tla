--------------------------- MODULE MCTorqPipeline ---------------------------
(* Functions of up to four steps and the store of a result, two slices as  *)
(* in HwInfo, NSS programs of three tasks.                                  *)
EXTENDS TorqPipeline
=============================================================================
