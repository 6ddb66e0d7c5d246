--------------------------- MODULE MCTorqSession ---------------------------
(* Two threads, of one process or of two, run a small executable three      *)
(* times: a session whose lock was given away can meet another one, and a   *)
(* START can find the device busy.                                          *)
EXTENDS TorqSession, TLC

CONSTANTS t1, t2

TheLayouts == {t1 :> 1 @@ t2 :> 1, t1 :> 1 @@ t2 :> 2}

TheProgram == <<"copy", "start", "wait", "host">>
============================================================================
