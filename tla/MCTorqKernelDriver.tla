------------------------ MODULE MCTorqKernelDriver ------------------------
(* The kernel driver on a few files, threads and networks. *)
EXTENDS TorqKernelDriver, TLC

CONSTANTS f1, f2, t1, t2, n1, n2, a1, d1, d2

(* Networks and data are interchangeable; threads and files too. *)
Symmetric == Permutations({t1, t2}) \cup Permutations({f1, f2})
               \cup Permutations({n1, n2}) \cup Permutations({d1, d2})

(* Without completions (MaxCompletions = 0) nothing the driver does depends *)
(* on the contents of LRAM, on STATUS or on the ghosts, and no property of  *)
(* MCDriverLocks is about them: states that differ in these only are one.   *)
Locks == <<files, powered, networks, locks, threads, job>>
===========================================================================
