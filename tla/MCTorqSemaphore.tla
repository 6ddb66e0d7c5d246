-------------------------- MODULE MCTorqSemaphore --------------------------
(* Instances of TorqSemaphore for TLC. *)
EXTENDS TorqSemaphore

CONSTANTS s1, s2, t1, t2, t3

Batch(w, s) == [wait |-> w, signal |-> s, fail |-> {}, mode |-> "all",
                timeout |-> "infinite", works |-> TRUE]

(* Batches that wait for both semaphores, in a chain and in two orders;     *)
(* plain signals, one of them of both semaphores; a batch whose work fails; *)
(* waits for any semaphore, with a deadline, and polls; and a failure.      *)
MCJob ==
  { Batch(<< <<s1, 1>>, <<s2, 1>> >>, << <<s1, 2>> >>),
    Batch(<< <<s2, 1>>, <<s1, 2>> >>, << >>),
    Batch(<< <<s1, 1>> >>, << <<s2, 1>> >>),
    Batch(<< >>, << <<s1, 1>> >>),
    Batch(<< >>, << <<s2, 1>>, <<s1, 1>> >>),
    [Batch(<< >>, << <<s1, 2>> >>) EXCEPT !.works = FALSE],
    [Batch(<< <<s1, 1>>, <<s2, 1>> >>, << >>) EXCEPT !.mode = "any"],
    [Batch(<< <<s1, 1>> >>, << >>) EXCEPT !.timeout = "deadline"],
    [Batch(<< <<s1, 1>>, <<s2, 1>> >>, << >>) EXCEPT !.timeout = "immediate"],
    [Batch(<< <<s2, 1>> >>, << >>) EXCEPT !.timeout = "immediate"],
    [Batch(<< >>, << >>) EXCEPT !.fail = {s2}] }
=============================================================================
