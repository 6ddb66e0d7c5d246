--------------------------- MODULE TorqSemaphore ---------------------------
(***************************************************************************)
(* The timeline semaphores of the runtime's HAL driver                      *)
(* (runtime/driver/torq_semaphore.c) and the queue operations that use them *)
(* (queue_execute in torq_device.c).  Threads signal, fail and wait; every  *)
(* semaphore has a mutex, taken for one read or update at a time, and all   *)
(* waiters sleep on one notification shared by all semaphores.              *)
(*                                                                         *)
(* A thread runs one job: it waits for a list of <<semaphore, payload>>     *)
(* pairs, does its work, and signals a list of such pairs; or it fails a    *)
(* semaphore.  A critical section of a mutex is one step.                   *)
(***************************************************************************)
EXTENDS Integers, Sequences

CONSTANTS
  Semaphore, Thread,
  MaxPayload,    \* largest payload
  Job            \* what the threads may be asked to do

FailureValue == MaxPayload + 1   \* IREE_HAL_SEMAPHORE_FAILURE_VALUE

Pair == Semaphore \X (1 .. MaxPayload)

(* What a batch waits for and what it signals are two lists of the caller;  *)
(* fail() is a call of its own.                                             *)
ASSUME SemaphoreAssumption ==
  /\ MaxPayload \in Nat
  /\ \A job \in Job :
       /\ job.wait \in Seq(Pair) /\ job.signal \in Seq(Pair)
       /\ job.fail \subseteq Semaphore
       /\ job.fail # {} => job.wait = << >>
       /\ job.mode \in {"all", "any"}
       /\ job.timeout \in {"infinite", "immediate", "deadline"}
       /\ job.works \in BOOLEAN

VARIABLES
  current,   \* current_value of each semaphore
  failed,    \* semaphores whose failure_status is not OK
  job,       \* job[t]: the job of thread t
  pc,        \* pc[t]: where t is
  k,         \* k[t]: index into the list that t is going over
  seen,      \* seen[t]: what result_from_state has found so far
  posted,    \* posted[t]: the notification was posted since t's prepare_wait
  result     \* result[t]: the status of t's wait, then of its job

vars == <<current, failed, job, pc, k, seen, posted, result>>

Init ==
  /\ current = [s \in Semaphore |-> 0]
  /\ failed = {}
  /\ job \in [Thread -> Job]
  /\ pc = [t \in Thread |-> "begin"]
  /\ k = [t \in Thread |-> 1]
  /\ seen = [t \in Thread |-> {}]
  /\ posted = [t \in Thread |-> FALSE]
  /\ result = [t \in Thread |-> "none"]

(* The list that t waits for, its k-th semaphore and payload. *)
List(t) == job[t].wait
Sem(t) == List(t)[k[t]][1]
Payload(t) == List(t)[k[t]][2]

Goto(t, l) == pc' = [pc EXCEPT ![t] = l]
Index(t, n) == k' = [k EXCEPT ![t] = n]
Return(t, status) ==
  /\ Goto(t, "done")
  /\ result' = [result EXCEPT ![t] = status]
-----------------------------------------------------------------------------
(***************************************************************************)
(* multi_wait and wait: no list, a list of one (wait() with its fast paths  *)
(* under one lock), a poll, or a wait on the notification.                  *)
(***************************************************************************)
MultiWait(t) ==
  /\ pc[t] = "begin"
  /\ job[t].fail = {}
  /\ IF Len(List(t)) = 0 THEN
       /\ Goto(t, "work")
       /\ UNCHANGED result
     ELSE IF Len(List(t)) >= 2 THEN
       /\ Goto(t, IF job[t].timeout = "immediate" THEN "result" ELSE "check")
       /\ UNCHANGED result
     ELSE IF Sem(t) \in failed THEN
       Return(t, "ABORTED")
     ELSE IF current[Sem(t)] >= Payload(t) THEN
       /\ Goto(t, "work")
       /\ result' = [result EXCEPT ![t] = "OK"]
     ELSE IF job[t].timeout = "immediate" THEN
       Return(t, "DEADLINE_EXCEEDED")
     ELSE
       /\ Goto(t, "check")
       /\ UNCHANGED result
  /\ UNCHANGED <<current, failed, job, k, seen, posted>>

IsSignaled(t) == current[Sem(t)] >= Payload(t) \/ Sem(t) \in failed

(* is_signaled, any_signaled and all_signaled: the loop looks at one        *)
(* semaphore a step, and ends early with this outcome.                      *)
EndsEarly(t) == IF job[t].mode = "all" THEN ~IsSignaled(t) ELSE IsSignaled(t)

Checking(t) == pc[t] \in {"check", "recheck"}

(* The condition is not met: prepare to sleep, or sleep. *)
NotMet(t) == Goto(t, IF pc[t] = "check" THEN "prepare" ELSE "sleep")

CheckNext(t) ==
  /\ Checking(t)
  /\ k[t] <= Len(List(t))
  /\ ~EndsEarly(t)
  /\ Index(t, k[t] + 1)
  /\ UNCHANGED <<current, failed, job, pc, seen, posted, result>>

CheckEnds(t) ==
  /\ Checking(t)
  /\ k[t] <= Len(List(t)) => EndsEarly(t)
  /\ IF (k[t] > Len(List(t))) <=> (job[t].mode = "all")
       THEN Goto(t, "result") ELSE NotMet(t)
  /\ Index(t, 1)
  /\ UNCHANGED <<current, failed, job, seen, posted, result>>

(* Mutant: the condition is not looked at again after prepare_wait. *)
PrepareWaitAndSleep(t) ==
  /\ pc[t] = "prepare"
  /\ posted' = [posted EXCEPT ![t] = FALSE]
  /\ Goto(t, "sleep")
  /\ UNCHANGED <<current, failed, job, k, seen, result>>

(* iree_notification_await: prepare_wait, look again, commit_wait. *)
PrepareWait(t) ==
  /\ pc[t] = "prepare"
  /\ posted' = [posted EXCEPT ![t] = FALSE]
  /\ Goto(t, "recheck")
  /\ UNCHANGED <<current, failed, job, k, seen, result>>

Wake(t) ==
  /\ pc[t] = "sleep"
  /\ posted[t]
  /\ Goto(t, "prepare")
  /\ UNCHANGED <<current, failed, job, k, seen, posted, result>>

(* Only wait() passes its timeout on; multi_wait sleeps without one. *)
TimesOut(t) ==
  /\ pc[t] = "sleep"
  /\ job[t].timeout = "deadline"
  /\ Len(List(t)) = 1
  /\ Goto(t, "result")
  /\ UNCHANGED <<current, failed, job, k, seen, posted, result>>

(***************************************************************************)
(* result_from_state, and the last lines of wait(): every semaphore is      *)
(* looked at again, one at a time.                                          *)
(***************************************************************************)
ResultNext(t) ==
  /\ pc[t] = "result"
  /\ k[t] <= Len(List(t))
  /\ seen' = [seen EXCEPT ![t] = @ \cup
       {IF Sem(t) \in failed THEN "failed"
        ELSE IF current[Sem(t)] < Payload(t) THEN "unsignaled" ELSE "signaled"}]
  /\ Index(t, k[t] + 1)
  /\ UNCHANGED <<current, failed, job, pc, posted, result>>

\* Mutant: the wait mode is ignored.
ResultFromStateAny(t) ==
  IF "failed" \in seen[t] THEN "ABORTED"
  ELSE IF "signaled" \in seen[t] THEN "OK" ELSE "DEADLINE_EXCEEDED"

ResultFromState(t) ==
  IF "failed" \in seen[t] THEN "ABORTED"
  ELSE IF (IF job[t].mode = "all" THEN "unsignaled" \notin seen[t]
                                  ELSE "signaled" \in seen[t])
       THEN "OK" ELSE "DEADLINE_EXCEEDED"

ResultEnds(t) ==
  /\ pc[t] = "result"
  /\ k[t] > Len(List(t))
  /\ result' = [result EXCEPT ![t] = ResultFromState(t)]
  /\ Goto(t, IF ResultFromState(t) = "OK" THEN "work" ELSE "done")
  /\ Index(t, 1)
  /\ UNCHANGED <<current, failed, job, seen, posted>>
-----------------------------------------------------------------------------
(***************************************************************************)
(* queue_execute: the deferred command buffers are applied once the wait    *)
(* returned OK; an error is returned and signals nothing.                   *)
(***************************************************************************)
ApplyCommandBuffers(t) ==
  /\ pc[t] = "work"
  /\ Index(t, 1)
  /\ IF job[t].works
       THEN Goto(t, "signal") /\ UNCHANGED result
       ELSE Return(t, "INTERNAL")
  /\ UNCHANGED <<current, failed, job, seen, posted>>

(* signal_unsafe under the mutex of the k-th semaphore of the list. *)
SignalNext(t) ==
  LET s == job[t].signal[k[t]][1]
      v == job[t].signal[k[t]][2]
  IN /\ pc[t] = "signal"
     /\ k[t] <= Len(job[t].signal)
     /\ v > current[s]
     /\ current' = [current EXCEPT ![s] = v]
     /\ Index(t, k[t] + 1)
     /\ UNCHANGED <<failed, job, pc, seen, posted, result>>

(* The value would not increase: signal() returns, multi_signal() posts for *)
(* the semaphores it did signal.                                            *)
SignalOutOfRange(t) ==
  /\ pc[t] = "signal"
  /\ k[t] <= Len(job[t].signal)
  /\ job[t].signal[k[t]][2] <= current[job[t].signal[k[t]][1]]
  /\ result' = [result EXCEPT ![t] = "OUT_OF_RANGE"]
  /\ Goto(t, IF Len(job[t].signal) = 1 THEN "done" ELSE "post")
  /\ UNCHANGED <<current, failed, job, k, seen, posted>>

SignalEnds(t) ==
  /\ pc[t] = "signal"
  /\ k[t] > Len(job[t].signal)
  /\ Goto(t, IF Len(job[t].signal) = 0 THEN "done" ELSE "post")
  /\ UNCHANGED <<current, failed, job, k, seen, posted, result>>

(* iree_notification_post to all waiters. *)
Post(t) ==
  /\ pc[t] = "post"
  /\ posted' = [u \in Thread |-> TRUE]
  /\ Goto(t, "done")
  /\ UNCHANGED <<current, failed, job, k, seen, result>>

(* fail(): the first failure is kept. *)
Fail(t) ==
  /\ pc[t] = "begin"
  /\ \E s \in job[t].fail :
       IF s \in failed
         THEN Goto(t, "done") /\ UNCHANGED <<current, failed>>
         ELSE /\ current' = [current EXCEPT ![s] = FailureValue]
              /\ failed' = failed \cup {s}
              /\ Goto(t, "post")
  /\ UNCHANGED <<job, k, seen, posted, result>>

Step(t) ==
  \/ MultiWait(t)
  \/ CheckNext(t) \/ CheckEnds(t) \/ PrepareWait(t) \/ Wake(t)
  \/ ResultNext(t) \/ ResultEnds(t)
  \/ ApplyCommandBuffers(t)
  \/ SignalNext(t) \/ SignalOutOfRange(t) \/ SignalEnds(t) \/ Post(t) \/ Fail(t)

(* Every thread is done, or sleeps with nobody left to wake it. *)
Quiescent == \A t \in Thread : pc[t] = "done" \/ (pc[t] = "sleep" /\ ~posted[t])

Next ==
  \/ \E t \in Thread : Step(t) \/ TimesOut(t)
  \/ Quiescent /\ UNCHANGED vars

(* Every thread that can take a step is scheduled; a deadline need not pass *)
(* before the thread is woken.                                              *)
Spec == Init /\ [][Next]_vars /\ \A t \in Thread : WF_vars(Step(t))
-----------------------------------------------------------------------------
Reached(p) == current[p[1]] >= p[2]

(* A batch runs, and signals, only after every semaphore it waits for has   *)
(* reached its payload (or failed in the meantime), although the semaphores *)
(* are read one at a time, twice.                                           *)
WorkAfterWait ==
  \A t \in Thread :
    pc[t] \in {"work", "signal", "post"} /\ job[t].mode = "all" =>
      \A n \in 1 .. Len(List(t)) : Reached(List(t)[n])

(* No wakeup is lost: a thread all of whose semaphores have reached their   *)
(* payloads gets out of its wait, whatever it was doing when the            *)
(* notification was posted.                                                 *)
WaitReturns ==
  \A t \in Thread :
    (/\ pc[t] \in {"check", "prepare", "recheck", "sleep"}
     /\ \A n \in 1 .. Len(List(t)) : Reached(List(t)[n]))
      ~> pc[t] \notin {"check", "prepare", "recheck", "sleep"}
=============================================================================
