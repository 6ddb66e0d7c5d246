------------------------- MODULE TorqSemaphoreProofs -------------------------
(***************************************************************************)
(* Proofs about TorqSemaphore, for any number of semaphores and threads,    *)
(* wait lists of any length and any payloads.                               *)
(***************************************************************************)
EXTENDS TorqSemaphore, TLAPS

Place == {"begin", "check", "recheck", "prepare", "sleep", "result", "work", "signal",
          "post", "done"}

TypeInv ==
  /\ current \in [Semaphore -> 0 .. FailureValue]
  /\ failed \subseteq Semaphore
  /\ job \in [Thread -> Job]
  /\ pc \in [Thread -> Place]
  /\ k \in [Thread -> Nat \ {0}]
  /\ seen \in [Thread -> SUBSET {"failed", "unsignaled", "signaled"}]

(* The first n semaphores of the list of t have reached their payloads.     *)
ReachedTo(t, n) == \A m \in 1 .. Len(List(t)) : m <= n => Reached(List(t)[m])

(* What a wait has found out.  The list is gone over from its start         *)
(* whenever a wait begins, sleeps or looks at the result.                   *)
WaitInv(t) ==
  /\ pc[t] \in {"begin", "prepare", "sleep"} => k[t] = 1
  /\ pc[t] = "result" /\ seen[t] \subseteq {"signaled"} => ReachedTo(t, k[t] - 1)
  /\ pc[t] \in {"work", "signal", "post"} /\ job[t].mode = "all" => ReachedTo(t, Len(List(t)))

SemaphoreInv == TypeInv /\ \A t \in Thread : WaitInv(t)
-----------------------------------------------------------------------------
LEMMA Lists ==
  ASSUME TypeInv, NEW t \in Thread
  PROVE  /\ List(t) \in Seq(Pair) /\ Len(List(t)) \in Nat
         /\ \A n \in 1 .. Len(List(t)) :
              List(t)[n][1] \in Semaphore /\ List(t)[n][2] \in 1 .. MaxPayload
         /\ job[t].signal \in Seq(Pair)
         /\ \A n \in 1 .. Len(job[t].signal) :
              /\ job[t].signal[n][1] \in Semaphore
              /\ job[t].signal[n][2] \in 1 .. MaxPayload
         /\ job[t].fail \subseteq Semaphore
         /\ job[t].fail # {} => Len(List(t)) = 0
PROOF
<1>1. job[t] \in Job
  BY DEF TypeInv
<1>2. ASSUME NEW s \in Seq(Pair), NEW n \in 1 .. Len(s)
      PROVE  s[n][1] \in Semaphore /\ s[n][2] \in 1 .. MaxPayload
  <2>1. s[n] \in Pair
    OBVIOUS
  <2> QED BY <2>1 DEF Pair
<1>3. /\ job[t].wait \in Seq(Pair) /\ job[t].signal \in Seq(Pair)
      /\ job[t].fail \subseteq Semaphore /\ (job[t].fail # {} => job[t].wait = << >>)
  BY <1>1, SemaphoreAssumption
<1> QED BY <1>2, <1>3 DEF List

(* The timeline of a semaphore never goes back: signal() refuses a value    *)
(* that is not larger, and fail() sets the largest of all.                  *)
LEMMA TimelineAdvances ==
  ASSUME SemaphoreInv, NEW t \in Thread, Step(t) \/ TimesOut(t)
  PROVE  /\ current' \in [Semaphore -> 0 .. FailureValue] /\ failed' \subseteq Semaphore
         /\ \A s \in Semaphore : current'[s] >= current[s]
PROOF
<1> USE SemaphoreAssumption DEF FailureValue
<1>1. TypeInv
  BY DEF SemaphoreInv
<1>2. CASE UNCHANGED <<current, failed>>
  BY <1>1, <1>2 DEF TypeInv
<1>3. CASE SignalNext(t)
  <2>1. PICK s \in Semaphore, v \in 1 .. MaxPayload :
          v > current[s] /\ current' = [current EXCEPT ![s] = v] /\ UNCHANGED failed
    <3>1. k[t] \in 1 .. Len(job[t].signal)
      BY <1>1, <1>3, Lists DEF TypeInv, SignalNext
    <3> QED BY <1>1, <1>3, <3>1, Lists DEF SignalNext
  <2> QED BY <1>1, <2>1 DEF TypeInv
<1>4. CASE Fail(t)
  <2>1. PICK s \in Semaphore :
          \/ UNCHANGED <<current, failed>>
          \/ /\ current' = [current EXCEPT ![s] = FailureValue]
             /\ failed' = failed \cup {s}
    BY <1>1, <1>4, Lists DEF Fail
  <2>2. CASE UNCHANGED <<current, failed>>
    BY <1>2, <2>2
  <2>3. CASE current' = [current EXCEPT ![s] = FailureValue] /\ failed' = failed \cup {s}
    <3>1. FailureValue \in 0 .. FailureValue
      OBVIOUS
    <3>2. current' \in [Semaphore -> 0 .. FailureValue] /\ failed' \subseteq Semaphore
      BY <1>1, <2>3, <3>1 DEF TypeInv
    <3>3. \A u \in Semaphore : current'[u] >= current[u]
      BY <1>1, <2>3 DEF TypeInv
    <3> QED BY <3>2, <3>3
  <2> QED BY <2>1, <2>2, <2>3
<1>5. Step(t) \/ TimesOut(t) => UNCHANGED <<current, failed>> \/ SignalNext(t) \/ Fail(t)
  BY DEF Step, TimesOut, MultiWait, CheckNext, CheckEnds, PrepareWait, Wake, ResultNext,
         ResultEnds, ApplyCommandBuffers, SignalOutOfRange, SignalEnds, Post
<1> QED BY <1>2, <1>3, <1>4, <1>5

(* So what a thread has found once stays true.                              *)
LEMMA ReachedStays ==
  ASSUME TypeInv, NEW t \in Thread, NEW n \in Nat, ReachedTo(t, n), UNCHANGED job,
         current' \in [Semaphore -> 0 .. FailureValue],
         \A s \in Semaphore : current'[s] >= current[s]
  PROVE  ReachedTo(t, n)'
PROOF
<1>1. MaxPayload \in Nat
  BY SemaphoreAssumption
<1>2. ASSUME NEW m \in 1 .. Len(List(t)), m <= n
      PROVE  Reached(List(t)[m])'
  <2>1. PICK s \in Semaphore, v \in 1 .. MaxPayload :
          s = List(t)[m][1] /\ v = List(t)[m][2]
    BY Lists
  <2>2. current[s] >= v
    BY <1>2, <2>1 DEF ReachedTo, Reached
  <2>3. current'[s] >= v
    BY <1>1, <2>1, <2>2 DEF TypeInv, FailureValue
  <2> QED BY <2>1, <2>3 DEF Reached, List
<1> QED BY <1>2 DEF ReachedTo, List

(* What a step of a thread leaves alone: the places of all others, and the  *)
(* jobs.                                                                    *)
OnlyMoves(t) ==
  /\ TypeInv' /\ UNCHANGED job
  /\ \A u \in Thread \ {t} : pc'[u] = pc[u] /\ k'[u] = k[u] /\ seen'[u] = seen[u]

LEMMA OthersKeep ==
  ASSUME SemaphoreInv, NEW t \in Thread, Step(t) \/ TimesOut(t), OnlyMoves(t), WaitInv(t)'
  PROVE  SemaphoreInv'
PROOF
<1>1. TypeInv /\ \A u \in Thread : WaitInv(u)
  BY DEF SemaphoreInv
<1>2. ASSUME NEW u \in Thread \ {t}
      PROVE  WaitInv(u)'
  <2>1. /\ pc'[u] = pc[u] /\ k'[u] = k[u] /\ seen'[u] = seen[u] /\ List(u)' = List(u)
        /\ job'[u] = job[u] /\ k[u] - 1 \in Nat /\ Len(List(u)) \in Nat
    BY <1>1, Lists DEF OnlyMoves, TypeInv, List
  <2>2. pc[u] = "result" /\ seen[u] \subseteq {"signaled"} => ReachedTo(u, k[u] - 1)'
    BY <1>1, <2>1, ReachedStays, TimelineAdvances DEF WaitInv, OnlyMoves
  <2>3. pc[u] \in {"work", "signal", "post"} /\ job[u].mode = "all" =>
          ReachedTo(u, Len(List(u)))'
    BY <1>1, <2>1, ReachedStays, TimelineAdvances DEF WaitInv, OnlyMoves
  <2> QED BY <1>1, <2>1, <2>2, <2>3 DEF WaitInv, ReachedTo
<1> QED BY <1>2 DEF SemaphoreInv, OnlyMoves

(* Beginning a wait: the fast paths of wait() look at a list of one.        *)
LEMMA WaitStep ==
  ASSUME SemaphoreInv, NEW t \in Thread,
         \/ MultiWait(t) \/ CheckNext(t) \/ CheckEnds(t) \/ PrepareWait(t) \/ Wake(t)
         \/ TimesOut(t)
  PROVE  OnlyMoves(t) /\ WaitInv(t)'
PROOF
<1>1. TypeInv /\ WaitInv(t) /\ Len(List(t)) \in Nat
  BY Lists DEF SemaphoreInv
<1>2. /\ UNCHANGED <<current, failed, job, seen>>
      /\ \E l \in {"work", "check", "recheck", "prepare", "sleep", "result", "done"} : Goto(t, l)
         \/ UNCHANGED pc
      /\ k' = k \/ \E n \in {1, k[t] + 1} : Index(t, n)
  BY DEF MultiWait, CheckNext, CheckEnds, PrepareWait, Wake, TimesOut, Return, NotMet
<1>3. OnlyMoves(t)
  BY <1>1, <1>2 DEF OnlyMoves, TypeInv, Goto, Index, Place
<1>4. CASE MultiWait(t)
  <2>1. pc[t] = "begin" /\ k[t] = 1 /\ k' = k
    BY <1>1, <1>4 DEF MultiWait, WaitInv
  <2>2. CASE pc'[t] = "work"
    <3>1. \/ Len(List(t)) = 0
          \/ Len(List(t)) = 1 /\ current[Sem(t)] >= Payload(t)
      <4>1. CASE Len(List(t)) >= 2
        BY <1>1, <1>4, <2>2, <4>1 DEF MultiWait, Goto, TypeInv
      <4>2. CASE Len(List(t)) = 1
        BY <1>1, <1>4, <2>2, <4>2 DEF MultiWait, Goto, Return, TypeInv
      <4>3. \A n \in Nat : n = 0 \/ n = 1 \/ n >= 2
        OBVIOUS
      <4> QED BY <1>1, <4>1, <4>2, <4>3
    <3>2. ReachedTo(t, Len(List(t)))
      BY <1>1, <2>1, <3>1 DEF ReachedTo, Reached, Sem, Payload
    <3> QED BY <1>1, <1>2, <1>3, <2>2, <3>2 DEF WaitInv, ReachedTo, Reached, List
  <2>3. CASE pc'[t] \in {"result", "check", "done"}
    BY <1>1, <1>2, <1>3, <2>1, <2>3 DEF WaitInv, ReachedTo, Reached, List
  <2>4. pc'[t] \in {"work", "result", "check", "done"}
    BY <1>1, <1>4 DEF MultiWait, Goto, Return, TypeInv
  <2> QED BY <2>2, <2>3, <2>4
<1>5. CASE CheckNext(t)
  BY <1>1, <1>3, <1>5 DEF CheckNext, Checking, WaitInv
<1>6. CASE CheckEnds(t)
  <2>1. k'[t] = 1 /\ pc'[t] \in {"result", "prepare", "sleep"}
    BY <1>1, <1>6 DEF CheckEnds, Index, Goto, NotMet, TypeInv
  <2> QED BY <1>1, <1>3, <2>1 DEF WaitInv, ReachedTo, Reached, List
<1>7. CASE PrepareWait(t) \/ Wake(t) \/ TimesOut(t)
  <2>1. k'[t] = 1 /\ pc'[t] \in {"recheck", "prepare", "result"}
    BY <1>1, <1>7 DEF PrepareWait, Wake, TimesOut, Goto, TypeInv, WaitInv
  <2> QED BY <1>1, <1>3, <2>1 DEF WaitInv, ReachedTo, Reached, List
<1> QED BY <1>3, <1>4, <1>5, <1>6, <1>7

(* result_from_state: the semaphores are looked at one by one, and "all" is *)
(* granted if every one of them had reached its payload.                    *)
LEMMA ResultStep ==
  ASSUME SemaphoreInv, NEW t \in Thread, ResultNext(t) \/ ResultEnds(t)
  PROVE  OnlyMoves(t) /\ WaitInv(t)'
PROOF
<1>1. TypeInv /\ WaitInv(t) /\ Len(List(t)) \in Nat /\ k[t] \in Nat \ {0}
  BY Lists DEF SemaphoreInv, TypeInv
<1>2. CASE ResultNext(t)
  <2> DEFINE found == IF Sem(t) \in failed THEN "failed"
                      ELSE IF current[Sem(t)] < Payload(t) THEN "unsignaled" ELSE "signaled"
  <2>1. /\ pc[t] = "result" /\ k[t] <= Len(List(t)) /\ Index(t, k[t] + 1)
        /\ seen' = [seen EXCEPT ![t] = @ \cup {found}]
        /\ UNCHANGED <<current, failed, job, pc>>
    BY <1>2 DEF ResultNext
  <2>2. OnlyMoves(t) /\ seen'[t] = seen[t] \cup {found} /\ k'[t] = k[t] + 1
    BY <1>1, <2>1 DEF OnlyMoves, TypeInv, Index
  <2>3. ASSUME seen'[t] \subseteq {"signaled"}
        PROVE  ReachedTo(t, k[t])
    <3>1. ReachedTo(t, k[t] - 1)
      BY <1>1, <2>1, <2>2, <2>3 DEF WaitInv
    <3>2. ~(current[Sem(t)] < Payload(t))
      BY <2>2, <2>3
    <3>3. Sem(t) \in Semaphore /\ Payload(t) \in Nat /\ current[Sem(t)] \in Nat
      BY <1>1, <2>1, Lists, SemaphoreAssumption DEF Sem, Payload, TypeInv, FailureValue
    <3>4. Reached(List(t)[k[t]])
      BY <3>2, <3>3 DEF Reached, Sem, Payload
    <3> QED BY <1>1, <3>1, <3>4 DEF ReachedTo
  <2>4. seen'[t] \subseteq {"signaled"} => ReachedTo(t, k[t] - 1)'
    BY <1>1, <2>1, <2>2, <2>3 DEF ReachedTo, Reached, List
  <2> QED BY <2>1, <2>2, <2>4 DEF WaitInv
<1>3. CASE ResultEnds(t)
  <2>1. /\ pc[t] = "result" /\ k[t] > Len(List(t)) /\ Index(t, 1)
        /\ Goto(t, IF ResultFromState(t) = "OK" THEN "work" ELSE "done")
        /\ UNCHANGED <<current, failed, job, seen>>
    BY <1>3 DEF ResultEnds
  <2>2. OnlyMoves(t)
    BY <1>1, <2>1 DEF OnlyMoves, TypeInv, Index, Goto, Place
  <2>3. /\ pc'[t] \in {"work", "done"}
        /\ pc'[t] = "work" => ResultFromState(t) = "OK"
    BY <1>1, <2>1 DEF Goto, TypeInv
  <2>4. ASSUME pc'[t] = "work", job[t].mode = "all"
        PROVE  ReachedTo(t, Len(List(t)))
    <3>1. "failed" \notin seen[t] /\ "unsignaled" \notin seen[t]
      BY <2>3, <2>4 DEF ResultFromState
    <3>2. seen[t] \subseteq {"signaled"}
      BY <1>1, <3>1 DEF TypeInv
    <3> QED BY <1>1, <2>1, <3>2 DEF WaitInv, ReachedTo, Reached, List
  <2> QED BY <2>1, <2>2, <2>3, <2>4 DEF WaitInv, ReachedTo, Reached, List
<1> QED BY <1>2, <1>3

(* The work, the signals and the notification; fail().                      *)
LEMMA WorkStep ==
  ASSUME SemaphoreInv, NEW t \in Thread,
         \/ ApplyCommandBuffers(t) \/ SignalNext(t) \/ SignalOutOfRange(t) \/ SignalEnds(t)
         \/ Post(t) \/ Fail(t)
  PROVE  OnlyMoves(t) /\ WaitInv(t)'
PROOF
<1>1. TypeInv /\ WaitInv(t) /\ Len(List(t)) \in Nat /\ k[t] \in Nat \ {0}
  BY Lists DEF SemaphoreInv, TypeInv
<1>2. /\ UNCHANGED <<job, seen>>
      /\ \E l \in {"signal", "post", "done"} : Goto(t, l)
         \/ UNCHANGED pc
      /\ k' = k \/ \E n \in {1, k[t] + 1} : Index(t, n)
  BY DEF ApplyCommandBuffers, SignalNext, SignalOutOfRange, SignalEnds, Post, Fail, Return
<1>3. /\ current' \in [Semaphore -> 0 .. FailureValue] /\ failed' \subseteq Semaphore
      /\ \A s \in Semaphore : current'[s] >= current[s]
  BY TimelineAdvances DEF Step
<1>4. OnlyMoves(t)
  <2>1. pc' \in [Thread -> Place] /\ \A u \in Thread \ {t} : pc'[u] = pc[u]
    BY <1>1, <1>2 DEF TypeInv, Goto, Place
  <2>2. k' \in [Thread -> Nat \ {0}] /\ \A u \in Thread \ {t} : k'[u] = k[u]
    BY <1>1, <1>2 DEF TypeInv, Index
  <2> QED BY <1>1, <1>2, <1>3, <2>1, <2>2 DEF OnlyMoves, TypeInv
<1>5. /\ pc'[t] \in {"signal", "post", "done"} \/ pc'[t] = pc[t]
      /\ List(t)' = List(t) /\ job'[t] = job[t]
  BY <1>1, <1>2 DEF Goto, TypeInv, List
<1>6. CASE Fail(t)
  <2>1. job[t].fail # {} /\ pc'[t] \in {"post", "done"}
    BY <1>1, <1>6 DEF Fail, Goto, TypeInv
  <2>2. Len(List(t)) = 0
    BY <1>1, <2>1, Lists
  <2> QED BY <1>4, <1>5, <2>1, <2>2 DEF WaitInv, ReachedTo, Reached, List
<1>7. CASE ~Fail(t)
  <2>1. pc[t] \in {"work", "signal", "post"}
    BY <1>7 DEF ApplyCommandBuffers, SignalNext, SignalOutOfRange, SignalEnds, Post
  <2>2. job[t].mode = "all" => ReachedTo(t, Len(List(t)))'
    BY <1>1, <1>2, <1>3, <1>5, <2>1, ReachedStays DEF WaitInv
  <2>3. pc'[t] \in {"work", "signal", "post", "done"}
    BY <1>5, <2>1
  <2> QED BY <1>4, <1>5, <2>2, <2>3 DEF WaitInv, ReachedTo, Reached, List
<1> QED BY <1>4, <1>6, <1>7
-----------------------------------------------------------------------------
LEMMA SemaphoreInvInit == Init => SemaphoreInv
PROOF
<1> SUFFICES ASSUME Init PROVE SemaphoreInv
  OBVIOUS
<1>1. TypeInv
  BY SemaphoreAssumption DEF Init, TypeInv, FailureValue, Place
<1>2. \A t \in Thread : WaitInv(t)
  BY DEF Init, WaitInv
<1> QED BY <1>1, <1>2 DEF SemaphoreInv

LEMMA SemaphoreInvStep == SemaphoreInv /\ [Next]_vars => SemaphoreInv'
PROOF
<1> SUFFICES ASSUME SemaphoreInv, [Next]_vars PROVE SemaphoreInv'
  OBVIOUS
<1>1. ASSUME NEW t \in Thread, Step(t) \/ TimesOut(t)
      PROVE  SemaphoreInv'
  <2>1. OnlyMoves(t) /\ WaitInv(t)'
    BY <1>1, WaitStep, ResultStep, WorkStep DEF Step
  <2> QED BY <1>1, <2>1, OthersKeep
<1>2. CASE UNCHANGED vars
  BY <1>2 DEF vars, SemaphoreInv, TypeInv, WaitInv, ReachedTo, Reached, List
<1> QED BY <1>1, <1>2 DEF Next

(* A batch works and signals only after everything it waits for has reached *)
(* its payload (multi_wait, result_from_state and queue_execute), however   *)
(* many threads signal and fail the semaphores while they are looked at.    *)
THEOREM SemaphoreWorkAfterWait == Spec => []WorkAfterWait
PROOF
<1>1. SemaphoreInv => WorkAfterWait
  <2> SUFFICES ASSUME SemaphoreInv, NEW t \in Thread,
                      pc[t] \in {"work", "signal", "post"}, job[t].mode = "all",
                      NEW n \in 1 .. Len(List(t))
               PROVE  Reached(List(t)[n])
    BY DEF WorkAfterWait
  <2>1. ReachedTo(t, Len(List(t))) /\ Len(List(t)) \in Nat
    BY Lists DEF SemaphoreInv, WaitInv
  <2> QED BY <2>1 DEF ReachedTo
<1> QED BY <1>1, SemaphoreInvInit, SemaphoreInvStep, PTL DEF Spec
=============================================================================
