------------------------- MODULE TorqPipelineProofs -------------------------
(***************************************************************************)
(* Proofs about TorqPipeline: from the source to the run.                  *)
(*                                                                         *)
(* Each pass is a fold or a FlattenSeq over the function.  First come what *)
(* FlattenSeq and Kept do to the order of a sequence, then what each pass  *)
(* leaves the next one (PassInv): a source, a function with a loop whose   *)
(* starts and waits match, the same unrolled, the same with a wait between *)
(* two starts on an executor, and the tasks of the NSS programs along the  *)
(* host's actions.  The run then does these tasks in order (RunInv,        *)
(* TurnInv).                                                               *)
(*                                                                         *)
(* The second half follows the buffers (BufferInv): what a source declares *)
(* before it uses it (Declared), where AddDeallocationPass frees it        *)
(* (Allocated), that unrolling, outlining and the loads of the programs    *)
(* keep both (Ready), and that the action or the task that uses a buffer   *)
(* then comes before the one that frees it (Lives, StepsLive), which holds *)
(* during the run for what is left to do (LiveInv).  The definitions are in*)
(* TorqPipelineInv.                                                        *)
(***************************************************************************)
EXTENDS TorqPipelineInv, SequenceTheorems, FiniteSetTheorems, WellFoundedInduction, TLAPS

-----------------------------------------------------------------------------
(* Induction for sets of numbers.                                           *)
LEMMA NatSet ==
  ASSUME NEW T, 0 \in T, \A k \in Nat : k \in T => k + 1 \in T
  PROVE  Nat \subseteq T
PROOF
<1> SUFFICES ASSUME Nat \ T # {} PROVE FALSE
  OBVIOUS
<1>1. IsWellFoundedOn(OpToRel(<, Nat), Nat)
  BY NatLessThanWellFounded
<1>2. PICK x \in Nat \ T : \A y \in Nat \ T : ~ (<<y, x>> \in OpToRel(<, Nat))
  BY <1>1, WFMin
<1>3. x # 0 /\ x \in Nat
  BY <1>2
<1>4. x - 1 \in Nat /\ x - 1 < x /\ x = (x - 1) + 1
  BY <1>3
<1>5. <<x - 1, x>> \in OpToRel(<, Nat)
  BY <1>3, <1>4 DEF OpToRel
<1>6. x - 1 \in T
  BY <1>2, <1>4, <1>5
<1> QED BY <1>2, <1>4, <1>6

(* Induction up to a bound. *)
LEMMA UpTo ==
  ASSUME NEW n \in Nat, NEW T, 0 \in T, \A k \in 0 .. n - 1 : k \in T => k + 1 \in T
  PROVE  0 .. n \subseteq T
PROOF
<1> DEFINE U == {k \in Nat : k <= n => k \in T}
<1>1. 0 \in U
  OBVIOUS
<1>2. \A k \in Nat : k \in U => k + 1 \in U
  OBVIOUS
<1>3. Nat \subseteq U
  <2> HIDE DEF U
  <2> QED BY <1>1, <1>2, NatSet
<1> QED BY <1>3

(* Min of a non-empty set of naturals is in it, and least. *)
LEMMA LeastOf ==
  ASSUME NEW S, S \subseteq Nat, S # {}
  PROVE  Min(S) \in S /\ \A x \in S : Min(S) <= x
PROOF
<1> DEFINE T == {k \in Nat : \A x \in S : k <= x}
<1>1. \E k \in T : k + 1 \notin T
  <2>1. SUFFICES ASSUME \A k \in Nat : k \in T => k + 1 \in T PROVE FALSE
    OBVIOUS
  <2>2. 0 \in T
    OBVIOUS
  <2>3. Nat \subseteq T
    <3> HIDE DEF T
    <3> QED BY <2>1, <2>2, NatSet
  <2>4. PICK x \in S : TRUE
    OBVIOUS
  <2>5. x + 1 \in Nat /\ ~(x + 1 <= x)
    OBVIOUS
  <2> QED BY <2>3, <2>4, <2>5
<1>2. PICK k \in T : k + 1 \notin T
  BY <1>1
<1>3. PICK x \in S : ~(k + 1 <= x)
  BY <1>2
<1>4. x = k
  BY <1>2, <1>3
<1>5. x \in S /\ \A y \in S : x <= y
  BY <1>2, <1>4
<1> QED BY <1>5 DEF Min

(* Max of a non-empty set of naturals that is bounded is in it, and      *)
(* greatest.                                                             *)
LEMMA GreatestOf ==
  ASSUME NEW S, NEW n \in Nat, S \subseteq 0 .. n, S # {}
  PROVE  Max(S) \in S /\ \A x \in S : x <= Max(S)
PROOF
<1> DEFINE R == {n - x : x \in S}
<1>1. R \subseteq Nat /\ R # {}
  <2>1. \A x \in S : n - x \in Nat
    OBVIOUS
  <2> QED BY <2>1
<1>2. Min(R) \in R /\ \A x \in R : Min(R) <= x
  <2> HIDE DEF R
  <2> QED BY <1>1, LeastOf
<1>3. PICK m \in S : Min(R) = n - m
  BY <1>2
<1>4. \A x \in S : x <= m
  BY <1>2, <1>3
<1> QED BY <1>4 DEF Max

(* A place is a pair: a sequence and an index of it. *)
LEMMA PlaceOf ==
  ASSUME NEW ss, Len(ss) \in Nat, NEW x \in Places(ss)
  PROVE  /\ x[1] \in 1 .. Len(ss) /\ x[2] \in Nat /\ x[2] \in 1 .. Len(ss[x[1]])
         /\ x = <<x[1], x[2]>> /\ x[1] \in Nat
PROOF BY DEF Places

(* The recursive function of FlattenSeq exists. *)
LEMMA FlattenSteps ==
  ASSUME NEW n \in Nat, NEW ss
  PROVE  \E f : f = [i \in 1 .. n |-> IF i = 1 THEN ss[i] ELSE f[i - 1] \o ss[i]]
PROOF
<1> DEFINE R(g, m) == g = [i \in 1 .. m |-> IF i = 1 THEN ss[i] ELSE g[i - 1] \o ss[i]]
           T == {m \in Nat : \E g : R(g, m)}
<1>1. 0 \in T
  <2>1. R([i \in 1 .. 0 |-> 0], 0)
    OBVIOUS
  <2> QED BY <2>1
<1>2. ASSUME NEW m \in Nat, m \in T PROVE m + 1 \in T
  <2>1. PICK g : R(g, m)
    BY <1>2
  <2>2. \A i \in 1 .. m : g[i] = IF i = 1 THEN ss[i] ELSE g[i - 1] \o ss[i]
    BY <2>1
  <2> HIDE DEF R
  <2> DEFINE h == [i \in 1 .. m + 1 |->
                     IF i <= m THEN g[i] ELSE IF i = 1 THEN ss[i] ELSE g[m] \o ss[i]]
  <2>3. ASSUME NEW i \in 1 .. m + 1
        PROVE  h[i] = IF i = 1 THEN ss[i] ELSE h[i - 1] \o ss[i]
    <3>1. CASE i <= m
      <4>1. h[i] = g[i] /\ (i # 1 => h[i - 1] = g[i - 1])
        BY <3>1
      <4>2. g[i] = IF i = 1 THEN ss[i] ELSE g[i - 1] \o ss[i]
        BY <2>2, <3>1
      <4> HIDE DEF h
      <4> QED BY <4>1, <4>2
    <3>2. CASE i = m + 1
      BY <3>2
    <3> QED BY <3>1, <3>2
  <2>4. R(h, m + 1)
    <3>1. h = [i \in 1 .. m + 1 |-> h[i]]
      OBVIOUS
    <3> HIDE DEF h
    <3> QED BY <2>3, <3>1 DEF R
  <2> HIDE DEF h
  <2> QED BY <2>4
<1>3. n \in T
  <2> HIDE DEF T
  <2> QED BY <1>1, <1>2, NatSet
<1> QED BY <1>3

(* One more sequence.                                                       *)
LEMMA ArrangeMore ==
  ASSUME NEW S, NEW ss \in Seq(Seq(S)), NEW m \in Nat, m + 1 \in 1 .. Len(ss),
         NEW t \in Seq(S), NEW p, ArrangedTo(m, ss, t, p)
  PROVE  \E q : ArrangedTo(m + 1, ss, t \o ss[m + 1], q)
PROOF
<1> DEFINE u == ss[m + 1]
           a == Len(t)
           b == Len(u)
           c == t \o u
           q == [k \in 1 .. a + b |-> IF k <= a THEN p[k] ELSE <<m + 1, k - a>>]
<1>1. u \in Seq(S) /\ a \in Nat /\ b \in Nat /\ Len(ss) \in Nat
  OBVIOUS
<1>2. /\ Len(c) = a + b
      /\ \A k \in 1 .. a + b : c[k] = IF k <= a THEN t[k] ELSE u[k - a]
  BY <1>1, ConcatProperties
<1>3. /\ \A k \in 1 .. a : p[k] \in Places(ss) /\ t[k] = ss[p[k][1]][p[k][2]] /\ p[k][1] <= m
      /\ \A k, l \in 1 .. a : k < l => Earlier(p[k], p[l])
      /\ \A x \in Places(ss) : x[1] <= m => \E k \in 1 .. a : p[k] = x
  BY DEF ArrangedTo
<1>4. \A j \in 1 .. b : <<m + 1, j>> \in Places(ss)
  BY <1>1 DEF Places
<1> HIDE DEF a, b, c, u
<1>5. \A k \in 1 .. a : q[k] = p[k]
  BY <1>1
<1>6. \A k \in 1 .. a + b : ~(k <= a) => q[k] = <<m + 1, k - a>> /\ k - a \in 1 .. b
  BY <1>1
<1>7. q = [k \in 1 .. a + b |-> q[k]]
  OBVIOUS
<1>8. \A j \in 1 .. b : q[a + j] = <<m + 1, j>> /\ a + j \in 1 .. a + b
  <2> TAKE j \in 1 .. b
  <2>1. a + j \in 1 .. a + b /\ ~(a + j <= a) /\ (a + j) - a = j
    BY <1>1
  <2> QED BY <1>6, <2>1
<1> HIDE DEF q
<1>9. ASSUME NEW k \in 1 .. a + b
      PROVE  q[k] \in Places(ss) /\ c[k] = ss[q[k][1]][q[k][2]] /\ q[k][1] <= m + 1
  <2>1. CASE k <= a
    <3>1. k \in 1 .. a
      BY <1>1, <2>1
    <3>2. p[k][1] \in Nat
      BY <1>1, <1>3, <3>1, PlaceOf
    <3>3. p[k] \in Places(ss) /\ t[k] = ss[p[k][1]][p[k][2]] /\ p[k][1] <= m
      BY <1>3, <3>1
    <3>4. q[k] = p[k] /\ c[k] = t[k]
      BY <1>2, <1>5, <2>1, <3>1
    <3>5. p[k][1] <= m + 1
      BY <3>2, <3>3
    <3> QED BY <3>3, <3>4, <3>5
  <2>2. CASE ~(k <= a)
    <3>1. q[k] = <<m + 1, k - a>> /\ k - a \in 1 .. b
      BY <1>6, <2>2
    <3>2. c[k] = u[k - a]
      BY <1>2, <2>2
    <3> QED BY <1>4, <3>1, <3>2 DEF u
  <2> QED BY <2>1, <2>2
<1>10. ASSUME NEW k \in 1 .. a + b, NEW l \in 1 .. a + b, k < l
       PROVE  Earlier(q[k], q[l])
  <2>1. CASE l <= a
    <3>1. k \in 1 .. a /\ l \in 1 .. a
      BY <1>1, <1>10, <2>1
    <3> QED BY <1>3, <1>5, <1>10, <3>1
  <2>2. CASE ~(l <= a) /\ k <= a
    <3>1. k \in 1 .. a
      BY <1>1, <2>2
    <3>2. q[k] = p[k] /\ p[k][1] <= m /\ p[k][1] \in Nat
      BY <1>1, <1>3, <1>5, <3>1, PlaceOf
    <3>3. q[l][1] = m + 1
      BY <1>6, <2>2
    <3> QED BY <3>2, <3>3 DEF Earlier
  <2>3. CASE ~(l <= a) /\ ~(k <= a)
    <3>1. q[k] = <<m + 1, k - a>> /\ q[l] = <<m + 1, l - a>> /\ k - a < l - a
      BY <1>1, <1>6, <1>10, <2>3
    <3> QED BY <3>1 DEF Earlier
  <2> QED BY <1>10, <2>1, <2>2, <2>3
<1>11. ASSUME NEW x \in Places(ss), x[1] <= m + 1
       PROVE  \E k \in 1 .. a + b : q[k] = x
  <2>0. x[1] \in Nat /\ x[2] \in 1 .. Len(ss[x[1]]) /\ x = <<x[1], x[2]>>
    BY <1>1, PlaceOf
  <2>1. CASE x[1] <= m
    <3>1. PICK k \in 1 .. a : p[k] = x
      BY <1>3, <2>1
    <3>2. k \in 1 .. a + b
      BY <1>1
    <3> QED BY <1>5, <3>1, <3>2
  <2>2. CASE ~(x[1] <= m)
    <3>1. x[1] = m + 1
      BY <1>11, <2>0, <2>2
    <3>2. x = <<m + 1, x[2]>> /\ x[2] \in 1 .. b
      BY <2>0, <3>1 DEF b, u
    <3> QED BY <1>8, <3>2
  <2> QED BY <2>1, <2>2
<1>12. q \in [1 .. Len(c) -> Places(ss)]
  BY <1>2, <1>7, <1>9
<1>13. ArrangedTo(m + 1, ss, c, q)
  BY <1>2, <1>9, <1>10, <1>11, <1>12 DEF ArrangedTo
<1> QED BY <1>13 DEF c, u

(* FlattenSeq has the elements of its sequences, in order.                  *)
LEMMA Flatten ==
  ASSUME NEW S, NEW ss \in Seq(Seq(S))
  PROVE  FlattenSeq(ss) \in Seq(S) /\ \E p : Arranged(ss, FlattenSeq(ss), p)
PROOF
<1> DEFINE n == Len(ss)
<1>1. n \in Nat /\ DOMAIN ss = 1 .. n /\ \A i \in 1 .. n : ss[i] \in Seq(S) /\ Len(ss[i]) \in Nat
  OBVIOUS
<1>2. CASE n = 0
  <2>1. FlattenSeq(ss) = << >> /\ ss = << >>
    BY <1>2 DEF FlattenSeq
  <2>2. Arranged(ss, << >>, << >>)
    BY <2>1 DEF Arranged, ArrangedTo, Places
  <2> QED BY <2>1, <2>2
<1>3. CASE n # 0
  <2> DEFINE R(g) == g = [i \in 1 .. n |-> IF i = 1 THEN ss[i] ELSE g[i - 1] \o ss[i]]
             f == CHOOSE g : R(g)
  <2>1. R(f)
    BY <1>1, FlattenSteps
  <2>2. FlattenSeq(ss) = f[n]
    BY <1>3 DEF FlattenSeq
  <2>3. \A i \in 1 .. n : f[i] = IF i = 1 THEN ss[i] ELSE f[i - 1] \o ss[i]
    <3> HIDE DEF f
    <3> QED BY <2>1
  <2> HIDE DEF f, R
  <2> DEFINE Upto(m) == f[m] \in Seq(S) /\ \E p : ArrangedTo(m, ss, f[m], p)
             T == {m \in Nat : m + 1 \in 1 .. n => Upto(m + 1)}
  <2>4. 0 \in T
    <3>1. f[1] = ss[1] /\ ss[1] \in Seq(S)
      BY <1>1, <1>3, <2>3
    <3> DEFINE q == [k \in 1 .. Len(ss[1]) |-> <<1, k>>]
    <3>2. ArrangedTo(1, ss, ss[1], q)
      <4>1. \A k \in 1 .. Len(ss[1]) : q[k] = <<1, k>> /\ <<1, k>> \in Places(ss)
        BY <1>1, <1>3, <3>1 DEF Places
      <4>2. ASSUME NEW x \in Places(ss), x[1] <= 1
            PROVE  \E k \in 1 .. Len(ss[1]) : q[k] = x
        <5>1. x[1] = 1 /\ x[2] \in 1 .. Len(ss[x[1]]) /\ x = <<x[1], x[2]>>
          BY <1>1, <4>2, PlaceOf
        <5>2. x = <<1, x[2]>> /\ x[2] \in 1 .. Len(ss[1])
          BY <5>1
        <5> HIDE DEF q
        <5> QED BY <4>1, <5>2
      <4>3. q \in [1 .. Len(ss[1]) -> Places(ss)]
        BY <4>1
      <4> HIDE DEF q
      <4>4. ASSUME NEW k \in 1 .. Len(ss[1]), NEW l \in 1 .. Len(ss[1]), k < l
            PROVE  Earlier(q[k], q[l])
        <5>1. q[k] = <<1, k>> /\ q[l] = <<1, l>>
          BY <4>1
        <5> QED BY <4>4, <5>1 DEF Earlier
      <4>5. ASSUME NEW k \in 1 .. Len(ss[1])
            PROVE  ss[1][k] = ss[q[k][1]][q[k][2]] /\ q[k][1] <= 1
        <5>1. q[k] = <<1, k>>
          BY <4>1
        <5> QED BY <5>1
      <4> QED BY <4>2, <4>3, <4>4, <4>5 DEF ArrangedTo
    <3> HIDE DEF q
    <3>3. Upto(1)
      BY <3>1, <3>2
    <3> QED BY <3>3
  <2>5. ASSUME NEW m \in Nat, m \in T PROVE m + 1 \in T
    <3> SUFFICES ASSUME (m + 1) + 1 \in 1 .. n PROVE Upto((m + 1) + 1)
      OBVIOUS
    <3>1. m + 1 \in 1 .. n /\ m + 1 \in Nat
      BY <1>1
    <3>2. Upto(m + 1)
      BY <2>5, <3>1
    <3>3. f[(m + 1) + 1] = f[m + 1] \o ss[(m + 1) + 1]
      <4>1. (m + 1) + 1 # 1 /\ ((m + 1) + 1) - 1 = m + 1
        OBVIOUS
      <4> QED BY <2>3, <4>1
    <3>4. PICK p : ArrangedTo(m + 1, ss, f[m + 1], p)
      BY <3>2
    <3>5. \E q : ArrangedTo((m + 1) + 1, ss, f[m + 1] \o ss[(m + 1) + 1], q)
      BY <3>1, <3>2, <3>4, ArrangeMore
    <3>6. f[m + 1] \o ss[(m + 1) + 1] \in Seq(S)
      BY <1>1, <3>2, ConcatProperties
    <3> QED BY <3>3, <3>5, <3>6
  <2>6. Nat \subseteq T
    <3> HIDE DEF T
    <3> QED BY <2>4, <2>5, NatSet
  <2>7. n - 1 \in Nat /\ (n - 1) + 1 = n /\ n \in 1 .. n
    BY <1>1, <1>3
  <2>8. Upto(n)
    <3> HIDE DEF Upto
    <3> QED BY <2>6, <2>7
  <2> QED BY <2>2, <2>8 DEF Arranged
<1> QED BY <1>2, <1>3

(* The arrangement that FlattenSeq makes is one to one and monotone      *)
(* both ways.                                                            *)
LEMMA ArrangedOrder ==
  ASSUME NEW S, NEW ss \in Seq(Seq(S)), NEW t \in Seq(S), NEW p, Arranged(ss, t, p)
  PROVE  Ordered(ss, t, p)
PROOF
<1>0. Len(ss) \in Nat /\ Len(t) \in Nat /\ \A i \in 1 .. Len(ss) : Len(ss[i]) \in Nat
  OBVIOUS
<1>1. /\ \A k \in 1 .. Len(t) : p[k] \in Places(ss) /\ t[k] = ss[p[k][1]][p[k][2]]
      /\ \A k, l \in 1 .. Len(t) : k < l => Earlier(p[k], p[l])
      /\ \A x \in Places(ss) : x[1] <= Len(ss) => \E k \in 1 .. Len(t) : p[k] = x
  BY DEF Arranged, ArrangedTo
<1>2. \A k \in 1 .. Len(t) : /\ p[k][1] \in 1 .. Len(ss) /\ p[k][2] \in 1 .. Len(ss[p[k][1]])
                             /\ p[k] = <<p[k][1], p[k][2]>> /\ p[k][1] \in Nat /\ p[k][2] \in Nat
  BY <1>0, <1>1, PlaceOf
<1>3. ASSUME NEW k \in 1 .. Len(t), NEW l \in 1 .. Len(t), p[k] = p[l]
      PROVE  k = l
  <2>1. ~Earlier(p[k], p[l]) /\ ~Earlier(p[l], p[k])
    BY <1>2, <1>3 DEF Earlier
  <2>2. ~(k < l) /\ ~(l < k)
    BY <1>1, <2>1
  <2> QED BY <1>0, <2>2
<1>4. ASSUME NEW k \in 1 .. Len(t), NEW l \in 1 .. Len(t), Earlier(p[k], p[l])
      PROVE  k < l
  <2>1. ~Earlier(p[l], p[k]) /\ p[k] # p[l]
    <3>1. p[k][1] \in Nat /\ p[k][2] \in Nat /\ p[l][1] \in Nat /\ p[l][2] \in Nat
      BY <1>2
    <3> QED BY <1>4, <3>1 DEF Earlier
  <2>2. ~(l < k) /\ k # l
    BY <1>1, <2>1
  <2> QED BY <1>0, <2>2
<1>5. ASSUME NEW i \in 1 .. Len(ss), NEW j \in 1 .. Len(ss[i])
      PROVE  \E k \in 1 .. Len(t) : p[k] = <<i, j>>
  <2>1. <<i, j>> \in Places(ss) /\ i <= Len(ss)
    BY <1>0 DEF Places
  <2> QED BY <1>1, <2>1
<1>6. \A k, l \in 1 .. Len(t) : k < l <=> Earlier(p[k], p[l])
  BY <1>1, <1>4
<1> QED BY <1>1, <1>2, <1>3, <1>5, <1>6 DEF Ordered

(* What a test keeps of a sequence: a subsequence, in order (Kept). *)
LEMMA Selected ==
  ASSUME NEW S, NEW s \in Seq(S), NEW B, B \subseteq DOMAIN s
  PROVE  LET t == FlattenSeq([i \in DOMAIN s |-> IF i \in B THEN <<s[i]>> ELSE << >>])
         IN  t \in Seq(S) /\ \E p : Picked(s, t, p, B)
PROOF
<1> DEFINE ss == [i \in DOMAIN s |-> IF i \in B THEN <<s[i]>> ELSE << >>]
           t == FlattenSeq(ss)
<1>0. DOMAIN s = 1 .. Len(s) /\ Len(s) \in Nat
  OBVIOUS
<1>1. ss \in Seq(Seq(S)) /\ Len(ss) = Len(s)
  <2>1. \A i \in 1 .. Len(s) : ss[i] \in Seq(S)
    BY <1>0
  <2>2. ss = [i \in 1 .. Len(s) |-> ss[i]]
    BY <1>0
  <2> HIDE DEF ss
  <2> QED BY <1>0, <2>1, <2>2
<1>2. /\ \A i \in 1 .. Len(s) : i \in B => Len(ss[i]) = 1 /\ ss[i][1] = s[i]
      /\ \A i \in 1 .. Len(s) : i \notin B => Len(ss[i]) = 0
  OBVIOUS
<1> HIDE DEF ss
<1>3. t \in Seq(S) /\ \E p : Arranged(ss, t, p)
  BY <1>1, Flatten
<1>4. PICK q : Arranged(ss, t, q)
  BY <1>3
<1> HIDE DEF t
<1>5. /\ \A k \in 1 .. Len(t) : /\ q[k][1] \in 1 .. Len(s)
                                /\ q[k][2] \in 1 .. Len(ss[q[k][1]])
                                /\ q[k] = <<q[k][1], q[k][2]>>
                                /\ t[k] = ss[q[k][1]][q[k][2]]
      /\ \A k, l \in 1 .. Len(t) : k < l <=> Earlier(q[k], q[l])
      /\ \A i \in 1 .. Len(s) : \A j \in 1 .. Len(ss[i]) :
              \E k \in 1 .. Len(t) : q[k] = <<i, j>>
  <2>1. Ordered(ss, t, q)
    BY <1>1, <1>3, <1>4, ArrangedOrder
  <2> QED BY <1>1, <2>1 DEF Ordered
<1> DEFINE p == [k \in 1 .. Len(t) |-> q[k][1]]
<1>6. ASSUME NEW k \in 1 .. Len(t)
      PROVE  p[k] = q[k][1] /\ p[k] \in B /\ q[k] = <<p[k], 1>> /\ t[k] = s[p[k]] /\ p[k] \in Nat
  <2>1. q[k][1] \in B
    BY <1>1, <1>2, <1>5
  <2>2. q[k][2] = 1
    <3>1. q[k][2] \in 1 .. Len(ss[q[k][1]]) /\ Len(ss[q[k][1]]) = 1
      BY <1>2, <1>5, <2>1
    <3> QED BY <3>1
  <2>3. t[k] = s[q[k][1]]
    <3>1. ss[q[k][1]][1] = s[q[k][1]]
      BY <1>2, <1>5, <2>1
    <3>2. t[k] = ss[q[k][1]][q[k][2]]
      BY <1>5
    <3> QED BY <2>2, <3>1, <3>2
  <2> QED BY <1>1, <1>5, <2>1, <2>2, <2>3
<1>7. p \in [1 .. Len(t) -> B]
  BY <1>6
<1> HIDE DEF p
<1>8. ASSUME NEW k \in 1 .. Len(t), NEW l \in 1 .. Len(t)
      PROVE  k < l <=> p[k] < p[l]
  <2>1. Earlier(q[k], q[l]) <=> p[k] < p[l]
    <3>1. q[k] = <<p[k], 1>> /\ q[l] = <<p[l], 1>>
      BY <1>6
    <3> QED BY <3>1 DEF Earlier
  <2> QED BY <1>5, <2>1
<1>9. ASSUME NEW i \in B PROVE \E k \in 1 .. Len(t) : p[k] = i
  <2>1. i \in 1 .. Len(s) /\ 1 \in 1 .. Len(ss[i])
    BY <1>1, <1>2
  <2>2. PICK k \in 1 .. Len(t) : q[k] = <<i, 1>>
    BY <1>5, <2>1
  <2> QED BY <1>6, <2>2
<1>10. Picked(s, t, p, B)
  BY <1>6, <1>7, <1>8, <1>9 DEF Picked
<1> QED BY <1>3, <1>10 DEF t, ss

(* A step of the source appended to a function that has the form of a    *)
(* source keeps that form.                                               *)
LEMMA AppendOps ==
  ASSUME NEW s, Source(s), NEW ops, NewOps(ops, Len(s) + 1),
         NoLoop(ops) \/ (Len(ops) = 9 /\ LoopOps(ops) /\ \A i \in 1 .. Len(s) : s[i].k # "forall")
  PROVE  Source(s \o ops)
PROOF
<1> DEFINE t == s \o ops
           a == Len(s)
           b == Len(ops)
<1>1. s \in Seq(SomeOp) /\ ops \in Seq(SomeOp) /\ a \in Nat /\ b \in Nat /\ b > 0
  BY DEF Source, Shaped, NewOps
<1>2. /\ t \in Seq(SomeOp) /\ Len(t) = a + b
      /\ \A k \in 1 .. a + b : t[k] = IF k <= a THEN s[k] ELSE ops[k - a]
  BY <1>1, ConcatProperties
<1>3. /\ \A i \in 1 .. a : Shape(s[i]) /\ s[i].k \in SourceKinds
      /\ \A j \in 1 .. b : Shape(ops[j]) /\ ops[j].k \in SourceKinds
  BY DEF Source, Shaped, NewOps
<1> HIDE DEF t, a, b
<1>4. /\ \A i \in 1 .. a : i \in 1 .. a + b /\ t[i] = s[i]
      /\ \A j \in 1 .. b : a + j \in 1 .. a + b /\ t[a + j] = ops[j]
  <2>1. ASSUME NEW i \in 1 .. a PROVE i \in 1 .. a + b /\ t[i] = s[i]
    <3>1. i \in 1 .. a + b /\ i <= a
      BY <1>1
    <3> QED BY <1>2, <3>1
  <2>2. ASSUME NEW j \in 1 .. b PROVE a + j \in 1 .. a + b /\ t[a + j] = ops[j]
    <3>1. a + j \in 1 .. a + b /\ ~(a + j <= a) /\ (a + j) - a = j
      BY <1>1
    <3> QED BY <1>2, <3>1
  <2> QED BY <2>1, <2>2
<1>5. ASSUME NEW k \in 1 .. a + b
      PROVE  \/ k \in 1 .. a /\ t[k] = s[k]
             \/ k - a \in 1 .. b /\ t[k] = ops[k - a] /\ ~(k <= a)
  <2>1. CASE k <= a
    <3>1. k \in 1 .. a
      BY <1>1, <2>1
    <3> QED BY <1>4, <3>1
  <2>2. CASE ~(k <= a)
    <3>1. k - a \in 1 .. b
      BY <1>1, <2>2
    <3> QED BY <1>2, <2>2, <3>1
  <2> QED BY <2>1, <2>2
<1>6. Shaped(t)
  BY <1>2, <1>3, <1>5 DEF Shaped
<1>7. \A k \in 1 .. a + b : t[k].k \in SourceKinds
  BY <1>3, <1>5
<1>8. /\ \A i \in 1 .. a : s[i].k \in Launches => s[i].inv.id[1] <= a /\ s[i].inv.it = 0
      /\ \A i, j \in 1 .. a : s[i].k \in Launches /\ s[j].k \in Launches /\ s[i].inv = s[j].inv => i = j
      /\ \A i \in 1 .. a : s[i].k \in Launches => s[i].inv \in InvRec
  BY DEF Source, First, LaunchedOnce, a, Shaped, Shape
<1>9. /\ \A j \in 1 .. b : ops[j].k \in Launches => ops[j].inv = [id |-> <<a + 1, "k">>, it |-> 0]
      /\ \A i, j \in 1 .. b : ops[i].k \in Launches /\ ops[j].k \in Launches => i = j
  BY DEF NewOps, a, b
<1>10. ASSUME NEW k \in 1 .. a + b, t[k].k \in Launches
       PROVE  t[k].inv.id[1] <= a + b /\ t[k].inv.it = 0
  <2>1. CASE k \in 1 .. a /\ t[k] = s[k]
    <3>1. s[k].inv.id[1] \in Nat
      BY <1>8, <1>10, <2>1 DEF InvRec, Ids
    <3> QED BY <1>1, <1>8, <1>10, <2>1, <3>1
  <2>2. CASE k - a \in 1 .. b /\ t[k] = ops[k - a]
    <3>1. t[k].inv = [id |-> <<a + 1, "k">>, it |-> 0]
      BY <1>9, <1>10, <2>2
    <3> QED BY <1>1, <3>1
  <2> QED BY <1>5, <2>1, <2>2
<1>11. First(t)
  BY <1>2, <1>7, <1>10 DEF First, SourceKinds, Launches
<1>12. ASSUME NEW k \in 1 .. a + b, NEW l \in 1 .. a + b,
              t[k].k \in Launches, t[l].k \in Launches, t[k].inv = t[l].inv
       PROVE  k = l
  <2>1. ASSUME NEW i \in 1 .. a, NEW j \in 1 .. b, s[i].k \in Launches, ops[j].k \in Launches
        PROVE  s[i].inv # ops[j].inv
    <3>1. s[i].inv.id[1] <= a /\ s[i].inv.id[1] \in Nat
      BY <1>8, <2>1 DEF InvRec, Ids
    <3>2. ops[j].inv.id[1] = a + 1
      BY <1>9, <2>1
    <3> QED BY <1>1, <3>1, <3>2
  <2>2. CASE k <= a /\ l <= a
    <3>1. k \in 1 .. a /\ l \in 1 .. a /\ t[k] = s[k] /\ t[l] = s[l]
      BY <1>5, <2>2
    <3> QED BY <1>8, <1>12, <3>1
  <2>3. CASE ~(k <= a) /\ ~(l <= a)
    <3>1. k - a \in 1 .. b /\ l - a \in 1 .. b /\ t[k] = ops[k - a] /\ t[l] = ops[l - a]
      BY <1>1, <1>5, <2>3
    <3>2. k - a = l - a
      BY <1>9, <1>12, <3>1
    <3> QED BY <1>1, <3>2
  <2>4. CASE k <= a /\ ~(l <= a)
    <3>1. k \in 1 .. a /\ l - a \in 1 .. b /\ t[k] = s[k] /\ t[l] = ops[l - a]
      BY <1>1, <1>5, <2>4
    <3> QED BY <1>12, <2>1, <3>1
  <2>5. CASE ~(k <= a) /\ l <= a
    <3>1. l \in 1 .. a /\ k - a \in 1 .. b /\ t[l] = s[l] /\ t[k] = ops[k - a]
      BY <1>1, <1>5, <2>5
    <3> QED BY <1>12, <2>1, <3>1
  <2> QED BY <2>2, <2>3, <2>4, <2>5
<1>13. LaunchedOnce(t)
  BY <1>2, <1>12 DEF LaunchedOnce
<1>14. OneLoop(s) /\ \A i \in 1 .. a : Inside(s, i) => s[i].ex \in {"none", "slice"}
  BY DEF Source, a
<1>15. OneLoop(t) /\ \A k \in 1 .. a + b : Inside(t, k) => t[k].ex \in {"none", "slice"}
  <2>1. CASE NoLoop(ops)
    <3>1. ASSUME NEW k \in 1 .. a + b, t[k].k \in {"forall", "end"}
          PROVE  k \in 1 .. a /\ t[k] = s[k]
      BY <1>5, <2>1, <3>1 DEF NoLoop, b
    <3>2. OneLoop(t)
      BY <1>2, <1>4, <1>14, <3>1 DEF OneLoop, a
    <3>3. ASSUME NEW k \in 1 .. a + b, Inside(t, k) PROVE t[k].ex \in {"none", "slice"}
      <4>1. PICK l \in 1 .. a + b, e \in 1 .. a + b : t[l].k = "forall" /\ t[e].k = "end" /\ l < k /\ k < e
        BY <1>2, <3>3 DEF Inside, Loop
      <4>2. l \in 1 .. a /\ e \in 1 .. a /\ t[l] = s[l] /\ t[e] = s[e]
        BY <3>1, <4>1
      <4>3. k \in 1 .. a /\ t[k] = s[k]
        BY <1>1, <1>4, <4>1, <4>2
      <4>4. Inside(s, k)
        BY <4>1, <4>2 DEF Inside, Loop, a
      <4> QED BY <1>14, <4>3, <4>4
    <3> QED BY <3>2, <3>3
  <2>2. CASE b = 9 /\ LoopOps(ops) /\ \A i \in 1 .. a : s[i].k # "forall"
    <3>1. \A i \in 1 .. a : s[i].k \notin {"forall", "end"}
      BY <1>14, <2>2 DEF OneLoop, a
    <3>2. \A k \in 1 .. a + b : /\ t[k].k = "forall" <=> k = a + 3
                                /\ t[k].k = "end" <=> k = a + 9
      <4> TAKE k \in 1 .. a + b
      <4>1. CASE k <= a
        <5>1. k \in 1 .. a /\ t[k] = s[k]
          BY <1>1, <1>5, <4>1
        <5> QED BY <1>1, <3>1, <4>1, <5>1
      <4>2. CASE ~(k <= a)
        <5>1. k - a \in 1 .. b /\ t[k] = ops[k - a]
          BY <1>1, <1>5, <4>2
        <5>2. (t[k].k = "forall" <=> k - a = 3) /\ (t[k].k = "end" <=> k - a = 9)
          BY <2>2, <5>1 DEF LoopOps, b
        <5> QED BY <1>1, <5>2
      <4> QED BY <4>1, <4>2
    <3>3. a + 3 \in 1 .. a + b /\ a + 9 \in 1 .. a + b
      BY <1>1, <2>2
    <3>4. OneLoop(t)
      <4>1. \A k, l \in 1 .. a + b : t[k].k = "forall" /\ t[l].k = "forall" => k = l
        BY <3>2
      <4>2. \A k, l \in 1 .. a + b : t[k].k = "end" /\ t[l].k = "end" => k = l
        BY <3>2
      <4>3. t[a + 3].k = "forall" /\ t[a + 9].k = "end" /\ a + 3 < a + 9
        BY <1>1, <3>2, <3>3
      <4>4. \A k \in 1 .. a + b : t[k].k = "forall" => k < a + 9
        BY <3>2, <4>3
      <4>5. \A k \in 1 .. a + b : t[k].k = "end" => a + 3 < k
        BY <3>2, <4>3
      <4> QED BY <1>2, <3>3, <4>1, <4>2, <4>3, <4>4, <4>5 DEF OneLoop
    <3>5. ASSUME NEW k \in 1 .. a + b, Inside(t, k) PROVE t[k].ex \in {"none", "slice"}
      <4>1. PICK l \in 1 .. a + b, e \in 1 .. a + b : t[l].k = "forall" /\ t[e].k = "end" /\ l < k /\ k < e
        BY <1>2, <3>5 DEF Inside, Loop
      <4>2. a + 3 < k
        BY <3>2, <4>1
      <4>3. ~(k <= a) /\ k - a > 3
        BY <1>1, <4>2
      <4>4. k - a \in 1 .. b /\ t[k] = ops[k - a]
        BY <1>1, <1>5, <4>3
      <4> QED BY <2>2, <4>3, <4>4 DEF LoopOps, b
    <3> QED BY <3>4, <3>5
  <2> QED BY <2>1, <2>2 DEF a, b
<1>16. Source(t)
  BY <1>2, <1>6, <1>7, <1>10, <1>11, <1>13, <1>15 DEF Source
<1> QED BY <1>16 DEF t

(* A fresh value: its type, its buffer and its memory. *)
LEMMA FreshTyped ==
  ASSUME ir \in Seq(SomeOp), NEW nm \in Names, NEW sp \in Spaces, NEW sz \in Nat
  PROVE  /\ Fresh(nm, sp, sz) \in Value
         /\ Fresh(nm, sp, sz).base = <<Len(ir) + 1, nm>>
         /\ Fresh(nm, sp, sz).sp = sp
PROOF
<1>1. Len(ir) + 1 \in Nat
  OBVIOUS
<1>2. <<Len(ir) + 1, nm>> \in Ids
  BY <1>1 DEF Ids
<1> QED BY <1>2 DEF Fresh, Id, Val, Value

(* The invocation of a step of the source. *)
LEMMA InvTyped ==
  ASSUME ir \in Seq(SomeOp)
  PROVE  Inv \in InvRec /\ Inv = [id |-> <<Len(ir) + 1, "k">>, it |-> 0]
PROOF
<1>1. Len(ir) + 1 \in Nat
  OBVIOUS
<1> QED BY <1>1 DEF Inv, Id, InvRec, Ids, Names

(* The operations that the source is made of.                               *)
LEMMA AllocIsOp ==
  ASSUME NEW v \in Value, v.base[2] \in Buffers, v.sp # "none"
  PROVE  AllocOp(v) \in SomeOp /\ Shape(AllocOp(v)) /\ AllocOp(v).k = "alloc" /\ AllocOp(v).ex = "none"
PROOF
<1>1. << >> \in Seq(Value)
  OBVIOUS
<1>2. NoVal \in Value
  BY DEF NoVal, Val, Value, Ids, Names, Spaces
<1> HIDE DEF Value
<1>3. AllocOp(v) \in SomeOp
  BY <1>1, <1>2 DEF AllocOp, Op, SomeOp
<1>4. Shape(AllocOp(v))
  BY DEF Shape, AllocOp, Op, Launches, Simple
<1> QED BY <1>3, <1>4 DEF AllocOp, Op

(* A binding has its type and shape. *)
LEMMA BindingIsOp ==
  ASSUME NEW v \in Value, NEW n \in Nat, v.base[2] \in {"x", "o"}, v.sp = "xram"
  PROVE  /\ BindingOp(v, n) \in SomeOp /\ Shape(BindingOp(v, n))
         /\ BindingOp(v, n).k = "binding" /\ BindingOp(v, n).ex = "none"
PROOF
<1> DEFINE u == [v EXCEPT !.sz = Words * n]
<1>1. << >> \in Seq(Value)
  OBVIOUS
<1>2. u \in Value /\ u.base[2] \in {"x", "o"} /\ u.sp = "xram"
  <2>1. \A w \in Nat : [v EXCEPT !.sz = w] \in Value
    BY DEF Value
  <2>2. Words * n \in Nat
    BY DEF Words
  <2> QED BY <2>1, <2>2 DEF Value
<1>3. BindingOp(v, n) = Op("binding", u, << >>, << >>, << >>, "none")
  BY DEF BindingOp
<1> HIDE DEF Value, u
<1>4. BindingOp(v, n) \in SomeOp
  BY <1>1, <1>2, <1>3 DEF Op, SomeOp
<1>5. Shape(BindingOp(v, n))
  BY <1>2, <1>3 DEF Shape, Op, Launches, Simple
<1> QED BY <1>3, <1>4, <1>5 DEF Op

(* A copy has its type and shape. *)
LEMMA UseIsOp ==
  ASSUME NEW k \in {"load", "store", "copy"}, NEW x \in Value, NEW y \in Value
  PROVE  /\ Use(k, <<x, y>>) \in SomeOp /\ Shape(Use(k, <<x, y>>))
         /\ Use(k, <<x, y>>).k = k /\ Use(k, <<x, y>>).ex = "none"
PROOF
<1>1. << >> \in Seq(Value) /\ <<x, y>> \in Seq(Value) /\ <<x, y>> # << >>
  OBVIOUS
<1>2. NoVal \in Value
  BY DEF NoVal, Val, Value, Ids, Names, Spaces
<1> HIDE DEF Value
<1>3. Use(k, <<x, y>>) \in SomeOp
  BY <1>1, <1>2 DEF Use, Op, SomeOp
<1>4. Shape(Use(k, <<x, y>>))
  BY <1>1 DEF Shape, Use, Op, Launches, Simple
<1> QED BY <1>3, <1>4 DEF Use, Op

(* A kernel has its type and shape. *)
LEMMA KernelIsOp ==
  ASSUME ir \in Seq(SomeOp), NEW args \in Seq(Value), args # << >>
  PROVE  LET op == Invoke("kernel", Inv, "slice", args)
         IN  /\ op \in SomeOp /\ Shape(op) /\ op.k = "kernel" /\ op.ex = "slice"
             /\ op.inv = [id |-> <<Len(ir) + 1, "k">>, it |-> 0]
PROOF
<1>1. Inv \in InvRec /\ Inv = [id |-> <<Len(ir) + 1, "k">>, it |-> 0]
  BY InvTyped
<1>2. << >> \in Seq(Value)
  OBVIOUS
<1>3. NoVal \in Value
  BY DEF NoVal, Val, Value, Ids, Names, Spaces
<1> HIDE DEF Value, InvRec, Inv
<1>4. Invoke("kernel", Inv, "slice", args) \in SomeOp
  BY <1>1, <1>2, <1>3 DEF Invoke, Op, SomeOp
<1>5. Shape(Invoke("kernel", Inv, "slice", args))
  BY <1>1 DEF Shape, Invoke, Op, Launches, Simple
<1> QED BY <1>1, <1>4, <1>5 DEF Invoke, Op

(* A call of a CSS or host program has its type and shape. *)
LEMMA CallIsOp ==
  ASSUME ir \in Seq(SomeOp), NEW ex \in {"css", "host"}, NEW x \in Value
  PROVE  LET op == Invoke("call", Inv, ex, <<x>>)
         IN  /\ op \in SomeOp /\ Shape(op) /\ op.k = "call" /\ op.ex = ex
             /\ op.inv = [id |-> <<Len(ir) + 1, "k">>, it |-> 0]
PROOF
<1>1. Inv \in InvRec /\ Inv = [id |-> <<Len(ir) + 1, "k">>, it |-> 0]
  BY InvTyped
<1>2. << >> \in Seq(Value) /\ <<x>> \in Seq(Value) /\ <<x>> # << >>
  OBVIOUS
<1>3. NoVal \in Value
  BY DEF NoVal, Val, Value, Ids, Names, Spaces
<1> HIDE DEF Value, InvRec, Inv
<1>4. Invoke("call", Inv, ex, <<x>>) \in SomeOp
  BY <1>1, <1>2, <1>3 DEF Invoke, Op, SomeOp
<1>5. Shape(Invoke("call", Inv, ex, <<x>>))
  BY <1>1, <1>2 DEF Shape, Invoke, Op, Launches, Simple
<1> QED BY <1>1, <1>4, <1>5 DEF Invoke, Op

(* The beginning of a loop has its type and shape. *)
LEMMA ForallIsOp ==
  ASSUME NEW n \in Nat
  PROVE  LET op == Op("forall", NoVal, << >>, << >>, n, "none")
         IN  op \in SomeOp /\ Shape(op) /\ op.k = "forall" /\ op.ex = "none"
PROOF
<1>1. << >> \in Seq(Value)
  OBVIOUS
<1>2. NoVal \in Value
  BY DEF NoVal, Val, Value, Ids, Names, Spaces
<1> HIDE DEF Value
<1>3. Op("forall", NoVal, << >>, << >>, n, "none") \in SomeOp
  BY <1>1, <1>2 DEF Op, SomeOp
<1>4. Shape(Op("forall", NoVal, << >>, << >>, n, "none"))
  BY DEF Shape, Op, Launches, Simple
<1> QED BY <1>3, <1>4 DEF Op

(* The end of a loop has its type and shape. *)
LEMMA EndIsOp ==
  LET op == Op("end", NoVal, << >>, << >>, << >>, "none")
  IN  op \in SomeOp /\ Shape(op) /\ op.k = "end" /\ op.ex = "none"
PROOF
<1>1. << >> \in Seq(Value)
  OBVIOUS
<1>2. NoVal \in Value
  BY DEF NoVal, Val, Value, Ids, Names, Spaces
<1> HIDE DEF Value
<1>3. Op("end", NoVal, << >>, << >>, << >>, "none") \in SomeOp
  BY <1>1, <1>2 DEF Op, SomeOp
<1>4. Shape(Op("end", NoVal, << >>, << >>, << >>, "none"))
  BY DEF Shape, Op, Launches, Simple
<1> QED BY <1>3, <1>4 DEF Op

(* A view has its type and shape. *)
LEMMA ViewIsOp ==
  ASSUME NEW v \in Value, NEW x \in Value
  PROVE  LET op == Op("view", v, <<x>>, << >>, << >>, "none")
         IN  op \in SomeOp /\ Shape(op) /\ op.k = "view" /\ op.ex = "none"
PROOF
<1>1. << >> \in Seq(Value) /\ <<x>> \in Seq(Value) /\ <<x>> # << >>
  OBVIOUS
<1> HIDE DEF Value
<1>2. Op("view", v, <<x>>, << >>, << >>, "none") \in SomeOp
  BY <1>1 DEF Op, SomeOp
<1>3. Shape(Op("view", v, <<x>>, << >>, << >>, "none"))
  BY <1>1 DEF Shape, Op, Launches, Simple
<1> QED BY <1>2, <1>3 DEF Op

(* What Append1 adds.                                                       *)
LEMMA SourceAppend ==
  ASSUME Source(ir), ValsTyped, NEW kind, NEW ops, NEW new,
         Append1(kind, ops, new), NewOps(ops, Len(ir) + 1),
         NoLoop(ops) \/ (Len(ops) = 9 /\ LoopOps(ops) /\ \A i \in 1 .. Len(ir) : ir[i].k # "forall"),
         new \subseteq Value, \A v \in new : v.sp = "lram" /\ v.base[2] \in {"a", "b"}
  PROVE  Source(ir)' /\ ValsTyped' /\ stage' = "build"
PROOF
<1>1. ir' = ir \o ops /\ vals' = vals \cup new /\ stage' = "build"
  BY DEF Append1
<1>2. Source(ir \o ops)
  BY AppendOps
<1> QED BY <1>1, <1>2 DEF ValsTyped

(* A load keeps the form of the source. *)
LEMMA LoadKeepsSource ==
  ASSUME Source(ir), ValsTyped, SourceLoad
  PROVE  Source(ir)' /\ ValsTyped' /\ stage' = "build"
PROOF
<1> DEFINE a == Fresh("a", "lram", Words)
           x == Fresh("x", "xram", Words)
           ops == <<BindingOp(x, 1), AllocOp(a), Use("load", <<a, x>>)>>
<1>1. ir \in Seq(SomeOp)
  BY DEF Source, Shaped
<1>2. /\ a \in Value /\ a.base = <<Len(ir) + 1, "a">> /\ a.sp = "lram"
      /\ x \in Value /\ x.base = <<Len(ir) + 1, "x">> /\ x.sp = "xram"
  BY <1>1, FreshTyped, SMTT(30) DEF Names, Spaces, Words
<1>3. Append1("load", ops, {a})
  BY DEF SourceLoad
<1> HIDE DEF a, x
<1>4. BindingOp(x, 1) \in SomeOp /\ Shape(BindingOp(x, 1)) /\ BindingOp(x, 1).k = "binding"
  BY <1>2, BindingIsOp
<1>5. AllocOp(a) \in SomeOp /\ Shape(AllocOp(a)) /\ AllocOp(a).k = "alloc"
  BY <1>2, AllocIsOp DEF Buffers
<1>6. /\ Use("load", <<a, x>>) \in SomeOp /\ Shape(Use("load", <<a, x>>))
      /\ Use("load", <<a, x>>).k = "load"
  BY <1>2, UseIsOp
<1>7. NewOps(ops, Len(ir) + 1) /\ NoLoop(ops)
  BY <1>4, <1>5, <1>6 DEF NewOps, NoLoop, SourceKinds, Launches
<1> QED BY <1>2, <1>3, <1>7, SourceAppend

(* A kernel with a new destination keeps the form of the source. *)
LEMMA KernelKeepsSource ==
  ASSUME Source(ir), ValsTyped, SourceKernel
  PROVE  Source(ir)' /\ ValsTyped' /\ stage' = "build"
PROOF
<1> DEFINE b == Fresh("b", "lram", Words)
<1>1. ir \in Seq(SomeOp)
  BY DEF Source, Shaped
<1>2. b \in Value /\ b.base = <<Len(ir) + 1, "b">> /\ b.sp = "lram"
  BY <1>1, FreshTyped, SMTT(30) DEF Names, Spaces, Words
<1>3. PICK s \in vals :
        Append1("kernel", <<AllocOp(b), Invoke("kernel", Inv, "slice", <<b, s>>)>>, {b})
  BY DEF SourceKernel
<1> DEFINE k == Invoke("kernel", Inv, "slice", <<b, s>>)
           ops == <<AllocOp(b), k>>
<1> HIDE DEF b
<1>4. AllocOp(b) \in SomeOp /\ Shape(AllocOp(b)) /\ AllocOp(b).k = "alloc"
  BY <1>2, AllocIsOp DEF Buffers
<1>5. <<b, s>> \in Seq(Value) /\ <<b, s>> # << >>
  BY <1>2 DEF ValsTyped
<1>6. k \in SomeOp /\ Shape(k) /\ k.k = "kernel" /\ k.inv = [id |-> <<Len(ir) + 1, "k">>, it |-> 0]
  BY <1>1, <1>5, KernelIsOp
<1> HIDE DEF k
<1>7. NewOps(ops, Len(ir) + 1) /\ NoLoop(ops)
  BY <1>4, <1>6 DEF NewOps, NoLoop, SourceKinds, Launches
<1> QED BY <1>2, <1>3, <1>7, SourceAppend DEF k

(* A kernel with an old destination keeps the form of the source. *)
LEMMA KernelIntoKeepsSource ==
  ASSUME Source(ir), ValsTyped, SourceKernelInto
  PROVE  Source(ir)' /\ ValsTyped' /\ stage' = "build"
PROOF
<1>1. ir \in Seq(SomeOp)
  BY DEF Source, Shaped
<1>2. PICK s \in vals, d \in vals :
        Append1("into", <<Invoke("kernel", Inv, "slice", <<d, s>>)>>, {})
  BY DEF SourceKernelInto
<1> DEFINE k == Invoke("kernel", Inv, "slice", <<d, s>>)
           ops == <<k>>
<1>3. <<d, s>> \in Seq(Value) /\ <<d, s>> # << >>
  BY DEF ValsTyped
<1>4. k \in SomeOp /\ Shape(k) /\ k.k = "kernel" /\ k.inv = [id |-> <<Len(ir) + 1, "k">>, it |-> 0]
  BY <1>1, <1>3, KernelIsOp
<1> HIDE DEF k
<1>5. NewOps(ops, Len(ir) + 1) /\ NoLoop(ops)
  BY <1>4 DEF NewOps, NoLoop, SourceKinds, Launches
<1> QED BY <1>2, <1>5, SourceAppend DEF k

(* A view keeps the form of the source. *)
LEMMA ViewKeepsSource ==
  ASSUME Source(ir), ValsTyped, SourceView
  PROVE  Source(ir)' /\ ValsTyped' /\ stage' = "build"
PROOF
<1>1. ir \in Seq(SomeOp) /\ Len(ir) + 1 \in Nat
  BY DEF Source, Shaped
<1>2. PICK s \in {v \in vals : v.sz > 1} :
        LET v == [s EXCEPT !.id = Id("v"), !.sz = 1, !.off = s.off + s.sz - 1]
        IN  Append1("view", <<Op("view", v, <<s>>, << >>, << >>, "none")>>, {v})
  BY DEF SourceView
<1> DEFINE v == [s EXCEPT !.id = Id("v"), !.sz = 1, !.off = s.off + s.sz - 1]
           op == Op("view", v, <<s>>, << >>, << >>, "none")
           ops == <<op>>
<1>3. s \in Value /\ s.sp = "lram" /\ s.base[2] \in {"a", "b"} /\ s.sz > 1
  BY DEF ValsTyped
<1>4. v \in Value /\ v.sp = "lram" /\ v.base[2] \in {"a", "b"}
  <2>1. Id("v") \in Ids
    BY <1>1 DEF Id, Ids, Names
  <2>2. s.off + s.sz - 1 \in Nat
    BY <1>3 DEF Value
  <2>3. v.base = s.base /\ v.sp = s.sp
    BY <1>3 DEF Value
  <2> QED BY <1>3, <2>1, <2>2, <2>3 DEF Value
<1>5. Append1("view", ops, {v})
  BY <1>2
<1> HIDE DEF v
<1>6. op \in SomeOp /\ Shape(op) /\ op.k = "view"
  BY <1>3, <1>4, ViewIsOp
<1> HIDE DEF op
<1>7. NewOps(ops, Len(ir) + 1) /\ NoLoop(ops)
  BY <1>6 DEF NewOps, NoLoop, SourceKinds, Launches
<1> QED BY <1>4, <1>5, <1>7, SourceAppend

(* A call of a CSS program keeps the form of the source. *)
LEMMA CssKeepsSource ==
  ASSUME Source(ir), ValsTyped, SourceCss
  PROVE  Source(ir)' /\ ValsTyped' /\ stage' = "build"
PROOF
<1>1. ir \in Seq(SomeOp)
  BY DEF Source, Shaped
<1>2. PICK s \in vals :
        LET t == Fresh("t", "dtcm", s.sz)
        IN  Append1("css", <<AllocOp(t), Use("copy", <<t, s>>), Invoke("call", Inv, "css", <<t>>),
                             Use("copy", <<s, t>>)>>, {})
  BY DEF SourceCss
<1> DEFINE t == Fresh("t", "dtcm", s.sz)
           c == Invoke("call", Inv, "css", <<t>>)
           ops == <<AllocOp(t), Use("copy", <<t, s>>), c, Use("copy", <<s, t>>)>>
<1>3. s \in Value /\ s.sz \in Nat
  BY DEF ValsTyped, Value
<1>4. t \in Value /\ t.base = <<Len(ir) + 1, "t">> /\ t.sp = "dtcm"
  <2>1. "t" \in Names /\ "dtcm" \in Spaces /\ "xram" \in Spaces
    BY DEF Names, Spaces
  <2> HIDE DEF Value
  <2> QED BY <1>1, <1>3, <2>1, FreshTyped
<1>5. Append1("css", ops, {})
  BY <1>2
<1> HIDE DEF t
<1>6. AllocOp(t) \in SomeOp /\ Shape(AllocOp(t)) /\ AllocOp(t).k = "alloc"
  BY <1>4, AllocIsOp DEF Buffers
<1>7. /\ Use("copy", <<t, s>>) \in SomeOp /\ Shape(Use("copy", <<t, s>>))
      /\ Use("copy", <<t, s>>).k = "copy"
      /\ Use("copy", <<s, t>>) \in SomeOp /\ Shape(Use("copy", <<s, t>>))
      /\ Use("copy", <<s, t>>).k = "copy"
  BY <1>3, <1>4, UseIsOp
<1>8. c \in SomeOp /\ Shape(c) /\ c.k = "call" /\ c.inv = [id |-> <<Len(ir) + 1, "k">>, it |-> 0]
  BY <1>1, <1>4, CallIsOp
<1> HIDE DEF c
<1>9. NewOps(ops, Len(ir) + 1) /\ NoLoop(ops)
  BY <1>6, <1>7, <1>8 DEF NewOps, NoLoop, SourceKinds, Launches
<1> QED BY <1>5, <1>9, SourceAppend

(* A call of a host program keeps the form of the source. *)
LEMMA HostKeepsSource ==
  ASSUME Source(ir), ValsTyped, SourceHost
  PROVE  Source(ir)' /\ ValsTyped' /\ stage' = "build"
PROOF
<1>1. ir \in Seq(SomeOp)
  BY DEF Source, Shaped
<1>2. PICK s \in vals :
        LET t == Fresh("t", "xram", s.sz)
        IN  Append1("host", <<AllocOp(t), Use("store", <<t, s>>), Invoke("call", Inv, "host", <<t>>),
                              Use("load", <<s, t>>)>>, {})
  BY DEF SourceHost
<1> DEFINE t == Fresh("t", "xram", s.sz)
           c == Invoke("call", Inv, "host", <<t>>)
           ops == <<AllocOp(t), Use("store", <<t, s>>), c, Use("load", <<s, t>>)>>
<1>3. s \in Value /\ s.sz \in Nat
  BY DEF ValsTyped, Value
<1>4. t \in Value /\ t.base = <<Len(ir) + 1, "t">> /\ t.sp = "xram"
  <2>1. "t" \in Names /\ "dtcm" \in Spaces /\ "xram" \in Spaces
    BY DEF Names, Spaces
  <2> HIDE DEF Value
  <2> QED BY <1>1, <1>3, <2>1, FreshTyped
<1>5. Append1("host", ops, {})
  BY <1>2
<1> HIDE DEF t
<1>6. AllocOp(t) \in SomeOp /\ Shape(AllocOp(t)) /\ AllocOp(t).k = "alloc"
  BY <1>4, AllocIsOp DEF Buffers
<1>7. /\ Use("store", <<t, s>>) \in SomeOp /\ Shape(Use("store", <<t, s>>))
      /\ Use("store", <<t, s>>).k = "store"
      /\ Use("load", <<s, t>>) \in SomeOp /\ Shape(Use("load", <<s, t>>))
      /\ Use("load", <<s, t>>).k = "load"
  BY <1>3, <1>4, UseIsOp
<1>8. c \in SomeOp /\ Shape(c) /\ c.k = "call" /\ c.inv = [id |-> <<Len(ir) + 1, "k">>, it |-> 0]
  BY <1>1, <1>4, CallIsOp
<1> HIDE DEF c
<1>9. NewOps(ops, Len(ir) + 1) /\ NoLoop(ops)
  BY <1>6, <1>7, <1>8 DEF NewOps, NoLoop, SourceKinds, Launches
<1> QED BY <1>5, <1>9, SourceAppend

(* The loop keeps the form of the source, which has no other. *)
LEMMA ForallKeepsSource ==
  ASSUME Source(ir), ValsTyped, SourceForall
  PROVE  Source(ir)' /\ ValsTyped' /\ stage' = "build"
PROOF
<1> DEFINE a == Fresh("a", "lram", Words)
           b == Fresh("b", "lram", Words)
           x == Fresh("x", "xram", Words)
           o == Fresh("o", "xram", Words)
<1>1. ir \in Seq(SomeOp)
  BY DEF Source, Shaped
<1>2. /\ a \in Value /\ a.base = <<Len(ir) + 1, "a">> /\ a.sp = "lram"
      /\ b \in Value /\ b.base = <<Len(ir) + 1, "b">> /\ b.sp = "lram"
      /\ x \in Value /\ x.base = <<Len(ir) + 1, "x">> /\ x.sp = "xram"
      /\ o \in Value /\ o.base = <<Len(ir) + 1, "o">> /\ o.sp = "xram"
  BY <1>1, FreshTyped, SMTT(30) DEF Names, Spaces, Words
<1>3. PICK n \in Iterations, s \in {<< >>} \cup {<<v>> : v \in vals} :
        /\ \A i \in DOMAIN ir : ir[i].k # "forall"
        /\ Append1("forall",
             <<BindingOp(x, n), BindingOp(o, n), Op("forall", NoVal, << >>, << >>, n, "none"),
               AllocOp(a), Use("load", <<a, x>>),
               AllocOp(b), Invoke("kernel", Inv, "slice", <<b, a>> \o s),
               Use("store", <<o, b>>), Op("end", NoVal, << >>, << >>, << >>, "none")>>, {})
  BY DEF SourceForall
<1>4. n \in Nat
  BY PipelineAssumption
<1> DEFINE k == Invoke("kernel", Inv, "slice", <<b, a>> \o s)
           fo == Op("forall", NoVal, << >>, << >>, n, "none")
           en == Op("end", NoVal, << >>, << >>, << >>, "none")
           ops == <<BindingOp(x, n), BindingOp(o, n), fo, AllocOp(a), Use("load", <<a, x>>),
                    AllocOp(b), k, Use("store", <<o, b>>), en>>
<1> HIDE DEF a, b, x, o
<1>5. /\ AllocOp(a) \in SomeOp /\ Shape(AllocOp(a)) /\ AllocOp(a).k = "alloc" /\ AllocOp(a).ex = "none"
      /\ AllocOp(b) \in SomeOp /\ Shape(AllocOp(b)) /\ AllocOp(b).k = "alloc" /\ AllocOp(b).ex = "none"
  BY <1>2, AllocIsOp DEF Buffers
<1>6. /\ BindingOp(x, n) \in SomeOp /\ Shape(BindingOp(x, n)) /\ BindingOp(x, n).k = "binding"
      /\ BindingOp(o, n) \in SomeOp /\ Shape(BindingOp(o, n)) /\ BindingOp(o, n).k = "binding"
  BY <1>2, <1>4, BindingIsOp
<1>7. /\ Use("load", <<a, x>>) \in SomeOp /\ Shape(Use("load", <<a, x>>))
      /\ Use("load", <<a, x>>).k = "load" /\ Use("load", <<a, x>>).ex = "none"
      /\ Use("store", <<o, b>>) \in SomeOp /\ Shape(Use("store", <<o, b>>))
      /\ Use("store", <<o, b>>).k = "store" /\ Use("store", <<o, b>>).ex = "none"
  BY <1>2, UseIsOp
<1>8. <<b, a>> \o s \in Seq(Value) /\ <<b, a>> \o s # << >>
  <2>1. s \in Seq(Value)
    <3>1. CASE s = << >>
      BY <3>1
    <3>2. ASSUME NEW v \in vals, s = <<v>> PROVE s \in Seq(Value)
      <4>1. v \in Value
        BY DEF ValsTyped
      <4> QED BY <3>2, <4>1
    <3> QED BY <1>3, <3>1, <3>2
  <2>2. <<b, a>> \in Seq(Value) /\ Len(<<b, a>>) = 2
    BY <1>2
  <2>3. <<b, a>> \o s \in Seq(Value) /\ Len(<<b, a>> \o s) = 2 + Len(s) /\ Len(s) \in Nat
    BY <2>1, <2>2, ConcatProperties
  <2>4. Len(<<b, a>> \o s) # 0 /\ Len(<< >>) = 0
    BY <2>3
  <2> QED BY <2>3, <2>4
<1>9. /\ k \in SomeOp /\ Shape(k) /\ k.k = "kernel" /\ k.inv = [id |-> <<Len(ir) + 1, "k">>, it |-> 0]
      /\ k.ex = "slice"
  BY <1>1, <1>8, KernelIsOp
<1>10. /\ fo \in SomeOp /\ Shape(fo) /\ fo.k = "forall" /\ fo.ex = "none"
       /\ en \in SomeOp /\ Shape(en) /\ en.k = "end" /\ en.ex = "none"
  <2>1. fo \in SomeOp /\ Shape(fo) /\ fo.k = "forall" /\ fo.ex = "none"
    BY <1>4, ForallIsOp
  <2>2. en \in SomeOp /\ Shape(en) /\ en.k = "end" /\ en.ex = "none"
    BY EndIsOp
  <2> QED BY <2>1, <2>2
<1>11. Append1("forall", ops, {}) /\ \A i \in 1 .. Len(ir) : ir[i].k # "forall"
  BY <1>1, <1>3
<1> HIDE DEF k, fo, en
<1>12. NewOps(ops, Len(ir) + 1)
  BY <1>5, <1>6, <1>7, <1>9, <1>10, SMTT(30) DEF NewOps, SourceKinds, Launches
<1>13. Len(ops) = 9 /\ LoopOps(ops)
  BY <1>5, <1>6, <1>7, <1>9, <1>10 DEF LoopOps
<1> QED BY <1>11, <1>12, <1>13, SourceAppend

(* The final store keeps the form of the source. *)
LEMMA FinishKeepsSource ==
  ASSUME Source(ir), ValsTyped, Finish
  PROVE  Source(ir)'
PROOF
<1>1. ir \in Seq(SomeOp)
  BY DEF Source, Shaped
<1>2. CASE ir' = ir
  BY <1>2
<1>3. ASSUME NEW v \in vals,
             LET o == Fresh("o", "xram", v.sz)
             IN  ir' = ir \o <<BindingOp(o, 1), Use("store", <<o, v>>)>>
      PROVE  Source(ir)'
  <2> DEFINE o == Fresh("o", "xram", v.sz)
             ops == <<BindingOp(o, 1), Use("store", <<o, v>>)>>
  <2>1. v \in Value /\ v.sz \in Nat
    BY DEF ValsTyped, Value
  <2>2. o \in Value /\ o.base = <<Len(ir) + 1, "o">> /\ o.sp = "xram"
    <3>1. "o" \in Names /\ "xram" \in Spaces
      BY DEF Names, Spaces
    <3> HIDE DEF Value
    <3> QED BY <1>1, <2>1, <3>1, FreshTyped
  <2>3. ir' = ir \o ops
    BY <1>3
  <2> HIDE DEF o
  <2>4. BindingOp(o, 1) \in SomeOp /\ Shape(BindingOp(o, 1)) /\ BindingOp(o, 1).k = "binding"
    BY <2>2, BindingIsOp
  <2>5. /\ Use("store", <<o, v>>) \in SomeOp /\ Shape(Use("store", <<o, v>>))
        /\ Use("store", <<o, v>>).k = "store"
    BY <2>1, <2>2, UseIsOp
  <2>6. NewOps(ops, Len(ir) + 1) /\ NoLoop(ops)
    BY <2>4, <2>5 DEF NewOps, NoLoop, SourceKinds, Launches
  <2>7. Source(ir \o ops)
    BY <2>6, AppendOps
  <2> QED BY <2>3, <2>7
<1> QED BY <1>2, <1>3 DEF Finish

(* A source is a function with a loop and no starts yet. *)
LEMMA SourceIsLooped ==
  ASSUME NEW s, Source(s)
  PROVE  Looped(s)
PROOF
<1>1. \A i \in 1 .. Len(s) : s[i].k \notin {"start", "wait"}
  BY DEF Source, SourceKinds
<1>2. WaitsStarted(s) /\ StartsWaited(s) /\ WaitedOnce(s) /\ CssInTurn(s)
  BY <1>1 DEF WaitsStarted, StartsWaited, WaitedOnce, CssInTurn
<1>3. LoopOfSlices(s)
  BY <1>1 DEF LoopOfSlices, Match, Source
<1> QED BY <1>2, <1>3 DEF Source, Looped

(* Where the operations of the rewritten function come from. *)
LEMMA RewritePlaces ==
  ASSUME NEW s, Shaped(s), NEW K \in {"call", "kernel"}, NEW ss, Rewritten(s, K, ss)
  PROVE  LET t == FlattenSeq(ss)
         IN  t \in Seq(SomeOp) /\ \E p : Placed(s, K, ss, t, p)
PROOF
<1> DEFINE t == FlattenSeq(ss)
           n == Len(s)
<1>1. s \in Seq(SomeOp) /\ n \in Nat /\ Len(ss) = n /\ ss \in Seq(Seq(SomeOp))
  BY DEF Shaped, Rewritten
<1>2. t \in Seq(SomeOp) /\ \E p : Arranged(ss, t, p)
  BY <1>1, Flatten
<1>3. PICK p : Arranged(ss, t, p)
  BY <1>2
<1> HIDE DEF t
<1> DEFINE T == 1 .. Len(t)
<1>4. Ordered(ss, t, p)
  BY <1>1, <1>2, <1>3, ArrangedOrder
<1>5. /\ \A k \in T : /\ p[k][1] \in 1 .. n /\ p[k][1] \in Nat
                      /\ p[k][2] \in 1 .. Len(ss[p[k][1]]) /\ p[k][2] \in Nat
                      /\ p[k] = <<p[k][1], p[k][2]>>
                      /\ t[k] = ss[p[k][1]][p[k][2]]
      /\ \A k, l \in T : p[k] = p[l] => k = l
      /\ \A k, l \in T : k < l <=> Earlier(p[k], p[l])
      /\ \A i \in 1 .. n : \A j \in 1 .. Len(ss[i]) : \E k \in T : p[k] = <<i, j>>
  <2>1. /\ \A k \in T : /\ p[k][1] \in 1 .. n
                        /\ p[k][2] \in 1 .. Len(ss[p[k][1]])
                        /\ p[k] = <<p[k][1], p[k][2]>>
                        /\ t[k] = ss[p[k][1]][p[k][2]]
        /\ \A k, l \in T : p[k] = p[l] => k = l
        /\ \A k, l \in T : k < l <=> Earlier(p[k], p[l])
        /\ \A i \in 1 .. n : \A j \in 1 .. Len(ss[i]) : \E k \in T : p[k] = <<i, j>>
    <3>1. Len(ss) = n
      BY <1>1
    <3> HIDE DEF n
    <3> QED BY <1>4, <3>1 DEF Ordered
  <2>2. \A k \in T : p[k][1] \in Nat /\ p[k][2] \in Nat
    BY <2>1
  <2> HIDE DEF T, n
  <2> QED BY <2>1, <2>2
<1>6. Len(t) \in Nat
  BY <1>2
<1>7. /\ \A i \in 1 .. n : s[i].k = K => BlockOf(s[i], ss[i])
      /\ \A i \in 1 .. n : s[i].k # K => Len(ss[i]) = 1 /\ ss[i][1] = s[i]
  <2>1. \A i \in 1 .. n : s[i].k # K => ss[i] = <<s[i]>>
    BY DEF Rewritten
  <2>2. \A x : Len(<<x>>) = 1 /\ <<x>>[1] = x
    OBVIOUS
  <2>3. \A i \in 1 .. n : s[i].k = K => BlockOf(s[i], ss[i])
    BY DEF Rewritten
  <2> QED BY <2>1, <2>2, <2>3
<1> HIDE DEF n, T
<1>8. ASSUME NEW k \in T, s[p[k][1]].k # K
      PROVE  t[k] = s[p[k][1]] /\ p[k] = <<p[k][1], 1>> /\ Len(ss[p[k][1]]) = 1
  <2>1. Len(ss[p[k][1]]) = 1 /\ ss[p[k][1]][1] = s[p[k][1]]
    BY <1>5, <1>7, <1>8
  <2>2. p[k][2] = 1
    BY <1>5, <2>1
  <2>3. t[k] = ss[p[k][1]][p[k][2]] /\ p[k] = <<p[k][1], p[k][2]>>
    BY <1>5
  <2> QED BY <2>1, <2>2, <2>3
<1>9. ASSUME NEW k \in T, t[k].k \in {"forall", "end"} PROVE s[p[k][1]].k # K
  <2>1. SUFFICES ASSUME s[p[k][1]].k = K PROVE FALSE
    OBVIOUS
  <2>2. BlockOf(s[p[k][1]], ss[p[k][1]])
    BY <1>5, <1>7, <2>1
  <2> QED BY <1>5, <1>9, <2>2 DEF BlockOf
<1>11. ASSUME NEW k \in T, t[k].k \in {"forall", "end"}
       PROVE  t[k] = s[p[k][1]] /\ p[k] = <<p[k][1], 1>> /\ Len(ss[p[k][1]]) = 1
  BY <1>8, <1>9, <1>11
<1>12. ASSUME NEW i \in 1 .. n, s[i].k # K
       PROVE  \E k \in T : p[k] = <<i, 1>> /\ p[k][1] = i /\ t[k] = s[i]
  <2>1. 1 \in 1 .. Len(ss[i])
    BY <1>7, <1>12
  <2>2. PICK k \in T : p[k] = <<i, 1>>
    BY <1>5, <2>1
  <2>3. p[k][1] = i
    BY <2>2
  <2> QED BY <1>8, <1>12, <2>2, <2>3
<1>14. ASSUME NEW k \in T, NEW l \in T, p[k][1] < p[l][1] PROVE k < l
  BY <1>5, <1>14 DEF Earlier
<1>15. ASSUME NEW k \in T, NEW l \in T, k < l, Len(ss[p[k][1]]) = 1 \/ Len(ss[p[l][1]]) = 1
       PROVE  p[k][1] < p[l][1]
  <2>1. Earlier(p[k], p[l])
    BY <1>5, <1>15
  <2>2. p[k][1] # p[l][1]
    <3>1. SUFFICES ASSUME p[k][1] = p[l][1] PROVE FALSE
      OBVIOUS
    <3>2. p[k][2] = 1 /\ p[l][2] = 1
      BY <1>5, <1>15, <3>1
    <3>3. ~(p[k][1] < p[l][1]) /\ ~(p[k][2] < p[l][2])
      BY <1>5, <3>1, <3>2
    <3> QED BY <2>1, <3>3 DEF Earlier
  <2> QED BY <2>1, <2>2 DEF Earlier
<1>16. ASSUME NEW k \in T PROVE Inside(t, k) <=> Inside(s, p[k][1])
  <2>1. ASSUME Inside(t, k) PROVE Inside(s, p[k][1])
    <3>1. PICK l \in T, e \in T : t[l].k = "forall" /\ t[e].k = "end" /\ l < k /\ k < e
      BY <2>1 DEF Inside, Loop, T
    <3>2. /\ t[l] = s[p[l][1]] /\ Len(ss[p[l][1]]) = 1
          /\ t[e] = s[p[e][1]] /\ Len(ss[p[e][1]]) = 1
      BY <1>11, <3>1
    <3>3. p[l][1] < p[k][1] /\ p[k][1] < p[e][1]
      BY <1>15, <3>1, <3>2
    <3> QED BY <1>5, <3>1, <3>2, <3>3 DEF Inside, Loop, n
  <2>2. ASSUME Inside(s, p[k][1]) PROVE Inside(t, k)
    <3>1. PICK l \in 1 .. n, e \in 1 .. n :
            s[l].k = "forall" /\ s[e].k = "end" /\ l < p[k][1] /\ p[k][1] < e
      BY <2>2 DEF Inside, Loop, n
    <3>2. PICK a \in T : p[a][1] = l /\ t[a] = s[l]
      BY <1>12, <3>1
    <3>3. PICK b \in T : p[b][1] = e /\ t[b] = s[e]
      BY <1>12, <3>1
    <3>4. a < k /\ k < b
      BY <1>14, <3>1, <3>2, <3>3
    <3> QED BY <3>1, <3>2, <3>3, <3>4 DEF Inside, Loop, T
  <2> QED BY <2>1, <2>2
<1>17. Placed(s, K, ss, t, p)
  BY <1>5, <1>8, <1>9, <1>12, <1>16 DEF Placed, T, n
<1> QED BY <1>2, <1>17 DEF t

(* Replacing launches by blocks that start and wait for them keeps       *)
(* starts and waits matched, in the loop and outside.                    *)
LEMMA RewriteKeepsLooped ==
  ASSUME NEW s, Looped(s), NEW K \in {"call", "kernel"}, NEW ss, Rewritten(s, K, ss)
  PROVE  LET t == FlattenSeq(ss)
         IN  /\ Looped(t)
             /\ \A k \in 1 .. Len(t) : t[k].k \in {"call", "kernel"} =>
                  t[k].k # K /\ \E i \in 1 .. Len(s) : s[i].k = t[k].k
PROOF
<1> DEFINE t == FlattenSeq(ss)
           n == Len(s)
<1>1. s \in Seq(SomeOp) /\ n \in Nat /\ Len(ss) = n /\ ss \in Seq(Seq(SomeOp)) /\ Shaped(s)
  BY DEF Looped, Shaped, Rewritten
<1>2. t \in Seq(SomeOp) /\ \E p : Placed(s, K, ss, t, p)
  BY <1>1, RewritePlaces
<1>3. PICK p : Placed(s, K, ss, t, p)
  BY <1>2
<1> HIDE DEF t
<1> DEFINE T == 1 .. Len(t)
<1>5. /\ \A k \in T : /\ p[k][1] \in 1 .. n /\ p[k][1] \in Nat
                      /\ p[k][2] \in 1 .. Len(ss[p[k][1]]) /\ p[k][2] \in Nat
                      /\ p[k] = <<p[k][1], p[k][2]>>
                      /\ t[k] = ss[p[k][1]][p[k][2]]
      /\ \A k, l \in T : p[k] = p[l] => k = l
      /\ \A k, l \in T : k < l <=> Earlier(p[k], p[l])
      /\ \A i \in 1 .. n : \A j \in 1 .. Len(ss[i]) : \E k \in T : p[k] = <<i, j>>
  BY <1>3 DEF Placed
<1>6. Len(t) \in Nat
  BY <1>2
<1>7. /\ \A i \in 1 .. n : s[i].k = K => BlockOf(s[i], ss[i])
      /\ \A i \in 1 .. n : s[i].k # K => Len(ss[i]) = 1 /\ ss[i][1] = s[i]
      /\ \A i \in 1 .. n : Shape(s[i])
  <2>1. \A i \in 1 .. n : s[i].k # K => ss[i] = <<s[i]>>
    BY DEF Rewritten
  <2>2. \A x : Len(<<x>>) = 1 /\ <<x>>[1] = x
    OBVIOUS
  <2>3. \A i \in 1 .. n : Shape(s[i])
    BY DEF Looped, Shaped
  <2>4. \A i \in 1 .. n : s[i].k = K => BlockOf(s[i], ss[i])
    BY DEF Rewritten
  <2> QED BY <2>1, <2>2, <2>3, <2>4
<1> HIDE DEF n, T
(* Where the operations come from. *)
<1>8. \A k \in T : s[p[k][1]].k # K =>
        t[k] = s[p[k][1]] /\ p[k] = <<p[k][1], 1>> /\ Len(ss[p[k][1]]) = 1
  BY <1>3 DEF Placed, T
<1>9. ASSUME NEW k \in T, s[p[k][1]].k = K
      PROVE  /\ Shape(t[k])
             /\ t[k].k = "start" <=> p[k] = <<p[k][1], Len(ss[p[k][1]]) - 1>>
             /\ t[k].k = "wait" <=> p[k] = <<p[k][1], Len(ss[p[k][1]])>>
             /\ t[k].k \notin {"kernel", "call", "forall", "end", "dealloc"}
             /\ t[k].ex \in {"none", s[p[k][1]].ex}
             /\ t[k].k \in {"start", "wait"} => t[k].inv = s[p[k][1]].inv /\ t[k].ex = s[p[k][1]].ex
             /\ Len(ss[p[k][1]]) > 1 /\ Len(ss[p[k][1]]) \in Nat
  <2> DEFINE i == p[k][1]
             j == p[k][2]
             b == ss[i]
  <2>1. i \in 1 .. n /\ j \in 1 .. Len(b) /\ p[k] = <<i, j>> /\ t[k] = b[j]
    BY <1>5
  <2>2. BlockOf(s[i], b)
    BY <1>7, <1>9, <2>1
  <2> HIDE DEF i, j, b
  <2>3. /\ Shape(b[j])
        /\ b[j].k = "start" <=> j = Len(b) - 1
        /\ b[j].k = "wait" <=> j = Len(b)
        /\ b[j].k \notin {"kernel", "call", "forall", "end", "dealloc"}
        /\ b[j].ex \in {"none", s[i].ex}
        /\ b[j].k \in {"start", "wait"} => b[j].inv = s[i].inv /\ b[j].ex = s[i].ex
        /\ Len(b) > 1 /\ Len(b) \in Nat
    BY <2>1, <2>2 DEF BlockOf
  <2>4. (p[k] = <<i, Len(b) - 1>> <=> j = Len(b) - 1) /\ (p[k] = <<i, Len(b)>> <=> j = Len(b))
    BY <2>1
  <2> QED BY <2>1, <2>3, <2>4 DEF i, j, b
<1>10. ASSUME NEW k \in T, t[k].k \in Launches
       PROVE  /\ s[p[k][1]].k \in Launches /\ t[k].inv = s[p[k][1]].inv /\ t[k].ex = s[p[k][1]].ex
              /\ s[p[k][1]].k = K => t[k].k = "start" /\ p[k] = <<p[k][1], Len(ss[p[k][1]]) - 1>>
              /\ s[p[k][1]].k # K => p[k] = <<p[k][1], 1>> /\ t[k] = s[p[k][1]]
  BY <1>8, <1>9, <1>10 DEF Launches
<1>11. \A k \in T : t[k].k \in {"forall", "end"} =>
         t[k] = s[p[k][1]] /\ p[k] = <<p[k][1], 1>> /\ Len(ss[p[k][1]]) = 1
  BY <1>3 DEF Placed, T
<1>12. \A i \in 1 .. n : s[i].k # K => \E k \in T : p[k] = <<i, 1>> /\ p[k][1] = i /\ t[k] = s[i]
  BY <1>3 DEF Placed, T, n
<1>13. ASSUME NEW i \in 1 .. n, s[i].k = K
       PROVE  \E a, b \in T : /\ p[a] = <<i, Len(ss[i]) - 1>> /\ p[b] = <<i, Len(ss[i])>>
                              /\ p[a][1] = i /\ p[b][1] = i /\ a < b /\ Match(t[a], t[b])
                              /\ t[b].ex = s[i].ex
  <2>1. Len(ss[i]) > 1 /\ Len(ss[i]) \in Nat
    BY <1>7, <1>13 DEF BlockOf
  <2>2. Len(ss[i]) - 1 \in 1 .. Len(ss[i]) /\ Len(ss[i]) \in 1 .. Len(ss[i])
    BY <2>1
  <2>3. PICK a \in T : p[a] = <<i, Len(ss[i]) - 1>>
    BY <1>5, <2>2
  <2>4. PICK b \in T : p[b] = <<i, Len(ss[i])>>
    BY <1>5, <2>2
  <2>5. p[a][1] = i /\ p[b][1] = i /\ Earlier(p[a], p[b])
    BY <2>1, <2>3, <2>4 DEF Earlier
  <2>6. t[a].k = "start" /\ t[b].k = "wait"
    BY <1>9, <1>13, <2>3, <2>4, <2>5
  <2>7. t[a].inv = s[i].inv /\ t[a].ex = s[i].ex /\ t[b].inv = s[i].inv /\ t[b].ex = s[i].ex
    BY <1>9, <1>13, <2>5, <2>6
  <2> QED BY <1>5, <2>3, <2>4, <2>5, <2>6, <2>7, SMTT(30) DEF Match
<1>14. ASSUME NEW k \in T, NEW l \in T, p[k][1] < p[l][1] PROVE k < l
  BY <1>5, <1>14 DEF Earlier
<1>16. \A k \in T : Inside(t, k) <=> Inside(s, p[k][1])
  BY <1>3 DEF Placed, T
(* The parts of Looped. *)
<1>17. Shaped(t)
  <2>1. ASSUME NEW k \in T PROVE Shape(t[k])
    <3>1. CASE s[p[k][1]].k = K
      BY <1>9, <3>1
    <3>2. CASE s[p[k][1]].k # K
      BY <1>5, <1>7, <1>8, <3>2
    <3> QED BY <3>1, <3>2
  <2> QED BY <1>2, <2>1 DEF Shaped, T
<1>18. OneLoop(t)
  <2>1. OneLoop(s)
    BY DEF Looped
  <2>2. ASSUME NEW k \in T, NEW l \in T, NEW m \in {"forall", "end"}, t[k].k = m, t[l].k = m
        PROVE  k = l
    <3>1. s[p[k][1]].k = m /\ s[p[l][1]].k = m /\ p[k] = <<p[k][1], 1>> /\ p[l] = <<p[l][1], 1>>
      BY <1>11, <2>2
    <3>2. p[k][1] = p[l][1]
      BY <1>5, <2>1, <3>1 DEF OneLoop, n
    <3> QED BY <1>5, <3>1, <3>2
  <2>3. ASSUME NEW l \in T, t[l].k = "forall" PROVE \E e \in T : t[e].k = "end" /\ l < e
    <3>1. s[p[l][1]].k = "forall" /\ p[l][1] \in 1 .. n
      BY <1>5, <1>11, <2>3
    <3>2. PICK i \in 1 .. n : s[i].k = "end" /\ p[l][1] < i
      BY <2>1, <3>1 DEF OneLoop, n
    <3>3. PICK e \in T : p[e][1] = i /\ t[e] = s[i]
      BY <1>12, <3>2
    <3> QED BY <1>14, <3>2, <3>3
  <2>4. ASSUME NEW e \in T, t[e].k = "end" PROVE \E l \in T : t[l].k = "forall" /\ l < e
    <3>1. s[p[e][1]].k = "end" /\ p[e][1] \in 1 .. n
      BY <1>5, <1>11, <2>4
    <3>2. PICK i \in 1 .. n : s[i].k = "forall" /\ i < p[e][1]
      BY <2>1, <3>1 DEF OneLoop, n
    <3>3. PICK l \in T : p[l][1] = i /\ t[l] = s[i]
      BY <1>12, <3>2
    <3> QED BY <1>14, <3>2, <3>3
  <2> QED BY <2>2, <2>3, <2>4 DEF OneLoop, T
<1>19. LaunchedOnce(t)
  <2>1. ASSUME NEW k \in T, NEW l \in T, t[k].k \in Launches, t[l].k \in Launches, t[k].inv = t[l].inv
        PROVE  k = l
    <3>1. p[k][1] = p[l][1]
      BY <1>5, <1>10, <2>1, SMTT(30) DEF Looped, LaunchedOnce, n
    <3>2. p[k] = p[l]
      BY <1>10, <2>1, <3>1
    <3> QED BY <1>5, <3>2
  <2> QED BY <2>1 DEF LaunchedOnce, T
<1>20. First(t)
  <2>1. ASSUME NEW k \in T, t[k].k \in Launches \cup {"wait"} PROVE t[k].inv.it = 0
    <3>1. s[p[k][1]].k \in Launches \cup {"wait"} /\ t[k].inv = s[p[k][1]].inv
      BY <1>8, <1>9, <1>10, <2>1 DEF Launches
    <3> QED BY <1>5, <3>1 DEF Looped, First, n
  <2> QED BY <2>1 DEF First, T
<1>21. WaitsStarted(t)
  <2>1. ASSUME NEW k \in T, t[k].k = "wait" PROVE \E l \in T : l < k /\ Match(t[l], t[k])
    <3>1. CASE s[p[k][1]].k = K
      <4>1. PICK a \in T, b \in T : /\ p[b] = <<p[k][1], Len(ss[p[k][1]])>>
                                    /\ a < b /\ Match(t[a], t[b])
        BY <1>5, <1>13, <3>1
      <4>2. p[k] = <<p[k][1], Len(ss[p[k][1]])>>
        BY <1>9, <2>1, <3>1
      <4>3. b = k
        BY <1>5, <4>1, <4>2
      <4> QED BY <4>1, <4>3
    <3>2. CASE s[p[k][1]].k # K
      <4>1. t[k] = s[p[k][1]] /\ p[k][1] \in 1 .. n
        BY <1>5, <1>8, <3>2
      <4>2. PICK i \in 1 .. n : i < p[k][1] /\ Match(s[i], s[p[k][1]])
        BY <2>1, <4>1 DEF Looped, WaitsStarted, n
      <4>3. s[i].k # K
        BY <4>2 DEF Match
      <4>4. PICK l \in T : p[l][1] = i /\ t[l] = s[i]
        BY <1>12, <4>3
      <4> QED BY <1>14, <4>1, <4>2, <4>4
    <3> QED BY <3>1, <3>2
  <2> QED BY <2>1 DEF WaitsStarted, T
<1>22. StartsWaited(t)
  <2>1. ASSUME NEW k \in T, t[k].k = "start" PROVE \E l \in T : k < l /\ Match(t[k], t[l])
    <3>1. CASE s[p[k][1]].k = K
      <4>1. PICK a \in T, b \in T : /\ p[a] = <<p[k][1], Len(ss[p[k][1]]) - 1>>
                                    /\ a < b /\ Match(t[a], t[b])
        BY <1>5, <1>13, <3>1
      <4>2. p[k] = <<p[k][1], Len(ss[p[k][1]]) - 1>>
        BY <1>9, <2>1, <3>1
      <4>3. a = k
        <5>1. p[a] = p[k]
          BY <4>1, <4>2
        <5>2. \A i, j \in T : p[i] = p[j] => i = j
          BY <1>5
        <5> HIDE DEF T
        <5> QED BY <4>1, <5>1, <5>2
      <4> QED BY <4>1, <4>3
    <3>2. CASE s[p[k][1]].k # K
      <4>1. t[k] = s[p[k][1]] /\ p[k][1] \in 1 .. n
        BY <1>5, <1>8, <3>2
      <4>2. PICK i \in 1 .. n : p[k][1] < i /\ Match(s[p[k][1]], s[i])
        BY <2>1, <4>1 DEF Looped, StartsWaited, n
      <4>3. s[i].k # K
        BY <4>2 DEF Match
      <4>4. PICK l \in T : p[l][1] = i /\ t[l] = s[i]
        BY <1>12, <4>3
      <4> QED BY <1>14, <4>1, <4>2, <4>4
    <3> QED BY <3>1, <3>2
  <2> QED BY <2>1 DEF StartsWaited, T
<1>27. WaitedOnce(t)
  <2>0. LaunchedOnce(s) /\ WaitsStarted(s) /\ WaitedOnce(s)
    BY DEF Looped
  <2>1. ASSUME NEW k \in T, NEW l \in T, t[k].k = "wait", t[l].k = "wait", t[k].inv = t[l].inv
        PROVE  p[k][1] = p[l][1]
    <3>0. p[k][1] \in 1 .. n /\ p[l][1] \in 1 .. n
      BY <1>5
    <3>1. ASSUME NEW a \in T, NEW b \in T, t[a].k = "wait", t[b].k = "wait", t[a].inv = t[b].inv,
                 s[p[a][1]].k = K, s[p[b][1]].k # K
          PROVE  FALSE
      <4>1. t[a].inv = s[p[a][1]].inv /\ p[a][1] \in 1 .. n /\ p[b][1] \in 1 .. n
        BY <1>5, <1>9, <3>1
      <4>2. t[b] = s[p[b][1]]
        BY <1>8, <3>1
      <4>3. PICK i \in 1 .. n : Match(s[i], s[p[b][1]])
        BY <2>0, <3>1, <4>1, <4>2 DEF WaitsStarted, n
      <4>4. i = p[a][1]
        BY <2>0, <3>1, <4>1, <4>2, <4>3 DEF LaunchedOnce, Launches, Match, n
      <4> QED BY <3>1, <4>3, <4>4 DEF Match
    <3>2. CASE s[p[k][1]].k = K /\ s[p[l][1]].k = K
      <4>1. t[k].inv = s[p[k][1]].inv /\ t[l].inv = s[p[l][1]].inv
        BY <1>9, <2>1, <3>2
      <4> QED BY <2>0, <2>1, <3>0, <3>2, <4>1 DEF LaunchedOnce, Launches, n
    <3>3. CASE s[p[k][1]].k # K /\ s[p[l][1]].k # K
      <4>1. t[k] = s[p[k][1]] /\ t[l] = s[p[l][1]]
        BY <1>8, <3>3
      <4> QED BY <2>0, <2>1, <3>0, <4>1 DEF WaitedOnce, n
    <3> QED BY <2>1, <3>1, <3>2, <3>3
  <2>2. ASSUME NEW k \in T, NEW l \in T, t[k].k = "wait", t[l].k = "wait", t[k].inv = t[l].inv
        PROVE  k = l
    <3>1. p[k][1] = p[l][1]
      BY <2>1, <2>2
    <3>2. p[k] = p[l]
      <4>1. CASE s[p[k][1]].k = K
        BY <1>9, <2>2, <3>1, <4>1
      <4>2. CASE s[p[k][1]].k # K
        BY <1>8, <3>1, <4>2
      <4> QED BY <4>1, <4>2
    <3> QED BY <1>5, <3>2
  <2> QED BY <2>2 DEF WaitedOnce, T
<1>23. CssInTurn(t)
  <2>1. ASSUME NEW k \in T, NEW l \in T, k < l, t[k].k = "start", t[k].ex = "css",
               t[l].k \in Launches, t[l].ex = "css"
        PROVE  \E m \in T : k < m /\ m < l /\ t[m].k = "wait" /\ t[m].ex = "css"
    <3>0. t[k].k \in Launches /\ p[k][1] \in 1 .. n /\ p[l][1] \in 1 .. n
      BY <1>5, <2>1 DEF Launches
    <3>1. p[k][1] < p[l][1]
      <4>1. p[k][1] # p[l][1]
        <5>1. SUFFICES ASSUME p[k][1] = p[l][1] PROVE FALSE
          OBVIOUS
        <5>2. p[k] = p[l]
          BY <1>10, <2>1, <3>0, <5>1
        <5> QED BY <1>5, <1>6, <2>1, <5>2 DEF T
      <4>2. Earlier(p[k], p[l])
        BY <1>5, <2>1
      <4> QED BY <4>1, <4>2 DEF Earlier
    <3>2. CASE s[p[k][1]].k = K
      <4>1. PICK a \in T, b \in T : /\ p[a] = <<p[k][1], Len(ss[p[k][1]]) - 1>>
                                    /\ a < b /\ Match(t[a], t[b]) /\ t[b].ex = s[p[k][1]].ex
                                    /\ p[b][1] = p[k][1]
        BY <1>5, <1>13, <3>2
      <4>2. a = k
        <5>1. p[k] = <<p[k][1], Len(ss[p[k][1]]) - 1>>
          BY <1>9, <2>1, <3>2
        <5>2. p[a] = p[k]
          BY <4>1, <5>1
        <5>3. \A i, j \in T : p[i] = p[j] => i = j
          BY <1>5
        <5> HIDE DEF T
        <5> QED BY <4>1, <5>2, <5>3
      <4>3. t[b].ex = "css" /\ t[b].k = "wait"
        BY <1>10, <2>1, <3>0, <4>1 DEF Match
      <4>4. b < l
        BY <1>14, <3>1, <4>1
      <4> QED BY <4>1, <4>2, <4>3, <4>4
    <3>3. CASE s[p[k][1]].k # K
      <4>1. /\ s[p[k][1]].k = "start" /\ s[p[k][1]].ex = "css"
            /\ s[p[l][1]].k \in Launches /\ s[p[l][1]].ex = "css"
        BY <1>8, <1>10, <2>1, <3>3
      <4>2. PICK i \in 1 .. n : p[k][1] < i /\ i < p[l][1] /\ s[i].k = "wait" /\ s[i].ex = "css"
        BY <3>0, <3>1, <4>1 DEF Looped, CssInTurn, n
      <4>3. s[i].k # K
        BY <4>2
      <4>4. PICK m \in T : p[m][1] = i /\ t[m] = s[i]
        BY <1>12, <4>3
      <4> QED BY <1>14, <4>2, <4>4
    <3> QED BY <3>2, <3>3
  <2> QED BY <2>1 DEF CssInTurn, T
<1>24. LoopOfSlices(t)
  <2>0. LoopOfSlices(s) /\ LaunchedOnce(s) /\ WaitsStarted(s)
    BY DEF Looped
  <2>1. ASSUME NEW k \in T, Inside(t, k) PROVE t[k].ex \in {"none", "slice"}
    <3>1. Inside(s, p[k][1]) /\ p[k][1] \in 1 .. n
      BY <1>5, <1>16, <2>1
    <3>2. s[p[k][1]].ex \in {"none", "slice"}
      BY <2>0, <3>1 DEF LoopOfSlices, n
    <3> QED BY <1>8, <1>9, <3>2
  <2>2. ASSUME NEW k \in T, NEW l \in T, Match(t[k], t[l]) PROVE Inside(t, k) <=> Inside(t, l)
    <3>1. t[k].k \in Launches /\ t[k].k = "start" /\ t[l].k = "wait" /\ t[k].inv = t[l].inv
      BY <2>2 DEF Match, Launches
    <3>2. t[k].inv = s[p[k][1]].inv /\ s[p[k][1]].k \in Launches /\ p[k][1] \in 1 .. n /\ p[l][1] \in 1 .. n
      BY <1>5, <1>10, <3>1
    <3>3. CASE s[p[l][1]].k = K
      <4>1. t[l].inv = s[p[l][1]].inv /\ s[p[l][1]].k \in Launches
        BY <1>9, <3>1, <3>3 DEF Launches
      <4>2. p[k][1] = p[l][1]
        BY <2>0, <3>1, <3>2, <4>1 DEF LaunchedOnce, n
      <4> QED BY <1>16, <4>2
    <3>4. CASE s[p[l][1]].k # K
      <4>1. t[l] = s[p[l][1]]
        BY <1>8, <3>4
      <4>2. PICK i \in 1 .. n : Match(s[i], s[p[l][1]])
        BY <2>0, <3>1, <3>2, <4>1 DEF WaitsStarted, n
      <4>3. i = p[k][1]
        BY <2>0, <3>1, <3>2, <4>1, <4>2 DEF LaunchedOnce, Launches, Match, n
      <4>4. Inside(s, p[k][1]) <=> Inside(s, p[l][1])
        BY <2>0, <3>2, <4>2, <4>3 DEF LoopOfSlices, n
      <4> QED BY <1>16, <4>4
    <3> QED BY <3>3, <3>4
  <2> QED BY <2>1, <2>2 DEF LoopOfSlices, T
<1>25. Looped(t)
  BY <1>17, <1>18, <1>19, <1>20, <1>21, <1>22, <1>23, <1>24, <1>27 DEF Looped
<1>26. ASSUME NEW k \in T, t[k].k \in {"call", "kernel"}
       PROVE  t[k].k # K /\ \E i \in 1 .. n : s[i].k = t[k].k
  BY <1>5, <1>8, <1>9, <1>26
<1> QED BY <1>25, <1>26 DEF t, T, n

(* Short sequences.                                                         *)
LEMMA Join2And6 ==
  ASSUME NEW a, NEW b, NEW c, NEW d, NEW e, NEW f, NEW g, NEW h
  PROVE  <<a, b>> \o <<c, d, e, f, g, h>> = <<a, b, c, d, e, f, g, h>>
PROOF
<1> DEFINE S == {a, b, c, d, e, f, g, h}
           x == <<a, b>>
           y == <<c, d, e, f, g, h>>
<1>1. x \in Seq(S) /\ y \in Seq(S) /\ <<a, b, c, d, e, f, g, h>> \in Seq(S)
  OBVIOUS
<1>2. /\ x \o y \in Seq(S) /\ Len(x \o y) = 8
      /\ \A i \in 1 .. 8 : (x \o y)[i] = IF i <= 2 THEN x[i] ELSE y[i - 2]
  BY <1>1, ConcatProperties
<1>3. \A i \in 1 .. 8 : (x \o y)[i] = <<a, b, c, d, e, f, g, h>>[i]
  BY <1>2
<1> QED BY <1>1, <1>2, <1>3, SeqEqual

(* Concatenation of literal sequences. *)
LEMMA Join1And8 ==
  ASSUME NEW a, NEW b, NEW c, NEW d, NEW e, NEW f, NEW g, NEW h, NEW i
  PROVE  <<a>> \o <<b, c, d, e, f, g, h, i>> = <<a, b, c, d, e, f, g, h, i>>
PROOF
<1> DEFINE S == {a, b, c, d, e, f, g, h, i}
           x == <<a>>
           y == <<b, c, d, e, f, g, h, i>>
<1>1. x \in Seq(S) /\ y \in Seq(S) /\ <<a, b, c, d, e, f, g, h, i>> \in Seq(S)
  OBVIOUS
<1>2. /\ x \o y \in Seq(S) /\ Len(x \o y) = 9
      /\ \A j \in 1 .. 9 : (x \o y)[j] = IF j <= 1 THEN x[j] ELSE y[j - 1]
  BY <1>1, ConcatProperties
<1>3. \A j \in 1 .. 9 : (x \o y)[j] = <<a, b, c, d, e, f, g, h, i>>[j]
  BY <1>2
<1> QED BY <1>1, <1>2, <1>3, SeqEqual

(* Concatenation of literal sequences. *)
LEMMA Join9And2 ==
  ASSUME NEW a, NEW b, NEW c, NEW d, NEW e, NEW f, NEW g, NEW h, NEW i, NEW j, NEW k
  PROVE  <<a, b, c, d, e, f, g, h, i>> \o <<j, k>> = <<a, b, c, d, e, f, g, h, i, j, k>>
PROOF
<1> DEFINE S == {a, b, c, d, e, f, g, h, i, j, k}
           x == <<a, b, c, d, e, f, g, h, i>>
           y == <<j, k>>
<1>1. x \in Seq(S) /\ y \in Seq(S) /\ <<a, b, c, d, e, f, g, h, i, j, k>> \in Seq(S)
  OBVIOUS
<1>2. /\ x \o y \in Seq(S) /\ Len(x \o y) = 11
      /\ \A l \in 1 .. 11 : (x \o y)[l] = IF l <= 9 THEN x[l] ELSE y[l - 9]
  BY <1>1, ConcatProperties
<1>3. \A l \in 1 .. 11 : (x \o y)[l] = <<a, b, c, d, e, f, g, h, i, j, k>>[l]
  BY <1>2
<1> QED BY <1>1, <1>2, <1>3, SeqEqual

(* Concatenation of literal sequences. *)
LEMMA Join1And2 ==
  ASSUME NEW a, NEW b, NEW c
  PROVE  <<a>> \o <<b, c>> = <<a, b, c>>
PROOF
<1> DEFINE S == {a, b, c}
           x == <<a>>
           y == <<b, c>>
<1>1. x \in Seq(S) /\ y \in Seq(S) /\ <<a, b, c>> \in Seq(S)
  OBVIOUS
<1>2. /\ x \o y \in Seq(S) /\ Len(x \o y) = 3
      /\ \A j \in 1 .. 3 : (x \o y)[j] = IF j <= 1 THEN x[j] ELSE y[j - 1]
  BY <1>1, ConcatProperties
<1>3. \A j \in 1 .. 3 : (x \o y)[j] = <<a, b, c>>[j]
  BY <1>2
<1> QED BY <1>1, <1>2, <1>3, SeqEqual

(* Concatenation of literal sequences. *)
LEMMA Join3And2 ==
  ASSUME NEW a, NEW b, NEW c, NEW d, NEW e
  PROVE  <<a, b, c>> \o <<d, e>> = <<a, b, c, d, e>>
PROOF
<1> DEFINE S == {a, b, c, d, e}
           x == <<a, b, c>>
           y == <<d, e>>
<1>1. x \in Seq(S) /\ y \in Seq(S) /\ <<a, b, c, d, e>> \in Seq(S)
  OBVIOUS
<1>2. /\ x \o y \in Seq(S) /\ Len(x \o y) = 5
      /\ \A j \in 1 .. 5 : (x \o y)[j] = IF j <= 3 THEN x[j] ELSE y[j - 3]
  BY <1>1, ConcatProperties
<1>3. \A j \in 1 .. 5 : (x \o y)[j] = <<a, b, c, d, e>>[j]
  BY <1>2
<1> QED BY <1>1, <1>2, <1>3, SeqEqual

(* What LowerCall and OutlineOp make of an operation, written out. *)
LEMMA BlocksAre ==
  ASSUME NEW op
  PROVE  /\ LowerCall(op) = IF op.ex = "css" THEN CssBlock(op) ELSE HostBlock(op)
         /\ OutlineOp(op) = SliceBlock(op)
PROOF
<1>1. CssCode(op.inv) =
        <<AllocOp(Near(op.inv, "lc", "lram")),
          Use("load", <<Near(op.inv, "lc", "lram"), Section(op.inv, 1)>>),
          AllocOp(Near(op.inv, "ic", "itcm")),
          Use("copy", <<Near(op.inv, "ic", "itcm"), Near(op.inv, "lc", "lram")>>),
          AllocOp(Near(op.inv, "lg", "lram")),
          Use("load", <<Near(op.inv, "lg", "lram"), Section(op.inv, 2)>>),
          AllocOp(Near(op.inv, "dg", "dtcm")),
          Use("copy", <<Near(op.inv, "dg", "dtcm"), Near(op.inv, "lg", "lram")>>)>>
  BY Join2And6 DEF CssCode, CodeToLram
<1>2. LowerCall(op) = IF op.ex = "css" THEN CssBlock(op) ELSE HostBlock(op)
  <2>1. CASE op.ex = "css"
    <3>1. LowerCall(op) = (<<InvOp(op.inv, "css", <<Section(op.inv, 1), Section(op.inv, 2)>>)>> \o CssCode(op.inv)) \o
             <<StartOp(op.inv, "css", <<Near(op.inv, "ic", "itcm"), Near(op.inv, "dg", "dtcm")>>, op.args),
               WaitOp(op.inv, "css")>>
      BY <2>1 DEF LowerCall
    <3> DEFINE i == InvOp(op.inv, "css", <<Section(op.inv, 1), Section(op.inv, 2)>>)
               a == AllocOp(Near(op.inv, "lc", "lram"))
               b == Use("load", <<Near(op.inv, "lc", "lram"), Section(op.inv, 1)>>)
               c == AllocOp(Near(op.inv, "ic", "itcm"))
               d == Use("copy", <<Near(op.inv, "ic", "itcm"), Near(op.inv, "lc", "lram")>>)
               e == AllocOp(Near(op.inv, "lg", "lram"))
               f == Use("load", <<Near(op.inv, "lg", "lram"), Section(op.inv, 2)>>)
               g == AllocOp(Near(op.inv, "dg", "dtcm"))
               h == Use("copy", <<Near(op.inv, "dg", "dtcm"), Near(op.inv, "lg", "lram")>>)
               s == StartOp(op.inv, "css", <<Near(op.inv, "ic", "itcm"), Near(op.inv, "dg", "dtcm")>>, op.args)
               w == WaitOp(op.inv, "css")
    <3>2. CssCode(op.inv) = <<a, b, c, d, e, f, g, h>>
      BY <1>1
    <3>3. CssBlock(op) = <<i, a, b, c, d, e, f, g, h, s, w>>
      BY DEF CssBlock
    <3>4. LowerCall(op) = (<<i>> \o CssCode(op.inv)) \o <<s, w>>
      BY <3>1
    <3> HIDE DEF i, a, b, c, d, e, f, g, h, s, w
    <3>5. <<i>> \o <<a, b, c, d, e, f, g, h>> = <<i, a, b, c, d, e, f, g, h>>
      BY Join1And8
    <3>6. <<i, a, b, c, d, e, f, g, h>> \o <<s, w>> = <<i, a, b, c, d, e, f, g, h, s, w>>
      BY Join9And2
    <3> QED BY <2>1, <3>2, <3>3, <3>4, <3>5, <3>6
  <2>2. CASE op.ex # "css"
    BY <2>2 DEF LowerCall, HostBlock
  <2> QED BY <2>1, <2>2
<1>3. OutlineOp(op) = SliceBlock(op)
  <2>1. OutlineOp(op) = (<<InvOp(op.inv, "slice", <<Section(op.inv, 1)>>)>> \o CodeToLram(op.inv)) \o
          <<StartOp(op.inv, "slice", <<Near(op.inv, "lc", "lram")>>, op.args), WaitOp(op.inv, "slice")>>
    BY DEF OutlineOp
  <2> DEFINE a == InvOp(op.inv, "slice", <<Section(op.inv, 1)>>)
             b == AllocOp(Near(op.inv, "lc", "lram"))
             c == Use("load", <<Near(op.inv, "lc", "lram"), Section(op.inv, 1)>>)
             d == StartOp(op.inv, "slice", <<Near(op.inv, "lc", "lram")>>, op.args)
             e == WaitOp(op.inv, "slice")
  <2>2. CodeToLram(op.inv) = <<b, c>> /\ SliceBlock(op) = <<a, b, c, d, e>>
    BY DEF CodeToLram, SliceBlock
  <2>3. OutlineOp(op) = (<<a>> \o CodeToLram(op.inv)) \o <<d, e>>
    BY <2>1
  <2> HIDE DEF a, b, c, d, e
  <2>4. <<a>> \o <<b, c>> = <<a, b, c>>
    BY Join1And2
  <2>5. <<a, b, c>> \o <<d, e>> = <<a, b, c, d, e>>
    BY Join3And2
  <2> QED BY <2>2, <2>3, <2>4, <2>5
<1> QED BY <1>2, <1>3

(* The buffers and sections of the code of a program. *)
LEMMA NearTyped ==
  ASSUME NEW inv \in InvRec
  PROVE  /\ \A nm \in Names, sp \in Spaces : /\ Near(inv, nm, sp) \in Value
                                             /\ Near(inv, nm, sp).base[2] = nm
                                             /\ Near(inv, nm, sp).sp = sp
         /\ \A j \in 1 .. 2 : /\ Section(inv, j) \in Value
                              /\ Section(inv, j).base[2] \in {"c", "g"}
                              /\ Section(inv, j).sp = "xram"
PROOF
<1>1. inv.id[1] \in Nat /\ inv.it \in Nat
  BY DEF InvRec, Ids
<1>2. \A nm \in Names : <<inv.id[1], nm>> \in Ids
  BY <1>1 DEF Ids
<1>3. ASSUME NEW nm \in Names, NEW sp \in Spaces
      PROVE  /\ Val(<<inv.id[1], nm>>, sp, 1) \in Value
             /\ Val(<<inv.id[1], nm>>, sp, 1).base[2] = nm
             /\ Val(<<inv.id[1], nm>>, sp, 1).sp = sp
  BY <1>2 DEF Val, Value
<1>4. ASSUME NEW v \in Value
      PROVE  /\ [v EXCEPT !.it = inv.it] \in Value
             /\ [v EXCEPT !.it = inv.it].base = v.base
             /\ [v EXCEPT !.it = inv.it].sp = v.sp
  BY <1>1 DEF Value
<1>5. ASSUME NEW nm \in Names, NEW sp \in Spaces
      PROVE  Near(inv, nm, sp) \in Value /\ Near(inv, nm, sp).base[2] = nm /\ Near(inv, nm, sp).sp = sp
  BY <1>3 DEF Near
<1>6. ASSUME NEW j \in 1 .. 2
      PROVE  Section(inv, j) \in Value /\ Section(inv, j).base[2] \in {"c", "g"} /\ Section(inv, j).sp = "xram"
  <2>1. <<"c", "g">>[j] \in {"c", "g"} /\ <<"c", "g">>[j] \in Names /\ "xram" \in Spaces
    BY DEF Names, Spaces
  <2> DEFINE v == Val(<<inv.id[1], <<"c", "g">>[j]>>, "xram", 1)
  <2>2. v \in Value /\ v.base[2] \in {"c", "g"} /\ v.sp = "xram"
    BY <1>3, <2>1
  <2>3. Section(inv, j) = [v EXCEPT !.it = inv.it]
    BY DEF Section
  <2> HIDE DEF v
  <2> QED BY <1>4, <2>2, <2>3
<1> QED BY <1>5, <1>6

(* A start has its type and shape. *)
LEMMA StartIsOp ==
  ASSUME NEW inv \in InvRec, NEW ex \in {"slice", "css", "host"}, NEW code \in Seq(Value),
         NEW args \in Seq(Value), args # << >>
  PROVE  OfProgram(StartOp(inv, ex, code, args), "start", inv, ex)
PROOF
<1>1. NoVal \in Value
  BY DEF NoVal, Val, Value, Ids, Names, Spaces
<1> HIDE DEF Value, InvRec
<1>2. StartOp(inv, ex, code, args) \in SomeOp
  BY <1>1 DEF StartOp, Op, SomeOp
<1>3. Shape(StartOp(inv, ex, code, args))
  BY DEF Shape, StartOp, Op, Launches, Simple
<1> QED BY <1>2, <1>3 DEF StartOp, Op, OfProgram

(* A wait has its type and shape. *)
LEMMA WaitIsOp ==
  ASSUME NEW inv \in InvRec, NEW ex \in {"slice", "css", "host"}
  PROVE  OfProgram(WaitOp(inv, ex), "wait", inv, ex)
PROOF
<1>1. << >> \in Seq(Value)
  OBVIOUS
<1>2. NoVal \in Value
  BY DEF NoVal, Val, Value, Ids, Names, Spaces
<1> HIDE DEF Value, InvRec
<1>3. WaitOp(inv, ex) \in SomeOp
  BY <1>1, <1>2 DEF WaitOp, Op, SomeOp
<1>4. Shape(WaitOp(inv, ex))
  BY DEF Shape, WaitOp, Op, Launches, Simple
<1> QED BY <1>3, <1>4 DEF WaitOp, Op, OfProgram

(* An invocation has its type and shape. *)
LEMMA InvIsOp ==
  ASSUME NEW inv \in InvRec, NEW ex \in {"slice", "css", "host"}, NEW code \in Seq(Value),
         ex = "host" => code = << >>,
         \A j \in DOMAIN code : code[j].base[2] \in {"c", "g"} /\ code[j].sp = "xram"
  PROVE  OfProgram(InvOp(inv, ex, code), "inv", inv, ex)
PROOF
<1>1. << >> \in Seq(Value)
  OBVIOUS
<1>2. NoVal \in Value
  BY DEF NoVal, Val, Value, Ids, Names, Spaces
<1> HIDE DEF Value, InvRec
<1>3. InvOp(inv, ex, code) \in SomeOp
  BY <1>1, <1>2 DEF InvOp, Op, SomeOp
<1>4. Shape(InvOp(inv, ex, code))
  BY DEF Shape, InvOp, Op, Launches, Simple
<1> QED BY <1>3, <1>4 DEF InvOp, Op, OfProgram

(* LowerCall and OutlineOp end with the start and the wait of the        *)
(* program, and have no other.                                           *)
LEMMA BlocksOf ==
  ASSUME NEW op \in SomeOp, Shape(op)
  PROVE  /\ op.k = "call" => BlockOf(op, LowerCall(op))
         /\ op.k = "kernel" => BlockOf(op, OutlineOp(op))
PROOF
<1> DEFINE inv == op.inv
<1>1. SUFFICES ASSUME op.k \in {"call", "kernel"}
               PROVE  /\ op.k = "call" => BlockOf(op, LowerCall(op))
                      /\ op.k = "kernel" => BlockOf(op, OutlineOp(op))
  OBVIOUS
<1>2. /\ inv \in InvRec /\ op.args \in Seq(Value) /\ op.args # << >>
      /\ op.k = "kernel" => op.ex = "slice"
      /\ op.k = "call" => op.ex \in {"css", "host"}
  BY <1>1 DEF Shape, SomeOp, Launches
<1> DEFINE c1 == Section(inv, 1)
           c2 == Section(inv, 2)
           lc == Near(inv, "lc", "lram")
           ic == Near(inv, "ic", "itcm")
           lg == Near(inv, "lg", "lram")
           dg == Near(inv, "dg", "dtcm")
<1> HIDE DEF inv
<1>3. /\ c1 \in Value /\ c1.base[2] \in {"c", "g"} /\ c1.sp = "xram"
      /\ c2 \in Value /\ c2.base[2] \in {"c", "g"} /\ c2.sp = "xram"
  BY <1>2, NearTyped
<1>4. /\ lc \in Value /\ lc.base[2] \in Buffers /\ lc.sp # "none"
      /\ ic \in Value /\ ic.base[2] \in Buffers /\ ic.sp # "none"
      /\ lg \in Value /\ lg.base[2] \in Buffers /\ lg.sp # "none"
      /\ dg \in Value /\ dg.base[2] \in Buffers /\ dg.sp # "none"
  BY <1>2, NearTyped DEF Names, Spaces, Buffers
<1> HIDE DEF c1, c2, lc, ic, lg, dg
<1>5. /\ AllocOp(lc) \in SomeOp /\ Shape(AllocOp(lc)) /\ AllocOp(lc).k = "alloc" /\ AllocOp(lc).ex = "none"
      /\ AllocOp(ic) \in SomeOp /\ Shape(AllocOp(ic)) /\ AllocOp(ic).k = "alloc" /\ AllocOp(ic).ex = "none"
      /\ AllocOp(lg) \in SomeOp /\ Shape(AllocOp(lg)) /\ AllocOp(lg).k = "alloc" /\ AllocOp(lg).ex = "none"
      /\ AllocOp(dg) \in SomeOp /\ Shape(AllocOp(dg)) /\ AllocOp(dg).k = "alloc" /\ AllocOp(dg).ex = "none"
  BY <1>4, AllocIsOp
<1>6. ASSUME NEW k \in {"load", "copy"}, NEW x \in Value, NEW y \in Value
      PROVE  /\ Use(k, <<x, y>>) \in SomeOp /\ Shape(Use(k, <<x, y>>))
             /\ Use(k, <<x, y>>).k = k /\ Use(k, <<x, y>>).ex = "none"
  BY UseIsOp
<1> DEFINE u1 == Use("load", <<lc, c1>>)
           u2 == Use("copy", <<ic, lc>>)
           u3 == Use("load", <<lg, c2>>)
           u4 == Use("copy", <<dg, lg>>)
<1>7. /\ u1 \in SomeOp /\ Shape(u1) /\ u1.k = "load" /\ u1.ex = "none"
      /\ u2 \in SomeOp /\ Shape(u2) /\ u2.k = "copy" /\ u2.ex = "none"
      /\ u3 \in SomeOp /\ Shape(u3) /\ u3.k = "load" /\ u3.ex = "none"
      /\ u4 \in SomeOp /\ Shape(u4) /\ u4.k = "copy" /\ u4.ex = "none"
  BY <1>3, <1>4, <1>6
<1>8. << >> \in Seq(Value) /\ <<c1>> \in Seq(Value) /\ <<c1, c2>> \in Seq(Value)
      /\ <<lc>> \in Seq(Value) /\ <<ic, dg>> \in Seq(Value)
  BY <1>3, <1>4
<1> HIDE DEF u1, u2, u3, u4
<1>9. CASE op.k = "call" /\ op.ex = "css"
  <2> DEFINE io == InvOp(inv, "css", <<c1, c2>>)
             st == StartOp(inv, "css", <<ic, dg>>, op.args)
             wa == WaitOp(inv, "css")
             b == <<io, AllocOp(lc), u1, AllocOp(ic), u2, AllocOp(lg), u3, AllocOp(dg), u4, st, wa>>
  <2>1. OfProgram(io, "inv", inv, "css")
    <3>1. \A j \in DOMAIN <<c1, c2>> : <<c1, c2>>[j].base[2] \in {"c", "g"} /\ <<c1, c2>>[j].sp = "xram"
      BY <1>3
    <3> HIDE DEF Value
    <3> QED BY <1>2, <1>8, <3>1, InvIsOp
  <2>2. OfProgram(st, "start", inv, "css") /\ OfProgram(wa, "wait", inv, "css")
    BY <1>2, <1>8, StartIsOp, WaitIsOp
  <2>3. LowerCall(op) = b
    BY <1>9, BlocksAre DEF CssBlock, inv, c1, c2, lc, ic, lg, dg, u1, u2, u3, u4
  <2> HIDE DEF io, st, wa
  <2>4. b \in Seq(SomeOp) /\ Len(b) = 11
    BY <1>5, <1>7, <2>1, <2>2 DEF OfProgram
  <2>5. ASSUME NEW j \in 1 .. 11
        PROVE  /\ Shape(b[j])
               /\ b[j].k = "start" <=> j = 10
               /\ b[j].k = "wait" <=> j = 11
               /\ b[j].k \notin {"kernel", "call", "forall", "end", "dealloc"}
               /\ b[j].ex \in {"none", op.ex}
               /\ b[j].k \in {"start", "wait"} => b[j].inv = op.inv /\ b[j].ex = op.ex
    BY <1>5, <1>7, <1>9, <2>1, <2>2 DEF inv, OfProgram
  <2>6. BlockOf(op, b)
    <3> HIDE DEF b
    <3> QED BY <2>4, <2>5 DEF BlockOf
  <2> QED BY <1>9, <2>3, <2>6
<1>10. CASE op.k = "call" /\ op.ex = "host"
  <2> DEFINE io == InvOp(inv, "host", << >>)
             st == StartOp(inv, "host", << >>, op.args)
             wa == WaitOp(inv, "host")
             b == <<io, st, wa>>
  <2>1. OfProgram(io, "inv", inv, "host")
    <3>1. \A j \in DOMAIN << >> : << >>[j].base[2] \in {"c", "g"} /\ << >>[j].sp = "xram"
      OBVIOUS
    <3> QED BY <1>2, <1>8, <3>1, InvIsOp
  <2>2. OfProgram(st, "start", inv, "host") /\ OfProgram(wa, "wait", inv, "host")
    BY <1>2, <1>8, StartIsOp, WaitIsOp
  <2>3. LowerCall(op) = b
    BY <1>10, BlocksAre DEF HostBlock, inv
  <2> HIDE DEF io, st, wa
  <2>4. b \in Seq(SomeOp) /\ Len(b) = 3
    BY <2>1, <2>2 DEF OfProgram
  <2>5. ASSUME NEW j \in 1 .. 3
        PROVE  /\ Shape(b[j])
               /\ b[j].k = "start" <=> j = 2
               /\ b[j].k = "wait" <=> j = 3
               /\ b[j].k \notin {"kernel", "call", "forall", "end", "dealloc"}
               /\ b[j].ex \in {"none", op.ex}
               /\ b[j].k \in {"start", "wait"} => b[j].inv = op.inv /\ b[j].ex = op.ex
    BY <1>10, <2>1, <2>2 DEF inv, OfProgram
  <2>6. BlockOf(op, b)
    <3> HIDE DEF b
    <3> QED BY <2>4, <2>5 DEF BlockOf
  <2> QED BY <1>10, <2>3, <2>6
<1>11. CASE op.k = "kernel"
  <2> DEFINE io == InvOp(inv, "slice", <<c1>>)
             st == StartOp(inv, "slice", <<lc>>, op.args)
             wa == WaitOp(inv, "slice")
             b == <<io, AllocOp(lc), u1, st, wa>>
  <2>1. OfProgram(io, "inv", inv, "slice")
    <3>1. \A j \in DOMAIN <<c1>> : <<c1>>[j].base[2] \in {"c", "g"} /\ <<c1>>[j].sp = "xram"
      BY <1>3
    <3> HIDE DEF Value
    <3> QED BY <1>2, <1>8, <3>1, InvIsOp
  <2>2. OfProgram(st, "start", inv, "slice") /\ OfProgram(wa, "wait", inv, "slice")
    BY <1>2, <1>8, StartIsOp, WaitIsOp
  <2>3. OutlineOp(op) = b
    BY BlocksAre DEF SliceBlock, inv, c1, lc, u1
  <2> HIDE DEF io, st, wa
  <2>4. b \in Seq(SomeOp) /\ Len(b) = 5
    BY <1>5, <1>7, <2>1, <2>2 DEF OfProgram
  <2>5. ASSUME NEW j \in 1 .. 5
        PROVE  /\ Shape(b[j])
               /\ b[j].k = "start" <=> j = 4
               /\ b[j].k = "wait" <=> j = 5
               /\ b[j].k \notin {"kernel", "call", "forall", "end", "dealloc"}
               /\ b[j].ex \in {"none", op.ex}
               /\ b[j].k \in {"start", "wait"} => b[j].inv = op.inv /\ b[j].ex = op.ex
    BY <1>2, <1>5, <1>7, <1>11, <2>1, <2>2 DEF inv, OfProgram
  <2>6. BlockOf(op, b)
    <3> HIDE DEF b
    <3> QED BY <2>4, <2>5 DEF BlockOf
  <2> QED BY <1>11, <2>3, <2>6
<1> QED BY <1>2, <1>9, <1>10, <1>11

(* The two passes.                                                          *)
LEMMA PassesRewrite ==
  ASSUME Looped(ir)
  PROVE  /\ LowerCalls => /\ Looped(ir')
                          /\ \A k \in 1 .. Len(ir') : ir'[k].k # "call"
         /\ OutlineSlices /\ (\A k \in 1 .. Len(ir) : ir[k].k # "call") =>
              /\ Looped(ir')
              /\ \A k \in 1 .. Len(ir') : ir'[k].k \notin {"call", "kernel"}
PROOF
<1>1. ir \in Seq(SomeOp) /\ DOMAIN ir = 1 .. Len(ir) /\ \A i \in 1 .. Len(ir) : ir[i] \in SomeOp /\ Shape(ir[i])
  BY DEF Looped, Shaped
<1>2. ASSUME LowerCalls
      PROVE  Looped(ir') /\ \A k \in 1 .. Len(ir') : ir'[k].k # "call"
  <2> DEFINE ss == [i \in DOMAIN ir |-> IF ir[i].k = "call" THEN LowerCall(ir[i]) ELSE <<ir[i]>>]
  <2>1. ir' = FlattenSeq(ss)
    BY <1>2 DEF LowerCalls, Rewrite
  <2>2. \A i \in 1 .. Len(ir) : IF ir[i].k = "call" THEN BlockOf(ir[i], ss[i]) ELSE ss[i] = <<ir[i]>>
    BY <1>1, BlocksOf
  <2>3. Len(ss) = Len(ir) /\ ss = [i \in 1 .. Len(ir) |-> ss[i]]
    BY <1>1
  <2> HIDE DEF ss
  <2>4. \A i \in 1 .. Len(ir) : ss[i] \in Seq(SomeOp)
    <3>1. \A x \in SomeOp : <<x>> \in Seq(SomeOp)
      OBVIOUS
    <3> QED BY <1>1, <2>2, <3>1 DEF BlockOf
  <2>5. ss \in Seq(Seq(SomeOp))
    BY <1>1, <2>3, <2>4
  <2>6. Rewritten(ir, "call", ss)
    BY <2>2, <2>3, <2>5 DEF Rewritten
  <2> QED BY <2>1, <2>6, RewriteKeepsLooped
<1>3. ASSUME OutlineSlices, \A k \in 1 .. Len(ir) : ir[k].k # "call"
      PROVE  Looped(ir') /\ \A k \in 1 .. Len(ir') : ir'[k].k \notin {"call", "kernel"}
  <2> DEFINE ss == [i \in DOMAIN ir |-> IF ir[i].k = "kernel" THEN OutlineOp(ir[i]) ELSE <<ir[i]>>]
  <2>1. ir' = FlattenSeq(ss)
    BY <1>3 DEF OutlineSlices, Rewrite
  <2>2. \A i \in 1 .. Len(ir) : IF ir[i].k = "kernel" THEN BlockOf(ir[i], ss[i]) ELSE ss[i] = <<ir[i]>>
    BY <1>1, BlocksOf
  <2>3. Len(ss) = Len(ir) /\ ss = [i \in 1 .. Len(ir) |-> ss[i]]
    BY <1>1
  <2> HIDE DEF ss
  <2>4. \A i \in 1 .. Len(ir) : ss[i] \in Seq(SomeOp)
    <3>1. \A x \in SomeOp : <<x>> \in Seq(SomeOp)
      OBVIOUS
    <3> QED BY <1>1, <2>2, <3>1 DEF BlockOf
  <2>5. ss \in Seq(Seq(SomeOp))
    BY <1>1, <2>3, <2>4
  <2>6. Rewritten(ir, "kernel", ss)
    BY <2>2, <2>3, <2>5 DEF Rewritten
  <2>7. Looped(ir') /\ \A k \in 1 .. Len(ir') : ir'[k].k \in {"call", "kernel"} =>
                         ir'[k].k # "kernel" /\ \E i \in 1 .. Len(ir) : ir[i].k = ir'[k].k
    BY <2>1, <2>6, RewriteKeepsLooped
  <2> QED BY <1>3, <2>7
<1> QED BY <1>2, <1>3

(* An element more at the end of the last sequence.                         *)
LEMMA LastLonger ==
  ASSUME NEW S, NEW ss \in Seq(Seq(S)), Len(ss) > 0, NEW x \in S
  PROVE  LET t == Append(Front(ss), Append(Last(ss), x))
         IN  /\ t \in Seq(Seq(S)) /\ Len(t) = Len(ss)
             /\ \A i \in 1 .. Len(ss) - 1 : t[i] = ss[i]
             /\ t[Len(ss)] = Append(ss[Len(ss)], x)
PROOF
<1> DEFINE n == Len(ss)
           l == Append(Last(ss), x)
           f == Front(ss)
<1>1. n \in Nat /\ n > 0 /\ \A i \in 1 .. n : ss[i] \in Seq(S)
  OBVIOUS
<1>2. Last(ss) = ss[n] /\ ss[n] \in Seq(S)
  BY <1>1 DEF Last
<1>3. l \in Seq(S)
  BY <1>2
<1>4. f = SubSeq(ss, 1, n - 1)
  BY DEF Front
<1>5. f \in Seq(Seq(S)) /\ Len(f) = n - 1 /\ \A i \in 1 .. n - 1 : f[i] = ss[i]
  <2>1. 1 \in Int /\ n - 1 \in Int /\ \A i \in 1 .. n - 1 : ss[i] \in Seq(S)
    BY <1>1
  <2>2. /\ SubSeq(ss, 1, n - 1) \in Seq(Seq(S))
        /\ Len(SubSeq(ss, 1, n - 1)) = IF 1 <= n - 1 THEN (n - 1) - 1 + 1 ELSE 0
        /\ \A i \in 1 .. (n - 1) - 1 + 1 : SubSeq(ss, 1, n - 1)[i] = ss[1 + i - 1]
    BY <2>1, SubSeqProperties
  <2> HIDE DEF n, f
  <2>3. \A i \in 1 .. n - 1 : i \in 1 .. (n - 1) - 1 + 1 /\ 1 + i - 1 = i
    BY <1>1
  <2>4. (IF 1 <= n - 1 THEN (n - 1) - 1 + 1 ELSE 0) = n - 1
    BY <1>1
  <2> QED BY <1>4, <2>2, <2>3, <2>4
<1> HIDE DEF l, f, n
<1>6. /\ Append(f, l) \in Seq(Seq(S)) /\ Len(Append(f, l)) = n
      /\ \A i \in 1 .. n - 1 : Append(f, l)[i] = f[i]
      /\ Append(f, l)[n] = l
  BY <1>1, <1>3, <1>5, AppendProperties
<1> QED BY <1>2, <1>5, <1>6 DEF l, f, n

(* The recursive function of the fold in Pieces exists. *)
LEMMA PiecesSteps ==
  ASSUME NEW n \in Nat, NEW body
  PROVE  \E f : f = [i \in 0 .. n |->
                      IF i = 0 THEN << << >> >>
                      ELSE IF body[i].k = "wait" THEN Append(f[i - 1], <<body[i]>>)
                      ELSE Append(Front(f[i - 1]), Append(Last(f[i - 1]), body[i]))]
PROOF
<1> DEFINE G(p, i) == IF body[i].k = "wait" THEN Append(p, <<body[i]>>)
                      ELSE Append(Front(p), Append(Last(p), body[i]))
           R(g, m) == g = [i \in 0 .. m |-> IF i = 0 THEN << << >> >> ELSE G(g[i - 1], i)]
           T == {m \in Nat : \E g : R(g, m)}
<1>0. \E f : R(f, n)
  <2> HIDE DEF G
  <2>1. 0 \in T
    <3>1. R([i \in 0 .. 0 |-> << << >> >>], 0)
      OBVIOUS
    <3> QED BY <3>1
  <2>2. ASSUME NEW m \in Nat, m \in T PROVE m + 1 \in T
    <3>1. PICK g : R(g, m)
      BY <2>2
    <3>2. \A i \in 0 .. m : g[i] = IF i = 0 THEN << << >> >> ELSE G(g[i - 1], i)
      BY <3>1
    <3> HIDE DEF R
    <3> DEFINE h == [i \in 0 .. m + 1 |-> IF i <= m THEN g[i] ELSE G(g[m], m + 1)]
    <3>3. ASSUME NEW i \in 0 .. m + 1
          PROVE  h[i] = IF i = 0 THEN << << >> >> ELSE G(h[i - 1], i)
      <4>1. CASE i <= m
        <5>1. h[i] = g[i] /\ (i # 0 => h[i - 1] = g[i - 1])
          BY <4>1
        <5>2. g[i] = IF i = 0 THEN << << >> >> ELSE G(g[i - 1], i)
          BY <3>2, <4>1
        <5> HIDE DEF h
        <5> QED BY <5>1, <5>2
      <4>2. CASE i = m + 1
        BY <4>2
      <4> QED BY <4>1, <4>2
    <3>4. R(h, m + 1)
      <4>1. h = [i \in 0 .. m + 1 |-> h[i]]
        OBVIOUS
      <4> HIDE DEF h
      <4> QED BY <3>3, <4>1 DEF R
    <3> HIDE DEF h
    <3> QED BY <3>4
  <2>3. n \in T
    <3> HIDE DEF T
    <3> QED BY <2>1, <2>2, NatSet
  <2> QED BY <2>3
<1> QED BY <1>0

(* One more operation in the pieces. *)
LEMMA CutMore ==
  ASSUME NEW pieces, NEW body, NEW m \in Nat, NEW c, Cut(pieces, body, m, c),
         body[m + 1] \in SomeOp, NEW pl, NEW next,
         pl \in Seq(Seq(SomeOp)), Len(pl) > 0,
         \A x \in Places(pieces) : x \in Places(pl) /\ pl[x[1]][x[2]] = pieces[x[1]][x[2]] /\ Earlier(x, next),
         next \in Places(pl), pl[next[1]][next[2]] = body[m + 1],
         \A x \in Places(pl) : x = next \/ x \in Places(pieces)
  PROVE  \E d : Cut(pl, body, m + 1, d)
PROOF
<1> DEFINE d == [b \in 1 .. m + 1 |-> IF b <= m THEN c[b] ELSE next]
<1>1. \A b \in 1 .. m : d[b] = c[b] /\ b \in 1 .. m + 1
  OBVIOUS
<1>2. d[m + 1] = next /\ m + 1 \in 1 .. m + 1
  OBVIOUS
<1>3. \A b \in 1 .. m + 1 : b \in 1 .. m \/ b = m + 1
  OBVIOUS
<1> HIDE DEF d
<1>4. /\ \A b \in 1 .. m : c[b] \in Places(pieces) /\ pieces[c[b][1]][c[b][2]] = body[b]
      /\ \A a, b \in 1 .. m : a < b => Earlier(c[a], c[b])
      /\ \A x \in Places(pieces) : \E b \in 1 .. m : c[b] = x
  BY DEF Cut
<1>5. ASSUME NEW b \in 1 .. m + 1
      PROVE  d[b] \in Places(pl) /\ pl[d[b][1]][d[b][2]] = body[b]
  BY <1>1, <1>2, <1>3, <1>4, ZenonT(60)
<1>6. ASSUME NEW a \in 1 .. m + 1, NEW b \in 1 .. m + 1, a < b
      PROVE  Earlier(d[a], d[b])
  <2>1. a \in 1 .. m
    BY <1>6
  <2>2. CASE b \in 1 .. m
    BY <1>1, <1>4, <1>6, <2>1, <2>2
  <2>3. CASE b = m + 1
    BY <1>1, <1>2, <1>4, <2>1, <2>3
  <2> QED BY <1>3, <2>2, <2>3
<1>7. ASSUME NEW x \in Places(pl) PROVE \E b \in 1 .. m + 1 : d[b] = x
  BY <1>1, <1>2, <1>4
<1>8. pl \in Seq(Seq(SomeOp)) /\ Len(pl) > 0
  OBVIOUS
<1>9. \A a, b \in 1 .. m + 1 : a < b => Earlier(d[a], d[b])
  BY <1>6
<1>10. \A b \in 1 .. m + 1 : d[b] \in Places(pl) /\ pl[d[b][1]][d[b][2]] = body[b]
  BY <1>5
<1>11. \A x \in Places(pl) : \E b \in 1 .. m + 1 : d[b] = x
  BY <1>7
<1>12. Cut(pl, body, m + 1, d)
  BY ONLY <1>8, <1>9, <1>10, <1>11, Zenon DEF Cut
<1> QED BY <1>12

(* The pieces of the loop's body have its operations, in order. *)
LEMMA PiecesCut ==
  ASSUME NEW body \in Seq(SomeOp)
  PROVE  \E c : Cut(Pieces(body), body, Len(body), c)
PROOF
<1> DEFINE n == Len(body)
           R(g) == g = [i \in 0 .. n |->
                      IF i = 0 THEN << << >> >>
                      ELSE IF body[i].k = "wait" THEN Append(g[i - 1], <<body[i]>>)
                      ELSE Append(Front(g[i - 1]), Append(Last(g[i - 1]), body[i]))]
           f == CHOOSE g : R(g)
<1>1. n \in Nat /\ \A i \in 1 .. n : body[i] \in SomeOp
  OBVIOUS
<1>2. R(f)
  BY <1>1, PiecesSteps
<1>3. Pieces(body) = f[n]
  BY DEF Pieces, Fold
<1>4. \A i \in 0 .. n : f[i] = IF i = 0 THEN << << >> >>
                      ELSE IF body[i].k = "wait" THEN Append(f[i - 1], <<body[i]>>)
                      ELSE Append(Front(f[i - 1]), Append(Last(f[i - 1]), body[i]))
  <2> HIDE DEF f
  <2> QED BY <1>2
<1> HIDE DEF f, R, n
<1> DEFINE T == {m \in 0 .. n : \E c : Cut(f[m], body, m, c)}
<1>5. 0 \in T
  <2>0. 0 \in 0 .. n
    BY <1>1
  <2>1. f[0] = << << >> >>
    BY ONLY <1>4, <2>0, Zenon
  <2>2. << << >> >> \in Seq(Seq(SomeOp)) /\ Len(<< << >> >>) = 1 /\ << << >> >>[1] = << >> /\ Len(<< >>) = 0
    OBVIOUS
  <2>3. Places(<< << >> >>) = {}
    BY <2>2 DEF Places
  <2>4. Cut(<< << >> >>, body, 0, << >>)
    BY <2>2, <2>3 DEF Cut
  <2> QED BY <1>1, <2>1, <2>4
<1>6. ASSUME NEW m \in 0 .. n - 1, m \in T PROVE m + 1 \in T
  <2> DEFINE p == f[m]
             x == body[m + 1]
             l == Len(p)
  <2>1. m \in Nat /\ m + 1 \in 0 .. n /\ m + 1 \in 1 .. n /\ (m + 1) - 1 = m /\ m + 1 # 0
    BY <1>1
  <2>2. PICK c : Cut(p, body, m, c)
    BY <1>6
  <2>3. f[m + 1] = IF x.k = "wait" THEN Append(p, <<x>>) ELSE Append(Front(p), Append(Last(p), x))
    BY <1>4, <2>1
  <2>4. x \in SomeOp /\ p \in Seq(Seq(SomeOp)) /\ l \in Nat /\ l > 0
        /\ \A i \in 1 .. l : p[i] \in Seq(SomeOp) /\ Len(p[i]) \in Nat
    BY <1>1, <2>1, <2>2 DEF Cut
  <2> HIDE DEF p, x, l
  <2>5. \A y \in Places(p) : /\ y[1] \in 1 .. l /\ y[2] \in 1 .. Len(p[y[1]]) /\ y = <<y[1], y[2]>>
                             /\ y[1] \in Nat /\ y[2] \in Nat
    BY <2>4, PlaceOf DEF l
  <2>6. CASE x.k = "wait"
    <3> DEFINE q == Append(p, <<x>>)
               next == <<l + 1, 1>>
    <3>1. /\ q \in Seq(Seq(SomeOp)) /\ Len(q) = l + 1
          /\ \A i \in 1 .. l : q[i] = p[i]
          /\ q[l + 1] = <<x>>
      <4>1. <<x>> \in Seq(SomeOp)
        BY <2>4
      <4> QED BY <2>4, <4>1, AppendProperties DEF l
    <3>2. Len(<<x>>) = 1 /\ <<x>>[1] = x
      OBVIOUS
    <3> HIDE DEF q
    <3>3. ASSUME NEW y \in Places(p)
          PROVE  y \in Places(q) /\ q[y[1]][y[2]] = p[y[1]][y[2]] /\ Earlier(y, next)
      <4>1. y[1] \in 1 .. l /\ y[2] \in 1 .. Len(p[y[1]]) /\ y = <<y[1], y[2]>> /\ y[1] \in Nat /\ y[2] \in Nat
        BY <2>5
      <4>2. q[y[1]] = p[y[1]] /\ y[1] \in 1 .. Len(q)
        BY <2>4, <3>1, <4>1
      <4>3. y \in Places(q)
        BY <4>1, <4>2 DEF Places
      <4>4. Earlier(y, next)
        BY <2>4, <4>1 DEF Earlier
      <4> QED BY <4>2, <4>3, <4>4
    <3>4. next \in Places(q) /\ q[next[1]][next[2]] = x
      <4>1. l + 1 \in 1 .. Len(q) /\ 1 \in 1 .. Len(q[l + 1]) /\ q[l + 1][1] = x
        BY <2>4, <3>1, <3>2
      <4> QED BY <4>1 DEF Places
    <3>5. ASSUME NEW y \in Places(q) PROVE y = next \/ y \in Places(p)
      <4>1. y[1] \in 1 .. l + 1 /\ y[2] \in 1 .. Len(q[y[1]]) /\ y = <<y[1], y[2]>> /\ y[1] \in Nat /\ y[2] \in Nat
        <5>1. Len(q) \in Nat /\ Len(q) = l + 1
          BY <2>4, <3>1
        <5> QED BY <5>1, PlaceOf
      <4>2. CASE y[1] = l + 1
        <5>1. y[2] = 1
          <6>1. Len(q[y[1]]) = 1
            BY <3>1, <3>2, <4>2
          <6> QED BY <4>1, <6>1
        <5> QED BY <4>1, <4>2, <5>1
      <4>3. CASE y[1] # l + 1
        <5>1. y[1] \in 1 .. l
          BY <2>4, <4>1, <4>3
        <5>2. y[2] \in 1 .. Len(p[y[1]])
          BY <3>1, <4>1, <5>1
        <5> QED BY <4>1, <5>1, <5>2 DEF Places, l
      <4> QED BY <4>2, <4>3
    <3>6. q \in Seq(Seq(SomeOp)) /\ Len(q) > 0
      BY <2>4, <3>1
    <3> HIDE DEF next
    <3>7. \E d : Cut(q, body, m + 1, d)
      BY <2>1, <2>2, <2>4, <3>3, <3>4, <3>5, <3>6, CutMore DEF x
    <3> QED BY <2>1, <2>3, <2>6, <3>7 DEF q
  <2>7. CASE x.k # "wait"
    <3> DEFINE q == Append(Front(p), Append(Last(p), x))
               e == Len(p[l])
               next == <<l, e + 1>>
    <3>1. /\ q \in Seq(Seq(SomeOp)) /\ Len(q) = l
          /\ \A i \in 1 .. l - 1 : q[i] = p[i]
          /\ q[l] = Append(p[l], x)
      BY <2>4, LastLonger DEF l
    <3>2. /\ e \in Nat /\ l \in 1 .. l /\ Len(q[l]) = e + 1 /\ q[l][e + 1] = x
          /\ \A j \in 1 .. e : q[l][j] = p[l][j]
      <4>1. p[l] \in Seq(SomeOp)
        BY <2>4
      <4> QED BY <2>4, <3>1, <4>1, AppendProperties
    <3> HIDE DEF q, e
    <3>3. ASSUME NEW y \in Places(p)
          PROVE  y \in Places(q) /\ q[y[1]][y[2]] = p[y[1]][y[2]] /\ Earlier(y, next)
      <4>1. y[1] \in 1 .. l /\ y[2] \in 1 .. Len(p[y[1]]) /\ y = <<y[1], y[2]>> /\ y[1] \in Nat /\ y[2] \in Nat
        BY <2>5
      <4>2. CASE y[1] = l
        <5>1. y[2] \in 1 .. e /\ y[2] \in 1 .. e + 1 /\ y[2] < e + 1
          BY <3>2, <4>1, <4>2 DEF e
        <5>2. y \in Places(q)
          BY <3>1, <3>2, <4>1, <4>2, <5>1 DEF Places
        <5> QED BY <3>2, <4>2, <5>1, <5>2 DEF Earlier
      <4>3. CASE y[1] # l
        <5>1. y[1] \in 1 .. l - 1 /\ y[1] < l
          BY <2>4, <4>1, <4>3
        <5>2. q[y[1]] = p[y[1]]
          BY <3>1, <5>1
        <5>3. y \in Places(q)
          BY <3>1, <4>1, <5>2 DEF Places
        <5> QED BY <5>1, <5>2, <5>3 DEF Earlier
      <4> QED BY <4>2, <4>3
    <3>4. next \in Places(q) /\ q[next[1]][next[2]] = x
      <4>1. l \in 1 .. Len(q) /\ e + 1 \in 1 .. Len(q[l]) /\ q[l][e + 1] = x /\ e + 1 \in Nat
        BY <2>4, <3>1, <3>2
      <4> QED BY <4>1 DEF Places
    <3>5. ASSUME NEW y \in Places(q) PROVE y = next \/ y \in Places(p)
      <4>1. y[1] \in 1 .. l /\ y[2] \in 1 .. Len(q[y[1]]) /\ y = <<y[1], y[2]>> /\ y[1] \in Nat /\ y[2] \in Nat
        <5>1. Len(q) \in Nat /\ Len(q) = l
          BY <2>4, <3>1
        <5> QED BY <5>1, PlaceOf
      <4>2. CASE y[1] = l
        <5>1. y[2] = e + 1 \/ y[2] \in 1 .. e
          BY <3>2, <4>1, <4>2
        <5>2. y[2] \in 1 .. e => y \in Places(p)
          BY <4>1, <4>2 DEF Places, l, e
        <5> QED BY <4>1, <4>2, <5>1, <5>2
      <4>3. CASE y[1] # l
        <5>1. y[1] \in 1 .. l - 1
          BY <2>4, <4>1, <4>3
        <5>2. y[2] \in 1 .. Len(p[y[1]])
          BY <3>1, <4>1, <5>1
        <5> QED BY <4>1, <5>2 DEF Places, l
      <4> QED BY <4>2, <4>3
    <3>6. q \in Seq(Seq(SomeOp)) /\ Len(q) > 0
      BY <2>4, <3>1
    <3> HIDE DEF next
    <3>7. \E d : Cut(q, body, m + 1, d)
      BY <2>1, <2>2, <2>4, <3>3, <3>4, <3>5, <3>6, CutMore DEF x
    <3> QED BY <2>1, <2>3, <2>7, <3>7 DEF q
  <2> QED BY <2>6, <2>7
<1>7. n \in T
  <2>1. 0 .. n \subseteq T
    <3> HIDE DEF T
    <3> QED BY <1>1, <1>5, <1>6, UpTo
  <2> QED BY <1>1, <2>1
<1> QED BY <1>3, <1>7 DEF n

(* The value of an iteration has the type, buffer and memory of the      *)
(* body's.                                                               *)
LEMMA CopyValTyped ==
  ASSUME NEW body, NEW v \in Value, NEW i \in Nat
  PROVE  LET u == CopyVal(body, v, i)
         IN  /\ u \in Value /\ u.base = v.base /\ u.sp = v.sp /\ u.sz = v.sz /\ u.off = v.off
             /\ u.id = v.id /\ u.it \in {v.it, i}
PROOF
<1>1. /\ [v EXCEPT !.it = i] \in Value /\ [v EXCEPT !.it = i].base = v.base
      /\ [v EXCEPT !.it = i].sp = v.sp /\ [v EXCEPT !.it = i].sz = v.sz
      /\ [v EXCEPT !.it = i].off = v.off /\ [v EXCEPT !.it = i].id = v.id
      /\ [v EXCEPT !.it = i].it = i
  BY DEF Value
<1> HIDE DEF Value
<1> QED BY <1>1 DEF CopyVal

(* The operation of an iteration has the kind and shape of the body's;   *)
(* its invocation is the iteration's own.                                *)
LEMMA CopyTyped ==
  ASSUME NEW body, NEW op \in SomeOp, Shape(op), op.inv \in {<< >>} \cup InvRec,
         op.k # "forall", NEW i \in Nat
  PROVE  CopyKeeps(op, CopyOf(body, op, i), i)
PROOF
<1> DEFINE All(s) == [j \in DOMAIN s |-> CopyVal(body, s[j], i)]
           inv == IF op.inv = << >> THEN op.inv ELSE [op.inv EXCEPT !.it = i]
           o == CopyOf(body, op, i)
<1>1. o = [op EXCEPT !.res = CopyVal(body, op.res, i), !.args = All(op.args), !.code = All(op.code),
                     !.inv = inv]
  BY DEF CopyOf, CopyVal, SomeOp
<1>2. ASSUME NEW s \in Seq(Value)
      PROVE  /\ All(s) \in Seq(Value) /\ Len(All(s)) = Len(s) /\ DOMAIN All(s) = DOMAIN s
             /\ DOMAIN s = 1 .. Len(s) /\ Len(s) \in Nat
             /\ \A j \in 1 .. Len(s) : /\ All(s)[j] = CopyVal(body, s[j], i)
                                       /\ All(s)[j].base = s[j].base /\ All(s)[j].sp = s[j].sp
  <2>1. \A j \in 1 .. Len(s) : s[j] \in Value
    OBVIOUS
  <2>2. \A j \in 1 .. Len(s) : /\ CopyVal(body, s[j], i) \in Value
                               /\ CopyVal(body, s[j], i).base = s[j].base
                               /\ CopyVal(body, s[j], i).sp = s[j].sp
    BY <2>1, CopyValTyped
  <2>3. Len(s) \in Nat /\ DOMAIN s = 1 .. Len(s)
    OBVIOUS
  <2> HIDE DEF Value
  <2> QED BY <2>2, <2>3
<1>3. /\ op.res \in Value /\ op.args \in Seq(Value) /\ op.code \in Seq(Value)
  BY DEF SomeOp
<1>4. /\ CopyVal(body, op.res, i) \in Value
      /\ CopyVal(body, op.res, i).base = op.res.base /\ CopyVal(body, op.res, i).sp = op.res.sp
  BY <1>3, CopyValTyped
<1>5. /\ All(op.args) \in Seq(Value) /\ Len(All(op.args)) = Len(op.args)
      /\ All(op.code) \in Seq(Value) /\ Len(All(op.code)) = Len(op.code)
      /\ \A j \in 1 .. Len(op.args) : All(op.args)[j] = CopyVal(body, op.args[j], i)
      /\ \A j \in 1 .. Len(op.code) : /\ All(op.code)[j] = CopyVal(body, op.code[j], i)
                                      /\ All(op.code)[j].base = op.code[j].base
                                      /\ All(op.code)[j].sp = op.code[j].sp
      /\ DOMAIN op.code = 1 .. Len(op.code) /\ DOMAIN All(op.code) = 1 .. Len(op.code)
  BY <1>2, <1>3
<1>6. /\ inv \in {<< >>} \cup InvRec
      /\ op.inv = << >> => inv = << >>
      /\ op.inv \in InvRec => inv \in InvRec /\ inv.id = op.inv.id /\ inv.it = i
  <2>1. \A r \in InvRec : r # << >> /\ [r EXCEPT !.it = i] \in InvRec
                          /\ [r EXCEPT !.it = i].id = r.id /\ [r EXCEPT !.it = i].it = i
    BY DEF InvRec
  <2> QED BY <2>1
<1>7. (All(op.args) = << >> <=> op.args = << >>) /\ (All(op.code) = << >> <=> op.code = << >>)
  <2>1. \A s \in Seq(Value) : s = << >> <=> Len(s) = 0
    BY EmptySeq
  <2> HIDE DEF All, Value
  <2> QED BY <1>3, <1>5, <2>1
<1>8. /\ o.k = op.k /\ o.ex = op.ex /\ o.inv = inv /\ o.res = CopyVal(body, op.res, i)
      /\ o.args = All(op.args) /\ o.code = All(op.code)
  <2> HIDE DEF All, inv, o, Value
  <2> QED BY <1>1 DEF SomeOp
<1>9. o \in SomeOp
  <2> HIDE DEF All, inv, o, Value
  <2> QED BY <1>1, <1>4, <1>5, <1>6 DEF SomeOp
<1> HIDE DEF All, inv, o
<1>10. Shape(o)
  <2> HIDE DEF Value, InvRec
  <2>1. op.k = "inv" => \A j \in DOMAIN o.code : o.code[j].base[2] \in {"c", "g"} /\ o.code[j].sp = "xram"
    <3>1. op.k = "inv" => \A j \in DOMAIN op.code : op.code[j].base[2] \in {"c", "g"} /\ op.code[j].sp = "xram"
      BY DEF Shape
    <3> QED BY <1>5, <1>8, <3>1
  <2>2. /\ o.k = op.k /\ o.ex = op.ex
        /\ op.inv = << >> => o.inv = << >>
        /\ op.inv \in InvRec => o.inv \in InvRec
        /\ op.args = << >> <=> o.args = << >>
        /\ op.code = << >> <=> o.code = << >>
        /\ o.res.base = op.res.base /\ o.res.sp = op.res.sp
    BY <1>4, <1>6, <1>7, <1>8
  <2> QED BY <2>1, <2>2 DEF Shape, Launches, Simple
<1> QED BY <1>6, <1>8, <1>9, <1>10 DEF o, CopyKeeps

(* An iteration is the copies of the operations, in order. *)
LEMMA IterationIs ==
  ASSUME NEW body, NEW ops \in Seq(SomeOp), NEW i \in Nat,
         \A j \in 1 .. Len(ops) : Copyable(ops[j])
  PROVE  /\ Iteration(body, ops, i) \in Seq(SomeOp)
         /\ Len(Iteration(body, ops, i)) = Len(ops)
         /\ \A j \in 1 .. Len(ops) : Iteration(body, ops, i)[j] = CopyOf(body, ops[j], i)
PROOF
<1>1. DOMAIN ops = 1 .. Len(ops) /\ Len(ops) \in Nat /\ \A j \in 1 .. Len(ops) : ops[j] \in SomeOp
  OBVIOUS
<1>2. Iteration(body, ops, i) = [j \in 1 .. Len(ops) |-> CopyOf(body, ops[j], i)]
  BY <1>1 DEF Iteration, CopyOf
<1>3. \A j \in 1 .. Len(ops) : CopyOf(body, ops[j], i) \in SomeOp
  BY <1>1, CopyTyped DEF Copyable, CopyKeeps
<1> HIDE DEF SomeOp
<1> QED BY <1>1, <1>2, <1>3

(* The place of an operation in the pieces keeps the order of the body,  *)
(* both ways.                                                            *)
LEMMA CutOrder ==
  ASSUME NEW pieces, NEW body, Len(body) \in Nat, NEW c, Cut(pieces, body, Len(body), c)
  PROVE  CutInOrder(pieces, body, c)
PROOF
<1>1. pieces \in Seq(Seq(SomeOp)) /\ Len(pieces) \in Nat
  BY DEF Cut
<1>2. \A b \in 1 .. Len(body) : /\ c[b][1] \in 1 .. Len(pieces)
                                /\ c[b][2] \in 1 .. Len(pieces[c[b][1]])
                                /\ c[b] = <<c[b][1], c[b][2]>>
                                /\ c[b][1] \in Nat /\ c[b][2] \in Nat
  BY <1>1, PlaceOf DEF Cut
<1>3. ASSUME NEW a \in 1 .. Len(body), NEW b \in 1 .. Len(body), c[a] = c[b] PROVE a = b
  <2>1. ~Earlier(c[a], c[b]) /\ ~Earlier(c[b], c[a])
    BY <1>2, <1>3 DEF Earlier
  <2>2. ~(a < b) /\ ~(b < a)
    BY <2>1 DEF Cut
  <2> QED BY <2>2
<1>4. ASSUME NEW p \in 1 .. Len(pieces), NEW j \in 1 .. Len(pieces[p])
      PROVE  \E b \in 1 .. Len(body) : c[b] = <<p, j>> /\ pieces[p][j] = body[b]
  <2>1. pieces[p] \in Seq(SomeOp) /\ Len(pieces[p]) \in Nat
    BY <1>1
  <2>2. <<p, j>> \in Places(pieces)
    BY <1>1, <2>1 DEF Places
  <2>3. PICK b \in 1 .. Len(body) : c[b] = <<p, j>>
    BY <2>2 DEF Cut
  <2>4. pieces[c[b][1]][c[b][2]] = body[b]
    BY DEF Cut
  <2> QED BY <2>3, <2>4
<1> QED BY <1>2, <1>3, <1>4 DEF CutInOrder

(* The unrolled body has one copy of each operation per iteration; the   *)
(* copies of one iteration are in order, and a wait comes after all      *)
(* that precede it in the body, of any iteration.                        *)
LEMMA UnrollPlaces ==
  ASSUME NEW body \in Seq(SomeOp), \A b \in 1 .. Len(body) : Copyable(body[b]), NEW n \in Nat
  PROVE  /\ UnrolledBody(body, n) \in Seq(SomeOp)
         /\ \E w : Copied(UnrolledBody(body, n), body, n, w)
PROOF
<1> DEFINE pieces == Pieces(body)
           N == Len(pieces)
           inner(p) == [i \in 1 .. n |-> Iteration(body, pieces[p], i - 1)]
           u(p) == FlattenSeq(inner(p))
           ss == [p \in 1 .. N |-> u(p)]
           t == FlattenSeq(ss)
<1>1. Len(body) \in Nat /\ \A b \in 1 .. Len(body) : body[b] \in SomeOp
  OBVIOUS
<1>2. PICK c : Cut(pieces, body, Len(body), c)
  BY PiecesCut
<1>3. /\ pieces \in Seq(Seq(SomeOp)) /\ N \in Nat /\ DOMAIN pieces = 1 .. N
      /\ \A p \in 1 .. N : pieces[p] \in Seq(SomeOp) /\ Len(pieces[p]) \in Nat
  BY <1>2 DEF Cut
<1>4. t = UnrolledBody(body, n)
  BY <1>3 DEF UnrolledBody
<1> HIDE DEF pieces, N
<1>5. /\ \A a, b \in 1 .. Len(body) : c[a] = c[b] => a = b
      /\ \A b \in 1 .. Len(body) : /\ c[b][1] \in 1 .. N
                                   /\ c[b][2] \in 1 .. Len(pieces[c[b][1]])
                                   /\ c[b] = <<c[b][1], c[b][2]>>
      /\ \A p \in 1 .. N : \A j \in 1 .. Len(pieces[p]) :
           \E b \in 1 .. Len(body) : c[b] = <<p, j>> /\ pieces[p][j] = body[b]
  <2>1. CutInOrder(pieces, body, c)
    BY <1>1, <1>2, CutOrder
  <2> QED BY <2>1 DEF CutInOrder, N
<1>6. \A a, b \in 1 .. Len(body) : a < b => Earlier(c[a], c[b])
  BY <1>2 DEF Cut
<1>7. ASSUME NEW p \in 1 .. N
      PROVE  /\ inner(p) \in Seq(Seq(SomeOp)) /\ Len(inner(p)) = n
             /\ \A i \in 1 .. n : /\ Len(inner(p)[i]) = Len(pieces[p])
                                  /\ \A j \in 1 .. Len(pieces[p]) :
                                       inner(p)[i][j] = CopyOf(body, pieces[p][j], i - 1)
  <2>1. \A j \in 1 .. Len(pieces[p]) : Copyable(pieces[p][j])
    BY <1>5
  <2>2. ASSUME NEW i \in 1 .. n
        PROVE  /\ inner(p)[i] \in Seq(SomeOp) /\ Len(inner(p)[i]) = Len(pieces[p])
               /\ \A j \in 1 .. Len(pieces[p]) : inner(p)[i][j] = CopyOf(body, pieces[p][j], i - 1)
    <3>1. inner(p)[i] = Iteration(body, pieces[p], i - 1) /\ i - 1 \in Nat /\ pieces[p] \in Seq(SomeOp)
      BY <1>3
    <3> HIDE DEF inner
    <3>2. /\ Iteration(body, pieces[p], i - 1) \in Seq(SomeOp)
          /\ Len(Iteration(body, pieces[p], i - 1)) = Len(pieces[p])
          /\ \A j \in 1 .. Len(pieces[p]) :
               Iteration(body, pieces[p], i - 1)[j] = CopyOf(body, pieces[p][j], i - 1)
      <4> DEFINE d == i - 1
                 q == pieces[p]
      <4>1. d \in Nat /\ q \in Seq(SomeOp) /\ \A j \in 1 .. Len(q) : Copyable(q[j])
        BY <2>1, <3>1
      <4> HIDE DEF d, q
      <4>2. /\ Iteration(body, q, d) \in Seq(SomeOp)
            /\ Len(Iteration(body, q, d)) = Len(q)
            /\ \A j \in 1 .. Len(q) : Iteration(body, q, d)[j] = CopyOf(body, q[j], d)
        BY <4>1, IterationIs
      <4> QED BY <4>2 DEF d, q
    <3> QED BY <3>1, <3>2
  <2>3. inner(p) = [i \in 1 .. n |-> inner(p)[i]]
    OBVIOUS
  <2> HIDE DEF inner
  <2>4. inner(p) \in Seq(Seq(SomeOp)) /\ Len(inner(p)) = n
    BY <2>2, <2>3
  <2> QED BY <2>2, <2>4
<1> HIDE DEF inner
<1>8. ASSUME NEW p \in 1 .. N
      PROVE  u(p) \in Seq(SomeOp) /\ \E q : Ordered(inner(p), u(p), q)
  <2>1. u(p) \in Seq(SomeOp) /\ \E q : Arranged(inner(p), u(p), q)
    BY <1>7, Flatten
  <2> HIDE DEF u
  <2> QED BY <1>7, <2>1, ArrangedOrder
<1> HIDE DEF u
<1>9. ss \in Seq(Seq(SomeOp)) /\ Len(ss) = N /\ \A p \in 1 .. N : ss[p] = u(p)
  <2>1. \A p \in 1 .. N : ss[p] = u(p) /\ u(p) \in Seq(SomeOp)
    BY <1>8
  <2>2. ss = [p \in 1 .. N |-> ss[p]]
    OBVIOUS
  <2> HIDE DEF ss, SomeOp
  <2>3. ss \in [1 .. N -> Seq(SomeOp)]
    BY <2>1, <2>2
  <2>4. ss \in Seq(Seq(SomeOp)) /\ Len(ss) = N
    BY <1>3, <2>3
  <2> QED BY <2>1, <2>4
<1> HIDE DEF ss
<1>10. t \in Seq(SomeOp) /\ \E r : Ordered(ss, t, r)
  <2>1. t \in Seq(SomeOp) /\ \E r : Arranged(ss, t, r)
    BY <1>9, Flatten
  <2> HIDE DEF t
  <2> QED BY <1>9, <2>1, ArrangedOrder
<1>11. PICK r : Ordered(ss, t, r)
  BY <1>10
<1> DEFINE Q(p) == CHOOSE q : Ordered(inner(p), u(p), q)
<1>12. \A p \in 1 .. N : Ordered(inner(p), u(p), Q(p))
  BY <1>8
<1> HIDE DEF Q, t
<1> DEFINE T == 1 .. Len(t)
<1>13. /\ \A k \in T : /\ r[k][1] \in 1 .. N /\ r[k][2] \in 1 .. Len(u(r[k][1]))
                       /\ r[k] = <<r[k][1], r[k][2]>> /\ t[k] = u(r[k][1])[r[k][2]]
       /\ \A k, l \in T : r[k] = r[l] => k = l
       /\ \A k, l \in T : Earlier(r[k], r[l]) => k < l
       /\ \A p \in 1 .. N : \A m \in 1 .. Len(u(p)) : \E k \in T : r[k] = <<p, m>>
  BY <1>9, <1>11 DEF Ordered
<1>14. ASSUME NEW p \in 1 .. N
       PROVE  /\ \A m \in 1 .. Len(u(p)) :
                   /\ Q(p)[m][1] \in 1 .. n /\ Q(p)[m][2] \in 1 .. Len(pieces[p])
                   /\ Q(p)[m] = <<Q(p)[m][1], Q(p)[m][2]>>
                   /\ u(p)[m] = CopyOf(body, pieces[p][Q(p)[m][2]], Q(p)[m][1] - 1)
              /\ \A k, l \in 1 .. Len(u(p)) : Q(p)[k] = Q(p)[l] => k = l
              /\ \A k, l \in 1 .. Len(u(p)) : Earlier(Q(p)[k], Q(p)[l]) => k < l
              /\ \A i \in 1 .. n : \A j \in 1 .. Len(pieces[p]) :
                   \E m \in 1 .. Len(u(p)) : Q(p)[m] = <<i, j>>
  <2> DEFINE q == Q(p)
             v == u(p)
             in == inner(p)
  <2>1. Ordered(in, v, q)
    BY <1>12
  <2>2. /\ Len(in) = n
        /\ \A i \in 1 .. n : /\ Len(in[i]) = Len(pieces[p])
                             /\ \A j \in 1 .. Len(pieces[p]) : in[i][j] = CopyOf(body, pieces[p][j], i - 1)
    BY <1>7
  <2> HIDE DEF q, v, in
  <2>3. /\ \A m \in 1 .. Len(v) : /\ q[m][1] \in 1 .. n
                                  /\ q[m][2] \in 1 .. Len(in[q[m][1]])
                                  /\ q[m] = <<q[m][1], q[m][2]>>
                                  /\ v[m] = in[q[m][1]][q[m][2]]
        /\ \A k, l \in 1 .. Len(v) : q[k] = q[l] => k = l
        /\ \A k, l \in 1 .. Len(v) : Earlier(q[k], q[l]) => k < l
        /\ \A i \in 1 .. n : \A j \in 1 .. Len(in[i]) : \E m \in 1 .. Len(v) : q[m] = <<i, j>>
    BY <2>1, <2>2 DEF Ordered
  <2>4. ASSUME NEW m \in 1 .. Len(v)
        PROVE  /\ q[m][2] \in 1 .. Len(pieces[p])
               /\ v[m] = CopyOf(body, pieces[p][q[m][2]], q[m][1] - 1)
    BY <2>2, <2>3
  <2>5. ASSUME NEW i \in 1 .. n, NEW j \in 1 .. Len(pieces[p])
        PROVE  \E m \in 1 .. Len(v) : q[m] = <<i, j>>
    BY <2>2, <2>3
  <2> QED BY <2>3, <2>4, <2>5 DEF q, v
(* The operation of the body and the iteration of element k. *)
<1> DEFINE P(k) == r[k][1]
           I(k) == Q(P(k))[r[k][2]][1]
           J(k) == Q(P(k))[r[k][2]][2]
           B(k) == CHOOSE b \in 1 .. Len(body) : c[b] = <<P(k), J(k)>> /\ pieces[P(k)][J(k)] = body[b]
           w == [k \in T |-> <<B(k), I(k) - 1>>]
<1>15. ASSUME NEW k \in T
       PROVE  /\ P(k) \in 1 .. N /\ I(k) \in 1 .. n /\ J(k) \in 1 .. Len(pieces[P(k)])
              /\ r[k] = <<P(k), r[k][2]>> /\ r[k][2] \in 1 .. Len(u(P(k)))
              /\ Q(P(k))[r[k][2]] = <<I(k), J(k)>>
              /\ B(k) \in 1 .. Len(body) /\ c[B(k)] = <<P(k), J(k)>>
              /\ t[k] = CopyOf(body, body[B(k)], I(k) - 1)
  <2>1. P(k) \in 1 .. N /\ r[k][2] \in 1 .. Len(u(P(k))) /\ r[k] = <<P(k), r[k][2]>>
        /\ t[k] = u(P(k))[r[k][2]]
    BY <1>13
  <2>2. /\ I(k) \in 1 .. n /\ J(k) \in 1 .. Len(pieces[P(k)]) /\ Q(P(k))[r[k][2]] = <<I(k), J(k)>>
        /\ u(P(k))[r[k][2]] = CopyOf(body, pieces[P(k)][J(k)], I(k) - 1)
    BY <1>14, <2>1
  <2>3. \E b \in 1 .. Len(body) : c[b] = <<P(k), J(k)>> /\ pieces[P(k)][J(k)] = body[b]
    BY <1>5, <2>1, <2>2
  <2>4. B(k) \in 1 .. Len(body) /\ c[B(k)] = <<P(k), J(k)>> /\ pieces[P(k)][J(k)] = body[B(k)]
    <3> HIDE DEF P, J
    <3> QED BY <2>3
  <2> HIDE DEF P, I, J, B
  <2> QED BY <2>1, <2>2, <2>4
<1>16. \A k \in T : w[k] = <<B(k), I(k) - 1>> /\ w[k][1] = B(k) /\ w[k][2] = I(k) - 1
  OBVIOUS
<1> HIDE DEF w, P, I, J, B
<1>17. ASSUME NEW k \in T
       PROVE  /\ w[k][1] \in 1 .. Len(body) /\ w[k][2] \in 0 .. n - 1
              /\ w[k] = <<w[k][1], w[k][2]>>
              /\ t[k] = CopyOf(body, body[w[k][1]], w[k][2])
  <2>1. I(k) - 1 \in 0 .. n - 1
    BY <1>15
  <2> QED BY <1>15, <1>16, <2>1
<1>18. ASSUME NEW k \in T, NEW l \in T, w[k] = w[l] PROVE k = l
  <2>1. B(k) = B(l) /\ I(k) - 1 = I(l) - 1 /\ I(k) \in Int /\ I(l) \in Int
    BY <1>15, <1>16, <1>18
  <2>2. I(k) = I(l)
    BY <2>1
  <2>3. P(k) = P(l) /\ J(k) = J(l)
    BY <1>15, <2>1, SMTT(30)
  <2>4. r[k][2] = r[l][2]
    <3>1. /\ P(k) \in 1 .. N /\ r[k][2] \in 1 .. Len(u(P(k))) /\ r[l][2] \in 1 .. Len(u(P(k)))
          /\ Q(P(k))[r[k][2]] = <<I(k), J(k)>> /\ Q(P(k))[r[l][2]] = <<I(k), J(k)>>
      BY <1>15, <2>2, <2>3
    <3>2. \A a, b \in 1 .. Len(u(P(k))) : Q(P(k))[a] = Q(P(k))[b] => a = b
      BY <1>14, <3>1
    <3> QED BY <3>1, <3>2
  <2>5. r[k] = r[l]
    BY <1>15, <2>3, <2>4
  <2> QED BY <1>13, <2>5
<1>19. ASSUME NEW b \in 1 .. Len(body), NEW i \in 0 .. n - 1
       PROVE  \E k \in T : w[k] = <<b, i>>
  <2>1. c[b][1] \in 1 .. N /\ c[b][2] \in 1 .. Len(pieces[c[b][1]]) /\ c[b] = <<c[b][1], c[b][2]>>
    BY <1>5
  <2>2. i + 1 \in 1 .. n /\ (i + 1) - 1 = i
    OBVIOUS
  <2>3. PICK m \in 1 .. Len(u(c[b][1])) : Q(c[b][1])[m] = <<i + 1, c[b][2]>>
    BY <1>14, <2>1, <2>2
  <2>4. PICK k \in T : r[k] = <<c[b][1], m>>
    BY <1>13, <2>1
  <2>5. P(k) = c[b][1] /\ r[k][2] = m
    BY <2>4 DEF P
  <2>6. I(k) = i + 1 /\ J(k) = c[b][2]
    BY <2>3, <2>5 DEF I, J
  <2>7. c[B(k)] = c[b] /\ B(k) \in 1 .. Len(body)
    BY <1>15, <2>1, <2>5, <2>6
  <2>8. B(k) = b
    BY <1>5, <2>7
  <2> QED BY <1>16, <2>2, <2>6, <2>8
<1>20. ASSUME NEW k \in T, NEW l \in T, w[k][2] = w[l][2], w[k][1] < w[l][1] PROVE k < l
  <2>1. I(k) = I(l) /\ B(k) < B(l)
    <3>1. I(k) - 1 = I(l) - 1 /\ I(k) \in Int /\ I(l) \in Int
      BY <1>15, <1>16, <1>20, SMTT(30)
    <3> QED BY <1>16, <1>20, <3>1
  <2>2. Earlier(<<P(k), J(k)>>, <<P(l), J(l)>>)
    BY <1>6, <1>15, <2>1
  <2>3. CASE P(k) < P(l)
    <3>1. Earlier(r[k], r[l])
      BY <2>3 DEF Earlier, P
    <3> QED BY <1>13, <3>1
  <2>4. CASE P(k) = P(l) /\ J(k) < J(l)
    <3>1. Earlier(<<I(k), J(k)>>, <<I(l), J(l)>>)
      BY <2>1, <2>4 DEF Earlier
    <3>2. r[k][2] < r[l][2]
      <4>1. /\ P(k) \in 1 .. N /\ r[k][2] \in 1 .. Len(u(P(k))) /\ r[l][2] \in 1 .. Len(u(P(k)))
            /\ Q(P(k))[r[k][2]] = <<I(k), J(k)>> /\ Q(P(k))[r[l][2]] = <<I(l), J(l)>>
        BY <1>15, <2>4
      <4>2. \A a, b \in 1 .. Len(u(P(k))) : Earlier(Q(P(k))[a], Q(P(k))[b]) => a < b
        BY <1>14, <4>1
      <4> QED BY <3>1, <4>1, <4>2
    <3>3. Earlier(r[k], r[l])
      BY <2>4, <3>2 DEF Earlier, P
    <3> QED BY <1>13, <3>3
  <2> QED BY <2>2, <2>3, <2>4 DEF Earlier
<1>21. Copied(t, body, n, w)
  BY <1>17, <1>18, <1>19, <1>20 DEF Copied
<1> QED BY <1>4, <1>10, <1>21

(* LoopAt and EndAt are the ends of the only loop. *)
LEMMA LoopPlace ==
  ASSUME Looped(ir), HasLoop
  PROVE  LoopIs(ir, LoopAt, EndAt) /\ Bound \in Nat
PROOF
<1>1. ir \in Seq(SomeOp) /\ OneLoop(ir) /\ \A i \in 1 .. Len(ir) : Shape(ir[i])
  BY DEF Looped, Shaped
<1>2. \A K : /\ Position(K) \subseteq Nat
             /\ \A i : i \in Position(K) <=> i \in 1 .. Len(ir) /\ ir[i].k = K
  BY <1>1 DEF Position
<1>3. LoopAt \in Position("forall")
  BY <1>2, LeastOf DEF HasLoop, LoopAt
<1>4. PICK e \in 1 .. Len(ir) : ir[e].k = "end" /\ LoopAt < e
  BY <1>1, <1>2, <1>3 DEF OneLoop
<1>5. EndAt \in Position("end")
  BY <1>2, <1>4, LeastOf DEF EndAt
<1>6. LoopAt \in 1 .. Len(ir) /\ ir[LoopAt].k = "forall" /\ EndAt \in 1 .. Len(ir) /\ ir[EndAt].k = "end"
  BY <1>2, <1>3, <1>5
<1> HIDE DEF LoopAt, EndAt
<1>7. \A i \in 1 .. Len(ir) : (ir[i].k = "forall" <=> i = LoopAt) /\ (ir[i].k = "end" <=> i = EndAt)
  BY <1>1, <1>6 DEF OneLoop
<1>8. LoopAt < EndAt
  BY <1>4, <1>7
<1>9. Bound \in Nat
  BY <1>1, <1>6 DEF Bound, Shape
<1> QED BY <1>6, <1>7, <1>8, <1>9 DEF LoopIs

(* The operations inside the loop are those between its ends. *)
LEMMA InsideIs ==
  ASSUME NEW s, NEW L, NEW E, LoopIs(s, L, E), NEW i \in 1 .. Len(s)
  PROVE  Inside(s, i) <=> L < i /\ i < E
PROOF BY DEF LoopIs, Inside, Loop

(* The function with its loop unrolled: the operations outside in        *)
(* place, copies of those inside.                                        *)
LEMMA UnrollsLoop ==
  ASSUME NEW s \in Seq(SomeOp), NEW L, NEW E, LoopIs(s, L, E), NEW n \in Nat,
         NEW body, body = SubSeq(s, L + 1, E - 1),
         NEW u \in Seq(SomeOp), NEW w, Copied(u, body, n, w)
  PROVE  LET t == SubSeq(s, 1, L - 1) \o u \o SubSeq(s, E + 1, Len(s))
         IN  t \in Seq(SomeOp) /\ \E g : Unrolls(s, L, E, body, n, t, g)
PROOF
<1> DEFINE N == Len(s)
           a == SubSeq(s, 1, L - 1)
           z == SubSeq(s, E + 1, N)
           A == L - 1
           B == A + Len(u)
           C == B + (N - E)
           t == a \o u \o z
<1>1. N \in Nat /\ L \in 1 .. N /\ E \in 1 .. N /\ L < E /\ Len(u) \in Nat
  BY DEF LoopIs
<1>2. /\ a \in Seq(SomeOp) /\ Len(a) = A /\ \A j \in 1 .. A : a[j] = s[j]
  <2>1. 1 \in Int /\ L - 1 \in Int /\ \A i \in 1 .. L - 1 : s[i] \in SomeOp
    BY <1>1
  <2>2. /\ SubSeq(s, 1, L - 1) \in Seq(SomeOp)
        /\ Len(SubSeq(s, 1, L - 1)) = IF 1 <= L - 1 THEN (L - 1) - 1 + 1 ELSE 0
        /\ \A i \in 1 .. (L - 1) - 1 + 1 : SubSeq(s, 1, L - 1)[i] = s[1 + i - 1]
    BY <2>1, SubSeqProperties
  <2>3. (IF 1 <= L - 1 THEN (L - 1) - 1 + 1 ELSE 0) = A
    BY <1>1
  <2>4. \A i \in 1 .. A : i \in 1 .. (L - 1) - 1 + 1 /\ 1 + i - 1 = i
    BY <1>1
  <2> QED BY <2>2, <2>3, <2>4
<1>3. /\ z \in Seq(SomeOp) /\ Len(z) = N - E /\ \A j \in 1 .. N - E : z[j] = s[E + j]
  <2>1. E + 1 \in Int /\ N \in Int /\ \A i \in E + 1 .. N : s[i] \in SomeOp
    BY <1>1
  <2>2. /\ SubSeq(s, E + 1, N) \in Seq(SomeOp)
        /\ Len(SubSeq(s, E + 1, N)) = IF E + 1 <= N THEN N - (E + 1) + 1 ELSE 0
        /\ \A i \in 1 .. N - (E + 1) + 1 : SubSeq(s, E + 1, N)[i] = s[E + 1 + i - 1]
    BY <2>1, SubSeqProperties
  <2>3. (IF E + 1 <= N THEN N - (E + 1) + 1 ELSE 0) = N - E
    BY <1>1
  <2>4. \A i \in 1 .. N - E : i \in 1 .. N - (E + 1) + 1 /\ E + 1 + i - 1 = E + i
    BY <1>1
  <2> QED BY <2>2, <2>3, <2>4
<1>4. /\ Len(body) = E - L - 1 /\ \A b \in 1 .. E - L - 1 : body[b] = s[L + b]
  <2>1. L + 1 \in Int /\ E - 1 \in Int /\ \A i \in L + 1 .. E - 1 : s[i] \in SomeOp
    BY <1>1
  <2>2. /\ Len(SubSeq(s, L + 1, E - 1)) = IF L + 1 <= E - 1 THEN (E - 1) - (L + 1) + 1 ELSE 0
        /\ \A i \in 1 .. (E - 1) - (L + 1) + 1 : SubSeq(s, L + 1, E - 1)[i] = s[L + 1 + i - 1]
    BY <2>1, SubSeqProperties
  <2>3. (IF L + 1 <= E - 1 THEN (E - 1) - (L + 1) + 1 ELSE 0) = E - L - 1
    BY <1>1
  <2>4. \A i \in 1 .. E - L - 1 : i \in 1 .. (E - 1) - (L + 1) + 1 /\ L + 1 + i - 1 = L + i
    BY <1>1
  <2> QED BY <2>2, <2>3, <2>4
<1> HIDE DEF N, a, z
<1>5. A \in Nat /\ B \in Nat /\ C \in Nat /\ A <= B /\ B <= C /\ N - E \in Nat /\ E - L - 1 \in Nat
  BY <1>1
<1>6. /\ t \in Seq(SomeOp) /\ Len(t) = C
      /\ \A k \in 1 .. C : t[k] = IF k <= A THEN s[k] ELSE IF k <= B THEN u[k - A] ELSE s[E + (k - B)]
  <2> DEFINE au == a \o u
  <2>1. /\ au \in Seq(SomeOp) /\ Len(au) = B
        /\ \A k \in 1 .. B : au[k] = IF k <= A THEN a[k] ELSE u[k - A]
    <3>1. /\ au \in Seq(SomeOp) /\ Len(au) = Len(a) + Len(u)
          /\ \A k \in 1 .. Len(a) + Len(u) : au[k] = IF k <= Len(a) THEN a[k] ELSE u[k - Len(a)]
      BY <1>2, ConcatProperties
    <3>2. Len(a) = A
      BY <1>2
    <3> HIDE DEF A, au
    <3> QED BY <3>1, <3>2
  <2> HIDE DEF au
  <2>2. /\ au \o z \in Seq(SomeOp) /\ Len(au \o z) = C
        /\ \A k \in 1 .. C : (au \o z)[k] = IF k <= B THEN au[k] ELSE z[k - B]
    <3>1. /\ au \o z \in Seq(SomeOp) /\ Len(au \o z) = Len(au) + Len(z)
          /\ \A k \in 1 .. Len(au) + Len(z) : (au \o z)[k] = IF k <= Len(au) THEN au[k] ELSE z[k - Len(au)]
      BY <1>3, <2>1, ConcatProperties
    <3>2. Len(au) = B /\ Len(z) = N - E
      BY <1>3, <2>1
    <3> HIDE DEF B
    <3> QED BY <3>1, <3>2
  <2> HIDE DEF B, C, A
  <2>3. ASSUME NEW k \in 1 .. C
        PROVE  (au \o z)[k] = IF k <= A THEN s[k] ELSE IF k <= B THEN u[k - A] ELSE s[E + (k - B)]
    <3>1. CASE k <= A
      <4>1. k <= B /\ k \in 1 .. B /\ k \in 1 .. A
        BY <1>5, <3>1
      <4> QED BY <1>2, <2>1, <2>2, <3>1, <4>1
    <3>2. CASE ~(k <= A) /\ k <= B
      <4>1. k \in 1 .. B
        BY <1>5, <3>2
      <4> QED BY <2>1, <2>2, <3>2, <4>1
    <3>3. CASE ~(k <= A) /\ ~(k <= B)
      <4>1. k - B \in 1 .. N - E
        BY <1>1, <1>5, <3>3 DEF C
      <4> QED BY <1>3, <2>2, <3>3, <4>1
    <3>4. k <= A => k <= B
      BY <1>5
    <3> QED BY <3>1, <3>2, <3>3, <3>4
  <2> QED BY <2>2, <2>3 DEF au
<1> HIDE DEF t
<1> DEFINE g == [k \in 1 .. C |-> IF k <= A THEN <<k, 0>>
                                  ELSE IF k <= B THEN <<L + w[k - A][1], w[k - A][2]>>
                                  ELSE <<E + (k - B), 0>>]
<1>7. /\ \A m \in 1 .. Len(u) : /\ w[m][1] \in 1 .. E - L - 1 /\ w[m][2] \in 0 .. n - 1
                                /\ w[m] = <<w[m][1], w[m][2]>>
                                /\ u[m] = CopyOf(body, body[w[m][1]], w[m][2])
      /\ \A k, l \in 1 .. Len(u) : w[k] = w[l] => k = l
      /\ \A b \in 1 .. E - L - 1 : \A i \in 0 .. n - 1 : \E k \in 1 .. Len(u) : w[k] = <<b, i>>
      /\ \A k, l \in 1 .. Len(u) : w[k][2] = w[l][2] /\ w[k][1] < w[l][1] => k < l
  BY <1>4 DEF Copied
<1> HIDE DEF B, C, A
<1>8. ASSUME NEW k \in 1 .. C
      PROVE  \/ k <= A /\ g[k] = <<k, 0>> /\ t[k] = s[k] /\ k < L
             \/ /\ A < k /\ k <= B /\ k - A \in 1 .. Len(u)
                /\ g[k] = <<L + w[k - A][1], w[k - A][2]>> /\ t[k] = u[k - A]
             \/ /\ B < k /\ k - B \in 1 .. N - E
                /\ g[k] = <<E + (k - B), 0>> /\ t[k] = s[E + (k - B)]
  <2>1. CASE k <= A
    <3>1. k < L
      BY <1>1, <2>1 DEF A
    <3> QED BY <1>6, <2>1, <3>1
  <2>2. CASE ~(k <= A) /\ k <= B
    <3>1. A < k /\ k - A \in 1 .. Len(u)
      BY <1>1, <1>5, <2>2 DEF B
    <3> QED BY <1>6, <2>2, <3>1
  <2>3. CASE ~(k <= A) /\ ~(k <= B)
    <3>1. B < k /\ k - B \in 1 .. N - E
      BY <1>1, <1>5, <2>3 DEF C
    <3> QED BY <1>6, <2>3, <3>1
  <2>4. k <= A => k <= B
    BY <1>5
  <2> QED BY <2>1, <2>2, <2>3, <2>4
<1> HIDE DEF g
<1> DEFINE G(k, j, i) == g[k] = <<j, i>> /\ g[k][1] = j /\ g[k][2] = i
<1>9. ASSUME NEW k \in 1 .. C
      PROVE  \/ /\ k <= A /\ G(k, k, 0) /\ t[k] = s[k] /\ k < L
             \/ /\ A < k /\ k <= B /\ k - A \in 1 .. Len(u)
                /\ G(k, L + w[k - A][1], w[k - A][2]) /\ t[k] = u[k - A]
                /\ L < L + w[k - A][1] /\ L + w[k - A][1] < E /\ L + w[k - A][1] \in 1 .. N
             \/ /\ B < k /\ k - B \in 1 .. N - E
                /\ G(k, E + (k - B), 0) /\ t[k] = s[E + (k - B)]
                /\ E < E + (k - B) /\ E + (k - B) \in 1 .. N
  <2>1. CASE k <= A /\ g[k] = <<k, 0>> /\ t[k] = s[k] /\ k < L
    BY <2>1
  <2>2. CASE /\ A < k /\ k <= B /\ k - A \in 1 .. Len(u)
             /\ g[k] = <<L + w[k - A][1], w[k - A][2]>> /\ t[k] = u[k - A]
    <3>1. w[k - A][1] \in 1 .. E - L - 1
      BY <1>7, <2>2
    <3>2. L < L + w[k - A][1] /\ L + w[k - A][1] < E /\ L + w[k - A][1] \in 1 .. N
      BY <1>1, <3>1, SMTT(30)
    <3> QED BY <2>2, <3>2
  <2>3. CASE /\ B < k /\ k - B \in 1 .. N - E
             /\ g[k] = <<E + (k - B), 0>> /\ t[k] = s[E + (k - B)]
    <3>1. E < E + (k - B) /\ E + (k - B) \in 1 .. N
      BY <1>1, <2>3
    <3> QED BY <2>3, <3>1
  <2> QED BY <1>8, <2>1, <2>2, <2>3
<1>10. ASSUME NEW k \in 1 .. C
       PROVE  /\ g[k][1] \in 1 .. N /\ g[k][1] # L /\ g[k][1] # E
              /\ g[k] = <<g[k][1], g[k][2]>>
              /\ In(L, E, g[k][1]) => g[k][2] \in 0 .. n - 1 /\ t[k] = CopyOf(body, s[g[k][1]], g[k][2])
              /\ ~In(L, E, g[k][1]) => g[k][2] = 0 /\ t[k] = s[g[k][1]]
  <2>1. CASE k <= A /\ G(k, k, 0) /\ t[k] = s[k] /\ k < L
    <3>1. k \in 1 .. N /\ k # L /\ k # E /\ ~In(L, E, k)
      BY <1>1, <1>5, <2>1 DEF In
    <3> QED BY <2>1, <3>1
  <2>2. CASE /\ A < k /\ k <= B /\ k - A \in 1 .. Len(u)
             /\ G(k, L + w[k - A][1], w[k - A][2]) /\ t[k] = u[k - A]
             /\ L < L + w[k - A][1] /\ L + w[k - A][1] < E /\ L + w[k - A][1] \in 1 .. N
    <3>1. /\ w[k - A][1] \in 1 .. E - L - 1 /\ w[k - A][2] \in 0 .. n - 1
          /\ u[k - A] = CopyOf(body, body[w[k - A][1]], w[k - A][2])
      BY <1>7, <2>2
    <3>2. body[w[k - A][1]] = s[L + w[k - A][1]]
      BY <1>4, <3>1
    <3>3. L + w[k - A][1] \in Int
      BY <2>2
    <3>4. In(L, E, L + w[k - A][1]) /\ L + w[k - A][1] # L /\ L + w[k - A][1] # E
      <4> DEFINE x == L + w[k - A][1]
      <4>1. L < x /\ x < E /\ x \in Int
        BY <2>2, <3>3
      <4> HIDE DEF x
      <4>2. In(L, E, x) /\ x # L /\ x # E
        BY <1>1, <4>1 DEF In
      <4> QED BY <4>2 DEF x
    <3> QED BY <2>2, <3>1, <3>2, <3>4
  <2>3. CASE /\ B < k /\ k - B \in 1 .. N - E
             /\ G(k, E + (k - B), 0) /\ t[k] = s[E + (k - B)]
             /\ E < E + (k - B) /\ E + (k - B) \in 1 .. N
    <3>1. ~In(L, E, E + (k - B)) /\ E + (k - B) # L /\ E + (k - B) # E
      BY <1>1, <2>3, SMTT(30) DEF In
    <3> QED BY <2>3, <3>1
  <2> HIDE DEF G
  <2> QED BY <1>9, <2>1, <2>2, <2>3
<1>16. /\ \A m \in 1 .. C : \/ m <= A /\ g[m][1] = m /\ m < L
                            \/ A < m /\ m <= B /\ L < g[m][1] /\ g[m][1] < E
                            \/ B < m /\ E < g[m][1] /\ g[m][1] = E + (m - B)
       /\ \A m \in 1 .. C :
            A < m /\ m <= B =>
              /\ m - A \in 1 .. Len(u)
              /\ L < g[m][1] /\ g[m][1] < E /\ w[m - A][2] = g[m][2]
              /\ w[m - A][1] = g[m][1] - L
              /\ w[m - A] = <<g[m][1] - L, g[m][2]>>
  <2>1. \A m \in 1 .. C : \/ m <= A /\ g[m][1] = m /\ m < L
                          \/ A < m /\ m <= B /\ L < g[m][1] /\ g[m][1] < E
                          \/ B < m /\ E < g[m][1] /\ g[m][1] = E + (m - B)
    <3> TAKE m \in 1 .. C
    <3>1. CASE m <= A /\ G(m, m, 0) /\ m < L
      BY <3>1
    <3>2. CASE /\ A < m /\ m <= B
               /\ G(m, L + w[m - A][1], w[m - A][2])
               /\ L < L + w[m - A][1] /\ L + w[m - A][1] < E
      <4> DEFINE x == L + w[m - A][1]
      <4>1. g[m][1] = x /\ L < x /\ x < E
        BY <3>2
      <4> HIDE DEF x
      <4> QED BY <3>2, <4>1
    <3>3. CASE B < m /\ G(m, E + (m - B), 0) /\ E < E + (m - B)
      BY <3>3
    <3> HIDE DEF G
    <3> QED BY <1>9, <3>1, <3>2, <3>3
  <2>2. ASSUME NEW m \in 1 .. C, A < m, m <= B
        PROVE  /\ m - A \in 1 .. Len(u)
               /\ L < g[m][1] /\ g[m][1] < E /\ w[m - A][2] = g[m][2]
               /\ w[m - A][1] = g[m][1] - L
               /\ w[m - A] = <<g[m][1] - L, g[m][2]>>
    <3>1. ~(m <= A) /\ ~(B < m)
      BY <1>5, <2>2
    <3>2. /\ m - A \in 1 .. Len(u) /\ G(m, L + w[m - A][1], w[m - A][2])
          /\ L < L + w[m - A][1] /\ L + w[m - A][1] < E
      BY <1>9, <3>1
    <3>3. /\ w[m - A][1] \in 1 .. E - L - 1
          /\ w[m - A] = <<w[m - A][1], w[m - A][2]>>
      BY <1>7, <3>2
    <3>4. w[m - A][1] = g[m][1] - L
      <4> DEFINE x == w[m - A][1]
      <4>1. x \in Int /\ g[m][1] = L + x
        BY <3>2, <3>3
      <4> HIDE DEF x
      <4>2. x = g[m][1] - L
        BY <1>1, <4>1
      <4> QED BY <4>2 DEF x
    <3> QED BY <3>2, <3>3, <3>4
  <2> QED BY <2>1, <2>2
<1>11. ASSUME NEW k \in 1 .. C, NEW l \in 1 .. C,
              g[k][1] < g[l][1],
              g[k][2] = g[l][2] \/ ~In(L, E, g[k][1]) \/ ~In(L, E, g[l][1])
       PROVE  k < l
  <2>1. k \in Nat /\ l \in Nat /\ g[k][1] \in Int /\ g[l][1] \in Int
    <3>1. g[k][1] \in Int /\ g[l][1] \in Int
      BY <1>1, <1>10, SMTT(30)
    <3> QED BY <3>1
  <2>3. CASE A < k /\ k <= B /\ A < l /\ l <= B
    <3>1. /\ k - A \in 1 .. Len(u) /\ w[k - A][2] = g[k][2] /\ w[k - A][1] = g[k][1] - L
          /\ l - A \in 1 .. Len(u) /\ w[l - A][2] = g[l][2] /\ w[l - A][1] = g[l][1] - L
          /\ L < g[k][1] /\ g[k][1] < E /\ L < g[l][1] /\ g[l][1] < E
      BY <1>16, <2>3
    <3>4. In(L, E, g[k][1]) /\ In(L, E, g[l][1])
      BY <3>1 DEF In
    <3>5. g[k][1] - L < g[l][1] - L
      <4> DEFINE x == g[k][1]
                 y == g[l][1]
      <4>1. x \in Int /\ y \in Int /\ x < y /\ L \in Int
        BY <1>1, <1>11, <2>1
      <4> HIDE DEF x, y
      <4>2. x - L < y - L
        BY <4>1
      <4> QED BY <4>2 DEF x, y
    <3>2. w[k - A][2] = w[l - A][2] /\ w[k - A][1] < w[l - A][1]
      BY <1>11, <3>1, <3>4, <3>5
    <3>3. k - A < l - A
      BY <1>7, <3>1, <3>2
    <3> QED BY <1>5, <2>1, <3>3
  <2>4. CASE ~(A < k /\ k <= B) \/ ~(A < l /\ l <= B)
    <3> DEFINE x == g[k][1]
               y == g[l][1]
    <3>1. /\ \/ k <= A /\ x = k /\ k < L
             \/ A < k /\ k <= B /\ L < x /\ x < E
             \/ B < k /\ E < x /\ x = E + (k - B)
          /\ \/ l <= A /\ y = l /\ l < L
             \/ A < l /\ l <= B /\ L < y /\ y < E
             \/ B < l /\ E < y /\ y = E + (l - B)
      BY <1>16
    <3>2. x < y /\ x \in Int /\ y \in Int
      BY <1>11, <2>1
    <3>3. L \in Int /\ E \in Int /\ L < E /\ A \in Int /\ B \in Int /\ A <= B
      BY <1>1, <1>5
    <3> HIDE DEF x, y
    <3>4. k \in Int /\ l \in Int
      BY <2>1
    <3> QED BY <2>4, <3>1, <3>2, <3>3, <3>4
  <2> QED BY <2>3, <2>4
<1>12. ASSUME NEW k \in 1 .. C, NEW l \in 1 .. C, g[k] = g[l] PROVE k = l
  <2>1. k \in Nat /\ l \in Nat /\ g[k][1] \in Int /\ g[l][1] \in Int
    <3>1. g[k][1] \in Int /\ g[l][1] \in Int
      BY <1>1, <1>10, SMTT(30)
    <3> QED BY <3>1
  <2>2. g[k][1] = g[l][1] /\ g[k][2] = g[l][2]
    BY <1>12
  <2>3. CASE A < k /\ k <= B /\ A < l /\ l <= B
    <3>1. /\ k - A \in 1 .. Len(u) /\ w[k - A] = <<g[k][1] - L, g[k][2]>>
          /\ l - A \in 1 .. Len(u) /\ w[l - A] = <<g[l][1] - L, g[l][2]>>
      BY <1>16, <2>3
    <3>3. w[k - A] = w[l - A]
      BY <2>2, <3>1
    <3>2. k - A = l - A
      BY <1>7, <3>1, <3>3
    <3> QED BY <1>5, <2>1, <3>2
  <2>4. CASE ~(A < k /\ k <= B) \/ ~(A < l /\ l <= B)
    <3> DEFINE x == g[k][1]
               y == g[l][1]
    <3>1. /\ \/ k <= A /\ x = k /\ k < L
             \/ A < k /\ k <= B /\ L < x /\ x < E
             \/ B < k /\ E < x /\ x = E + (k - B)
          /\ \/ l <= A /\ y = l /\ l < L
             \/ A < l /\ l <= B /\ L < y /\ y < E
             \/ B < l /\ E < y /\ y = E + (l - B)
      BY <1>16
    <3>2. x = y /\ x \in Int /\ y \in Int
      BY <2>2, <2>1
    <3>3. L \in Int /\ E \in Int /\ L < E /\ A \in Int /\ B \in Int /\ A <= B
      BY <1>1, <1>5
    <3> HIDE DEF x, y
    <3>4. k \in Int /\ l \in Int
      BY <2>1
    <3> QED BY <2>4, <3>1, <3>2, <3>3, <3>4
  <2> QED BY <2>3, <2>4
<1>13. ASSUME NEW j \in 1 .. N, NEW i \in 0 .. n - 1, In(L, E, j)
       PROVE  \E k \in 1 .. C : g[k] = <<j, i>>
  <2>1. j - L \in 1 .. E - L - 1 /\ L + (j - L) = j
    BY <1>1, <1>13 DEF In
  <2>2. PICK m \in 1 .. Len(u) : w[m] = <<j - L, i>>
    BY <1>7, <2>1
  <2>3. A + m \in 1 .. C /\ ~(A + m <= A) /\ A + m <= B /\ (A + m) - A = m
    BY <1>1, <1>5 DEF B
  <2>4. g[A + m] = <<L + (j - L), i>>
    BY <2>2, <2>3 DEF g
  <2> QED BY <2>1, <2>3, <2>4
<1>14. ASSUME NEW j \in 1 .. N, ~In(L, E, j), j # L, j # E
       PROVE  \E k \in 1 .. C : g[k] = <<j, 0>>
  <2>1. CASE j < L
    <3>1. j \in 1 .. C /\ j <= A
      BY <1>1, <1>5, <2>1 DEF A
    <3> QED BY <3>1 DEF g
  <2>2. CASE E < j
    <3>1. B + (j - E) \in 1 .. C /\ ~(B + (j - E) <= B) /\ ~(B + (j - E) <= A) /\ E + ((B + (j - E)) - B) = j
      BY <1>1, <1>5, <2>2 DEF C
    <3>2. g[B + (j - E)] = <<j, 0>>
      BY <3>1 DEF g
    <3> QED BY <3>1, <3>2
  <2> QED BY <1>1, <1>14, <2>1, <2>2 DEF In
<1>15. Unrolls(s, L, E, body, n, t, g)
  BY <1>6, <1>10, <1>11, <1>12, <1>13, <1>14 DEF Unrolls, N
<1> QED BY <1>6, <1>15 DEF t, a, z, N

(* Every operation but the loop itself can be copied. *)
LEMMA CopyableIs ==
  ASSUME NEW op \in SomeOp, Shape(op), op.k # "forall"
  PROVE  Copyable(op)
PROOF
<1>1. op.inv \in {<< >>} \cup InvRec
  <2>1. op.k \in Launches \cup {"wait", "inv"} => op.inv \in InvRec
    BY DEF Shape
  <2>2. op.k \in Simple \cup {"alloc", "dealloc", "binding", "end"} => op.inv = << >>
    BY DEF Shape
  <2>3. op.k \notin {"hostcopy", "program"}
    BY DEF Shape
  <2>4. op.k \in Launches \cup {"wait", "inv"} \/ op.k \in Simple \cup {"alloc", "dealloc", "binding", "end"}
    <3>1. op.k \in {"binding", "alloc", "dealloc", "load", "store", "copy", "hostcopy", "kernel",
                "call", "view", "forall", "end", "inv", "start", "wait", "program"}
      BY DEF SomeOp
    <3> QED BY <2>3, <3>1 DEF Launches, Simple
  <2> QED BY <2>1, <2>2, <2>4
<1> QED BY <1>1 DEF Copyable

(* Unrolling keeps starts and waits matched, one invocation per          *)
(* iteration.                                                            *)
LEMMA UnrollsLowered ==
  ASSUME NEW s, Looped(s), \A i \in 1 .. Len(s) : s[i].k \notin {"call", "kernel"},
         NEW L, NEW E, LoopIs(s, L, E), NEW body, NEW n \in Nat,
         NEW t \in Seq(SomeOp), NEW g, Unrolls(s, L, E, body, n, t, g)
  PROVE  Lowered(t)
PROOF
<1> DEFINE N == 1 .. Len(s)
           T == 1 .. Len(t)
<1>1. /\ \A k \in T : /\ g[k][1] \in N /\ g[k][1] # L /\ g[k][1] # E
                      /\ g[k] = <<g[k][1], g[k][2]>>
                      /\ In(L, E, g[k][1]) => g[k][2] \in 0 .. n - 1 /\ t[k] = CopyOf(body, s[g[k][1]], g[k][2])
                      /\ ~In(L, E, g[k][1]) => g[k][2] = 0 /\ t[k] = s[g[k][1]]
      /\ \A k, l \in T : g[k] = g[l] => k = l
      /\ \A j \in N : \A i \in 0 .. n - 1 : In(L, E, j) => \E k \in T : g[k] = <<j, i>>
      /\ \A j \in N : ~In(L, E, j) /\ j # L /\ j # E => \E k \in T : g[k] = <<j, 0>>
      /\ \A k, l \in T :
           g[k][1] < g[l][1] /\ (g[k][2] = g[l][2] \/ ~In(L, E, g[k][1]) \/ ~In(L, E, g[l][1])) => k < l
  BY DEF Unrolls
<1>2. /\ s \in Seq(SomeOp) /\ \A j \in N : s[j] \in SomeOp /\ Shape(s[j])
      /\ \A j \in N : (s[j].k = "forall" <=> j = L) /\ (s[j].k = "end" <=> j = E)
      /\ \A j \in N : Inside(s, j) <=> In(L, E, j)
      /\ \A j \in N : s[j].k \in Launches \cup {"wait"} => s[j].inv.it = 0 /\ s[j].inv \in InvRec
  <2>1. s \in Seq(SomeOp) /\ \A j \in N : s[j] \in SomeOp /\ Shape(s[j])
    BY DEF Looped, Shaped
  <2>2. \A j \in N : (s[j].k = "forall" <=> j = L) /\ (s[j].k = "end" <=> j = E)
    BY DEF LoopIs
  <2>3. \A j \in N : Inside(s, j) <=> In(L, E, j)
    BY InsideIs DEF In
  <2>4. \A j \in N : s[j].k \in Launches \cup {"wait"} => s[j].inv.it = 0 /\ s[j].inv \in InvRec
    BY <2>1 DEF Looped, First, Shape
  <2> QED BY <2>1, <2>2, <2>3, <2>4
<1>0. Len(t) \in Nat /\ Len(s) \in Nat
  BY <1>2
<1> HIDE DEF N, T
<1>3. ASSUME NEW k \in T
      PROVE  /\ t[k] \in SomeOp /\ Shape(t[k])
             /\ t[k].k = s[g[k][1]].k /\ t[k].ex = s[g[k][1]].ex
             /\ t[k].k \in Launches \cup {"wait"} =>
                  t[k].inv \in InvRec /\ t[k].inv.id = s[g[k][1]].inv.id /\ t[k].inv.it = g[k][2]
  <2>0. g[k][1] \in N
    BY <1>1
  <2>1. CASE In(L, E, g[k][1])
    <3>1. t[k] = CopyOf(body, s[g[k][1]], g[k][2]) /\ g[k][2] \in Nat
      BY <1>1, <2>1
    <3>2. Copyable(s[g[k][1]]) /\ s[g[k][1]] \in SomeOp
      BY <1>1, <1>2, <2>0, CopyableIs
    <3>3. /\ t[k] \in SomeOp /\ Shape(t[k])
          /\ t[k].k = s[g[k][1]].k /\ t[k].ex = s[g[k][1]].ex
          /\ s[g[k][1]].inv \in InvRec =>
               t[k].inv \in InvRec /\ t[k].inv.id = s[g[k][1]].inv.id /\ t[k].inv.it = g[k][2]
      <4> DEFINE op == s[g[k][1]]
                 i == g[k][2]
      <4>1. op \in SomeOp /\ Shape(op) /\ op.inv \in {<< >>} \cup InvRec /\ op.k # "forall" /\ i \in Nat
        BY <3>1, <3>2 DEF Copyable
      <4>2. t[k] = CopyOf(body, op, i)
        BY <3>1
      <4> HIDE DEF op, i
      <4>3. /\ CopyOf(body, op, i) \in SomeOp /\ Shape(CopyOf(body, op, i))
            /\ CopyOf(body, op, i).k = op.k /\ CopyOf(body, op, i).ex = op.ex
            /\ op.inv \in InvRec => /\ CopyOf(body, op, i).inv \in InvRec
                                    /\ CopyOf(body, op, i).inv.id = op.inv.id
                                    /\ CopyOf(body, op, i).inv.it = i
        <5>1. CopyKeeps(op, CopyOf(body, op, i), i)
          BY <4>1, CopyTyped
        <5> QED BY <5>1 DEF CopyKeeps
      <4> QED BY <4>2, <4>3 DEF op, i
    <3> QED BY <1>2, <2>0, <3>3
  <2>2. CASE ~In(L, E, g[k][1])
    <3>1. t[k] = s[g[k][1]] /\ g[k][2] = 0
      BY <1>1, <2>2
    <3> QED BY <1>2, <2>0, <3>1
  <2> QED BY <2>1, <2>2
<1>4. ASSUME NEW k \in T PROVE t[k].k \in LoweredKinds
  <2>1. t[k].k \notin {"forall", "end", "call", "kernel"}
    BY <1>1, <1>2, <1>3 DEF N
  <2>2. t[k].k \notin {"hostcopy", "program"}
    BY <1>3 DEF Shape
  <2>3. t[k].k \in {"binding", "alloc", "dealloc", "load", "store", "copy", "hostcopy", "kernel",
                "call", "view", "forall", "end", "inv", "start", "wait", "program"}
    BY <1>3 DEF SomeOp
  <2> QED BY <2>1, <2>2, <2>3 DEF LoweredKinds
<1>5. ASSUME NEW k \in T, NEW l \in T, {t[k].k, t[l].k} \subseteq Launches \cup {"wait"}, t[k].inv = t[l].inv
      PROVE  s[g[k][1]].inv = s[g[l][1]].inv /\ g[k][2] = g[l][2]
  <2>1. /\ s[g[k][1]].inv.id = s[g[l][1]].inv.id /\ g[k][2] = g[l][2]
    BY <1>3, <1>5
  <2>2. /\ s[g[k][1]].inv.it = 0 /\ s[g[k][1]].inv \in InvRec
        /\ s[g[l][1]].inv.it = 0 /\ s[g[l][1]].inv \in InvRec
    BY <1>1, <1>2, <1>3, <1>5
  <2>3. \A r, q \in InvRec : r.id = q.id /\ r.it = q.it => r = q
    BY DEF InvRec
  <2> QED BY <2>1, <2>2, <2>3
<1>6. LaunchedOnce(t)
  <2>1. ASSUME NEW k \in T, NEW l \in T, t[k].k \in Launches, t[l].k \in Launches, t[k].inv = t[l].inv
        PROVE  k = l
    <3>1. s[g[k][1]].inv = s[g[l][1]].inv /\ g[k][2] = g[l][2]
      BY <1>5, <2>1
    <3>2. g[k][1] = g[l][1]
      BY <1>1, <1>3, <2>1, <3>1, SMTT(30) DEF Looped, LaunchedOnce, N
    <3> QED BY <1>1, <3>1, <3>2
  <2> QED BY <2>1 DEF LaunchedOnce, T
<1>7. WaitedOnce(t)
  <2>1. ASSUME NEW k \in T, NEW l \in T, t[k].k = "wait", t[l].k = "wait", t[k].inv = t[l].inv
        PROVE  k = l
    <3>1. s[g[k][1]].inv = s[g[l][1]].inv /\ g[k][2] = g[l][2]
      BY <1>5, <2>1
    <3>2. g[k][1] = g[l][1]
      BY <1>1, <1>3, <2>1, <3>1, SMTT(30) DEF Looped, WaitedOnce, N
    <3> QED BY <1>1, <3>1, <3>2
  <2> QED BY <2>1 DEF WaitedOnce, T
(* The copy of an operation that starts or waits for the same iteration. *)
<1>12. ASSUME NEW k \in T, NEW i \in N, s[g[k][1]].k \in {"start", "wait"}, s[i].k \in {"start", "wait"},
              In(L, E, i) <=> In(L, E, g[k][1]), s[i].inv = s[g[k][1]].inv
       PROVE  \E l \in T : /\ g[l][1] = i /\ g[l][2] = g[k][2] /\ t[l].k = s[i].k /\ t[l].ex = s[i].ex
                            /\ t[l].inv = t[k].inv
  <2>1. i # L /\ i # E
    BY <1>2, <1>12
  <2>2. PICK l \in T : g[l] = <<i, g[k][2]>>
    <3>1. CASE In(L, E, i)
      <4>1. g[k][2] \in 0 .. n - 1
        BY <1>1, <1>12, <3>1
      <4> QED BY <1>1, <3>1, <4>1
    <3>2. CASE ~In(L, E, i)
      <4>1. g[k][2] = 0
        BY <1>1, <1>12, <3>2
      <4> QED BY <1>1, <2>1, <3>2, <4>1
    <3> QED BY <3>1, <3>2
  <2>3. g[l][1] = i /\ g[l][2] = g[k][2]
    BY <2>2
  <2>4. /\ t[l].k = s[i].k /\ t[l].ex = s[i].ex
        /\ t[l].inv.id = t[k].inv.id /\ t[l].inv.it = t[k].inv.it /\ t[l].inv \in InvRec /\ t[k].inv \in InvRec
    BY <1>3, <1>12, <2>3 DEF Launches
  <2>5. \A r, q \in InvRec : r.id = q.id /\ r.it = q.it => r = q
    BY DEF InvRec
  <2> QED BY <2>3, <2>4, <2>5
<1>8. WaitsStarted(t)
  <2>1. ASSUME NEW k \in T, t[k].k = "wait" PROVE \E l \in T : l < k /\ Match(t[l], t[k])
    <3>0. g[k][1] \in N /\ s[g[k][1]].k = "wait" /\ t[k].ex = s[g[k][1]].ex
      BY <1>1, <1>3, <2>1
    <3>1. PICK i \in N : i < g[k][1] /\ Match(s[i], s[g[k][1]])
      BY <3>0 DEF Looped, WaitsStarted, N
    <3>2. In(L, E, i) <=> In(L, E, g[k][1])
      BY <1>2, <3>0, <3>1 DEF Looped, LoopOfSlices, N
    <3>3. PICK l \in T : /\ g[l][1] = i /\ g[l][2] = g[k][2] /\ t[l].k = s[i].k /\ t[l].ex = s[i].ex
                          /\ t[l].inv = t[k].inv
      BY <1>12, <3>0, <3>1, <3>2 DEF Match
    <3>4. l < k
      BY <1>1, <3>1, <3>3
    <3> QED BY <2>1, <3>0, <3>1, <3>3, <3>4 DEF Match
  <2> QED BY <2>1 DEF WaitsStarted, T
<1>11. StartsWaited(t)
  <2>1. ASSUME NEW k \in T, t[k].k = "start" PROVE \E l \in T : k < l /\ Match(t[k], t[l])
    <3>0. g[k][1] \in N /\ s[g[k][1]].k = "start" /\ t[k].ex = s[g[k][1]].ex
      BY <1>1, <1>3, <2>1
    <3>1. PICK i \in N : g[k][1] < i /\ Match(s[g[k][1]], s[i])
      BY <3>0 DEF Looped, StartsWaited, N
    <3>2. In(L, E, i) <=> In(L, E, g[k][1])
      BY <1>2, <3>0, <3>1 DEF Looped, LoopOfSlices, N
    <3>3. PICK l \in T : /\ g[l][1] = i /\ g[l][2] = g[k][2] /\ t[l].k = s[i].k /\ t[l].ex = s[i].ex
                          /\ t[l].inv = t[k].inv
      BY <1>12, <3>0, <3>1, <3>2 DEF Match
    <3>4. k < l
      BY <1>1, <3>1, <3>3
    <3> QED BY <2>1, <3>0, <3>1, <3>3, <3>4 DEF Match
  <2> QED BY <2>1 DEF StartsWaited, T
<1>9. CssInTurn(t)
  <2>1. ASSUME NEW k \in T, NEW l \in T, k < l, t[k].k = "start", t[k].ex = "css",
               t[l].k \in Launches, t[l].ex = "css"
        PROVE  \E m \in T : k < m /\ m < l /\ t[m].k = "wait" /\ t[m].ex = "css"
    <3>0. /\ g[k][1] \in N /\ s[g[k][1]].k = "start" /\ s[g[k][1]].ex = "css"
          /\ g[l][1] \in N /\ s[g[l][1]].k \in Launches /\ s[g[l][1]].ex = "css"
      BY <1>1, <1>3, <2>1
    <3>1. \A j \in N : s[j].ex = "css" => ~In(L, E, j)
      BY <1>2 DEF Looped, LoopOfSlices, N
    <3>2. ~In(L, E, g[k][1]) /\ ~In(L, E, g[l][1]) /\ g[k] = <<g[k][1], 0>> /\ g[l] = <<g[l][1], 0>>
      BY <1>1, <3>0, <3>1
    <3>3. g[k][1] < g[l][1]
      <4>0. g[k][1] \in Int /\ g[l][1] \in Int /\ k \in Int /\ l \in Int
        BY <1>0, <3>0 DEF N, T
      <4>1. ~(g[l][1] < g[k][1])
        <5>1. g[l][1] < g[k][1] => l < k
          BY <1>1, <3>2
        <5> QED BY <2>1, <4>0, <5>1
      <4>2. g[k][1] # g[l][1]
        <5>1. g[k][1] = g[l][1] => k = l
          BY <1>1, <3>2
        <5> QED BY <2>1, <4>0, <5>1
      <4> QED BY <4>0, <4>1, <4>2
    <3>4. PICK i \in N : g[k][1] < i /\ i < g[l][1] /\ s[i].k = "wait" /\ s[i].ex = "css"
      BY <3>0, <3>3 DEF Looped, CssInTurn, N
    <3>5. ~In(L, E, i) /\ i # L /\ i # E
      BY <1>2, <3>1, <3>4
    <3>6. PICK m \in T : g[m] = <<i, 0>>
      BY <1>1, <3>5
    <3>7. g[m][1] = i
      BY <3>6
    <3>8. k < m /\ m < l
      BY <1>1, <3>2, <3>4, <3>7
    <3>9. t[m].k = "wait" /\ t[m].ex = "css"
      BY <1>3, <3>4, <3>7
    <3> QED BY <3>8, <3>9
  <2> QED BY <2>1 DEF CssInTurn, T
<1>10. Shaped(t)
  BY <1>3 DEF Shaped, T
<1> QED BY <1>4, <1>6, <1>7, <1>8, <1>9, <1>10, <1>11 DEF Lowered, T

(* With a loop, the pass makes the unrolling. *)
LEMMA UnrollMaps ==
  ASSUME Looped(ir), HasLoop, UnrollForall
  PROVE  /\ LoopIs(ir, LoopAt, EndAt) /\ Bound \in Nat
         /\ ir' \in Seq(SomeOp) /\ \E g : Unrolls(ir, LoopAt, EndAt, Body, Bound, ir', g)
PROOF
<1>0. ir \in Seq(SomeOp) /\ Len(ir) \in Nat /\ \A k \in 1 .. Len(ir) : ir[k] \in SomeOp /\ Shape(ir[k])
  BY DEF Looped, Shaped
<1> DEFINE L == LoopAt
           E == EndAt
           n == Bound
           body == SubSeq(ir, L + 1, E - 1)
<1>1. LoopIs(ir, L, E) /\ n \in Nat
  BY LoopPlace
<1>2. ir' = SubSeq(ir, 1, L - 1) \o Unrolled \o SubSeq(ir, E + 1, Len(ir))
  BY DEF UnrollForall, WithLoopAs
<1>3. Unrolled = UnrolledBody(body, n)
  BY DEF Unrolled, UnrolledBody, Body
<1> HIDE DEF L, E, n
<1>4. /\ body \in Seq(SomeOp) /\ Len(body) = E - L - 1
      /\ \A b \in 1 .. E - L - 1 : body[b] = ir[L + b] /\ L + b \in 1 .. Len(ir) /\ L + b # L
  <2>1. L + 1 \in Int /\ E - 1 \in Int /\ L \in 1 .. Len(ir) /\ E \in 1 .. Len(ir) /\ L < E
        /\ \A i \in L + 1 .. E - 1 : i \in 1 .. Len(ir)
    BY <1>0, <1>1 DEF LoopIs
  <2>2. \A i \in L + 1 .. E - 1 : ir[i] \in SomeOp
    BY <1>0, <2>1
  <2>3. /\ body \in Seq(SomeOp)
        /\ Len(body) = IF L + 1 <= E - 1 THEN (E - 1) - (L + 1) + 1 ELSE 0
        /\ \A i \in 1 .. (E - 1) - (L + 1) + 1 : body[i] = ir[L + 1 + i - 1]
    BY <2>1, <2>2, SubSeqProperties
  <2> HIDE DEF body
  <2>4. (IF L + 1 <= E - 1 THEN (E - 1) - (L + 1) + 1 ELSE 0) = E - L - 1
    BY <2>1
  <2>5. \A i \in 1 .. E - L - 1 : /\ i \in 1 .. (E - 1) - (L + 1) + 1 /\ L + 1 + i - 1 = L + i
                                  /\ L + i \in 1 .. Len(ir) /\ L + i # L
    BY <1>0, <2>1
  <2> QED BY <2>3, <2>4, <2>5
<1>5. \A b \in 1 .. Len(body) : Copyable(body[b])
  <2>1. \A j \in 1 .. Len(ir) : j # L => ir[j].k # "forall"
    BY <1>1 DEF LoopIs
  <2>2. \A j \in 1 .. Len(ir) : j # L => Copyable(ir[j])
    BY <1>0, <2>1, CopyableIs
  <2> HIDE DEF body
  <2> QED BY <1>4, <2>2
<1>6. /\ UnrolledBody(body, n) \in Seq(SomeOp)
      /\ \E w : Copied(UnrolledBody(body, n), body, n, w)
  <2> HIDE DEF body
  <2> QED BY <1>1, <1>4, <1>5, UnrollPlaces
<1>7. PICK w : Copied(UnrolledBody(body, n), body, n, w)
  BY <1>6
<1>8. ir' \in Seq(SomeOp) /\ \E g : Unrolls(ir, L, E, body, n, ir', g)
  <2> DEFINE u == UnrolledBody(body, n)
  <2>1. u \in Seq(SomeOp) /\ Copied(u, body, n, w) /\ ir' = SubSeq(ir, 1, L - 1) \o u \o SubSeq(ir, E + 1, Len(ir))
    BY <1>2, <1>3, <1>6, <1>7
  <2> HIDE DEF u
  <2>2. body = SubSeq(ir, L + 1, E - 1)
    OBVIOUS
  <2> HIDE DEF body
  <2> QED BY <1>0, <1>1, <2>1, <2>2, UnrollsLoop
<1> QED BY <1>1, <1>8 DEF L, E, n, Body

(* ForallOpPattern leaves a function without a loop whose starts and     *)
(* waits match.                                                          *)
LEMMA UnrollLowers ==
  ASSUME Looped(ir), \A k \in 1 .. Len(ir) : ir[k].k \notin {"call", "kernel"}, UnrollForall
  PROVE  Lowered(ir')
PROOF
<1>1. ir \in Seq(SomeOp) /\ Len(ir) \in Nat /\ \A k \in 1 .. Len(ir) : ir[k] \in SomeOp /\ Shape(ir[k])
  BY DEF Looped, Shaped
<1>2. CASE HasLoop
  <2>1. /\ LoopIs(ir, LoopAt, EndAt) /\ Bound \in Nat
        /\ ir' \in Seq(SomeOp) /\ \E g : Unrolls(ir, LoopAt, EndAt, Body, Bound, ir', g)
    BY <1>2, UnrollMaps
  <2> QED BY <2>1, UnrollsLowered
<1>3. CASE ~HasLoop
  <2>1. ir' = ir
    BY <1>3 DEF UnrollForall
  <2>2. \A i \in 1 .. Len(ir) : ir[i].k # "forall"
    BY <1>1, <1>3 DEF HasLoop, Position
  <2>3. \A i \in 1 .. Len(ir) : ir[i].k \notin {"forall", "end"}
    BY <2>2 DEF Looped, OneLoop
  <2>4. \A i \in 1 .. Len(ir) : ir[i].k \in LoweredKinds
    <3> TAKE i \in 1 .. Len(ir)
    <3>1. ir[i].k \notin {"hostcopy", "program"}
      BY <1>1 DEF Shape
    <3>2. ir[i].k \in {"binding", "alloc", "dealloc", "load", "store", "copy", "hostcopy", "kernel",
                "call", "view", "forall", "end", "inv", "start", "wait", "program"}
      BY <1>1 DEF SomeOp
    <3> QED BY <2>3, <3>1, <3>2 DEF LoweredKinds
  <2> QED BY <2>1, <2>4 DEF Looped, Lowered
<1> QED BY <1>2, <1>3

(* The recursive function of the fold in scheduleSliceTasks exists. *)
LEMMA ScheduleSteps ==
  ASSUME NEW n \in Nat, NEW s
  PROVE  \E f : f = [i \in 0 .. n |-> IF i = 0 THEN Unscheduled ELSE Schedule(f[i - 1], s[i])]
PROOF
<1> DEFINE R(g, m) == g = [i \in 0 .. m |-> IF i = 0 THEN Unscheduled ELSE Schedule(g[i - 1], s[i])]
           T == {m \in Nat : \E g : R(g, m)}
<1>0. \E f : R(f, n)
  <2>1. 0 \in T
    <3>1. R([i \in 0 .. 0 |-> Unscheduled], 0)
      OBVIOUS
    <3> QED BY <3>1
  <2>2. ASSUME NEW m \in Nat, m \in T PROVE m + 1 \in T
    <3>1. PICK g : R(g, m)
      BY <2>2
    <3>2. \A i \in 0 .. m : g[i] = IF i = 0 THEN Unscheduled ELSE Schedule(g[i - 1], s[i])
      BY <3>1
    <3> HIDE DEF R
    <3> DEFINE h == [i \in 0 .. m + 1 |-> IF i <= m THEN g[i] ELSE Schedule(g[m], s[m + 1])]
    <3>3. ASSUME NEW i \in 0 .. m + 1
          PROVE  h[i] = IF i = 0 THEN Unscheduled ELSE Schedule(h[i - 1], s[i])
      <4>1. CASE i <= m
        <5>1. h[i] = g[i] /\ (i # 0 => h[i - 1] = g[i - 1])
          BY <4>1
        <5>2. g[i] = IF i = 0 THEN Unscheduled ELSE Schedule(g[i - 1], s[i])
          BY <3>2, <4>1
        <5> HIDE DEF h
        <5> QED BY <5>1, <5>2
      <4>2. CASE i = m + 1
        BY <4>2
      <4> QED BY <4>1, <4>2
    <3>4. R(h, m + 1)
      <4>1. h = [i \in 0 .. m + 1 |-> h[i]]
        OBVIOUS
      <4> HIDE DEF h
      <4> QED BY <3>3, <4>1 DEF R
    <3> HIDE DEF h
    <3> QED BY <3>4
  <2>3. n \in T
    <3> HIDE DEF T
    <3> QED BY <2>1, <2>2, NatSet
  <2> QED BY <2>3
<1> QED BY <1>0

(* One more operation scheduled: the executor_ids of the invocations     *)
(* not waited for are busy and different.                                *)
LEMMA ScheduleMore ==
  ASSUME NEW s, Lowered(s), NEW m \in Nat, m + 1 \in 1 .. Len(s), NEW acc, NEW e,
         ScheduledTo(s, m, acc, e), NEW new, new = Schedule(acc, s[m + 1]), new.ok,
         s[m + 1].k = "start" => e[m + 1] = new.ids[s[m + 1].inv]
  PROVE  ScheduledTo(s, m + 1, new, e) /\ acc.ok
PROOF
<1> DEFINE op == s[m + 1]
           free == 0 .. SliceCount - 1 \ acc.busy
<1>1. /\ DOMAIN acc = {"busy", "ids", "ok"}
      /\ DOMAIN acc.ids = {s[i].inv : i \in {j \in 1 .. m : s[j].k = "start"}}
      /\ \A i \in 1 .. m : s[i].k = "start" => acc.ids[s[i].inv] = e[i]
      /\ \A i \in 1 .. m : s[i].k = "start" /\ ~Waited(s, i, m) => e[i] \in acc.busy
      /\ \A i, j \in 1 .. m :
            /\ s[i].k = "start" /\ ~Waited(s, i, m) /\ s[j].k = "start" /\ ~Waited(s, j, m)
            /\ e[i] = e[j]
            => i = j
  BY DEF ScheduledTo
<1>2. \A i \in 1 .. m : i \in 1 .. m + 1 /\ i \in 1 .. Len(s) /\ i < m + 1
  BY DEF Lowered, Shaped
<1>3. \A i \in 1 .. m + 1 : i \in 1 .. m \/ i = m + 1
  OBVIOUS
<1>4. /\ \A i, j \in 1 .. Len(s) : s[i].k = "start" /\ s[j].k = "start" /\ s[i].inv = s[j].inv => i = j
      /\ \A i, j \in 1 .. Len(s) : s[i].k = "wait" /\ s[j].k = "wait" /\ s[i].inv = s[j].inv => i = j
      /\ \A j \in 1 .. Len(s) : s[j].k = "wait" =>
           \E i \in 1 .. Len(s) : i < j /\ s[i].k = "start" /\ s[i].inv = s[j].inv
  BY DEF Lowered, LaunchedOnce, Launches, WaitedOnce, WaitsStarted, Match
<1>5. \A i \in 1 .. m : Waited(s, i, m) => Waited(s, i, m + 1)
  BY <1>2 DEF Waited
<1> HIDE DEF op, free
<1>6. CASE op.k = "start"
  <2>1. free # {}
    <3>1. SUFFICES ASSUME free = {} PROVE FALSE
      OBVIOUS
    <3>2. new = [acc EXCEPT !.ok = FALSE]
      BY <1>6, <3>1 DEF Schedule, op, free
    <3> QED BY <1>1, <3>2
  <2>2. new = [acc EXCEPT !.busy = acc.busy \cup {Min(free)},
                          !.ids = With(acc.ids, [inv \in {op.inv} |-> Min(free)])]
    BY <1>6, <2>1 DEF Schedule, op, free
  <2>3. /\ new.busy = acc.busy \cup {Min(free)} /\ new.ok = acc.ok
        /\ new.ids = With(acc.ids, [inv \in {op.inv} |-> Min(free)])
        /\ DOMAIN new = {"busy", "ids", "ok"}
    BY <1>1, <2>2
  <2>4. op.inv \notin DOMAIN acc.ids
    BY <1>1, <1>2, <1>4, <1>6 DEF op
  <2>5. /\ DOMAIN new.ids = DOMAIN acc.ids \cup {op.inv}
        /\ new.ids[op.inv] = Min(free)
        /\ \A inv \in DOMAIN acc.ids : new.ids[inv] = acc.ids[inv]
    BY <2>3, <2>4 DEF With
  <2>6. Min(free) \in free
    <3>1. free \subseteq Nat
      <4>1. SliceCount \in Nat
        BY PipelineAssumption
      <4> QED BY <4>1 DEF free
    <3> QED BY <2>1, <3>1, LeastOf
  <2>7. e[m + 1] = Min(free) /\ Min(free) \notin acc.busy
    BY <1>6, <2>5, <2>6 DEF op, free
  <2> HIDE DEF free
  <2>8. DOMAIN new.ids = {s[i].inv : i \in {j \in 1 .. m + 1 : s[j].k = "start"}}
    BY <1>1, <1>2, <1>3, <1>6, <2>5 DEF op
  <2>9. \A i \in 1 .. m + 1 : s[i].k = "start" => new.ids[s[i].inv] = e[i]
    BY <1>1, <1>3, <1>6, <2>5, <2>7 DEF op
  <2>10. \A i \in 1 .. m + 1 : s[i].k = "start" /\ ~Waited(s, i, m + 1) => e[i] \in new.busy
    BY <1>1, <1>3, <1>5, <2>3, <2>7
  <2>11. ASSUME NEW i \in 1 .. m + 1, NEW j \in 1 .. m + 1,
                s[i].k = "start", ~Waited(s, i, m + 1), s[j].k = "start", ~Waited(s, j, m + 1),
                e[i] = e[j]
         PROVE  i = j
    <3>1. CASE i \in 1 .. m /\ j \in 1 .. m
      BY <1>1, <1>5, <2>11, <3>1
    <3>2. CASE i \in 1 .. m /\ j = m + 1
      BY <1>1, <1>5, <2>7, <2>11, <3>2
    <3>3. CASE j \in 1 .. m /\ i = m + 1
      BY <1>1, <1>5, <2>7, <2>11, <3>3
    <3> QED BY <1>3, <3>1, <3>2, <3>3
  <2> QED BY <2>3, <2>8, <2>9, <2>10, <2>11 DEF ScheduledTo
<1>7. CASE op.k = "wait"
  <2>0. DOMAIN acc.ids = {s[i].inv : i \in {j \in 1 .. m + 1 : s[j].k = "start"}}
    <3>1. {j \in 1 .. m + 1 : s[j].k = "start"} = {j \in 1 .. m : s[j].k = "start"}
      BY <1>2, <1>3, <1>7 DEF op
    <3> QED BY <1>1, <3>1
  <2>1. PICK a \in 1 .. m : s[a].k = "start" /\ s[a].inv = op.inv
    <3>1. PICK a \in 1 .. Len(s) : a < m + 1 /\ s[a].k = "start" /\ s[a].inv = op.inv
      BY <1>4, <1>7 DEF op
    <3>2. a \in 1 .. m
      BY <3>1
    <3> QED BY <3>1, <3>2
  <2>2. op.inv \in DOMAIN acc.ids /\ acc.ids[op.inv] = e[a]
    <3>1. s[a].inv \in DOMAIN acc.ids
      BY <1>1, <2>1
    <3> QED BY <1>1, <2>1, <3>1
  <2>3. new = [acc EXCEPT !.busy = acc.busy \ {e[a]}]
    BY <1>7, <2>2 DEF Schedule, op
  <2>4. /\ new.busy = acc.busy \ {e[a]} /\ new.ok = acc.ok /\ new.ids = acc.ids
        /\ DOMAIN new = {"busy", "ids", "ok"}
    BY <1>1, <2>3
  <2>5. ~Waited(s, a, m)
    BY <1>2, <1>4, <1>7, <2>1 DEF Waited, op
  <2>6. Waited(s, a, m + 1)
    <3>1. m + 1 \in 1 .. m + 1
      OBVIOUS
    <3> QED BY <1>7, <2>1, <3>1 DEF Waited, op
  <2>7. \A i \in 1 .. m + 1 : s[i].k = "start" => i \in 1 .. m /\ new.ids[s[i].inv] = e[i]
    BY <1>1, <1>3, <1>7, <2>4 DEF op
  <2>8. \A i \in 1 .. m : ~Waited(s, i, m + 1) => ~Waited(s, i, m) /\ i # a
    BY <1>5, <2>6
  <2>9. \A i \in 1 .. m + 1 : s[i].k = "start" /\ ~Waited(s, i, m + 1) => e[i] \in new.busy
    BY <1>1, <2>1, <2>4, <2>5, <2>7, <2>8
  <2>10. ASSUME NEW i \in 1 .. m + 1, NEW j \in 1 .. m + 1,
                s[i].k = "start", ~Waited(s, i, m + 1), s[j].k = "start", ~Waited(s, j, m + 1),
                e[i] = e[j]
         PROVE  i = j
    BY <1>1, <2>7, <2>8, <2>10
  <2> QED BY <2>0, <2>4, <2>7, <2>9, <2>10 DEF ScheduledTo
<1>8. CASE op.k \notin {"start", "wait"}
  <2>0. DOMAIN acc.ids = {s[i].inv : i \in {j \in 1 .. m + 1 : s[j].k = "start"}}
    <3>1. {j \in 1 .. m + 1 : s[j].k = "start"} = {j \in 1 .. m : s[j].k = "start"}
      BY <1>2, <1>3, <1>8 DEF op
    <3> QED BY <1>1, <3>1
  <2>1. new = acc
    BY <1>8 DEF Schedule, op
  <2>2. \A i \in 1 .. m + 1 : s[i].k = "start" => i \in 1 .. m
    BY <1>3, <1>8 DEF op
  <2> QED BY <1>1, <1>5, <2>0, <2>1, <2>2 DEF ScheduledTo
<1> QED BY <1>6, <1>7, <1>8

(* If invocations with the same executor_id take turns, a wait stands    *)
(* between two starts on an executor.                                    *)
LEMMA TurnsSpace ==
  ASSUME NEW s, Lowered(s), NEW e, NEW ids, Turns(s, Len(s), e),
         \A i \in 1 .. Len(s) : s[i].k = "start" => ids[s[i].inv] = e[i]
  PROVE  Spaced(s, ids)
PROOF
<1>0. Len(s) \in Nat
  BY DEF Lowered, Shaped
<1> SUFFICES ASSUME NEW i \in 1 .. Len(s), NEW j \in 1 .. Len(s), i < j,
                    s[i].k = "start", s[j].k = "start", ByNss(s[i]), On(s[i], ids) = On(s[j], ids)
             PROVE  \E m \in 1 .. Len(s) : /\ i < m /\ m < j /\ s[m].k = "wait" /\ ByNss(s[m])
                                           /\ On(s[m], ids) = On(s[i], ids)
  BY DEF Spaced
<1>1. CASE s[i].ex = "css"
  <2>1. On(s[i], ids) = <<"css", 0>>
    BY <1>1 DEF On
  <2>2. s[j].ex = "css"
    BY <2>1 DEF On
  <2>3. PICK m \in 1 .. Len(s) : i < m /\ m < j /\ s[m].k = "wait" /\ s[m].ex = "css"
    BY <1>1, <2>2 DEF Lowered, CssInTurn, Launches
  <2>4. ByNss(s[m]) /\ On(s[m], ids) = <<"css", 0>>
    BY <2>3 DEF ByNss, On
  <2> QED BY <2>1, <2>3, <2>4
<1>2. CASE s[i].ex = "slice"
  <2>1. On(s[i], ids) = <<"slice", e[i]>>
    BY <1>2 DEF On
  <2>2. s[j].ex = "slice" /\ e[j] = e[i]
    <3>1. On(s[j], ids) = IF s[j].ex = "slice" THEN <<"slice", e[j]>> ELSE <<s[j].ex, 0>>
      BY DEF On
    <3>2. On(s[j], ids) = <<"slice", e[i]>>
      BY <2>1
    <3> QED BY <3>1, <3>2
  <2>3. Waited(s, i, j) \/ Waited(s, j, j)
    <3>1. j \in 0 .. Len(s) /\ i \in 1 .. j /\ j \in 1 .. j /\ i # j
      BY <1>0
    <3> QED BY <2>2, <3>1 DEF Turns
  <2>4. /\ \A a, b \in 1 .. Len(s) : s[a].k = "start" /\ s[b].k = "start" /\ s[a].inv = s[b].inv => a = b
        /\ \A w \in 1 .. Len(s) : s[w].k = "wait" =>
             \E a \in 1 .. Len(s) : a < w /\ s[a].k = "start" /\ s[a].inv = s[w].inv /\ s[a].ex = s[w].ex
    BY DEF Lowered, LaunchedOnce, Launches, WaitsStarted, Match
  <2>5. \A w \in 1 .. j : w \in 1 .. Len(s)
    BY <1>0
  <2>6. ~Waited(s, j, j)
    <3>1. SUFFICES ASSUME NEW w \in 1 .. j, s[w].k = "wait", s[w].inv = s[j].inv PROVE FALSE
      BY DEF Waited
    <3>2. PICK a \in 1 .. Len(s) : a < w /\ s[a].k = "start" /\ s[a].inv = s[w].inv
      BY <2>4, <2>5, <3>1
    <3>3. a = j
      BY <2>4, <3>1, <3>2
    <3> QED BY <1>0, <3>2, <3>3
  <2>7. PICK w \in 1 .. j : s[w].k = "wait" /\ s[w].inv = s[i].inv
    BY <2>3, <2>6 DEF Waited
  <2>8. PICK a \in 1 .. Len(s) : a < w /\ s[a].k = "start" /\ s[a].inv = s[w].inv /\ s[a].ex = s[w].ex
    BY <2>4, <2>5, <2>7
  <2>9. a = i
    BY <2>4, <2>7, <2>8
  <2>10. w \in 1 .. Len(s) /\ i < w /\ w < j
    <3>1. w # j
      BY <2>7
    <3> QED BY <1>0, <2>8, <2>9, <3>1
  <2>11. ByNss(s[w]) /\ On(s[w], ids) = On(s[i], ids)
    BY <1>2, <2>7, <2>8, <2>9 DEF ByNss, On
  <2> QED BY <2>7, <2>10, <2>11
<1> QED BY <1>1, <1>2 DEF ByNss

(* scheduleSliceTasks, when it does not fail, puts a wait between any    *)
(* two starts on an executor.                                            *)
LEMMA ScheduleSpaces ==
  ASSUME Lowered(ir), Scheduled.ok
  PROVE  Spaced(ir, Scheduled.ids)
PROOF
<1> DEFINE n == Len(ir)
           R(g) == g = [i \in 0 .. n |-> IF i = 0 THEN Unscheduled ELSE Schedule(g[i - 1], ir[i])]
           f == CHOOSE g : R(g)
<1>1. n \in Nat
  BY DEF Lowered, Shaped
<1>2. R(f)
  BY <1>1, ScheduleSteps
<1>3. Scheduled = f[n]
  BY DEF Scheduled, Fold, Unscheduled
<1>4. \A i \in 0 .. n : f[i] = IF i = 0 THEN Unscheduled ELSE Schedule(f[i - 1], ir[i])
  <2> HIDE DEF f
  <2> QED BY <1>2
<1> HIDE DEF f, R, n
<1> DEFINE e == [i \in 1 .. n |-> f[i].ids[ir[i].inv]]
<1>5. ScheduledTo(ir, 0, f[0], e)
  <2>1. 0 \in 0 .. n
    BY <1>1
  <2>2. f[0] = Unscheduled
    BY <1>4, <2>1
  <2>3. DOMAIN f[0] = {"busy", "ids", "ok"} /\ f[0].ids = << >> /\ DOMAIN << >> = {}
    BY <2>2 DEF Unscheduled
  <2> HIDE DEF e
  <2> QED BY <2>3 DEF ScheduledTo
<1>6. \A m \in 0 .. n - 1 : /\ m \in Nat /\ m + 1 \in 1 .. n /\ m + 1 \in 0 .. n
                            /\ f[m + 1] = Schedule(f[m], ir[m + 1])
                            /\ e[m + 1] = f[m + 1].ids[ir[m + 1].inv]
  <2> TAKE m \in 0 .. n - 1
  <2>1. m \in Nat /\ m + 1 \in 1 .. n /\ m + 1 \in 0 .. n /\ (m + 1) - 1 = m /\ m + 1 # 0
    BY <1>1
  <2> QED BY <1>4, <2>1
<1> HIDE DEF e
<1> DEFINE D == {"busy", "ids", "ok"}
<1>7. ASSUME NEW acc, NEW op, DOMAIN acc = D
      PROVE  DOMAIN Schedule(acc, op) = D /\ (Schedule(acc, op).ok => acc.ok)
  BY <1>7 DEF Schedule
<1>8. \A m \in 0 .. n : DOMAIN f[m] = D
  <2> DEFINE T == {m \in 0 .. n : DOMAIN f[m] = D}
  <2>1. 0 \in T
    BY <1>1, <1>5 DEF ScheduledTo
  <2>2. \A m \in 0 .. n - 1 : m \in T => m + 1 \in T
    BY <1>6, <1>7, ZenonT(60)
  <2>3. 0 .. n \subseteq T
    <3> HIDE DEF T
    <3> QED BY <1>1, <2>1, <2>2, UpTo
  <2> QED BY <2>3
<1> HIDE DEF D
(* It failed nowhere if it did not fail at the end. *)
<1>9. ASSUME f[n].ok PROVE \A m \in 0 .. n : f[m].ok
  <2> DEFINE T == {k \in 0 .. n : f[n - k].ok}
  <2>1. 0 \in T
    <3>1. n - 0 = n /\ 0 \in 0 .. n
      BY <1>1
    <3> QED BY <1>9, <3>1
  <2>2. ASSUME NEW k \in 0 .. n - 1, k \in T PROVE k + 1 \in T
    <3>1. n - (k + 1) \in 0 .. n - 1 /\ (n - (k + 1)) + 1 = n - k /\ k + 1 \in 0 .. n
          /\ n - (k + 1) \in 0 .. n
      BY <1>1
    <3>2. f[n - k] = Schedule(f[n - (k + 1)], ir[n - k])
      BY <1>6, <3>1
    <3>3. f[n - (k + 1)].ok
      BY <1>7, <1>8, <2>2, <3>1, <3>2
    <3> QED BY <3>1, <3>3
  <2>3. 0 .. n \subseteq T
    <3> HIDE DEF T
    <3> QED BY <1>1, <2>1, <2>2, UpTo
  <2>4. \A m \in 0 .. n : n - m \in 0 .. n /\ n - (n - m) = m
    BY <1>1
  <2> QED BY <2>3, <2>4
<1>10. f[n].ok
  BY <1>3
<1>11. \A m \in 0 .. n : ScheduledTo(ir, m, f[m], e)
  <2> DEFINE T == {m \in 0 .. n : ScheduledTo(ir, m, f[m], e)}
  <2>1. 0 \in T
    BY <1>1, <1>5
  <2>2. ASSUME NEW m \in 0 .. n - 1, m \in T PROVE m + 1 \in T
    <3>1. /\ m \in Nat /\ m + 1 \in 1 .. Len(ir) /\ m + 1 \in 0 .. n
          /\ f[m + 1] = Schedule(f[m], ir[m + 1])
          /\ e[m + 1] = f[m + 1].ids[ir[m + 1].inv] /\ f[m + 1].ok /\ ScheduledTo(ir, m, f[m], e)
      BY <1>6, <1>9, <1>10, <2>2 DEF n
    <3>2. ScheduledTo(ir, m + 1, f[m + 1], e)
      BY <3>1, ScheduleMore
    <3> QED BY <3>1, <3>2
  <2>3. 0 .. n \subseteq T
    <3> HIDE DEF T
    <3> QED BY <1>1, <2>1, <2>2, UpTo
  <2> QED BY <2>3
<1>12. Turns(ir, Len(ir), e)
  BY <1>11 DEF Turns, ScheduledTo, n
<1>13. \A i \in 1 .. Len(ir) : ir[i].k = "start" => Scheduled.ids[ir[i].inv] = e[i]
  <2>1. n \in 0 .. n
    BY <1>1
  <2> QED BY <1>3, <1>11, <2>1 DEF ScheduledTo, n
<1> QED BY <1>12, <1>13, TurnsSpace

(* A pass that keeps the starts and the waits, in order, keeps them      *)
(* apart.                                                                *)
LEMMA TasksKept ==
  ASSUME NEW s, NEW t, NEW ids, Spaced(s, ids), NEW g, KeepsTasks(s, t, g)
  PROVE  Spaced(t, ids)
PROOF
<1> SUFFICES ASSUME NEW i \in 1 .. Len(t), NEW j \in 1 .. Len(t), i < j,
                    t[i].k = "start", t[j].k = "start", ByNss(t[i]), On(t[i], ids) = On(t[j], ids)
             PROVE  \E m \in 1 .. Len(t) : /\ i < m /\ m < j /\ t[m].k = "wait" /\ ByNss(t[m])
                                           /\ On(t[m], ids) = On(t[i], ids)
  BY DEF Spaced
<1>1. IsTask(t[i]) /\ IsTask(t[j])
  BY DEF IsTask
<1>2. g[i] \in 1 .. Len(s) /\ t[i] = s[g[i]] /\ g[j] \in 1 .. Len(s) /\ t[j] = s[g[j]] /\ g[i] < g[j]
  BY <1>1 DEF KeepsTasks
<1>3. PICK w \in 1 .. Len(s) : /\ g[i] < w /\ w < g[j] /\ s[w].k = "wait" /\ ByNss(s[w])
                               /\ On(s[w], ids) = On(s[g[i]], ids)
  <2>1. /\ g[i] < g[j] /\ s[g[i]].k = "start" /\ s[g[j]].k = "start"
        /\ ByNss(s[g[i]]) /\ On(s[g[i]], ids) = On(s[g[j]], ids)
    BY <1>2
  <2>2. PICK x \in 1 .. Len(s) : x = g[i]
    BY <1>2
  <2>3. PICK y \in 1 .. Len(s) : y = g[j]
    BY <1>2
  <2>4. \E w \in 1 .. Len(s) : /\ x < w /\ w < y /\ s[w].k = "wait" /\ ByNss(s[w])
                               /\ On(s[w], ids) = On(s[x], ids)
    BY <2>1, <2>2, <2>3 DEF Spaced
  <2> QED BY <2>2, <2>3, <2>4
<1>4. PICK m \in 1 .. Len(t) : g[m] = w /\ t[m] = s[w]
  BY <1>3 DEF KeepsTasks, IsTask
<1>5. IsTask(t[m])
  BY <1>3, <1>4 DEF IsTask
<1>6. i < m /\ m < j
  BY <1>1, <1>3, <1>4, <1>5 DEF KeepsTasks
<1> QED BY <1>2, <1>3, <1>4, <1>6

(* The recursive function of the fold in the canonicalizer exists. *)
LEMMA CanonicalSteps ==
  ASSUME NEW n \in Nat, NEW s
  PROVE  \E f : f = [i \in 0 .. n |-> IF i = 0 THEN << >> ELSE KeepNeeded(f[i - 1], s[i])]
PROOF
<1> DEFINE R(g, m) == g = [i \in 0 .. m |-> IF i = 0 THEN << >> ELSE KeepNeeded(g[i - 1], s[i])]
           T == {m \in Nat : \E g : R(g, m)}
<1>0. \E f : R(f, n)
  <2>1. 0 \in T
    <3>1. R([i \in 0 .. 0 |-> << >>], 0)
      OBVIOUS
    <3> QED BY <3>1
  <2>2. ASSUME NEW m \in Nat, m \in T PROVE m + 1 \in T
    <3>1. PICK g : R(g, m)
      BY <2>2
    <3>2. \A i \in 0 .. m : g[i] = IF i = 0 THEN << >> ELSE KeepNeeded(g[i - 1], s[i])
      BY <3>1
    <3> HIDE DEF R
    <3> DEFINE h == [i \in 0 .. m + 1 |-> IF i <= m THEN g[i] ELSE KeepNeeded(g[m], s[m + 1])]
    <3>3. ASSUME NEW i \in 0 .. m + 1
          PROVE  h[i] = IF i = 0 THEN << >> ELSE KeepNeeded(h[i - 1], s[i])
      <4>1. CASE i <= m
        <5>1. h[i] = g[i] /\ (i # 0 => h[i - 1] = g[i - 1])
          BY <4>1
        <5>2. g[i] = IF i = 0 THEN << >> ELSE KeepNeeded(g[i - 1], s[i])
          BY <3>2, <4>1
        <5> HIDE DEF h
        <5> QED BY <5>1, <5>2
      <4>2. CASE i = m + 1
        BY <4>2
      <4> QED BY <4>1, <4>2
    <3>4. R(h, m + 1)
      <4>1. h = [i \in 0 .. m + 1 |-> h[i]]
        OBVIOUS
      <4> HIDE DEF h
      <4> QED BY <3>3, <4>1 DEF R
    <3> HIDE DEF h
    <3> QED BY <3>4
  <2>3. n \in T
    <3> HIDE DEF T
    <3> QED BY <2>1, <2>2, NatSet
  <2> QED BY <2>3
<1> QED BY <1>0

(* One more operation for the canonicalizer, from the end: kept, unless  *)
(* it is an unused view.                                                 *)
LEMMA RemainsMore ==
  ASSUME NEW s \in Seq(SomeOp), NEW a \in 1 .. Len(s), NEW t, NEW g, Remains(s, a + 1, t, g)
  PROVE  \E h : Remains(s, a, KeepNeeded(t, s[a]), h)
PROOF
<1>0. Len(s) \in Nat /\ a \in Nat /\ s[a] \in SomeOp /\ t \in Seq(SomeOp) /\ Len(t) \in Nat
  BY DEF Remains
<1>1. /\ \A k \in 1 .. Len(t) : g[k] \in a + 1 .. Len(s) /\ t[k] = s[g[k]]
      /\ \A m \in a + 1 .. Len(s) : s[m].k # "view" => \E k \in 1 .. Len(t) : g[k] = m
      /\ \A k, l \in 1 .. Len(t) : k < l => g[k] < g[l]
  BY DEF Remains
<1>2. \A m \in a .. Len(s) : m = a \/ m \in a + 1 .. Len(s)
  BY <1>0
<1>3. \A k \in 1 .. Len(t) : g[k] \in a .. Len(s) /\ a < g[k]
  BY <1>0, <1>1
<1>4. CASE KeepNeeded(t, s[a]) = t /\ s[a].k = "view"
  <2>1. \A m \in a .. Len(s) : s[m].k # "view" => \E k \in 1 .. Len(t) : g[k] = m
    BY <1>1, <1>2, <1>4
  <2>2. Remains(s, a, t, g)
    BY <1>0, <1>1, <1>3, <2>1 DEF Remains
  <2> QED BY <1>4, <2>2
<1>5. CASE KeepNeeded(t, s[a]) = <<s[a]>> \o t
  <2> DEFINE u == <<s[a]>> \o t
             h == [k \in 1 .. Len(t) + 1 |-> IF k = 1 THEN a ELSE g[k - 1]]
  <2>1. /\ u \in Seq(SomeOp) /\ Len(u) = Len(t) + 1
        /\ u[1] = s[a] /\ \A k \in 1 .. Len(t) : u[k + 1] = t[k]
    <3>1. <<s[a]>> \in Seq(SomeOp) /\ Len(<<s[a]>>) = 1 /\ <<s[a]>>[1] = s[a]
      BY <1>0
    <3>2. /\ u \in Seq(SomeOp) /\ Len(u) = Len(<<s[a]>>) + Len(t)
          /\ \A k \in 1 .. Len(<<s[a]>>) + Len(t) :
               u[k] = IF k <= Len(<<s[a]>>) THEN <<s[a]>>[k] ELSE t[k - Len(<<s[a]>>)]
      BY <1>0, <3>1, ConcatProperties
    <3>3. /\ Len(u) = 1 + Len(t) /\ \A k \in 1 .. 1 + Len(t) : u[k] = IF k <= 1 THEN <<s[a]>>[k] ELSE t[k - 1]
      BY <3>1, <3>2
    <3> HIDE DEF u
    <3>4. 1 \in 1 .. 1 + Len(t) /\ \A k \in 1 .. Len(t) : k + 1 \in 1 .. 1 + Len(t) /\ ~(k + 1 <= 1) /\ (k + 1) - 1 = k
      BY <1>0
    <3> QED BY <1>0, <3>1, <3>2, <3>3, <3>4
  <2>2. h[1] = a /\ \A k \in 1 .. Len(t) : h[k + 1] = g[k] /\ k + 1 \in 1 .. Len(t) + 1
    BY <1>0
  <2>3. \A k \in 1 .. Len(t) + 1 : k = 1 \/ (k - 1 \in 1 .. Len(t) /\ (k - 1) + 1 = k)
    BY <1>0
  <2> HIDE DEF u, h
  <2>4. \A k \in 1 .. Len(u) : h[k] \in a .. Len(s) /\ u[k] = s[h[k]]
    <3> TAKE k \in 1 .. Len(u)
    <3>1. CASE k = 1
      BY <1>0, <2>1, <2>2, <3>1
    <3>2. CASE k # 1
      <4>1. k - 1 \in 1 .. Len(t) /\ (k - 1) + 1 = k
        BY <2>1, <2>3, <3>2
      <4>2. h[k] = g[k - 1] /\ u[k] = t[k - 1]
        BY <2>1, <2>2, <4>1
      <4> QED BY <1>1, <1>3, <4>1, <4>2
    <3> QED BY <3>1, <3>2
  <2>5. ASSUME NEW m \in a .. Len(s), s[m].k # "view" PROVE \E k \in 1 .. Len(u) : h[k] = m
    <3>1. CASE m = a
      <4>1. 1 \in 1 .. Len(u)
        BY <1>0, <2>1
      <4> QED BY <2>2, <3>1, <4>1
    <3>2. CASE m # a
      <4>1. PICK k \in 1 .. Len(t) : g[k] = m
        BY <1>1, <1>2, <2>5, <3>2
      <4> QED BY <2>1, <2>2, <4>1
    <3> QED BY <3>1, <3>2
  <2>6. ASSUME NEW k \in 1 .. Len(u), NEW l \in 1 .. Len(u), k < l PROVE h[k] < h[l]
    <3>1. l - 1 \in 1 .. Len(t) /\ h[l] = g[l - 1]
      <4>1. l # 1
        BY <2>6
      <4>2. l - 1 \in 1 .. Len(t) /\ (l - 1) + 1 = l
        BY <2>1, <2>3, <4>1
      <4> QED BY <2>2, <4>2
    <3>2. CASE k = 1
      BY <1>3, <2>2, <3>1, <3>2
    <3>3. CASE k # 1
      <4>1. k - 1 \in 1 .. Len(t) /\ (k - 1) + 1 = k
        BY <2>1, <2>3, <3>3
      <4>2. h[k] = g[k - 1] /\ k - 1 < l - 1
        BY <1>0, <2>1, <2>2, <2>6, <4>1
      <4> QED BY <1>1, <3>1, <4>1, <4>2
    <3> QED BY <3>2, <3>3
  <2>7. Remains(s, a, u, h)
    BY <2>1, <2>4, <2>5, <2>6 DEF Remains
  <2> QED BY <1>5, <2>7 DEF u
<1> QED BY <1>4, <1>5 DEF KeepNeeded

(* What the canonicalizer leaves out are views that nothing uses. *)
LEMMA CanonicalizeRemains ==
  ASSUME ir \in Seq(SomeOp), Canonicalize
  PROVE  \E g : Remains(ir, 1, ir', g)
PROOF
<1> DEFINE n == Len(ir)
           s == Reverse(ir)
           R(g) == g = [i \in 0 .. n |-> IF i = 0 THEN << >> ELSE KeepNeeded(g[i - 1], s[i])]
           f == CHOOSE g : R(g)
<1>1. n \in Nat /\ ir \in Seq(SomeOp)
  OBVIOUS
<1>2. R(f)
  BY <1>1, CanonicalSteps
<1>3. Len(s) = n /\ \A i \in 1 .. n : s[i] = ir[n - i + 1]
  BY <1>1 DEF Reverse
<1>4. ir' = f[n]
  BY <1>3 DEF Canonicalize, Fold, KeepNeeded
<1>5. \A i \in 0 .. n : f[i] = IF i = 0 THEN << >> ELSE KeepNeeded(f[i - 1], s[i])
  <2> HIDE DEF f
  <2> QED BY <1>2
<1> HIDE DEF f, R, n, s
<1> DEFINE T == {m \in 0 .. n : \E g : Remains(ir, n - m + 1, f[m], g)}
<1>6. 0 \in T
  <2>1. 0 \in 0 .. n /\ n - 0 + 1 = n + 1
    BY <1>1
  <2>2. f[0] = << >>
    BY <1>5, <2>1
  <2>3. Remains(ir, n + 1, << >>, << >>)
    BY <1>1 DEF Remains, n
  <2> QED BY <2>1, <2>2, <2>3
<1>7. ASSUME NEW m \in 0 .. n - 1, m \in T PROVE m + 1 \in T
  <2>1. /\ m + 1 \in 0 .. n /\ m + 1 \in 1 .. n /\ (m + 1) - 1 = m /\ m + 1 # 0
        /\ n - m \in 1 .. Len(ir) /\ n - m + 1 = (n - m) + 1
        /\ n - (m + 1) + 1 = n - m
    BY <1>1 DEF n
  <2>2. f[m + 1] = KeepNeeded(f[m], ir[n - m])
    BY <1>3, <1>5, <2>1
  <2>3. PICK g : Remains(ir, (n - m) + 1, f[m], g)
    BY <1>7, <2>1
  <2>4. \E h : Remains(ir, n - m, KeepNeeded(f[m], ir[n - m]), h)
    <3> DEFINE a == n - m
    <3>1. a \in 1 .. Len(ir) /\ Remains(ir, a + 1, f[m], g)
      BY <2>1, <2>3
    <3> HIDE DEF a
    <3>2. \E h : Remains(ir, a, KeepNeeded(f[m], ir[a]), h)
      BY <1>1, <3>1, RemainsMore
    <3> QED BY <3>2 DEF a
  <2> QED BY <2>1, <2>2, <2>4
<1>8. n \in T
  <2>1. 0 .. n \subseteq T
    <3> HIDE DEF T
    <3> QED BY <1>1, <1>6, <1>7, UpTo
  <2> QED BY <1>1, <2>1
<1>9. n - n + 1 = 1
  BY <1>1
<1> QED BY <1>4, <1>8, <1>9

(* The others are in their order. *)
LEMMA RemainsInOrder ==
  ASSUME NEW s, Len(s) \in Nat, NEW t, NEW g, Remains(s, 1, t, g)
  PROVE  /\ t \in Seq(SomeOp) /\ Len(t) \in Nat
         /\ \A k \in 1 .. Len(t) : g[k] \in 1 .. Len(s) /\ t[k] = s[g[k]]
         /\ \A m \in 1 .. Len(s) : s[m].k # "view" => \E k \in 1 .. Len(t) : g[k] = m
         /\ \A k, l \in 1 .. Len(t) : k < l <=> g[k] < g[l]
PROOF
<1>1. /\ t \in Seq(SomeOp) /\ Len(t) \in Nat
      /\ \A k \in 1 .. Len(t) : g[k] \in 1 .. Len(s) /\ t[k] = s[g[k]]
      /\ \A m \in 1 .. Len(s) : s[m].k # "view" => \E k \in 1 .. Len(t) : g[k] = m
      /\ \A k, l \in 1 .. Len(t) : k < l => g[k] < g[l]
  <2>1. /\ t \in Seq(SomeOp)
        /\ \A k \in 1 .. Len(t) : g[k] \in 1 .. Len(s) /\ t[k] = s[g[k]]
        /\ \A m \in 1 .. Len(s) : s[m].k # "view" => \E k \in 1 .. Len(t) : g[k] = m
        /\ \A k, l \in 1 .. Len(t) : k < l => g[k] < g[l]
    BY Zenon DEF Remains
  <2>2. Len(t) \in Nat
    BY <2>1
  <2> QED BY <2>1, <2>2, Zenon
<1>2. ASSUME NEW k \in 1 .. Len(t), NEW l \in 1 .. Len(t), g[k] < g[l] PROVE k < l
  <2>1. g[k] \in Int /\ g[l] \in Int
    BY <1>1
  <2>2. ~(g[l] < g[k]) /\ g[k] # g[l]
    BY <1>2, <2>1
  <2>3. ~(l < k) /\ l # k
    BY <1>1, <2>2
  <2> QED BY <1>1, <2>3
<1> QED BY <1>1, <1>2

(* The canonicalizer keeps the starts and the waits in order. *)
LEMMA CanonicalizeKeeps ==
  ASSUME Planned(ir, slice), Canonicalize
  PROVE  Planned(ir', slice)
PROOF
<1>1. ir \in Seq(SomeOp) /\ Len(ir) \in Nat
  BY DEF Planned, Shaped
<1>2. PICK g : Remains(ir, 1, ir', g)
  BY <1>1, CanonicalizeRemains
<1>3. /\ ir' \in Seq(SomeOp) /\ Len(ir') \in Nat
      /\ \A k \in 1 .. Len(ir') : g[k] \in 1 .. Len(ir) /\ ir'[k] = ir[g[k]]
      /\ \A m \in 1 .. Len(ir) : ir[m].k # "view" => \E k \in 1 .. Len(ir') : g[k] = m
      /\ \A k, l \in 1 .. Len(ir') : k < l <=> g[k] < g[l]
  BY <1>1, <1>2, RemainsInOrder
<1>4. KeepsTasks(ir, ir', g)
  BY <1>3 DEF KeepsTasks, IsTask
<1>5. Spaced(ir', slice)
  BY <1>4, TasksKept DEF Planned
<1> QED BY <1>3, <1>5 DEF Planned, Shaped

(* What is put after an operation are deallocations of the buffers that  *)
(* it is the last user of.                                               *)
LEMMA DeallocsAre ==
  ASSUME Shaped(ir), NEW i, NEW lastUser
  PROVE  /\ DeallocsAfter(i, lastUser) \in Seq(SomeOp)
         /\ \A j \in 1 .. Len(DeallocsAfter(i, lastUser)) :
              IsDealloc(ir, i, lastUser, DeallocsAfter(i, lastUser)[j])
PROOF
<1> DEFINE B == {j \in DOMAIN ir : ir[j].k = "alloc" /\ lastUser[Key(ir[j].res)] = i}
           last == FlattenSeq([j \in DOMAIN ir |-> IF j \in B THEN <<ir[j]>> ELSE << >>])
           d == [j \in DOMAIN last |-> Op("dealloc", last[j].res, << >>, << >>, << >>, "none")]
<1>1. ir \in Seq(SomeOp) /\ \A j \in 1 .. Len(ir) : ir[j] \in SomeOp /\ Shape(ir[j])
  BY DEF Shaped
<1>2. DeallocsAfter(i, lastUser) = Reverse(d)
  <2>1. [j \in DOMAIN ir |-> IF ir[j].k = "alloc" /\ lastUser[Key(ir[j].res)] = i THEN <<ir[j]>> ELSE << >>] =
        [j \in DOMAIN ir |-> IF j \in B THEN <<ir[j]>> ELSE << >>]
    OBVIOUS
  <2> QED BY <2>1 DEF DeallocsAfter, Kept
<1>3. B \subseteq DOMAIN ir /\ \A j \in B : /\ j \in 1 .. Len(ir) /\ ir[j].k = "alloc"
                                       /\ lastUser[Key(ir[j].res)] = i
  BY <1>1
<1> HIDE DEF B
<1>4. last \in Seq(SomeOp) /\ \E p : Picked(ir, last, p, B)
  BY <1>1, <1>3, Selected
<1>5. PICK p : Picked(ir, last, p, B)
  BY <1>4
<1> HIDE DEF last
<1>6. \A j \in 1 .. Len(last) :
        /\ last[j].k = "alloc" /\ Shape(last[j]) /\ last[j].res \in Value
        /\ \E a \in 1 .. Len(ir) :
             ir[a].k = "alloc" /\ lastUser[Key(ir[a].res)] = i /\ last[j].res = ir[a].res
  <2>1. \A j \in 1 .. Len(last) : p[j] \in B /\ last[j] = ir[p[j]]
    BY <1>5 DEF Picked
  <2>2. \A op \in SomeOp : op.res \in Value
    BY DEF SomeOp
  <2>3. ASSUME NEW j \in 1 .. Len(last), NEW a \in 1 .. Len(ir), a \in B, last[j] = ir[a]
        PROVE  /\ last[j].k = "alloc" /\ Shape(last[j]) /\ last[j].res \in Value
               /\ lastUser[Key(ir[a].res)] = i /\ last[j].res = ir[a].res /\ ir[a].k = "alloc"
    <3> HIDE DEF Shape, SomeOp, Value, Key
    <3>1. ir[a] \in SomeOp /\ Shape(ir[a])
      BY <1>1
    <3> QED BY <1>3, <2>2, <2>3, <3>1
  <2> HIDE DEF Shape, Value, Key
  <2> QED BY <1>3, <2>1, <2>3
<1>7. Len(last) \in Nat /\ DOMAIN last = 1 .. Len(last)
  BY <1>4
<1>8. \A j \in 1 .. Len(last) : d[j] \in SomeOp /\ IsDealloc(ir, i, lastUser, d[j])
  <2> TAKE j \in 1 .. Len(last)
  <2> DEFINE v == last[j].res
  <2>1. d[j] = Op("dealloc", v, << >>, << >>, << >>, "none")
    BY <1>7
  <2>2. v \in Value /\ v.base[2] \in Buffers /\ v.sp # "none"
    BY <1>6 DEF Shape
  <2> HIDE DEF v, d
  <2>3. d[j] \in SomeOp
    <3>1. << >> \in Seq(Value)
      OBVIOUS
    <3> HIDE DEF Value
    <3> QED BY <2>1, <2>2, <3>1 DEF SomeOp, Op
  <2>4. Shape(d[j])
    BY <2>1, <2>2 DEF Shape, Op, Launches, Simple
  <2>5. d[j].k = "dealloc" /\ d[j].res = last[j].res
    BY <2>1 DEF Op, v
  <2> QED BY <1>6, <2>3, <2>4, <2>5 DEF IsDealloc
<1>9. d \in Seq(SomeOp) /\ Len(d) = Len(last)
  <2>1. d = [j \in 1 .. Len(last) |-> d[j]]
    BY <1>7
  <2> HIDE DEF d, SomeOp
  <2> QED BY <1>7, <1>8, <2>1
<1> HIDE DEF d
<1>10. /\ Len(Reverse(d)) = Len(last) /\ Reverse(d) \in Seq(SomeOp)
       /\ \A j \in 1 .. Len(last) : Reverse(d)[j] = d[Len(last) - j + 1] /\ Len(last) - j + 1 \in 1 .. Len(last)
  <2>1. Reverse(d) = [j \in 1 .. Len(last) |-> d[Len(last) - j + 1]]
    BY <1>9 DEF Reverse
  <2>2. \A j \in 1 .. Len(last) : Len(last) - j + 1 \in 1 .. Len(last)
    BY <1>7
  <2>3. \A j \in 1 .. Len(last) : d[Len(last) - j + 1] \in SomeOp
    BY <1>8, <2>2
  <2> HIDE DEF SomeOp
  <2> QED BY <1>7, <2>1, <2>2, <2>3
<1> QED BY <1>2, <1>8, <1>10

(* AddDeallocationPass: the operations in order, after each of them the  *)
(* deallocations of what it is the last user of.                         *)
LEMMA AddDeallocationFrees ==
  ASSUME Shaped(ir), AddDeallocation
  PROVE  \E p : Freed(ir, LastAllocationUser, ir', p)
PROOF
<1> DEFINE n == Len(ir)
           lastUser == LastAllocationUser
           D(i) == DeallocsAfter(i, lastUser)
           ss == [i \in DOMAIN ir |-> <<ir[i]>> \o D(i)]
           t == FlattenSeq(ss)
<1>1. /\ ir \in Seq(SomeOp) /\ n \in Nat /\ DOMAIN ir = 1 .. n
      /\ \A j \in 1 .. n : ir[j] \in SomeOp /\ Shape(ir[j])
  BY DEF Shaped
<1>2. ir' = t
  BY DEF AddDeallocation
<1> HIDE DEF lastUser
<1>3. \A i : /\ D(i) \in Seq(SomeOp)
             /\ \A j \in 1 .. Len(D(i)) : IsDealloc(ir, i, lastUser, D(i)[j])
  BY DeallocsAre
<1> HIDE DEF D, n
<1>4. ASSUME NEW i \in 1 .. n
      PROVE  /\ ss[i] \in Seq(SomeOp) /\ Len(ss[i]) \in Nat /\ Len(ss[i]) > 0
             /\ ss[i][1] = ir[i]
             /\ \A j \in 1 .. Len(ss[i]) : j # 1 => IsDealloc(ir, i, lastUser, ss[i][j])
  <2> DEFINE x == <<ir[i]>>
             y == D(i)
  <2>1. x \in Seq(SomeOp) /\ Len(x) = 1 /\ x[1] = ir[i] /\ y \in Seq(SomeOp) /\ Len(y) \in Nat
        /\ \A j \in 1 .. Len(y) : IsDealloc(ir, i, lastUser, y[j])
    BY <1>1, <1>3
  <2>2. ss[i] = x \o y
    BY <1>1
  <2> HIDE DEF x, y, ss
  <2>3. /\ x \o y \in Seq(SomeOp) /\ Len(x \o y) = Len(x) + Len(y)
        /\ \A k \in 1 .. Len(x) + Len(y) : (x \o y)[k] = IF k <= Len(x) THEN x[k] ELSE y[k - Len(x)]
    BY <2>1, ConcatProperties
  <2>4. \A j \in 1 .. 1 + Len(y) : j # 1 => ~(j <= 1) /\ j - 1 \in 1 .. Len(y)
    BY <2>1
  <2>5. 1 \in 1 .. 1 + Len(y) /\ 1 + Len(y) \in Nat /\ 1 + Len(y) > 0
    BY <2>1
  <2> QED BY <2>1, <2>2, <2>3, <2>4, <2>5
<1>5. ss \in Seq(Seq(SomeOp)) /\ Len(ss) = n
  <2>1. ss = [i \in 1 .. n |-> ss[i]]
    BY <1>1
  <2> HIDE DEF ss, SomeOp
  <2>2. ss \in [1 .. n -> Seq(SomeOp)]
    BY <1>4, <2>1
  <2> QED BY <1>1, <2>2
<1> HIDE DEF ss
<1>6. t \in Seq(SomeOp) /\ \E p : Arranged(ss, t, p)
  BY <1>5, Flatten
<1>7. PICK p : Arranged(ss, t, p)
  BY <1>6
<1> HIDE DEF t
<1>8. Ordered(ss, t, p)
  BY <1>5, <1>6, <1>7, ArrangedOrder
<1> DEFINE T == 1 .. Len(t)
<1>9. /\ \A k \in T : /\ p[k][1] \in 1 .. n
                      /\ p[k][2] \in 1 .. Len(ss[p[k][1]])
                      /\ p[k] = <<p[k][1], p[k][2]>>
                      /\ t[k] = ss[p[k][1]][p[k][2]]
      /\ \A k, l \in T : k < l <=> Earlier(p[k], p[l])
      /\ \A i \in 1 .. n : \A j \in 1 .. Len(ss[i]) : \E k \in T : p[k] = <<i, j>>
  BY <1>5, <1>8 DEF Ordered
<1> HIDE DEF T
<1>10. ASSUME NEW k \in T
       PROVE  /\ p[k][1] \in 1 .. n /\ p[k][2] \in Nat /\ p[k][2] > 0
              /\ p[k] = <<p[k][1], p[k][2]>>
              /\ IF p[k][2] = 1 THEN t[k] = ir[p[k][1]]
                                ELSE IsDealloc(ir, p[k][1], lastUser, t[k])
  <2>1. /\ p[k][1] \in 1 .. n /\ p[k][2] \in 1 .. Len(ss[p[k][1]])
        /\ p[k] = <<p[k][1], p[k][2]>> /\ t[k] = ss[p[k][1]][p[k][2]]
    BY <1>9
  <2>2. p[k][2] \in Nat /\ p[k][2] > 0
    BY <2>1
  <2>3. CASE p[k][2] = 1
    BY <1>4, <2>1, <2>2, <2>3
  <2>4. CASE p[k][2] # 1
    <3> DEFINE i == p[k][1]
               j == p[k][2]
    <3>1. i \in 1 .. n /\ j \in 1 .. Len(ss[i]) /\ j # 1 /\ t[k] = ss[i][j]
      BY <2>1, <2>4
    <3> HIDE DEF i, j
    <3>2. IsDealloc(ir, i, lastUser, ss[i][j])
      BY <1>4, <3>1
    <3>3. IsDealloc(ir, i, lastUser, t[k])
      BY <3>1, <3>2, Zenon
    <3> QED BY <2>1, <2>2, <2>4, <3>3 DEF i
  <2> QED BY <2>3, <2>4
<1>11. \A i \in 1 .. n : \E k \in T : p[k] = <<i, 1>>
  <2> TAKE i \in 1 .. n
  <2>1. 1 \in 1 .. Len(ss[i])
    BY <1>4
  <2> QED BY <1>9, <2>1
<1>12. Freed(ir, lastUser, t, p)
  BY <1>6, <1>9, <1>10, <1>11 DEF Freed, T, n
<1> QED BY <1>2, <1>12 DEF lastUser

(* AddDeallocationPass keeps the operations in order, deallocations      *)
(* after them.                                                           *)
LEMMA AddDeallocationKeeps ==
  ASSUME Planned(ir, slice), AddDeallocation
  PROVE  Planned(ir', slice)
PROOF
<1>1. Shaped(ir) /\ \A i \in 1 .. Len(ir) : Shape(ir[i]) /\ ir[i].k \in LoweredKinds
  BY DEF Planned, Shaped
<1>2. PICK p : Freed(ir, LastAllocationUser, ir', p)
  BY <1>1, AddDeallocationFrees
<1> DEFINE t == ir'
           T == 1 .. Len(t)
           n == Len(ir)
           g == [k \in T |-> p[k][1]]
           u == LastAllocationUser
<1> HIDE DEF u
<1>3. /\ t \in Seq(SomeOp)
      /\ \A k \in T : /\ p[k][1] \in 1 .. n /\ p[k] = <<p[k][1], p[k][2]>>
                      /\ p[k][2] = 1 => t[k] = ir[p[k][1]]
                      /\ p[k][2] # 1 => IsDealloc(ir, p[k][1], u, t[k])
      /\ \A k, l \in T : k < l <=> Earlier(p[k], p[l])
      /\ \A i \in 1 .. n : \E k \in T : p[k] = <<i, 1>>
  BY <1>2 DEF Freed, u
<1>4. \A k \in T : g[k] = p[k][1]
  OBVIOUS
<1> HIDE DEF g, T, n, t
<1>5. \A k \in T : IsTask(t[k]) => p[k] = <<g[k], 1>> /\ t[k] = ir[g[k]] /\ g[k] \in 1 .. n
  BY <1>3, <1>4 DEF IsTask, IsDealloc
<1>6. \A i \in 1 .. n : \E k \in T : g[k] = i /\ t[k] = ir[i]
  <2> TAKE i \in 1 .. n
  <2>1. PICK k \in T : p[k] = <<i, 1>>
    BY <1>3
  <2>2. p[k][1] = i /\ p[k][2] = 1
    BY <2>1
  <2> QED BY <1>3, <1>4, <2>2
<1>7. \A k, l \in T : IsTask(t[k]) /\ IsTask(t[l]) => (k < l <=> g[k] < g[l])
  <2> SUFFICES ASSUME NEW k \in T, NEW l \in T, IsTask(t[k]), IsTask(t[l]) PROVE k < l <=> g[k] < g[l]
    OBVIOUS
  <2>1. p[k] = <<g[k], 1>> /\ p[l] = <<g[l], 1>>
    BY <1>5
  <2>2. Earlier(p[k], p[l]) <=> g[k] < g[l]
    BY <2>1 DEF Earlier
  <2> QED BY <1>3, <2>2
<1>8. KeepsTasks(ir, t, g)
  BY <1>5, <1>6, <1>7 DEF KeepsTasks, T, n
<1>9. Spaced(t, slice)
  BY <1>8, TasksKept DEF Planned
<1>10. \A k \in T : Shape(t[k]) /\ t[k].k \in LoweredKinds
  BY <1>1, <1>3 DEF LoweredKinds, IsDealloc, n
<1> QED BY <1>3, <1>9, <1>10 DEF Planned, Shaped, T, t

(* A spot is an operation of the function, or one of a program. *)
LEMMA SpotOf ==
  ASSUME NEW fn, NEW pr, NEW x \in Spots(fn, pr)
  PROVE  /\ x[1] \in 1 .. Len(fn) /\ x[2] \in Nat /\ x = <<x[1], x[2]>>
         /\ IsProgram(fn[x[1]]) => x[2] \in 1 .. Len(pr[fn[x[1]].inv + 1])
         /\ ~IsProgram(fn[x[1]]) => x[2] = 0
PROOF BY DEF Spots

(* One more operation, after all the others. *)
LEMMA SpreadMore ==
  ASSUME NEW fn, NEW pr, NEW s, NEW m \in Nat, NEW c, Spread(fn, pr, s, m, c),
         NEW fm, NEW pm, NEW next,
         \A x \in Spots(fn, pr) : /\ x \in Spots(fm, pm)
                                  /\ AtSpot(fm, pm, x) = AtSpot(fn, pr, x) /\ Earlier(x, next),
         next \in Spots(fm, pm), AtSpot(fm, pm, next) = s[m + 1],
         \A x \in Spots(fm, pm) : x = next \/ x \in Spots(fn, pr)
  PROVE  \E d : Spread(fm, pm, s, m + 1, d)
PROOF
<1> DEFINE d == [b \in 1 .. m + 1 |-> IF b <= m THEN c[b] ELSE next]
<1>1. \A b \in 1 .. m : d[b] = c[b] /\ b \in 1 .. m + 1
  OBVIOUS
<1>2. d[m + 1] = next /\ m + 1 \in 1 .. m + 1
  OBVIOUS
<1>3. \A b \in 1 .. m + 1 : b \in 1 .. m \/ b = m + 1
  OBVIOUS
<1> HIDE DEF d
<1>4. /\ \A b \in 1 .. m : c[b] \in Spots(fn, pr) /\ AtSpot(fn, pr, c[b]) = s[b]
      /\ \A a, b \in 1 .. m : a < b => Earlier(c[a], c[b])
      /\ \A x \in Spots(fn, pr) : \E b \in 1 .. m : c[b] = x
  BY DEF Spread
<1>5. ASSUME NEW b \in 1 .. m + 1
      PROVE  d[b] \in Spots(fm, pm) /\ AtSpot(fm, pm, d[b]) = s[b]
  BY <1>1, <1>2, <1>3, <1>4
<1>6. ASSUME NEW a \in 1 .. m + 1, NEW b \in 1 .. m + 1, a < b
      PROVE  Earlier(d[a], d[b])
  <2>1. a \in 1 .. m
    BY <1>6
  <2>2. CASE b \in 1 .. m
    BY <1>1, <1>4, <1>6, <2>1, <2>2
  <2>3. CASE b = m + 1
    BY <1>1, <1>2, <1>4, <2>1, <2>3
  <2> QED BY <1>3, <2>2, <2>3
<1>7. ASSUME NEW x \in Spots(fm, pm) PROVE \E b \in 1 .. m + 1 : d[b] = x
  BY <1>1, <1>2, <1>4
<1>8. Spread(fm, pm, s, m + 1, d)
  BY ONLY <1>5, <1>6, <1>7, Zenon DEF Spread
<1> QED BY <1>8

(* An operation that the NSS does not do. *)
LEMMA HostGoesLast ==
  ASSUME NEW fn, NEW pr, Divided(fn, pr), NEW s, NEW m \in Nat, NEW c, Spread(fn, pr, s, m, c),
         Lower(s[m + 1]), ~IsNssOperation(s[m + 1])
  PROVE  LET fm == Append(fn, s[m + 1])
         IN  Divided(fm, pr) /\ \E d : Spread(fm, pr, s, m + 1, d)
PROOF
<1> DEFINE op == s[m + 1]
           fm == Append(fn, op)
           l == Len(fn)
           next == <<l + 1, 0>>
<1>1. /\ op \in SomeOp /\ ~IsProgram(op) /\ fn \in Seq(SomeOp) /\ l \in Nat /\ l > 0
  BY DEF Lower, Divided, IsProgram, LoweredKinds
<1>2. /\ fm \in Seq(SomeOp) /\ Len(fm) = l + 1 /\ fm[l + 1] = op
      /\ \A j \in 1 .. l : fm[j] = fn[j] /\ j \in 1 .. l + 1 /\ j # l + 1 /\ j < l + 1
      /\ \A j \in 1 .. l + 1 : j = l + 1 \/ j \in 1 .. l
  BY <1>1, AppendProperties
<1> HIDE DEF fm, l
<1>3. Divided(fm, pr)
  <2> DEFINE F(f, j) == IF IsProgram(f[j]) THEN f[j].inv \in 0 .. Len(pr) - 1
                                            ELSE ~IsNssOperation(f[j]) /\ Lower(f[j])
  <2>1. /\ pr \in Seq(Seq(SomeOp)) /\ Len(pr) > 0
        /\ \A j \in 1 .. l : F(fn, j)
        /\ \A j, k \in 1 .. l : IsProgram(fn[j]) /\ IsProgram(fn[k]) /\ fn[j].inv = fn[k].inv => j = k
        /\ \A q \in 1 .. Len(pr) : \A i \in 1 .. Len(pr[q]) : IsNssOperation(pr[q][i]) /\ Lower(pr[q][i])
    BY DEF Divided, l
  <2>2. \A j \in 1 .. l + 1 : F(fm, j)
    <3> TAKE j \in 1 .. l + 1
    <3>1. CASE j = l + 1
      BY <1>1, <1>2, <3>1
    <3>2. CASE j \in 1 .. l
      BY <1>2, <2>1, <3>2
    <3> QED BY <1>2, <3>1, <3>2
  <2>3. \A j, k \in 1 .. l + 1 : IsProgram(fm[j]) /\ IsProgram(fm[k]) /\ fm[j].inv = fm[k].inv => j = k
    BY <1>1, <1>2, <2>1
  <2>4. Len(fm) > 0
    BY <1>1, <1>2
  <2> QED BY <1>2, <2>1, <2>2, <2>3, <2>4 DEF Divided
<1>4. ASSUME NEW x \in Spots(fn, pr)
      PROVE  x \in Spots(fm, pr) /\ AtSpot(fm, pr, x) = AtSpot(fn, pr, x) /\ Earlier(x, next)
  <2>1. /\ x[1] \in 1 .. l /\ x[2] \in Nat /\ x = <<x[1], x[2]>>
        /\ IsProgram(fn[x[1]]) => x[2] \in 1 .. Len(pr[fn[x[1]].inv + 1])
        /\ ~IsProgram(fn[x[1]]) => x[2] = 0
    BY SpotOf DEF l
  <2>2. fm[x[1]] = fn[x[1]] /\ x[1] \in 1 .. l + 1 /\ x[1] < l + 1
    BY <1>2, <2>1
  <2>3. x \in Spots(fm, pr)
    BY <1>2, <2>1, <2>2 DEF Spots
  <2> QED BY <2>2, <2>3 DEF AtSpot, Earlier
<1>5. next \in Spots(fm, pr) /\ AtSpot(fm, pr, next) = op
  <2>1. l + 1 \in 1 .. Len(fm)
    BY <1>1, <1>2
  <2> QED BY <1>1, <1>2, <2>1 DEF Spots, AtSpot
<1>6. ASSUME NEW x \in Spots(fm, pr) PROVE x = next \/ x \in Spots(fn, pr)
  <2>1. /\ x[1] \in 1 .. l + 1 /\ x[2] \in Nat /\ x = <<x[1], x[2]>>
        /\ IsProgram(fm[x[1]]) => x[2] \in 1 .. Len(pr[fm[x[1]].inv + 1])
        /\ ~IsProgram(fm[x[1]]) => x[2] = 0
    BY <1>2, SpotOf
  <2>2. CASE x[1] = l + 1
    BY <1>1, <1>2, <2>1, <2>2
  <2>3. CASE x[1] \in 1 .. l
    <3>1. fm[x[1]] = fn[x[1]]
      BY <1>2, <2>3
    <3> QED BY <2>1, <2>3, <3>1 DEF Spots, l
  <2> QED BY <1>2, <2>1, <2>2, <2>3
<1> HIDE DEF next
<1>7. \E d : Spread(fm, pr, s, m + 1, d)
  BY <1>4, <1>5, <1>6, SpreadMore DEF op
<1> QED BY <1>3, <1>7 DEF fm

(* An operation that begins a program. *)
LEMMA ProgramBegins ==
  ASSUME NEW fn, NEW pr, Divided(fn, pr), NEW s, NEW m \in Nat, NEW c, Spread(fn, pr, s, m, c),
         Lower(s[m + 1]), IsNssOperation(s[m + 1])
  PROVE  LET fm == Append(fn, Program(Len(pr)))
             pm == Append(pr, <<s[m + 1]>>)
         IN  Divided(fm, pm) /\ LastIsOpen(fm, pm) /\ \E d : Spread(fm, pm, s, m + 1, d)
PROOF
<1> DEFINE op == s[m + 1]
           n == Len(pr)
           p == Program(n)
           fm == Append(fn, p)
           pm == Append(pr, <<op>>)
           l == Len(fn)
           next == <<l + 1, 1>>
<1>0. /\ op \in SomeOp /\ fn \in Seq(SomeOp) /\ l \in Nat /\ l > 0
      /\ n \in Nat /\ n > 0 /\ pr \in Seq(Seq(SomeOp)) /\ <<op>> \in Seq(SomeOp)
      /\ Len(<<op>>) = 1 /\ <<op>>[1] = op
  BY DEF Lower, Divided
<1>1. IsProgram(p) /\ p.inv = n /\ p \in SomeOp
  <2>1. NoVal \in Value
    BY DEF NoVal, Val, Value, Ids, Names, Spaces
  <2>2. << >> \in Seq(Value)
    OBVIOUS
  <2>3. n \in Nat
    BY <1>0
  <2> HIDE DEF Value, NoVal, n
  <2>4. Program(n) \in SomeOp
    BY <2>1, <2>2, <2>3 DEF Program, Op, SomeOp
  <2>5. IsProgram(Program(n)) /\ Program(n).inv = n
    BY DEF Program, Op, IsProgram
  <2> QED BY <2>4, <2>5
<1> HIDE DEF p
<1>2. /\ fm \in Seq(SomeOp) /\ Len(fm) = l + 1 /\ fm[l + 1] = p
      /\ \A j \in 1 .. l : fm[j] = fn[j] /\ j \in 1 .. l + 1 /\ j # l + 1 /\ j < l + 1
      /\ \A j \in 1 .. l + 1 : j = l + 1 \/ j \in 1 .. l
  BY <1>0, <1>1, AppendProperties
<1>3. /\ pm \in Seq(Seq(SomeOp)) /\ Len(pm) = n + 1 /\ pm[n + 1] = <<op>>
      /\ \A j \in 1 .. n : pm[j] = pr[j]
      /\ \A j \in 1 .. n + 1 : j = n + 1 \/ j \in 1 .. n
  BY <1>0, AppendProperties
<1> HIDE DEF fm, l, n, pm
<1>4. \A j \in 1 .. l : /\ IsProgram(fn[j]) => /\ fn[j].inv \in 0 .. n - 1 /\ fn[j].inv + 1 \in 1 .. n
                                               /\ fn[j].inv # n /\ fn[j].inv \in 0 .. n
                                               /\ pm[fn[j].inv + 1] = pr[fn[j].inv + 1]
                        /\ ~IsProgram(fn[j]) => ~IsNssOperation(fn[j]) /\ Lower(fn[j])
  <2>1. \A j \in 1 .. l : /\ IsProgram(fn[j]) => fn[j].inv \in 0 .. n - 1
                          /\ ~IsProgram(fn[j]) => ~IsNssOperation(fn[j]) /\ Lower(fn[j])
    BY DEF Divided, l, n
  <2>2. \A i \in 0 .. n - 1 : i + 1 \in 1 .. n /\ i # n /\ i \in 0 .. n
    BY <1>0
  <2> QED BY <1>3, <2>1, <2>2
<1>5. Divided(fm, pm)
  <2>1. /\ \A j, k \in 1 .. l : IsProgram(fn[j]) /\ IsProgram(fn[k]) /\ fn[j].inv = fn[k].inv => j = k
        /\ \A q \in 1 .. n : \A i \in 1 .. Len(pr[q]) : IsNssOperation(pr[q][i]) /\ Lower(pr[q][i])
    BY DEF Divided, l, n
  <2>2. \A j \in 1 .. Len(fm) : IF IsProgram(fm[j]) THEN fm[j].inv \in 0 .. Len(pm) - 1
                                            ELSE ~IsNssOperation(fm[j]) /\ Lower(fm[j])
    <3> TAKE j \in 1 .. Len(fm)
    <3>0. Len(pm) - 1 = n /\ n \in 0 .. n
      BY <1>0, <1>3
    <3>1. CASE j = l + 1
      BY <1>1, <1>2, <3>0, <3>1
    <3>2. CASE j \in 1 .. l
      BY <1>2, <1>4, <3>0, <3>2
    <3> QED BY <1>2, <3>1, <3>2
  <2>3. \A j, k \in 1 .. l + 1 : IsProgram(fm[j]) /\ IsProgram(fm[k]) /\ fm[j].inv = fm[k].inv => j = k
    BY <1>1, <1>2, <1>4, <2>1
  <2>4. Len(fm) > 0 /\ Len(pm) > 0
    BY <1>0, <1>2, <1>3
  <2>5. \A q \in 1 .. n + 1 : \A i \in 1 .. Len(pm[q]) : IsNssOperation(pm[q][i]) /\ Lower(pm[q][i])
    <3> TAKE q \in 1 .. n + 1
    <3>1. CASE q = n + 1
      <4>1. \A i \in 1 .. Len(<<op>>) : <<op>>[i] = op
        BY <1>0
      <4> QED BY <1>3, <3>1, <4>1
    <3>2. CASE q \in 1 .. n
      BY <1>3, <2>1, <3>2
    <3> QED BY <1>3, <3>1, <3>2
  <2> QED BY <1>2, <1>3, <2>2, <2>3, <2>4, <2>5 DEF Divided
<1>6. LastIsOpen(fm, pm)
  <2>1. Len(pm) - 1 = n
    BY <1>0, <1>3
  <2> QED BY <1>1, <1>2, <2>1 DEF LastIsOpen
<1>7. ASSUME NEW x \in Spots(fn, pr)
      PROVE  x \in Spots(fm, pm) /\ AtSpot(fm, pm, x) = AtSpot(fn, pr, x) /\ Earlier(x, next)
  <2>1. /\ x[1] \in 1 .. l /\ x[2] \in Nat /\ x = <<x[1], x[2]>>
        /\ IsProgram(fn[x[1]]) => x[2] \in 1 .. Len(pr[fn[x[1]].inv + 1]) /\ x[2] # 0
        /\ ~IsProgram(fn[x[1]]) => x[2] = 0
    BY SpotOf DEF l
  <2>2. fm[x[1]] = fn[x[1]] /\ x[1] \in 1 .. l + 1 /\ x[1] < l + 1
    BY <1>2, <2>1
  <2>3. IsProgram(fn[x[1]]) => pm[fn[x[1]].inv + 1] = pr[fn[x[1]].inv + 1]
    BY <1>4, <2>1
  <2>4. x \in Spots(fm, pm)
    BY <1>2, <2>1, <2>2, <2>3 DEF Spots
  <2> QED BY <2>1, <2>2, <2>3, <2>4 DEF AtSpot, Earlier
<1>8. next \in Spots(fm, pm) /\ AtSpot(fm, pm, next) = op
  <2>1. l + 1 \in 1 .. Len(fm) /\ 1 \in 1 .. Len(pm[n + 1]) /\ pm[n + 1][1] = op /\ 1 \in Nat
    BY <1>0, <1>2, <1>3
  <2> QED BY <1>1, <1>2, <2>1 DEF Spots, AtSpot
<1>9. ASSUME NEW x \in Spots(fm, pm) PROVE x = next \/ x \in Spots(fn, pr)
  <2>1. /\ x[1] \in 1 .. l + 1 /\ x[2] \in Nat /\ x = <<x[1], x[2]>>
        /\ IsProgram(fm[x[1]]) => x[2] \in 1 .. Len(pm[fm[x[1]].inv + 1])
        /\ ~IsProgram(fm[x[1]]) => x[2] = 0
    BY <1>2, SpotOf
  <2>2. CASE x[1] = l + 1
    <3>1. x[2] \in 1 .. Len(<<op>>)
      BY <1>1, <1>2, <1>3, <2>1, <2>2
    <3>2. x[2] = 1
      BY <1>0, <3>1
    <3> QED BY <2>1, <2>2, <3>2
  <2>3. CASE x[1] \in 1 .. l
    <3>1. fm[x[1]] = fn[x[1]]
      BY <1>2, <2>3
    <3>2. IsProgram(fn[x[1]]) => x[2] \in 1 .. Len(pr[fn[x[1]].inv + 1])
      BY <1>4, <2>1, <2>3, <3>1
    <3> QED BY <2>1, <2>3, <3>1, <3>2 DEF Spots, l
  <2> QED BY <1>2, <2>1, <2>2, <2>3
<1> HIDE DEF next
<1>10. \E d : Spread(fm, pm, s, m + 1, d)
  BY <1>7, <1>8, <1>9, SpreadMore DEF op
<1> QED BY <1>5, <1>6, <1>10 DEF fm, pm, p, op, n

(* An operation that goes on with the last program. *)
LEMMA ProgramGrows ==
  ASSUME NEW fn, NEW pr, Divided(fn, pr), LastIsOpen(fn, pr),
         NEW s, NEW m \in Nat, NEW c, Spread(fn, pr, s, m, c),
         Lower(s[m + 1]), IsNssOperation(s[m + 1])
  PROVE  LET pm == Append(Front(pr), Append(Last(pr), s[m + 1]))
         IN  Divided(fn, pm) /\ LastIsOpen(fn, pm) /\ \E d : Spread(fn, pm, s, m + 1, d)
PROOF
<1> DEFINE op == s[m + 1]
           n == Len(pr)
           pm == Append(Front(pr), Append(Last(pr), op))
           l == Len(fn)
           k == Len(pr[n])
           next == <<l, k + 1>>
<1>0. /\ op \in SomeOp /\ Lower(op) /\ fn \in Seq(SomeOp) /\ l \in Nat /\ l > 0
      /\ n \in Nat /\ n > 0 /\ pr \in Seq(Seq(SomeOp))
      /\ pr[n] \in Seq(SomeOp) /\ k \in Nat /\ n \in 1 .. n /\ l \in 1 .. l
  <2>1. /\ op \in SomeOp /\ Lower(op) /\ fn \in Seq(SomeOp) /\ l \in Nat /\ l > 0
        /\ n \in Nat /\ n > 0 /\ pr \in Seq(Seq(SomeOp))
    BY DEF Lower, Divided
  <2>2. n \in 1 .. n /\ l \in 1 .. l
    BY <2>1
  <2>3. pr[n] \in Seq(SomeOp)
    BY <2>1, <2>2, ElementOfSeq
  <2> QED BY <2>1, <2>2, <2>3
<1>1. /\ pm \in Seq(Seq(SomeOp)) /\ Len(pm) = n
      /\ \A i \in 1 .. n - 1 : pm[i] = pr[i]
      /\ pm[n] = Append(pr[n], op)
  BY <1>0, LastLonger
<1> HIDE DEF l, n, pm, op
<1>2. /\ Len(pm[n]) = k + 1 /\ pm[n][k + 1] = op
      /\ \A i \in 1 .. k : pm[n][i] = pr[n][i] /\ i \in 1 .. k + 1
      /\ \A i \in 1 .. k + 1 : i = k + 1 \/ i \in 1 .. k
  BY <1>0, <1>1, AppendProperties, SMTT(30)
<1>3. /\ IsProgram(fn[l]) /\ fn[l].inv = n - 1
      /\ \A j \in 1 .. l : /\ IsProgram(fn[j]) => fn[j].inv \in 0 .. n - 1
                           /\ ~IsProgram(fn[j]) => ~IsNssOperation(fn[j]) /\ Lower(fn[j])
      /\ \A i, j \in 1 .. l : IsProgram(fn[j]) /\ IsProgram(fn[i]) /\ fn[j].inv = fn[i].inv => j = i
      /\ \A q \in 1 .. n : \A i \in 1 .. Len(pr[q]) : IsNssOperation(pr[q][i]) /\ Lower(pr[q][i])
  BY DEF Divided, LastIsOpen, n, l
<1> HIDE DEF k
<1>4. \A j \in 1 .. l : IsProgram(fn[j]) /\ j # l => fn[j].inv + 1 \in 1 .. n - 1
  <2> SUFFICES ASSUME NEW j \in 1 .. l, IsProgram(fn[j]), j # l PROVE fn[j].inv + 1 \in 1 .. n - 1
    OBVIOUS
  <2>1. fn[j].inv \in 0 .. n - 1 /\ fn[j].inv # n - 1
    BY <1>0, <1>3
  <2>2. \A i \in 0 .. n - 1 : i # n - 1 => i + 1 \in 1 .. n - 1
    BY <1>0
  <2> QED BY <2>1, <2>2
<1>5. Divided(fn, pm)
  <2>1. \A q \in 1 .. n : \A i \in 1 .. Len(pm[q]) : IsNssOperation(pm[q][i]) /\ Lower(pm[q][i])
    <3> TAKE q \in 1 .. n
    <3>1. CASE q = n
      BY <1>0, <1>2, <1>3, <3>1 DEF op, k
    <3>2. CASE q \in 1 .. n - 1
      BY <1>1, <1>3, <3>2
    <3>3. q = n \/ q \in 1 .. n - 1
      <4>1. n \in Nat
        BY <1>0
      <4> QED BY <4>1
    <3> QED BY <3>1, <3>2, <3>3
  <2> QED BY <1>0, <1>1, <1>3, <2>1 DEF Divided, l
<1>6. LastIsOpen(fn, pm)
  BY <1>1, <1>3 DEF LastIsOpen, l
<1>7. \A x \in Spots(fn, pr) \cup Spots(fn, pm) :
         /\ x[1] \in 1 .. l /\ x[2] \in Nat /\ x = <<x[1], x[2]>>
         /\ IsProgram(fn[x[1]]) /\ x[1] # l => pm[fn[x[1]].inv + 1] = pr[fn[x[1]].inv + 1]
         /\ x[1] = l => fn[x[1]].inv + 1 = n /\ IsProgram(fn[x[1]])
  <2>1. \A x \in Spots(fn, pr) \cup Spots(fn, pm) : x[1] \in 1 .. l /\ x[2] \in Nat /\ x = <<x[1], x[2]>>
    BY DEF Spots, l
  <2>2. \A i : i = n - 1 => i + 1 = n
    BY <1>0
  <2>3. fn[l].inv + 1 = n
    BY <1>3, <2>2
  <2> QED BY <1>1, <1>3, <1>4, <2>1, <2>3
<1>8. ASSUME NEW x \in Spots(fn, pr)
      PROVE  x \in Spots(fn, pm) /\ AtSpot(fn, pm, x) = AtSpot(fn, pr, x) /\ Earlier(x, next)
  <2>1. /\ IsProgram(fn[x[1]]) => x[2] \in 1 .. Len(pr[fn[x[1]].inv + 1])
        /\ ~IsProgram(fn[x[1]]) => x[2] = 0
    BY SpotOf
  <2>2. CASE x[1] = l
    <3>1. x[2] \in 1 .. k /\ fn[x[1]].inv + 1 = n
      BY <1>7, <2>1, <2>2 DEF k, n
    <3>2. x[2] \in 1 .. k + 1 /\ pm[n][x[2]] = pr[n][x[2]] /\ x[2] < k + 1
      <4>1. x[2] \in 1 .. k + 1 /\ pm[n][x[2]] = pr[n][x[2]]
        BY <1>2, <3>1
      <4>2. k \in Nat /\ \A i \in 1 .. k : i < k + 1
        BY <1>0
      <4> QED BY <3>1, <4>1, <4>2
    <3>3. x \in Spots(fn, pm)
      BY <1>2, <1>7, <2>2, <3>1, <3>2 DEF Spots, l
    <3> QED BY <1>7, <2>2, <3>1, <3>2, <3>3 DEF AtSpot, Earlier
  <2>3. CASE x[1] # l
    <3>1. x[1] < l
      BY <1>0, <1>7, <2>3
    <3>2. x \in Spots(fn, pm)
      BY <1>7, <2>1, <2>3 DEF Spots, l
    <3>3. AtSpot(fn, pm, x) = AtSpot(fn, pr, x)
      <4>1. x[2] # 0 => IsProgram(fn[x[1]])
        BY <2>1
      <4> QED BY <1>7, <2>3, <4>1 DEF AtSpot
    <3> QED BY <3>1, <3>2, <3>3 DEF Earlier
  <2> QED BY <2>2, <2>3
<1>9. next \in Spots(fn, pm) /\ AtSpot(fn, pm, next) = op
  <2>1. k + 1 \in 1 .. Len(pm[n]) /\ k + 1 \in Nat /\ k + 1 # 0 /\ fn[l].inv + 1 = n
    BY <1>0, <1>2, <1>3, SMTT(30)
  <2> QED BY <1>0, <1>2, <1>3, <2>1 DEF Spots, AtSpot, l
<1>10. ASSUME NEW x \in Spots(fn, pm) PROVE x = next \/ x \in Spots(fn, pr)
  <2>1. /\ IsProgram(fn[x[1]]) => x[2] \in 1 .. Len(pm[fn[x[1]].inv + 1])
        /\ ~IsProgram(fn[x[1]]) => x[2] = 0
    BY SpotOf
  <2>2. CASE x[1] = l
    <3>1. x[2] = k + 1 \/ x[2] \in 1 .. k
      BY <1>2, <1>7, <2>1, <2>2
    <3>2. CASE x[2] = k + 1
      BY <1>7, <2>2, <3>2
    <3>3. CASE x[2] \in 1 .. k
      BY <1>7, <2>2, <3>3 DEF Spots, k, l
    <3> QED BY <3>1, <3>2, <3>3
  <2>3. CASE x[1] # l
    BY <1>7, <2>1, <2>3 DEF Spots, l
  <2> QED BY <2>2, <2>3
<1> HIDE DEF next
<1>11. \E d : Spread(fn, pm, s, m + 1, d)
  BY <1>8, <1>9, <1>10, SpreadMore DEF op
<1> QED BY <1>5, <1>6, <1>11 DEF pm, op

(* The recursive function of the fold in findPrograms exists. *)
LEMMA FindSteps ==
  ASSUME NEW n \in Nat, NEW s
  PROVE  \E f : f = [i \in 0 .. n |-> IF i = 0 THEN NothingFound ELSE FindPrograms(f[i - 1], s[i])]
PROOF
<1> DEFINE R(g, m) == g = [i \in 0 .. m |-> IF i = 0 THEN NothingFound ELSE FindPrograms(g[i - 1], s[i])]
           T == {m \in Nat : \E g : R(g, m)}
<1>0. \E f : R(f, n)
  <2>1. 0 \in T
    <3>1. R([i \in 0 .. 0 |-> NothingFound], 0)
      OBVIOUS
    <3> QED BY <3>1
  <2>2. ASSUME NEW m \in Nat, m \in T PROVE m + 1 \in T
    <3>1. PICK g : R(g, m)
      BY <2>2
    <3>2. \A i \in 0 .. m : g[i] = IF i = 0 THEN NothingFound ELSE FindPrograms(g[i - 1], s[i])
      BY <3>1
    <3> HIDE DEF R
    <3> DEFINE h == [i \in 0 .. m + 1 |-> IF i <= m THEN g[i] ELSE FindPrograms(g[m], s[m + 1])]
    <3>3. ASSUME NEW i \in 0 .. m + 1
          PROVE  h[i] = IF i = 0 THEN NothingFound ELSE FindPrograms(h[i - 1], s[i])
      <4>1. CASE i <= m
        <5>1. h[i] = g[i] /\ (i # 0 => h[i - 1] = g[i - 1])
          BY <4>1
        <5>2. g[i] = IF i = 0 THEN NothingFound ELSE FindPrograms(g[i - 1], s[i])
          BY <3>2, <4>1
        <5> HIDE DEF h
        <5> QED BY <5>1, <5>2
      <4>2. CASE i = m + 1
        BY <4>2
      <4> QED BY <4>1, <4>2
    <3>4. R(h, m + 1)
      <4>1. h = [i \in 0 .. m + 1 |-> h[i]]
        OBVIOUS
      <4> HIDE DEF h
      <4> QED BY <3>3, <4>1 DEF R
    <3> HIDE DEF h
    <3> QED BY <3>4
  <2>3. n \in T
    <3> HIDE DEF T
    <3> QED BY <2>1, <2>2, NatSet
  <2> QED BY <2>3
<1> QED BY <1>0

(* What stands for a program in the function. *)
LEMMA ProgramIs ==
  ASSUME NEW n \in Nat
  PROVE  Program(n) \in SomeOp /\ IsProgram(Program(n)) /\ Program(n).inv = n
PROOF
<1>1. NoVal \in Value
  BY DEF NoVal, Val, Value, Ids, Names, Spaces
<1>2. << >> \in Seq(Value)
  OBVIOUS
<1> HIDE DEF Value, NoVal
<1> QED BY <1>1, <1>2 DEF Program, Op, SomeOp, IsProgram

(* Before the first operation there is program 0, which is empty. *)
LEMMA NothingSpread ==
  ASSUME NEW s
  PROVE  FoundTo(NothingFound, s, 0)
PROOF
<1> DEFINE p == Program(0)
           fn == <<p>>
           pr == << << >> >>
<1>1. p \in SomeOp /\ IsProgram(p) /\ p.inv = 0
  BY ProgramIs
<1> HIDE DEF p
<1>2. fn \in Seq(SomeOp) /\ Len(fn) = 1 /\ fn[1] = p
  BY <1>1
<1>3. pr \in Seq(Seq(SomeOp)) /\ Len(pr) = 1 /\ pr[1] = << >> /\ Len(pr[1]) = 0
  OBVIOUS
<1> HIDE DEF fn, pr
<1>4. Divided(fn, pr)
  <2>1. \A j \in 1 .. Len(fn) : j = 1
    BY <1>2
  <2>2. \A j \in 1 .. Len(fn) : IsProgram(fn[j]) /\ fn[j].inv \in 0 .. Len(pr) - 1
    BY <1>1, <1>2, <1>3, <2>1
  <2>3. \A q \in 1 .. Len(pr) : \A i \in 1 .. Len(pr[q]) : FALSE
    BY <1>3
  <2> QED BY <1>2, <1>3, <2>1, <2>2, <2>3 DEF Divided
<1>5. Spots(fn, pr) = {}
  <2>1. ASSUME NEW x \in Spots(fn, pr) PROVE FALSE
    <3>1. x[1] \in 1 .. 1 /\ (IsProgram(fn[x[1]]) => x[2] \in 1 .. Len(pr[fn[x[1]].inv + 1]))
      BY <1>2 DEF Spots
    <3>2. x[1] = 1
      BY <3>1
    <3> QED BY <1>1, <1>2, <1>3, <3>1, <3>2
  <2> QED BY <2>1
<1>6. Spread(fn, pr, s, 0, << >>)
  BY <1>5 DEF Spread
<1>7. /\ DOMAIN NothingFound = {"function", "programs", "size", "new"}
      /\ NothingFound.function = fn /\ NothingFound.programs = pr /\ NothingFound.new
  BY DEF NothingFound, fn, pr, p
<1> QED BY <1>4, <1>6, <1>7 DEF FoundTo

(* One more operation for findPrograms, in each of its three cases. *)
LEMMA FoundMore ==
  ASSUME NEW acc, NEW s, NEW m \in Nat, FoundTo(acc, s, m), Lower(s[m + 1])
  PROVE  FoundTo(FindPrograms(acc, s[m + 1]), s, m + 1)
PROOF
<1> DEFINE op == s[m + 1]
           fn == acc.function
           pr == acc.programs
           next == FindPrograms(acc, op)
<1>1. /\ DOMAIN acc = {"function", "programs", "size", "new"}
      /\ Divided(fn, pr)
      /\ \E c : Spread(fn, pr, s, m, c)
      /\ acc.new \/ LastIsOpen(fn, pr)
  BY DEF FoundTo
<1>2. PICK c : Spread(fn, pr, s, m, c)
  BY <1>1
<1>3. CASE ~IsNssOperation(op)
  <2>1. next = [acc EXCEPT !.function = Append(fn, op), !.new = TRUE]
    BY <1>3 DEF FindPrograms
  <2> HIDE DEF next
  <2>2. /\ DOMAIN next = {"function", "programs", "size", "new"}
        /\ next.function = Append(fn, op) /\ next.programs = pr /\ next.new
    BY <1>1, <2>1
  <2> HIDE DEF fn, pr
  <2>3. Divided(Append(fn, op), pr) /\ \E d : Spread(Append(fn, op), pr, s, m + 1, d)
    BY <1>1, <1>2, <1>3, HostGoesLast
  <2> QED BY <2>2, <2>3 DEF FoundTo, next
<1>4. CASE IsNssOperation(op) /\ (acc.new \/ acc.size + OperationSize(op) > NssTaskSize - 1)
  <2>1. next = [acc EXCEPT !.function = Append(fn, Program(Len(pr))), !.programs = Append(pr, <<op>>),
                           !.size = OperationSize(op), !.new = FALSE]
    BY <1>4 DEF FindPrograms
  <2> HIDE DEF next
  <2>2. /\ DOMAIN next = {"function", "programs", "size", "new"}
        /\ next.function = Append(fn, Program(Len(pr))) /\ next.programs = Append(pr, <<op>>)
    BY <1>1, <2>1
  <2> HIDE DEF fn, pr
  <2> DEFINE fm == Append(fn, Program(Len(pr)))
             pm == Append(pr, <<op>>)
  <2>3. Divided(fm, pm) /\ LastIsOpen(fm, pm) /\ \E d : Spread(fm, pm, s, m + 1, d)
    BY <1>1, <1>2, <1>4, ProgramBegins
  <2> HIDE DEF fm, pm
  <2>4. next.function = fm /\ next.programs = pm
    BY <2>2 DEF fm, pm
  <2> QED BY <2>2, <2>3, <2>4 DEF FoundTo, next
<1>5. CASE IsNssOperation(op) /\ ~(acc.new \/ acc.size + OperationSize(op) > NssTaskSize - 1)
  <2>1. next = [acc EXCEPT !.programs = Append(Front(pr), Append(Last(pr), op)),
                           !.size = acc.size + OperationSize(op)]
    BY <1>5 DEF FindPrograms
  <2> HIDE DEF next
  <2>2. /\ DOMAIN next = {"function", "programs", "size", "new"}
        /\ next.function = fn /\ next.programs = Append(Front(pr), Append(Last(pr), op))
    BY <1>1, <2>1
  <2>0. LastIsOpen(fn, pr) /\ IsNssOperation(op)
    BY <1>1, <1>5
  <2> HIDE DEF fn, pr
  <2> DEFINE pm == Append(Front(pr), Append(Last(pr), op))
  <2>3. Divided(fn, pm) /\ LastIsOpen(fn, pm) /\ \E d : Spread(fn, pm, s, m + 1, d)
    BY <1>1, <1>2, <2>0, ProgramGrows
  <2> HIDE DEF pm
  <2>4. next.function = fn /\ next.programs = pm
    BY <2>2 DEF pm
  <2> QED BY <2>2, <2>3, <2>4 DEF FoundTo, next
<1> QED BY <1>3, <1>4, <1>5

(* findPrograms has all the operations, in order, the NSS's in programs. *)
LEMMA FoundSpreads ==
  ASSUME Planned(ir, slice)
  PROVE  FoundTo(Found, ir, Len(ir))
PROOF
<1> DEFINE n == Len(ir)
           R(g) == g = [i \in 0 .. n |-> IF i = 0 THEN NothingFound ELSE FindPrograms(g[i - 1], ir[i])]
           f == CHOOSE g : R(g)
<1>1. n \in Nat /\ \A i \in 1 .. n : Lower(ir[i])
  <2>1. ir \in Seq(SomeOp)
    BY DEF Planned, Shaped
  <2>2. \A i \in 1 .. n : ir[i] \in SomeOp
    BY <2>1, ElementOfSeq
  <2> QED BY <2>1, <2>2 DEF Planned, Shaped, Lower
<1>2. Found = f[n]
  BY DEF Found, Fold, NothingFound
<1>3. R(f)
  BY <1>1, FindSteps
<1>4. \A i \in 0 .. n : f[i] = IF i = 0 THEN NothingFound ELSE FindPrograms(f[i - 1], ir[i])
  <2> HIDE DEF f
  <2> QED BY <1>3
<1> HIDE DEF f, R, n
<1> DEFINE T == {m \in 0 .. n : FoundTo(f[m], ir, m)}
<1>5. 0 \in T
  BY <1>1, <1>4, NothingSpread
<1>6. \A m \in 0 .. n - 1 : m \in T => m + 1 \in T
  <2> SUFFICES ASSUME NEW m \in 0 .. n - 1, m \in T PROVE m + 1 \in T
    OBVIOUS
  <2>1. m \in Nat /\ m + 1 \in 1 .. n /\ m + 1 \in 0 .. n /\ m + 1 # 0 /\ (m + 1) - 1 = m
    BY <1>1
  <2>2. f[m + 1] = FindPrograms(f[m], ir[m + 1])
    BY <1>4, <2>1
  <2>3. FoundTo(FindPrograms(f[m], ir[m + 1]), ir, m + 1)
    BY <1>1, <2>1, FoundMore
  <2> QED BY <2>1, <2>2, <2>3
<1>7. n \in 0 .. n /\ 0 .. n \subseteq T
  <2> HIDE DEF T
  <2> QED BY <1>1, <1>5, <1>6, UpTo
<1> QED BY <1>2, <1>7 DEF n

(* The elements of short sequences. *)
LEMMA RangeOf ==
  ASSUME NEW x, NEW y
  PROVE  Range(<< >>) = {} /\ Range(<<x>>) = {x} /\ Range(<<x, y>>) = {x, y}
PROOF
<1>1. Range(<< >>) = {}
  BY DEF Range
<1>2. Range(<<x, y>>) = {x, y}
  <2>1. DOMAIN <<x, y>> = {1, 2} /\ <<x, y>>[1] = x /\ <<x, y>>[2] = y
    OBVIOUS
  <2> QED BY <2>1 DEF Range
<1>3. Range(<<x>>) = {x}
  <2>1. DOMAIN <<x>> = {1} /\ <<x>>[1] = x
    OBVIOUS
  <2> QED BY <2>1 DEF Range
<1> QED BY <1>1, <1>2, <1>3

(* The operands of a copy. *)
LEMMA UseOperands ==
  ASSUME NEW k, NEW x, NEW y
  PROVE  Operands(Use(k, <<x, y>>)) = {x, y} /\ Use(k, <<x, y>>).k = k
PROOF
  BY RangeOf DEF Operands, Use, Op

(* The operands of a kernel or a call. *)
LEMMA InvokeOperands ==
  ASSUME NEW k, NEW inv, NEW ex, NEW args
  PROVE  Operands(Invoke(k, inv, ex, args)) = Range(args)
PROOF
<1>1. Range(<< >>) = {}
  BY RangeOf
<1> QED BY <1>1 DEF Operands, Invoke, Op

(* An operation without arguments and code uses nothing. *)
LEMMA NoOperands ==
  ASSUME NEW k, NEW res, NEW inv, NEW ex
  PROVE  Operands(Op(k, res, << >>, << >>, inv, ex)) = {}
PROOF
<1>1. Range(<< >>) = {}
  BY RangeOf
<1> QED BY <1>1 DEF Operands, Op

(* An allocation uses nothing. *)
LEMMA AllocOperands ==
  ASSUME NEW v
  PROVE  Operands(AllocOp(v)) = {}
PROOF
  BY NoOperands DEF AllocOp

(* A binding uses nothing. *)
LEMMA BindingOperands ==
  ASSUME NEW v, NEW n
  PROVE  Operands(BindingOp(v, n)) = {}
PROOF
  BY NoOperands DEF BindingOp

(* A view uses what it is a view of. *)
LEMMA ViewOperands ==
  ASSUME NEW v, NEW x
  PROVE  Operands(Op("view", v, <<x>>, << >>, << >>, "none")) = {x}
PROOF
<1>1. Range(<< >>) = {} /\ Range(<<x>>) = {x}
  BY RangeOf
<1> QED BY <1>1 DEF Operands, Op

(* A start uses the code and the arguments of the program. *)
LEMMA StartOperands ==
  ASSUME NEW inv, NEW ex, NEW code, NEW args
  PROVE  Operands(StartOp(inv, ex, code, args)) = Range(code) \cup Range(args)
PROOF
  BY DEF Operands, StartOp, Op

(* A wait has no operands of its own. *)
LEMMA WaitOperands ==
  ASSUME NEW inv, NEW ex
  PROVE  Operands(WaitOp(inv, ex)) = {}
PROOF
  BY NoOperands DEF WaitOp

(* A start and a wait put after operations that are not starts of the    *)
(* NSS.                                                                  *)
LEMMA StartIsLast ==
  ASSUME NEW a \in Seq(SomeOp), NEW b \in Seq(SomeOp), NEW u,
         \A j \in 1 .. Len(a) : ~StartsNss(a[j]) /\ Bare(a[j]), Len(b) = 2,
         StartsNss(b[1]), b[1].inv.id[1] = u, b[2].k = "wait", b[2].ex = "nss",
         Bare(b[1]), Bare(b[2])
  PROVE  StartAndWait(a \o b, u)
PROOF
<1> DEFINE c == a \o b
           l == Len(a)
<1>1. /\ c \in Seq(SomeOp) /\ Len(c) = l + 2 /\ l \in Nat
      /\ \A k \in 1 .. l + 2 : c[k] = IF k <= l THEN a[k] ELSE b[k - l]
  <2> DEFINE k2 == Len(b)
  <2>1. k2 = 2 /\ l \in Nat
    OBVIOUS
  <2>2. /\ c \in Seq(SomeOp) /\ Len(c) = l + k2
        /\ \A k \in 1 .. l + k2 : c[k] = IF k <= l THEN a[k] ELSE b[k - l]
    <3> HIDE DEF SomeOp
    <3> QED BY ConcatProperties
  <2> HIDE DEF k2, c, l, SomeOp
  <2> QED BY <2>1, <2>2
<1> HIDE DEF c, l
<1>2. /\ l + 1 \in 1 .. l + 2 /\ ~(l + 1 <= l) /\ (l + 1) - l = 1
      /\ l + 2 \in 1 .. l + 2 /\ ~(l + 2 <= l) /\ (l + 2) - l = 2 /\ (l + 2) - 1 = l + 1
      /\ l + 2 \in Nat /\ l + 2 > 1
  BY <1>1
<1>3. c[l + 1] = b[1] /\ c[l + 2] = b[2]
  BY <1>1, <1>2
<1>4. \A j \in 1 .. l + 2 : StartsNss(c[j]) => j = l + 1
  <2> SUFFICES ASSUME NEW j \in 1 .. l + 2, StartsNss(c[j]) PROVE j = l + 1
    OBVIOUS
  <2>1. CASE j <= l
    <3>1. j \in 1 .. l /\ c[j] = a[j]
      BY <1>1, <2>1
    <3> QED BY <3>1 DEF l
  <2>2. CASE j = l + 2
    BY <1>3, <2>2 DEF StartsNss
  <2> QED BY <1>1, <2>1, <2>2
<1>5. \A j \in 1 .. l + 2 : Bare(c[j])
  <2> TAKE j \in 1 .. l + 2
  <2>1. CASE j <= l
    <3>1. j \in 1 .. l /\ c[j] = a[j]
      BY <1>1, <2>1
    <3> QED BY <3>1 DEF l
  <2>2. CASE ~(j <= l)
    <3>1. j = l + 1 \/ j = l + 2
      BY <1>1, <2>2
    <3> QED BY <1>3, <3>1
  <2> QED BY <2>1, <2>2
<1> QED BY <1>1, <1>2, <1>3, <1>4, <1>5 DEF StartAndWait, c

(* The areas, sections and invocations of NSS programs. *)
LEMMA NssValues ==
  ASSUME NEW i \in Nat
  PROVE  /\ Area(i) \in Value /\ NssSection(i) \in Value /\ NssInv(i) \in InvRec
         /\ NssInv(i).id[1] = i
PROOF
<1>1. NssTaskSize \in Nat
  BY PipelineAssumption
<1>2. i % 2 \in Nat
  OBVIOUS
<1> QED BY <1>1, <1>2 DEF Area, NssSection, NssInv, Val, Value, InvRec, Ids, Names, Spaces

(* The operations that launch a program end with its start and its       *)
(* wait.                                                                 *)
LEMMA OutlineOperationsAre ==
  ASSUME NEW u \in Nat, NEW count \in Nat
  PROVE  StartAndWait(OutlineOperations(u, count), u)
PROOF
<1> DEFINE first == IF u = 0 THEN <<InvOp(NssInv(0), "nss", <<NssSection(0)>>),
                                    Use("hostcopy", <<Area(0), NssSection(0)>>)>> ELSE << >>
           later == IF u + 1 < count
                    THEN <<InvOp(NssInv(u + 1), "nss", <<NssSection(u + 1)>>)>> ELSE << >>
           last == <<StartOp(NssInv(u), "nss", <<Area(u)>>, << >>), WaitOp(NssInv(u), "nss")>>
<1>1. \A i \in {0, u, u + 1} : Area(i) \in Value /\ NssSection(i) \in Value /\ NssInv(i) \in InvRec
  BY NssValues
<1>2. NssInv(u).id[1] = u
  BY NssValues
<1>3. NoVal \in Value
  BY DEF NoVal, Val, Value, Ids, Names, Spaces
<1>0. \A i : Bare(InvOp(NssInv(i), "nss", <<NssSection(i)>>))
  <2> TAKE i
  <2>1. Operands(InvOp(NssInv(i), "nss", <<NssSection(i)>>)) = {NssSection(i)}
    BY RangeOf DEF Operands, InvOp, Op
  <2>2. ~Pooled(NssSection(i))
    BY DEF Pooled, NssSection, Val
  <2> QED BY <2>1, <2>2 DEF Bare, InvOp, Op
<1>20. Bare(Use("hostcopy", <<Area(0), NssSection(0)>>))
  <2>1. Operands(Use("hostcopy", <<Area(0), NssSection(0)>>)) = {Area(0), NssSection(0)}
    BY UseOperands
  <2>2. ~Pooled(NssSection(0)) /\ ~Pooled(Area(0))
    BY DEF Pooled, NssSection, Area, Val
  <2> QED BY <2>1, <2>2 DEF Bare, Use, Op
<1>21. Bare(StartOp(NssInv(u), "nss", <<Area(u)>>, << >>))
  <2>1. Operands(StartOp(NssInv(u), "nss", <<Area(u)>>, << >>)) = {Area(u)}
    <3>1. Range(<<Area(u)>>) = {Area(u)} /\ Range(<< >>) = {}
      BY RangeOf
    <3> QED BY <3>1, StartOperands
  <2>2. ~Pooled(Area(u))
    BY DEF Pooled, Area, Val
  <2> QED BY <2>1, <2>2 DEF Bare, StartOp, Op
<1>22. Bare(WaitOp(NssInv(u), "nss"))
  <2>1. Operands(WaitOp(NssInv(u), "nss")) = {}
    BY WaitOperands
  <2> QED BY <2>1 DEF Bare, WaitOp, Op
<1> HIDE DEF Value, InvRec, NoVal, Area, NssSection, NssInv
<1>4. \A i \in {0, u, u + 1} : /\ InvOp(NssInv(i), "nss", <<NssSection(i)>>) \in SomeOp
                               /\ ~StartsNss(InvOp(NssInv(i), "nss", <<NssSection(i)>>))
                               /\ Bare(InvOp(NssInv(i), "nss", <<NssSection(i)>>))
  BY <1>0, <1>1, <1>3 DEF InvOp, Op, SomeOp, StartsNss
<1>5. /\ Use("hostcopy", <<Area(0), NssSection(0)>>) \in SomeOp
      /\ ~StartsNss(Use("hostcopy", <<Area(0), NssSection(0)>>))
  BY <1>1, <1>3 DEF Use, Op, SomeOp, StartsNss
<1>6. /\ StartOp(NssInv(u), "nss", <<Area(u)>>, << >>) \in SomeOp
      /\ StartsNss(StartOp(NssInv(u), "nss", <<Area(u)>>, << >>))
      /\ StartOp(NssInv(u), "nss", <<Area(u)>>, << >>).inv = NssInv(u)
  BY <1>1, <1>3 DEF StartOp, Op, SomeOp, StartsNss
<1>7. WaitOp(NssInv(u), "nss") \in SomeOp /\ WaitOp(NssInv(u), "nss").k = "wait" /\ WaitOp(NssInv(u), "nss").ex = "nss"
  BY <1>1, <1>3 DEF WaitOp, Op, SomeOp
<1> HIDE DEF SomeOp
<1>8. /\ first \in Seq(SomeOp) /\ \A j \in 1 .. Len(first) : ~StartsNss(first[j]) /\ Bare(first[j])
  <2>1. CASE u = 0
    <3> DEFINE x == InvOp(NssInv(0), "nss", <<NssSection(0)>>)
               y == Use("hostcopy", <<Area(0), NssSection(0)>>)
    <3>1. /\ x \in SomeOp /\ y \in SomeOp /\ ~StartsNss(x) /\ ~StartsNss(y)
          /\ Bare(x) /\ Bare(y) /\ first = <<x, y>>
      BY <1>4, <1>5, <1>20, <2>1
    <3> HIDE DEF x, y, first
    <3>2. <<x, y>> \in Seq(SomeOp) /\ Len(<<x, y>>) = 2 /\ <<x, y>>[1] = x /\ <<x, y>>[2] = y
      BY <3>1
    <3>3. \A j \in 1 .. 2 : j = 1 \/ j = 2
      OBVIOUS
    <3> QED BY <3>1, <3>2, <3>3
  <2>2. CASE u # 0
    BY <2>2
  <2> QED BY <2>1, <2>2
<1>9. /\ later \in Seq(SomeOp) /\ \A j \in 1 .. Len(later) : ~StartsNss(later[j]) /\ Bare(later[j])
  <2> DEFINE x == InvOp(NssInv(u + 1), "nss", <<NssSection(u + 1)>>)
  <2>1. x \in SomeOp /\ ~StartsNss(x) /\ Bare(x) /\ later \in {<<x>>, << >>}
    BY <1>4
  <2> HIDE DEF x, later
  <2>2. \A j \in 1 .. 1 : j = 1
    OBVIOUS
  <2>3. CASE later = <<x>>
    <3>1. Len(later) = 1 /\ later[1] = x /\ later \in Seq(SomeOp)
      BY <2>1, <2>3
    <3> QED BY <2>1, <2>2, <3>1
  <2>4. CASE later = << >>
    BY <2>4
  <2> QED BY <2>1, <2>3, <2>4
<1>10. /\ last \in Seq(SomeOp) /\ Len(last) = 2
       /\ StartsNss(last[1]) /\ last[1].inv.id[1] = u /\ last[2].k = "wait" /\ last[2].ex = "nss"
       /\ Bare(last[1]) /\ Bare(last[2])
  <2> DEFINE x == StartOp(NssInv(u), "nss", <<Area(u)>>, << >>)
             y == WaitOp(NssInv(u), "nss")
  <2>1. /\ x \in SomeOp /\ y \in SomeOp /\ StartsNss(x) /\ x.inv.id[1] = u
        /\ y.k = "wait" /\ y.ex = "nss" /\ last = <<x, y>> /\ Bare(x) /\ Bare(y)
    BY <1>2, <1>6, <1>7, <1>21, <1>22
  <2> HIDE DEF x, y, last
  <2> QED BY <2>1
<1>11. OutlineOperations(u, count) = (first \o later) \o last
  BY DEF OutlineOperations
<1> HIDE DEF first, later, last
<1>12. /\ first \o later \in Seq(SomeOp)
       /\ \A j \in 1 .. Len(first \o later) : ~StartsNss((first \o later)[j]) /\ Bare((first \o later)[j])
  <2>1. /\ first \o later \in Seq(SomeOp) /\ Len(first \o later) = Len(first) + Len(later)
        /\ \A k \in 1 .. Len(first) + Len(later) :
             (first \o later)[k] = IF k <= Len(first) THEN first[k] ELSE later[k - Len(first)]
    BY <1>8, <1>9, ConcatProperties
  <2>2. \A k \in 1 .. Len(first) + Len(later) :
          \/ k <= Len(first) /\ k \in 1 .. Len(first)
          \/ ~(k <= Len(first)) /\ k - Len(first) \in 1 .. Len(later)
    BY <1>8, <1>9
  <2> QED BY <1>8, <1>9, <2>1, <2>2
<1> HIDE DEF StartAndWait, StartsNss, Bare
<1>13. StartAndWait((first \o later) \o last, u)
  BY <1>10, <1>12, StartIsLast
<1> QED BY <1>11, <1>13

(* The starts of NSS programs are in the order of the programs, each     *)
(* followed by its wait.                                                 *)
LEMMA ReplacedStarts ==
  ASSUME NEW fn, NEW pr, Divided(fn, pr), NEW ss, Replaced(fn, ss)
  PROVE  LET t == FlattenSeq(ss)
         IN  t \in Seq(SomeOp) /\ \E g : StartsAt(fn, t, g) /\ AnchoredAt(fn, t, g)
PROOF
<1> DEFINE t == FlattenSeq(ss)
           n == Len(fn)
<1>1. /\ ss \in Seq(Seq(SomeOp)) /\ Len(ss) = n /\ n \in Nat
      /\ \A j \in 1 .. n : IsProgram(fn[j]) => StartAndWait(ss[j], fn[j].inv)
      /\ \A j \in 1 .. n : ~IsProgram(fn[j]) => ss[j] = <<fn[j]>> /\ ~StartsNss(fn[j])
  <2>1. /\ ss \in Seq(Seq(SomeOp)) /\ Len(ss) = n
        /\ \A j \in 1 .. n : IsProgram(fn[j]) => StartAndWait(ss[j], fn[j].inv)
        /\ \A j \in 1 .. n : ~IsProgram(fn[j]) => ss[j] = <<fn[j]>>
    BY DEF Replaced
  <2>2. fn \in Seq(SomeOp)
    BY DEF Divided
  <2>3. \A j \in 1 .. n : ~IsProgram(fn[j]) => ~StartsNss(fn[j])
    BY DEF Divided, Lower, Shape, StartsNss
  <2>4. n \in Nat
    BY <2>2
  <2> HIDE DEF SomeOp, n, StartAndWait, StartsNss
  <2> QED BY <2>1, <2>3, <2>4
<1> HIDE DEF t, n
<1>2. t \in Seq(SomeOp) /\ \E p : Arranged(ss, t, p)
  BY <1>1, Flatten DEF t
<1>3. PICK p : Arranged(ss, t, p)
  BY <1>2
<1>4. Ordered(ss, t, p)
  BY <1>1, <1>2, <1>3, ArrangedOrder
<1> DEFINE T == 1 .. Len(t)
           g == [k \in T |-> p[k][1]]
<1>5. /\ \A k \in T : /\ p[k][1] \in 1 .. n
                      /\ p[k][2] \in 1 .. Len(ss[p[k][1]])
                      /\ p[k] = <<p[k][1], p[k][2]>>
                      /\ t[k] = ss[p[k][1]][p[k][2]]
      /\ \A k, l \in T : p[k] = p[l] => k = l
      /\ \A k, l \in T : k < l <=> Earlier(p[k], p[l])
      /\ \A i \in 1 .. n : \A j \in 1 .. Len(ss[i]) : \E k \in T : p[k] = <<i, j>>
  BY <1>1, <1>4 DEF Ordered
<1>6. \A k \in T : g[k] = p[k][1] /\ g[k] \in 1 .. n
  BY <1>5
<1>7. \A k \in T : k \in Nat /\ (k < Len(t) => k + 1 \in T) /\ Len(t) \in Nat
  BY <1>2
<1> HIDE DEF g, T
<1> DEFINE e(j) == Len(ss[j])
<1>8. \A j \in 1 .. n : IsProgram(fn[j]) =>
        /\ e(j) \in Nat /\ e(j) > 1 /\ e(j) - 1 \in 1 .. e(j) /\ e(j) \in 1 .. e(j)
        /\ StartsNss(ss[j][e(j) - 1]) /\ ss[j][e(j) - 1].inv.id[1] = fn[j].inv
        /\ ss[j][e(j)].k = "wait" /\ ss[j][e(j)].ex = "nss"
        /\ \A i \in 1 .. e(j) : StartsNss(ss[j][i]) => i = e(j) - 1
  <2> SUFFICES ASSUME NEW j \in 1 .. n, IsProgram(fn[j])
               PROVE  /\ e(j) \in Nat /\ e(j) > 1 /\ e(j) - 1 \in 1 .. e(j) /\ e(j) \in 1 .. e(j)
                      /\ StartsNss(ss[j][e(j) - 1]) /\ ss[j][e(j) - 1].inv.id[1] = fn[j].inv
                      /\ ss[j][e(j)].k = "wait" /\ ss[j][e(j)].ex = "nss"
                      /\ \A i \in 1 .. e(j) : StartsNss(ss[j][i]) => i = e(j) - 1
    OBVIOUS
  <2> DEFINE o == ss[j]
  <2>1. StartAndWait(o, fn[j].inv)
    BY <1>1
  <2> HIDE DEF o
  <2>2. /\ Len(o) \in Nat /\ Len(o) > 1
        /\ StartsNss(o[Len(o) - 1]) /\ o[Len(o) - 1].inv.id[1] = fn[j].inv
        /\ o[Len(o)].k = "wait" /\ o[Len(o)].ex = "nss"
        /\ \A i \in 1 .. Len(o) : StartsNss(o[i]) => i = Len(o) - 1
    BY <2>1 DEF StartAndWait
  <2>3. Len(o) - 1 \in 1 .. Len(o) /\ Len(o) \in 1 .. Len(o)
    BY <2>2
  <2> QED BY <2>2, <2>3 DEF o
<1>9. \A k \in T : StartsNss(t[k]) =>
        /\ IsProgram(fn[g[k]]) /\ t[k].inv.id[1] = fn[g[k]].inv
        /\ p[k] = <<g[k], e(g[k]) - 1>>
  <2> SUFFICES ASSUME NEW k \in T, StartsNss(t[k])
               PROVE  /\ IsProgram(fn[g[k]]) /\ t[k].inv.id[1] = fn[g[k]].inv
                      /\ p[k] = <<g[k], e(g[k]) - 1>>
    OBVIOUS
  <2> DEFINE j == p[k][1]
             i == p[k][2]
  <2>1. g[k] = j /\ j \in 1 .. n /\ i \in 1 .. Len(ss[j]) /\ p[k] = <<j, i>> /\ t[k] = ss[j][i]
    BY <1>5, <1>6
  <2> HIDE DEF i, j
  <2>2. IsProgram(fn[j])
    <3> SUFFICES ASSUME ~IsProgram(fn[j]) PROVE FALSE
      OBVIOUS
    <3>1. ss[j] = <<fn[j]>> /\ ~StartsNss(fn[j])
      BY <1>1, <2>1
    <3>2. i = 1
      BY <2>1, <3>1
    <3> QED BY <2>1, <3>1, <3>2
  <2>3. i = e(j) - 1
    BY <1>8, <2>1, <2>2
  <2>4. t[k] = ss[j][e(j) - 1]
    BY <2>1, <2>3
  <2> QED BY <1>8, <2>1, <2>2, <2>3, <2>4
<1> HIDE DEF e
<1>10. \A j \in 1 .. n : IsProgram(fn[j]) => \E k \in T : StartsNss(t[k]) /\ g[k] = j
  <2> SUFFICES ASSUME NEW j \in 1 .. n, IsProgram(fn[j]) PROVE \E k \in T : StartsNss(t[k]) /\ g[k] = j
    OBVIOUS
  <2>1. e(j) - 1 \in 1 .. Len(ss[j]) /\ StartsNss(ss[j][e(j) - 1])
    BY <1>8 DEF e
  <2>2. PICK k \in T : p[k] = <<j, e(j) - 1>>
    BY <1>5, <2>1
  <2>3. p[k][1] = j /\ p[k][2] = e(j) - 1
    BY <2>2
  <2> QED BY <1>5, <1>6, <2>1, <2>3
<1>11. ASSUME NEW k \in T, NEW l \in T, StartsNss(t[k]), StartsNss(t[l])
       PROVE  k < l <=> g[k] < g[l]
  <2>1. p[k] = <<g[k], e(g[k]) - 1>> /\ p[l] = <<g[l], e(g[l]) - 1>>
    BY <1>9, <1>11
  <2>2. g[k] \in Nat /\ g[l] \in Nat
    BY <1>1, <1>6
  <2>3. e(g[k]) \in Nat /\ e(g[l]) \in Nat /\ (g[k] = g[l] => ~(e(g[k]) - 1 < e(g[l]) - 1))
    BY <1>6, <1>8, <1>9, <1>11
  <2>4. Earlier(p[k], p[l]) <=> g[k] < g[l]
    BY <2>1, <2>2, <2>3 DEF Earlier
  <2> QED BY <1>5, <2>4
<1>12. ASSUME NEW k \in T, StartsNss(t[k])
       PROVE  k + 1 \in T /\ t[k + 1].k = "wait" /\ t[k + 1].ex = "nss"
  <2> DEFINE j == g[k]
             m == e(j)
  <2>1. /\ j \in 1 .. n /\ j \in Nat /\ m \in Nat /\ m \in 1 .. Len(ss[j]) /\ p[k] = <<j, m - 1>>
        /\ ss[j][m].k = "wait" /\ ss[j][m].ex = "nss"
    <3>1. IsProgram(fn[j]) /\ p[k] = <<j, m - 1>> /\ j \in 1 .. n
      BY <1>6, <1>9, <1>12
    <3>2. m \in Nat /\ m \in 1 .. Len(ss[j]) /\ ss[j][m].k = "wait" /\ ss[j][m].ex = "nss"
      BY <1>8, <3>1 DEF e
    <3>3. j \in Nat
      BY <1>1, <3>1
    <3> QED BY <3>1, <3>2, <3>3
  <2> HIDE DEF j, m
  <2>2. PICK w \in T : p[w] = <<j, m>>
    BY <1>5, <2>1
  <2>3. t[w].k = "wait" /\ t[w].ex = "nss"
    <3>1. p[w][1] = j /\ p[w][2] = m
      BY <2>2
    <3> QED BY <1>5, <2>1, <3>1
  <2>4. k < w
    <3>1. Earlier(p[k], p[w])
      BY <2>1, <2>2 DEF Earlier
    <3> QED BY <1>5, <3>1
  <2>5. k + 1 \in T /\ k \in Nat /\ w \in Nat
    <3>1. w <= Len(t) /\ k \in Nat /\ w \in Nat /\ Len(t) \in Nat
      BY <1>7 DEF T
    <3> QED BY <1>7, <2>4, <3>1
  <2>6. ~(k + 1 < w)
    <3> SUFFICES ASSUME k + 1 < w PROVE FALSE
      OBVIOUS
    <3> DEFINE y == p[k + 1]
    <3>1. Earlier(p[k], y) /\ Earlier(y, p[w])
      <4>1. k < k + 1
        BY <2>5
      <4> QED BY <1>5, <2>5, <4>1
    <3>2. y[1] \in Int /\ y[2] \in Int
      <4>1. y[1] \in 1 .. n /\ y[2] \in 1 .. Len(ss[y[1]])
        BY <1>5, <2>5
      <4> QED BY <4>1
    <3>3. p[k][1] = j /\ p[k][2] = m - 1 /\ p[w][1] = j /\ p[w][2] = m
      BY <2>1, <2>2
    <3> HIDE DEF y
    <3> QED BY <2>1, <3>1, <3>2, <3>3 DEF Earlier
  <2>7. w = k + 1
    BY <2>4, <2>5, <2>6
  <2> QED BY <2>3, <2>5, <2>7
<1>13. StartsAt(fn, t, g)
  BY <1>6, <1>9, <1>10, <1>11, <1>12 DEF StartsAt, T, n
<1>14. ASSUME NEW k \in T
       PROVE  IF IsProgram(fn[g[k]]) THEN Bare(t[k]) ELSE t[k] = fn[g[k]] /\ p[k] = <<g[k], 1>>
  <2> DEFINE j == p[k][1]
             i == p[k][2]
  <2>1. g[k] = j /\ j \in 1 .. n /\ i \in 1 .. Len(ss[j]) /\ p[k] = <<j, i>> /\ t[k] = ss[j][i]
    BY <1>5, <1>6
  <2> HIDE DEF i, j
  <2>2. CASE IsProgram(fn[j])
    <3> DEFINE o == ss[j]
    <3>1. StartAndWait(o, fn[j].inv) /\ i \in 1 .. Len(o) /\ t[k] = o[i]
      BY <1>1, <2>1, <2>2
    <3> HIDE DEF o
    <3>2. Bare(o[i])
      BY <3>1 DEF StartAndWait
    <3> QED BY <2>1, <2>2, <3>1, <3>2
  <2>3. CASE ~IsProgram(fn[j])
    <3>1. ss[j] = <<fn[j]>>
      BY <1>1, <2>1, <2>3
    <3>2. i = 1
      BY <2>1, <3>1
    <3> QED BY <2>1, <2>3, <3>1, <3>2
  <2> QED BY <2>2, <2>3
<1>15. \A j \in 1 .. n : \E k \in T : g[k] = j /\ Anchor(fn, t, g, k)
  <2> TAKE j \in 1 .. n
  <2>1. CASE IsProgram(fn[j])
    BY <1>10, <2>1 DEF Anchor
  <2>2. CASE ~IsProgram(fn[j])
    <3>1. ss[j] = <<fn[j]>>
      BY <1>1, <2>2
    <3>2. 1 \in 1 .. Len(ss[j])
      BY <3>1
    <3>3. PICK k \in T : p[k] = <<j, 1>>
      BY <1>5, <3>2
    <3>4. g[k] = j
      <4>1. p[k][1] = j
        BY <3>3
      <4> QED BY <1>6, <4>1
    <3> QED BY <2>2, <3>4 DEF Anchor
  <2> QED BY <2>1, <2>2
<1> DEFINE a(j) == IF IsProgram(fn[j]) THEN e(j) - 1 ELSE 1
<1>16. ASSUME NEW k \in T, Anchor(fn, t, g, k)
       PROVE  p[k] = <<g[k], a(g[k])>> /\ a(g[k]) \in Int /\ g[k] \in Nat
  <2>1. g[k] \in 1 .. n /\ g[k] \in Nat
    BY <1>1, <1>6
  <2>2. CASE IsProgram(fn[g[k]])
    <3>1. p[k] = <<g[k], e(g[k]) - 1>>
      BY <1>9, <1>16, <2>2 DEF Anchor
    <3>2. e(g[k]) - 1 \in Int
      BY <1>8, <2>1, <2>2
    <3> QED BY <2>1, <2>2, <3>1, <3>2
  <2>3. CASE ~IsProgram(fn[g[k]])
    BY <1>14, <2>1, <2>3
  <2> QED BY <2>2, <2>3
<1> HIDE DEF a
<1>17. ASSUME NEW k \in T, NEW l \in T, Anchor(fn, t, g, k), Anchor(fn, t, g, l)
       PROVE  k < l <=> g[k] < g[l]
  <2>1. /\ p[k] = <<g[k], a(g[k])>> /\ a(g[k]) \in Int /\ g[k] \in Nat
        /\ p[l] = <<g[l], a(g[l])>> /\ a(g[l]) \in Int /\ g[l] \in Nat
    BY <1>16, <1>17
  <2>2. g[k] = g[l] => ~(a(g[k]) < a(g[l]))
    BY <2>1
  <2>3. Earlier(p[k], p[l]) <=> g[k] < g[l]
    BY <2>1, <2>2 DEF Earlier
  <2> QED BY <1>5, <2>3
<1>18. AnchoredAt(fn, t, g)
  BY <1>6, <1>14, <1>15, <1>17 DEF AnchoredAt, T, n
<1> QED BY <1>2, <1>13, <1>18 DEF t

(* The order of places is asymmetric. *)
LEMMA EarlierOne ==
  ASSUME NEW x, NEW y, x[1] \in Int, x[2] \in Int, y[1] \in Int, y[2] \in Int
  PROVE  Earlier(x, y) => ~Earlier(y, x) /\ x # y
PROOF BY DEF Earlier

(* The tasks of the run are spaced as the operations of the function were.  *)
LEMMA OutlinedSpaces ==
  ASSUME NEW fn, NEW pr, Divided(fn, pr), NEW s, NEW ids, Spaced(s, ids), Len(s) \in Nat,
         NEW c, Spread(fn, pr, s, Len(s), c),
         NEW t, NEW g, StartsAt(fn, t, g), t \in Seq(SomeOp), NEW pm, Extended(pr, pm)
  PROVE  StepsSpaced(t, pm, ids)
PROOF
<1> DEFINE m == Len(s)
           T == 1 .. Len(t)
           Spot(x) == <<g[x[1]], x[2]>>
<1>1. /\ fn \in Seq(SomeOp) /\ pr \in Seq(Seq(SomeOp)) /\ pm \in Seq(Seq(SomeOp)) /\ Len(pm) = Len(pr)
      /\ \A j \in 1 .. Len(fn) : IsProgram(fn[j]) => fn[j].inv \in 0 .. Len(pr) - 1 /\ fn[j].inv + 1 \in 1 .. Len(pr)
      /\ \A j \in 1 .. Len(fn) : ~IsProgram(fn[j]) => ~IsNssOperation(fn[j])
      /\ \A q \in 1 .. Len(pr) : \A i \in 1 .. Len(pr[q]) : IsNssOperation(pr[q][i]) /\ Lower(pr[q][i])
  <2>1. /\ fn \in Seq(SomeOp) /\ pr \in Seq(Seq(SomeOp))
        /\ \A j \in 1 .. Len(fn) : IsProgram(fn[j]) => fn[j].inv \in 0 .. Len(pr) - 1
        /\ \A j \in 1 .. Len(fn) : ~IsProgram(fn[j]) => ~IsNssOperation(fn[j])
        /\ \A q \in 1 .. Len(pr) : \A i \in 1 .. Len(pr[q]) : IsNssOperation(pr[q][i]) /\ Lower(pr[q][i])
    BY DEF Divided
  <2>2. \A i \in 0 .. Len(pr) - 1 : i + 1 \in 1 .. Len(pr)
    BY <2>1
  <2> QED BY <2>1, <2>2 DEF Extended
<1>2. /\ \A k \in T : StartsNss(t[k]) =>
            g[k] \in 1 .. Len(fn) /\ IsProgram(fn[g[k]]) /\ t[k].inv.id[1] = fn[g[k]].inv
      /\ \A k, l \in T : StartsNss(t[k]) /\ StartsNss(t[l]) => (k < l <=> g[k] < g[l])
      /\ \A j \in 1 .. Len(fn) : IsProgram(fn[j]) => \E k \in T : StartsNss(t[k]) /\ g[k] = j
  BY DEF StartsAt
<1>3. \A q \in 1 .. Len(pr) :
         /\ \A i \in 1 .. Len(pr[q]) : i \in 1 .. Len(pm[q]) /\ pm[q][i] = pr[q][i]
         /\ \A i \in 1 .. Len(pm[q]) : IsTask(pm[q][i]) => i \in 1 .. Len(pr[q])
  BY DEF Extended
<1>4. /\ \A b \in 1 .. m : c[b] \in Spots(fn, pr) /\ AtSpot(fn, pr, c[b]) = s[b]
      /\ \A a, b \in 1 .. m : a < b => Earlier(c[a], c[b])
      /\ \A x \in Spots(fn, pr) : \E b \in 1 .. m : c[b] = x
  BY DEF Spread
<1>5. \A x \in Spots(fn, pr) : x[1] \in Int /\ x[2] \in Int /\ x = <<x[1], x[2]>>
  BY SpotOf
<1>6. \A a, b \in 1 .. m : Earlier(c[a], c[b]) => a < b
  <2> SUFFICES ASSUME NEW a \in 1 .. m, NEW b \in 1 .. m, Earlier(c[a], c[b]), ~(a < b) PROVE FALSE
    OBVIOUS
  <2>1. a \in Int /\ b \in Int
    OBVIOUS
  <2>2. c[a][1] \in Int /\ c[a][2] \in Int /\ c[b][1] \in Int /\ c[b][2] \in Int
    BY <1>4, <1>5
  <2>3. ~Earlier(c[b], c[a]) /\ c[a] # c[b]
    BY <2>2, EarlierOne
  <2>4. ~(b < a) /\ a # b
    BY <1>4, <2>3
  <2> QED BY <2>1, <2>4
<1> HIDE DEF m, T
(* Where a start or a wait of the run is in the programs. *)
<1>7. ASSUME NEW x \in NssSteps(t, pm), IsTask(NssStep(t, pm, x))
      PROVE  /\ Spot(x) \in Spots(fn, pr) /\ AtSpot(fn, pr, Spot(x)) = NssStep(t, pm, x)
             /\ x[1] \in T /\ x[2] \in Nat /\ StartsNss(t[x[1]])
             /\ ByNss(NssStep(t, pm, x))
  <2> DEFINE k == x[1]
             j == x[2]
             q == fn[g[k]].inv
             o == NssStep(t, pm, x)
  <2>1. /\ k \in T /\ j \in Nat /\ StartsNss(t[k]) /\ j \in 1 .. Len(ProgramOf(t, pm, k))
        /\ o = ProgramOf(t, pm, k)[j]
    BY DEF NssSteps, NssStep, T
  <2>2. g[k] \in 1 .. Len(fn) /\ IsProgram(fn[g[k]]) /\ t[k].inv.id[1] = q /\ q + 1 \in 1 .. Len(pr)
    BY <1>1, <1>2, <2>1
  <2>3. ProgramOf(t, pm, k) = pm[q + 1]
    BY <2>2 DEF ProgramOf
  <2> HIDE DEF q, k, j, o
  <2>4. j \in 1 .. Len(pr[q + 1]) /\ pm[q + 1][j] = pr[q + 1][j] /\ o = pr[q + 1][j]
    BY <1>3, <1>7, <2>1, <2>2, <2>3 DEF o
  <2>5. j # 0
    BY <2>4
  <2>6. <<g[k], j>> \in Spots(fn, pr) /\ AtSpot(fn, pr, <<g[k], j>>) = o
    BY <2>1, <2>2, <2>4, <2>5 DEF Spots, AtSpot, q
  <2>7. ByNss(o)
    <3>1. IsNssOperation(o) /\ IsTask(o)
      BY <1>1, <1>7, <2>2, <2>4 DEF o
    <3> QED BY <3>1 DEF IsNssOperation, IsTask, ByNss
  <2> QED BY <2>1, <2>6, <2>7 DEF k, j, o
<1>8. ASSUME NEW x \in NssSteps(t, pm), NEW y \in NssSteps(t, pm)
      PROVE  Earlier(x, y) <=> Earlier(Spot(x), Spot(y))
  <2> DEFINE k == x[1]
             l == y[1]
  <2>1. k \in T /\ l \in T /\ StartsNss(t[k]) /\ StartsNss(t[l])
    BY DEF NssSteps, T
  <2>2. g[k] \in 1 .. Len(fn) /\ g[l] \in 1 .. Len(fn)
    BY <1>2, <2>1
  <2>3. (k < l <=> g[k] < g[l]) /\ (l < k <=> g[l] < g[k])
    BY <1>2, <2>1
  <2>4. k \in Int /\ l \in Int /\ g[k] \in Int /\ g[l] \in Int
    BY <2>1, <2>2 DEF T
  <2>5. Spot(x)[1] = g[k] /\ Spot(y)[1] = g[l] /\ Spot(x)[2] = x[2] /\ Spot(y)[2] = y[2]
    OBVIOUS
  <2>6. k = l <=> g[k] = g[l]
    <3> HIDE DEF k, l
    <3> QED BY <2>3, <2>4
  <2> HIDE DEF Spot
  <2> QED BY <2>3, <2>5, <2>6 DEF Earlier
<1>9. ASSUME NEW x \in Spots(fn, pr), IsNssOperation(AtSpot(fn, pr, x))
      PROVE  \E z \in NssSteps(t, pm) : Spot(z) = x /\ NssStep(t, pm, z) = AtSpot(fn, pr, x)
  <2> DEFINE j == x[1]
             i == x[2]
             q == fn[j].inv
  <2>1. /\ j \in 1 .. Len(fn) /\ i \in Nat /\ x = <<j, i>>
        /\ IsProgram(fn[j]) => i \in 1 .. Len(pr[q + 1])
        /\ ~IsProgram(fn[j]) => i = 0
    BY SpotOf
  <2>2. IsProgram(fn[j])
    <3> SUFFICES ASSUME ~IsProgram(fn[j]) PROVE FALSE
      OBVIOUS
    <3>1. AtSpot(fn, pr, x) = fn[j]
      BY <2>1 DEF AtSpot
    <3> QED BY <1>1, <1>9, <2>1, <3>1
  <2>3. i \in 1 .. Len(pr[q + 1]) /\ i # 0 /\ q + 1 \in 1 .. Len(pr)
    BY <1>1, <2>1, <2>2
  <2>4. AtSpot(fn, pr, x) = pr[q + 1][i] /\ pm[q + 1][i] = pr[q + 1][i] /\ i \in 1 .. Len(pm[q + 1])
    BY <1>3, <2>3 DEF AtSpot
  <2>5. PICK k \in T : StartsNss(t[k]) /\ g[k] = j
    BY <1>2, <2>1, <2>2
  <2>6. ProgramOf(t, pm, k) = pm[q + 1]
    <3>1. t[k].inv.id[1] = q
      BY <1>2, <2>5
    <3> QED BY <3>1 DEF ProgramOf
  <2> HIDE DEF j, i, q
  <2> DEFINE z == <<k, i>>
  <2>7. z \in NssSteps(t, pm) /\ Spot(z) = x /\ NssStep(t, pm, z) = AtSpot(fn, pr, x)
    BY <2>1, <2>4, <2>5, <2>6 DEF NssSteps, NssStep, T
  <2> QED BY <2>7
<1>10. ASSUME NEW x \in NssSteps(t, pm), NEW y \in NssSteps(t, pm), Earlier(x, y),
              NssStep(t, pm, x).k = "start", NssStep(t, pm, y).k = "start",
              On(NssStep(t, pm, x), ids) = On(NssStep(t, pm, y), ids)
       PROVE  \E z \in NssSteps(t, pm) :
                /\ Earlier(x, z) /\ Earlier(z, y) /\ NssStep(t, pm, z).k = "wait"
                /\ On(NssStep(t, pm, z), ids) = On(NssStep(t, pm, x), ids)
  <2>1. IsTask(NssStep(t, pm, x)) /\ IsTask(NssStep(t, pm, y))
    BY <1>10 DEF IsTask
  <2>2. /\ Spot(x) \in Spots(fn, pr) /\ AtSpot(fn, pr, Spot(x)) = NssStep(t, pm, x)
        /\ Spot(y) \in Spots(fn, pr) /\ AtSpot(fn, pr, Spot(y)) = NssStep(t, pm, y)
        /\ ByNss(NssStep(t, pm, x))
    BY <1>7, <2>1
  <2>3. Earlier(Spot(x), Spot(y))
    BY <1>8, <1>10
  <2> HIDE DEF Spot
  <2>4. PICK a \in 1 .. m : c[a] = Spot(x)
    BY <1>4, <2>2
  <2>5. PICK b \in 1 .. m : c[b] = Spot(y)
    BY <1>4, <2>2
  <2>6. a < b /\ s[a] = NssStep(t, pm, x) /\ s[b] = NssStep(t, pm, y)
    BY <1>4, <1>6, <2>2, <2>3, <2>4, <2>5
  <2>7. PICK w \in 1 .. m : /\ a < w /\ w < b /\ s[w].k = "wait" /\ ByNss(s[w])
                            /\ On(s[w], ids) = On(s[a], ids)
    BY <1>10, <2>2, <2>6 DEF Spaced, m
  <2>8. c[w] \in Spots(fn, pr) /\ AtSpot(fn, pr, c[w]) = s[w] /\ IsNssOperation(s[w])
    BY <1>4, <2>7 DEF IsNssOperation, ByNss
  <2>9. PICK z \in NssSteps(t, pm) : Spot(z) = c[w] /\ NssStep(t, pm, z) = s[w]
    BY <1>9, <2>8
  <2>10. Earlier(Spot(x), Spot(z)) /\ Earlier(Spot(z), Spot(y))
    BY <1>4, <2>4, <2>5, <2>7, <2>9
  <2>11. Earlier(x, z) /\ Earlier(z, y)
    BY <1>8, <2>10
  <2> QED BY <2>6, <2>7, <2>9, <2>11
<1> QED BY <1>10 DEF StepsSpaced

(* The load of the next program comes after the operations of a          *)
(* program.                                                              *)
LEMMA NextLoadExtends ==
  ASSUME NEW pr, pr \in Seq(Seq(SomeOp))
  PROVE  Extended(pr, WithNextLoad(pr))
PROOF
<1> DEFINE n == Len(pr)
           L(j) == IF j < n THEN <<Use("load", <<Area(j), NssSection(j)>>)>> ELSE << >>
           pm == [j \in 1 .. n |-> pr[j] \o L(j)]
<1>1. n \in Nat /\ DOMAIN pr = 1 .. n /\ \A j \in 1 .. n : pr[j] \in Seq(SomeOp)
  <2> HIDE DEF SomeOp
  <2> QED OBVIOUS
<1>2. WithNextLoad(pr) = pm
  BY <1>1 DEF WithNextLoad
<1>3. \A j \in 1 .. n : /\ L(j) \in Seq(SomeOp) /\ Len(L(j)) \in Nat
                        /\ \A i \in 1 .. Len(L(j)) : ~IsTask(L(j)[i]) /\ Bare(L(j)[i])
  <2> SUFFICES ASSUME NEW j \in 1 .. n
               PROVE  /\ L(j) \in Seq(SomeOp) /\ Len(L(j)) \in Nat
                      /\ \A i \in 1 .. Len(L(j)) : ~IsTask(L(j)[i]) /\ Bare(L(j)[i])
    OBVIOUS
  <2> DEFINE a == Area(j)
             x == NssSection(j)
             o == Use("load", <<a, x>>)
  <2>1. NoVal \in Value
    BY DEF NoVal, Val, Value, Ids, Names, Spaces
  <2>2. a \in Value /\ x \in Value
    <3>1. j \in Nat
      OBVIOUS
    <3> QED BY <3>1, NssValues
  <2>7. Bare(o)
    <3>1. Operands(o) = {a, x} /\ o.k = "load"
      BY UseOperands
    <3>2. ~Pooled(a) /\ ~Pooled(x)
      BY DEF Pooled, NssSection, Area, Val
    <3> QED BY <3>1, <3>2 DEF Bare
  <2> HIDE DEF a, x, Value, NoVal
  <2>3. o \in SomeOp /\ ~IsTask(o)
    BY <2>1, <2>2 DEF Use, Op, SomeOp, IsTask
  <2>4. L(j) = <<o>> \/ L(j) = << >>
    BY DEF a, x
  <2> HIDE DEF o, L, SomeOp
  <2>5. CASE L(j) = <<o>>
    <3>1. <<o>> \in Seq(SomeOp) /\ Len(<<o>>) = 1 /\ <<o>>[1] = o /\ \A i \in 1 .. 1 : i = 1
      BY <2>3
    <3> QED BY <2>3, <2>5, <2>7, <3>1
  <2>6. CASE L(j) = << >>
    BY <2>6
  <2> QED BY <2>4, <2>5, <2>6
<1> HIDE DEF L, n
<1>4. ASSUME NEW q \in 1 .. n
      PROVE  /\ pm[q] \in Seq(SomeOp)
             /\ \A i \in 1 .. Len(pr[q]) : i \in 1 .. Len(pm[q]) /\ pm[q][i] = pr[q][i]
             /\ \A i \in 1 .. Len(pm[q]) : IsTask(pm[q][i]) \/ ~Bare(pm[q][i]) => i \in 1 .. Len(pr[q])
  <2> DEFINE a == pr[q]
             b == L(q)
             ab == a \o b
  <2>1. /\ a \in Seq(SomeOp) /\ b \in Seq(SomeOp) /\ Len(a) \in Nat /\ Len(b) \in Nat
        /\ \A i \in 1 .. Len(b) : ~IsTask(b[i]) /\ Bare(b[i])
    <3>1. a \in Seq(SomeOp)
      BY <1>1
    <3>2. Len(a) \in Nat
      BY <3>1
    <3> QED BY <1>3, <3>1, <3>2
  <2>2. pm[q] = ab
    OBVIOUS
  <2> HIDE DEF a, b, SomeOp
  <2>3. /\ ab \in Seq(SomeOp) /\ Len(ab) = Len(a) + Len(b)
        /\ \A k \in 1 .. Len(a) + Len(b) : ab[k] = IF k <= Len(a) THEN a[k] ELSE b[k - Len(a)]
    BY <2>1, ConcatProperties
  <2> HIDE DEF ab, pm
  <2>4. \A i \in 1 .. Len(a) : i \in 1 .. Len(a) + Len(b) /\ i <= Len(a)
    BY <2>1
  <2>5. \A i \in 1 .. Len(a) + Len(b) :
           i \in 1 .. Len(a) \/ (~(i <= Len(a)) /\ i - Len(a) \in 1 .. Len(b))
    BY <2>1
  <2>6. /\ \A i \in 1 .. Len(a) : i \in 1 .. Len(ab) /\ ab[i] = a[i]
        /\ \A i \in 1 .. Len(ab) : IsTask(ab[i]) \/ ~Bare(ab[i]) => i \in 1 .. Len(a)
    BY <2>1, <2>3, <2>4, <2>5
  <2> QED BY <2>2, <2>3, <2>6 DEF a
<1>5. pm \in Seq(Seq(SomeOp)) /\ Len(pm) = n
  <2>1. pm \in [1 .. n -> Seq(SomeOp)]
    BY <1>4
  <2> HIDE DEF pm, SomeOp
  <2> QED BY <1>1, <2>1
<1> HIDE DEF pm
<1> QED BY <1>2, <1>4, <1>5 DEF Extended, n

(* What OutlineNSSProgramsPass makes of the function: the operations in  *)
(* order in the function and the programs, the starts and the loads of   *)
(* the programs around them.                                             *)
LEMMA OutlinesAs ==
  ASSUME Planned(ir, slice), OutlineNSSPrograms
  PROVE  \E fn, pr, c, g :
           /\ Divided(fn, pr) /\ Spread(fn, pr, ir, Len(ir), c)
           /\ ir' \in Seq(SomeOp) /\ StartsAt(fn, ir', g) /\ AnchoredAt(fn, ir', g)
           /\ Extended(pr, progs')
PROOF
<1> DEFINE fn == Found.function
           pr == Found.programs
           count == Len(pr)
           ss == [j \in DOMAIN fn |-> IF fn[j].k = "program" THEN OutlineOperations(fn[j].inv, count)
                                                             ELSE <<fn[j]>>]
           pm == WithNextLoad(pr)
           t == FlattenSeq(ss)
<1>1. ir' = t /\ progs' = pm
  BY DEF OutlineNSSPrograms
<1>2. Divided(fn, pr) /\ \E c : Spread(fn, pr, ir, Len(ir), c)
  BY FoundSpreads DEF FoundTo
<1>3. PICK c : Spread(fn, pr, ir, Len(ir), c)
  BY <1>2
<1> HIDE DEF fn, pr, pm, t
<1>4. /\ fn \in Seq(SomeOp) /\ pr \in Seq(Seq(SomeOp)) /\ count \in Nat
      /\ \A j \in 1 .. Len(fn) : IsProgram(fn[j]) => fn[j].inv \in Nat /\ fn[j].inv \in 0 .. count - 1
      /\ \A q \in 1 .. Len(pr) : \A i \in 1 .. Len(pr[q]) : IsNssOperation(pr[q][i])
  <2>1. /\ fn \in Seq(SomeOp) /\ pr \in Seq(Seq(SomeOp))
        /\ \A j \in 1 .. Len(fn) : IsProgram(fn[j]) => fn[j].inv \in 0 .. count - 1
        /\ \A q \in 1 .. Len(pr) : \A i \in 1 .. Len(pr[q]) : IsNssOperation(pr[q][i])
    BY <1>2 DEF Divided
  <2>2. count \in Nat
    BY <2>1
  <2>3. \A i \in 0 .. count - 1 : i \in Nat
    OBVIOUS
  <2> HIDE DEF count
  <2> QED BY <2>1, <2>2, <2>3
<1>5. Replaced(fn, ss)
  <2>1. \A j \in 1 .. Len(fn) : IF IsProgram(fn[j]) THEN StartAndWait(ss[j], fn[j].inv) ELSE ss[j] = <<fn[j]>>
    <3> TAKE j \in 1 .. Len(fn)
    <3>1. CASE IsProgram(fn[j])
      <4>1. ss[j] = OutlineOperations(fn[j].inv, count)
        BY <3>1 DEF IsProgram
      <4> HIDE DEF ss, count
      <4>2. fn[j].inv \in Nat
        BY <1>4, <3>1
      <4>3. StartAndWait(OutlineOperations(fn[j].inv, count), fn[j].inv)
        BY <1>4, <4>2, OutlineOperationsAre
      <4> QED BY <3>1, <4>1, <4>3
    <3>2. CASE ~IsProgram(fn[j])
      BY <3>2 DEF IsProgram
    <3> QED BY <3>1, <3>2
  <2>2. \A j \in 1 .. Len(fn) : ss[j] \in Seq(SomeOp)
    <3> TAKE j \in 1 .. Len(fn)
    <3>1. fn[j] \in SomeOp
      BY <1>4, ElementOfSeq
    <3> HIDE DEF ss, SomeOp
    <3>2. CASE IsProgram(fn[j])
      BY <2>1, <3>2 DEF StartAndWait
    <3>3. CASE ~IsProgram(fn[j])
      <4>1. ss[j] = <<fn[j]>>
        BY <2>1, <3>3
      <4> QED BY <3>1, <4>1
    <3> QED BY <3>2, <3>3
  <2>3. ss \in Seq(Seq(SomeOp)) /\ Len(ss) = Len(fn)
    <3>1. DOMAIN fn = 1 .. Len(fn) /\ Len(fn) \in Nat
      BY <1>4
    <3>2. ss = [j \in 1 .. Len(fn) |-> ss[j]]
      BY <3>1
    <3> HIDE DEF ss, SomeOp
    <3>3. ss \in [1 .. Len(fn) -> Seq(SomeOp)]
      BY <2>2, <3>2
    <3> QED BY <3>1, <3>3
  <2> HIDE DEF ss
  <2> QED BY <2>1, <2>3 DEF Replaced
<1> HIDE DEF ss
<1>6. t \in Seq(SomeOp) /\ \E g : StartsAt(fn, t, g) /\ AnchoredAt(fn, t, g)
  BY <1>2, <1>5, ReplacedStarts DEF t
<1>7. PICK g : StartsAt(fn, t, g) /\ AnchoredAt(fn, t, g)
  BY <1>6
<1>8. Extended(pr, pm)
  BY <1>4, NextLoadExtends DEF pm
<1> QED BY <1>1, <1>2, <1>3, <1>6, <1>7, <1>8

(* OutlineNSSProgramsPass keeps the order of the tasks: along the        *)
(* programs in the order of their starts, a wait still stands between    *)
(* two starts on an executor.                                            *)
LEMMA OutlineProgramsKeeps ==
  ASSUME Planned(ir, slice), OutlineNSSPrograms
  PROVE  Outlined(ir', progs', slice)
PROOF
<1> DEFINE t == ir'
           pm == progs'
<1>1. PICK fn, pr, c, g :
        /\ Divided(fn, pr) /\ Spread(fn, pr, ir, Len(ir), c)
        /\ t \in Seq(SomeOp) /\ StartsAt(fn, t, g) /\ Extended(pr, pm)
  BY OutlinesAs
<1> DEFINE count == Len(pr)
<1> HIDE DEF t, pm
<1>4. /\ \A j \in 1 .. Len(fn) : IsProgram(fn[j]) => fn[j].inv \in 0 .. count - 1
      /\ \A q \in 1 .. Len(pr) : \A i \in 1 .. Len(pr[q]) : IsNssOperation(pr[q][i])
  BY <1>1 DEF Divided
<1>8. Extended(pr, pm)
  BY <1>1
<1>9. StepsSpaced(t, pm, slice)
  <2>1. Len(ir) \in Nat /\ Spaced(ir, slice)
    <3>1. ir \in Seq(SomeOp) /\ Spaced(ir, slice)
      BY DEF Planned, Shaped
    <3> QED BY <3>1
  <2> QED BY <1>1, <2>1, OutlinedSpaces
<1>10. StartsWaitedFor(t, pm)
  <2> SUFFICES ASSUME NEW i \in 1 .. Len(t), StartsNss(t[i])
               PROVE  /\ t[i].inv.id[1] \in 0 .. Len(pm) - 1
                      /\ i + 1 \in 1 .. Len(t) /\ t[i + 1].k = "wait" /\ t[i + 1].ex = "nss"
    BY DEF StartsWaitedFor
  <2>1. /\ g[i] \in 1 .. Len(fn) /\ IsProgram(fn[g[i]]) /\ t[i].inv.id[1] = fn[g[i]].inv
        /\ i + 1 \in 1 .. Len(t) /\ t[i + 1].k = "wait" /\ t[i + 1].ex = "nss"
    BY <1>1 DEF StartsAt
  <2>2. fn[g[i]].inv \in 0 .. count - 1 /\ Len(pm) = count
    BY <1>4, <1>8, <2>1 DEF Extended
  <2> HIDE DEF count
  <2> QED BY <2>1, <2>2
<1>11. \A q \in 1 .. Len(pm) : \A i \in 1 .. Len(pm[q]) : IsTask(pm[q][i]) => ByNss(pm[q][i])
  <2> SUFFICES ASSUME NEW q \in 1 .. Len(pm), NEW i \in 1 .. Len(pm[q]), IsTask(pm[q][i])
               PROVE  ByNss(pm[q][i])
    OBVIOUS
  <2>1. q \in 1 .. Len(pr) /\ i \in 1 .. Len(pr[q]) /\ pm[q][i] = pr[q][i]
    BY <1>8 DEF Extended
  <2>2. IsNssOperation(pm[q][i])
    BY <1>4, <2>1
  <2> QED BY <2>2 DEF IsNssOperation, IsTask, ByNss
<1>12. pm \in Seq(Seq(SomeOp))
  BY <1>8 DEF Extended
<1>13. Outlined(t, pm, slice)
  BY <1>1, <1>9, <1>10, <1>11, <1>12 DEF Outlined
<1> QED BY <1>13 DEF t, pm

-----------------------------------------------------------------------------
(* Serialize. *)
LEMMA SelectionOutlined ==
  ASSUME NEW h, NEW pr, NEW ids, Outlined(h, pr, ids), NEW B, B \subseteq 1 .. Len(h),
         \A i \in 1 .. Len(h) : IsTask(h[i]) => i \in B,
         NEW t \in Seq(SomeOp), NEW g, Picked(h, t, g, B)
  PROVE  Outlined(t, pr, ids)
PROOF
<1> DEFINE T == 1 .. Len(t)
           H == 1 .. Len(h)
           Same(x) == <<g[x[1]], x[2]>>
<1>1. /\ h \in Seq(SomeOp) /\ pr \in Seq(Seq(SomeOp))
      /\ StartsWaitedFor(h, pr) /\ StepsSpaced(h, pr, ids)
      /\ \A q \in 1 .. Len(pr) : \A i \in 1 .. Len(pr[q]) : IsTask(pr[q][i]) => ByNss(pr[q][i])
  BY DEF Outlined
<1>2. /\ \A k \in T : g[k] \in B /\ g[k] \in H /\ g[k] \in Int /\ t[k] = h[g[k]]
      /\ \A k, l \in T : k < l <=> g[k] < g[l]
      /\ \A i \in B : \E k \in T : g[k] = i
  <2>1. /\ g \in [T -> B]
        /\ \A k \in T : t[k] = h[g[k]]
        /\ \A k, l \in T : k < l <=> g[k] < g[l]
        /\ \A i \in B : \E k \in T : g[k] = i
    BY DEF Picked
  <2>2. \A i \in B : i \in H /\ i \in Int
    BY <1>1
  <2> HIDE DEF T, H
  <2> QED BY <2>1, <2>2
<1>3. Len(t) \in Nat /\ Len(h) \in Nat
  BY <1>1
<1>4. \A k, l \in T : g[k] = g[l] <=> k = l
  <2> SUFFICES ASSUME NEW k \in T, NEW l \in T, g[k] = g[l] PROVE k = l
    OBVIOUS
  <2>1. ~(k < l) /\ ~(l < k)
    BY <1>2
  <2> QED BY <2>1
<1> HIDE DEF T, H
<1>5. StartsWaitedFor(t, pr)
  <2> SUFFICES ASSUME NEW k \in T, StartsNss(t[k])
               PROVE  /\ t[k].inv.id[1] \in 0 .. Len(pr) - 1
                      /\ k + 1 \in T /\ t[k + 1].k = "wait" /\ t[k + 1].ex = "nss"
    BY DEF StartsWaitedFor, T
  <2>1. /\ h[g[k]].inv.id[1] \in 0 .. Len(pr) - 1
        /\ g[k] + 1 \in H /\ h[g[k] + 1].k = "wait" /\ h[g[k] + 1].ex = "nss"
    BY <1>1, <1>2 DEF StartsWaitedFor, H
  <2>2. g[k] + 1 \in B
    BY <2>1 DEF IsTask, H
  <2>3. PICK w \in T : g[w] = g[k] + 1
    BY <1>2, <2>2
  <2>4. k < w
    BY <1>2, <2>3
  <2>5. k + 1 \in T /\ k \in Int /\ w \in Int
    BY <1>3, <2>4 DEF T
  <2>6. ~(k + 1 < w)
    <3> SUFFICES ASSUME k + 1 < w PROVE FALSE
      OBVIOUS
    <3>1. k < k + 1
      BY <2>5
    <3>2. g[k] < g[k + 1] /\ g[k + 1] < g[w]
      BY <1>2, <2>5, <3>1
    <3>3. g[k] \in Int /\ g[k + 1] \in Int
      BY <1>2, <2>5
    <3> QED BY <2>3, <3>2, <3>3
  <2>7. w = k + 1
    BY <2>4, <2>5, <2>6
  <2> QED BY <1>2, <2>1, <2>3, <2>7
<1>6. ASSUME NEW x \in NssSteps(t, pr)
      PROVE  Same(x) \in NssSteps(h, pr) /\ NssStep(h, pr, Same(x)) = NssStep(t, pr, x) /\ x[1] \in T
  <2>1. x[1] \in T /\ x[2] \in Nat /\ StartsNss(t[x[1]]) /\ x[2] \in 1 .. Len(ProgramOf(t, pr, x[1]))
    BY DEF NssSteps, T
  <2>2. g[x[1]] \in 1 .. Len(h) /\ t[x[1]] = h[g[x[1]]]
    BY <1>2, <2>1 DEF H
  <2>3. ProgramOf(h, pr, g[x[1]]) = ProgramOf(t, pr, x[1])
    BY <2>2 DEF ProgramOf
  <2> QED BY <2>1, <2>2, <2>3 DEF NssSteps, NssStep
<1>7. ASSUME NEW x \in NssSteps(t, pr), NEW y \in NssSteps(t, pr)
      PROVE  Earlier(x, y) <=> Earlier(Same(x), Same(y))
  <2>1. x[1] \in T /\ y[1] \in T
    BY <1>6
  <2>2. (x[1] < y[1] <=> g[x[1]] < g[y[1]]) /\ (x[1] = y[1] <=> g[x[1]] = g[y[1]])
    BY <1>2, <1>4, <2>1
  <2> QED BY <2>2 DEF Earlier
<1>8. ASSUME NEW z \in NssSteps(h, pr)
      PROVE  \E y \in NssSteps(t, pr) : Same(y) = z
  <2>1. /\ z[1] \in 1 .. Len(h) /\ z[2] \in Nat /\ z = <<z[1], z[2]>>
        /\ StartsNss(h[z[1]]) /\ z[2] \in 1 .. Len(ProgramOf(h, pr, z[1]))
    BY DEF NssSteps
  <2>2. z[1] \in B
    BY <2>1 DEF StartsNss, IsTask
  <2>3. PICK k \in T : g[k] = z[1]
    BY <1>2, <2>2
  <2>4. t[k] = h[z[1]]
    BY <1>2, <2>3
  <2>5. ProgramOf(t, pr, k) = ProgramOf(h, pr, z[1])
    BY <2>4 DEF ProgramOf
  <2> DEFINE y == <<k, z[2]>>
  <2>6. y[1] = k /\ y[2] = z[2] /\ y \in (1 .. Len(t)) \X Nat
    BY <2>1 DEF T
  <2>7. y \in NssSteps(t, pr)
    BY <2>1, <2>4, <2>5, <2>6 DEF NssSteps
  <2> QED BY <2>1, <2>3, <2>6, <2>7
<1> HIDE DEF Same
<1>9. StepsSpaced(t, pr, ids)
  <2> SUFFICES ASSUME NEW x \in NssSteps(t, pr), NEW y \in NssSteps(t, pr), Earlier(x, y),
                      NssStep(t, pr, x).k = "start", NssStep(t, pr, y).k = "start",
                      On(NssStep(t, pr, x), ids) = On(NssStep(t, pr, y), ids)
               PROVE  \E z \in NssSteps(t, pr) :
                        /\ Earlier(x, z) /\ Earlier(z, y) /\ NssStep(t, pr, z).k = "wait"
                        /\ On(NssStep(t, pr, z), ids) = On(NssStep(t, pr, x), ids)
    BY DEF StepsSpaced
  <2>1. Earlier(Same(x), Same(y))
    BY <1>7
  <2>2. PICK w \in NssSteps(h, pr) :
                        /\ Earlier(Same(x), w) /\ Earlier(w, Same(y)) /\ NssStep(h, pr, w).k = "wait"
                        /\ On(NssStep(h, pr, w), ids) = On(NssStep(h, pr, Same(x)), ids)
    BY <1>1, <1>6, <2>1 DEF StepsSpaced
  <2>3. PICK z \in NssSteps(t, pr) : Same(z) = w
    BY <1>8
  <2> QED BY <1>6, <1>7, <2>2, <2>3
<1> QED BY <1>1, <1>5, <1>9 DEF Outlined

(* serializeFunction leaves out operations that do not run, and keeps    *)
(* the order of the others.                                              *)
LEMMA SerializeKeeps ==
  ASSUME Outlined(ir, progs, slice), Serialize
  PROVE  Outlined(ir', progs', slice')
PROOF
<1> DEFINE B == {i \in DOMAIN ir : ir[i].k \notin {"inv", "binding", "view"}}
           t == FlattenSeq([i \in DOMAIN ir |-> IF i \in B THEN <<ir[i]>> ELSE << >>])
<1>1. ir \in Seq(SomeOp) /\ DOMAIN ir = 1 .. Len(ir)
  <2>1. ir \in Seq(SomeOp)
    BY DEF Outlined
  <2> HIDE DEF SomeOp
  <2> QED BY <2>1
<1>2. ir' = FlattenSeq([i \in DOMAIN ir |-> IF ir[i].k \notin {"inv", "binding", "view"}
                                            THEN <<ir[i]>> ELSE << >>])
      /\ progs' = progs /\ slice' = slice
  BY DEF Serialize, Kept
<1>3. [i \in DOMAIN ir |-> IF i \in B THEN <<ir[i]>> ELSE << >>] =
      [i \in DOMAIN ir |-> IF ir[i].k \notin {"inv", "binding", "view"} THEN <<ir[i]>> ELSE << >>]
  OBVIOUS
<1>4. ir' = t
  BY <1>2, <1>3
<1>5. B \subseteq DOMAIN ir /\ \A i \in 1 .. Len(ir) : IsTask(ir[i]) => i \in B
  BY <1>1 DEF IsTask
<1> HIDE DEF B
<1>6. t \in Seq(SomeOp) /\ \E g : Picked(ir, t, g, B)
  BY <1>1, <1>5, Selected
<1> HIDE DEF t
<1>7. PICK g : Picked(ir, t, g, B)
  BY <1>6
<1>8. Outlined(t, progs, slice)
  BY <1>1, <1>5, <1>6, <1>7, SelectionOutlined
<1> QED BY <1>2, <1>4, <1>8

(* A task belongs to a program that a host action starts and the next    *)
(* one waits for.                                                        *)
LEMMA StepIs ==
  ASSUME Outlined(ir, progs, slice), NEW x \in NssSteps(ir, progs)
  PROVE  /\ x[1] \in 1 .. Len(ir) /\ x[1] \in Int /\ x[2] \in Nat /\ x[2] > 0 /\ x = <<x[1], x[2]>>
         /\ StartsNss(ir[x[1]]) /\ x[2] \in 1 .. Len(progs[ir[x[1]].inv.id[1] + 1])
         /\ x[1] + 1 \in 1 .. Len(ir)
         /\ ir[x[1] + 1].k = "wait" /\ ir[x[1] + 1].ex = "nss"
         /\ NssStep(ir, progs, x) = progs[ir[x[1]].inv.id[1] + 1][x[2]]
PROOF
<1>1. /\ x[1] \in 1 .. Len(ir) /\ x[2] \in Nat /\ x = <<x[1], x[2]>>
      /\ StartsNss(ir[x[1]]) /\ x[2] \in 1 .. Len(progs[ir[x[1]].inv.id[1] + 1])
  BY DEF NssSteps, ProgramOf
<1>2. StartsWaitedFor(ir, progs)
  BY DEF Outlined
<1>3. /\ x[1] + 1 \in 1 .. Len(ir)
      /\ ir[x[1] + 1].k = "wait" /\ ir[x[1] + 1].ex = "nss"
  BY <1>1, <1>2 DEF StartsWaitedFor
<1>4. x[1] \in Int /\ x[2] > 0
  BY <1>1
<1> QED BY <1>1, <1>3, <1>4 DEF NssStep, ProgramOf

(* Two invocations that fly are on two executors. *)
LEMMA FlyApart ==
  ASSUME Outlined(ir, progs, slice), RunInv
  PROVE  ExecutorIsIdle
PROOF
<1> SUFFICES ASSUME NEW o \in flying, NEW q \in flying, o # q, On(o, slice) = On(q, slice)
             PROVE  FALSE
  BY DEF ExecutorIsIdle, Executor, On
<1> DEFINE S == NssSteps(ir, progs)
           At2(x) == NssStep(ir, progs, x)
<1>1. Flies(o) /\ Flies(q)
  BY DEF RunInv
<1>2. PICK x \in S : /\ HasRun(x) /\ At2(x) = o /\ o.k = "start"
                     /\ \A z \in S : HasRun(z) /\ Earlier(x, z) /\ At2(z).k = "wait" =>
                                       On(At2(z), slice) # On(o, slice)
  BY <1>1 DEF Flies
<1>3. PICK y \in S : /\ HasRun(y) /\ At2(y) = q /\ q.k = "start"
                     /\ \A z \in S : HasRun(z) /\ Earlier(y, z) /\ At2(z).k = "wait" =>
                                       On(At2(z), slice) # On(q, slice)
  BY <1>1 DEF Flies
<1>4. \A z \in S : z[1] \in Int /\ z[2] \in Int /\ z = <<z[1], z[2]>>
  BY StepIs
<1>5. \A a, b \in S : Earlier(a, b) /\ HasRun(b) => HasRun(a)
  <2> SUFFICES ASSUME NEW a \in S, NEW b \in S, Earlier(a, b), HasRun(b) PROVE HasRun(a)
    OBVIOUS
  <2>1. a[1] \in Int /\ a[2] \in Int /\ b[1] \in Int /\ b[2] \in Int
    BY <1>4
  <2>2. hpc \in Nat /\ nss.pc \in Nat
    BY DEF RunInv, NssAtStart
  <2> QED BY <2>1, <2>2 DEF Earlier, HasRun
<1>6. \A a, b \in S :
        /\ Earlier(a, b) /\ At2(a).k = "start" /\ At2(b).k = "start" /\ On(At2(a), slice) = On(At2(b), slice)
        => \E z \in S : /\ Earlier(a, z) /\ Earlier(z, b) /\ At2(z).k = "wait"
                        /\ On(At2(z), slice) = On(At2(a), slice)
  BY DEF Outlined, StepsSpaced
<1>7. Earlier(x, y) \/ Earlier(y, x) \/ x = y
  BY <1>4 DEF Earlier
<1> HIDE DEF S, At2
<1>8. CASE Earlier(x, y)
  <2>1. PICK z \in S : /\ Earlier(x, z) /\ Earlier(z, y) /\ At2(z).k = "wait"
                       /\ On(At2(z), slice) = On(At2(x), slice)
    BY <1>2, <1>3, <1>6, <1>8
  <2>2. HasRun(z)
    BY <1>3, <1>5, <2>1
  <2> QED BY <1>2, <2>1, <2>2
<1>9. CASE Earlier(y, x)
  <2>1. PICK z \in S : /\ Earlier(y, z) /\ Earlier(z, x) /\ At2(z).k = "wait"
                       /\ On(At2(z), slice) = On(At2(y), slice)
    BY <1>2, <1>3, <1>6, <1>9
  <2>2. HasRun(z)
    BY <1>2, <1>5, <2>1
  <2> QED BY <1>3, <2>1, <2>2
<1> QED BY <1>2, <1>3, <1>7, <1>8, <1>9

(* An invocation goes on flying while no wait for its executor is done. *)
LEMMA FliesOn ==
  ASSUME NEW op, Flies(op), UNCHANGED <<ir, progs, slice>>,
         \A x \in NssSteps(ir, progs) : HasRun(x) => HasRun(x)',
         \A z \in NssSteps(ir, progs) :
           HasRun(z)' /\ ~HasRun(z) /\ NssStep(ir, progs, z).k = "wait" =>
             On(NssStep(ir, progs, z), slice) # On(op, slice)
  PROVE  Flies(op)'
PROOF
<1>1. PICK x \in NssSteps(ir, progs) :
        /\ HasRun(x) /\ NssStep(ir, progs, x) = op /\ op.k = "start"
        /\ \A z \in NssSteps(ir, progs) :
             HasRun(z) /\ Earlier(x, z) /\ NssStep(ir, progs, z).k = "wait" =>
               On(NssStep(ir, progs, z), slice) # On(op, slice)
  BY DEF Flies
<1>2. \A z \in NssSteps(ir, progs) :
             HasRun(z)' /\ Earlier(x, z) /\ NssStep(ir, progs, z).k = "wait" =>
               On(NssStep(ir, progs, z), slice) # On(op, slice)
  BY <1>1
<1>3. HasRun(x)'
  BY <1>1
<1> HIDE DEF HasRun, NssSteps, NssStep, On
<1>4. ir' = ir /\ progs' = progs /\ slice' = slice
  OBVIOUS
<1> QED BY <1>1, <1>2, <1>3, <1>4 DEF Flies

(* The NSS runs while the host waits for it. *)
LEMMA HostWaits ==
  ASSUME Outlined(ir, progs, slice), NssAtStart, Running
  PROVE  hpc \in 1 .. Len(ir) /\ HostOp.k = "wait" /\ HostOp.ex = "nss"
PROOF
<1>1. hpc \in Nat /\ hpc - 1 \in 1 .. Len(ir) /\ StartsNss(ir[hpc - 1]) /\ (hpc - 1) + 1 = hpc
  BY DEF NssAtStart
<1>2. StartsWaitedFor(ir, progs)
  BY DEF Outlined
<1>3. /\ (hpc - 1) + 1 \in 1 .. Len(ir)
      /\ ir[(hpc - 1) + 1].k = "wait" /\ ir[(hpc - 1) + 1].ex = "nss"
  BY <1>1, <1>2 DEF StartsWaitedFor
<1> QED BY <1>1, <1>3 DEF HostOp

(* A step that does no task leaves the invocations that fly as they      *)
(* are.                                                                  *)
LEMMA SomeFly ==
  ASSUME RunInv, RunKeeps,
         \A op \in flying' : op \in flying,
         \A x \in NssSteps(ir, progs) : HasRun(x)' <=> HasRun(x)
  PROVE  \A op \in flying' : Flies(op)'
PROOF
<1> SUFFICES ASSUME NEW op \in flying' PROVE Flies(op)'
  OBVIOUS
<1>1. Flies(op)
  BY DEF RunInv
<1> HIDE DEF HasRun
<1> QED BY <1>1, FliesOn DEF RunKeeps

(* A host action starts and ends no invocation of the NSS. *)
LEMMA HostActionFlies ==
  ASSUME Outlined(ir, progs, slice), RunInv, HostAction
  PROVE  RunInv' /\ RunKeeps /\ \A x \in NssSteps(ir, progs) : HasRun(x)' <=> HasRun(x)
PROOF
<1>1. /\ RunKeeps /\ HostOp.ex # "nss" /\ hpc' = hpc + 1 /\ nss' = nss /\ flying' = flying
      /\ hpc <= Len(ir)
  BY DEF HostAction, RunStep, RunKeeps, planVars
<1>2. NssAtStart
  BY DEF RunInv
<1>3. ~Running /\ ~Running'
  BY <1>1, <1>2, HostWaits DEF Running
<1>4. hpc \in Nat
  BY <1>2 DEF NssAtStart
<1>5. NssAtStart'
  BY <1>1, <1>2, <1>3, <1>4 DEF NssAtStart
<1>6. \A x \in NssSteps(ir, progs) : HasRun(x)' <=> HasRun(x)
  <2> SUFFICES ASSUME NEW x \in NssSteps(ir, progs) PROVE HasRun(x)' <=> HasRun(x)
    OBVIOUS
  <2>1. x[1] \in Int /\ StartsNss(ir[x[1]])
    BY StepIs
  <2>2. x[1] # hpc
    BY <1>1, <2>1 DEF HostOp, StartsNss
  <2>3. x[1] < hpc + 1 <=> x[1] < hpc
    BY <1>4, <2>1, <2>2
  <2> QED BY <1>1, <1>3, <2>3 DEF HasRun
<1>7. \A op \in flying' : Flies(op)'
  BY <1>1, <1>6, SomeFly
<1> HIDE DEF HasRun, NssSteps, Flies
<1> QED BY <1>1, <1>5, <1>6, <1>7 DEF RunInv

(* The host starts a program of the NSS, which is idle. *)
LEMMA StartNSSFlies ==
  ASSUME Outlined(ir, progs, slice), RunInv, StartNSS
  PROVE  RunInv' /\ RunKeeps /\ \A x \in NssSteps(ir, progs) : HasRun(x)' <=> HasRun(x)
PROOF
<1>1. /\ RunKeeps /\ HostOp.k = "start" /\ HostOp.ex = "nss" /\ hpc' = hpc + 1
      /\ nss' = [program |-> HostOp.inv.id[1], pc |-> 1] /\ flying' = flying
      /\ hpc <= Len(ir)
  BY DEF StartNSS, RunStep, RunKeeps, planVars
<1>2. NssAtStart
  BY DEF RunInv
<1>3. ~Running
  BY <1>1, <1>2, HostWaits
<1>4. hpc \in Nat /\ hpc \in 1 .. Len(ir) /\ (hpc + 1) - 1 = hpc
  <2>1. hpc \in Nat /\ hpc > 0 /\ Len(ir) \in Nat
    BY <1>2 DEF NssAtStart, Outlined
  <2> QED BY <1>1, <2>1
<1>5. /\ HostOp.inv.id[1] \in Int /\ StartsNss(HostOp)
  <2>1. StartsNss(ir[hpc])
    BY <1>1 DEF HostOp, StartsNss
  <2>2. StartsWaitedFor(ir, progs)
    BY DEF Outlined
  <2>3. ir[hpc].inv.id[1] \in 0 .. Len(progs) - 1
    BY <1>4, <2>1, <2>2 DEF StartsWaitedFor
  <2> QED BY <2>1, <2>3 DEF HostOp
<1>6. nss'.pc = 1 /\ nss'.program = HostOp.inv.id[1] /\ nss' \in [program : Int, pc : Nat]
  BY <1>1, <1>5
<1>7. NssAtStart'
  <2>1. /\ ir' = ir /\ hpc' \in Nat /\ hpc' > 0 /\ hpc' - 1 = hpc
    BY <1>1, <1>4 DEF RunKeeps
  <2>2. ir'[hpc' - 1] = HostOp
    BY <2>1 DEF HostOp
  <2>3. hpc' - 1 \in 1 .. Len(ir')
    BY <1>4, <2>1
  <2>4. /\ StartsNss(ir'[hpc' - 1]) /\ nss'.program = ir'[hpc' - 1].inv.id[1] /\ nss'.pc > 0
        /\ nss' \in [program : Int, pc : Nat]
    BY <1>5, <1>6, <2>2
  <2> QED BY <2>1, <2>3, <2>4 DEF NssAtStart, StartsNss
<1>8. \A x \in NssSteps(ir, progs) : HasRun(x)' <=> HasRun(x)
  <2> SUFFICES ASSUME NEW x \in NssSteps(ir, progs) PROVE HasRun(x)' <=> HasRun(x)
    OBVIOUS
  <2>1. x[1] \in Int /\ x[2] \in Nat /\ x[2] > 0
    BY StepIs
  <2>2. nss'.program >= 0
    <3>1. StartsWaitedFor(ir, progs) /\ StartsNss(ir[hpc])
      BY <1>5 DEF Outlined, HostOp
    <3>2. ir[hpc].inv.id[1] \in 0 .. Len(progs) - 1
      BY <1>4, <3>1 DEF StartsWaitedFor
    <3> QED BY <1>6, <3>2 DEF HostOp
  <2>3. HasRun(x)' <=> x[1] < hpc + 1 /\ (x[1] = hpc => x[2] < 1)
    BY <1>1, <1>4, <1>6, <2>2 DEF HasRun, Running
  <2>4. HasRun(x) <=> x[1] < hpc
    BY <1>3 DEF HasRun
  <2> HIDE DEF HasRun
  <2> QED BY <1>4, <2>1, <2>3, <2>4
<1>9. \A op \in flying' : Flies(op)'
  BY <1>1, <1>8, SomeFly
<1> HIDE DEF HasRun, NssSteps, Flies
<1> QED BY <1>1, <1>7, <1>8, <1>9 DEF RunInv

(* The host sees the program end when all of its tasks are done. *)
LEMMA WaitNSSFlies ==
  ASSUME Outlined(ir, progs, slice), RunInv, WaitNSS
  PROVE  RunInv' /\ RunKeeps /\ \A x \in NssSteps(ir, progs) : HasRun(x)' <=> HasRun(x)
PROOF
<1>1. /\ RunKeeps /\ Running /\ nss.pc > Len(progs[nss.program + 1]) /\ hpc' = hpc + 1
      /\ HostOp.k = "wait"
      /\ nss' = NssIdle /\ flying' = flying
  BY DEF WaitNSS, RunStep, RunKeeps, planVars, NssHasEnded
<1>2. NssAtStart
  BY DEF RunInv
<1>3. ~Running'
  BY <1>1 DEF Running, NssIdle
<1>4. /\ hpc \in Nat /\ hpc > 0 /\ nss.pc \in Nat
      /\ hpc - 1 \in 1 .. Len(ir) /\ nss.program = ir[hpc - 1].inv.id[1] /\ StartsNss(ir[hpc - 1])
  BY <1>1, <1>2 DEF NssAtStart
<1>5. NssAtStart'
  BY <1>1, <1>3, <1>4 DEF NssAtStart, NssIdle
<1>6. \A x \in NssSteps(ir, progs) : HasRun(x)' <=> HasRun(x)
  <2> SUFFICES ASSUME NEW x \in NssSteps(ir, progs) PROVE HasRun(x)' <=> HasRun(x)
    OBVIOUS
  <2>1. /\ x[1] \in Int /\ x[2] \in Nat /\ StartsNss(ir[x[1]])
        /\ x[2] \in 1 .. Len(progs[ir[x[1]].inv.id[1] + 1])
    BY StepIs
  <2>2. x[1] # hpc
    BY <1>1, <2>1 DEF HostOp, StartsNss
  <2>3. x[1] < hpc + 1 <=> x[1] < hpc
    BY <1>4, <2>1, <2>2
  <2>4. x[1] = hpc - 1 => x[2] < nss.pc
    <3> SUFFICES ASSUME x[1] = hpc - 1 PROVE x[2] < nss.pc
      OBVIOUS
    <3> DEFINE l == Len(progs[nss.program + 1])
    <3>1. x[2] \in 1 .. l
      BY <1>4, <2>1
    <3>2. l \in Nat
      <4>1. nss.program \in 0 .. Len(progs) - 1
        BY <1>4 DEF Outlined, StartsWaitedFor
      <4>2. progs \in Seq(Seq(SomeOp))
        BY DEF Outlined
      <4>3. nss.program + 1 \in 1 .. Len(progs)
        BY <4>1, <4>2
      <4>4. progs[nss.program + 1] \in Seq(SomeOp)
        BY <4>2, <4>3, ElementOfSeq
      <4> QED BY <4>4
    <3>3. nss.pc > l
      BY <1>1
    <3> HIDE DEF l
    <3> QED BY <1>4, <2>1, <3>1, <3>2, <3>3
  <2> QED BY <1>1, <1>3, <2>3, <2>4 DEF HasRun
<1>7. \A op \in flying' : Flies(op)'
  BY <1>1, <1>6, SomeFly
<1> HIDE DEF HasRun, NssSteps, Flies
<1> QED BY <1>1, <1>5, <1>6, <1>7 DEF RunInv

(* The end of a program on its executor is not seen by a wait yet. *)
LEMMA CompleteFlies ==
  ASSUME Outlined(ir, progs, slice), RunInv,
         RunKeeps, UNCHANGED <<hpc, nss, flying>>
  PROVE  RunInv' /\ \A x \in NssSteps(ir, progs) : HasRun(x)' <=> HasRun(x)
PROOF
<1>1. NssAtStart'
  BY DEF RunInv, NssAtStart, RunKeeps, Running
<1>2. \A x \in NssSteps(ir, progs) : HasRun(x)' <=> HasRun(x)
  BY DEF HasRun, Running
<1>3. \A op \in flying' : Flies(op)'
  BY <1>2, SomeFly
<1> HIDE DEF HasRun, NssSteps, Flies
<1> QED BY <1>1, <1>2, <1>3 DEF RunInv

(* The task that the NSS does next. *)
LEMMA NssTaskAt ==
  ASSUME Outlined(ir, progs, slice), NssAtStart, Running, ~NssHasEnded
  PROVE  /\ <<hpc - 1, nss.pc>> \in NssSteps(ir, progs)
         /\ NssStep(ir, progs, <<hpc - 1, nss.pc>>) = NssOp
PROOF
<1> DEFINE y == <<hpc - 1, nss.pc>>
           l == Len(progs[nss.program + 1])
<1>1. /\ hpc \in Nat /\ hpc > 0 /\ nss.pc \in Nat /\ nss.pc > 0 /\ nss.program \in Int
      /\ hpc - 1 \in 1 .. Len(ir) /\ nss.program = ir[hpc - 1].inv.id[1] /\ StartsNss(ir[hpc - 1])
      /\ ~(nss.pc > l)
  BY DEF NssAtStart, NssHasEnded
<1>3. nss.program + 1 \in 1 .. Len(progs) /\ progs[nss.program + 1] \in Seq(SomeOp) /\ l \in Nat
  <2>1. nss.program \in 0 .. Len(progs) - 1
    BY <1>1 DEF Outlined, StartsWaitedFor
  <2>2. progs \in Seq(Seq(SomeOp))
    BY DEF Outlined
  <2>3. nss.program + 1 \in 1 .. Len(progs)
    BY <2>1, <2>2
  <2>4. progs[nss.program + 1] \in Seq(SomeOp)
    BY <2>2, <2>3, ElementOfSeq
  <2>5. l \in Nat
    BY <2>4
  <2> QED BY <2>3, <2>4, <2>5
<1>4. nss.pc \in 1 .. l
  <2> HIDE DEF l
  <2> QED BY <1>1, <1>3
<1>5. ProgramOf(ir, progs, hpc - 1) = progs[nss.program + 1]
  BY <1>1 DEF ProgramOf
<1>6. y \in NssSteps(ir, progs) /\ NssStep(ir, progs, y) = NssOp
  <2>1. y[1] = hpc - 1 /\ y[2] = nss.pc /\ y \in (1 .. Len(ir)) \X Nat
    BY <1>1
  <2>2. y[2] \in 1 .. Len(ProgramOf(ir, progs, y[1]))
    BY <1>4, <1>5, <2>1
  <2>3. StartsNss(ir[y[1]])
    BY <1>1, <2>1
  <2>4. y \in NssSteps(ir, progs)
    BY <2>1, <2>2, <2>3 DEF NssSteps
  <2>5. NssStep(ir, progs, y) = NssOp
    BY <1>5 DEF NssStep, NssOp
  <2> QED BY <2>4, <2>5
<1> QED BY <1>6

(* It does it. *)
LEMMA NssTaskIs ==
  ASSUME Outlined(ir, progs, slice), NssAtStart, RunKeeps, Running, ~NssHasEnded, NssNext
  PROVE  /\ NssAtStart'
         /\ <<hpc - 1, nss.pc>> \in NssSteps(ir, progs)
         /\ NssStep(ir, progs, <<hpc - 1, nss.pc>>) = NssOp
         /\ \A x \in NssSteps(ir, progs) : HasRun(x)' <=> HasRun(x) \/ x = <<hpc - 1, nss.pc>>
PROOF
<1> DEFINE y == <<hpc - 1, nss.pc>>
<1>1. /\ hpc \in Nat /\ hpc > 0 /\ nss.pc \in Nat /\ nss.pc > 0
      /\ hpc - 1 \in 1 .. Len(ir) /\ nss.program = ir[hpc - 1].inv.id[1] /\ StartsNss(ir[hpc - 1])
      /\ nss \in [program : Int, pc : Nat]
  BY DEF NssAtStart
<1>2. /\ nss' = [nss EXCEPT !.pc = nss.pc + 1] /\ hpc' = hpc
      /\ nss'.pc = nss.pc + 1 /\ nss'.program = nss.program /\ nss' \in [program : Int, pc : Nat]
  BY <1>1 DEF NssNext
<1>7. NssAtStart'
  BY <1>1, <1>2 DEF NssAtStart, RunKeeps
<1>8. ASSUME NEW x \in NssSteps(ir, progs)
      PROVE  HasRun(x)' <=> HasRun(x) \/ x = y
  <2>1. x[1] \in Int /\ x[2] \in Nat /\ x = <<x[1], x[2]>>
    BY StepIs
  <2>2. HasRun(x)' <=> x[1] < hpc /\ (x[1] = hpc - 1 => x[2] < nss.pc + 1)
    BY <1>2 DEF HasRun, Running
  <2>3. HasRun(x) <=> x[1] < hpc /\ (x[1] = hpc - 1 => x[2] < nss.pc)
    BY DEF HasRun
  <2>4. x = y <=> x[1] = hpc - 1 /\ x[2] = nss.pc
    BY <2>1
  <2> HIDE DEF HasRun, y
  <2> QED BY <1>1, <2>1, <2>2, <2>3, <2>4
<1>9. y \in NssSteps(ir, progs) /\ NssStep(ir, progs, y) = NssOp
  BY NssTaskAt
<1> QED BY <1>7, <1>8, <1>9

(* A copy of the NSS starts and waits for nothing else. *)
LEMMA NssCopyFlies ==
  ASSUME Outlined(ir, progs, slice), RunInv, NssCopy
  PROVE  RunInv' /\ RunKeeps
PROOF
<1> DEFINE y == <<hpc - 1, nss.pc>>
<1>1. RunKeeps /\ Running /\ ~NssHasEnded /\ NssOp.k \notin {"start", "wait"} /\ NssNext /\ flying' = flying
  BY DEF NssCopy, RunStep, RunKeeps, planVars
<1>2. NssAtStart
  BY DEF RunInv
<1>3. /\ NssAtStart'
      /\ y \in NssSteps(ir, progs)
      /\ NssStep(ir, progs, y) = NssOp
      /\ \A x \in NssSteps(ir, progs) : HasRun(x)' <=> HasRun(x) \/ x = y
  BY <1>1, <1>2, NssTaskIs
<1> HIDE DEF y
<1>4. ASSUME NEW op \in flying' PROVE Flies(op)'
  <2>1. Flies(op)
    BY <1>1 DEF RunInv
  <2> HIDE DEF HasRun
  <2>2. \A z \in NssSteps(ir, progs) :
           HasRun(z)' /\ ~HasRun(z) /\ NssStep(ir, progs, z).k = "wait" =>
             On(NssStep(ir, progs, z), slice) # On(op, slice)
    BY <1>1, <1>3
  <2> QED BY <1>1, <1>3, <2>1, <2>2, FliesOn DEF RunKeeps
<1> QED BY <1>1, <1>3, <1>4 DEF RunInv

(* A start of the NSS adds the invocation, which nothing has waited      *)
(* for.                                                                  *)
LEMMA NssStartFlies ==
  ASSUME Outlined(ir, progs, slice), RunInv, NssStart
  PROVE  RunInv' /\ RunKeeps
PROOF
<1>0. PICK y : y = <<hpc - 1, nss.pc>>
  OBVIOUS
<1>1. /\ RunKeeps /\ Running /\ ~NssHasEnded /\ NssOp.k = "start" /\ NssNext
      /\ flying' = flying \cup {NssOp}
  BY DEF NssStart, RunStep, RunKeeps, planVars
<1>2. NssAtStart
  BY DEF RunInv
<1>3. /\ NssAtStart'
      /\ y \in NssSteps(ir, progs)
      /\ NssStep(ir, progs, y) = NssOp
      /\ \A x \in NssSteps(ir, progs) : HasRun(x)' <=> HasRun(x) \/ x = y
  BY <1>0, <1>1, <1>2, NssTaskIs
<1>4. \A z \in NssSteps(ir, progs) : HasRun(z) => ~Earlier(y, z)
  <2> SUFFICES ASSUME NEW z \in NssSteps(ir, progs), HasRun(z), Earlier(y, z) PROVE FALSE
    OBVIOUS
  <2>1. z[1] \in Int /\ z[2] \in Int
    BY StepIs
  <2>2. hpc \in Int /\ nss.pc \in Int
    BY <1>2 DEF NssAtStart
  <2>3. z[1] < hpc /\ (z[1] = hpc - 1 => z[2] < nss.pc)
    BY <1>1 DEF HasRun
  <2>4. hpc - 1 < z[1] \/ (hpc - 1 = z[1] /\ nss.pc < z[2])
    BY <1>0 DEF Earlier
  <2> QED BY <2>1, <2>2, <2>3, <2>4
<1>5. ~Earlier(y, y)
  BY <1>0, <1>2 DEF Earlier, NssAtStart
<1>6. ASSUME NEW op \in flying' PROVE Flies(op)'
  <2>1. CASE op \in flying
    <3>1. Flies(op)
      BY <2>1 DEF RunInv
    <3> HIDE DEF HasRun
    <3>2. \A z \in NssSteps(ir, progs) :
             HasRun(z)' /\ ~HasRun(z) /\ NssStep(ir, progs, z).k = "wait" =>
               On(NssStep(ir, progs, z), slice) # On(op, slice)
      BY <1>1, <1>3
    <3> QED BY <1>1, <1>3, <3>1, <3>2, FliesOn DEF RunKeeps
  <2>2. CASE op = NssOp
    <3> HIDE DEF HasRun, NssOp
    <3>1. ir' = ir /\ progs' = progs /\ slice' = slice
      BY <1>1 DEF RunKeeps
    <3>2. HasRun(y)' /\ \A z \in NssSteps(ir, progs) : HasRun(z)' => ~Earlier(y, z)
      BY <1>3, <1>4, <1>5
    <3> HIDE DEF NssSteps, NssStep, On
    <3> QED BY <1>1, <1>3, <2>2, <3>1, <3>2 DEF Flies
  <2> QED BY <1>1, <2>1, <2>2
<1> QED BY <1>1, <1>3, <1>6 DEF RunInv

(* A wait of the NSS ends what flies on its executor. *)
LEMMA NssWaitFlies ==
  ASSUME Outlined(ir, progs, slice), RunInv, NssWait
  PROVE  RunInv' /\ RunKeeps
PROOF
<1> DEFINE y == <<hpc - 1, nss.pc>>
           here == {op \in flying : Executor(op) = Executor(NssOp)}
<1>1. /\ RunKeeps /\ Running /\ ~NssHasEnded /\ NssOp.k = "wait" /\ NssNext
      /\ flying' = flying \ here
  BY DEF NssWait, RunStep, RunKeeps, planVars
<1>2. NssAtStart
  BY DEF RunInv
<1>3. /\ NssAtStart'
      /\ y \in NssSteps(ir, progs)
      /\ NssStep(ir, progs, y) = NssOp
      /\ \A x \in NssSteps(ir, progs) : HasRun(x)' <=> HasRun(x) \/ x = y
  BY <1>1, <1>2, NssTaskIs
<1> HIDE DEF y
<1>4. ASSUME NEW op \in flying' PROVE Flies(op)'
  <2>1. Flies(op) /\ On(op, slice) # On(NssOp, slice)
    BY <1>1 DEF RunInv, Executor, On
  <2> HIDE DEF HasRun, here
  <2>2. \A z \in NssSteps(ir, progs) :
           HasRun(z)' /\ ~HasRun(z) /\ NssStep(ir, progs, z).k = "wait" =>
             On(NssStep(ir, progs, z), slice) # On(op, slice)
    BY <1>3, <2>1
  <2> QED BY <1>1, <1>3, <2>1, <2>2, FliesOn DEF RunKeeps
<1> QED BY <1>1, <1>3, <1>4 DEF RunInv

(* The invariant holds of the empty source. *)
LEMMA TurnInit ==
  ASSUME Init PROVE TurnInv
PROOF
<1>1. Source(<< >>)
  <2>1. << >> \in Seq(SomeOp) /\ Len(<< >>) = 0 /\ \A i \in 1 .. 0 : FALSE
    OBVIOUS
  <2> QED BY <2>1 DEF Source, Shaped, OneLoop, LaunchedOnce, First
<1>2. stage = "build" /\ ir = << >> /\ vals = {}
  BY DEF Init
<1>3. PassInv
  BY <1>1, <1>2 DEF PassInv, ValsTyped
<1> QED BY <1>2, <1>3 DEF TurnInv, NotStarted, Init

(* A step before the run. *)
LEMMA NotYet ==
  ASSUME NotStarted, UNCHANGED runVars PROVE NotStarted'
PROOF BY DEF NotStarted, runVars, NssIdle

(* When the run begins nothing flies. *)
LEMMA RunBegins ==
  ASSUME NotStarted PROVE RunInv
PROOF
<1>1. hpc = 1 /\ nss = [program |-> -1, pc |-> 0] /\ flying = {}
  BY DEF NotStarted, NssIdle
<1>2. ~Running
  BY <1>1 DEF Running
<1>3. NssAtStart
  BY <1>1, <1>2 DEF NssAtStart
<1> QED BY <1>1, <1>3 DEF RunInv

(* The steps of the source keep the invariant. *)
LEMMA BuildTurn ==
  ASSUME TurnInv, Build \/ Finish \/ TakeMeaning
  PROVE  TurnInv'
PROOF
<1>1. CASE Build
  <2>1. stage = "build" /\ UNCHANGED runVars
    BY <1>1 DEF Build, SourceLoad, SourceKernel, SourceKernelInto, SourceView, SourceCss, SourceHost,
                SourceForall, Append1
  <2>2. Source(ir) /\ ValsTyped /\ NotStarted
    BY <2>1 DEF TurnInv, PassInv
  <2>3. Source(ir)' /\ ValsTyped' /\ stage' = "build"
    <3>1. CASE SourceLoad
      BY <2>2, <3>1, LoadKeepsSource
    <3>2. CASE SourceKernel
      BY <2>2, <3>2, KernelKeepsSource
    <3>3. CASE SourceKernelInto
      BY <2>2, <3>3, KernelIntoKeepsSource
    <3>4. CASE SourceView
      BY <2>2, <3>4, ViewKeepsSource
    <3>5. CASE SourceCss
      BY <2>2, <3>5, CssKeepsSource
    <3>6. CASE SourceHost
      BY <2>2, <3>6, HostKeepsSource
    <3>7. CASE SourceForall
      BY <2>2, <3>7, ForallKeepsSource
    <3> QED BY <1>1, <3>1, <3>2, <3>3, <3>4, <3>5, <3>6, <3>7 DEF Build
  <2>4. NotStarted'
    BY <2>1, <2>2, NotYet
  <2> QED BY <2>3, <2>4 DEF TurnInv, PassInv
<1>2. CASE Finish
  <2>1. stage = "build" /\ stage' = "mean" /\ UNCHANGED runVars
    BY <1>2 DEF Finish
  <2>2. Source(ir) /\ ValsTyped /\ NotStarted
    BY <2>1 DEF TurnInv, PassInv
  <2>3. Source(ir)'
    BY <1>2, <2>2, FinishKeepsSource
  <2>4. NotStarted'
    BY <2>1, <2>2, NotYet
  <2> QED BY <2>1, <2>3, <2>4 DEF TurnInv, PassInv
<1>3. CASE TakeMeaning
  <2>1. stage = "mean" /\ stage' = "lowerCalls" /\ ir' = ir /\ UNCHANGED runVars
    BY <1>3 DEF TakeMeaning
  <2>2. Source(ir) /\ NotStarted
    BY <2>1 DEF TurnInv, PassInv
  <2>3. NotStarted' /\ Source(ir')
    BY <2>1, <2>2, NotYet
  <2> QED BY <2>1, <2>3 DEF TurnInv, PassInv
<1> QED BY <1>1, <1>2, <1>3

(* The passes keep the invariant, each leaving what the next one needs. *)
LEMMA PassTurn ==
  ASSUME TurnInv,
         \/ LowerCalls \/ OutlineSlices \/ UnrollForall \/ ScheduleSliceTasks \/ Canonicalize
         \/ AddDeallocation \/ AssignAddresses \/ OutlineNSSPrograms
  PROVE  TurnInv'
PROOF
<1>0. UNCHANGED runVars /\ stage \notin {"run", "done"} /\ NotStarted
  BY DEF LowerCalls, OutlineSlices, UnrollForall, ScheduleSliceTasks, Canonicalize,
         AddDeallocation, AssignAddresses, OutlineNSSPrograms, Pass, TurnInv
<1>1. NotStarted'
  BY <1>0, NotYet
<1>2. CASE LowerCalls
  <2>1. stage = "lowerCalls" /\ stage' = "outlineSlices"
    BY <1>2 DEF LowerCalls, Pass
  <2>2. Looped(ir)
    BY <2>1, SourceIsLooped DEF TurnInv, PassInv
  <2>3. Looped(ir') /\ Without(ir', {"call"})
    BY <1>2, <2>2, PassesRewrite DEF Without
  <2> QED BY <1>1, <2>1, <2>3 DEF TurnInv, PassInv
<1>3. CASE OutlineSlices
  <2>1. stage = "outlineSlices" /\ stage' = "unroll"
    BY <1>3 DEF OutlineSlices, Pass
  <2>2. Looped(ir) /\ Without(ir, {"call"})
    BY <2>1 DEF TurnInv, PassInv
  <2>3. Looped(ir') /\ Without(ir', {"call", "kernel"})
    BY <1>3, <2>2, PassesRewrite DEF Without
  <2> QED BY <1>1, <2>1, <2>3 DEF TurnInv, PassInv
<1>4. CASE UnrollForall
  <2>1. stage = "unroll" /\ stage' = "schedule"
    BY <1>4 DEF UnrollForall, Pass
  <2>2. Looped(ir) /\ Without(ir, {"call", "kernel"})
    BY <2>1 DEF TurnInv, PassInv
  <2>3. Lowered(ir')
    BY <1>4, <2>2, UnrollLowers DEF Without
  <2> QED BY <1>1, <2>1, <2>3 DEF TurnInv, PassInv
<1>5. CASE ScheduleSliceTasks
  <2>1. /\ stage = "schedule" /\ stage' = IF Scheduled.ok THEN "canonicalize" ELSE "failed"
        /\ slice' = Scheduled.ids /\ ir' = ir
    BY <1>5 DEF ScheduleSliceTasks, Pass
  <2>2. Lowered(ir)
    BY <2>1 DEF TurnInv, PassInv
  <2>3. CASE Scheduled.ok
    <3>1. Planned(ir', slice')
      BY <2>1, <2>2, <2>3, ScheduleSpaces DEF Planned, Lowered
    <3> QED BY <1>1, <2>1, <2>3, <3>1 DEF TurnInv, PassInv
  <2>4. CASE ~Scheduled.ok
    BY <1>1, <2>1, <2>4 DEF TurnInv, PassInv
  <2> QED BY <2>3, <2>4
<1>6. CASE Canonicalize
  <2>1. stage = "canonicalize" /\ stage' = "deallocate" /\ slice' = slice
    BY <1>6 DEF Canonicalize, Pass, planVars
  <2>2. Planned(ir', slice')
    BY <1>6, <2>1, CanonicalizeKeeps DEF TurnInv, PassInv
  <2> QED BY <1>1, <2>1, <2>2 DEF TurnInv, PassInv
<1>7. CASE AddDeallocation
  <2>1. stage = "deallocate" /\ stage' = "assign" /\ slice' = slice
    BY <1>7 DEF AddDeallocation, Pass, planVars
  <2>2. Planned(ir', slice')
    BY <1>7, <2>1, AddDeallocationKeeps DEF TurnInv, PassInv
  <2> QED BY <1>1, <2>1, <2>2 DEF TurnInv, PassInv
<1>8. CASE AssignAddresses
  <2>1. /\ stage = "assign" /\ stage' \in {"outlineNSS", "failed"}
        /\ ir' = ir /\ slice' = slice
    BY <1>8 DEF AssignAddresses, Pass
  <2>2. Planned(ir', slice')
    BY <2>1 DEF TurnInv, PassInv
  <2> QED BY <1>1, <2>1, <2>2 DEF TurnInv, PassInv
<1>9. CASE OutlineNSSPrograms
  <2>1. stage = "outlineNSS" /\ stage' = "serialize" /\ slice' = slice
    BY <1>9 DEF OutlineNSSPrograms, Pass
  <2>2. Outlined(ir', progs', slice')
    BY <1>9, <2>1, OutlineProgramsKeeps DEF TurnInv, PassInv
  <2> QED BY <1>1, <2>1, <2>2 DEF TurnInv, PassInv
<1> QED BY <1>2, <1>3, <1>4, <1>5, <1>6, <1>7, <1>8, <1>9

(* Serialization and the run keep the invariant. *)
LEMMA RunTurn ==
  ASSUME TurnInv,
         \/ Serialize \/ HostAction \/ StartNSS \/ WaitNSS \/ NssCopy \/ NssStart \/ NssWait
         \/ Complete \/ ReadBack
  PROVE  TurnInv'
PROOF
<1>1. CASE Serialize
  <2>1. stage = "serialize" /\ stage' = "run" /\ UNCHANGED <<hpc, nss, flying>>
    BY <1>1 DEF Serialize
  <2>2. Outlined(ir, progs, slice) /\ NotStarted
    BY <2>1 DEF TurnInv, PassInv
  <2>3. Outlined(ir', progs', slice')
    BY <1>1, <2>2, SerializeKeeps
  <2>4. NotStarted'
    BY <2>1, <2>2 DEF NotStarted, NssIdle
  <2>5. RunInv'
    BY <2>4, RunBegins, PTL
  <2> QED BY <2>1, <2>3, <2>5 DEF TurnInv, PassInv
<1>2. CASE HostAction \/ StartNSS \/ WaitNSS \/ NssCopy \/ NssStart \/ NssWait
  <2>1. stage = "run" /\ stage' = "run"
    BY <1>2 DEF HostAction, StartNSS, WaitNSS, NssCopy, NssStart, NssWait, RunStep
  <2>2. Outlined(ir, progs, slice) /\ RunInv
    BY <2>1 DEF TurnInv, PassInv
  <2>3. RunInv' /\ RunKeeps
    BY <1>2, <2>2, HostActionFlies, StartNSSFlies, WaitNSSFlies, NssCopyFlies, NssStartFlies, NssWaitFlies
  <2>4. Outlined(ir', progs', slice')
    BY <2>2, <2>3 DEF RunKeeps
  <2> QED BY <2>1, <2>3, <2>4 DEF TurnInv, PassInv
<1>3. CASE Complete \/ ReadBack
  <2>1. /\ stage = "run" /\ stage' \in {"run", "done"}
        /\ RunKeeps /\ UNCHANGED <<hpc, nss, flying>>
    BY <1>3 DEF Complete, ReadBack, RunStep, RunKeeps, planVars, runVars
  <2>2. Outlined(ir, progs, slice) /\ RunInv
    BY <2>1 DEF TurnInv, PassInv
  <2>3. RunInv'
    BY <2>1, <2>2, CompleteFlies
  <2>4. Outlined(ir', progs', slice')
    BY <2>1, <2>2 DEF RunKeeps
  <2> QED BY <2>1, <2>3, <2>4 DEF TurnInv, PassInv
<1> QED BY <1>1, <1>2, <1>3

(* So does a step that changes nothing. *)
LEMMA TurnStutter ==
  ASSUME TurnInv, UNCHANGED vars
  PROVE  TurnInv'
PROOF
<1>1. UNCHANGED <<stage, ir, progs, slice, hpc, nss, flying, vals>>
  BY DEF vars, planVars, runVars
<1>2. PassInv'
  BY <1>1 DEF TurnInv, PassInv, ValsTyped
<1>3. CASE stage \in {"run", "done"}
  <2>1. Outlined(ir, progs, slice) /\ RunInv
    BY <1>3 DEF TurnInv, PassInv
  <2>2. RunInv'
    BY <1>1, <2>1, CompleteFlies DEF RunKeeps
  <2> QED BY <1>1, <1>2, <1>3, <2>2 DEF TurnInv
<1>4. CASE stage \notin {"run", "done"}
  <2>1. NotStarted'
    BY <1>1, <1>4 DEF TurnInv, NotStarted, NssIdle
  <2> QED BY <1>1, <1>2, <1>4, <2>1 DEF TurnInv
<1> QED BY <1>3, <1>4

(* Every step keeps the invariant. *)
LEMMA TurnNext ==
  ASSUME TurnInv, [Next]_vars
  PROVE  TurnInv'
PROOF BY BuildTurn, PassTurn, RunTurn, TurnStutter DEF Next, Terminated

(* The invariant says that executors are idle when they are started. *)
LEMMA TurnMeans ==
  ASSUME TurnInv
  PROVE  ExecutorIsIdle
PROOF
<1>1. CASE stage \in {"run", "done"}
  BY <1>1, FlyApart DEF TurnInv, PassInv
<1>2. CASE stage \notin {"run", "done"}
  BY <1>2 DEF TurnInv, NotStarted, ExecutorIsIdle
<1> QED BY <1>1, <1>2

(* scheduleSliceTasks never lets a program be started on an executor     *)
(* that is busy: whatever the source, the number of slices and the       *)
(* schedule of the run, two invocations that have not been waited for    *)
(* are on different slices, and there is one at a time on the CSS.       *)
THEOREM ExecutorsAreIdle == Spec => []ExecutorIsIdle
PROOF
<1>1. Init => TurnInv
  BY TurnInit
<1>2. TurnInv /\ [Next]_vars => TurnInv'
  BY TurnNext
<1>3. TurnInv => ExecutorIsIdle
  BY TurnMeans
<1> QED BY <1>1, <1>2, <1>3, PTL DEF Spec

(* Concatenation, by position. *)
LEMMA Joined ==
  ASSUME NEW S, NEW s \in Seq(S), NEW ops \in Seq(S)
  PROVE  LET t == s \o ops
         IN  /\ t \in Seq(S) /\ Len(t) = Len(s) + Len(ops) /\ Len(s) \in Nat /\ Len(ops) \in Nat
             /\ \A i \in 1 .. Len(s) : i \in 1 .. Len(t) /\ t[i] = s[i]
             /\ \A j \in 1 .. Len(ops) : Len(s) + j \in 1 .. Len(t) /\ t[Len(s) + j] = ops[j]
             /\ \A k \in 1 .. Len(t) : \/ k \in 1 .. Len(s)
                                       \/ \E j \in 1 .. Len(ops) : k = Len(s) + j
PROOF
<1> DEFINE t == s \o ops
           a == Len(s)
           b == Len(ops)
<1>1. a \in Nat /\ b \in Nat
  OBVIOUS
<1>2. /\ t \in Seq(S) /\ Len(t) = a + b
      /\ \A k \in 1 .. a + b : t[k] = IF k <= a THEN s[k] ELSE ops[k - a]
  BY <1>1, ConcatProperties
<1> HIDE DEF t, a, b
<1>3. ASSUME NEW i \in 1 .. a PROVE i \in 1 .. a + b /\ t[i] = s[i]
  <2>1. i \in 1 .. a + b /\ i <= a
    BY <1>1
  <2> QED BY <1>2, <2>1
<1>4. ASSUME NEW j \in 1 .. b PROVE a + j \in 1 .. a + b /\ t[a + j] = ops[j]
  <2>1. a + j \in 1 .. a + b /\ ~(a + j <= a) /\ (a + j) - a = j
    BY <1>1
  <2> QED BY <1>2, <2>1
<1>5. ASSUME NEW k \in 1 .. a + b PROVE k \in 1 .. a \/ \E j \in 1 .. b : k = a + j
  <2>1. CASE k <= a
    BY <1>1, <2>1
  <2>2. CASE ~(k <= a)
    <3>1. k - a \in 1 .. b /\ k = a + (k - a)
      BY <1>1, <2>2
    <3> QED BY <3>1
  <2> QED BY <2>1, <2>2
<1> QED BY <1>1, <1>2, <1>3, <1>4, <1>5 DEF t, a, b

(* What a step of the source adds does not move into or out of the       *)
(* loop.                                                                 *)
LEMMA AppendInside ==
  ASSUME NEW s \in Seq(SomeOp), NEW ops \in Seq(SomeOp), OneLoop(s),
         NoLoop(ops) \/ \A i \in 1 .. Len(s) : s[i].k # "forall"
  PROVE  LET t == s \o ops
         IN  /\ \A i \in 1 .. Len(s) : Inside(t, i) <=> Inside(s, i)
             /\ \A j \in 1 .. Len(ops) : Inside(t, Len(s) + j) <=> Inside(ops, j)
PROOF
<1> DEFINE t == s \o ops
           a == Len(s)
           b == Len(ops)
<1>1. /\ t \in Seq(SomeOp) /\ Len(t) = a + b /\ a \in Nat /\ b \in Nat
      /\ \A i \in 1 .. a : i \in 1 .. Len(t) /\ t[i] = s[i]
      /\ \A j \in 1 .. b : a + j \in 1 .. Len(t) /\ t[a + j] = ops[j]
      /\ \A k \in 1 .. Len(t) : k \in 1 .. a \/ \E j \in 1 .. b : k = a + j
  BY Joined
<1> HIDE DEF t, a, b
<1>2. CASE NoLoop(ops)
  <2>1. ASSUME NEW k \in 1 .. Len(t), t[k].k \in {"forall", "end"} PROVE k \in 1 .. a /\ t[k] = s[k]
    BY <1>1, <1>2, <2>1 DEF NoLoop, b
  <2>2. ASSUME NEW i \in 1 .. a PROVE Inside(t, i) <=> Inside(s, i)
    <3>1. \A l, e : Loop(t, l, e) <=> Loop(s, l, e)
      BY <1>1, <2>1 DEF Loop, a
    <3>2. \A l, e : Loop(s, l, e) => l \in 1 .. a /\ e \in 1 .. a
      BY DEF Loop, a
    <3> QED BY <1>1, <3>1, <3>2 DEF Inside, Loop, a
  <2>3. ASSUME NEW j \in 1 .. b PROVE ~Inside(t, a + j) /\ ~Inside(ops, j)
    <3>1. ~Inside(ops, j)
      BY <1>2 DEF Inside, Loop, NoLoop
    <3>2. ASSUME NEW l \in 1 .. Len(t), NEW e \in 1 .. Len(t), Loop(t, l, e), a + j < e PROVE FALSE
      <4>1. e \in 1 .. a
        BY <2>1, <3>2 DEF Loop
      <4> QED BY <1>1, <3>2, <4>1
    <3> QED BY <3>1, <3>2 DEF Inside
  <2> QED BY <2>2, <2>3 DEF t, a, b
<1>3. CASE \A i \in 1 .. Len(s) : s[i].k # "forall"
  <2>1. \A i \in 1 .. a : s[i].k \notin {"forall", "end"}
    BY <1>3 DEF OneLoop, a
  <2>2. ASSUME NEW k \in 1 .. Len(t), t[k].k \in {"forall", "end"}
        PROVE  \E j \in 1 .. b : k = a + j /\ t[k] = ops[j]
    BY <1>1, <2>1, <2>2
  <2>3. ASSUME NEW i \in 1 .. a PROVE ~Inside(t, i) /\ ~Inside(s, i)
    <3>1. ~Inside(s, i)
      BY <2>1 DEF Inside, Loop, a
    <3>2. ASSUME NEW l \in 1 .. Len(t), NEW e \in 1 .. Len(t), Loop(t, l, e), l < i PROVE FALSE
      <4>1. PICK j \in 1 .. b : l = a + j
        BY <2>2, <3>2 DEF Loop
      <4> QED BY <1>1, <3>2, <4>1
    <3> QED BY <3>1, <3>2 DEF Inside
  <2>4. ASSUME NEW j \in 1 .. b, Inside(t, a + j) PROVE Inside(ops, j)
    <3>1. PICK l \in 1 .. Len(t), e \in 1 .. Len(t) : Loop(t, l, e) /\ l < a + j /\ a + j < e
      BY <2>4 DEF Inside
    <3>2. PICK m \in 1 .. b : l = a + m /\ t[l] = ops[m]
      BY <2>2, <3>1 DEF Loop
    <3>3. PICK n \in 1 .. b : e = a + n /\ t[e] = ops[n]
      BY <2>2, <3>1 DEF Loop
    <3>4. m < j /\ j < n
      BY <1>1, <3>1, <3>2, <3>3
    <3>5. Loop(ops, m, n)
      BY <3>1, <3>2, <3>3 DEF Loop, b
    <3> QED BY <3>4, <3>5 DEF Inside, b
  <2>5. ASSUME NEW j \in 1 .. b, Inside(ops, j) PROVE Inside(t, a + j)
    <3>1. PICK m \in 1 .. b, n \in 1 .. b : Loop(ops, m, n) /\ m < j /\ j < n
      BY <2>5 DEF Inside, b
    <3>2. Loop(t, a + m, a + n)
      BY <1>1, <3>1 DEF Loop
    <3>3. a + m < a + j /\ a + j < a + n
      BY <1>1, <3>1
    <3> QED BY <1>1, <3>2, <3>3 DEF Inside
  <2> QED BY <2>3, <2>4, <2>5 DEF t, a, b
<1> QED BY <1>2, <1>3

(* A step of the source keeps every operand defined before it is used. *)
LEMMA AppendDeclared ==
  ASSUME NEW s \in Seq(SomeOp), NEW ops \in Seq(SomeOp), OneLoop(s),
         NoLoop(ops) \/ \A i \in 1 .. Len(s) : s[i].k # "forall",
         Declared(s), NEW V, ValsDeclared(s, V), \A v \in V : v.base[2] \in {"a", "b"},
         NewDeclared(ops, V)
  PROVE  Declared(s \o ops)
PROOF
<1> DEFINE t == s \o ops
           a == Len(s)
           b == Len(ops)
<1>1. /\ t \in Seq(SomeOp) /\ Len(t) = a + b /\ a \in Nat /\ b \in Nat
      /\ \A i \in 1 .. a : i \in 1 .. Len(t) /\ t[i] = s[i]
      /\ \A j \in 1 .. b : a + j \in 1 .. Len(t) /\ t[a + j] = ops[j]
      /\ \A k \in 1 .. Len(t) : k \in 1 .. a \/ \E j \in 1 .. b : k = a + j
  BY Joined
<1>2. /\ \A i \in 1 .. a : Inside(t, i) <=> Inside(s, i)
      /\ \A j \in 1 .. b : Inside(t, a + j) <=> Inside(ops, j)
  BY AppendInside
<1> HIDE DEF t, a, b
<1>3. ASSUME NEW i \in 1 .. a, Inside(s, i)
      PROVE  \A j \in 1 .. b : ~Inside(ops, j) /\ ops[j].k # "forall"
  <2>1. \E l \in 1 .. Len(s) : s[l].k = "forall"
    BY <1>3 DEF Inside, Loop
  <2>2. NoLoop(ops)
    BY <2>1
  <2> QED BY <2>2 DEF NoLoop, Inside, Loop, b
<1>4. ASSUME NEW j \in 1 .. b, Inside(ops, j)
      PROVE  \A i \in 1 .. a : ~Inside(s, i) /\ s[i].k # "forall"
  <2>1. \E l \in 1 .. Len(ops) : ops[l].k = "forall"
    BY <1>4 DEF Inside, Loop
  <2>2. \A i \in 1 .. Len(s) : s[i].k # "forall"
    BY <2>1 DEF NoLoop
  <2> QED BY <2>2 DEF Inside, Loop, a
<1>5. ASSUME NEW i \in 1 .. a, NEW v, Seen(s, i, v) PROVE Seen(t, i, v)
  <2>1. PICK c \in 1 .. a : c < i /\ \E d \in Defs(s[c]) : Covers(d, v) /\ Reaches(s, c, d, i, v)
    BY <1>5 DEF Seen, a
  <2>2. PICK d \in Defs(s[c]) : Covers(d, v) /\ Reaches(s, c, d, i, v)
    BY <2>1
  <2>3. ASSUME Inside(s, i), Foreign(s, v) PROVE Foreign(t, v)
    <3>1. ASSUME NEW p \in 1 .. Len(t), Inside(t, p) PROVE v.base \notin Bases(t[p])
      <4>1. p \in 1 .. a
        BY <1>1, <1>2, <1>3, <2>3, <3>1
      <4> QED BY <1>1, <1>2, <2>3, <3>1, <4>1 DEF Foreign, a
    <3> QED BY <2>3, <3>1 DEF Foreign
  <2>4. ASSUME Inside(s, i), NEW l \in 1 .. Len(t), t[l].k = "forall" PROVE l \in 1 .. a /\ t[l] = s[l]
    <3>1. \A m \in 1 .. b : l # a + m
      <4> SUFFICES ASSUME NEW m \in 1 .. b, l = a + m PROVE FALSE
        OBVIOUS
      <4>1. t[l] = ops[m]
        BY <1>1
      <4>2. ops[m].k # "forall"
        BY <1>3, <2>4
      <4> QED BY <2>4, <4>1, <4>2
    <3> QED BY <1>1, <3>1
  <2>5. Reaches(t, c, d, i, v)
    BY <1>2, <2>2, <2>3, <2>4 DEF Reaches, a
  <2> QED BY <1>1, <2>1, <2>2, <2>5 DEF Seen
<1>6. ASSUME NEW j \in 1 .. b, NEW v, Seen(ops, j, v) PROVE Seen(t, a + j, v)
  <2>1. PICK c \in 1 .. b : c < j /\ \E d \in Defs(ops[c]) : Covers(d, v) /\ Reaches(ops, c, d, j, v)
    BY <1>6 DEF Seen, b
  <2>2. PICK d \in Defs(ops[c]) : Covers(d, v) /\ Reaches(ops, c, d, j, v)
    BY <2>1
  <2>3. ASSUME Inside(ops, j), Foreign(ops, v) PROVE Foreign(t, v)
    <3>1. ASSUME NEW p \in 1 .. Len(t), Inside(t, p) PROVE v.base \notin Bases(t[p])
      <4>1. PICK m \in 1 .. b : p = a + m
        BY <1>1, <1>2, <1>4, <2>3, <3>1
      <4>2. Inside(ops, m) /\ t[p] = ops[m]
        BY <1>1, <1>2, <3>1, <4>1
      <4> QED BY <2>3, <4>2 DEF Foreign, b
    <3> QED BY <2>3, <3>1 DEF Foreign
  <2>4. ASSUME Inside(ops, j), NEW l \in 1 .. Len(t), t[l].k = "forall"
        PROVE  \E m \in 1 .. b : ops[m] = t[l]
    <3>1. ~(l \in 1 .. a)
      BY <1>1, <1>4, <2>4
    <3>2. PICK m \in 1 .. b : l = a + m
      BY <1>1, <3>1
    <3> QED BY <1>1, <3>2
  <2>5. Reaches(t, a + c, d, a + j, v)
    BY <1>2, <2>2, <2>3, <2>4 DEF Reaches, b
  <2>6. a + c < a + j /\ a + c \in 1 .. Len(t) /\ t[a + c] = ops[c]
    BY <1>1, <2>1
  <2> QED BY <2>2, <2>5, <2>6 DEF Seen
<1>7. ASSUME NEW j \in 1 .. b, NEW v \in V PROVE Seen(t, a + j, v)
  <2>1. PICK c \in 1 .. a : s[c].k = "alloc" /\ ~Inside(s, c) /\ Covers(s[c].res, v)
    BY DEF ValsDeclared, a
  <2>2. v.base[2] \in {"a", "b"} /\ ~IsBinding(v)
    BY DEF IsBinding
  <2>3. ASSUME Inside(ops, j) PROVE Foreign(t, v)
    <3>1. ASSUME NEW p \in 1 .. Len(t), Inside(t, p) PROVE v.base \notin Bases(t[p])
      <4>1. PICK m \in 1 .. b : p = a + m
        BY <1>1, <1>2, <1>4, <2>3, <3>1
      <4>2. Inside(ops, m) /\ t[p] = ops[m]
        BY <1>1, <1>2, <3>1, <4>1
      <4> QED BY <4>2 DEF NewDeclared, b
    <3> QED BY <2>2, <3>1 DEF Foreign
  <2>4. Reaches(t, c, s[c].res, a + j, v)
    BY <1>2, <2>1, <2>2, <2>3 DEF Reaches
  <2>5. c < a + j /\ c \in 1 .. Len(t) /\ t[c] = s[c]
    BY <1>1
  <2>6. s[c].res \in Defs(t[c])
    BY <2>1, <2>5 DEF Defs
  <2> QED BY <2>1, <2>4, <2>5, <2>6 DEF Seen
<1>8. ASSUME NEW k \in 1 .. Len(t), t[k].k # "inv", NEW v \in Operands(t[k]) PROVE Seen(t, k, v)
  <2>1. CASE k \in 1 .. a
    BY <1>1, <1>5, <1>8, <2>1 DEF Declared, a
  <2>2. ASSUME NEW j \in 1 .. b, k = a + j PROVE Seen(t, k, v)
    <3>1. t[k] = ops[j]
      BY <1>1, <2>2
    <3>2. v \in V \/ Seen(ops, j, v)
      BY <1>8, <3>1 DEF NewDeclared, b
    <3> QED BY <1>6, <1>7, <2>2, <3>2
  <2> QED BY <1>1, <2>1, <2>2
<1> QED BY <1>8 DEF Declared, t

(* What Append1 adds to the function and to its values. *)
LEMMA DeclaredAppend ==
  ASSUME Source(ir), ValsTyped, Declared(ir), ValsDeclared(ir, vals), NEW kind, NEW ops, NEW new,
         Append1(kind, ops, new), ops \in Seq(SomeOp),
         NoLoop(ops) \/ \A i \in 1 .. Len(ir) : ir[i].k # "forall",
         NewDeclared(ops, vals),
         \A v \in new : /\ v.base[1] <= Len(ir) + Len(ops) /\ v.off + v.sz <= Words
                        /\ \/ \E u \in vals : \A d : Covers(d, u) => Covers(d, v)
                           \/ \E j \in 1 .. Len(ops) :
                                ops[j].k = "alloc" /\ ~Inside(ops, j) /\ Covers(ops[j].res, v)
  PROVE  Declared(ir') /\ ValsDeclared(ir', vals')
PROOF
<1>1. ir \in Seq(SomeOp) /\ OneLoop(ir) /\ \A v \in vals : v \in Value /\ v.base[2] \in {"a", "b"}
  BY DEF Source, Shaped, ValsTyped
<1>2. ir' = ir \o ops /\ vals' = vals \cup new
  BY DEF Append1
<1>3. Declared(ir')
  BY <1>1, <1>2, AppendDeclared
<1> DEFINE t == ir \o ops
<1>4. /\ Len(t) = Len(ir) + Len(ops) /\ Len(ir) \in Nat /\ Len(ops) \in Nat
      /\ \A i \in 1 .. Len(ir) : i \in 1 .. Len(t) /\ t[i] = ir[i]
      /\ \A j \in 1 .. Len(ops) : Len(ir) + j \in 1 .. Len(t) /\ t[Len(ir) + j] = ops[j]
  BY <1>1, Joined
<1>5. /\ \A i \in 1 .. Len(ir) : Inside(t, i) <=> Inside(ir, i)
      /\ \A j \in 1 .. Len(ops) : Inside(t, Len(ir) + j) <=> Inside(ops, j)
  BY <1>1, AppendInside
<1> HIDE DEF t
<1>6. ASSUME NEW u \in vals
      PROVE  \E c \in 1 .. Len(t) : t[c].k = "alloc" /\ ~Inside(t, c) /\ Covers(t[c].res, u)
  BY <1>4, <1>5 DEF ValsDeclared
<1>7. ASSUME NEW v \in vals \cup new PROVE v.base[1] <= Len(t) /\ v.off + v.sz <= Words
  <2>1. CASE v \in new
    BY <1>4, <2>1
  <2>2. CASE v \in vals
    <3>1. v.base[1] \in Nat /\ v.base[1] <= Len(ir) /\ v.off + v.sz <= Words
      BY <1>1, <2>2 DEF ValsDeclared, Value, Ids
    <3> QED BY <1>4, <3>1
  <2> QED BY <2>1, <2>2
<1>8. ASSUME NEW v \in new
      PROVE  \E c \in 1 .. Len(t) : t[c].k = "alloc" /\ ~Inside(t, c) /\ Covers(t[c].res, v)
  <2>1. CASE \E u \in vals : \A d : Covers(d, u) => Covers(d, v)
    BY <1>6, <2>1
  <2>2. CASE \E j \in 1 .. Len(ops) : ops[j].k = "alloc" /\ ~Inside(ops, j) /\ Covers(ops[j].res, v)
    BY <1>4, <1>5, <2>2
  <2> QED BY <2>1, <2>2
<1>9. ValsDeclared(t, vals \cup new)
  BY <1>6, <1>7, <1>8 DEF ValsDeclared
<1> QED BY <1>2, <1>3, <1>9 DEF t

(* The names, memories and size that the source's values have. *)
LEMMA NamesAre ==
  /\ "a" \in Names /\ "b" \in Names /\ "t" \in Names /\ "x" \in Names /\ "o" \in Names
  /\ "lram" \in Spaces /\ "xram" \in Spaces /\ "dtcm" \in Spaces /\ "dtcm" # "none" /\ "xram" # "none"
  /\ Words \in Nat
PROOF BY DEF Names, Spaces, Words

(* The parts of a fresh value. *)
LEMMA FreshIs ==
  ASSUME ir \in Seq(SomeOp), NEW nm \in Names, NEW sp \in Spaces, NEW sz \in Nat
  PROVE  LET v == Fresh(nm, sp, sz)
         IN  /\ v \in Value /\ v.base = <<Len(ir) + 1, nm>> /\ v.base[1] = Len(ir) + 1 /\ v.base[2] = nm
             /\ v.sp = sp /\ v.sz = sz /\ v.off = 0 /\ v.it = 0
PROOF
<1>1. Fresh(nm, sp, sz) \in Value
  BY FreshTyped
<1> QED BY <1>1 DEF Fresh, Val, Id

(* An allocation covers its own buffer. *)
LEMMA SelfCovers ==
  ASSUME NEW v \in Value, v.base[2] \notin {"x", "o"}, v.off = 0
  PROVE  Covers(AllocOp(v).res, v) /\ AllocOp(v).res \in Defs(AllocOp(v)) /\ AllocOp(v).k = "alloc"
PROOF
<1>1. AllocOp(v).res = v /\ AllocOp(v).k = "alloc"
  BY DEF AllocOp, Op
<1>2. v.sz \in Nat
  BY DEF Value
<1> QED BY <1>1, <1>2 DEF Covers, IsBinding, Defs

(* A binding covers the value that is bound. *)
LEMMA BindingCovers ==
  ASSUME NEW v \in Value, v.base[2] \in {"x", "o"}, v.off = 0, v.it = 0, v.sz <= Words,
         NEW n \in Nat, n > 0
  PROVE  /\ Covers(BindingOp(v, n).res, v)
         /\ BindingOp(v, n).res \in Defs(BindingOp(v, n))
         /\ BindingOp(v, n).res.sz = n * Words /\ BindingOp(v, n).k = "binding"
PROOF
<1>1. BindingOp(v, n).res = [v EXCEPT !.sz = Words * n] /\ BindingOp(v, n).k = "binding"
  BY DEF BindingOp, Op
<1> DEFINE d == [v EXCEPT !.sz = Words * n]
<1>2. d.base = v.base /\ d.sp = v.sp /\ d.it = v.it /\ d.sz = Words * n
  BY DEF Value
<1> HIDE DEF d
<1>3. v.sz \in Nat /\ (0 + 1) * Words <= Words * n /\ Words * n = n * Words /\ 0 + v.sz <= Words
  BY DEF Value, Words
<1>4. Covers(d, v)
  BY <1>2, <1>3 DEF Covers, IsBinding
<1> QED BY <1>1, <1>2, <1>3, <1>4 DEF Defs, d

(* Outside the loop it is enough that the operand is defined before. *)
LEMMA StraightDeclared ==
  ASSUME NEW ops, NoLoop(ops), NEW V,
         \A j \in 1 .. Len(ops) : \A v \in Operands(ops[j]) :
           \/ v \in V
           \/ \E a \in 1 .. Len(ops) : a < j /\ \E d \in Defs(ops[a]) : Covers(d, v)
  PROVE  NewDeclared(ops, V) /\ \A j \in 1 .. Len(ops) : ~Inside(ops, j)
PROOF
<1>1. \A j \in 1 .. Len(ops) : ~Inside(ops, j)
  BY DEF Inside, Loop, NoLoop
<1>2. ASSUME NEW j \in 1 .. Len(ops), NEW v, NEW a \in 1 .. Len(ops), a < j,
             NEW d \in Defs(ops[a]), Covers(d, v)
      PROVE  Seen(ops, j, v)
  <2>1. Reaches(ops, a, d, j, v)
    BY <1>1 DEF Reaches
  <2> QED BY <1>2, <2>1 DEF Seen
<1> QED BY <1>1, <1>2 DEF NewDeclared

(* The values of the function are parts of buffers of the source. *)
LEMMA ValIs ==
  ASSUME BuildInv, NEW v \in vals
  PROVE  /\ v \in Value /\ v.base[2] \in {"a", "b"} /\ v.base[1] <= Len(ir) /\ v.off + v.sz <= Words
         /\ v.off \in Nat /\ v.sz \in Nat /\ v.base[1] \in Nat /\ ir \in Seq(SomeOp) /\ Len(ir) \in Nat
PROOF
<1>1. v \in Value /\ v.base[2] \in {"a", "b"} /\ ir \in Seq(SomeOp)
  BY DEF BuildInv, ValsTyped, Source, Shaped
<1>2. v.base[1] <= Len(ir) /\ v.off + v.sz <= Words
  BY DEF BuildInv, ValsDeclared
<1>3. v.off \in Nat /\ v.sz \in Nat /\ v.base[1] \in Nat
  BY <1>1 DEF Value, Ids
<1> QED BY <1>1, <1>2, <1>3

(* A load uses its buffer and its binding after them. *)
LEMMA LoadDeclares ==
  ASSUME BuildInv, SourceLoad
  PROVE  Declared(ir') /\ ValsDeclared(ir', vals')
PROOF
<1> DEFINE a == Fresh("a", "lram", Words)
           x == Fresh("x", "xram", Words)
           ops == <<BindingOp(x, 1), AllocOp(a), Use("load", <<a, x>>)>>
<1>1. ir \in Seq(SomeOp) /\ Len(ir) \in Nat
  BY DEF BuildInv, Source, Shaped
<1>2. /\ a \in Value /\ a.base[1] = Len(ir) + 1 /\ a.base[2] = "a" /\ a.sp = "lram" /\ a.off = 0 /\ a.sz = Words
      /\ x \in Value /\ x.base[2] = "x" /\ x.sp = "xram" /\ x.off = 0 /\ x.it = 0 /\ x.sz = Words
  BY <1>1, NamesAre, FreshIs
<1>3. Append1("load", ops, {a})
  BY DEF SourceLoad
<1> HIDE DEF a, x
<1>4. BindingOp(x, 1) \in SomeOp /\ AllocOp(a) \in SomeOp /\ Use("load", <<a, x>>) \in SomeOp
  <2>1. BindingOp(x, 1) \in SomeOp
    BY <1>2, BindingIsOp
  <2>2. AllocOp(a) \in SomeOp
    BY <1>2, AllocIsOp DEF Buffers
  <2>3. Use("load", <<a, x>>) \in SomeOp
    BY <1>2, UseIsOp
  <2> QED BY <2>1, <2>2, <2>3
<1>5. /\ Operands(BindingOp(x, 1)) = {} /\ Operands(AllocOp(a)) = {}
      /\ Operands(Use("load", <<a, x>>)) = {a, x} /\ Use("load", <<a, x>>).k = "load"
  BY BindingOperands, AllocOperands, UseOperands
<1>6. /\ Covers(BindingOp(x, 1).res, x) /\ BindingOp(x, 1).res \in Defs(BindingOp(x, 1))
      /\ BindingOp(x, 1).k = "binding"
  BY <1>2, BindingCovers DEF Words
<1>7. Covers(AllocOp(a).res, a) /\ AllocOp(a).res \in Defs(AllocOp(a)) /\ AllocOp(a).k = "alloc"
  BY <1>2, SelfCovers
<1>8. /\ ops \in Seq(SomeOp) /\ Len(ops) = 3
      /\ ops[1] = BindingOp(x, 1) /\ ops[2] = AllocOp(a) /\ ops[3] = Use("load", <<a, x>>)
  BY <1>4
<1> HIDE DEF ops
<1>9. NoLoop(ops)
  BY <1>5, <1>6, <1>7, <1>8 DEF NoLoop
<1>10. ASSUME NEW j \in 1 .. 3, NEW v \in Operands(ops[j])
       PROVE  \E i \in 1 .. 3 : i < j /\ \E d \in Defs(ops[i]) : Covers(d, v)
  <2>1. j = 3 /\ v \in {a, x}
    BY <1>5, <1>8, <1>10
  <2> QED BY <1>6, <1>7, <1>8, <2>1
<1>11. NewDeclared(ops, vals) /\ \A j \in 1 .. 3 : ~Inside(ops, j)
  BY <1>8, <1>9, <1>10, StraightDeclared
<1>12. a.base[1] <= Len(ir) + 3 /\ a.off + a.sz <= Words
  BY <1>1, <1>2 DEF Words
<1>13. \E j \in 1 .. Len(ops) : ops[j].k = "alloc" /\ ~Inside(ops, j) /\ Covers(ops[j].res, a)
  BY <1>7, <1>8, <1>11
<1> QED BY <1>3, <1>8, <1>9, <1>11, <1>12, <1>13, DeclaredAppend DEF BuildInv

(* A kernel with a new destination uses values of the function and its   *)
(* buffer.                                                               *)
LEMMA KernelDeclares ==
  ASSUME BuildInv, SourceKernel
  PROVE  Declared(ir') /\ ValsDeclared(ir', vals')
PROOF
<1> DEFINE b == Fresh("b", "lram", Words)
<1>1. ir \in Seq(SomeOp) /\ Len(ir) \in Nat
  BY DEF BuildInv, Source, Shaped
<1>2. b \in Value /\ b.base[1] = Len(ir) + 1 /\ b.base[2] = "b" /\ b.sp = "lram" /\ b.off = 0 /\ b.sz = Words
  BY <1>1, NamesAre, FreshIs
<1>3. PICK s \in vals :
        Append1("kernel", <<AllocOp(b), Invoke("kernel", Inv, "slice", <<b, s>>)>>, {b})
  BY DEF SourceKernel
<1> DEFINE op == Invoke("kernel", Inv, "slice", <<b, s>>)
           ops == <<AllocOp(b), op>>
<1> HIDE DEF b
<1>4. AllocOp(b) \in SomeOp /\ op \in SomeOp /\ op.k = "kernel"
  <2>1. AllocOp(b) \in SomeOp
    BY <1>2, AllocIsOp DEF Buffers
  <2>2. <<b, s>> \in Seq(Value) /\ <<b, s>> # << >>
    BY <1>2, ValIs
  <2>3. op \in SomeOp /\ op.k = "kernel"
    BY <1>1, <2>2, KernelIsOp
  <2> QED BY <2>1, <2>3
<1>5. Operands(AllocOp(b)) = {} /\ Operands(op) = {b, s}
  <2>1. Range(<<b, s>>) = {b, s}
    BY RangeOf
  <2>2. Operands(op) = Range(<<b, s>>)
    BY InvokeOperands
  <2> QED BY <2>1, <2>2, AllocOperands
<1>7. Covers(AllocOp(b).res, b) /\ AllocOp(b).res \in Defs(AllocOp(b)) /\ AllocOp(b).k = "alloc"
  BY <1>2, SelfCovers
<1> HIDE DEF op
<1>8. ops \in Seq(SomeOp) /\ Len(ops) = 2 /\ ops[1] = AllocOp(b) /\ ops[2] = op
  BY <1>4
<1>3a. Append1("kernel", ops, {b})
  BY <1>3 DEF op
<1> HIDE DEF ops
<1>9. NoLoop(ops)
  BY <1>4, <1>7, <1>8 DEF NoLoop
<1>10. ASSUME NEW j \in 1 .. 2, NEW v \in Operands(ops[j])
       PROVE  v \in vals \/ \E i \in 1 .. 2 : i < j /\ \E d \in Defs(ops[i]) : Covers(d, v)
  <2>1. j = 2 /\ v \in {b, s}
    BY <1>5, <1>8, <1>10
  <2> QED BY <1>7, <1>8, <2>1
<1>11. NewDeclared(ops, vals) /\ \A j \in 1 .. 2 : ~Inside(ops, j)
  BY <1>8, <1>9, <1>10, StraightDeclared
<1>12. b.base[1] <= Len(ir) + 2 /\ b.off + b.sz <= Words
  BY <1>1, <1>2 DEF Words
<1>13. \E j \in 1 .. Len(ops) : ops[j].k = "alloc" /\ ~Inside(ops, j) /\ Covers(ops[j].res, b)
  BY <1>7, <1>8, <1>11
<1> QED BY <1>3a, <1>8, <1>9, <1>11, <1>12, <1>13, DeclaredAppend DEF BuildInv

(* A kernel with an old destination uses values of the function. *)
LEMMA KernelIntoDeclares ==
  ASSUME BuildInv, SourceKernelInto
  PROVE  Declared(ir') /\ ValsDeclared(ir', vals')
PROOF
<1>1. ir \in Seq(SomeOp) /\ Len(ir) \in Nat
  BY DEF BuildInv, Source, Shaped
<1>3. PICK s \in vals, d \in vals : Append1("into", <<Invoke("kernel", Inv, "slice", <<d, s>>)>>, {})
  BY DEF SourceKernelInto
<1> DEFINE op == Invoke("kernel", Inv, "slice", <<d, s>>)
           ops == <<op>>
<1>4. op \in SomeOp /\ op.k = "kernel"
  <2>2. <<d, s>> \in Seq(Value) /\ <<d, s>> # << >>
    BY ValIs
  <2> QED BY <1>1, <2>2, KernelIsOp
<1>5. Operands(op) = {d, s}
  <2>1. Range(<<d, s>>) = {d, s}
    BY RangeOf
  <2>2. Operands(op) = Range(<<d, s>>)
    BY InvokeOperands
  <2> QED BY <2>1, <2>2
<1> HIDE DEF op
<1>8. ops \in Seq(SomeOp) /\ Len(ops) = 1 /\ ops[1] = op
  BY <1>4
<1>3a. Append1("into", ops, {})
  BY <1>3 DEF op
<1> HIDE DEF ops
<1>9. NoLoop(ops)
  BY <1>4, <1>8 DEF NoLoop
<1>11. NewDeclared(ops, vals)
  BY <1>5, <1>8, <1>9, StraightDeclared
<1> QED BY <1>3a, <1>8, <1>9, <1>11, DeclaredAppend DEF BuildInv

(* A view is of a value of the function, and inside it. *)
LEMMA ViewDeclares ==
  ASSUME BuildInv, SourceView
  PROVE  Declared(ir') /\ ValsDeclared(ir', vals')
PROOF
<1>1. ir \in Seq(SomeOp) /\ Len(ir) \in Nat
  BY DEF BuildInv, Source, Shaped
<1>2. PICK s \in vals :
        /\ s.sz > 1
        /\ LET v == [s EXCEPT !.id = Id("v"), !.sz = 1, !.off = s.off + s.sz - 1]
           IN  Append1("view", <<Op("view", v, <<s>>, << >>, << >>, "none")>>, {v})
  BY DEF SourceView
<1> DEFINE v == [s EXCEPT !.id = Id("v"), !.sz = 1, !.off = s.off + s.sz - 1]
           op == Op("view", v, <<s>>, << >>, << >>, "none")
           ops == <<op>>
<1>3. /\ s \in Value /\ s.off \in Nat /\ s.sz \in Nat /\ s.off + s.sz <= Words
      /\ s.base[1] <= Len(ir) /\ s.base[1] \in Nat
  BY ValIs
<1>4. v.base = s.base /\ v.it = s.it /\ v.sp = s.sp /\ v.sz = 1 /\ v.off = s.off + s.sz - 1
  BY <1>3 DEF Value
<1>5. v \in Value
  <2>1. Id("v") \in Ids /\ s.off + s.sz - 1 \in Nat
    BY <1>1, <1>2, <1>3 DEF Id, Ids, Names
  <2> QED BY <1>3, <2>1 DEF Value
<1>6. Append1("view", ops, {v})
  BY <1>2
<1> HIDE DEF v
<1>7. op \in SomeOp /\ op.k = "view"
  BY <1>3, <1>5, ViewIsOp
<1>8. Operands(op) = {s}
  BY ViewOperands
<1> HIDE DEF op
<1>9. ops \in Seq(SomeOp) /\ Len(ops) = 1 /\ ops[1] = op
  BY <1>7
<1> HIDE DEF ops
<1>10. NoLoop(ops)
  BY <1>7, <1>9 DEF NoLoop
<1>11. NewDeclared(ops, vals)
  BY <1>8, <1>9, <1>10, StraightDeclared
<1>12. v.off + v.sz = s.off + s.sz
  <2>1. (s.off + s.sz - 1) + 1 = s.off + s.sz
    BY <1>3
  <2> QED BY <1>4, <2>1
<1>13. ASSUME NEW d, Covers(d, s) PROVE Covers(d, v)
  BY <1>4, <1>12, <1>13 DEF Covers, IsBinding
<1>14. v.base[1] <= Len(ir) + 1 /\ v.off + v.sz <= Words
  BY <1>1, <1>3, <1>4, <1>12
<1>15. \A u \in {v} : /\ u.base[1] <= Len(ir) + Len(ops) /\ u.off + u.sz <= Words
                       /\ \E q \in vals : \A d : Covers(d, q) => Covers(d, u)
  BY <1>9, <1>13, <1>14
<1> HIDE DEF Append1, Source, Declared, ValsDeclared, NewDeclared, Covers, ValsTyped, NoLoop
<1> QED BY <1>6, <1>9, <1>10, <1>11, <1>15, DeclaredAppend DEF BuildInv

(* What a call and the copies around it use is declared. *)
LEMMA CallDeclares ==
  ASSUME BuildInv, NEW s \in vals, NEW t \in Value, t.base[2] = "t", t.off = 0, t.sp # "none",
         NEW k1 \in {"load", "store", "copy"}, NEW k2 \in {"load", "store", "copy"},
         NEW ex \in {"css", "host"}, NEW kind,
         Append1(kind, <<AllocOp(t), Use(k1, <<t, s>>), Invoke("call", Inv, ex, <<t>>),
                         Use(k2, <<s, t>>)>>, {})
  PROVE  Declared(ir') /\ ValsDeclared(ir', vals')
PROOF
<1>1. ir \in Seq(SomeOp) /\ Len(ir) \in Nat /\ s \in Value
  BY ValIs
<1> DEFINE call == Invoke("call", Inv, ex, <<t>>)
           u1 == Use(k1, <<t, s>>)
           u2 == Use(k2, <<s, t>>)
           ops == <<AllocOp(t), u1, call, u2>>
<1>2. AllocOp(t) \in SomeOp /\ u1 \in SomeOp /\ u2 \in SomeOp /\ call \in SomeOp
  <2>1. AllocOp(t) \in SomeOp
    BY AllocIsOp DEF Buffers
  <2>2. u1 \in SomeOp /\ u2 \in SomeOp
    BY <1>1, UseIsOp
  <2>3. call \in SomeOp
    BY <1>1, CallIsOp
  <2> QED BY <2>1, <2>2, <2>3
<1>3. /\ Operands(AllocOp(t)) = {} /\ Operands(u1) = {t, s} /\ Operands(u2) = {s, t}
      /\ u1.k = k1 /\ u2.k = k2
  BY AllocOperands, UseOperands
<1>4. Operands(call) = {t} /\ call.k = "call"
  <2>1. Range(<<t>>) = {t}
    BY RangeOf
  <2>2. Operands(call) = Range(<<t>>)
    BY InvokeOperands
  <2> QED BY <2>1, <2>2 DEF Invoke, Op
<1>5. Covers(AllocOp(t).res, t) /\ AllocOp(t).res \in Defs(AllocOp(t)) /\ AllocOp(t).k = "alloc"
  BY SelfCovers
<1>6. Append1(kind, ops, {})
  OBVIOUS
<1> HIDE DEF call, u1, u2
<1>7. /\ ops \in Seq(SomeOp) /\ Len(ops) = 4
      /\ ops[1] = AllocOp(t) /\ ops[2] = u1 /\ ops[3] = call /\ ops[4] = u2
  BY <1>2
<1> HIDE DEF ops
<1>8. NoLoop(ops)
  BY <1>3, <1>4, <1>5, <1>7 DEF NoLoop
<1>9. ASSUME NEW j \in 1 .. 4, NEW v \in Operands(ops[j])
      PROVE  v \in vals \/ \E i \in 1 .. 4 : i < j /\ \E d \in Defs(ops[i]) : Covers(d, v)
  <2>1. j \in 2 .. 4 /\ v \in {t, s}
    BY <1>3, <1>4, <1>7, <1>9
  <2> QED BY <1>5, <1>7, <2>1
<1>10. NewDeclared(ops, vals)
  BY <1>7, <1>8, <1>9, StraightDeclared
<1> QED BY <1>6, <1>7, <1>8, <1>10, DeclaredAppend DEF BuildInv

(* A call of a CSS program uses its buffer after the allocation. *)
LEMMA CssDeclares ==
  ASSUME BuildInv, SourceCss
  PROVE  Declared(ir') /\ ValsDeclared(ir', vals')
PROOF
<1>1. PICK s \in vals :
        LET t == Fresh("t", "dtcm", s.sz)
        IN  Append1("css", <<AllocOp(t), Use("copy", <<t, s>>), Invoke("call", Inv, "css", <<t>>),
                             Use("copy", <<s, t>>)>>, {})
  BY DEF SourceCss
<1> DEFINE t == Fresh("t", "dtcm", s.sz)
<1>2. ir \in Seq(SomeOp) /\ s.sz \in Nat
  BY ValIs
<1>3. t \in Value /\ t.base[2] = "t" /\ t.off = 0 /\ t.sp # "none"
  BY <1>2, NamesAre, FreshIs
<1>4. Append1("css", <<AllocOp(t), Use("copy", <<t, s>>), Invoke("call", Inv, "css", <<t>>),
                       Use("copy", <<s, t>>)>>, {})
  BY <1>1
<1> HIDE DEF t
<1> QED BY <1>3, <1>4, CallDeclares

(* So does a call of a host program. *)
LEMMA HostDeclares ==
  ASSUME BuildInv, SourceHost
  PROVE  Declared(ir') /\ ValsDeclared(ir', vals')
PROOF
<1>1. PICK s \in vals :
        LET t == Fresh("t", "xram", s.sz)
        IN  Append1("host", <<AllocOp(t), Use("store", <<t, s>>), Invoke("call", Inv, "host", <<t>>),
                              Use("load", <<s, t>>)>>, {})
  BY DEF SourceHost
<1> DEFINE t == Fresh("t", "xram", s.sz)
<1>2. ir \in Seq(SomeOp) /\ s.sz \in Nat
  BY ValIs
<1>3. t \in Value /\ t.base[2] = "t" /\ t.off = 0 /\ t.sp # "none"
  BY <1>2, NamesAre, FreshIs
<1>4. Append1("host", <<AllocOp(t), Use("store", <<t, s>>), Invoke("call", Inv, "host", <<t>>),
                        Use("load", <<s, t>>)>>, {})
  BY <1>1
<1> HIDE DEF t
<1> QED BY <1>3, <1>4, CallDeclares

(* The loop uses its own buffers after their allocation. *)
LEMMA LoopDeclared ==
  ASSUME NEW ops, NEW V, NEW a, NEW b, NEW x, NEW o, NEW n, NEW m, LoopUses(ops, V, a, b, x, o, n, m)
  PROVE  NewDeclared(ops, V)
PROOF
<1> USE DEF LoopUses
<1>1. \A j \in 1 .. 9 : Inside(ops, j) <=> 3 < j /\ j < 9
  <2>1. \A l, e : Loop(ops, l, e) <=> l = 3 /\ e = 9
    BY DEF Loop, LoopOps
  <2> QED BY <2>1 DEF Inside
<1>2. \A l \in 1 .. 9 : ops[l].k = "forall" => l = 3
  BY DEF LoopOps
<1>3. ASSUME NEW c \in {4, 6}, NEW j \in 4 .. 8, c < j, NEW v, ~IsBinding(v), Covers(ops[c].res, v),
             ops[c].res \in Defs(ops[c])
      PROVE  Seen(ops, j, v)
  <2>1. c \in 1 .. 9 /\ Inside(ops, c) /\ Inside(ops, j)
    BY <1>1, <1>3
  <2>2. Reaches(ops, c, ops[c].res, j, v)
    BY <1>3, <2>1 DEF Reaches
  <2> QED BY <1>3, <2>1, <2>2 DEF Seen
<1>4. Seen(ops, 5, a) /\ Seen(ops, 7, a) /\ Seen(ops, 7, b) /\ Seen(ops, 8, b)
  BY <1>3
<1>5. ASSUME NEW c \in {1, 2}, NEW j \in 4 .. 8, NEW v, IsBinding(v), Covers(ops[c].res, v),
             ops[c].res \in Defs(ops[c]), n * Words <= ops[c].res.sz
      PROVE  Seen(ops, j, v)
  <2>1. c \in 1 .. 9 /\ j \in 1 .. 9 /\ c < j /\ ~Inside(ops, c) /\ Inside(ops, j) /\ Len(ops) = 9
    BY <1>1, <1>5
  <2>2. \A l \in 1 .. 9 : ops[l].k = "forall" => ops[l].inv * Words <= ops[c].res.sz
    BY <1>2, <1>5
  <2>3. Reaches(ops, c, ops[c].res, j, v)
    BY <1>5, <2>1, <2>2 DEF Reaches
  <2> QED BY <1>5, <2>1, <2>3 DEF Seen
<1>6. Seen(ops, 5, x) /\ Seen(ops, 8, o)
  <2>1. /\ IsBinding(x) /\ Covers(ops[1].res, x) /\ ops[1].res \in Defs(ops[1]) /\ n * Words <= ops[1].res.sz
        /\ IsBinding(o) /\ Covers(ops[2].res, o) /\ ops[2].res \in Defs(ops[2]) /\ n * Words <= ops[2].res.sz
    OBVIOUS
  <2> HIDE DEF LoopUses, Words
  <2> QED BY <1>5, <2>1
<1>7. ASSUME NEW j \in 1 .. 9, NEW v \in Operands(ops[j]) PROVE v \in V \/ Seen(ops, j, v)
  <2>1. \/ j = 5 /\ v \in {a, x}
        \/ j = 7 /\ v \in {b, a} \cup V
        \/ j = 8 /\ v \in {o, b}
    <3>1. j \in {1, 2, 3, 4, 6, 9} \/ j = 5 \/ j = 7 \/ j = 8
      OBVIOUS
    <3> QED BY <1>7, <3>1
  <2> QED BY <1>4, <1>5, <1>6, <2>1
<1>8. ASSUME NEW j \in 1 .. 9, Inside(ops, j), NEW v \in V PROVE v.base \notin Bases(ops[j])
  <2>1. j \in 4 .. 8 /\ ops[j].k # "inv"
    BY <1>1, <1>8
  <2>2. v.base # ops[j].res.base
    <3>1. CASE ops[j].res.base = <<0, "none">>
      BY <3>1
    <3>2. CASE ops[j].res.base[1] = m
      BY <3>2
    <3> QED BY <2>1, <3>1, <3>2
  <2> QED BY <2>1, <2>2 DEF Bases
<1> QED BY <1>7, <1>8 DEF NewDeclared

(* The loop declares what it uses, bindings large enough for all its     *)
(* iterations.                                                           *)
LEMMA ForallDeclares ==
  ASSUME BuildInv, SourceForall
  PROVE  Declared(ir') /\ ValsDeclared(ir', vals')
PROOF
<1> DEFINE a == Fresh("a", "lram", Words)
           b == Fresh("b", "lram", Words)
           x == Fresh("x", "xram", Words)
           o == Fresh("o", "xram", Words)
<1>1. ir \in Seq(SomeOp) /\ Len(ir) \in Nat
  BY DEF BuildInv, Source, Shaped
<1>2. /\ a \in Value /\ a.base[1] = Len(ir) + 1 /\ a.base[2] = "a" /\ a.sp = "lram" /\ a.off = 0
      /\ b \in Value /\ b.base[1] = Len(ir) + 1 /\ b.base[2] = "b" /\ b.sp = "lram" /\ b.off = 0
  BY <1>1, NamesAre, FreshIs
<1>3. /\ x \in Value /\ x.base[2] = "x" /\ x.sp = "xram" /\ x.off = 0 /\ x.it = 0 /\ x.sz = Words
      /\ o \in Value /\ o.base[2] = "o" /\ o.sp = "xram" /\ o.off = 0 /\ o.it = 0 /\ o.sz = Words
  BY <1>1, NamesAre, FreshIs
<1>4. PICK n \in Iterations, s \in {<< >>} \cup {<<v>> : v \in vals} :
        /\ \A i \in DOMAIN ir : ir[i].k # "forall"
        /\ Append1("forall",
             <<BindingOp(x, n), BindingOp(o, n), Op("forall", NoVal, << >>, << >>, n, "none"),
               AllocOp(a), Use("load", <<a, x>>),
               AllocOp(b), Invoke("kernel", Inv, "slice", <<b, a>> \o s),
               Use("store", <<o, b>>), Op("end", NoVal, << >>, << >>, << >>, "none")>>, {})
  BY DEF SourceForall
<1>5. n \in Nat /\ n > 0
  BY PipelineAssumption
<1> DEFINE k == Invoke("kernel", Inv, "slice", <<b, a>> \o s)
           fo == Op("forall", NoVal, << >>, << >>, n, "none")
           en == Op("end", NoVal, << >>, << >>, << >>, "none")
           bx == BindingOp(x, n)
           bo == BindingOp(o, n)
           aa == AllocOp(a)
           ab == AllocOp(b)
           ld == Use("load", <<a, x>>)
           st == Use("store", <<o, b>>)
           ops == <<bx, bo, fo, aa, ld, ab, k, st, en>>
<1>6. Append1("forall", ops, {}) /\ \A i \in 1 .. Len(ir) : ir[i].k # "forall"
  BY <1>1, <1>4
<1> HIDE DEF a, b, x, o
<1>7. /\ aa \in SomeOp /\ aa.k = "alloc" /\ aa.ex = "none" /\ Operands(aa) = {}
      /\ aa.res \in Defs(aa) /\ Covers(aa.res, a) /\ aa.res = a
  <2>1. aa \in SomeOp /\ aa.k = "alloc" /\ aa.ex = "none"
    BY <1>2, AllocIsOp DEF Buffers
  <2>2. aa.res \in Defs(aa) /\ Covers(aa.res, a)
    BY <1>2, SelfCovers
  <2>3. Operands(aa) = {} /\ aa.res = a
    BY AllocOperands DEF AllocOp, Op
  <2> QED BY <2>1, <2>2, <2>3
<1>8. /\ ab \in SomeOp /\ ab.k = "alloc" /\ ab.ex = "none" /\ Operands(ab) = {}
      /\ ab.res \in Defs(ab) /\ Covers(ab.res, b) /\ ab.res = b
  <2>1. ab \in SomeOp /\ ab.k = "alloc" /\ ab.ex = "none"
    BY <1>2, AllocIsOp DEF Buffers
  <2>2. ab.res \in Defs(ab) /\ Covers(ab.res, b)
    BY <1>2, SelfCovers
  <2>3. Operands(ab) = {} /\ ab.res = b
    BY AllocOperands DEF AllocOp, Op
  <2> QED BY <2>1, <2>2, <2>3
<1>9. /\ bx \in SomeOp /\ bx.k = "binding" /\ bx.ex = "none" /\ Operands(bx) = {}
      /\ bx.res \in Defs(bx) /\ Covers(bx.res, x) /\ bx.res.sz = n * Words
  <2>1. bx \in SomeOp /\ bx.k = "binding" /\ bx.ex = "none"
    BY <1>3, <1>5, BindingIsOp
  <2>2. bx.res \in Defs(bx) /\ Covers(bx.res, x) /\ bx.res.sz = n * Words
    BY <1>3, <1>5, BindingCovers DEF Words
  <2>3. Operands(bx) = {}
    BY BindingOperands
  <2> QED BY <2>1, <2>2, <2>3
<1>10. /\ bo \in SomeOp /\ bo.k = "binding" /\ bo.ex = "none" /\ Operands(bo) = {}
       /\ bo.res \in Defs(bo) /\ Covers(bo.res, o) /\ bo.res.sz = n * Words
  <2>1. bo \in SomeOp /\ bo.k = "binding" /\ bo.ex = "none"
    BY <1>3, <1>5, BindingIsOp
  <2>2. bo.res \in Defs(bo) /\ Covers(bo.res, o) /\ bo.res.sz = n * Words
    BY <1>3, <1>5, BindingCovers DEF Words
  <2>3. Operands(bo) = {}
    BY BindingOperands
  <2> QED BY <2>1, <2>2, <2>3
<1>11. /\ ld \in SomeOp /\ ld.k = "load" /\ ld.ex = "none" /\ Operands(ld) = {a, x}
       /\ st \in SomeOp /\ st.k = "store" /\ st.ex = "none" /\ Operands(st) = {o, b}
       /\ ld.res = NoVal /\ st.res = NoVal
  <2>1. ld \in SomeOp /\ ld.k = "load" /\ ld.ex = "none" /\ st \in SomeOp /\ st.k = "store" /\ st.ex = "none"
    BY <1>2, <1>3, UseIsOp
  <2>2. Operands(ld) = {a, x} /\ Operands(st) = {o, b}
    BY UseOperands
  <2>3. ld.res = NoVal /\ st.res = NoVal
    BY DEF Use, Op
  <2> QED BY <2>1, <2>2, <2>3
<1>12. <<b, a>> \o s \in Seq(Value) /\ <<b, a>> \o s # << >> /\ Range(<<b, a>> \o s) \subseteq {b, a} \cup vals
  <2>1. s \in Seq(vals)
    <3>1. CASE s = << >>
      BY <3>1
    <3>2. ASSUME NEW v \in vals, s = <<v>> PROVE s \in Seq(vals)
      BY <3>2
    <3> QED BY <1>4, <3>1, <3>2
  <2>2. <<b, a>> \in Seq({b, a}) /\ Len(<<b, a>>) = 2 /\ Len(s) \in Nat
    BY <2>1
  <2> DEFINE S == {b, a} \cup vals
             t == <<b, a>> \o s
  <2>3. <<b, a>> \in Seq(S) /\ s \in Seq(S)
    BY <2>1, <2>2
  <2>4. t \in Seq(S) /\ Len(t) = 2 + Len(s)
    BY <2>2, <2>3, ConcatProperties
  <2> HIDE DEF t
  <2>5. Range(t) \subseteq S
    BY <2>4 DEF Range
  <2>6. S \subseteq Value
    BY <1>2, ValIs
  <2>7. t \in Seq(Value)
    BY <2>4, <2>6
  <2>8. Len(t) # 0 /\ Len(<< >>) = 0
    BY <2>2, <2>4
  <2>9. t # << >>
    BY <2>8
  <2> QED BY <2>5, <2>7, <2>9 DEF t
<1>13. /\ k \in SomeOp /\ k.k = "kernel" /\ k.ex = "slice" /\ Operands(k) \subseteq {b, a} \cup vals
       /\ k.res = NoVal
  <2>1. k \in SomeOp /\ k.k = "kernel" /\ k.ex = "slice"
    BY <1>1, <1>12, KernelIsOp
  <2>2. Operands(k) = Range(<<b, a>> \o s)
    BY InvokeOperands
  <2>3. k.res = NoVal
    BY DEF Invoke, Op
  <2> QED BY <1>12, <2>1, <2>2, <2>3
<1>14. /\ fo \in SomeOp /\ fo.k = "forall" /\ fo.ex = "none" /\ Operands(fo) = {} /\ fo.inv = n
       /\ en \in SomeOp /\ en.k = "end" /\ en.ex = "none" /\ Operands(en) = {}
  <2>1. fo \in SomeOp /\ fo.k = "forall" /\ fo.ex = "none"
    BY <1>5, ForallIsOp
  <2>2. en \in SomeOp /\ en.k = "end" /\ en.ex = "none"
    BY EndIsOp
  <2>3. Operands(fo) = {} /\ Operands(en) = {} /\ fo.inv = n
    BY NoOperands DEF Op
  <2> QED BY <2>1, <2>2, <2>3
<1> HIDE DEF k, fo, en, bx, bo, aa, ab, ld, st
<1>15. /\ ops \in Seq(SomeOp) /\ Len(ops) = 9 /\ ops[1] = bx /\ ops[2] = bo /\ ops[3] = fo /\ ops[4] = aa
       /\ ops[5] = ld /\ ops[6] = ab /\ ops[7] = k /\ ops[8] = st /\ ops[9] = en
  BY <1>7, <1>8, <1>9, <1>10, <1>11, <1>13, <1>14
<1> HIDE DEF ops
<1>16. LoopOps(ops) /\ \A j \in 1 .. 9 : ops[j].k # "inv"
  BY <1>7, <1>8, <1>9, <1>10, <1>11, <1>13, <1>14, <1>15 DEF LoopOps
<1>17. \A j \in {1, 2, 3, 4, 6, 9} : Operands(ops[j]) = {}
  BY <1>7, <1>8, <1>9, <1>10, <1>14, <1>15
<1>18. IsBinding(x) /\ IsBinding(o) /\ ~IsBinding(a) /\ ~IsBinding(b)
  BY <1>2, <1>3 DEF IsBinding
<1>19. \A j \in 4 .. 8 : ops[j].res.base = <<0, "none">> \/ ops[j].res.base[1] = Len(ir) + 1
  <2>1. NoVal.base = <<0, "none">>
    BY DEF NoVal, Val
  <2> QED BY <1>2, <1>7, <1>8, <1>11, <1>13, <1>15, <2>1
<1>20. \A v \in vals : v.base[2] \in {"a", "b"} /\ v.base[1] # Len(ir) + 1
  BY ValIs
<1>21. n * Words <= ops[1].res.sz /\ n * Words <= ops[2].res.sz
  BY <1>5, <1>9, <1>10, <1>15 DEF Words
<1>23. /\ ops[3].inv = n /\ Operands(ops[5]) = {a, x} /\ Operands(ops[7]) \subseteq {b, a} \cup vals
       /\ Operands(ops[8]) = {o, b}
  BY <1>11, <1>13, <1>14, <1>15
<1>24. /\ ops[1].res \in Defs(ops[1]) /\ Covers(ops[1].res, x)
       /\ ops[2].res \in Defs(ops[2]) /\ Covers(ops[2].res, o)
       /\ ops[4].res \in Defs(ops[4]) /\ Covers(ops[4].res, a)
       /\ ops[6].res \in Defs(ops[6]) /\ Covers(ops[6].res, b)
  BY <1>7, <1>8, <1>9, <1>10, <1>15
<1>25. Len(ops) = 9
  BY <1>15
<1>26. LoopUses(ops, vals, a, b, x, o, n, Len(ir) + 1)
  BY <1>16, <1>17, <1>18, <1>19, <1>20, <1>21, <1>23, <1>24, <1>25 DEF LoopUses
<1>22. NewDeclared(ops, vals)
  BY <1>26, LoopDeclared
<1> QED BY <1>6, <1>15, <1>22, DeclaredAppend DEF BuildInv

(* The final store uses a value of the function and its binding. *)
LEMMA FinishDeclares ==
  ASSUME BuildInv, Finish
  PROVE  Declared(ir')
PROOF
<1>1. CASE ir' = ir
  BY <1>1 DEF BuildInv
<1>2. ASSUME NEW v \in vals,
             LET o == Fresh("o", "xram", v.sz)
             IN  ir' = ir \o <<BindingOp(o, 1), Use("store", <<o, v>>)>>
      PROVE  Declared(ir')
  <2> DEFINE o == Fresh("o", "xram", v.sz)
             st == Use("store", <<o, v>>)
             ops == <<BindingOp(o, 1), st>>
  <2>1. ir \in Seq(SomeOp) /\ v \in Value /\ v.sz \in Nat /\ v.off \in Nat /\ v.off + v.sz <= Words
    BY ValIs
  <2>2. /\ o \in Value /\ o.base[2] = "o" /\ o.sp = "xram" /\ o.off = 0 /\ o.it = 0 /\ o.sz = v.sz
    BY <2>1, NamesAre, FreshIs
  <2>3. ir' = ir \o ops
    BY <1>2
  <2> HIDE DEF o
  <2>4. o.sz <= Words
    BY <2>1, <2>2 DEF Words
  <2>5. BindingOp(o, 1) \in SomeOp /\ st \in SomeOp
    BY <2>1, <2>2, BindingIsOp, UseIsOp
  <2>6. Operands(BindingOp(o, 1)) = {} /\ Operands(st) = {o, v} /\ st.k = "store"
    BY BindingOperands, UseOperands
  <2>7. /\ Covers(BindingOp(o, 1).res, o) /\ BindingOp(o, 1).res \in Defs(BindingOp(o, 1))
        /\ BindingOp(o, 1).k = "binding"
    BY <2>2, <2>4, BindingCovers
  <2> HIDE DEF st
  <2>8. ops \in Seq(SomeOp) /\ Len(ops) = 2 /\ ops[1] = BindingOp(o, 1) /\ ops[2] = st
    BY <2>5
  <2> HIDE DEF ops
  <2>9. NoLoop(ops)
    BY <2>6, <2>7, <2>8 DEF NoLoop
  <2>10. ASSUME NEW j \in 1 .. 2, NEW u \in Operands(ops[j])
         PROVE  u \in vals \/ \E i \in 1 .. 2 : i < j /\ \E d \in Defs(ops[i]) : Covers(d, u)
    <3>1. j = 2 /\ u \in {o, v}
      BY <2>6, <2>8, <2>10
    <3> QED BY <2>7, <2>8, <3>1
  <2>11. NewDeclared(ops, vals)
    BY <2>8, <2>9, <2>10, StraightDeclared
  <2>12. OneLoop(ir) /\ Declared(ir) /\ ValsDeclared(ir, vals) /\ \A u \in vals : u.base[2] \in {"a", "b"}
    BY ValIs DEF BuildInv, Source
  <2> QED BY <2>1, <2>3, <2>8, <2>9, <2>11, <2>12, AppendDeclared
<1> QED BY <1>1, <1>2 DEF Finish

(* Every step of the source keeps operands declared before they are      *)
(* used.                                                                 *)
LEMMA BuildDeclares ==
  ASSUME BuildInv, Build
  PROVE  Declared(ir') /\ ValsDeclared(ir', vals')
PROOF
  BY LoadDeclares, KernelDeclares, KernelIntoDeclares, ViewDeclares, CssDeclares, HostDeclares,
     ForallDeclares DEF Build

(* The code of a program near it: each of these covers itself. *)
LEMMA NearCovers ==
  ASSUME NEW inv \in InvRec, NEW nm \in {"lc", "ic", "lg", "dg"}, NEW sp \in Spaces
  PROVE  LET v == Near(inv, nm, sp)
         IN  /\ Covers(AllocOp(v).res, v) /\ AllocOp(v).res \in Defs(AllocOp(v))
             /\ ~IsBinding(v) /\ \A x \in Bases(AllocOp(v)) : x[2] \notin {"a", "b"}
PROOF
<1> DEFINE v == Near(inv, nm, sp)
<1>1. v \in Value /\ v.base[2] = nm
  BY NearTyped DEF Names
<1>2. v.off = 0
  BY DEF Near, Val
<1>3. AllocOp(v).res = v /\ AllocOp(v).k = "alloc"
  BY DEF AllocOp, Op
<1> HIDE DEF v
<1>4. Covers(AllocOp(v).res, v) /\ AllocOp(v).res \in Defs(AllocOp(v))
  BY <1>1, <1>2, SelfCovers
<1>5. ~IsBinding(v) /\ \A x \in Bases(AllocOp(v)) : x[2] \notin {"a", "b"}
  BY <1>1, <1>3 DEF IsBinding, Bases
<1> QED BY <1>4, <1>5 DEF v

(* A code section covers itself. *)
LEMMA SectionCovers ==
  ASSUME NEW inv \in InvRec, NEW j \in 1 .. 2
  PROVE  LET v == Section(inv, j) IN Covers(v, v) /\ ~IsBinding(v) /\ v.base[2] \notin {"a", "b"}
PROOF
<1> DEFINE v == Section(inv, j)
<1>1. v \in Value /\ v.base[2] \in {"c", "g"}
  BY NearTyped
<1>2. v.off = 0
  BY DEF Section, Val
<1> HIDE DEF v
<1>3. v.off + v.sz <= v.sz
  BY <1>1, <1>2 DEF Value
<1> QED BY <1>1, <1>3 DEF Covers, IsBinding, v

(* An operation without a result defines no buffer of the source. *)
LEMMA PlainBases ==
  ASSUME NEW op, op.k # "inv", op.res = NoVal
  PROVE  \A x \in Bases(op) : x[2] \notin {"a", "b"}
PROOF
  BY DEF Bases, NoVal, Val

(* An invocation defines its code sections. *)
LEMMA InvBases ==
  ASSUME NEW inv \in InvRec, NEW ex
  PROVE  /\ \A x \in Bases(InvOp(inv, ex, << >>)) : x[2] \notin {"a", "b"}
         /\ \A x \in Bases(InvOp(inv, ex, <<Section(inv, 1)>>)) : x[2] \notin {"a", "b"}
         /\ \A x \in Bases(InvOp(inv, ex, <<Section(inv, 1), Section(inv, 2)>>)) : x[2] \notin {"a", "b"}
         /\ Section(inv, 1) \in Defs(InvOp(inv, ex, <<Section(inv, 1)>>))
         /\ Section(inv, 1) \in Defs(InvOp(inv, ex, <<Section(inv, 1), Section(inv, 2)>>))
         /\ Section(inv, 2) \in Defs(InvOp(inv, ex, <<Section(inv, 1), Section(inv, 2)>>))
PROOF
<1> DEFINE u == Section(inv, 1)
           w == Section(inv, 2)
<1>1. u.base[2] \notin {"a", "b"} /\ w.base[2] \notin {"a", "b"}
  BY SectionCovers
<1>2. NoVal.base[2] = "none"
  BY DEF NoVal, Val
<1> HIDE DEF u, w
<1>3. Range(<< >>) = {} /\ Range(<<u>>) = {u} /\ Range(<<u, w>>) = {u, w}
  BY RangeOf
<1>4. ASSUME NEW code, \A v \in Range(code) : v.base[2] \notin {"a", "b"}
      PROVE  /\ \A x \in Bases(InvOp(inv, ex, code)) : x[2] \notin {"a", "b"}
             /\ Defs(InvOp(inv, ex, code)) = Range(code)
  <2>1. InvOp(inv, ex, code).k = "inv" /\ InvOp(inv, ex, code).res = NoVal /\ InvOp(inv, ex, code).code = code
    BY DEF InvOp, Op
  <2> QED BY <1>2, <1>4, <2>1 DEF Bases, Defs
<1>5. /\ \A x \in Bases(InvOp(inv, ex, << >>)) : x[2] \notin {"a", "b"}
      /\ \A x \in Bases(InvOp(inv, ex, <<u>>)) : x[2] \notin {"a", "b"}
      /\ \A x \in Bases(InvOp(inv, ex, <<u, w>>)) : x[2] \notin {"a", "b"}
  BY <1>1, <1>3, <1>4
<1>6. /\ u \in Defs(InvOp(inv, ex, <<u>>)) /\ u \in Defs(InvOp(inv, ex, <<u, w>>))
      /\ w \in Defs(InvOp(inv, ex, <<u, w>>))
  BY <1>1, <1>3, <1>4
<1> QED BY <1>5, <1>6 DEF u, w

(* The block of a slice program uses its code buffers after they are     *)
(* allocated.                                                            *)
LEMMA SliceBlockDeclares ==
  ASSUME NEW op \in SomeOp, op.inv \in InvRec
  PROVE  BlockDeclares(op, SliceBlock(op))
PROOF
<1> DEFINE lc == Near(op.inv, "lc", "lram")
           c == Section(op.inv, 1)
           i1 == InvOp(op.inv, "slice", <<c>>)
           a2 == AllocOp(lc)
           u3 == Use("load", <<lc, c>>)
           s4 == StartOp(op.inv, "slice", <<lc>>, op.args)
           w5 == WaitOp(op.inv, "slice")
           b == <<i1, a2, u3, s4, w5>>
<1>1. /\ Covers(a2.res, lc) /\ a2.res \in Defs(a2) /\ ~IsBinding(lc)
      /\ \A x \in Bases(a2) : x[2] \notin {"a", "b"}
  BY NearCovers DEF Spaces
<1>2. Covers(c, c) /\ ~IsBinding(c)
  BY SectionCovers
<1>3. c \in Defs(i1) /\ \A x \in Bases(i1) : x[2] \notin {"a", "b"}
  BY InvBases
<1>4. Operands(u3) = {lc, c} /\ Operands(a2) = {} /\ Operands(w5) = {}
  BY UseOperands, AllocOperands, WaitOperands
<1>5. Operands(s4) = {lc} \cup Range(op.args)
  <2>1. Range(<<lc>>) = {lc}
    BY RangeOf
  <2>2. Operands(s4) = Range(<<lc>>) \cup Range(op.args)
    BY StartOperands
  <2> QED BY <2>1, <2>2
<1>6. Range(op.args) \subseteq Operands(op)
  BY DEF Operands
<1>7. /\ u3.k # "inv" /\ s4.k # "inv" /\ w5.k # "inv" /\ i1.k = "inv"
      /\ u3.res = NoVal /\ s4.res = NoVal /\ w5.res = NoVal
  BY DEF Use, StartOp, WaitOp, InvOp, Op
<1>8. SliceBlock(op) = b
  BY DEF SliceBlock
<1> HIDE DEF lc, c, i1, a2, u3, s4, w5
<1>9. Len(b) = 5 /\ b[1] = i1 /\ b[2] = a2 /\ b[3] = u3 /\ b[4] = s4 /\ b[5] = w5
  OBVIOUS
<1> HIDE DEF b
<1>10. ASSUME NEW j \in 1 .. 5 PROVE \A x \in Bases(b[j]) : x[2] \notin {"a", "b"}
  <2>1. \A x \in Bases(u3) : x[2] \notin {"a", "b"}
    BY <1>7, PlainBases
  <2>2. \A x \in Bases(s4) : x[2] \notin {"a", "b"}
    BY <1>7, PlainBases
  <2>3. \A x \in Bases(w5) : x[2] \notin {"a", "b"}
    BY <1>7, PlainBases
  <2> QED BY <1>1, <1>3, <1>9, <2>1, <2>2, <2>3
<1>11. ASSUME NEW j \in 1 .. 5, b[j].k # "inv", NEW v \in Operands(b[j])
       PROVE  \/ v \in Operands(op)
              \/ ~IsBinding(v) /\ \E e \in 1 .. 5 : e < j /\ \E d \in Defs(b[e]) : Covers(d, v)
  <2>1. \/ j \in {3, 4} /\ v = lc
        \/ j = 3 /\ v = c
        \/ v \in Operands(op)
    BY <1>4, <1>5, <1>6, <1>7, <1>9, <1>11
  <2> QED BY <1>1, <1>2, <1>3, <1>9, <2>1
<1> QED BY <1>8, <1>9, <1>10, <1>11 DEF BlockDeclares

(* The block of a host program uses what its call used. *)
LEMMA HostBlockDeclares ==
  ASSUME NEW op \in SomeOp, op.inv \in InvRec
  PROVE  BlockDeclares(op, HostBlock(op))
PROOF
<1> DEFINE i1 == InvOp(op.inv, "host", << >>)
           s2 == StartOp(op.inv, "host", << >>, op.args)
           w3 == WaitOp(op.inv, "host")
           b == <<i1, s2, w3>>
<1>1. \A x \in Bases(i1) : x[2] \notin {"a", "b"}
  BY InvBases
<1>2. Operands(w3) = {}
  BY WaitOperands
<1>3. Operands(s2) \subseteq Operands(op)
  <2>1. Range(<< >>) = {}
    BY RangeOf
  <2>2. Operands(s2) = Range(<< >>) \cup Range(op.args)
    BY StartOperands
  <2> QED BY <2>1, <2>2 DEF Operands
<1>4. s2.k # "inv" /\ w3.k # "inv" /\ i1.k = "inv" /\ s2.res = NoVal /\ w3.res = NoVal
  BY DEF StartOp, WaitOp, InvOp, Op
<1>5. HostBlock(op) = b
  BY DEF HostBlock
<1> HIDE DEF i1, s2, w3
<1>6. Len(b) = 3 /\ b[1] = i1 /\ b[2] = s2 /\ b[3] = w3
  OBVIOUS
<1> HIDE DEF b
<1>7. ASSUME NEW j \in 1 .. 3 PROVE \A x \in Bases(b[j]) : x[2] \notin {"a", "b"}
  <2>1. \A x \in Bases(s2) : x[2] \notin {"a", "b"}
    BY <1>4, PlainBases
  <2>2. \A x \in Bases(w3) : x[2] \notin {"a", "b"}
    BY <1>4, PlainBases
  <2> QED BY <1>1, <1>6, <2>1, <2>2
<1>8. ASSUME NEW j \in 1 .. 3, b[j].k # "inv", NEW v \in Operands(b[j]) PROVE v \in Operands(op)
  BY <1>2, <1>3, <1>4, <1>6, <1>8
<1> QED BY <1>5, <1>6, <1>7, <1>8 DEF BlockDeclares

(* The block of a CSS program uses its code buffers after they are       *)
(* allocated.                                                            *)
LEMMA CssBlockDeclares ==
  ASSUME NEW op \in SomeOp, op.inv \in InvRec
  PROVE  BlockDeclares(op, CssBlock(op))
PROOF
<1> DEFINE lc == Near(op.inv, "lc", "lram")
           ic == Near(op.inv, "ic", "itcm")
           lg == Near(op.inv, "lg", "lram")
           dg == Near(op.inv, "dg", "dtcm")
           c == Section(op.inv, 1)
           g == Section(op.inv, 2)
           i1 == InvOp(op.inv, "css", <<c, g>>)
           a2 == AllocOp(lc)
           u3 == Use("load", <<lc, c>>)
           a4 == AllocOp(ic)
           u5 == Use("copy", <<ic, lc>>)
           a6 == AllocOp(lg)
           u7 == Use("load", <<lg, g>>)
           a8 == AllocOp(dg)
           u9 == Use("copy", <<dg, lg>>)
           s10 == StartOp(op.inv, "css", <<ic, dg>>, op.args)
           w11 == WaitOp(op.inv, "css")
           b == <<i1, a2, u3, a4, u5, a6, u7, a8, u9, s10, w11>>
<1>1. /\ Covers(a2.res, lc) /\ a2.res \in Defs(a2) /\ ~IsBinding(lc)
      /\ \A x \in Bases(a2) : x[2] \notin {"a", "b"}
  BY NearCovers DEF Spaces
<1>2. /\ Covers(a4.res, ic) /\ a4.res \in Defs(a4) /\ ~IsBinding(ic)
      /\ \A x \in Bases(a4) : x[2] \notin {"a", "b"}
  BY NearCovers DEF Spaces
<1>3. /\ Covers(a6.res, lg) /\ a6.res \in Defs(a6) /\ ~IsBinding(lg)
      /\ \A x \in Bases(a6) : x[2] \notin {"a", "b"}
  BY NearCovers DEF Spaces
<1>4. /\ Covers(a8.res, dg) /\ a8.res \in Defs(a8) /\ ~IsBinding(dg)
      /\ \A x \in Bases(a8) : x[2] \notin {"a", "b"}
  BY NearCovers DEF Spaces
<1>5. Covers(c, c) /\ ~IsBinding(c) /\ Covers(g, g) /\ ~IsBinding(g)
  BY SectionCovers
<1>6. c \in Defs(i1) /\ g \in Defs(i1) /\ \A x \in Bases(i1) : x[2] \notin {"a", "b"}
  BY InvBases
<1>7. /\ Operands(u3) = {lc, c} /\ Operands(u5) = {ic, lc} /\ Operands(u7) = {lg, g}
      /\ Operands(u9) = {dg, lg}
  BY UseOperands
<1>8. /\ Operands(a2) = {} /\ Operands(a4) = {} /\ Operands(a6) = {} /\ Operands(a8) = {}
      /\ Operands(w11) = {}
  BY AllocOperands, WaitOperands
<1>9. Operands(s10) = {ic, dg} \cup Range(op.args)
  <2>1. Range(<<ic, dg>>) = {ic, dg}
    BY RangeOf
  <2>2. Operands(s10) = Range(<<ic, dg>>) \cup Range(op.args)
    BY StartOperands
  <2> QED BY <2>1, <2>2
<1>10. Range(op.args) \subseteq Operands(op)
  BY DEF Operands
<1>11. /\ u3.k # "inv" /\ u5.k # "inv" /\ u7.k # "inv" /\ u9.k # "inv" /\ s10.k # "inv" /\ w11.k # "inv"
       /\ u3.res = NoVal /\ u5.res = NoVal /\ u7.res = NoVal /\ u9.res = NoVal
       /\ s10.res = NoVal /\ w11.res = NoVal /\ i1.k = "inv"
  BY DEF Use, StartOp, WaitOp, InvOp, Op
<1>12. CssBlock(op) = b
  BY DEF CssBlock
<1> HIDE DEF lc, ic, lg, dg, c, g, i1, a2, u3, a4, u5, a6, u7, a8, u9, s10, w11
<1>13. /\ Len(b) = 11 /\ b[1] = i1 /\ b[2] = a2 /\ b[3] = u3 /\ b[4] = a4 /\ b[5] = u5 /\ b[6] = a6
       /\ b[7] = u7 /\ b[8] = a8 /\ b[9] = u9 /\ b[10] = s10 /\ b[11] = w11
  OBVIOUS
<1> HIDE DEF b
<1>14. \A j \in 1 .. 11 : j \in {1, 2, 3, 4, 5, 6, 7, 8, 9, 10, 11}
  OBVIOUS
<1>15. ASSUME NEW j \in 1 .. 11 PROVE \A x \in Bases(b[j]) : x[2] \notin {"a", "b"}
  <2>1. ASSUME NEW o \in {u3, u5, u7, u9, s10, w11} PROVE \A x \in Bases(o) : x[2] \notin {"a", "b"}
    <3>1. o.k # "inv" /\ o.res = NoVal
      BY <1>11
    <3> QED BY <3>1, PlainBases
  <2>2. b[j] \in {u3, u5, u7, u9, s10, w11} \/ b[j] = i1 \/ b[j] = a2 \/ b[j] = a4 \/ b[j] = a6 \/ b[j] = a8
    BY <1>13, <1>14
  <2> QED BY <1>1, <1>2, <1>3, <1>4, <1>6, <2>1, <2>2
<1>16. ASSUME NEW j \in 1 .. 11, b[j].k # "inv", NEW v \in Operands(b[j])
       PROVE  \/ v \in Operands(op)
              \/ ~IsBinding(v) /\ \E e \in 1 .. 11 : e < j /\ \E d \in Defs(b[e]) : Covers(d, v)
  <2>1. \/ j > 2 /\ v = lc
        \/ j > 4 /\ v = ic
        \/ j > 6 /\ v = lg
        \/ j > 8 /\ v = dg
        \/ j > 1 /\ v \in {c, g}
        \/ v \in Operands(op)
    <3>1. CASE j \in {3, 5, 7, 9}
      BY <1>7, <1>13, <1>16, <3>1
    <3>2. CASE j \in {2, 4, 6, 8, 11}
      BY <1>8, <1>13, <1>16, <3>2
    <3>3. CASE j = 10
      BY <1>9, <1>10, <1>13, <1>16, <3>3
    <3>4. j # 1
      BY <1>11, <1>13, <1>16
    <3> QED BY <1>14, <3>1, <3>2, <3>3, <3>4
  <2>2. CASE j > 2 /\ v = lc
    BY <1>1, <1>13, <2>2
  <2>3. CASE j > 4 /\ v = ic
    BY <1>2, <1>13, <2>3
  <2>4. CASE j > 6 /\ v = lg
    BY <1>3, <1>13, <2>4
  <2>5. CASE j > 8 /\ v = dg
    BY <1>4, <1>13, <2>5
  <2>6. CASE j > 1 /\ v \in {c, g}
    BY <1>5, <1>6, <1>13, <2>6
  <2> QED BY <2>1, <2>2, <2>3, <2>4, <2>5, <2>6
<1> QED BY <1>12, <1>13, <1>15, <1>16 DEF BlockDeclares

(* LowerCall and OutlineOp allocate what they add before they use it. *)
LEMMA BlocksDeclare ==
  ASSUME NEW op \in SomeOp, Shape(op)
  PROVE  /\ op.k = "call" => BlockDeclares(op, LowerCall(op))
         /\ op.k = "kernel" => BlockDeclares(op, OutlineOp(op))
PROOF
<1>1. op.k \in {"call", "kernel"} => op.inv \in InvRec
  BY DEF Shape, Launches
<1> QED BY <1>1, BlocksAre, SliceBlockDeclares, HostBlockDeclares, CssBlockDeclares

(* Rewriting calls and kernels keeps every operand defined before its use. *)
LEMMA RewriteDeclares ==
  ASSUME NEW s, Shaped(s), Declared(s), NEW K \in {"call", "kernel"}, NEW ss, Rewritten(s, K, ss),
         \A i \in 1 .. Len(s) : s[i].k = K => BlockDeclares(s[i], ss[i])
  PROVE  Declared(FlattenSeq(ss))
PROOF
<1> DEFINE t == FlattenSeq(ss)
           n == Len(s)
           T == 1 .. Len(t)
<1>1. t \in Seq(SomeOp) /\ \E p : Placed(s, K, ss, t, p)
  BY RewritePlaces
<1>2. PICK p : Placed(s, K, ss, t, p)
  BY <1>1
<1> HIDE DEF t
<1>3. /\ \A k \in T : /\ p[k][1] \in 1 .. n /\ p[k][2] \in 1 .. Len(ss[p[k][1]])
                      /\ p[k] = <<p[k][1], p[k][2]>> /\ t[k] = ss[p[k][1]][p[k][2]]
                      /\ p[k][1] \in Int /\ p[k][2] \in Int
                      /\ s[p[k][1]].k # K => t[k] = s[p[k][1]]
                      /\ t[k].k \in {"forall", "end"} => s[p[k][1]].k # K
                      /\ Inside(t, k) <=> Inside(s, p[k][1])
      /\ \A k, l \in T : k < l <=> Earlier(p[k], p[l])
      /\ \A i \in 1 .. n : \A j \in 1 .. Len(ss[i]) : \E k \in T : p[k] = <<i, j>>
      /\ \A i \in 1 .. n : s[i].k # K => \E k \in T : p[k][1] = i /\ t[k] = s[i]
  BY <1>2 DEF Placed
<1>4. \A i \in 1 .. n : s[i].k = K => BlockDeclares(s[i], ss[i])
  OBVIOUS
<1> HIDE DEF T, n
(* The loop defines no more buffers of the source. *)
<1>5. ASSUME NEW v, Foreign(s, v) PROVE Foreign(t, v)
  <2>1. v.base[2] \in {"a", "b"}
    BY <1>5 DEF Foreign
  <2>2. ASSUME NEW k \in T, Inside(t, k), v.base \in Bases(t[k]) PROVE FALSE
    <3>1. Inside(s, p[k][1]) /\ p[k][1] \in 1 .. n
      BY <1>3, <2>2
    <3>2. CASE s[p[k][1]].k # K
      <4>1. v.base \notin Bases(s[p[k][1]])
        BY <1>5, <3>1 DEF Foreign, n
      <4> QED BY <1>3, <2>2, <3>2, <4>1
    <3>3. CASE s[p[k][1]].k = K
      <4>1. \A x \in Bases(ss[p[k][1]][p[k][2]]) : x[2] \notin {"a", "b"}
        BY <1>3, <1>4, <3>1, <3>3 DEF BlockDeclares
      <4> QED BY <1>3, <2>1, <2>2, <4>1
    <3> QED BY <3>2, <3>3
  <2> QED BY <2>1, <2>2 DEF Foreign, T
<1>6. ASSUME NEW l \in T, t[l].k = "forall" PROVE p[l][1] \in 1 .. n /\ s[p[l][1]] = t[l]
  BY <1>3, <1>6
(* What the operation stood for sees, each of its operations sees. *)
<1>7. ASSUME NEW k \in T, NEW v, Seen(s, p[k][1], v) PROVE Seen(t, k, v)
  <2>1. PICK a \in 1 .. n : a < p[k][1] /\ \E d \in Defs(s[a]) : Covers(d, v) /\ Reaches(s, a, d, p[k][1], v)
    BY <1>7 DEF Seen, n
  <2>2. PICK d \in Defs(s[a]) : Covers(d, v) /\ Reaches(s, a, d, p[k][1], v)
    BY <2>1
  <2>3. s[a].k # K
    BY <2>2 DEF Defs
  <2>4. PICK c \in T : p[c][1] = a /\ t[c] = s[a]
    BY <1>3, <2>3
  <2>5. c < k
    BY <1>3, <2>1, <2>4 DEF Earlier
  <2>6. (Inside(t, c) <=> Inside(s, a)) /\ (Inside(t, k) <=> Inside(s, p[k][1]))
    BY <1>3, <2>4
  <2>7. Reaches(t, c, d, k, v)
    <3>1. Inside(t, c) => Inside(t, k) /\ ~IsBinding(v)
      BY <2>2, <2>6 DEF Reaches
    <3>2. Inside(t, k) /\ ~Inside(t, c) /\ ~IsBinding(v) => Foreign(t, v)
      BY <1>5, <2>2, <2>6 DEF Reaches
    <3>3. Inside(t, k) /\ IsBinding(v) =>
            \A l \in 1 .. Len(t) : t[l].k = "forall" => t[l].inv * Words <= d.sz
      BY <1>6, <2>2, <2>6 DEF Reaches, T, n
    <3> QED BY <3>1, <3>2, <3>3 DEF Reaches
  <2> QED BY <2>2, <2>4, <2>5, <2>7 DEF Seen, T
<1>8. ASSUME NEW k \in T, t[k].k # "inv", NEW v \in Operands(t[k]) PROVE Seen(t, k, v)
  <2> DEFINE i == p[k][1]
             j == p[k][2]
  <2>1. i \in 1 .. n /\ j \in 1 .. Len(ss[i]) /\ t[k] = ss[i][j] /\ p[k] = <<i, j>> /\ i \in Int /\ j \in Int
    BY <1>3
  <2>2. CASE v \in Operands(s[i]) /\ s[i].k # "inv"
    <3>1. Seen(s, i, v)
      BY <2>1, <2>2 DEF Declared, n
    <3> QED BY <1>7, <3>1
  <2>3. CASE s[i].k # K
    <3>1. t[k] = s[i]
      BY <1>3, <2>3
    <3> QED BY <1>8, <2>2, <3>1
  <2> HIDE DEF i, j
  <2>4. CASE s[i].k = K /\ v \notin Operands(s[i])
    <3>1. PICK c \in 1 .. Len(ss[i]) : c < j /\ ~IsBinding(v) /\ \E d \in Defs(ss[i][c]) : Covers(d, v)
      BY <1>4, <1>8, <2>1, <2>4 DEF BlockDeclares
    <3>2. PICK d \in Defs(ss[i][c]) : Covers(d, v)
      BY <3>1
    <3>3. PICK l \in T : p[l] = <<i, c>>
      BY <1>3, <2>1
    <3>4. p[l][1] = i /\ p[l][2] = c /\ t[l] = ss[i][c]
      BY <1>3, <3>3
    <3>5. l < k
      <4>1. p[k][1] = i /\ p[k][2] = j
        BY <2>1
      <4>2. Earlier(p[l], p[k])
        BY <3>1, <3>4, <4>1 DEF Earlier
      <4> QED BY <1>3, <4>2
    <3>6. Inside(t, l) <=> Inside(t, k)
      <4>1. p[k][1] = i
        BY <2>1
      <4> QED BY <1>3, <3>4, <4>1
    <3>7. Reaches(t, l, d, k, v)
      BY <3>1, <3>6 DEF Reaches
    <3> QED BY <3>2, <3>4, <3>5, <3>7 DEF Seen, T
  <2>5. K # "inv"
    OBVIOUS
  <2> QED BY <2>2, <2>3, <2>4, <2>5 DEF i
<1>9. Declared(t)
  BY <1>8 DEF Declared, T
<1> QED BY <1>9 DEF t

(* Both passes keep operands declared before they are used. *)
LEMMA PassesDeclare ==
  ASSUME Looped(ir), Declared(ir), LowerCalls \/ OutlineSlices
  PROVE  Declared(ir')
PROOF
<1> DEFINE K == IF LowerCalls THEN "call" ELSE "kernel"
           ss == [i \in DOMAIN ir |->
                    IF ir[i].k = K THEN IF LowerCalls THEN LowerCall(ir[i]) ELSE OutlineOp(ir[i])
                                   ELSE <<ir[i]>>]
<1>1. /\ ir \in Seq(SomeOp) /\ DOMAIN ir = 1 .. Len(ir) /\ Shaped(ir)
      /\ \A i \in 1 .. Len(ir) : ir[i] \in SomeOp /\ Shape(ir[i])
  BY DEF Looped, Shaped
<1>2. ir' = FlattenSeq(ss)
  <2>1. CASE LowerCalls
    BY <2>1 DEF LowerCalls, Rewrite
  <2>2. CASE ~LowerCalls
    BY <2>2 DEF OutlineSlices, Rewrite
  <2> QED BY <2>1, <2>2
<1>3. /\ \A i \in 1 .. Len(ir) : IF ir[i].k = K THEN BlockOf(ir[i], ss[i]) ELSE ss[i] = <<ir[i]>>
      /\ \A i \in 1 .. Len(ir) : ir[i].k = K => BlockDeclares(ir[i], ss[i])
  BY <1>1, BlocksOf, BlocksDeclare
<1>4. Len(ss) = Len(ir) /\ ss = [i \in 1 .. Len(ir) |-> ss[i]]
  BY <1>1
<1>5. K \in {"call", "kernel"}
  OBVIOUS
<1> HIDE DEF ss, K
<1>6. \A i \in 1 .. Len(ir) : ss[i] \in Seq(SomeOp)
  <2>1. \A x \in SomeOp : <<x>> \in Seq(SomeOp)
    OBVIOUS
  <2> QED BY <1>1, <1>3, <2>1 DEF BlockOf
<1>7. ss \in Seq(Seq(SomeOp))
  BY <1>1, <1>4, <1>6
<1>8. Rewritten(ir, K, ss)
  BY <1>3, <1>4, <1>7 DEF Rewritten
<1>9. Declared(FlattenSeq(ss))
  BY <1>1, <1>3, <1>5, <1>8, RewriteDeclares
<1> QED BY <1>2, <1>9

(* The operation of an iteration uses and defines the iteration's        *)
(* copies.                                                               *)
LEMMA CopyMade ==
  ASSUME NEW body, NEW op \in SomeOp, NEW i \in Nat
  PROVE  LET o == CopyOf(body, op, i)
         IN  /\ o.k = op.k
             /\ \A u \in Operands(o) : \E v \in Operands(op) : u = CopyVal(body, v, i)
             /\ \A d \in Defs(op) : CopyVal(body, d, i) \in Defs(o)
PROOF
<1> DEFINE All(s) == [j \in DOMAIN s |-> CopyVal(body, s[j], i)]
           inv == IF op.inv = << >> THEN op.inv ELSE [op.inv EXCEPT !.it = i]
           o == CopyOf(body, op, i)
<1>1. o = [op EXCEPT !.res = CopyVal(body, op.res, i), !.args = All(op.args), !.code = All(op.code),
                     !.inv = inv]
  BY DEF CopyOf, CopyVal, SomeOp
<1> HIDE DEF All, inv, o
<1>2. /\ o.k = op.k /\ o.res = CopyVal(body, op.res, i)
      /\ o.args = All(op.args) /\ o.code = All(op.code)
  <2> HIDE DEF Value
  <2> QED BY <1>1 DEF SomeOp
<1>3. ASSUME NEW s PROVE /\ \A u \in Range(All(s)) : \E v \in Range(s) : u = CopyVal(body, v, i)
                         /\ \A v \in Range(s) : CopyVal(body, v, i) \in Range(All(s))
  BY DEF All, Range
<1>4. \A u \in Operands(o) : \E v \in Operands(op) : u = CopyVal(body, v, i)
  BY <1>2, <1>3 DEF Operands
<1>5. \A d \in Defs(op) : CopyVal(body, d, i) \in Defs(o)
  BY <1>2, <1>3 DEF Defs
<1> QED BY <1>2, <1>4, <1>5 DEF o

(* What a loop body defines. *)
LEMMA DefinedIs ==
  ASSUME NEW ops
  PROVE  Defined(ops) = UNION {Bases(ops[i]) : i \in DOMAIN ops}
PROOF
  BY DEF Defined, Bases

(* A definition is a value. *)
LEMMA DefTyped ==
  ASSUME NEW op \in SomeOp, NEW d \in Defs(op)
  PROVE  d \in Value /\ d.base \in Bases(op)
PROOF
<1>1. op.res \in Value /\ op.code \in Seq(Value)
  BY DEF SomeOp
<1>2. \A v \in Range(op.code) : v \in Value
  <2> HIDE DEF Value
  <2> QED BY <1>1 DEF Range
<1> QED BY <1>1, <1>2 DEF Defs, Bases

(* An operand is a value. *)
LEMMA OperandTyped ==
  ASSUME NEW op \in SomeOp, NEW v \in Operands(op)
  PROVE  v \in Value
PROOF
<1>1. op.args \in Seq(Value) /\ op.code \in Seq(Value)
  BY DEF SomeOp
<1>2. \A x \in Range(op.code) \cup Range(op.args) : x \in Value
  <2> HIDE DEF Value
  <2> QED BY <1>1 DEF Range
<1> QED BY <1>2 DEF Operands

(* In the unrolled function every operand is allocated before it is      *)
(* used, by the same iteration if the loop allocates it.                 *)
LEMMA UnrollsAllocated ==
  ASSUME NEW s, s \in Seq(SomeOp), Declared(s), NEW L, NEW E, LoopIs(s, L, E),
         NEW n \in Nat, n = s[L].inv,
         NEW body, body \in Seq(SomeOp), Len(body) = E - L - 1,
         \A b \in 1 .. E - L - 1 : body[b] = s[L + b],
         NEW t \in Seq(SomeOp), NEW g, Unrolls(s, L, E, body, n, t, g)
  PROVE  Allocated(t)
PROOF
<1> DEFINE N == 1 .. Len(s)
           T == 1 .. Len(t)
<1>1. /\ \A k \in T : /\ g[k][1] \in N /\ g[k][1] # L /\ g[k][1] # E
                      /\ g[k] = <<g[k][1], g[k][2]>>
                      /\ In(L, E, g[k][1]) => g[k][2] \in 0 .. n - 1 /\ t[k] = CopyOf(body, s[g[k][1]], g[k][2])
                      /\ ~In(L, E, g[k][1]) => g[k][2] = 0 /\ t[k] = s[g[k][1]]
      /\ \A j \in N : \A i \in 0 .. n - 1 : In(L, E, j) => \E k \in T : g[k] = <<j, i>>
      /\ \A j \in N : ~In(L, E, j) /\ j # L /\ j # E => \E k \in T : g[k] = <<j, 0>>
      /\ \A k, l \in T :
           g[k][1] < g[l][1] /\ (g[k][2] = g[l][2] \/ ~In(L, E, g[k][1]) \/ ~In(L, E, g[l][1])) => k < l
  BY DEF Unrolls
<1>2. /\ \A j \in N : s[j] \in SomeOp
      /\ \A j \in N : (s[j].k = "forall" <=> j = L) /\ (s[j].k = "end" <=> j = E)
      /\ \A j \in N : Inside(s, j) <=> In(L, E, j)
      /\ L \in N /\ E \in N /\ L \in Int /\ E \in Int
  <2>1. \A j \in N : Inside(s, j) <=> In(L, E, j)
    BY InsideIs DEF In
  <2>2. \A j \in N : s[j] \in SomeOp
    BY ElementOfSeq
  <2> HIDE DEF SomeOp
  <2>3. /\ \A j \in N : (s[j].k = "forall" <=> j = L) /\ (s[j].k = "end" <=> j = E)
        /\ L \in N /\ E \in N /\ L \in Int /\ E \in Int
    BY DEF LoopIs
  <2> QED BY <2>1, <2>2, <2>3
<1>3. \A j \in N : In(L, E, j) => j - L \in 1 .. E - L - 1 /\ body[j - L] = s[j]
  <2> TAKE j \in N
  <2> HAVE In(L, E, j)
  <2>1. j - L \in 1 .. E - L - 1 /\ L + (j - L) = j
    BY <1>2 DEF In
  <2> QED BY <2>1
(* What the loop defines. *)
<1>4. ASSUME NEW j \in N, In(L, E, j), NEW d \in Defs(s[j]) PROVE d.base \in Defined(body)
  <2>1. d.base \in Bases(s[j])
    BY <1>2, DefTyped
  <2>2. j - L \in DOMAIN body /\ body[j - L] = s[j]
    BY <1>3, <1>4
  <2> QED BY <2>1, <2>2, DefinedIs
<1>5. ASSUME NEW v, Foreign(s, v) PROVE v.base \notin Defined(body)
  <2>1. SUFFICES ASSUME NEW b \in DOMAIN body, v.base \in Bases(body[b]) PROVE FALSE
    BY DefinedIs
  <2>2. b \in 1 .. E - L - 1 /\ E - L - 1 \in Int /\ b \in Int
    BY <1>2
  <2>3. L + b \in N /\ In(L, E, L + b)
    <3>1. Len(s) \in Nat /\ 1 <= L /\ E <= Len(s) /\ L \in Int /\ E \in Int
      BY <1>2
    <3>2. L < L + b /\ L + b < E /\ L + b \in Int
      <4>1. \A x, l, e \in Int : x \in 1 .. e - l - 1 => l < l + x /\ l + x < e /\ l + x \in Int
        OBVIOUS
      <4> QED BY <2>2, <3>1, <4>1
    <3> HIDE DEF SomeOp
    <3> QED BY <3>1, <3>2 DEF In
  <2>4. body[b] = s[L + b]
    BY <2>2
  <2> QED BY <1>2, <1>5, <2>1, <2>3, <2>4 DEF Foreign, N
<1> HIDE DEF N, T
<1>6. ASSUME NEW k \in T, t[k].k # "inv", NEW u \in Operands(t[k])
      PROVE  \E c \in T : c < k /\ \E d \in Defs(t[c]) : Covers(d, u)
  <2> DEFINE i == g[k][1]
             it == g[k][2]
  <2>1. i \in N /\ s[i] \in SomeOp /\ i # L /\ i # E
    BY <1>1, <1>2
  <2>2. CASE ~In(L, E, i)
    <3>1. t[k] = s[i] /\ it = 0
      BY <1>1, <2>2
    <3>2. PICK a \in N : a < i /\ \E d \in Defs(s[a]) : Covers(d, u) /\ Reaches(s, a, d, i, u)
      BY <1>6, <2>1, <3>1 DEF Declared, Seen, N
    <3>3. PICK d \in Defs(s[a]) : Covers(d, u) /\ Reaches(s, a, d, i, u)
      BY <3>2
    <3>4. ~In(L, E, a)
      BY <1>2, <2>1, <2>2, <3>3 DEF Reaches
    <3>5. a # L /\ a # E
      BY <1>2, <3>3 DEF Defs
    <3>6. PICK c \in T : g[c] = <<a, 0>>
      BY <1>1, <3>4, <3>5
    <3>7. g[c][1] = a /\ t[c] = s[a]
      BY <1>1, <3>4, <3>6
    <3>8. c < k
      BY <1>1, <2>2, <3>2, <3>7
    <3> QED BY <3>3, <3>7, <3>8
  <2>3. CASE In(L, E, i)
    <3>1. it \in 0 .. n - 1 /\ it \in Nat /\ t[k] = CopyOf(body, s[i], it)
      BY <1>1, <2>3
    <3> HIDE DEF it
    <3>2. t[k].k = s[i].k /\ \E v \in Operands(s[i]) : u = CopyVal(body, v, it)
      <4> DEFINE o == CopyOf(body, s[i], it)
      <4>1. o.k = s[i].k /\ \A x \in Operands(o) : \E v \in Operands(s[i]) : x = CopyVal(body, v, it)
        BY <2>1, <3>1, CopyMade
      <4>2. t[k] = o /\ u \in Operands(t[k])
        BY <1>6, <3>1
      <4> HIDE DEF o
      <4> QED BY <4>1, <4>2
    <3>3. PICK v \in Operands(s[i]) : u = CopyVal(body, v, it)
      BY <3>2
    <3>4. PICK a \in N : a < i /\ \E d \in Defs(s[a]) : Covers(d, v) /\ Reaches(s, a, d, i, v)
      BY <1>6, <2>1, <3>2 DEF Declared, Seen, N
    <3>5. PICK d \in Defs(s[a]) : Covers(d, v) /\ Reaches(s, a, d, i, v)
      BY <3>4
    <3>6. v \in Value /\ d \in Value /\ s[a] \in SomeOp
      BY <1>2, <2>1, <3>3, <3>5, OperandTyped, DefTyped
    <3>7. /\ u \in Value /\ u.base = v.base /\ u.sp = v.sp /\ u.sz = v.sz /\ u.off = v.off
          /\ IsBinding(u) <=> IsBinding(v)
      BY <3>1, <3>3, <3>6, CopyValTyped DEF IsBinding
    <3>8. a # L /\ a # E
      BY <1>2, <3>5 DEF Defs
    <3>9. CASE In(L, E, a)
      <4>1. PICK c \in T : g[c] = <<a, it>>
        BY <1>1, <3>1, <3>9
      <4>2. g[c][1] = a /\ g[c][2] = it /\ t[c] = CopyOf(body, s[a], it)
        BY <1>1, <3>9, <4>1
      <4>3. c < k
        BY <1>1, <3>4, <4>2 DEF it
      <4>4. ~IsBinding(v) /\ d.base = v.base
        BY <1>2, <2>1, <3>5, <3>9 DEF Reaches, Covers
      <4>5. v.base \in Defined(body)
        BY <1>4, <3>5, <3>9, <4>4
      <4>6. u.it = it /\ CopyVal(body, d, it).it = it
        BY <3>3, <3>6, <4>4, <4>5 DEF CopyVal, Value
      <4>7. /\ CopyVal(body, d, it).base = d.base /\ CopyVal(body, d, it).sp = d.sp
            /\ CopyVal(body, d, it).sz = d.sz
        BY <3>1, <3>6, CopyValTyped
      <4>8. Covers(CopyVal(body, d, it), u)
        BY <3>5, <3>7, <4>4, <4>6, <4>7 DEF Covers
      <4>9. CopyVal(body, d, it) \in Defs(t[c])
        BY <3>1, <3>5, <3>6, <4>2, CopyMade
      <4> QED BY <4>3, <4>8, <4>9
    <3>10. CASE ~In(L, E, a)
      <4>1. PICK c \in T : g[c] = <<a, 0>>
        BY <1>1, <3>8, <3>10
      <4>2. g[c][1] = a /\ t[c] = s[a]
        BY <1>1, <3>10, <4>1
      <4>3. c < k
        BY <1>1, <3>4, <3>10, <4>2
      <4>4. CASE IsBinding(v)
        <5>1. s[L].inv * Words <= d.sz
          BY <1>2, <2>1, <2>3, <3>5, <4>4 DEF Reaches, N
        <5>2. (it + 1) * Words <= d.sz
          <6>1. d.sz \in Nat
            BY <3>6 DEF Value
          <6>2. it + 1 <= n /\ n * Words <= d.sz
            <7> HIDE DEF Value, SomeOp
            <7> QED BY <3>1, <5>1
          <6>3. (it + 1) * Words <= n * Words /\ (it + 1) * Words \in Int /\ n * Words \in Int
            <7>1. it \in Int /\ n \in Int
              BY <3>1
            <7>2. \A x, y \in Int : x + 1 <= y => /\ (x + 1) * 2 <= y * 2
                                                 /\ (x + 1) * 2 \in Int /\ y * 2 \in Int
              OBVIOUS
            <7> HIDE DEF Value, SomeOp, i
            <7> QED BY <6>2, <7>1, <7>2 DEF Words
          <6>4. \A x, y, z \in Int : x <= y /\ y <= z => x <= z
            OBVIOUS
          <6> HIDE DEF Words
          <6> QED BY <6>1, <6>2, <6>3, <6>4
        <5>3. u.it = it
          BY <3>3, <3>6, <4>4 DEF CopyVal, Value
        <5>4. Covers(d, u)
          BY <3>5, <3>7, <4>4, <5>2, <5>3 DEF Covers
        <5> QED BY <3>5, <4>2, <4>3, <5>4
      <4>5. CASE ~IsBinding(v)
        <5>1. Foreign(s, v)
          BY <1>2, <2>1, <2>3, <3>5, <3>10, <4>5 DEF Reaches
        <5>2. u = v
          BY <1>5, <3>3, <4>5, <5>1 DEF CopyVal
        <5> QED BY <3>5, <4>2, <4>3, <5>2
      <4> QED BY <4>4, <4>5
    <3> QED BY <3>9, <3>10
  <2> QED BY <2>2, <2>3
<1> QED BY <1>6 DEF Allocated, T

(* The pass that unrolls the loop. *)
LEMMA UnrollAllocates ==
  ASSUME Looped(ir), Declared(ir), UnrollForall
  PROVE  Allocated(ir')
PROOF
<1>1. ir \in Seq(SomeOp) /\ Len(ir) \in Nat
  BY DEF Looped, Shaped
<1>2. CASE HasLoop
  <2>1. /\ LoopIs(ir, LoopAt, EndAt) /\ Bound \in Nat
        /\ ir' \in Seq(SomeOp) /\ \E g : Unrolls(ir, LoopAt, EndAt, Body, Bound, ir', g)
    BY <1>2, UnrollMaps
  <2> DEFINE L == LoopAt
             E == EndAt
             n == Bound
             body == Body
             t == ir'
  <2>2. body = SubSeq(ir, L + 1, E - 1) /\ n = ir[L].inv
    BY DEF Body, Bound
  <2>3. LoopIs(ir, L, E) /\ n \in Nat /\ t \in Seq(SomeOp) /\ \E g : Unrolls(ir, L, E, body, n, t, g)
    BY <2>1
  <2> HIDE DEF L, E, n, body, t
  <2>4. /\ body \in Seq(SomeOp) /\ Len(body) = E - L - 1
        /\ \A b \in 1 .. E - L - 1 : body[b] = ir[L + b]
    <3>1. L + 1 \in Int /\ E - 1 \in Int /\ L \in 1 .. Len(ir) /\ E \in 1 .. Len(ir) /\ L < E
          /\ \A i \in L + 1 .. E - 1 : i \in 1 .. Len(ir)
      BY <1>1, <2>3 DEF LoopIs
    <3>2. \A i \in L + 1 .. E - 1 : ir[i] \in SomeOp
      BY <1>1, <3>1
    <3>3. /\ body \in Seq(SomeOp)
          /\ Len(body) = IF L + 1 <= E - 1 THEN (E - 1) - (L + 1) + 1 ELSE 0
          /\ \A i \in 1 .. (E - 1) - (L + 1) + 1 : body[i] = ir[L + 1 + i - 1]
      BY <2>2, <3>1, <3>2, SubSeqProperties
    <3>4. (IF L + 1 <= E - 1 THEN (E - 1) - (L + 1) + 1 ELSE 0) = E - L - 1
      BY <3>1
    <3>5. \A i \in 1 .. E - L - 1 : i \in 1 .. (E - 1) - (L + 1) + 1 /\ L + 1 + i - 1 = L + i
      BY <1>1, <3>1
    <3> QED BY <3>3, <3>4, <3>5
  <2>5. PICK g : Unrolls(ir, L, E, body, n, t, g)
    BY <2>3
  <2>6. Allocated(t)
    BY <1>1, <2>2, <2>3, <2>4, <2>5, UnrollsAllocated
  <2> QED BY <2>6 DEF t
<1>3. CASE ~HasLoop
  <2>1. ir' = ir
    BY <1>3 DEF UnrollForall
  <2>2. Allocated(ir)
    BY DEF Declared, Seen, Allocated
  <2> QED BY <2>1, <2>2
<1> QED BY <1>2, <1>3

(* The passes that lower calls and kernels deallocate nothing. *)
LEMMA PassesFreeNothing ==
  ASSUME Looped(ir), NothingFreed(ir), LowerCalls \/ OutlineSlices
  PROVE  NothingFreed(ir')
PROOF
<1> DEFINE K == IF LowerCalls THEN "call" ELSE "kernel"
           ss == [i \in DOMAIN ir |->
                    IF ir[i].k = K THEN IF LowerCalls THEN LowerCall(ir[i]) ELSE OutlineOp(ir[i])
                                   ELSE <<ir[i]>>]
           t == FlattenSeq(ss)
<1>1. /\ ir \in Seq(SomeOp) /\ DOMAIN ir = 1 .. Len(ir) /\ Shaped(ir)
      /\ \A i \in 1 .. Len(ir) : ir[i] \in SomeOp /\ Shape(ir[i])
  BY DEF Looped, Shaped
<1>2. ir' = t
  <2>1. CASE LowerCalls
    BY <2>1 DEF LowerCalls, Rewrite
  <2>2. CASE ~LowerCalls
    BY <2>2 DEF OutlineSlices, Rewrite
  <2> QED BY <2>1, <2>2
<1>3. \A i \in 1 .. Len(ir) : IF ir[i].k = K THEN BlockOf(ir[i], ss[i]) ELSE ss[i] = <<ir[i]>>
  BY <1>1, BlocksOf
<1>4. Len(ss) = Len(ir) /\ ss = [i \in 1 .. Len(ir) |-> ss[i]]
  BY <1>1
<1>5. K \in {"call", "kernel"}
  OBVIOUS
<1> HIDE DEF ss, K
<1>6. \A i \in 1 .. Len(ir) : ss[i] \in Seq(SomeOp)
  <2>1. \A x \in SomeOp : <<x>> \in Seq(SomeOp)
    OBVIOUS
  <2> QED BY <1>1, <1>3, <2>1 DEF BlockOf
<1>7. ss \in Seq(Seq(SomeOp))
  BY <1>1, <1>4, <1>6
<1>8. Rewritten(ir, K, ss)
  BY <1>3, <1>4, <1>7 DEF Rewritten
<1>9. PICK p : Placed(ir, K, ss, t, p)
  BY <1>1, <1>5, <1>8, RewritePlaces
<1> HIDE DEF t
<1>10. ASSUME NEW k \in 1 .. Len(t) PROVE t[k].k # "dealloc"
  <2>1. /\ p[k][1] \in 1 .. Len(ir) /\ p[k][2] \in 1 .. Len(ss[p[k][1]]) /\ t[k] = ss[p[k][1]][p[k][2]]
        /\ ir[p[k][1]].k # K => t[k] = ir[p[k][1]]
    BY <1>9 DEF Placed
  <2>2. CASE ir[p[k][1]].k # K
    BY <2>1, <2>2 DEF NothingFreed
  <2>3. CASE ir[p[k][1]].k = K
    BY <1>3, <2>1, <2>3 DEF BlockOf
  <2> QED BY <2>2, <2>3
<1> QED BY <1>2, <1>10 DEF NothingFreed

(* Nor does unrolling. *)
LEMMA UnrollFreesNothing ==
  ASSUME Looped(ir), NothingFreed(ir), UnrollForall
  PROVE  NothingFreed(ir')
PROOF
<1>1. CASE HasLoop
  <2>1. PICK g : Unrolls(ir, LoopAt, EndAt, Body, Bound, ir', g)
    BY <1>1, UnrollMaps
  <2> DEFINE L == LoopAt
             E == EndAt
             n == Bound
             body == Body
             t == ir'
  <2>2. Unrolls(ir, L, E, body, n, t, g)
    BY <2>1
  <2> HIDE DEF L, E, n, body, t
  <2>3. ASSUME NEW k \in 1 .. Len(t) PROVE t[k].k # "dealloc"
    <3>1. /\ g[k][1] \in 1 .. Len(ir)
          /\ \/ t[k] = CopyOf(body, ir[g[k][1]], g[k][2])
             \/ t[k] = ir[g[k][1]]
      BY <2>2 DEF Unrolls
    <3>2. ir[g[k][1]].k # "dealloc" /\ ir[g[k][1]] \in SomeOp
      BY <3>1 DEF NothingFreed, Looped, Shaped
    <3>3. CopyOf(body, ir[g[k][1]], g[k][2]).k = ir[g[k][1]].k
      BY <3>2 DEF CopyOf, SomeOp
    <3> QED BY <3>1, <3>2, <3>3
  <2>4. NothingFreed(t)
    BY <2>3 DEF NothingFreed
  <2> QED BY <2>4 DEF t
<1>2. CASE ~HasLoop
  BY <1>2 DEF UnrollForall
<1> QED BY <1>1, <1>2

(* The canonicalizer keeps what AddDeallocationPass relies on: a view    *)
(* that is used is kept.                                                 *)
LEMMA CanonicalizeReady ==
  ASSUME Ready(ir), Canonicalize
  PROVE  Ready(ir')
PROOF
<1>1. ir \in Seq(SomeOp) /\ Len(ir) \in Nat
  BY DEF Ready, Shaped
<1>2. PICK g : Remains(ir, 1, ir', g)
  BY <1>1, CanonicalizeRemains
<1> DEFINE t == ir'
           T == 1 .. Len(t)
<1>3. /\ t \in Seq(SomeOp) /\ Len(t) \in Nat
      /\ \A k \in T : g[k] \in 1 .. Len(ir) /\ t[k] = ir[g[k]]
      /\ \A m \in 1 .. Len(ir) : ir[m].k # "view" => \E k \in T : g[k] = m
      /\ \A k, l \in T : k < l <=> g[k] < g[l]
  BY <1>1, <1>2, RemainsInOrder
<1> HIDE DEF t, T
<1>4. Shaped(t) /\ NothingFreed(t) /\ \A k \in T : t[k].k \in LoweredKinds
  <2>1. \A k \in T : Shape(t[k]) /\ t[k].k # "dealloc" /\ t[k].k \in LoweredKinds
    <3>1. \A i \in 1 .. Len(ir) : Shape(ir[i]) /\ ir[i].k # "dealloc" /\ ir[i].k \in LoweredKinds
      BY DEF Ready, Shaped, NothingFreed
    <3> QED BY <1>3, <3>1
  <2> QED BY <1>3, <2>1 DEF Shaped, NothingFreed, T
<1>5. ASSUME NEW k \in T, NEW l \in T, t[k].k \in Launches, t[l].k \in Launches, t[k].inv = t[l].inv
      PROVE  k = l
  <2>1. g[k] = g[l] /\ g[k] \in Int
    BY <1>3, <1>5 DEF Ready, LaunchedOnce
  <2>2. ~(k < l) /\ ~(l < k)
    BY <1>3, <2>1
  <2> QED BY <1>3, <2>2 DEF T
<1>6. ASSUME NEW k \in T, t[k].k = "start" PROVE \E l \in T : k < l /\ Match(t[k], t[l])
  <2>1. PICK m \in 1 .. Len(ir) : g[k] < m /\ Match(ir[g[k]], ir[m])
    BY <1>3, <1>6 DEF Ready, StartsWaited
  <2>2. PICK l \in T : g[l] = m
    BY <1>3, <2>1 DEF Match
  <2> QED BY <1>3, <2>1, <2>2
<1>7. ASSUME NEW k \in T, t[k].k # "inv", NEW v \in Operands(t[k])
      PROVE  \E l \in T : l < k /\ \E d \in Defs(t[l]) : Covers(d, v)
  <2>1. PICK a \in 1 .. Len(ir) : a < g[k] /\ \E d \in Defs(ir[a]) : Covers(d, v)
    BY <1>3, <1>7 DEF Ready, Allocated
  <2>2. ir[a].k # "view"
    BY <2>1 DEF Defs
  <2>3. PICK l \in T : g[l] = a
    BY <1>3, <2>2
  <2>4. l < k /\ t[l] = ir[a]
    BY <1>3, <2>1, <2>3
  <2> QED BY <2>1, <2>4
<1>8. Ready(t)
  BY <1>4, <1>5, <1>6, <1>7 DEF Ready, LaunchedOnce, StartsWaited, Allocated, T
<1> QED BY <1>8 DEF t

(* No user of a buffer comes after the last one. *)
LEMMA NoUserLater ==
  ASSUME Ready(ir), NEW i \in 1 .. Len(ir), NEW key, key \in UsedBy(ir[i]),
         NEW a \in 1 .. Len(ir), ir[a].k = "alloc", Key(ir[a].res) = key
  PROVE  i <= LastAllocationUser[key]
PROOF
<1> DEFINE uses == [j \in DOMAIN ir |-> UsedBy(ir[j])]
           U == {j \in DOMAIN ir : key \in uses[j]}
           A == {Key(ir[j].res) : j \in Position("alloc")}
<1>1. ir \in Seq(SomeOp) /\ DOMAIN ir = 1 .. Len(ir) /\ Len(ir) \in Nat
  BY DEF Ready, Shaped
<1>2. key \in A
  BY <1>1 DEF Position
<1>3. LastAllocationUser[key] = Max(U)
  BY <1>2 DEF LastAllocationUser
<1>4. i \in U /\ U \subseteq 0 .. Len(ir)
  BY <1>1
<1> HIDE DEF U
<1>5. \A x \in U : x <= Max(U)
  BY <1>1, <1>4, GreatestOf
<1> QED BY <1>3, <1>4, <1>5

(* The start that a wait looks up is the one it is for. *)
LEMMA StartIsUnique ==
  ASSUME Ready(ir), NEW i \in 1 .. Len(ir), ir[i].k = "start"
  PROVE  StartOf(ir[i].inv) = ir[i]
PROOF
<1> DEFINE S == {j \in Position("start") : ir[j].inv = ir[i].inv}
<1>1. ir \in Seq(SomeOp) /\ DOMAIN ir = 1 .. Len(ir) /\ Len(ir) \in Nat
  BY DEF Ready, Shaped
<1>2. i \in S /\ S \subseteq Nat
  BY <1>1 DEF Position
<1>3. \A j \in S : j = i
  BY <1>1 DEF Position, Ready, LaunchedOnce, Launches
<1>4. StartOf(ir[i].inv) = ir[Min(S)]
  BY DEF StartOf
<1> HIDE DEF S
<1>5. Min(S) = i
  BY <1>2, <1>3, LeastOf
<1> QED BY <1>4, <1>5

(* The buffers of an operation: allocated before, last used by it, or by    *)
(* the wait for it, at the earliest.                                        *)
LEMMA OperandUses ==
  ASSUME Ready(ir), NEW i \in 1 .. Len(ir), NEW v \in Operands(ir[i]), Pooled(v)
  PROVE  /\ \E a \in 1 .. Len(ir) : a < i /\ Gives(ir[a], v)
         /\ i <= LastAllocationUser[Key(v)]
         /\ ir[i].k = "start" =>
              \E w \in 1 .. Len(ir) : /\ i < w /\ Match(ir[i], ir[w])
                                      /\ w <= LastAllocationUser[Key(v)]
PROOF
<1>1. /\ ir \in Seq(SomeOp) /\ Len(ir) \in Nat
      /\ \A j \in 1 .. Len(ir) : ir[j] \in SomeOp /\ Shape(ir[j])
  BY DEF Ready, Shaped
<1>2. v \in Value
  BY <1>1, OperandTyped
<1>3. ir[i].k # "inv" /\ ir[i].k # "wait"
  <2>1. CASE ir[i].k = "inv"
    <3>1. Operands(ir[i]) = Range(ir[i].code)
      <4>1. ir[i].args = << >>
        BY <1>1, <2>1 DEF Shape
      <4> QED BY <4>1, RangeOf DEF Operands
    <3>2. PICK j \in DOMAIN ir[i].code : v = ir[i].code[j]
      BY <3>1 DEF Range
    <3>3. v.base[2] \in {"c", "g"}
      BY <1>1, <2>1, <3>2 DEF Shape
    <3> QED BY <3>3 DEF Pooled
  <2>2. CASE ir[i].k = "wait"
    <3>1. ir[i].args = << >> /\ ir[i].code = << >>
      BY <1>1, <2>2 DEF Shape
    <3>2. Operands(ir[i]) = {}
      BY <3>1, RangeOf DEF Operands
    <3> QED BY <3>2
  <2> QED BY <2>1, <2>2
<1>4. PICK a \in 1 .. Len(ir) : a < i /\ \E d \in Defs(ir[a]) : Covers(d, v)
  BY <1>3 DEF Ready, Allocated
<1>5. PICK d \in Defs(ir[a]) : Covers(d, v)
  BY <1>4
<1>6. d.base = v.base /\ d.base[2] \notin {"x", "o", "c", "g"}
  BY <1>5 DEF Covers, Pooled
<1>7. ir[a].k = "alloc" /\ d = ir[a].res
  <2>1. ir[a].k # "binding"
    <3>1. ir[a].k = "binding" => d = ir[a].res /\ d.base[2] \in {"x", "o"}
      BY <1>1, <1>5 DEF Defs, Shape
    <3> QED BY <1>6, <3>1
  <2>2. ir[a].k # "inv"
    <3> SUFFICES ASSUME ir[a].k = "inv" PROVE FALSE
      OBVIOUS
    <3>1. PICK j \in DOMAIN ir[a].code : d = ir[a].code[j]
      BY <1>5 DEF Defs, Range
    <3>2. d.base[2] \in {"c", "g"}
      BY <1>1, <3>1 DEF Shape
    <3> QED BY <1>6, <3>2
  <2> QED BY <1>5, <2>1, <2>2 DEF Defs
<1>8. Key(ir[a].res) = Key(v)
  <2>1. ~IsBinding(v)
    BY DEF Pooled, IsBinding
  <2>2. d.it = v.it
    BY <1>5, <2>1 DEF Covers
  <2> QED BY <1>6, <1>7, <2>2 DEF Key
<1>9. Key(v) \in UsedBy(ir[i])
  BY <1>3 DEF UsedBy
<1>10. i <= LastAllocationUser[Key(v)]
  BY <1>7, <1>8, <1>9, NoUserLater
<1>11. ASSUME ir[i].k = "start"
       PROVE  \E w \in 1 .. Len(ir) : /\ i < w /\ Match(ir[i], ir[w])
                                      /\ w <= LastAllocationUser[Key(v)]
  <2>1. PICK w \in 1 .. Len(ir) : i < w /\ Match(ir[i], ir[w])
    BY <1>11 DEF Ready, StartsWaited
  <2>2. StartOf(ir[w].inv) = ir[i] /\ ir[w].k = "wait"
    BY <1>11, <2>1, StartIsUnique DEF Match
  <2>3. Key(v) \in UsedBy(ir[w])
    BY <2>2 DEF UsedBy
  <2>4. w <= LastAllocationUser[Key(v)]
    BY <1>7, <1>8, <2>3, NoUserLater
  <2> QED BY <2>1, <2>4
<1> QED BY <1>4, <1>7, <1>8, <1>10, <1>11 DEF Gives

(* AddDeallocationPass: a buffer is allocated before its users and       *)
(* deallocated after them, and after the waits for the programs it is    *)
(* passed to.                                                            *)
LEMMA AddDeallocationLives ==
  ASSUME Ready(ir), AddDeallocation
  PROVE  Lives(ir')
PROOF
<1>1. Shaped(ir) /\ Len(ir) \in Nat
  BY DEF Ready, Shaped
<1>2. PICK p : Freed(ir, LastAllocationUser, ir', p)
  BY <1>1, AddDeallocationFrees
<1> DEFINE t == ir'
           T == 1 .. Len(t)
           n == Len(ir)
           u == LastAllocationUser
<1>3. /\ t \in Seq(SomeOp)
      /\ \A k \in T : /\ p[k][1] \in 1 .. n /\ p[k][1] \in Int /\ p[k][2] \in Nat /\ p[k][2] > 0
                      /\ p[k] = <<p[k][1], p[k][2]>>
                      /\ p[k][2] = 1 => t[k] = ir[p[k][1]]
                      /\ p[k][2] # 1 => IsDealloc(ir, p[k][1], u, t[k])
      /\ \A k, l \in T : k < l <=> Earlier(p[k], p[l])
      /\ \A i \in 1 .. n : \E k \in T : p[k] = <<i, 1>>
  <2>1. \A j \in 1 .. n : j \in Int
    BY <1>1
  <2> HIDE DEF n, u
  <2>2. Freed(ir, u, t, p)
    BY <1>2 DEF u
  <2> QED BY <2>1, <2>2 DEF Freed, n
<1> HIDE DEF T, t, u
<1>4. \A i \in 1 .. n : \E k \in T : p[k] = <<i, 1>> /\ p[k][1] = i /\ p[k][2] = 1 /\ t[k] = ir[i]
  <2> TAKE i \in 1 .. n
  <2>1. PICK k \in T : p[k] = <<i, 1>>
    BY <1>3
  <2>2. p[k][1] = i /\ p[k][2] = 1
    BY <2>1
  <2> QED BY <1>3, <2>1, <2>2
(* A deallocation is after the last user. *)
<1>5. ASSUME NEW m \in T, NEW v, Frees(t[m], v)
      PROVE  p[m][1] = u[Key(v)] /\ p[m][2] > 1
  <2>1. p[m][2] # 1
    <3> SUFFICES ASSUME p[m][2] = 1 PROVE FALSE
      OBVIOUS
    <3>1. t[m] = ir[p[m][1]]
      BY <1>3
    <3> QED BY <1>3, <1>5, <3>1 DEF Frees, Ready, NothingFreed, n
  <2>2. IsDealloc(ir, p[m][1], u, t[m])
    BY <1>3, <2>1
  <2>3. p[m][1] = u[Key(v)]
    BY <1>5, <2>2 DEF IsDealloc, Frees
  <2> QED BY <1>3, <2>1, <2>3
<1>6. ASSUME NEW k \in T, NEW v \in Operands(t[k]), Pooled(v)
      PROVE  p[k][2] = 1 /\ t[k] = ir[p[k][1]]
  <2>1. CASE p[k][2] # 1
    <3>1. IsDealloc(ir, p[k][1], u, t[k])
      BY <1>3, <2>1
    <3>2. t[k].k = "dealloc" /\ t[k].args = << >> /\ t[k].code = << >>
      BY <3>1 DEF IsDealloc, Shape
    <3>3. Operands(t[k]) = {}
      BY <3>2, RangeOf DEF Operands
    <3> QED BY <1>6, <3>3
  <2> QED BY <1>3, <2>1
<1>7. ASSUME NEW k \in T, NEW v \in Operands(t[k]), Pooled(v)
      PROVE  /\ \E a \in T : a < k /\ Gives(t[a], v)
             /\ \A m \in T : Frees(t[m], v) =>
                  /\ k < m
                  /\ t[k].k = "start" => \E w \in T : k < w /\ w < m /\ Match(t[k], t[w])
  <2> DEFINE i == p[k][1]
             last == u[Key(v)]
  <2>1. p[k][2] = 1 /\ t[k] = ir[i] /\ i \in 1 .. n /\ i \in Int
    BY <1>3, <1>6, <1>7
  <2>2. /\ \E a \in 1 .. n : a < i /\ Gives(ir[a], v)
        /\ i <= last
        /\ ir[i].k = "start" =>
             \E w \in 1 .. n : i < w /\ Match(ir[i], ir[w]) /\ w <= last
    <3>1. v \in Operands(ir[i])
      BY <1>7, <2>1
    <3>2. PICK e \in 1 .. Len(ir) : e = i
      BY <2>1
    <3>3. v \in Operands(ir[e])
      BY <3>1, <3>2
    <3> HIDE DEF i
    <3> QED BY <1>7, <3>2, <3>3, OperandUses DEF u
  <2> HIDE DEF last
  <2>3. \E a \in T : a < k /\ Gives(t[a], v)
    <3>1. PICK a \in 1 .. n : a < i /\ Gives(ir[a], v)
      BY <2>2
    <3>2. PICK l \in T : p[l][1] = a /\ t[l] = ir[a]
      BY <1>4
    <3>3. l < k
      BY <1>3, <3>1, <3>2 DEF Earlier
    <3> QED BY <3>1, <3>2, <3>3
  <2>4. ASSUME NEW m \in T, Frees(t[m], v) PROVE p[m][1] = last /\ p[m][2] > 1
    BY <1>5, <2>4 DEF last
  <2> HIDE DEF i
  <2>5. ASSUME NEW m \in T, Frees(t[m], v), NEW l \in T, p[l][2] = 1, p[l][1] <= last PROVE l < m
    <3>1. p[m][1] = last /\ p[m][2] > 1
      BY <2>4, <2>5
    <3>2. Earlier(p[l], p[m])
      BY <1>3, <2>5, <3>1 DEF Earlier
    <3> QED BY <1>3, <3>2
  <2>6. ASSUME NEW m \in T, Frees(t[m], v) PROVE k < m
    BY <2>1, <2>2, <2>5, <2>6 DEF i
  <2>7. ASSUME NEW m \in T, Frees(t[m], v), t[k].k = "start"
        PROVE  \E w \in T : k < w /\ w < m /\ Match(t[k], t[w])
    <3>1. PICK w \in 1 .. n : i < w /\ Match(ir[i], ir[w]) /\ w <= last
      BY <2>1, <2>2, <2>7
    <3>2. PICK l \in T : p[l][1] = w /\ p[l][2] = 1 /\ t[l] = ir[w]
      BY <1>4
    <3>3. l < m
      BY <2>5, <2>7, <3>1, <3>2
    <3>4. k < l
      <4>1. Earlier(p[k], p[l])
        BY <3>1, <3>2 DEF Earlier, i
      <4> QED BY <1>3, <4>1
    <3> QED BY <2>1, <3>1, <3>2, <3>3, <3>4
  <2> QED BY <2>3, <2>6, <2>7
<1>8. Lives(t)
  BY <1>7 DEF Lives, T
<1> QED BY <1>8 DEF t

(* A step of the run is a host action, or a task of a program that a     *)
(* host action starts.                                                   *)
LEMMA RunStepIs ==
  ASSUME NEW h, Len(h) \in Nat, NEW pr, NEW x \in RunSteps(h, pr)
  PROVE  /\ x[1] \in 1 .. Len(h) /\ x[1] \in Int /\ x[2] \in Nat /\ x = <<x[1], x[2]>>
         /\ x[2] # 0 => x \in NssSteps(h, pr) /\ StartsNss(h[x[1]]) /\ RunOp(h, pr, x) = NssStep(h, pr, x)
         /\ x[2] = 0 => RunOp(h, pr, x) = h[x[1]]
PROOF
<1>1. CASE \E i \in 1 .. Len(h) : x = <<i, 0>>
  <2>1. PICK i \in 1 .. Len(h) : x = <<i, 0>>
    BY <1>1
  <2>2. x[1] = i /\ x[2] = 0
    BY <2>1
  <2> QED BY <2>1, <2>2 DEF RunOp
<1>2. CASE x \in NssSteps(h, pr)
  <2>1. /\ x \in (1 .. Len(h)) \X Nat /\ StartsNss(h[x[1]])
        /\ x[2] \in 1 .. Len(ProgramOf(h, pr, x[1]))
    BY <1>2 DEF NssSteps
  <2>2. x[2] # 0
    BY <2>1
  <2> QED BY <1>2, <2>1, <2>2 DEF RunOp
<1> QED BY <1>1, <1>2 DEF RunSteps

(* If buffers outlive their users in the function, they do in the order  *)
(* of the run.                                                           *)
LEMMA OutlinedLives ==
  ASSUME NEW fn, NEW pr, Divided(fn, pr), NEW s, Lives(s), Len(s) \in Nat,
         NEW c, Spread(fn, pr, s, Len(s), c),
         NEW t, t \in Seq(SomeOp), NEW g, StartsAt(fn, t, g), AnchoredAt(fn, t, g),
         NEW pm, Extended(pr, pm)
  PROVE  StepsLive(t, pm)
PROOF
<1> DEFINE T == 1 .. Len(t)
           n == Len(s)
           R == RunSteps(t, pm)
           A(k) == Anchor(fn, t, g, k)
           Spot(x) == <<g[x[1]], x[2]>>
<1>1. /\ \A j \in 1 .. Len(fn) : IF IsProgram(fn[j]) THEN fn[j].inv \in 0 .. Len(pr) - 1
                                                     ELSE ~IsNssOperation(fn[j]) /\ Lower(fn[j])
      /\ \A q \in 1 .. Len(pr) : \A i \in 1 .. Len(pr[q]) : IsNssOperation(pr[q][i]) /\ Lower(pr[q][i])
  BY DEF Divided
<1>2. /\ \A k \in T : StartsNss(t[k]) => IsProgram(fn[g[k]]) /\ t[k].inv.id[1] = fn[g[k]].inv
      /\ \A k \in T : /\ g[k] \in 1 .. Len(fn) /\ g[k] \in Int
                      /\ IsProgram(fn[g[k]]) => Bare(t[k])
                      /\ ~IsProgram(fn[g[k]]) => t[k] = fn[g[k]]
      /\ \A k, l \in T : A(k) /\ A(l) => (k < l <=> g[k] < g[l])
      /\ \A j \in 1 .. Len(fn) : \E k \in T : g[k] = j /\ A(k)
  <2>1. \A j \in 1 .. Len(fn) : j \in Int
    OBVIOUS
  <2> HIDE DEF A
  <2> QED BY <2>1 DEF StartsAt, AnchoredAt, A
<1>3. \A q \in 1 .. Len(pr) :
        /\ \A i \in 1 .. Len(pr[q]) : i \in 1 .. Len(pm[q]) /\ pm[q][i] = pr[q][i]
        /\ \A i \in 1 .. Len(pm[q]) : ~Bare(pm[q][i]) => i \in 1 .. Len(pr[q])
  BY DEF Extended
<1>4. /\ \A b \in 1 .. n : c[b] \in Spots(fn, pr) /\ AtSpot(fn, pr, c[b]) = s[b]
      /\ \A a, b \in 1 .. n : a < b => Earlier(c[a], c[b])
      /\ \A x \in Spots(fn, pr) : \E b \in 1 .. n : c[b] = x
  BY DEF Spread
<1>5. \A i : i \in 0 .. Len(pr) - 1 => i + 1 \in 1 .. Len(pr)
  <2>1. Len(pr) \in Nat
    BY DEF Divided
  <2> QED BY <2>1
<1>6. Len(t) \in Nat
  OBVIOUS
<1> HIDE DEF T, n, R
<1>7. ASSUME NEW k \in T, NEW l \in T, A(k), A(l) PROVE k = l <=> g[k] = g[l]
  <2>1. (k < l <=> g[k] < g[l]) /\ (l < k <=> g[l] < g[k])
    BY <1>2, <1>7
  <2>2. k \in Int /\ l \in Int /\ g[k] \in Int /\ g[l] \in Int
    BY <1>2 DEF T
  <2> QED BY <2>1, <2>2
<1>8. ASSUME NEW x \in R, NEW y \in R, A(x[1]), A(y[1])
      PROVE  Earlier(x, y) <=> Earlier(Spot(x), Spot(y))
  <2>1. x[1] \in T /\ y[1] \in T
    BY <1>6, RunStepIs DEF R, T
  <2>2. (x[1] < y[1] <=> g[x[1]] < g[y[1]]) /\ (x[1] = y[1] <=> g[x[1]] = g[y[1]])
    BY <1>2, <1>7, <1>8, <2>1
  <2> HIDE DEF A
  <2> QED BY <2>2 DEF Earlier
(* The place of a step that allocates, deallocates or uses. *)
<1>9. ASSUME NEW x \in R, ~Bare(RunOp(t, pm, x))
      PROVE  /\ Spot(x) \in Spots(fn, pr) /\ AtSpot(fn, pr, Spot(x)) = RunOp(t, pm, x) /\ A(x[1])
             /\ x[2] # 0 => IsNssOperation(RunOp(t, pm, x))
  <2> DEFINE k == x[1]
             j == x[2]
             q == fn[g[k]].inv
             o == RunOp(t, pm, x)
  <2>1. /\ k \in T /\ j \in Nat /\ x = <<k, j>>
        /\ j # 0 => x \in NssSteps(t, pm) /\ StartsNss(t[k]) /\ o = NssStep(t, pm, x)
        /\ j = 0 => o = t[k]
    BY <1>6, RunStepIs DEF R, T
  <2>2. CASE j = 0
    <3>1. ~IsProgram(fn[g[k]]) /\ o = fn[g[k]] /\ g[k] \in 1 .. Len(fn)
      BY <1>2, <1>9, <2>1, <2>2
    <3>2. Spot(x) = <<g[k], 0>>
      BY <2>2
    <3> HIDE DEF k, o
    <3>3. <<g[k], 0>> \in Spots(fn, pr) /\ AtSpot(fn, pr, <<g[k], 0>>) = fn[g[k]]
      BY <3>1 DEF Spots, AtSpot
    <3> QED BY <2>2, <3>1, <3>2, <3>3 DEF k, o, Anchor
  <2>3. CASE j # 0
    <3>1. /\ StartsNss(t[k]) /\ j \in 1 .. Len(ProgramOf(t, pm, k)) /\ o = ProgramOf(t, pm, k)[j]
      BY <2>1, <2>3 DEF NssSteps, NssStep
    <3>2. g[k] \in 1 .. Len(fn) /\ IsProgram(fn[g[k]]) /\ t[k].inv.id[1] = q /\ q + 1 \in 1 .. Len(pr)
      BY <1>1, <1>2, <1>5, <2>1, <3>1
    <3>3. ProgramOf(t, pm, k) = pm[q + 1]
      BY <3>2 DEF ProgramOf
    <3>4. A(k)
      BY <3>1 DEF Anchor
    <3>5. ~Bare(o)
      BY <1>9
    <3> HIDE DEF q, k, j, o
    <3>6. j \in 1 .. Len(pr[q + 1]) /\ pm[q + 1][j] = pr[q + 1][j] /\ o = pr[q + 1][j]
      BY <1>3, <3>1, <3>2, <3>3, <3>5
    <3>7. <<g[k], j>> \in Spots(fn, pr) /\ AtSpot(fn, pr, <<g[k], j>>) = o
      BY <2>1, <2>3, <3>2, <3>6 DEF Spots, AtSpot, q
    <3>8. IsNssOperation(o)
      BY <1>1, <3>2, <3>6
    <3> QED BY <3>4, <3>7, <3>8 DEF k, j, o
  <2> QED BY <2>2, <2>3
(* The step of a place. *)
<1>10. ASSUME NEW x \in Spots(fn, pr)
       PROVE  \E z \in R : /\ Spot(z) = x /\ RunOp(t, pm, z) = AtSpot(fn, pr, x) /\ A(z[1])
                           /\ IsNssOperation(AtSpot(fn, pr, x)) => z \in NssSteps(t, pm) /\ z[2] # 0
  <2> DEFINE j == x[1]
             i == x[2]
             q == fn[j].inv
  <2>1. /\ j \in 1 .. Len(fn) /\ i \in Nat /\ x = <<j, i>>
        /\ IsProgram(fn[j]) => i \in 1 .. Len(pr[q + 1])
        /\ ~IsProgram(fn[j]) => i = 0
    BY SpotOf
  <2>2. PICK k \in T : g[k] = j /\ A(k)
    BY <1>2, <2>1
  <2> DEFINE z == <<k, i>>
  <2>3. z[1] = k /\ z[2] = i /\ Spot(z) = x
    BY <2>1, <2>2
  <2>4. CASE IsProgram(fn[j])
    <3>1. StartsNss(t[k]) /\ t[k].inv.id[1] = q
      BY <1>2, <2>2, <2>4 DEF Anchor
    <3>2. i \in 1 .. Len(pr[q + 1]) /\ i # 0 /\ q + 1 \in 1 .. Len(pr)
      BY <1>1, <1>5, <2>1, <2>4
    <3>3. ProgramOf(t, pm, k) = pm[q + 1]
      BY <3>1 DEF ProgramOf
    <3>4. AtSpot(fn, pr, x) = pr[q + 1][i] /\ pm[q + 1][i] = pr[q + 1][i] /\ i \in 1 .. Len(pm[q + 1])
      BY <1>3, <3>2 DEF AtSpot
    <3> HIDE DEF i, j, q
    <3>5. z \in NssSteps(t, pm)
      BY <2>1, <2>3, <3>1, <3>3, <3>4 DEF NssSteps, T
    <3>6. RunOp(t, pm, z) = AtSpot(fn, pr, x)
      BY <2>3, <3>2, <3>3, <3>4 DEF RunOp, NssStep
    <3> QED BY <2>2, <2>3, <3>2, <3>5, <3>6 DEF R, RunSteps
  <2>5. CASE ~IsProgram(fn[j])
    <3>1. i = 0 /\ t[k] = fn[j] /\ ~IsNssOperation(fn[j])
      BY <1>1, <1>2, <2>1, <2>2, <2>5
    <3>2. AtSpot(fn, pr, x) = fn[j]
      BY <3>1 DEF AtSpot
    <3> HIDE DEF i, j, q
    <3>3. RunOp(t, pm, z) = t[k] /\ z \in R
      BY <2>3, <3>1 DEF RunOp, R, RunSteps, T
    <3> QED BY <2>2, <2>3, <3>1, <3>2, <3>3
  <2> QED BY <2>4, <2>5
<1> HIDE DEF A, Spot
<1>11. ASSUME NEW x \in R, NEW v \in Operands(RunOp(t, pm, x)), Pooled(v)
       PROVE  StepLives(t, pm, x, v)
  <2> DEFINE o == RunOp(t, pm, x)
  <2>1. ~Bare(o)
    BY <1>11 DEF Bare
  <2>2. Spot(x) \in Spots(fn, pr) /\ AtSpot(fn, pr, Spot(x)) = o /\ A(x[1]) /\ (x[2] # 0 => IsNssOperation(o))
    BY <1>9, <2>1
  <2>3. PICK i \in 1 .. n : c[i] = Spot(x)
    BY <1>4, <2>2
  <2>4. s[i] = o
    BY <1>4, <2>2, <2>3
  <2>5. /\ \E a \in 1 .. n : a < i /\ Gives(s[a], v)
        /\ \A m \in 1 .. n : Frees(s[m], v) =>
             /\ i < m
             /\ s[i].k = "start" => \E w \in 1 .. n : i < w /\ w < m /\ Match(s[i], s[w])
    <3>1. v \in Operands(s[i])
      BY <1>11, <2>4
    <3> HIDE DEF o
    <3> QED BY <1>11, <3>1 DEF Lives, n
  <2> HIDE DEF o
  <2>6. \E a \in R : Earlier(a, x) /\ Gives(RunOp(t, pm, a), v)
    <3>1. PICK a \in 1 .. n : a < i /\ Gives(s[a], v)
      BY <2>5
    <3>2. PICK z \in R : Spot(z) = c[a] /\ RunOp(t, pm, z) = s[a] /\ A(z[1])
      BY <1>4, <1>10
    <3>3. Earlier(Spot(z), Spot(x))
      BY <1>4, <2>3, <3>1, <3>2
    <3>4. Earlier(z, x)
      BY <1>8, <2>2, <3>2, <3>3
    <3> QED BY <3>1, <3>2, <3>4
  <2>7. ASSUME NEW y \in R, Frees(RunOp(t, pm, y), v)
        PROVE  /\ Earlier(x, y)
               /\ x[2] # 0 /\ o.k = "start" =>
                    \E w \in NssSteps(t, pm) : /\ Earlier(x, w) /\ Earlier(w, y)
                                               /\ Match(o, NssStep(t, pm, w))
    <3>1. ~Bare(RunOp(t, pm, y))
      BY <2>7 DEF Bare, Frees
    <3>2. /\ Spot(y) \in Spots(fn, pr) /\ AtSpot(fn, pr, Spot(y)) = RunOp(t, pm, y) /\ A(y[1])
      BY <1>9, <3>1
    <3>3. PICK m \in 1 .. n : c[m] = Spot(y)
      BY <1>4, <3>2
    <3>4. s[m] = RunOp(t, pm, y)
      BY <1>4, <3>2, <3>3
    <3>5. i < m /\ (s[i].k = "start" => \E w \in 1 .. n : i < w /\ w < m /\ Match(s[i], s[w]))
      BY <2>5, <2>7, <3>4
    <3>6. Earlier(x, y)
      BY <1>4, <1>8, <2>2, <2>3, <3>2, <3>3, <3>5
    <3>7. ASSUME x[2] # 0, o.k = "start"
          PROVE  \E w \in NssSteps(t, pm) : /\ Earlier(x, w) /\ Earlier(w, y)
                                            /\ Match(o, NssStep(t, pm, w))
      <4>1. PICK w \in 1 .. n : i < w /\ w < m /\ Match(o, s[w])
        BY <2>4, <3>5, <3>7
      <4>2. IsNssOperation(o) /\ s[w].k = "wait" /\ s[w].ex = o.ex
        BY <2>2, <3>7, <4>1 DEF Match
      <4>3. IsNssOperation(s[w])
        BY <3>7, <4>2 DEF IsNssOperation
      <4>4. PICK z \in R : /\ Spot(z) = c[w] /\ RunOp(t, pm, z) = s[w] /\ A(z[1])
                           /\ z \in NssSteps(t, pm) /\ z[2] # 0
        <5>1. c[w] \in Spots(fn, pr) /\ AtSpot(fn, pr, c[w]) = s[w]
          BY <1>4
        <5>2. IsNssOperation(AtSpot(fn, pr, c[w]))
          BY <4>3, <5>1
        <5> QED BY <1>10, <5>1, <5>2
      <4>5. NssStep(t, pm, z) = s[w]
        BY <4>4 DEF RunOp
      <4>6. Earlier(Spot(x), Spot(z)) /\ Earlier(Spot(z), Spot(y))
        BY <1>4, <2>3, <3>3, <4>1, <4>4
      <4>7. Earlier(x, z) /\ Earlier(z, y)
        BY <1>8, <2>2, <3>2, <4>4, <4>6
      <4> QED BY <4>1, <4>4, <4>5, <4>7
    <3> QED BY <3>6, <3>7
  <2> QED BY <2>6, <2>7 DEF StepLives, R, o
<1>12. ASSUME NEW k \in T, t[k].k = "wait" PROVE Bare(t[k])
  <2>1. CASE ~IsProgram(fn[g[k]])
    <3>1. t[k] = fn[g[k]] /\ Lower(fn[g[k]])
      BY <1>1, <1>2, <2>1
    <3>2. t[k].args = << >> /\ t[k].code = << >>
      BY <1>12, <3>1 DEF Lower, Shape
    <3>3. Operands(t[k]) = {}
      BY <3>2, RangeOf DEF Operands
    <3> QED BY <1>12, <3>3 DEF Bare
  <2> QED BY <1>2, <2>1
<1> QED BY <1>11, <1>12 DEF StepsLive, R, T

(* OutlineNSSProgramsPass keeps buffers alive while they are used. *)
LEMMA OutlineProgramsLives ==
  ASSUME Planned(ir, slice), Lives(ir), OutlineNSSPrograms
  PROVE  StepsLive(ir', progs')
PROOF
<1>1. PICK fn, pr, c, g :
        /\ Divided(fn, pr) /\ Spread(fn, pr, ir, Len(ir), c)
        /\ ir' \in Seq(SomeOp) /\ StartsAt(fn, ir', g) /\ AnchoredAt(fn, ir', g)
        /\ Extended(pr, progs')
  BY OutlinesAs
<1>2. Len(ir) \in Nat
  <2>1. ir \in Seq(SomeOp)
    BY DEF Planned, Shaped
  <2> QED BY <2>1
<1> DEFINE t == ir'
           pm == progs'
<1>3. t \in Seq(SomeOp) /\ StartsAt(fn, t, g) /\ AnchoredAt(fn, t, g) /\ Extended(pr, pm)
  BY <1>1
<1> HIDE DEF t, pm
<1>4. StepsLive(t, pm)
  BY <1>1, <1>2, <1>3, OutlinedLives
<1> QED BY <1>4 DEF t, pm

(* Leaving out operations that use and free nothing does not change      *)
(* that.                                                                 *)
LEMMA SelectionLives ==
  ASSUME NEW h, h \in Seq(SomeOp), NEW pr, StepsLive(h, pr), NEW B, B \subseteq 1 .. Len(h),
         \A i \in 1 .. Len(h) : IsTask(h[i]) \/ h[i].k = "alloc" => i \in B,
         NEW t \in Seq(SomeOp), NEW g, Picked(h, t, g, B)
  PROVE  StepsLive(t, pr)
PROOF
<1> DEFINE T == 1 .. Len(t)
           H == 1 .. Len(h)
           Same(x) == <<g[x[1]], x[2]>>
<1>1. /\ \A k \in T : g[k] \in H /\ g[k] \in Int /\ t[k] = h[g[k]]
      /\ \A k, l \in T : k < l <=> g[k] < g[l]
      /\ \A i \in B : \E k \in T : g[k] = i
  <2>1. /\ g \in [T -> B]
        /\ \A k \in T : t[k] = h[g[k]]
        /\ \A k, l \in T : k < l <=> g[k] < g[l]
        /\ \A i \in B : \E k \in T : g[k] = i
    BY DEF Picked
  <2>2. \A i \in B : i \in H /\ i \in Int
    OBVIOUS
  <2> HIDE DEF T, H
  <2> QED BY <2>1, <2>2
<1>2. Len(t) \in Nat /\ Len(h) \in Nat
  OBVIOUS
<1>3. \A k, l \in T : g[k] = g[l] <=> k = l
  <2> SUFFICES ASSUME NEW k \in T, NEW l \in T, g[k] = g[l] PROVE k = l
    OBVIOUS
  <2>1. ~(k < l) /\ ~(l < k)
    BY <1>1
  <2> QED BY <2>1
<1> HIDE DEF T, H
<1>4. ASSUME NEW x \in RunSteps(t, pr)
      PROVE  /\ Same(x) \in RunSteps(h, pr) /\ RunOp(h, pr, Same(x)) = RunOp(t, pr, x) /\ x[1] \in T
             /\ x[2] # 0 <=> Same(x)[2] # 0
  <2>1. /\ x[1] \in T /\ x[2] \in Nat
        /\ x[2] # 0 => /\ x \in NssSteps(t, pr) /\ StartsNss(t[x[1]]) /\ RunOp(t, pr, x) = NssStep(t, pr, x)
        /\ x[2] = 0 => RunOp(t, pr, x) = t[x[1]]
    BY <1>2, RunStepIs DEF T
  <2>2. g[x[1]] \in H /\ t[x[1]] = h[g[x[1]]]
    BY <1>1, <2>1
  <2>3. ProgramOf(h, pr, g[x[1]]) = ProgramOf(t, pr, x[1])
    BY <2>2 DEF ProgramOf
  <2>4. Same(x)[1] = g[x[1]] /\ Same(x)[2] = x[2]
    OBVIOUS
  <2>5. CASE x[2] = 0
    <3>1. Same(x) = <<g[x[1]], 0>>
      BY <2>5
    <3> HIDE DEF Same
    <3>2. Same(x) \in RunSteps(h, pr)
      BY <2>2, <3>1 DEF RunSteps, H
    <3> QED BY <2>1, <2>2, <2>4, <2>5, <3>2 DEF RunOp
  <2>6. CASE x[2] # 0
    <3>1. x[2] \in 1 .. Len(ProgramOf(t, pr, x[1])) /\ StartsNss(h[g[x[1]]])
      BY <2>1, <2>2, <2>6 DEF NssSteps
    <3>2. Same(x) \in NssSteps(h, pr)
      BY <2>1, <2>2, <2>3, <3>1 DEF NssSteps, H
    <3>3. NssStep(h, pr, Same(x)) = NssStep(t, pr, x)
      BY <2>3, <2>4 DEF NssStep
    <3> HIDE DEF Same
    <3> QED BY <2>1, <2>4, <2>6, <3>2, <3>3 DEF RunOp, RunSteps
  <2> QED BY <2>5, <2>6
<1>5. ASSUME NEW x \in RunSteps(t, pr), NEW y \in RunSteps(t, pr)
      PROVE  Earlier(x, y) <=> Earlier(Same(x), Same(y))
  <2>1. x[1] \in T /\ y[1] \in T
    BY <1>4
  <2>2. (x[1] < y[1] <=> g[x[1]] < g[y[1]]) /\ (x[1] = y[1] <=> g[x[1]] = g[y[1]])
    BY <1>1, <1>3, <2>1
  <2> QED BY <2>2 DEF Earlier
<1>6. ASSUME NEW z \in RunSteps(h, pr), z[2] # 0 \/ RunOp(h, pr, z).k = "alloc"
      PROVE  \E y \in RunSteps(t, pr) : Same(y) = z /\ (z[2] # 0 => y \in NssSteps(t, pr))
  <2>1. /\ z[1] \in 1 .. Len(h) /\ z[2] \in Nat /\ z = <<z[1], z[2]>>
        /\ z[2] # 0 => z \in NssSteps(h, pr) /\ StartsNss(h[z[1]])
        /\ z[2] = 0 => RunOp(h, pr, z) = h[z[1]]
    BY <1>2, RunStepIs
  <2>2. z[1] \in B
    BY <1>6, <2>1 DEF StartsNss, IsTask
  <2>3. PICK k \in T : g[k] = z[1]
    BY <1>1, <2>2
  <2>4. t[k] = h[z[1]]
    BY <1>1, <2>3
  <2>5. ProgramOf(t, pr, k) = ProgramOf(h, pr, z[1])
    BY <2>4 DEF ProgramOf
  <2> DEFINE y == <<k, z[2]>>
  <2>6. y[1] = k /\ y[2] = z[2] /\ y \in (1 .. Len(t)) \X Nat
    BY <2>1 DEF T
  <2>7. Same(y) = z
    BY <2>1, <2>3, <2>6
  <2>8. CASE z[2] = 0
    <3>1. y = <<k, 0>>
      BY <2>8
    <3> HIDE DEF y
    <3> QED BY <2>7, <2>8, <3>1 DEF RunSteps, T
  <2>9. CASE z[2] # 0
    <3>1. z[2] \in 1 .. Len(ProgramOf(h, pr, z[1])) /\ StartsNss(h[z[1]])
      BY <2>1, <2>9 DEF NssSteps
    <3>2. y \in NssSteps(t, pr)
      BY <2>4, <2>5, <2>6, <3>1 DEF NssSteps
    <3> HIDE DEF y
    <3> QED BY <2>7, <3>2 DEF RunSteps
  <2> QED BY <2>8, <2>9
<1> HIDE DEF Same
<1>7. ASSUME NEW x \in RunSteps(t, pr), NEW v \in Operands(RunOp(t, pr, x)), Pooled(v)
      PROVE  StepLives(t, pr, x, v)
  <2> DEFINE z == Same(x)
  <2>1. /\ z \in RunSteps(h, pr) /\ RunOp(h, pr, z) = RunOp(t, pr, x)
        /\ x[2] # 0 <=> z[2] # 0
    BY <1>4
  <2>2. StepLives(h, pr, z, v)
    BY <1>7, <2>1 DEF StepsLive
  <2>3. /\ \E a \in RunSteps(h, pr) : Earlier(a, z) /\ Gives(RunOp(h, pr, a), v)
        /\ \A m \in RunSteps(h, pr) : Frees(RunOp(h, pr, m), v) =>
             /\ Earlier(z, m)
             /\ z[2] # 0 /\ RunOp(h, pr, z).k = "start" =>
                  \E w \in NssSteps(h, pr) : /\ Earlier(z, w) /\ Earlier(w, m)
                                             /\ Match(RunOp(h, pr, z), NssStep(h, pr, w))
    BY <2>2 DEF StepLives
  <2>4. \E a \in RunSteps(t, pr) : Earlier(a, x) /\ Gives(RunOp(t, pr, a), v)
    <3>1. PICK a \in RunSteps(h, pr) : Earlier(a, z) /\ Gives(RunOp(h, pr, a), v)
      BY <2>3
    <3>2. PICK y \in RunSteps(t, pr) : Same(y) = a
      BY <1>6, <3>1 DEF Gives
    <3>3. Earlier(y, x) /\ RunOp(t, pr, y) = RunOp(h, pr, a)
      BY <1>4, <1>5, <3>1, <3>2
    <3> QED BY <3>1, <3>3
  <2>5. ASSUME NEW m \in RunSteps(t, pr), Frees(RunOp(t, pr, m), v)
        PROVE  /\ Earlier(x, m)
               /\ x[2] # 0 /\ RunOp(t, pr, x).k = "start" =>
                    \E w \in NssSteps(t, pr) : /\ Earlier(x, w) /\ Earlier(w, m)
                                               /\ Match(RunOp(t, pr, x), NssStep(t, pr, w))
    <3>1. Same(m) \in RunSteps(h, pr) /\ Frees(RunOp(h, pr, Same(m)), v)
      BY <1>4, <2>5
    <3>2. Earlier(x, m)
      BY <1>5, <2>3, <3>1
    <3>3. ASSUME x[2] # 0, RunOp(t, pr, x).k = "start"
          PROVE  \E w \in NssSteps(t, pr) : /\ Earlier(x, w) /\ Earlier(w, m)
                                            /\ Match(RunOp(t, pr, x), NssStep(t, pr, w))
      <4>1. PICK u \in NssSteps(h, pr) : /\ Earlier(z, u) /\ Earlier(u, Same(m))
                                         /\ Match(RunOp(h, pr, z), NssStep(h, pr, u))
        BY <2>1, <2>3, <3>1, <3>3
      <4>2. u \in RunSteps(h, pr) /\ u[2] # 0 /\ RunOp(h, pr, u) = NssStep(h, pr, u)
        <5>1. u[2] # 0
          BY DEF NssSteps
        <5> QED BY <5>1 DEF RunSteps, RunOp
      <4>3. PICK w \in RunSteps(t, pr) : Same(w) = u /\ w \in NssSteps(t, pr)
        BY <1>6, <4>2
      <4>4. Earlier(x, w) /\ Earlier(w, m) /\ RunOp(t, pr, w) = RunOp(h, pr, u)
        BY <1>4, <1>5, <4>1, <4>3
      <4>5. RunOp(t, pr, w) = NssStep(t, pr, w)
        <5>1. w[2] # 0
          BY <1>4, <4>2, <4>3
        <5> QED BY <5>1 DEF RunOp
      <4> QED BY <2>1, <4>1, <4>2, <4>3, <4>4, <4>5
    <3> QED BY <3>2, <3>3
  <2> QED BY <2>4, <2>5 DEF StepLives
<1>8. \A k \in T : t[k].k = "wait" => Bare(t[k])
  BY <1>1 DEF StepsLive, H
<1> QED BY <1>7, <1>8 DEF StepsLive, T

(* serializeFunction leaves out no allocation that a step relies on. *)
LEMMA SerializeLives ==
  ASSUME ir \in Seq(SomeOp), StepsLive(ir, progs), Serialize
  PROVE  StepsLive(ir', progs')
PROOF
<1> DEFINE B == {i \in DOMAIN ir : ir[i].k \notin {"inv", "binding", "view"}}
           t == FlattenSeq([i \in DOMAIN ir |-> IF i \in B THEN <<ir[i]>> ELSE << >>])
<1>1. DOMAIN ir = 1 .. Len(ir)
  <2> HIDE DEF SomeOp
  <2> QED OBVIOUS
<1>2. ir' = FlattenSeq([i \in DOMAIN ir |-> IF ir[i].k \notin {"inv", "binding", "view"}
                                            THEN <<ir[i]>> ELSE << >>])
      /\ progs' = progs
  BY DEF Serialize, Kept
<1>3. [i \in DOMAIN ir |-> IF i \in B THEN <<ir[i]>> ELSE << >>] =
      [i \in DOMAIN ir |-> IF ir[i].k \notin {"inv", "binding", "view"} THEN <<ir[i]>> ELSE << >>]
  OBVIOUS
<1>4. ir' = t
  BY <1>2, <1>3
<1>5. B \subseteq DOMAIN ir /\ \A i \in 1 .. Len(ir) : IsTask(ir[i]) \/ ir[i].k = "alloc" => i \in B
  BY <1>1 DEF IsTask
<1> HIDE DEF B
<1>6. t \in Seq(SomeOp) /\ \E g : Picked(ir, t, g, B)
  BY <1>1, <1>5, Selected
<1> HIDE DEF t
<1>7. PICK g : Picked(ir, t, g, B)
  BY <1>6
<1>8. StepsLive(t, progs)
  BY <1>1, <1>5, <1>6, <1>7, SelectionLives
<1> QED BY <1>2, <1>4, <1>8

(* The run does y. *)
LEMMA StepKeepsLive ==
  ASSUME LiveInv, RunKeeps, NEW y \in RunSteps(ir, progs),
         \A x \in RunSteps(ir, progs) : HasRun(x)' <=> HasRun(x) \/ x = y,
         live' = After(RunOp(ir, progs, y))
  PROVE  LiveInv'
PROOF
<1> DEFINE R == RunSteps(ir, progs)
           O(x) == RunOp(ir, progs, x)
<1>1. SUFFICES ASSUME NEW key, Given(key)', ~Taken(key)' PROVE key \in live'
  BY DEF LiveInv
<1>2. ir' = ir /\ progs' = progs
  BY DEF RunKeeps
<1> HIDE DEF HasRun
<1>3. PICK a \in R : HasRun(a)' /\ O(a).k = "alloc" /\ Key(O(a).res) = key
  <2> HIDE DEF RunSteps, RunOp
  <2> QED BY <1>1, <1>2 DEF Given
<1>4. \A m \in R : HasRun(m)' => ~(O(m).k = "dealloc" /\ Key(O(m).res) = key)
  <2> HIDE DEF RunSteps, RunOp
  <2> QED BY <1>1, <1>2 DEF Taken
<1> HIDE DEF RunSteps, RunOp
<1>5. CASE a = y
  BY <1>3, <1>5 DEF After
<1>6. CASE HasRun(a)
  <2>1. Given(key)
    BY <1>3, <1>6 DEF Given
  <2>2. ~Taken(key)
    BY <1>4 DEF Taken
  <2>3. key \in live
    BY <2>1, <2>2 DEF LiveInv
  <2>4. ~(O(y).k = "dealloc" /\ Key(O(y).res) = key)
    BY <1>4
  <2> QED BY <2>3, <2>4 DEF After
<1> QED BY <1>3, <1>5, <1>6

(* Nothing is done. *)
LEMMA SameKeepsLive ==
  ASSUME LiveInv, UNCHANGED <<ir, progs, hpc, nss, live>>
  PROVE  LiveInv'
PROOF
<1>1. \A x \in RunSteps(ir, progs) : HasRun(x)' <=> HasRun(x)
  BY DEF HasRun, Running
<1> HIDE DEF HasRun, RunSteps, RunOp, Key
<1>2. ir' = ir /\ progs' = progs /\ live' = live
  OBVIOUS
<1>3. ASSUME NEW key, Given(key)' PROVE Given(key)
  BY <1>1, <1>2, <1>3 DEF Given
<1>4. ASSUME NEW key, Taken(key) PROVE Taken(key)'
  BY <1>1, <1>2, <1>4 DEF Taken
<1> QED BY <1>2, <1>3, <1>4 DEF LiveInv

(* The host does its next action. *)
LEMMA HostStepIs ==
  ASSUME Outlined(ir, progs, slice), NssAtStart, NssAtStart', RunKeeps,
         hpc <= Len(ir), hpc' = hpc + 1,
         \A x \in NssSteps(ir, progs) : HasRun(x)' <=> HasRun(x)
  PROVE  /\ <<hpc, 0>> \in RunSteps(ir, progs) /\ RunOp(ir, progs, <<hpc, 0>>) = HostOp
         /\ \A x \in RunSteps(ir, progs) : HasRun(x)' <=> HasRun(x) \/ x = <<hpc, 0>>
PROOF
<1>1. hpc \in Nat /\ hpc > 0 /\ Len(ir) \in Nat
  BY DEF NssAtStart, Outlined
<1>2. hpc \in 1 .. Len(ir)
  BY <1>1
<1>3. <<hpc, 0>> \in RunSteps(ir, progs) /\ RunOp(ir, progs, <<hpc, 0>>) = HostOp
  BY <1>2 DEF RunSteps, RunOp, HostOp
<1>4. ASSUME NEW x \in RunSteps(ir, progs)
      PROVE  HasRun(x)' <=> HasRun(x) \/ x = <<hpc, 0>>
  <2>1. /\ x[1] \in Int /\ x[2] \in Nat /\ x = <<x[1], x[2]>>
        /\ x[2] # 0 => x \in NssSteps(ir, progs)
    BY <1>1, <1>4, RunStepIs
  <2>2. CASE x[2] # 0
    <3> HIDE DEF HasRun, NssSteps
    <3> QED BY <2>1, <2>2
  <2>3. CASE x[2] = 0
    <3>1. HasRun(x) <=> x[1] < hpc
      BY <2>3 DEF HasRun, NssAtStart
    <3>2. HasRun(x)' <=> x[1] < hpc + 1
      BY <2>3 DEF HasRun, NssAtStart
    <3>3. x = <<hpc, 0>> <=> x[1] = hpc
      BY <2>1, <2>3
    <3> HIDE DEF HasRun
    <3> QED BY <1>1, <2>1, <3>1, <3>2, <3>3
  <2> QED BY <2>2, <2>3
<1> QED BY <1>3, <1>4

(* The NSS does its next task. *)
LEMMA NssStepRun ==
  ASSUME Outlined(ir, progs, slice), NssAtStart, RunKeeps, Running, ~NssHasEnded, NssNext
  PROVE  /\ <<hpc - 1, nss.pc>> \in RunSteps(ir, progs)
         /\ RunOp(ir, progs, <<hpc - 1, nss.pc>>) = NssOp
         /\ \A x \in RunSteps(ir, progs) : HasRun(x)' <=> HasRun(x) \/ x = <<hpc - 1, nss.pc>>
PROOF
<1>1. /\ hpc \in Nat /\ hpc > 0 /\ Len(ir) \in Nat /\ nss.pc \in Nat /\ nss.pc > 0
  BY DEF NssAtStart, Outlined
<1>2. /\ NssAtStart'
      /\ <<hpc - 1, nss.pc>> \in NssSteps(ir, progs)
      /\ NssStep(ir, progs, <<hpc - 1, nss.pc>>) = NssOp
      /\ \A x \in NssSteps(ir, progs) : HasRun(x)' <=> HasRun(x) \/ x = <<hpc - 1, nss.pc>>
  BY NssTaskIs
<1>3. hpc' = hpc
  BY DEF NssNext
<1>4. /\ <<hpc - 1, nss.pc>> \in RunSteps(ir, progs)
      /\ RunOp(ir, progs, <<hpc - 1, nss.pc>>) = NssOp
  BY <1>1, <1>2 DEF RunSteps, RunOp
<1>5. ASSUME NEW x \in RunSteps(ir, progs)
      PROVE  HasRun(x)' <=> HasRun(x) \/ x = <<hpc - 1, nss.pc>>
  <2>1. x[1] \in Int /\ x[2] \in Nat /\ (x[2] # 0 => x \in NssSteps(ir, progs))
    BY <1>1, <1>5, RunStepIs
  <2>2. CASE x[2] # 0
    <3> HIDE DEF HasRun, NssSteps
    <3> QED BY <1>2, <2>1, <2>2
  <2>3. CASE x[2] = 0
    <3>1. (HasRun(x) <=> x[1] < hpc) /\ (HasRun(x)' <=> x[1] < hpc)
      BY <1>2, <1>3, <2>3 DEF HasRun, NssAtStart
    <3>2. x # <<hpc - 1, nss.pc>>
      BY <1>1, <2>3
    <3> HIDE DEF HasRun
    <3> QED BY <3>1, <3>2
  <2> QED BY <2>2, <2>3
<1> QED BY <1>4, <1>5

(* Every step of the run keeps buffers live between their allocation     *)
(* and their deallocation.                                               *)
LEMMA RunLives ==
  ASSUME Outlined(ir, progs, slice), RunInv, LiveInv,
         \/ HostAction \/ StartNSS \/ WaitNSS \/ NssCopy \/ NssStart \/ NssWait
         \/ Complete \/ ReadBack
  PROVE  LiveInv'
PROOF
<1>0. NssAtStart
  BY DEF RunInv
<1>1. CASE HostAction \/ StartNSS \/ WaitNSS
  <2>0. PICK y : y = <<hpc, 0>>
    OBVIOUS
  <2>1. hpc <= Len(ir) /\ hpc' = hpc + 1
    BY <1>1 DEF HostAction, StartNSS, WaitNSS
  <2>2. RunInv' /\ RunKeeps /\ \A x \in NssSteps(ir, progs) : HasRun(x)' <=> HasRun(x)
    BY <1>1, HostActionFlies, StartNSSFlies, WaitNSSFlies
  <2>3. NssAtStart'
    BY <2>2 DEF RunInv
  <2>4. live' = After(HostOp)
    BY <1>1 DEF HostAction, StartNSS, WaitNSS, After
  <2>5. /\ y \in RunSteps(ir, progs) /\ RunOp(ir, progs, y) = HostOp
        /\ \A x \in RunSteps(ir, progs) : HasRun(x)' <=> HasRun(x) \/ x = y
    BY <1>0, <2>0, <2>1, <2>2, <2>3, HostStepIs
  <2>6. live' = After(RunOp(ir, progs, y))
    BY <2>4, <2>5
  <2> HIDE DEF HasRun, After, LiveInv, RunSteps, RunOp
  <2> QED BY <2>2, <2>5, <2>6, StepKeepsLive
<1>2. CASE NssCopy \/ NssStart \/ NssWait
  <2>0. PICK y : y = <<hpc - 1, nss.pc>>
    OBVIOUS
  <2>1. RunKeeps /\ Running /\ ~NssHasEnded /\ NssNext
    BY <1>2 DEF NssCopy, NssStart, NssWait, RunStep, RunKeeps, planVars
  <2>4. live' = After(NssOp)
    BY <1>2 DEF NssCopy, NssStart, NssWait, After
  <2>5. /\ y \in RunSteps(ir, progs) /\ RunOp(ir, progs, y) = NssOp
        /\ \A x \in RunSteps(ir, progs) : HasRun(x)' <=> HasRun(x) \/ x = y
    BY <1>0, <2>0, <2>1, NssStepRun
  <2>6. live' = After(RunOp(ir, progs, y))
    BY <2>4, <2>5
  <2> HIDE DEF HasRun, After, LiveInv, RunSteps, RunOp
  <2> QED BY <2>1, <2>5, <2>6, StepKeepsLive
<1>3. CASE Complete \/ ReadBack
  <2>1. UNCHANGED <<ir, progs, hpc, nss, live>>
    BY <1>3 DEF Complete, ReadBack, RunStep, planVars, runVars
  <2> QED BY <2>1, SameKeepsLive
<1> QED BY <1>1, <1>2, <1>3

(* The run does its steps in their order. *)
LEMMA RanBefore ==
  ASSUME Outlined(ir, progs, slice), NssAtStart,
         NEW a \in RunSteps(ir, progs), NEW b \in RunSteps(ir, progs), Earlier(a, b), HasRun(b)
  PROVE  HasRun(a)
PROOF
<1>1. Len(ir) \in Nat
  BY DEF Outlined
<1>2. a[1] \in Int /\ a[2] \in Int /\ b[1] \in Int /\ b[2] \in Int
  BY <1>1, RunStepIs
<1>3. hpc \in Nat /\ nss.pc \in Nat
  BY DEF NssAtStart
<1> QED BY <1>2, <1>3 DEF Earlier, HasRun

(* The buffers of step x are live: it has been done, or it is next, and     *)
(* what ends them has not.                                                  *)
LEMMA LivesAt ==
  ASSUME LiveInv, NEW x \in RunSteps(ir, progs), NEW v, StepLives(ir, progs, x, v),
         \A a \in RunSteps(ir, progs) : Earlier(a, x) => HasRun(a),
         \A m \in RunSteps(ir, progs) : Frees(RunOp(ir, progs, m), v) => ~HasRun(m)
  PROVE  Key(v) \in live
PROOF
<1> HIDE DEF HasRun, RunSteps, RunOp, Key
<1>1. Given(Key(v))
  BY DEF StepLives, Gives, Given
<1>2. ~Taken(Key(v))
  BY DEF Frees, Taken
<1> QED BY <1>1, <1>2 DEF LiveInv

(* What the host does next uses live buffers. *)
LEMMA HostUsesLive ==
  ASSUME Outlined(ir, progs, slice), RunInv, StepsLive(ir, progs), LiveInv, hpc <= Len(ir),
         NEW v \in Operands(HostOp), Pooled(v)
  PROVE  Key(v) \in live
PROOF
<1>0. PICK x : x = <<hpc, 0>>
  OBVIOUS
<1>1. NssAtStart /\ hpc \in Nat /\ hpc > 0 /\ Len(ir) \in Nat
  BY DEF RunInv, NssAtStart, Outlined
<1>2. hpc \in 1 .. Len(ir)
  BY <1>1
<1>3. x \in RunSteps(ir, progs) /\ RunOp(ir, progs, x) = HostOp /\ x[1] = hpc /\ x[2] = 0
  BY <1>0, <1>2 DEF RunSteps, RunOp, HostOp
<1>4. ~Running
  <2> SUFFICES ASSUME Running PROVE FALSE
    OBVIOUS
  <2>1. HostOp.k = "wait"
    BY <1>1, HostWaits
  <2>2. Bare(HostOp)
    BY <1>2, <2>1 DEF StepsLive, HostOp
  <2> QED BY <2>2 DEF Bare
<1>5. StepLives(ir, progs, x, v)
  <2> HIDE DEF StepLives
  <2> QED BY <1>3 DEF StepsLive
<1>6. ASSUME NEW a \in RunSteps(ir, progs), Earlier(a, x) PROVE HasRun(a)
  <2>1. a[1] \in Int /\ a[2] \in Nat
    BY <1>1, RunStepIs
  <2> QED BY <1>1, <1>3, <1>4, <1>6, <2>1 DEF Earlier, HasRun
<1>7. ASSUME NEW m \in RunSteps(ir, progs), Frees(RunOp(ir, progs, m), v) PROVE ~HasRun(m)
  <2>1. Earlier(x, m)
    BY <1>5, <1>7 DEF StepLives
  <2>2. m[1] \in Int /\ m[2] \in Nat
    BY <1>1, RunStepIs
  <2> QED BY <1>1, <1>3, <2>1, <2>2 DEF Earlier, HasRun
<1> QED BY <1>3, <1>5, <1>6, <1>7, LivesAt

(* So does what the NSS does next. *)
LEMMA NssUsesLive ==
  ASSUME Outlined(ir, progs, slice), RunInv, StepsLive(ir, progs), LiveInv, Running, ~NssHasEnded,
         NEW v \in Operands(NssOp), Pooled(v)
  PROVE  Key(v) \in live
PROOF
<1>0. PICK x : x = <<hpc - 1, nss.pc>>
  OBVIOUS
<1>1. /\ NssAtStart /\ hpc \in Nat /\ hpc > 0 /\ Len(ir) \in Nat
      /\ nss.pc \in Nat /\ nss.pc > 0
  BY DEF RunInv, NssAtStart, Outlined
<1>2. x \in RunSteps(ir, progs) /\ RunOp(ir, progs, x) = NssOp /\ x[1] = hpc - 1 /\ x[2] = nss.pc
  <2>1. x \in NssSteps(ir, progs) /\ NssStep(ir, progs, x) = NssOp
    BY <1>0, <1>1, NssTaskAt
  <2>2. x[1] = hpc - 1 /\ x[2] = nss.pc /\ x[2] # 0
    BY <1>0, <1>1
  <2> QED BY <2>1, <2>2 DEF RunSteps, RunOp
<1>3. StepLives(ir, progs, x, v)
  <2> HIDE DEF StepLives
  <2> QED BY <1>2 DEF StepsLive
<1>4. ASSUME NEW a \in RunSteps(ir, progs), Earlier(a, x) PROVE HasRun(a)
  <2>1. a[1] \in Int /\ a[2] \in Nat
    BY <1>1, RunStepIs
  <2> QED BY <1>1, <1>2, <1>4, <2>1 DEF Earlier, HasRun
<1>5. ASSUME NEW m \in RunSteps(ir, progs), Frees(RunOp(ir, progs, m), v) PROVE ~HasRun(m)
  <2>1. Earlier(x, m)
    BY <1>3, <1>5 DEF StepLives
  <2>2. m[1] \in Int /\ m[2] \in Nat
    BY <1>1, RunStepIs
  <2> QED BY <1>1, <1>2, <2>1, <2>2 DEF Earlier, HasRun
<1> QED BY <1>2, <1>3, <1>4, <1>5, LivesAt

(* So do the programs that fly: what deallocates their buffers comes after  *)
(* the wait for them.                                                       *)
LEMMA FlyingUsesLive ==
  ASSUME Outlined(ir, progs, slice), RunInv, StepsLive(ir, progs), LiveInv,
         NEW op \in flying, NEW v \in Operands(op), Pooled(v)
  PROVE  Key(v) \in live
PROOF
<1>1. NssAtStart /\ Flies(op) /\ Len(ir) \in Nat
  BY DEF RunInv, Outlined
<1>2. PICK x \in NssSteps(ir, progs) :
        /\ HasRun(x) /\ NssStep(ir, progs, x) = op /\ op.k = "start"
        /\ \A z \in NssSteps(ir, progs) :
             HasRun(z) /\ Earlier(x, z) /\ NssStep(ir, progs, z).k = "wait" =>
               On(NssStep(ir, progs, z), slice) # On(op, slice)
  BY <1>1 DEF Flies
<1>3. x \in RunSteps(ir, progs) /\ x[2] # 0 /\ RunOp(ir, progs, x) = op
  <2>1. x[2] \in Nat /\ x[2] > 0
    BY StepIs
  <2> QED BY <1>2, <2>1 DEF RunSteps, RunOp
<1>4. StepLives(ir, progs, x, v)
  <2> HIDE DEF StepLives
  <2> QED BY <1>3 DEF StepsLive
<1>5. ASSUME NEW a \in RunSteps(ir, progs), Earlier(a, x) PROVE HasRun(a)
  <2> HIDE DEF HasRun
  <2> QED BY <1>1, <1>2, <1>3, <1>5, RanBefore
<1>6. ASSUME NEW m \in RunSteps(ir, progs), Frees(RunOp(ir, progs, m), v), HasRun(m) PROVE FALSE
  <2>1. PICK w \in NssSteps(ir, progs) : /\ Earlier(x, w) /\ Earlier(w, m)
                                         /\ Match(op, NssStep(ir, progs, w))
    <3> HIDE DEF NssSteps, NssStep, Match
    <3> QED BY <1>2, <1>3, <1>4, <1>6 DEF StepLives
  <2>2. w \in RunSteps(ir, progs)
    BY DEF RunSteps
  <2>3. HasRun(w)
    <3> HIDE DEF HasRun
    <3> QED BY <1>1, <1>6, <2>1, <2>2, RanBefore
  <2>4. On(NssStep(ir, progs, w), slice) = On(op, slice) /\ NssStep(ir, progs, w).k = "wait"
    BY <2>1 DEF Match, On
  <2> QED BY <1>2, <2>1, <2>3, <2>4
<1> HIDE DEF HasRun
<1> QED BY <1>3, <1>4, <1>5, <1>6, LivesAt

(* The invariant holds of the empty source. *)
LEMMA BufferInit ==
  ASSUME Init PROVE BufferInv
PROOF
<1>1. stage = "build" /\ ir = << >> /\ vals = {}
  BY DEF Init
<1>2. Declared(<< >>) /\ ValsDeclared(<< >>, {})
  <2>1. Len(<< >>) = 0 /\ \A i \in 1 .. 0 : FALSE
    OBVIOUS
  <2> QED BY <2>1 DEF Declared, ValsDeclared
<1> QED BY <1>1, <1>2, TurnInit DEF BufferInv, PassLives

(* The source deallocates nothing. *)
LEMMA SourceFreesNothing ==
  ASSUME Source(ir) PROVE NothingFreed(ir)
PROOF BY DEF Source, SourceKinds, NothingFreed

(* The source and the passes keep the invariant. *)
LEMMA PassBuffers ==
  ASSUME BufferInv, TurnInv',
         \/ Build \/ Finish \/ TakeMeaning
         \/ LowerCalls \/ OutlineSlices \/ UnrollForall \/ ScheduleSliceTasks \/ Canonicalize
         \/ AddDeallocation \/ AssignAddresses \/ OutlineNSSPrograms
  PROVE  BufferInv'
PROOF
<1>0. PassInv /\ PassInv' /\ PassLives
  BY DEF BufferInv, TurnInv
<1>1. CASE Build
  <2>1. stage = "build" /\ stage' = "build"
    BY <1>1 DEF Build, SourceLoad, SourceKernel, SourceKernelInto, SourceView, SourceCss, SourceHost,
                SourceForall, Append1
  <2>2. BuildInv
    BY <1>0, <2>1 DEF PassInv, PassLives, BuildInv
  <2>3. Declared(ir') /\ ValsDeclared(ir', vals')
    BY <1>1, <2>2, BuildDeclares
  <2> QED BY <2>1, <2>3 DEF BufferInv, PassLives
<1>2. CASE Finish
  <2>1. stage = "build" /\ stage' = "mean"
    BY <1>2 DEF Finish
  <2>2. BuildInv
    BY <1>0, <2>1 DEF PassInv, PassLives, BuildInv
  <2>3. Declared(ir')
    BY <1>2, <2>2, FinishDeclares
  <2> QED BY <2>1, <2>3 DEF BufferInv, PassLives
<1>3. CASE TakeMeaning
  <2>1. stage = "mean" /\ stage' = "lowerCalls" /\ ir' = ir
    BY <1>3 DEF TakeMeaning
  <2> QED BY <1>0, <2>1 DEF BufferInv, PassLives
<1>4. CASE LowerCalls \/ OutlineSlices
  <2>1. /\ stage \in {"lowerCalls", "outlineSlices"} /\ stage' \in {"outlineSlices", "unroll"}
    BY <1>4 DEF LowerCalls, OutlineSlices, Pass
  <2>2. Looped(ir) /\ Declared(ir) /\ NothingFreed(ir)
    BY <1>0, <2>1, SourceIsLooped, SourceFreesNothing DEF PassInv, PassLives
  <2>3. Declared(ir') /\ NothingFreed(ir')
    BY <1>4, <2>2, PassesDeclare, PassesFreeNothing
  <2> QED BY <2>1, <2>3 DEF BufferInv, PassLives
<1>5. CASE UnrollForall
  <2>1. stage = "unroll" /\ stage' = "schedule"
    BY <1>5 DEF UnrollForall, Pass
  <2>2. Looped(ir) /\ Declared(ir) /\ NothingFreed(ir)
    BY <1>0, <2>1 DEF PassInv, PassLives
  <2>3. Allocated(ir') /\ NothingFreed(ir')
    BY <1>5, <2>2, UnrollAllocates, UnrollFreesNothing
  <2> QED BY <2>1, <2>3 DEF BufferInv, PassLives
<1>6. CASE ScheduleSliceTasks
  <2>1. stage = "schedule" /\ stage' \in {"canonicalize", "failed"} /\ ir' = ir
    BY <1>6 DEF ScheduleSliceTasks, Pass
  <2>2. Lowered(ir) /\ Allocated(ir) /\ NothingFreed(ir)
    BY <1>0, <2>1 DEF PassInv, PassLives
  <2>3. Ready(ir')
    BY <2>1, <2>2 DEF Ready, Lowered
  <2> QED BY <2>1, <2>3 DEF BufferInv, PassLives
<1>7. CASE Canonicalize
  <2>1. stage = "canonicalize" /\ stage' = "deallocate"
    BY <1>7 DEF Canonicalize, Pass
  <2>2. Ready(ir')
    BY <1>0, <1>7, <2>1, CanonicalizeReady DEF PassLives
  <2> QED BY <2>1, <2>2 DEF BufferInv, PassLives
<1>8. CASE AddDeallocation
  <2>1. stage = "deallocate" /\ stage' = "assign"
    BY <1>8 DEF AddDeallocation, Pass
  <2>2. Lives(ir')
    BY <1>0, <1>8, <2>1, AddDeallocationLives DEF PassLives
  <2> QED BY <2>1, <2>2 DEF BufferInv, PassLives
<1>9. CASE AssignAddresses
  <2>1. stage = "assign" /\ stage' \in {"outlineNSS", "failed"} /\ ir' = ir
    BY <1>9 DEF AssignAddresses, Pass
  <2> QED BY <1>0, <2>1 DEF BufferInv, PassLives
<1>10. CASE OutlineNSSPrograms
  <2>1. stage = "outlineNSS" /\ stage' = "serialize"
    BY <1>10 DEF OutlineNSSPrograms, Pass
  <2>2. StepsLive(ir', progs')
    BY <1>0, <1>10, <2>1, OutlineProgramsLives DEF PassInv, PassLives
  <2> QED BY <2>1, <2>2 DEF BufferInv, PassLives
<1> QED BY <1>1, <1>2, <1>3, <1>4, <1>5, <1>6, <1>7, <1>8, <1>9, <1>10

(* Serialization and the run keep the invariant. *)
LEMMA RunBuffers ==
  ASSUME BufferInv, TurnInv',
         \/ Serialize \/ HostAction \/ StartNSS \/ WaitNSS \/ NssCopy \/ NssStart \/ NssWait
         \/ Complete \/ ReadBack
  PROVE  BufferInv'
PROOF
<1>0. PassInv /\ PassLives /\ TurnInv
  BY DEF BufferInv, TurnInv
<1>1. CASE Serialize
  <2>1. stage = "serialize" /\ stage' = "run" /\ UNCHANGED <<hpc, nss>>
    BY <1>1 DEF Serialize
  <2>2. Outlined(ir, progs, slice) /\ StepsLive(ir, progs) /\ hpc = 1 /\ ~Running
    BY <1>0, <2>1 DEF PassInv, PassLives, TurnInv, NotStarted, NssIdle, Running
  <2>3. StepsLive(ir', progs') /\ Outlined(ir', progs', slice')
    BY <1>1, <2>2, SerializeLives, SerializeKeeps DEF Outlined
  <2>4. ASSUME NEW a \in RunSteps(ir', progs') PROVE ~(a[1] < hpc')
    <3>1. Len(ir') \in Nat
      BY <2>3 DEF Outlined
    <3>2. a[1] \in 1 .. Len(ir')
      BY <2>4, <3>1, RunStepIs
    <3> QED BY <2>1, <2>2, <3>1, <3>2
  <2>5. LiveInv'
    <3> HIDE DEF RunSteps, RunOp
    <3>1. \A key : ~Given(key)'
      BY <2>4 DEF Given, HasRun
    <3> QED BY <3>1 DEF LiveInv
  <2> QED BY <2>1, <2>3, <2>5 DEF BufferInv, PassLives
<1>2. CASE \/ HostAction \/ StartNSS \/ WaitNSS \/ NssCopy \/ NssStart \/ NssWait
           \/ Complete \/ ReadBack
  <2>1. stage = "run" /\ stage' \in {"run", "done"} /\ ir' = ir /\ progs' = progs
    BY <1>2 DEF HostAction, StartNSS, WaitNSS, NssCopy, NssStart, NssWait, Complete, ReadBack,
                RunStep, planVars
  <2>2. Outlined(ir, progs, slice) /\ RunInv /\ LiveInv /\ StepsLive(ir, progs)
    BY <1>0, <2>1 DEF PassInv, PassLives, TurnInv, BufferInv
  <2>3. LiveInv'
    BY <1>2, <2>2, RunLives
  <2>4. StepsLive(ir', progs')
    BY <2>1, <2>2
  <2> QED BY <2>1, <2>3, <2>4 DEF BufferInv, PassLives
<1> QED BY <1>1, <1>2

(* So does a step that changes nothing. *)
LEMMA BufferStutter ==
  ASSUME BufferInv, TurnInv', UNCHANGED vars
  PROVE  BufferInv'
PROOF
<1>1. UNCHANGED <<stage, ir, vals, progs, hpc, nss, live>>
  BY DEF vars, planVars, runVars
<1>2. PassLives'
  BY <1>1 DEF BufferInv, PassLives
<1>3. stage' \in {"run", "done"} => LiveInv'
  BY <1>1, SameKeepsLive DEF BufferInv
<1> QED BY <1>2, <1>3 DEF BufferInv

(* Every step keeps the invariant. *)
LEMMA BufferNext ==
  ASSUME BufferInv, [Next]_vars
  PROVE  BufferInv'
PROOF
<1>1. TurnInv'
  BY TurnNext DEF BufferInv
<1> QED BY <1>1, PassBuffers, RunBuffers, BufferStutter DEF Next, Terminated

(* The invariant says that what is going on uses live buffers. *)
LEMMA BuffersMean ==
  ASSUME BufferInv
  PROVE  UsedBuffersAreLive
PROOF
<1> SUFFICES ASSUME NEW op \in GoingOn, NEW v \in Operands(op), Pooled(v) PROVE Key(v) \in live
  BY DEF UsedBuffersAreLive
<1>1. CASE stage \in {"run", "done"}
  <2>1. Outlined(ir, progs, slice) /\ RunInv /\ LiveInv /\ StepsLive(ir, progs)
    BY <1>1 DEF BufferInv, TurnInv, PassInv, PassLives
  <2>2. CASE op \in flying
    BY <2>1, <2>2, FlyingUsesLive
  <2>3. CASE Running /\ ~NssHasEnded /\ op = NssOp
    BY <2>1, <2>3, NssUsesLive
  <2>4. CASE hpc <= Len(ir) /\ op = HostOp
    BY <2>1, <2>4, HostUsesLive
  <2> QED BY <2>2, <2>3, <2>4 DEF GoingOn
<1>2. CASE stage \notin {"run", "done"}
  <2>1. flying = {} /\ ~Running
    BY <1>2 DEF BufferInv, TurnInv, NotStarted, NssIdle, Running
  <2> QED BY <1>2, <2>1 DEF GoingOn
<1> QED BY <1>1, <1>2

(* AddDeallocationPass never deallocates a buffer that is still in use:  *)
(* whatever the source and the schedule of the run, every buffer that    *)
(* an operation going on reads or writes is live, those of the           *)
(* invocations that have been started and not waited for included.       *)
THEOREM UsedBuffersStayLive == Spec => []UsedBuffersAreLive
PROOF
<1>1. Init => BufferInv
  BY BufferInit
<1>2. BufferInv /\ [Next]_vars => BufferInv'
  BY BufferNext
<1>3. BufferInv => UsedBuffersAreLive
  BY BuffersMean
<1> QED BY <1>1, <1>2, <1>3, PTL DEF Spec
=============================================================================
