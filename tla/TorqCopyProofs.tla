--------------------------- MODULE TorqCopyProofs ---------------------------
(***************************************************************************)
(* Proofs about TorqCopy, for buffers of any rank, shape and strides and a  *)
(* DMA of any number of strides, if the copies the code gets wrong are left *)
(* out (Included = {}).                                                     *)
(***************************************************************************)
EXTENDS TorqCopy, FiniteSetTheorems, FunctionTheorems, SequenceTheorems, WellFoundedInduction, TLAPS

Positive == Nat \ {0}

-----------------------------------------------------------------------------
(* Induction, for sets, and functions defined from their last index back.   *)
LEMMA SetInduction ==
  ASSUME NEW T, 0 \in T, \A k \in Nat : k \in T => k + 1 \in T
  PROVE  Nat \subseteq T
PROOF
<1> SUFFICES ASSUME Nat \ T # {} PROVE FALSE
  OBVIOUS
<1>1. IsWellFoundedOn(OpToRel(<, Nat), Nat)
  BY NatLessThanWellFounded
<1>2. PICK x \in Nat \ T : \A y \in Nat \ T : ~ (<<y, x>> \in OpToRel(<, Nat))
  BY <1>1, WFMin
<1>3. x # 0 /\ x \in Nat
  BY <1>2
<1>4. x - 1 \in Nat /\ x - 1 < x /\ x = (x - 1) + 1
  BY <1>3
<1>5. <<x - 1, x>> \in OpToRel(<, Nat)
  BY <1>3, <1>4 DEF OpToRel
<1>6. x - 1 \in T
  BY <1>2, <1>4, <1>5
<1> QED BY <1>2, <1>4, <1>6

(* ... up to n, *)
LEMMA UpTo ==
  ASSUME NEW n \in Nat, NEW T, 0 \in T, \A k \in 0 .. n - 1 : k \in T => k + 1 \in T
  PROVE  0 .. n \subseteq T
PROOF
<1> DEFINE U == {k \in Nat : k <= n => k \in T}
<1>1. 0 \in U
  OBVIOUS
<1>2. \A k \in Nat : k \in U => k + 1 \in U
  OBVIOUS
<1>3. Nat \subseteq U
  <2> HIDE DEF U
  <2> QED BY <1>1, <1>2, SetInduction
<1> QED BY <1>3

(* ... and down from n + 1 to 1.                                            *)
LEMMA DownFrom ==
  ASSUME NEW n \in Nat, NEW T, n + 1 \in T, \A i \in 1 .. n : i + 1 \in T => i \in T
  PROVE  1 .. n + 1 \subseteq T
PROOF
<1> DEFINE U == {k \in 0 .. n : n + 1 - k \in T}
<1>1. 0 \in U
  OBVIOUS
<1>2. ASSUME NEW k \in 0 .. n - 1, k \in U PROVE k + 1 \in U
  <2>1. n - k \in 1 .. n /\ (n - k) + 1 = n + 1 - k /\ n + 1 - (k + 1) = n - k
    OBVIOUS
  <2>2. n - k \in T
    BY <1>2, <2>1
  <2> QED BY <2>1, <2>2
<1>3. 0 .. n \subseteq U
  <2> HIDE DEF U
  <2> QED BY <1>1, <1>2, UpTo
<1>4. ASSUME NEW i \in 1 .. n + 1 PROVE i \in T
  <2>1. n + 1 - i \in 0 .. n /\ n + 1 - (n + 1 - i) = i
    OBVIOUS
  <2> QED BY <1>3, <2>1
<1> QED BY <1>4

LEMMA Recurrence ==
  ASSUME NEW n \in Nat, NEW c \in Nat, NEW step \in [1 .. n -> [Nat -> Nat]]
  PROVE  \E f \in [1 .. n + 1 -> Nat] :
           f[n + 1] = c /\ \A i \in 1 .. n : f[i] = step[i][f[i + 1]]
PROOF
<1> DEFINE D == 1 .. n + 1
           T == {k \in D : \E f \in [D -> Nat] :
                   f[n + 1] = c /\ \A i \in 1 .. n : i >= k => f[i] = step[i][f[i + 1]]}
<1>1. n + 1 \in T
  <2> DEFINE f == [i \in D |-> c]
  <2>1. f \in [D -> Nat] /\ n + 1 \in D /\ f[n + 1] = c
    OBVIOUS
  <2>2. \A i \in 1 .. n : ~ (i >= n + 1)
    OBVIOUS
  <2> HIDE DEF f, D
  <2> QED BY <2>1, <2>2
<1>2. ASSUME NEW k \in 1 .. n, k + 1 \in T PROVE k \in T
  <2>1. PICK f \in [D -> Nat] :
          f[n + 1] = c /\ \A i \in 1 .. n : i >= k + 1 => f[i] = step[i][f[i + 1]]
    BY <1>2
  <2> DEFINE g == [f EXCEPT ![k] = step[k][f[k + 1]]]
  <2>2. k \in D /\ k + 1 \in D /\ n + 1 \in D /\ k # n + 1 /\ k # k + 1
    OBVIOUS
  <2>5. f[k + 1] \in Nat /\ step[k] \in [Nat -> Nat]
    BY <2>1, <2>2
  <2>6. step[k][f[k + 1]] \in Nat
    BY <2>5
  <2>3. g \in [D -> Nat] /\ g[n + 1] = c
    <3> HIDE DEF D
    <3> QED BY <2>1, <2>2, <2>6
  <2>4. ASSUME NEW i \in 1 .. n, i >= k PROVE g[i] = step[i][g[i + 1]]
    <3>1. i + 1 \in D /\ i \in D /\ i + 1 # k
      BY <2>4
    <3>2. g[i + 1] = f[i + 1]
      BY <2>1, <3>1
    <3>3. CASE i = k
      BY <2>1, <2>2, <3>1, <3>2, <3>3
    <3>4. CASE i # k
      <4>1. i >= k + 1
        BY <2>4, <3>4
      <4>2. g[i] = f[i]
        BY <2>1, <3>1, <3>4
      <4> QED BY <2>1, <3>2, <4>1, <4>2
    <3> QED BY <3>3, <3>4
  <2> HIDE DEF g, D
  <2> QED BY <2>2, <2>3, <2>4
<1>3. 1 \in T
  <2> HIDE DEF T, D
  <2>1. 1 .. n + 1 \subseteq T
    BY <1>1, <1>2, DownFrom
  <2> QED BY <2>1
<1> QED BY <1>3
-----------------------------------------------------------------------------
(* Products and scalar products.                                            *)
LEMMA LenOf ==
  ASSUME NEW n \in Nat, NEW S, NEW s \in [1 .. n -> S]
  PROVE  Len(s) = n /\ DOMAIN s = 1 .. n /\ s \in Seq(S)
PROOF
OBVIOUS

LEMMA Products ==
  ASSUME NEW n \in Nat, NEW s \in [1 .. n -> Nat]
  PROVE  /\ Product(s, n + 1) = 1
         /\ \A i \in 1 .. n : Product(s, i) = s[i] * Product(s, i + 1)
         /\ \A i \in 1 .. n + 1 : Product(s, i) \in Nat
PROOF
<1> DEFINE G(f) == [i \in 1 .. Len(s) + 1 |-> IF i > Len(s) THEN 1 ELSE s[i] * f[i + 1]]
           F == CHOOSE f : f = G(f)
           step == [i \in 1 .. n |-> [x \in Nat |-> s[i] * x]]
<1>1. Len(s) = n
  BY LenOf
<1>2. \A i \in 1 .. n : \A x \in Nat : s[i] * x \in Nat
  OBVIOUS
<1>3. PICK f \in [1 .. n + 1 -> Nat] :
        f[n + 1] = 1 /\ \A i \in 1 .. n : f[i] = step[i][f[i + 1]]
  <2>1. step \in [1 .. n -> [Nat -> Nat]]
    BY <1>2
  <2> HIDE DEF step
  <2>2. ASSUME NEW c \in Nat
        PROVE  \E f \in [1 .. n + 1 -> Nat] :
                 f[n + 1] = c /\ \A i \in 1 .. n : f[i] = step[i][f[i + 1]]
    BY <2>1, Recurrence, ZenonT(60)
  <2> QED BY <2>2
<1>4. \A i \in 1 .. n : f[i] = s[i] * f[i + 1]
  <2> SUFFICES ASSUME NEW i \in 1 .. n PROVE f[i] = s[i] * f[i + 1]
    OBVIOUS
  <2>1. f[i + 1] \in Nat
    BY <1>3
  <2> QED BY <1>3, <2>1
<1>5. f = G(f)
  BY <1>1, <1>3, <1>4
<1>6. F = G(F)
  <2> HIDE DEF G
  <2> QED BY <1>5
<1>7. F[n + 1] = 1 /\ \A i \in 1 .. n : F[i] = s[i] * F[i + 1]
  <2> HIDE DEF F
  <2> QED BY <1>1, <1>6
<1>8. \A i : Product(s, i) = F[i]
  BY DEF Product
<1> DEFINE T == {i \in 1 .. n + 1 : F[i] \in Nat}
<1>9. 1 .. n + 1 \subseteq T
  <2> HIDE DEF F
  <2>1. n + 1 \in T
    BY <1>7
  <2>2. ASSUME NEW i \in 1 .. n, i + 1 \in T PROVE i \in T
    <3>1. F[i + 1] \in Nat /\ i \in 1 .. n + 1
      BY <2>2
    <3>2. F[i] \in Nat
      BY <1>2, <1>7, <3>1
    <3> QED BY <3>1, <3>2
  <2> HIDE DEF T
  <2> QED BY <2>1, <2>2, DownFrom
<1> HIDE DEF F
<1> QED BY <1>7, <1>8, <1>9

LEMMA Dots ==
  ASSUME NEW n \in Nat, NEW s \in [1 .. n -> Nat], NEW t \in [1 .. n -> Nat]
  PROVE  /\ DotFrom(s, t, n + 1) = 0
         /\ \A i \in 1 .. n : DotFrom(s, t, i) = s[i] * t[i] + DotFrom(s, t, i + 1)
         /\ \A i \in 1 .. n + 1 : DotFrom(s, t, i) \in Nat
PROOF
<1> DEFINE G(f) == [i \in 1 .. Len(s) + 1 |-> IF i > Len(s) THEN 0 ELSE s[i] * t[i] + f[i + 1]]
           F == CHOOSE f : f = G(f)
           step == [i \in 1 .. n |-> [x \in Nat |-> s[i] * t[i] + x]]
<1>1. Len(s) = n
  BY LenOf
<1>2. \A i \in 1 .. n : \A x \in Nat : s[i] * t[i] + x \in Nat
  <2> SUFFICES ASSUME NEW i \in 1 .. n, NEW x \in Nat PROVE s[i] * t[i] + x \in Nat
    OBVIOUS
  <2>1. s[i] \in Nat /\ t[i] \in Nat
    OBVIOUS
  <2>2. s[i] * t[i] \in Nat
    BY <2>1
  <2> QED BY <2>2
<1>3. PICK f \in [1 .. n + 1 -> Nat] :
        f[n + 1] = 0 /\ \A i \in 1 .. n : f[i] = step[i][f[i + 1]]
  <2>1. step \in [1 .. n -> [Nat -> Nat]]
    BY <1>2
  <2> HIDE DEF step
  <2>2. ASSUME NEW c \in Nat
        PROVE  \E f \in [1 .. n + 1 -> Nat] :
                 f[n + 1] = c /\ \A i \in 1 .. n : f[i] = step[i][f[i + 1]]
    BY <2>1, Recurrence, ZenonT(60)
  <2> QED BY <2>2
<1>4. \A i \in 1 .. n : f[i] = s[i] * t[i] + f[i + 1]
  <2> SUFFICES ASSUME NEW i \in 1 .. n PROVE f[i] = s[i] * t[i] + f[i + 1]
    OBVIOUS
  <2>1. f[i + 1] \in Nat
    BY <1>3
  <2> QED BY <1>3, <2>1
<1>5. f = G(f)
  BY <1>1, <1>3, <1>4
<1>6. F = G(F)
  <2> HIDE DEF G
  <2> QED BY <1>5
<1>7. F[n + 1] = 0 /\ \A i \in 1 .. n : F[i] = s[i] * t[i] + F[i + 1]
  <2> HIDE DEF F
  <2>1. F = [i \in 1 .. n + 1 |-> IF i > n THEN 0 ELSE s[i] * t[i] + F[i + 1]]
    BY <1>1, <1>6
  <2>2. F[n + 1] = 0
    BY <2>1
  <2>3. ASSUME NEW i \in 1 .. n PROVE F[i] = s[i] * t[i] + F[i + 1]
    <3>1. i \in 1 .. n + 1 /\ ~ (i > n)
      OBVIOUS
    <3>2. F[i] = IF i > n THEN 0 ELSE s[i] * t[i] + F[i + 1]
      BY <2>1, <3>1, Zenon
    <3> QED BY <3>1, <3>2, Zenon
  <2> QED BY <2>2, <2>3
<1>8. \A i : DotFrom(s, t, i) = F[i]
  BY DEF DotFrom
<1> DEFINE T == {i \in 1 .. n + 1 : F[i] \in Nat}
<1>9. 1 .. n + 1 \subseteq T
  <2> HIDE DEF F
  <2>1. n + 1 \in T
    BY <1>7
  <2>2. ASSUME NEW i \in 1 .. n, i + 1 \in T PROVE i \in T
    <3>1. F[i + 1] \in Nat /\ i \in 1 .. n + 1
      BY <2>2
    <3>2. F[i] \in Nat
      BY <1>2, <1>7, <3>1
    <3> QED BY <3>1, <3>2
  <2> HIDE DEF T
  <2> QED BY <2>1, <2>2, DownFrom
<1> HIDE DEF F
<1> QED BY <1>7, <1>8, <1>9

(* Equal terms have equal sums, *)
LEMMA DotEqual ==
  ASSUME NEW n \in Nat, NEW s \in [1 .. n -> Nat], NEW t \in [1 .. n -> Nat],
         NEW u \in [1 .. n -> Nat], NEW v \in [1 .. n -> Nat], NEW k \in 1 .. n + 1,
         \A i \in 1 .. n : i >= k => s[i] * t[i] = u[i] * v[i]
  PROVE  DotFrom(s, t, k) = DotFrom(u, v, k)
PROOF
<1> DEFINE T == {i \in 1 .. n + 1 : i >= k => DotFrom(s, t, i) = DotFrom(u, v, i)}
<1>1. n + 1 \in T
  <2>1. DotFrom(s, t, n + 1) = 0 /\ DotFrom(u, v, n + 1) = 0
    BY Dots, Zenon
  <2> QED BY <2>1
<1>2. ASSUME NEW i \in 1 .. n, i + 1 \in T PROVE i \in T
  <2> SUFFICES ASSUME i >= k PROVE DotFrom(s, t, i) = DotFrom(u, v, i)
    OBVIOUS
  <2>1. DotFrom(s, t, i + 1) = DotFrom(u, v, i + 1)
    BY <1>2
  <2>2. DotFrom(s, t, i) = s[i] * t[i] + DotFrom(s, t, i + 1)
    BY Dots
  <2>3. DotFrom(u, v, i) = u[i] * v[i] + DotFrom(u, v, i + 1)
    BY Dots
  <2>4. s[i] * t[i] = u[i] * v[i]
    OBVIOUS
  <2> QED BY <2>1, <2>2, <2>3, <2>4, Zenon
<1>3. 1 .. n + 1 \subseteq T
  <2> HIDE DEF T
  <2> QED BY <1>1, <1>2, DownFrom
<1> QED BY <1>3

LEMMA DotSame ==
  ASSUME NEW n \in Nat, NEW s \in [1 .. n -> Nat], NEW t \in [1 .. n -> Nat],
         NEW u \in [1 .. n -> Nat], NEW k \in 1 .. n + 1,
         \A i \in 1 .. n : i >= k => s[i] = u[i]
  PROVE  DotFrom(s, t, k) = DotFrom(u, t, k)
PROOF
<1>1. \A i \in 1 .. n : i >= k => s[i] * t[i] = u[i] * t[i]
  BY Zenon
<1> QED BY <1>1, DotEqual, ZenonT(60)

LEMMA DotStrides ==
  ASSUME NEW n \in Nat, NEW s \in [1 .. n -> Nat], NEW t \in [1 .. n -> Nat],
         NEW v \in [1 .. n -> Nat], NEW k \in 1 .. n + 1,
         \A i \in 1 .. n : i >= k => s[i] = 0 \/ t[i] = v[i]
  PROVE  DotFrom(s, t, k) = DotFrom(s, v, k)
PROOF
<1>1. ASSUME NEW i \in 1 .. n, i >= k PROVE s[i] * t[i] = s[i] * v[i]
  <2>1. t[i] \in Nat /\ v[i] \in Nat
    OBVIOUS
  <2>2. CASE s[i] = 0
    BY <2>1, <2>2
  <2>3. CASE t[i] = v[i]
    BY <2>3
  <2> QED BY <1>1, <2>2, <2>3
<1>2. \A i \in 1 .. n : i >= k => s[i] * t[i] = s[i] * v[i]
  BY <1>1, Zenon
<1> QED BY <1>2, DotEqual, ZenonT(60)

(* the sum for a sum is the sum of the sums, *)
LEMMA DotSum ==
  ASSUME NEW n \in Nat, NEW s \in [1 .. n -> Nat], NEW u \in [1 .. n -> Nat],
         NEW t \in [1 .. n -> Nat], NEW k \in 1 .. n + 1
  PROVE  DotFrom([i \in 1 .. n |-> s[i] + u[i]], t, k) = DotFrom(s, t, k) + DotFrom(u, t, k)
PROOF
<1> DEFINE w == [i \in 1 .. n |-> s[i] + u[i]]
           T == {i \in 1 .. n + 1 : DotFrom(w, t, i) = DotFrom(s, t, i) + DotFrom(u, t, i)}
<1>0. w \in [1 .. n -> Nat] /\ \A i \in 1 .. n : w[i] = s[i] + u[i]
  OBVIOUS
<1> HIDE DEF w
<1>1. n + 1 \in T
  <2>1. DotFrom(s, t, n + 1) = 0 /\ DotFrom(u, t, n + 1) = 0 /\ DotFrom(w, t, n + 1) = 0
    BY <1>0, Dots, Zenon
  <2> QED BY <2>1
<1>2. ASSUME NEW i \in 1 .. n, i + 1 \in T PROVE i \in T
  <2>1. DotFrom(w, t, i + 1) = DotFrom(s, t, i + 1) + DotFrom(u, t, i + 1)
    BY <1>2
  <2>2. /\ DotFrom(s, t, i) = s[i] * t[i] + DotFrom(s, t, i + 1)
        /\ DotFrom(u, t, i) = u[i] * t[i] + DotFrom(u, t, i + 1)
    BY Dots, Zenon
  <2>10. DotFrom(s, t, i + 1) \in Nat /\ DotFrom(u, t, i + 1) \in Nat
    <3>1. i + 1 \in 1 .. n + 1
      OBVIOUS
    <3> QED BY <3>1, Dots, Zenon
  <2>3. DotFrom(w, t, i) = w[i] * t[i] + DotFrom(w, t, i + 1)
    BY <1>0, Dots
  <2>4. s[i] \in Nat /\ u[i] \in Nat /\ t[i] \in Nat /\ w[i] = s[i] + u[i]
    BY <1>0
  <2>5. ASSUME NEW a \in Nat, NEW b \in Nat, NEW c \in Nat PROVE (a + b) * c = a * c + b * c
    BY Z3
  <2>6. w[i] * t[i] = s[i] * t[i] + u[i] * t[i]
    BY <2>4, <2>5
  <2>7. s[i] * t[i] \in Nat /\ u[i] * t[i] \in Nat
    BY <2>4
  <2>8. ASSUME NEW a \in Nat, NEW b \in Nat, NEW c \in Nat, NEW d \in Nat
        PROVE  (a + b) + (c + d) = (a + c) + (b + d)
    OBVIOUS
  <2>9. DotFrom(w, t, i) = DotFrom(s, t, i) + DotFrom(u, t, i)
    BY <2>1, <2>2, <2>3, <2>6, <2>7, <2>8, <2>10
  <2> QED BY <2>9
<1>3. 1 .. n + 1 \subseteq T
  <2> HIDE DEF T
  <2> QED BY <1>1, <1>2, DownFrom
<1> QED BY <1>3 DEF w

(* and terms of zero add nothing.                                           *)
LEMMA DotZeros ==
  ASSUME NEW n \in Nat, NEW s \in [1 .. n -> Nat], NEW t \in [1 .. n -> Nat],
         NEW k \in 1 .. n + 1, \A i \in 1 .. n : i < k => s[i] = 0
  PROVE  DotFrom(s, t, 1) = DotFrom(s, t, k)
PROOF
<1> DEFINE T == {m \in 0 .. k - 1 : DotFrom(s, t, m + 1) = DotFrom(s, t, 1)}
<1>1. 0 \in T
  OBVIOUS
<1>2. ASSUME NEW m \in 0 .. (k - 1) - 1, m \in T PROVE m + 1 \in T
  <2>1. m + 1 \in 1 .. n /\ m + 1 < k
    OBVIOUS
  <2>2. DotFrom(s, t, m + 1) = s[m + 1] * t[m + 1] + DotFrom(s, t, (m + 1) + 1)
    BY <2>1, Dots, Zenon
  <2>3. s[m + 1] = 0 /\ t[m + 1] \in Nat
    BY <2>1
  <2>4. DotFrom(s, t, (m + 1) + 1) \in Nat
    <3>1. (m + 1) + 1 \in 1 .. n + 1
      BY <2>1
    <3> QED BY <3>1, Dots, Zenon
  <2>5. DotFrom(s, t, m + 1) = DotFrom(s, t, (m + 1) + 1)
    BY <2>2, <2>3, <2>4
  <2> QED BY <1>2, <2>1, <2>5
<1>3. 0 .. k - 1 \subseteq T
  <2>1. k - 1 \in Nat
    OBVIOUS
  <2> HIDE DEF T
  <2> QED BY <1>1, <1>2, <2>1, UpTo
<1>4. k - 1 \in T
  <2> HIDE DEF T
  <2> QED BY <1>3
<1> QED BY <1>4
-----------------------------------------------------------------------------
(* Strides.  A dimension is at least as wide as what is inside it.          *)
Wide(n, st, shape) ==
  /\ st \in [1 .. n -> Nat]
  /\ n > 0 => st[n] >= 1
  /\ \A i \in 1 .. n : i < n => st[i] >= shape[i + 1] * st[i + 1]

Below(n, shape) == {f \in [1 .. n -> Nat] : \A i \in 1 .. n : f[i] < shape[i]}

LEMMA Multiples ==
  /\ \A a, b \in Nat : a * b \in Nat
  /\ \A a, b \in Positive : a * b \in Positive /\ a * b >= b
  /\ \A a, b, c, d \in Nat : a <= b /\ c <= d => a * c <= b * d
  /\ \A a, b, c \in Nat : (a + 1) * c = a * c + c
PROOF
<1>1. \A a, b \in Nat : a * b \in Nat
  OBVIOUS
<1>2. ASSUME NEW a \in Positive, NEW b \in Positive PROVE a * b \in Positive /\ a * b >= b
  <2>1. a - 1 \in Nat /\ b \in Nat /\ b >= 1
    BY DEF Positive
  <2>2. a * b = (a - 1) * b + b
    BY <2>1, Z3 DEF Positive
  <2>3. (a - 1) * b \in Nat
    BY <2>1
  <2> DEFINE x == (a - 1) * b
             y == a * b
  <2>4. x \in Nat /\ y = x + b
    BY <2>2, <2>3
  <2> HIDE DEF x, y
  <2>5. y \in Positive /\ y >= b
    BY <2>1, <2>4 DEF Positive
  <2> QED BY <2>5 DEF y
<1>3. ASSUME NEW a \in Nat, NEW b \in Nat, NEW c \in Nat, NEW d \in Nat, a <= b, c <= d
      PROVE  a * c <= b * d
  BY <1>3, Z3
<1>4. ASSUME NEW a \in Nat, NEW c \in Nat PROVE (a + 1) * c = a * c + c
  BY Z3
<1> QED BY <1>1, <1>2, <1>3, <1>4

LEMMA WideIsPositive ==
  ASSUME NEW n \in Nat, NEW shape \in [1 .. n -> Positive], NEW st, Wide(n, st, shape)
  PROVE  \A i \in 1 .. n : st[i] \in Positive
PROOF
<1> DEFINE T == {i \in 1 .. n + 1 : i <= n => st[i] \in Positive}
<1>1. n + 1 \in T
  OBVIOUS
<1>2. ASSUME NEW i \in 1 .. n, i + 1 \in T PROVE i \in T
  <2>1. st[i] \in Nat
    BY DEF Wide
  <2>2. CASE i = n
    BY <2>1, <2>2 DEF Wide, Positive
  <2>3. CASE i # n
    <3>1. i < n /\ i + 1 \in 1 .. n
      BY <2>3
    <3>2. st[i + 1] \in Positive /\ shape[i + 1] \in Positive
      BY <1>2, <3>1
    <3>3. shape[i + 1] * st[i + 1] \in Positive
      BY <3>2, Multiples
    <3>4. st[i] >= shape[i + 1] * st[i + 1]
      BY <3>1 DEF Wide
    <3> DEFINE x == shape[i + 1] * st[i + 1]
    <3>5. x \in Positive /\ st[i] >= x
      BY <3>3, <3>4
    <3> HIDE DEF x
    <3>6. st[i] \in Positive
      BY <2>1, <3>5 DEF Positive
    <3> QED BY <3>6
  <2> QED BY <2>2, <2>3
<1>3. 1 .. n + 1 \subseteq T
  <2> HIDE DEF T
  <2> QED BY <1>1, <1>2, DownFrom
<1> QED BY <1>3

(* What is inside a dimension does not reach its next element.              *)
LEMMA Extent ==
  ASSUME NEW n \in Nat, NEW shape \in [1 .. n -> Positive], NEW st, Wide(n, st, shape),
         NEW f \in Below(n, shape)
  PROVE  /\ \A i \in 1 .. n : DotFrom(f, st, i + 1) < st[i]
         /\ \A i \in 1 .. n : DotFrom(f, st, i) < shape[i] * st[i]
PROOF
<1> DEFINE T == {i \in 1 .. n + 1 :
                   /\ i <= n => DotFrom(f, st, i) < shape[i] * st[i]
                   /\ i > 1 => DotFrom(f, st, i) < st[i - 1]}
<1>0. f \in [1 .. n -> Nat] /\ st \in [1 .. n -> Nat] /\ \A i \in 1 .. n : f[i] < shape[i]
  BY DEF Below, Wide
<1>1. n + 1 \in T
  <2>1. DotFrom(f, st, n + 1) = 0
    BY <1>0, Dots, Zenon
  <2>2. ASSUME n + 1 > 1 PROVE 0 < st[n]
    BY <1>0, <2>2 DEF Wide
  <2>3. (n + 1) - 1 = n /\ ~ (n + 1 <= n) /\ n + 1 \in 1 .. n + 1
    OBVIOUS
  <2> QED BY <2>1, <2>2, <2>3
<1>2. ASSUME NEW i \in 1 .. n, i + 1 \in T PROVE i \in T
  <2> DEFINE a == f[i]
             b == shape[i]
             c == st[i]
             r == DotFrom(f, st, i + 1)
             d == DotFrom(f, st, i)
             p == a * c
             q == b * c
  <2>1. a \in Nat /\ b \in Nat /\ c \in Nat /\ a + 1 <= b
    BY <1>0 DEF Positive
  <2>2. r \in Nat /\ r < c
    <3>1. i + 1 \in 1 .. n + 1 /\ i + 1 > 1 /\ (i + 1) - 1 = i
      OBVIOUS
    <3>2. r \in Nat
      BY <1>0, <3>1, Dots, Zenon
    <3> QED BY <1>2, <3>1, <3>2
  <2>3. d = p + r
    BY <1>0, Dots, Zenon
  <2>4. p \in Nat /\ q \in Nat /\ p + c <= q
    <3>1. a + 1 \in Nat /\ c <= c
      BY <2>1
    <3> HIDE DEF a, b, c
    <3>2. (a + 1) * c <= b * c
      BY <2>1, <3>1, Multiples
    <3>3. (a + 1) * c = a * c + c
      BY <2>1, Multiples
    <3>4. a * c \in Nat /\ b * c \in Nat
      BY <2>1, Multiples
    <3> QED BY <3>2, <3>3, <3>4
  <2> HIDE DEF p, q, r, d, c
  <2>5. d < q
    BY <2>1, <2>2, <2>3, <2>4
  <2>6. ASSUME i > 1 PROVE d < st[i - 1]
    <3>1. i - 1 \in 1 .. n /\ i - 1 < n /\ (i - 1) + 1 = i
      BY <2>6
    <3>2. st[i - 1] >= q /\ st[i - 1] \in Nat
      BY <1>0, <3>1 DEF Wide, q, c
    <3>3. d \in Nat
      BY <2>2, <2>3, <2>4
    <3> QED BY <2>4, <2>5, <3>2, <3>3
  <2> QED BY <2>5, <2>6 DEF d, q, c
<1>3. 1 .. n + 1 \subseteq T
  <2> HIDE DEF T
  <2> QED BY <1>1, <1>2, DownFrom
<1>4. ASSUME NEW i \in 1 .. n PROVE DotFrom(f, st, i + 1) < st[i]
  <2>1. i + 1 \in T /\ i + 1 > 1 /\ (i + 1) - 1 = i
    BY <1>3
  <2> QED BY <2>1
<1>5. ASSUME NEW i \in 1 .. n PROVE DotFrom(f, st, i) < shape[i] * st[i]
  <2>1. i \in T /\ i <= n
    BY <1>3
  <2> QED BY <2>1
<1> QED BY <1>4, <1>5

(* A number has one quotient and one rest.                                  *)
LEMMA Digits ==
  ASSUME NEW x \in Nat, NEW y \in Nat, NEW z \in Nat, NEW u \in Nat, NEW v \in Nat,
         u < z, v < z, x * z + u = y * z + v
  PROVE  x = y /\ u = v
PROOF
<1>1. CASE x < y
  <2>1. x + 1 <= y /\ x + 1 \in Nat /\ z <= z
    BY <1>1
  <2>2. (x + 1) * z <= y * z /\ (x + 1) * z = x * z + z /\ x * z \in Nat /\ y * z \in Nat
    BY <2>1, Multiples
  <2> DEFINE p == x * z
             q == y * z
  <2>3. p \in Nat /\ q \in Nat /\ p + z <= q /\ p + u = q + v
    BY <2>2
  <2> HIDE DEF p, q
  <2> QED BY <2>3
<1>2. CASE y < x
  <2>1. y + 1 <= x /\ y + 1 \in Nat /\ z <= z
    BY <1>2
  <2>2. (y + 1) * z <= x * z /\ (y + 1) * z = y * z + z /\ x * z \in Nat /\ y * z \in Nat
    BY <2>1, Multiples
  <2> DEFINE p == x * z
             q == y * z
  <2>3. p \in Nat /\ q \in Nat /\ q + z <= p /\ p + u = q + v
    BY <2>2
  <2> HIDE DEF p, q
  <2> QED BY <2>3
<1>3. CASE x = y
  <2> DEFINE p == y * z
  <2>1. p \in Nat /\ p + u = p + v
    BY <1>3
  <2> HIDE DEF p
  <2> QED BY <1>3, <2>1
<1> QED BY <1>1, <1>2, <1>3

LEMMA Division ==
  ASSUME NEW n \in Nat, NEW d \in Positive
  PROVE  n \div d \in Nat /\ n % d \in Nat /\ n % d < d /\ n = (n \div d) * d + (n % d)
PROOF
<1> DEFINE q == n \div d
           r == n % d
<1>1. q \in Int /\ r \in 0 .. d - 1 /\ n = d * q + r
  BY DEF Positive
<1>2. d \in Nat /\ d >= 1
  BY DEF Positive
<1> HIDE DEF q, r
<1>3. q >= 0
  BY <1>1, <1>2, Z3
<1>4. n = q * d + r
  BY <1>1, <1>2, Z3
<1> QED BY <1>1, <1>2, <1>3, <1>4 DEF q, r

(* So an element is at one place.                                           *)
LEMMA DotInjective ==
  ASSUME NEW n \in Nat, NEW shape \in [1 .. n -> Positive], NEW st, Wide(n, st, shape),
         NEW f \in Below(n, shape), NEW g \in Below(n, shape),
         DotFrom(f, st, 1) = DotFrom(g, st, 1)
  PROVE  f = g
PROOF
<1> DEFINE T == {m \in 0 .. n : /\ DotFrom(f, st, m + 1) = DotFrom(g, st, m + 1)
                               /\ \A i \in 1 .. m : f[i] = g[i]}
<1>0. /\ f \in [1 .. n -> Nat] /\ g \in [1 .. n -> Nat] /\ st \in [1 .. n -> Nat]
  BY DEF Below, Wide
<1>1. 0 \in T
  OBVIOUS
<1>2. ASSUME NEW m \in 0 .. n - 1, m \in T PROVE m + 1 \in T
  <2> DEFINE i == m + 1
             a == f[i]
             b == g[i]
             c == st[i]
             r == DotFrom(f, st, i + 1)
             s == DotFrom(g, st, i + 1)
  <2>1. i \in 1 .. n /\ i + 1 \in 1 .. n + 1
    OBVIOUS
  <2> HIDE DEF i
  <2>2. a \in Nat /\ b \in Nat /\ c \in Nat
    BY <1>0, <2>1
  <2>3. r \in Nat /\ s \in Nat
    BY <1>0, <2>1, Dots, Zenon
  <2>4. r < c /\ s < c
    BY <2>1, Extent
  <2>5. DotFrom(f, st, i) = a * c + r
    BY <1>0, <2>1, Dots, Zenon
  <2>6. DotFrom(g, st, i) = b * c + s
    BY <1>0, <2>1, Dots, Zenon
  <2>7. DotFrom(f, st, i) = DotFrom(g, st, i)
    BY <1>2 DEF i
  <2>9. a * c + r = b * c + s
    BY <2>5, <2>6, <2>7, Zenon
  <2> HIDE DEF a, b, c, r, s
  <2>10. a = b /\ r = s
    BY <2>2, <2>3, <2>4, <2>9, Digits
  <2>11. ASSUME NEW k \in 1 .. m + 1 PROVE f[k] = g[k]
    <3>1. k \in 1 .. m \/ k = i
      BY DEF i
    <3> QED BY <1>2, <2>10, <3>1 DEF a, b
  <2> QED BY <2>1, <2>10, <2>11 DEF r, s, i
<1>3. 0 .. n \subseteq T
  <2> HIDE DEF T
  <2> QED BY <1>1, <1>2, UpTo
<1>4. \A i \in 1 .. n : f[i] = g[i]
  <2>1. n \in T
    BY <1>3
  <2> QED BY <2>1
<1> QED BY <1>0, <1>4

(* The strides of a dense buffer.                                           *)
Naturals(n, shape) == [i \in 1 .. n |-> Product(shape, i + 1)]

LEMMA NaturalIsWide ==
  ASSUME NEW n \in Nat, NEW shape \in [1 .. n -> Positive]
  PROVE  /\ Wide(n, Naturals(n, shape), shape)
         /\ \A i \in 1 .. n + 1 : Product(shape, i) \in Positive
         /\ \A i \in 1 .. n : Naturals(n, shape)[i] = Product(shape, i + 1)
         /\ \A i \in 1 .. n : Product(shape, i) = shape[i] * Naturals(n, shape)[i]
PROOF
<1> DEFINE N == Naturals(n, shape)
           T == {i \in 1 .. n + 1 : Product(shape, i) \in Positive}
<1>0. shape \in [1 .. n -> Nat]
  BY DEF Positive
<1>1. \A i \in 1 .. n : N[i] = Product(shape, i + 1)
  BY DEF Naturals
<1>2. n + 1 \in T
  <2>1. Product(shape, n + 1) = 1
    BY <1>0, Products, Zenon
  <2> QED BY <2>1 DEF Positive
<1>3. ASSUME NEW i \in 1 .. n, i + 1 \in T PROVE i \in T
  <2>1. Product(shape, i) = shape[i] * Product(shape, i + 1)
    BY <1>0, Products, Zenon
  <2>2. shape[i] \in Positive /\ Product(shape, i + 1) \in Positive
    BY <1>3
  <2>3. shape[i] * Product(shape, i + 1) \in Positive
    BY <2>2, Multiples
  <2>4. Product(shape, i) \in Positive
    BY <2>1, <2>3, Zenon
  <2> QED BY <2>4
<1>4. 1 .. n + 1 \subseteq T
  <2> HIDE DEF T
  <2> QED BY <1>2, <1>3, DownFrom
<1>5. \A i \in 1 .. n : Product(shape, i) = shape[i] * N[i]
  <2> SUFFICES ASSUME NEW i \in 1 .. n PROVE Product(shape, i) = shape[i] * N[i]
    OBVIOUS
  <2>1. Product(shape, i) = shape[i] * Product(shape, i + 1)
    BY <1>0, Products, Zenon
  <2> QED BY <1>1, <2>1, Zenon
<1>6. \A i \in 1 .. n + 1 : Product(shape, i) \in Positive
  BY <1>4
<1>7. Wide(n, N, shape)
  <2>1. N \in [1 .. n -> Nat]
    <3>1. ASSUME NEW i \in 1 .. n PROVE Product(shape, i + 1) \in Nat
      <4>1. i + 1 \in 1 .. n + 1
        OBVIOUS
      <4> QED BY <1>6, <4>1 DEF Positive
    <3> QED BY <3>1 DEF Naturals
  <2>2. ASSUME n > 0 PROVE N[n] >= 1
    <3>1. n \in 1 .. n
      BY <2>2
    <3>2. Product(shape, n + 1) = 1
      BY <1>0, Products, Zenon
    <3>3. N[n] = 1
      BY <1>1, <3>1, <3>2, Zenon
    <3> QED BY <3>3
  <2>3. ASSUME NEW i \in 1 .. n, i < n PROVE N[i] >= shape[i + 1] * N[i + 1]
    <3>1. i + 1 \in 1 .. n
      BY <2>3
    <3>2. N[i] = shape[i + 1] * N[i + 1]
      BY <1>1, <1>5, <3>1, Zenon
    <3>3. N[i] \in Nat
      BY <2>1
    <3> QED BY <3>2, <3>3
  <2> QED BY <2>1, <2>2, <2>3 DEF Wide
<1> QED BY <1>1, <1>5, <1>6, <1>7

(* No strides that are wide enough are less than those of a dense buffer.   *)
LEMMA NaturalIsLeast ==
  ASSUME NEW n \in Nat, NEW counts \in [1 .. n -> Positive], NEW st, Wide(n, st, counts),
         NEW shape \in [1 .. n -> Positive], \A i \in 1 .. n : shape[i] <= counts[i]
  PROVE  \A i \in 1 .. n : Naturals(n, shape)[i] <= st[i]
PROOF
<1> DEFINE N == Naturals(n, shape)
           T == {i \in 1 .. n + 1 : i <= n => N[i] <= st[i]}
<1>0. N \in [1 .. n -> Nat] /\ st \in [1 .. n -> Nat]
  BY NaturalIsWide DEF Wide
<1>1. n + 1 \in T
  OBVIOUS
<1>2. ASSUME NEW i \in 1 .. n, i + 1 \in T PROVE i \in T
  <2>1. CASE i = n
    <3>1. Product(shape, n + 1) = 1
      <4>1. shape \in [1 .. n -> Nat]
        BY DEF Positive
      <4> QED BY <4>1, Products, Zenon
    <3>2. N[i] = 1
      BY <2>1, <3>1, NaturalIsWide, Zenon
    <3>3. st[i] >= 1
      BY <2>1 DEF Wide
    <3> QED BY <1>0, <3>2, <3>3
  <2>2. CASE i # n
    <3>1. i < n /\ i + 1 \in 1 .. n /\ i + 1 <= n
      BY <2>2
    <3> DEFINE a == shape[i + 1]
               b == counts[i + 1]
               c == N[i + 1]
               d == st[i + 1]
    <3>2. a \in Nat /\ b \in Nat /\ c \in Nat /\ d \in Nat /\ a <= b
      BY <1>0, <3>1 DEF Positive
    <3>3. c <= d
      BY <1>2, <3>1
    <3>4. N[i] = a * c
      <4>1. N[i] = Product(shape, i + 1)
        BY NaturalIsWide, Zenon
      <4>2. Product(shape, i + 1) = a * c
        BY <3>1, NaturalIsWide, Zenon
      <4> QED BY <4>1, <4>2
    <3>5. st[i] >= b * d
      BY <3>1 DEF Wide
    <3>6. a * c <= b * d /\ a * c \in Nat /\ b * d \in Nat
      BY <3>2, <3>3, Multiples
    <3> DEFINE p == a * c
               q == b * d
    <3>7. p \in Nat /\ q \in Nat /\ p <= q /\ N[i] = p /\ st[i] >= q
      BY <3>4, <3>5, <3>6
    <3> HIDE DEF p, q
    <3>8. N[i] <= st[i]
      BY <1>0, <3>7
    <3> QED BY <3>8
  <2> QED BY <2>1, <2>2
<1>3. 1 .. n + 1 \subseteq T
  <2> HIDE DEF T
  <2> QED BY <1>1, <1>2, DownFrom
<1> QED BY <1>3

(* The elements of a dense buffer are all places from its first to its last. *)
LEMMA NaturalReaches ==
  ASSUME NEW n \in Nat, NEW shape \in [1 .. n -> Positive], NEW k \in 1 .. n + 1,
         NEW e \in Nat, e < Product(shape, k)
  PROVE  \E f \in Below(n, shape) :
           /\ \A i \in 1 .. n : i < k => f[i] = 0
           /\ DotFrom(f, Naturals(n, shape), k) = e
PROOF
<1> DEFINE N == Naturals(n, shape)
           T == {m \in 1 .. n + 1 : \A x \in Nat : x < Product(shape, m) =>
                   \E f \in Below(n, shape) :
                     /\ \A i \in 1 .. n : i < m => f[i] = 0
                     /\ DotFrom(f, N, m) = x}
<1>0. N \in [1 .. n -> Nat] /\ shape \in [1 .. n -> Nat]
  BY NaturalIsWide DEF Wide, Positive
<1>1. n + 1 \in T
  <2> SUFFICES ASSUME NEW x \in Nat, x < Product(shape, n + 1)
               PROVE  \E f \in Below(n, shape) :
                        /\ \A i \in 1 .. n : i < n + 1 => f[i] = 0
                        /\ DotFrom(f, N, n + 1) = x
    OBVIOUS
  <2> DEFINE f == [i \in 1 .. n |-> 0]
  <2>1. x = 0
    <3>1. Product(shape, n + 1) = 1
      BY <1>0, Products, Zenon
    <3> QED BY <3>1
  <2>2. f \in [1 .. n -> Nat] /\ f \in Below(n, shape) /\ \A i \in 1 .. n : f[i] = 0
    BY DEF Below, Positive
  <2> HIDE DEF f
  <2>3. DotFrom(f, N, n + 1) = 0
    BY <1>0, <2>2, Dots, Zenon
  <2> QED BY <2>1, <2>2, <2>3
<1>2. ASSUME NEW m \in 1 .. n, m + 1 \in T PROVE m \in T
  <2> SUFFICES ASSUME NEW x \in Nat, x < Product(shape, m)
               PROVE  \E f \in Below(n, shape) :
                        /\ \A i \in 1 .. n : i < m => f[i] = 0
                        /\ DotFrom(f, N, m) = x
    OBVIOUS
  <2> DEFINE d == N[m]
             q == x \div d
             r == x % d
  <2>1. d = Product(shape, m + 1) /\ d \in Positive
    <3>1. N[m] = Product(shape, m + 1)
      BY NaturalIsWide, Zenon
    <3>2. m + 1 \in 1 .. n + 1
      OBVIOUS
    <3>3. Product(shape, m + 1) \in Positive
      BY <3>2, NaturalIsWide
    <3> QED BY <3>1, <3>3
  <2> HIDE DEF d
  <2>2. q \in Nat /\ r \in Nat /\ r < d /\ x = q * d + r
    BY <2>1, Division
  <2> HIDE DEF q, r
  <2>3. q < shape[m]
    <3> SUFFICES ASSUME shape[m] <= q PROVE FALSE
      BY <1>0, <2>2
    <3>1. shape[m] * d <= q * d
      BY <1>0, <2>1, <2>2, Multiples, SMTT(30) DEF Positive
    <3>2. Product(shape, m) = shape[m] * d
      BY NaturalIsWide, Zenon DEF d
    <3> DEFINE a == shape[m] * d
               b == q * d
    <3>3. a \in Nat /\ b \in Nat /\ a <= b /\ x < a /\ x = b + r
      BY <1>0, <2>1, <2>2, <3>1, <3>2, Multiples DEF Positive
    <3> HIDE DEF a, b
    <3> QED BY <2>2, <3>3
  <2>4. PICK f \in Below(n, shape) : /\ \A i \in 1 .. n : i < m + 1 => f[i] = 0
                                     /\ DotFrom(f, N, m + 1) = r
    BY <1>2, <2>1, <2>2
  <2> DEFINE g == [f EXCEPT ![m] = q]
  <2>5. f \in [1 .. n -> Nat] /\ \A i \in 1 .. n : f[i] < shape[i]
    BY <2>4 DEF Below
  <2>6. /\ g \in [1 .. n -> Nat] /\ g[m] = q
        /\ \A i \in 1 .. n : i # m => g[i] = f[i]
    BY <2>2, <2>5
  <2> HIDE DEF g
  <2>7. g \in Below(n, shape)
    <3>1. ASSUME NEW i \in 1 .. n PROVE g[i] < shape[i]
      BY <2>3, <2>5, <2>6
    <3> QED BY <2>6, <3>1 DEF Below
  <2>8. \A i \in 1 .. n : i < m => g[i] = 0
    BY <2>4, <2>6
  <2>9. DotFrom(g, N, m + 1) = r
    <3>1. \A i \in 1 .. n : i >= m + 1 => g[i] = f[i]
      BY <2>6
    <3>2. m + 1 \in 1 .. n + 1
      OBVIOUS
    <3> HIDE DEF N
    <3>4. DotFrom(g, N, m + 1) = DotFrom(f, N, m + 1)
      BY <1>0, <2>5, <2>6, <3>1, <3>2, DotSame, ZenonT(60)
    <3> QED BY <2>4, <3>4
  <2>10. DotFrom(g, N, m) = g[m] * N[m] + DotFrom(g, N, m + 1)
    BY <1>0, <2>6, Dots, Zenon
  <2>11. DotFrom(g, N, m) = x
    BY <2>2, <2>6, <2>9, <2>10, Zenon DEF d
  <2> QED BY <2>7, <2>8, <2>11
<1>3. 1 .. n + 1 \subseteq T
  <2> HIDE DEF T
  <2> QED BY <1>1, <1>2, DownFrom
<1> QED BY <1>3
-----------------------------------------------------------------------------
(* Least and greatest elements, and the elements of a shape.                *)
LEMMA MinIsLeast ==
  ASSUME NEW S \in SUBSET Nat, S # {}
  PROVE  Min(S) \in S /\ \A y \in S : Min(S) <= y
PROOF
<1>1. IsWellFoundedOn(OpToRel(<, Nat), Nat)
  BY NatLessThanWellFounded
<1>2. PICK x \in S : \A y \in S : ~ (<<y, x>> \in OpToRel(<, Nat))
  BY <1>1, WFMin
<1>3. ASSUME NEW y \in S PROVE x <= y
  <2>1. x \in Nat /\ y \in Nat
    BY <1>2
  <2>2. ~ (y < x)
    BY <1>2, <2>1 DEF OpToRel
  <2> QED BY <2>1, <2>2
<1> QED BY <1>2, <1>3 DEF Min

LEMMA IndicesAreBelow ==
  ASSUME NEW n \in Nat, NEW shape \in [1 .. n -> Positive]
  PROVE  Indices(shape) = Below(n, shape)
PROOF
<1> DEFINE S == {0} \cup {shape[i] - 1 : i \in 1 .. n}
           T == {k \in 0 .. n : \E m \in S : \A i \in 1 .. k : m >= shape[i] - 1}
<1>1. S \subseteq Nat /\ 0 \in S /\ \A i \in 1 .. n : shape[i] - 1 \in S
  BY DEF Positive
<1>2. 0 \in T
  BY <1>1
<1>3. ASSUME NEW k \in 0 .. n - 1, k \in T PROVE k + 1 \in T
  <2>1. PICK m \in S : \A i \in 1 .. k : m >= shape[i] - 1
    BY <1>3
  <2>2. k + 1 \in 1 .. n /\ \A i \in 1 .. k + 1 : i \in 1 .. k \/ i = k + 1
    OBVIOUS
  <2>3. m \in Nat /\ shape[k + 1] - 1 \in S /\ shape[k + 1] - 1 \in Nat
    BY <1>1, <2>1, <2>2
  <2> HIDE DEF S
  <2>4. CASE m >= shape[k + 1] - 1
    <3>1. \A i \in 1 .. k + 1 : m >= shape[i] - 1
      BY <2>1, <2>2, <2>4
    <3> QED BY <2>1, <2>2, <3>1
  <2>5. CASE ~ (m >= shape[k + 1] - 1)
    <3>1. \A i \in 1 .. k + 1 : shape[k + 1] - 1 >= shape[i] - 1
      <4> SUFFICES ASSUME NEW i \in 1 .. k + 1 PROVE shape[k + 1] - 1 >= shape[i] - 1
        OBVIOUS
      <4>1. i \in 1 .. n
        BY <2>2
      <4>2. shape[i] \in Nat
        BY <4>1 DEF Positive
      <4> QED BY <2>1, <2>2, <2>3, <2>5, <4>2
    <3> QED BY <2>2, <2>3, <3>1
  <2> QED BY <2>4, <2>5
<1>4. n \in T
  <2>1. 0 .. n \subseteq T
    <3> HIDE DEF T
    <3> QED BY <1>2, <1>3, UpTo
  <2> QED BY <2>1, SMTT(30)
<1>5. PICK m \in S : \A i \in 1 .. n : m >= shape[i] - 1
  BY <1>4
<1>6. \A y \in S : m >= y
  BY <1>1, <1>5
<1>7. Max(S) \in S /\ \A y \in S : Max(S) >= y
  <2> HIDE DEF S
  <2> QED BY <1>5, <1>6 DEF Max
<1>8. DOMAIN shape = 1 .. n
  OBVIOUS
<1>9. Indices(shape) = {f \in [1 .. n -> 0 .. Max(S)] : \A i \in 1 .. n : f[i] < shape[i]}
  BY <1>8 DEF Indices
<1>10. Max(S) \in Nat /\ \A i \in 1 .. n : shape[i] \in Nat /\ Max(S) >= shape[i] - 1
  BY <1>1, <1>7 DEF Positive
<1> DEFINE M == Max(S)
<1> HIDE DEF M
<1>11. M \in Nat /\ \A i \in 1 .. n : shape[i] \in Nat /\ M >= shape[i] - 1
  BY <1>10 DEF M
<1>12. ASSUME NEW f \in Below(n, shape) PROVE f \in [1 .. n -> 0 .. M]
  <2>1. f \in [1 .. n -> Nat] /\ \A i \in 1 .. n : f[i] < shape[i]
    BY DEF Below
  <2>2. \A i \in 1 .. n : f[i] \in 0 .. M
    BY <1>11, <2>1
  <2> QED BY <2>1, <2>2
<1>13. ASSUME NEW f \in [1 .. n -> 0 .. M] PROVE f \in [1 .. n -> Nat]
  BY <1>11
<1>14. Indices(shape) = {f \in [1 .. n -> 0 .. M] : \A i \in 1 .. n : f[i] < shape[i]}
  BY <1>9 DEF M
<1> QED BY <1>12, <1>13, <1>14 DEF Below
-----------------------------------------------------------------------------
(* A memref of rank n, and one of those whose data the code finds.          *)
Memref(n, t) ==
  /\ n \in Positive
  /\ t.counts \in [1 .. n -> Positive]
  /\ t.shape \in [1 .. n -> Positive]
  /\ t.start \in [1 .. n -> Nat]
  /\ \A i \in 1 .. n : t.start[i] + t.shape[i] <= t.counts[i]
  /\ t.enc = << >> \/ Wide(n, t.enc, t.counts)
  /\ t.addr \in Nat

Right(n, t) == Memref(n, t) /\ (LayoutOffset(t) = 0 \/ HasDenseEncoding(t))

LEMMA Extensional ==
  ASSUME NEW n \in Nat, NEW f \in [1 .. n -> Nat], NEW g \in [1 .. n -> Nat],
         \A i \in 1 .. n : f[i] = g[i]
  PROVE  f = g
PROOF
OBVIOUS

LEMMA NaturalStridesAre ==
  ASSUME NEW n \in Nat, NEW S, NEW shape \in [1 .. n -> S]
  PROVE  NaturalStrides(shape) = Naturals(n, shape)
PROOF
BY DEF NaturalStrides, Naturals

LEMMA BufferIsWide ==
  ASSUME NEW n, NEW t, Memref(n, t)
  PROVE  /\ n \in Nat
         /\ Wide(n, BufferStrides(t), t.counts)
         /\ BufferStrides(t) \in [1 .. n -> Nat]
         /\ EncodedStrides(t) = BufferStrides(t)
         /\ HasDenseEncoding(t) => BufferStrides(t) = Naturals(n, t.counts)
PROOF
<1> DEFINE B == BufferStrides(t)
<1>1. n \in Nat /\ t.counts \in [1 .. n -> Positive] /\ t.shape \in [1 .. n -> Positive]
  BY DEF Memref, Positive
<1>2. /\ NaturalStrides(t.counts) = Naturals(n, t.counts)
      /\ NaturalStrides(t.shape) = Naturals(n, t.shape)
  BY <1>1, NaturalStridesAre
<1>3. Wide(n, Naturals(n, t.counts), t.counts)
  BY <1>1, NaturalIsWide
<1>4. Wide(n, B, t.counts)
  BY <1>2, <1>3 DEF BufferStrides, Memref
<1>5. HasDenseEncoding(t) => B = Naturals(n, t.counts)
  <2>1. CASE t.enc = << >>
    BY <1>2, <2>1 DEF BufferStrides
  <2>2. CASE t.enc # << >> /\ t.enc = NaturalStrides(t.shape)
    <3>1. B = Naturals(n, t.shape)
      BY <1>2, <2>2 DEF BufferStrides
    <3>2. \A i \in 1 .. n : t.shape[i] <= t.counts[i] /\ t.counts[i] <= t.counts[i]
      <4> SUFFICES ASSUME NEW i \in 1 .. n
                   PROVE  t.shape[i] <= t.counts[i] /\ t.counts[i] <= t.counts[i]
        OBVIOUS
      <4>1. t.start[i] \in Nat /\ t.shape[i] \in Nat /\ t.counts[i] \in Nat
        BY <1>1 DEF Memref, Positive
      <4>2. t.start[i] + t.shape[i] <= t.counts[i]
        BY DEF Memref
      <4> QED BY <4>1, <4>2
    <3>3. \A i \in 1 .. n : Naturals(n, t.counts)[i] <= B[i]
      BY <1>1, <1>4, <3>2, NaturalIsLeast
    <3>4. \A i \in 1 .. n : Naturals(n, t.shape)[i] <= Naturals(n, t.counts)[i]
      BY <1>1, <1>3, <3>2, NaturalIsLeast
    <3>5. B \in [1 .. n -> Nat] /\ Naturals(n, t.counts) \in [1 .. n -> Nat]
      BY <1>3, <1>4 DEF Wide
    <3> DEFINE N == Naturals(n, t.counts)
    <3> HIDE DEF B
    <3>6. /\ \A i \in 1 .. n : N[i] <= B[i] /\ B[i] <= N[i]
          /\ B \in [1 .. n -> Nat] /\ N \in [1 .. n -> Nat]
      BY <3>1, <3>3, <3>4, <3>5, Zenon
    <3> HIDE DEF N
    <3>7. \A i \in 1 .. n : B[i] = N[i]
      <4> SUFFICES ASSUME NEW i \in 1 .. n PROVE B[i] = N[i]
        OBVIOUS
      <4>1. B[i] \in Nat /\ N[i] \in Nat /\ N[i] <= B[i] /\ B[i] <= N[i]
        BY <3>6
      <4> QED BY <4>1
    <3>8. B = N
      BY <1>1, <3>6, <3>7, Extensional
    <3> QED BY <3>8 DEF N, B
  <2> QED BY <2>1, <2>2 DEF HasDenseEncoding
<1>6. EncodedStrides(t) = B
  <2>1. CASE HasDenseEncoding(t)
    BY <1>2, <1>5, <2>1 DEF EncodedStrides
  <2>2. CASE ~HasDenseEncoding(t)
    BY <2>2 DEF EncodedStrides, HasDenseEncoding, BufferStrides
  <2> QED BY <2>1, <2>2
<1> QED BY <1>1, <1>4, <1>5, <1>6 DEF Wide

(* getDataStartAddress is where the first element is.                       *)
LEMMA DataStarts ==
  ASSUME NEW n, NEW t, Right(n, t)
  PROVE  DataStart(t) = t.addr + DotFrom(t.start, BufferStrides(t), 1)
PROOF
<1> DEFINE N == Naturals(n, t.counts)
           B == BufferStrides(t)
<1>0. Memref(n, t)
  BY DEF Right
<1>1. /\ n \in Nat /\ t.start \in [1 .. n -> Nat] /\ t.counts \in [1 .. n -> Positive]
      /\ B \in [1 .. n -> Nat]
      /\ Wide(n, N, t.counts) /\ N \in [1 .. n -> Nat] /\ NaturalStrides(t.counts) = N
  BY <1>0, BufferIsWide, NaturalIsWide, NaturalStridesAre DEF Memref, Wide
<1>2. LayoutOffset(t) = DotFrom(t.start, N, 1)
  BY <1>1 DEF LayoutOffset, Dot
<1>3. CASE HasDenseEncoding(t)
  <2>1. OffsetElements(t) = LayoutOffset(t)
    BY <1>3 DEF OffsetElements
  <2>2. B = N
    BY <1>0, <1>3, BufferIsWide
  <2> QED BY <1>2, <2>1, <2>2 DEF DataStart
<1>4. CASE LayoutOffset(t) = 0
  <2> DEFINE z == [i \in 1 .. n |-> 0]
  <2>1. OffsetElements(t) = 0
    BY <1>4 DEF OffsetElements
  <2>2. /\ z \in [1 .. n -> Nat] /\ z \in Below(n, t.counts)
        /\ \A i \in 1 .. n : i < n + 1 => z[i] = 0
    BY <1>1 DEF Below, Positive
  <2> HIDE DEF z
  <2>3. ASSUME NEW st \in [1 .. n -> Nat] PROVE DotFrom(z, st, 1) = 0
    <3>1. n + 1 \in 1 .. n + 1
      BY <1>1
    <3>2. DotFrom(z, st, 1) = DotFrom(z, st, n + 1)
      BY <1>1, <2>2, <3>1, DotZeros
    <3>3. DotFrom(z, st, n + 1) = 0
      BY <1>1, <2>2, Dots, Zenon
    <3> QED BY <3>2, <3>3
  <2>4. t.start \in Below(n, t.counts)
    <3>1. ASSUME NEW i \in 1 .. n PROVE t.start[i] < t.counts[i]
      <4>1. /\ t.start[i] \in Nat /\ t.shape[i] \in Positive /\ t.counts[i] \in Positive
            /\ t.start[i] + t.shape[i] <= t.counts[i]
        BY <1>0 DEF Memref
      <4> QED BY <4>1 DEF Positive
    <3> QED BY <1>1, <3>1 DEF Below
  <2>5. DotFrom(t.start, N, 1) = DotFrom(z, N, 1)
    BY <1>1, <1>2, <1>4, <2>3
  <2> HIDE DEF N
  <2>6. t.start = z
    BY <1>1, <2>2, <2>4, <2>5, DotInjective
  <2>7. DotFrom(t.start, B, 1) = 0
    BY <1>1, <2>3, <2>6
  <2> QED BY <2>1, <2>7 DEF DataStart
<1> QED BY <1>3, <1>4 DEF Right

LEMMA BelowCounts ==
  ASSUME NEW n, NEW t, Memref(n, t), NEW f \in Below(n, t.shape)
  PROVE  /\ f \in [1 .. n -> Nat] /\ f \in Below(n, t.counts)
         /\ [i \in 1 .. n |-> t.start[i] + f[i]] \in Below(n, t.counts)
PROOF
<1>1. f \in [1 .. n -> Nat] /\ t.start \in [1 .. n -> Nat]
  BY DEF Below, Memref
<1>2. ASSUME NEW i \in 1 .. n PROVE t.start[i] + f[i] < t.counts[i] /\ f[i] < t.counts[i]
  <2>1. t.start[i] + t.shape[i] <= t.counts[i] /\ f[i] < t.shape[i]
    BY DEF Below, Memref
  <2>2. t.start[i] \in Nat /\ t.shape[i] \in Nat /\ t.counts[i] \in Nat /\ f[i] \in Nat
    BY <1>1 DEF Memref, Positive
  <2> QED BY <2>1, <2>2
<1> DEFINE g == [i \in 1 .. n |-> t.start[i] + f[i]]
<1>3. g \in [1 .. n -> Nat] /\ \A i \in 1 .. n : g[i] < t.counts[i]
  <2>1. ASSUME NEW i \in 1 .. n
        PROVE  t.start[i] + f[i] \in Nat /\ g[i] = t.start[i] + f[i]
    <3>1. t.start[i] \in Nat /\ f[i] \in Nat
      BY <1>1
    <3>2. t.start[i] + f[i] \in Nat
      BY <3>1
    <3> QED BY <3>2
  <2>2. g \in [1 .. n -> Nat]
    BY <2>1
  <2>3. \A i \in 1 .. n : g[i] < t.counts[i]
    BY <1>2, <2>1
  <2> QED BY <2>2, <2>3
<1>4. g \in Below(n, t.counts)
  <2> HIDE DEF g
  <2> QED BY <1>3 DEF Below
<1> QED BY <1>1, <1>2, <1>4 DEF Below

(* Its element idx is as far from the start of the data as the strides of   *)
(* the buffer say; two elements are at two places.                          *)
LEMMA ElementAt ==
  ASSUME NEW n, NEW t, Right(n, t), NEW f \in Below(n, t.shape)
  PROVE  /\ DataStart(t) \in Nat /\ DotFrom(f, BufferStrides(t), 1) \in Nat
         /\ Element(t, f) = <<t.space, DataStart(t) + DotFrom(f, BufferStrides(t), 1)>>
PROOF
<1> DEFINE B == BufferStrides(t)
           s == DotFrom(t.start, B, 1)
           d == DotFrom(f, B, 1)
<1>0. Memref(n, t)
  BY DEF Right
<1>1. /\ n \in Nat /\ 1 \in 1 .. n + 1 /\ f \in [1 .. n -> Nat] /\ B \in [1 .. n -> Nat]
      /\ t.start \in [1 .. n -> Nat] /\ t.addr \in Nat
  <2>1. n \in Nat /\ B \in [1 .. n -> Nat]
    BY <1>0, BufferIsWide
  <2>2. f \in [1 .. n -> Nat]
    BY <1>0, BelowCounts
  <2> QED BY <1>0, <2>1, <2>2 DEF Memref
<1>2. DataStart(t) = t.addr + s
  BY DataStarts
<1>3. s \in Nat /\ d \in Nat
  BY <1>1, Dots, Zenon
<1>4. DotFrom([i \in 1 .. n |-> t.start[i] + f[i]], B, 1) = s + d
  BY <1>1, DotSum
<1>5. DOMAIN f = 1 .. n
  BY <1>1
<1>6. Element(t, f) = <<t.space, t.addr + (s + d)>>
  BY <1>4, <1>5 DEF Element, Dot
<1> HIDE DEF s, d
<1>7. t.addr + (s + d) = (t.addr + s) + d /\ t.addr + s \in Nat
  BY <1>1, <1>3
<1> QED BY <1>2, <1>3, <1>6, <1>7 DEF d

LEMMA ElementInjective ==
  ASSUME NEW n, NEW t, Right(n, t), NEW f \in Below(n, t.shape), NEW g \in Below(n, t.shape),
         Element(t, f) = Element(t, g)
  PROVE  f = g
PROOF
<1> DEFINE B == BufferStrides(t)
<1>0. Memref(n, t)
  BY DEF Right
<1>1. /\ n \in Nat /\ t.counts \in [1 .. n -> Positive] /\ Wide(n, B, t.counts)
      /\ f \in Below(n, t.counts) /\ g \in Below(n, t.counts)
  BY <1>0, BelowCounts, BufferIsWide DEF Memref
<1>2. DotFrom(f, B, 1) = DotFrom(g, B, 1)
  <2> DEFINE a == DotFrom(f, B, 1)
             b == DotFrom(g, B, 1)
             s == DataStart(t)
  <2>1. s \in Nat /\ a \in Nat /\ b \in Nat
    BY ElementAt
  <2>2. Element(t, f) = <<t.space, s + a>> /\ Element(t, g) = <<t.space, s + b>>
    BY ElementAt
  <2> HIDE DEF a, b, s
  <2>3. <<t.space, s + a>> = <<t.space, s + b>>
    BY <2>2, Zenon
  <2>5. s + a = s + b
    BY <2>3
  <2>4. a = b
    BY <2>1, <2>5
  <2> QED BY <2>4 DEF a, b
<1> QED BY <1>1, <1>2, DotInjective

-----------------------------------------------------------------------------
(* Blocks.  The steps over the dimensions before last and the places in a   *)
(* block of what is inside them make an index, and an index is made so.     *)
Outer(n, shape, last) == [i \in 1 .. n |-> IF i < last THEN shape[i] ELSE 1]

(* The strides st and r of a memref and of the steps over its blocks.       *)
Fit(n, shape, last, st, r) ==
  /\ st \in [1 .. n -> Nat]
  /\ r \in [1 .. n -> Nat]
  /\ \A i \in 1 .. n : i < last => r[i] = st[i]
  /\ \A i \in 1 .. n : i >= last => st[i] = Naturals(n, shape)[i]

Apart(n, last, idx, tail) ==
  /\ idx \in [1 .. n -> Nat]
  /\ tail \in [1 .. n -> Nat]
  /\ \A i \in 1 .. n : i >= last => idx[i] = 0
  /\ \A i \in 1 .. n : i < last => tail[i] = 0

LEMMA OuterAndInner ==
  ASSUME NEW n \in Nat, NEW shape \in [1 .. n -> Positive], NEW last \in 1 .. n + 1,
         NEW idx, NEW tail, Apart(n, last, idx, tail),
         NEW st, NEW r, Fit(n, shape, last, st, r)
  PROVE  DotFrom([i \in 1 .. n |-> idx[i] + tail[i]], st, 1)
           = DotFrom(idx, r, 1) + DotFrom(tail, Naturals(n, shape), last)
PROOF
<1> DEFINE N == Naturals(n, shape)
<1>0. /\ N \in [1 .. n -> Nat] /\ 1 \in 1 .. n + 1
      /\ idx \in [1 .. n -> Nat] /\ tail \in [1 .. n -> Nat]
      /\ st \in [1 .. n -> Nat] /\ r \in [1 .. n -> Nat]
  BY NaturalIsWide, SMTT(30) DEF Wide, Apart, Fit
<1> HIDE DEF N
<1>1. DotFrom([i \in 1 .. n |-> idx[i] + tail[i]], st, 1)
        = DotFrom(idx, st, 1) + DotFrom(tail, st, 1)
  BY <1>0, DotSum, ZenonT(60)
<1>2. DotFrom(idx, st, 1) = DotFrom(idx, r, 1)
  <2>1. \A i \in 1 .. n : i >= 1 => idx[i] = 0 \/ st[i] = r[i]
    BY DEF Apart, Fit
  <2> QED BY <1>0, <2>1, DotStrides, ZenonT(60)
<1>3. DotFrom(tail, st, 1) = DotFrom(tail, st, last)
  <2>1. \A i \in 1 .. n : i < last => tail[i] = 0
    BY DEF Apart
  <2> QED BY <1>0, <2>1, DotZeros
<1>4. DotFrom(tail, st, last) = DotFrom(tail, N, last)
  <2>1. \A i \in 1 .. n : i >= last => tail[i] = 0 \/ st[i] = N[i]
    BY DEF N, Fit
  <2>2. tail \in [1 .. n -> Nat] /\ st \in [1 .. n -> Nat] /\ N \in [1 .. n -> Nat]
    BY <1>0
  <2> QED BY <2>1, <2>2, DotStrides
<1> QED BY <1>1, <1>2, <1>3, <1>4 DEF N

LEMMA Assemble ==
  ASSUME NEW n \in Nat, NEW shape \in [1 .. n -> Positive], NEW last \in 1 .. n + 1,
         NEW idx \in Below(n, Outer(n, shape, last)), NEW e \in Nat, e < Product(shape, last)
  PROVE  \E g \in Below(n, shape) :
           \A st, r : Fit(n, shape, last, st, r) =>
             DotFrom(g, st, 1) = DotFrom(idx, r, 1) + e
PROOF
<1>1. PICK tail \in Below(n, shape) : /\ \A i \in 1 .. n : i < last => tail[i] = 0
                                      /\ DotFrom(tail, Naturals(n, shape), last) = e
  BY NaturalReaches
<1>2. tail \in [1 .. n -> Nat] /\ \A i \in 1 .. n : tail[i] < shape[i]
  BY <1>1 DEF Below
<1>3. /\ idx \in [1 .. n -> Nat]
      /\ \A i \in 1 .. n : i >= last => idx[i] = 0
      /\ \A i \in 1 .. n : i < last => idx[i] < shape[i]
  <2>1. idx \in [1 .. n -> Nat] /\ \A i \in 1 .. n : idx[i] < Outer(n, shape, last)[i]
    BY DEF Below
  <2>2. ASSUME NEW i \in 1 .. n, i >= last PROVE idx[i] = 0
    <3>1. Outer(n, shape, last)[i] = 1
      BY <2>2 DEF Outer
    <3> QED BY <2>1, <3>1
  <2>3. ASSUME NEW i \in 1 .. n, i < last PROVE idx[i] < shape[i]
    <3>1. Outer(n, shape, last)[i] = shape[i]
      BY <2>3 DEF Outer
    <3> QED BY <2>1, <3>1
  <2> QED BY <2>1, <2>2, <2>3
<1> DEFINE g == [i \in 1 .. n |-> idx[i] + tail[i]]
<1>4. g \in Below(n, shape)
  <2>1. ASSUME NEW i \in 1 .. n PROVE g[i] \in Nat /\ g[i] < shape[i]
    <3>1. idx[i] \in Nat /\ tail[i] \in Nat /\ g[i] = idx[i] + tail[i]
      BY <1>2, <1>3
    <3>2. CASE i < last
      BY <1>1, <1>3, <3>1, <3>2
    <3>3. CASE i >= last
      BY <1>2, <1>3, <3>1, <3>3
    <3> QED BY <3>2, <3>3
  <2>2. g \in [1 .. n -> Nat]
    BY <2>1
  <2> HIDE DEF g
  <2> QED BY <2>1, <2>2 DEF Below
<1>5. ASSUME NEW st, NEW r, Fit(n, shape, last, st, r)
      PROVE  DotFrom(g, st, 1) = DotFrom(idx, r, 1) + e
  <2>1. Apart(n, last, idx, tail)
    BY <1>1, <1>2, <1>3 DEF Apart
  <2>2. DotFrom(g, st, 1) = DotFrom(idx, r, 1) + DotFrom(tail, Naturals(n, shape), last)
    BY <1>5, <2>1, OuterAndInner
  <2> QED BY <1>1, <2>2
<1> HIDE DEF g
<1> QED BY <1>4, <1>5

LEMMA Disassemble ==
  ASSUME NEW n \in Nat, NEW shape \in [1 .. n -> Positive], NEW last \in 1 .. n + 1,
         NEW g \in Below(n, shape)
  PROVE  \E idx \in Below(n, Outer(n, shape, last)), e \in Nat :
           /\ e < Product(shape, last)
           /\ \A st, r : Fit(n, shape, last, st, r) =>
                DotFrom(g, st, 1) = DotFrom(idx, r, 1) + e
PROOF
<1> DEFINE N == Naturals(n, shape)
           idx == [i \in 1 .. n |-> IF i < last THEN g[i] ELSE 0]
           tail == [i \in 1 .. n |-> IF i < last THEN 0 ELSE g[i]]
           e == DotFrom(tail, N, last)
<1>1. g \in [1 .. n -> Nat] /\ \A i \in 1 .. n : g[i] < shape[i] /\ shape[i] \in Positive
  BY DEF Below
<1>2. /\ idx \in [1 .. n -> Nat]
      /\ \A i \in 1 .. n : i >= last => idx[i] = 0
      /\ \A i \in 1 .. n : i < last => idx[i] = g[i]
  BY <1>1
<1>3. /\ tail \in [1 .. n -> Nat]
      /\ \A i \in 1 .. n : i < last => tail[i] = 0
      /\ \A i \in 1 .. n : i >= last => tail[i] = g[i]
  BY <1>1
<1> HIDE DEF idx, tail
<1>4. N \in [1 .. n -> Nat] /\ Wide(n, N, shape)
  BY NaturalIsWide DEF Wide
<1>5. tail \in Below(n, shape)
  <2>1. ASSUME NEW i \in 1 .. n PROVE tail[i] < shape[i]
    <3>1. CASE i < last
      <4>1. shape[i] \in Positive /\ tail[i] = 0
        BY <1>3, <3>1
      <4> QED BY <4>1 DEF Positive
    <3>2. CASE i >= last
      BY <1>1, <1>3, <3>2
    <3> QED BY <3>1, <3>2
  <2> QED BY <1>3, <2>1 DEF Below
<1>6. e \in Nat /\ e < Product(shape, last)
  <2>1. e \in Nat
    BY <1>3, <1>4, Dots, Zenon
  <2>2. CASE last = n + 1
    <3>1. Product(shape, n + 1) \in Positive /\ DotFrom(tail, N, n + 1) = 0
      <4>1. n + 1 \in 1 .. n + 1
        OBVIOUS
      <4>2. Product(shape, n + 1) \in Positive
        BY <4>1, NaturalIsWide, Zenon
      <4>3. DotFrom(tail, N, n + 1) = 0
        BY <1>3, <1>4, Dots, Zenon
      <4> QED BY <4>2, <4>3
    <3>2. 0 < Product(shape, n + 1)
      BY <3>1 DEF Positive
    <3> QED BY <2>1, <2>2, <3>1, <3>2
  <2>3. CASE last # n + 1
    <3>1. last \in 1 .. n
      BY <2>3
    <3>2. DotFrom(tail, N, last) < shape[last] * N[last]
      <4> HIDE DEF N
      <4> QED BY <1>4, <1>5, <3>1, Extent
    <3>3. Product(shape, last) = shape[last] * N[last]
      BY <3>1, NaturalIsWide, Zenon
    <3> QED BY <2>1, <3>2, <3>3
  <2> QED BY <2>2, <2>3
<1>7. idx \in Below(n, Outer(n, shape, last))
  <2>1. ASSUME NEW i \in 1 .. n PROVE idx[i] < Outer(n, shape, last)[i]
    <3>1. CASE i < last
      BY <1>1, <1>2, <3>1 DEF Outer
    <3>2. CASE i >= last
      BY <1>1, <1>2, <3>2 DEF Outer
    <3> QED BY <3>1, <3>2
  <2> QED BY <1>2, <2>1 DEF Below
<1>8. [i \in 1 .. n |-> idx[i] + tail[i]] = g
  <2>1. ASSUME NEW i \in 1 .. n PROVE idx[i] + tail[i] = g[i]
    BY <1>1, <1>2, <1>3
  <2> QED BY <1>1, <2>1
<1>9. ASSUME NEW st, NEW r, Fit(n, shape, last, st, r)
      PROVE  DotFrom(g, st, 1) = DotFrom(idx, r, 1) + e
  <2>1. Apart(n, last, idx, tail)
    BY <1>2, <1>3 DEF Apart
  <2>2. DotFrom([i \in 1 .. n |-> idx[i] + tail[i]], st, 1) = DotFrom(idx, r, 1) + e
    BY <1>9, <2>1, OuterAndInner
  <2> QED BY <1>8, <2>2
<1> HIDE DEF e
<1> QED BY <1>6, <1>7, <1>9
-----------------------------------------------------------------------------
(* The size of a part of a dense buffer (SizeCoversThePart).                *)
LEMMA PartSize ==
  ASSUME NEW n, NEW t, Memref(n, t), t.enc = << >>
  PROVE  /\ DataSize(t) <= TotalSize(t)
         /\ DataStart(t) + TotalSize(t) <= t.addr + Product(t.counts, 1)
PROOF
<1> DEFINE N == Naturals(n, t.counts)
           l == [i \in 1 .. n |-> t.shape[i] - 1]
           sum == [i \in 1 .. n |-> t.start[i] + l[i]]
           c == N[1]
           rest == DotFrom(t.start, N, 2)
           more == DotFrom(l, N, 2)
<1>1. /\ n \in Nat /\ 1 \in 1 .. n /\ 2 \in 1 .. n + 1 /\ 1 + 1 = 2
      /\ t.counts \in [1 .. n -> Positive] /\ t.shape \in [1 .. n -> Positive]
      /\ t.start \in [1 .. n -> Nat] /\ t.addr \in Nat
  BY DEF Memref, Positive
<1>2. N \in [1 .. n -> Nat] /\ Wide(n, N, t.counts)
  BY <1>1, NaturalIsWide DEF Wide
<1>3. ASSUME NEW i \in 1 .. n
      PROVE  /\ t.shape[i] - 1 \in Nat /\ t.start[i] \in Nat
             /\ t.start[i] < t.counts[i] /\ t.start[i] + (t.shape[i] - 1) < t.counts[i]
  <2>1. /\ t.start[i] \in Nat /\ t.shape[i] \in Positive /\ t.counts[i] \in Positive
        /\ t.start[i] + t.shape[i] <= t.counts[i]
    BY <1>1 DEF Memref
  <2> QED BY <2>1, SMTT(30) DEF Positive
<1>4. l \in [1 .. n -> Nat] /\ DOMAIN t.shape = 1 .. n
  BY <1>1, <1>3
<1>5. t.start \in Below(n, t.counts)
  BY <1>1, <1>3 DEF Below
<1>6. sum \in Below(n, t.counts)
  <2>1. \A i \in 1 .. n : sum[i] = t.start[i] + (t.shape[i] - 1)
    OBVIOUS
  <2>2. ASSUME NEW i \in 1 .. n PROVE sum[i] \in Nat /\ sum[i] < t.counts[i]
    BY <1>3, <2>1
  <2>3. sum \in [1 .. n -> Nat]
    BY <2>2
  <2> HIDE DEF sum
  <2> QED BY <2>2, <2>3 DEF Below
<1>7. HasDenseEncoding(t) /\ EncodedStrides(t) = N /\ NaturalStrides(t.counts) = N
  BY <1>1, NaturalStridesAre DEF HasDenseEncoding, EncodedStrides
<1>8. LayoutOffset(t) = DotFrom(t.start, N, 1) /\ OffsetElements(t) = DotFrom(t.start, N, 1)
  BY <1>7 DEF OffsetElements, LayoutOffset, Dot
<1>9. DataSize(t) = DotFrom(l, N, 1) + 1
  BY <1>4, <1>7 DEF DataSize, Dot
<1>10. TotalSize(t) = c * t.shape[1] - (DotFrom(t.start, N, 1) % c)
  BY <1>7, <1>8 DEF TotalSize
<1> HIDE DEF N
<1>11. rest \in Nat /\ more \in Nat
  <2>1. DotFrom(t.start, N, 2) \in Nat
    BY <1>1, <1>2, Dots
  <2>2. DotFrom(l, N, 2) \in Nat
    <3> HIDE DEF l
    <3> QED BY <1>1, <1>2, <1>4, Dots
  <2> QED BY <2>1, <2>2
<1>12. DotFrom(t.start, N, 1) = t.start[1] * c + rest
  BY <1>1, <1>2, Dots, ZenonT(30)
<1>13. DotFrom(l, N, 1) = l[1] * c + more
  <2> HIDE DEF l
  <2>1. l \in [1 .. n -> Nat] /\ N \in [1 .. n -> Nat] /\ n \in Nat
    BY <1>1, <1>2, <1>4
  <2>2. \A i \in 1 .. n : DotFrom(l, N, i) = l[i] * N[i] + DotFrom(l, N, i + 1)
    BY <2>1, Dots, Zenon
  <2> QED BY <1>1, <2>2
<1>14. rest < c
  BY <1>1, <1>2, <1>5, Extent
<1>15. rest + more < c
  <2>1. DotFrom(sum, N, 2) = rest + more
    <3> HIDE DEF l
    <3> QED BY <1>1, <1>2, <1>4, DotSum
  <2>2. DotFrom(sum, N, 2) < c
    <3> HIDE DEF sum
    <3> QED BY <1>1, <1>2, <1>6, Extent
  <2> QED BY <2>1, <2>2
<1>16. c \in Positive
  BY <1>1, <1>2, WideIsPositive
<1> DEFINE a == t.start[1]
           b == t.shape[1]
           k == t.counts[1]
<1>17. /\ a \in Nat /\ b \in Nat /\ k \in Nat /\ l[1] = b - 1 /\ b - 1 \in Nat
       /\ a + b <= k /\ c \in Nat
  BY <1>1, <1>16 DEF Memref, Positive
<1>18. DotFrom(t.start, N, 1) % c = rest
  <2> DEFINE x == DotFrom(t.start, N, 1)
  <2>1. x = a * c + rest /\ x \in Nat
    <3>1. DotFrom(t.start, N, 1) \in Nat
      <4>1. 1 \in 1 .. n + 1
        BY <1>1
      <4> QED BY <1>1, <1>2, <4>1, Dots
    <3> QED BY <1>12, <3>1
  <2> HIDE DEF x, a, c, rest
  <2>2. x \div c \in Nat /\ x % c \in Nat /\ x % c < c /\ x = (x \div c) * c + (x % c)
    BY <1>16, <2>1, Division
  <2>3. (x \div c) * c + (x % c) = a * c + rest
    BY <2>1, <2>2
  <2>4. x % c = rest
    <3> DEFINE y == x \div c
               z == x % c
    <3>1. y \in Nat /\ z \in Nat /\ a \in Nat /\ c \in Nat /\ rest \in Nat
      BY <1>11, <1>17, <2>2
    <3>2. z < c /\ rest < c /\ y * c + z = a * c + rest
      BY <1>14, <2>2, <2>3
    <3> HIDE DEF y, z
    <3> QED BY <3>1, <3>2, Digits, ZenonT(60) DEF z
  <2> QED BY <2>4 DEF x
<1>19. Product(t.counts, 1) = k * c
  BY <1>1, NaturalIsWide, Zenon DEF N
<1> HIDE DEF a, b, k, c, rest, more, l
<1>20. DataSize(t) = (b - 1) * c + more + 1 /\ TotalSize(t) = c * b - rest
  BY <1>9, <1>10, <1>13, <1>17, <1>18 DEF b
<1>21. DataStart(t) = t.addr + (a * c + rest)
  BY <1>8, <1>12 DEF DataStart, a
<1>22. c * b = (b - 1) * c + c
  BY <1>17, Z3
<1>23. c * b + a * c <= k * c
  <2>1. (a + b) * c <= k * c
    BY <1>17, Multiples
  <2>2. (a + b) * c = c * b + a * c
    BY <1>17, Z3
  <2> QED BY <2>1, <2>2
<1> DEFINE p == (b - 1) * c
           q == a * c
           r == c * b
           s == k * c
<1>24. p \in Nat /\ q \in Nat /\ r \in Nat /\ s \in Nat
  BY <1>17, Multiples
<1>25. r = p + c /\ r + q <= s
  BY <1>22, <1>23
<1>26. DataSize(t) = p + more + 1 /\ TotalSize(t) = r - rest
  BY <1>20
<1>27. DataStart(t) = t.addr + (q + rest) /\ Product(t.counts, 1) = s
  BY <1>19, <1>21
<1> HIDE DEF p, q, r, s
<1> QED BY <1>1, <1>11, <1>15, <1>17, <1>24, <1>25, <1>26, <1>27
-----------------------------------------------------------------------------
(* The strides of an encoding (getAlignedStrides) leave room for what is    *)
(* inside their dimension.                                                  *)
LEMMA Ceiling ==
  ASSUME NEW x \in Nat, NEW a \in Positive
  PROVE  AlignCeil(x, a) \in Nat /\ AlignCeil(x, a) >= x
PROOF
<1> DEFINE m == x + a - 1
           q == m \div a
           r == m % a
           p == q * a
<1>1. m \in Nat /\ a \in Nat
  BY DEF Positive
<1>2. q \in Nat /\ r \in Nat /\ r < a /\ m = q * a + r
  <2> HIDE DEF m
  <2> QED BY <1>1, Division
<1>3. p \in Nat
  <2> HIDE DEF q
  <2> QED BY <1>1, <1>2, Multiples
<1>4. AlignCeil(x, a) = p
  BY DEF AlignCeil
<1>5. x + a - 1 = p + r
  BY <1>2
<1> HIDE DEF p, r
<1> QED BY <1>1, <1>2, <1>3, <1>4, <1>5

LEMMA AbsIsPositive ==
  ASSUME NEW a \in Int, a # 0
  PROVE  Abs(a) \in Positive
PROOF
BY DEF Abs, Positive

LEMMA AlignedIsWide ==
  ASSUME NEW n \in Positive, NEW shape \in [1 .. n -> Positive], NEW align \in [1 .. n -> Int]
  PROVE  Wide(n, AlignedStrides(shape, align), shape)
PROOF
<1> DEFINE last == AlignCeil(1, IF align[n] = 0 THEN 1 ELSE Abs(align[n]))
           S(i, x) == CASE i = n -> last
                        [] i < n /\ align[i] > 0 -> AlignCeil(shape[i + 1] * x, align[i])
                        [] i < n /\ align[i] < 0 ->
                             AlignCeil(shape[i + 1], Abs(align[i])) * x
                        [] OTHER -> shape[i + 1] * x
           G(f) == [i \in DOMAIN shape |-> S(i, f[i + 1])]
           F == CHOOSE f : f = G(f)
           step == [i \in 1 .. n |-> [x \in Nat |-> S(i, x)]]
<1>1. n \in Nat /\ n \in 1 .. n /\ n >= 1 /\ Len(shape) = n /\ DOMAIN shape = 1 .. n
  BY LenOf DEF Positive
<1>2. last \in Nat /\ last >= 1
  <2>1. (IF align[n] = 0 THEN 1 ELSE Abs(align[n])) \in Positive
    BY <1>1, AbsIsPositive DEF Positive
  <2> QED BY <2>1, Ceiling
<1>3. ASSUME NEW i \in 1 .. n, i < n, NEW x \in Nat
      PROVE  S(i, x) \in Nat /\ S(i, x) >= shape[i + 1] * x
  <2> DEFINE b == shape[i + 1]
             a == align[i]
  <2>1. b \in Nat /\ a \in Int /\ i # n
    BY <1>3 DEF Positive
  <2>2. b * x \in Nat
    BY <2>1, Multiples
  <2> HIDE DEF last
  <2>3. CASE a > 0
    <3>1. S(i, x) = AlignCeil(b * x, a) /\ a \in Positive
      BY <1>3, <2>1, <2>3 DEF Positive
    <3> HIDE DEF b, a, S
    <3> QED BY <2>2, <3>1, Ceiling DEF b
  <2>4. CASE a < 0
    <3>1. S(i, x) = AlignCeil(b, Abs(a)) * x /\ Abs(a) \in Positive
      BY <1>3, <2>1, <2>4, AbsIsPositive
    <3> DEFINE y == AlignCeil(b, Abs(a))
    <3> HIDE DEF b, a, S
    <3>2. y \in Nat /\ y >= b
      BY <2>1, <3>1, Ceiling
    <3>3. S(i, x) = y * x
      BY <3>1
    <3> HIDE DEF y
    <3>4. b * x <= y * x /\ y * x \in Nat
      BY <2>1, <3>2, Multiples
    <3> QED BY <2>2, <3>3, <3>4 DEF b
  <2>5. CASE a = 0
    <3>1. S(i, x) = b * x
      BY <1>3, <2>1, <2>5
    <3> HIDE DEF S
    <3> QED BY <2>2, <3>1 DEF b
  <2> HIDE DEF S
  <2> QED BY <2>1, <2>3, <2>4, <2>5
<1>4. \A i \in 1 .. n : \A x \in Nat : S(i, x) \in Nat
  <2> SUFFICES ASSUME NEW i \in 1 .. n, NEW x \in Nat PROVE S(i, x) \in Nat
    OBVIOUS
  <2>1. CASE i = n
    <3>1. S(i, x) = last
      BY <2>1
    <3> QED BY <1>2, <3>1
  <2>2. CASE i # n
    <3>1. i < n
      BY <1>1, <2>2
    <3> HIDE DEF S
    <3> QED BY <1>3, <3>1
  <2> QED BY <2>1, <2>2
<1>5. \A x : S(n, x) = last
  <2> HIDE DEF last
  <2> QED BY <1>1
<1> HIDE DEF S
<1>6. PICK f \in [1 .. n + 1 -> Nat] :
        f[n + 1] = 0 /\ \A i \in 1 .. n : f[i] = step[i][f[i + 1]]
  <2>1. step \in [1 .. n -> [Nat -> Nat]]
    BY <1>4
  <2> HIDE DEF step
  <2>2. ASSUME NEW c \in Nat
        PROVE  \E f \in [1 .. n + 1 -> Nat] :
                 f[n + 1] = c /\ \A i \in 1 .. n : f[i] = step[i][f[i + 1]]
    <3>1. n \in Nat
      BY <1>1
    <3> QED BY <2>1, <3>1, Recurrence, ZenonT(60)
  <2> QED BY <2>2
<1>7. \A i \in 1 .. n : f[i] = S(i, f[i + 1])
  <2> SUFFICES ASSUME NEW i \in 1 .. n PROVE f[i] = S(i, f[i + 1])
    OBVIOUS
  <2>1. f[i + 1] \in Nat
    BY <1>1, <1>6
  <2> QED BY <1>6, <2>1
<1> DEFINE g == [i \in 1 .. n |-> f[i]]
<1>8. g = G(g)
  <2>1. ASSUME NEW i \in 1 .. n PROVE g[i] = S(i, g[i + 1])
    <3>1. CASE i = n
      BY <1>1, <1>5, <1>7, <3>1
    <3>2. CASE i # n
      <4>1. i + 1 \in 1 .. n
        BY <1>1, <3>2
      <4>2. g[i + 1] = f[i + 1] /\ g[i] = f[i]
        BY <4>1
      <4> QED BY <1>7, <4>2
    <3> QED BY <3>1, <3>2
  <2>2. g = [i \in 1 .. n |-> g[i]]
    OBVIOUS
  <2> HIDE DEF g
  <2> QED BY <1>1, <2>1, <2>2
<1>9. F = G(F)
  <2> HIDE DEF G
  <2> QED BY <1>8
<1>10. AlignedStrides(shape, align) = F
  BY <1>1 DEF AlignedStrides, S
<1> HIDE DEF F, step
<1>11. /\ \A i \in 1 .. n : F[i] = S(i, F[i + 1])
       /\ F = [i \in 1 .. n |-> F[i]]
  BY <1>1, <1>9
<1> DEFINE T == {i \in 1 .. n + 1 : i <= n => F[i] \in Nat}
<1>12. n + 1 \in T
  BY <1>1
<1>13. ASSUME NEW i \in 1 .. n, i + 1 \in T PROVE i \in T
  <2>1. CASE i = n
    <3>1. F[i] = last
      BY <1>5, <1>11, <2>1
    <3>2. i \in 1 .. n + 1
      BY <1>1
    <3> HIDE DEF last
    <3> QED BY <1>2, <3>1, <3>2
  <2>2. CASE i # n
    <3>1. F[i + 1] \in Nat /\ i < n
      BY <1>1, <1>13, <2>2
    <3>2. F[i] \in Nat
      BY <1>3, <1>11, <3>1
    <3>3. i \in 1 .. n + 1
      BY <1>1
    <3> QED BY <3>2, <3>3
  <2> QED BY <2>1, <2>2
<1>14. 1 .. n + 1 \subseteq T
  <2> HIDE DEF T
  <2> QED BY <1>1, <1>12, <1>13, DownFrom
<1>15. F \in [1 .. n -> Nat]
  <2>1. \A i \in 1 .. n : F[i] \in Nat
    BY <1>1, <1>14
  <2> QED BY <1>11, <2>1
<1>16. F[n] >= 1
  BY <1>1, <1>2, <1>5, <1>11
<1>17. ASSUME NEW i \in 1 .. n, i < n PROVE F[i] >= shape[i + 1] * F[i + 1]
  <2>1. i + 1 \in 1 .. n
    BY <1>1, <1>17
  <2>2. F[i + 1] \in Nat
    BY <1>15, <2>1
  <2>3. S(i, F[i + 1]) >= shape[i + 1] * F[i + 1]
    BY <1>3, <1>17, <2>2
  <2> QED BY <1>11, <2>3
<1> QED BY <1>10, <1>15, <1>16, <1>17 DEF Wide
-----------------------------------------------------------------------------
(* The memrefs of the model are memrefs.                                    *)
LEMMA CountsArePositive ==
  ASSUME NEW counts \in Counts
  PROVE  /\ Len(counts) \in Positive
         /\ counts \in [1 .. Len(counts) -> Positive]
         /\ Alignments[counts] \subseteq [1 .. Len(counts) -> Int]
PROOF
<1>1. counts \in Seq(Positive) /\ counts # << >>
  BY CopyAssumption DEF Positive
<1>2. Len(counts) \in Nat /\ counts \in [1 .. Len(counts) -> Positive]
  BY <1>1
<1>3. Len(counts) # 0
  BY <1>1
<1>4. DOMAIN counts = 1 .. Len(counts)
  BY <1>2
<1>5. Alignments[counts] \subseteq [DOMAIN counts -> Int]
  BY CopyAssumption
<1> QED BY <1>2, <1>3, <1>4, <1>5 DEF Positive

LEMMA PartsAreInside ==
  ASSUME NEW n \in Positive, NEW counts \in [1 .. n -> Positive], NEW p \in Parts(counts)
  PROVE  /\ p.shape \in [1 .. n -> Positive] /\ p.start \in [1 .. n -> Nat]
         /\ \A i \in 1 .. n : p.start[i] + p.shape[i] <= counts[i]
PROOF
<1> DEFINE more == [i \in DOMAIN counts |-> counts[i] + 1]
<1>1. n \in Nat /\ DOMAIN counts = 1 .. n
  BY DEF Positive
<1>2. more \in [1 .. n -> Positive]
  BY <1>1 DEF Positive
<1>3. /\ p \in [shape : Indices(more), start : Indices(counts)]
      /\ \A i \in 1 .. n : p.shape[i] > 0 /\ p.start[i] + p.shape[i] <= counts[i]
  BY <1>1 DEF Parts
<1> HIDE DEF more
<1>4. Indices(more) = Below(n, more) /\ Indices(counts) = Below(n, counts)
  BY <1>1, <1>2, IndicesAreBelow
<1>5. p.shape \in [1 .. n -> Nat] /\ p.start \in [1 .. n -> Nat]
  BY <1>3, <1>4 DEF Below
<1>6. \A i \in 1 .. n : p.shape[i] \in Positive
  BY <1>3, <1>5 DEF Positive
<1>7. p.shape \in [1 .. n -> Positive]
  BY <1>5, <1>6
<1> QED BY <1>3, <1>5, <1>7

(* ... and those in the memories of the CSS are whole dense buffers.        *)
Raw(t) == t.enc = << >> /\ t.shape = t.counts /\ t.start = Zeros(t.counts)

LEMMA MembersAreMemrefs ==
  ASSUME NEW space, NEW addr \in Nat, NEW raw \in BOOLEAN, NEW t \in Memrefs(space, addr, raw)
  PROVE  /\ Memref(Len(t.shape), t) /\ t.counts \in Counts /\ t.space = space
         /\ raw => Raw(t)
PROOF
<1>0. PICK counts \in Counts :
        \E enc \in (IF raw THEN {<< >>} ELSE Encodings(counts)),
           p \in (IF raw THEN {[shape |-> counts, start |-> Zeros(counts)]} ELSE Parts(counts)) :
          t = [space |-> space, addr |-> addr, counts |-> counts, enc |-> enc,
               shape |-> p.shape, start |-> p.start]
  BY DEF Memrefs
<1>1. PICK enc \in (IF raw THEN {<< >>} ELSE Encodings(counts)),
           p \in (IF raw THEN {[shape |-> counts, start |-> Zeros(counts)]} ELSE Parts(counts)) :
        t = [space |-> space, addr |-> addr, counts |-> counts, enc |-> enc,
             shape |-> p.shape, start |-> p.start]
  BY <1>0
<1> DEFINE n == Len(counts)
<1>2. n \in Positive /\ counts \in [1 .. n -> Positive] /\ Alignments[counts] \subseteq [1 .. n -> Int]
  BY CountsArePositive
<1>3. /\ t.space = space /\ t.addr = addr /\ t.counts = counts /\ t.enc = enc
      /\ t.shape = p.shape /\ t.start = p.start
  BY <1>1
<1> HIDE DEF n
<1>4. /\ p.shape \in [1 .. n -> Positive] /\ p.start \in [1 .. n -> Nat]
      /\ \A i \in 1 .. n : p.start[i] + p.shape[i] <= counts[i]
  <2>1. CASE raw
    <3>1. p.shape = counts /\ p.start = [i \in 1 .. n |-> 0]
      BY <1>1, <1>2, <2>1 DEF Zeros
    <3>2. \A i \in 1 .. n : counts[i] \in Nat /\ p.start[i] = 0
      BY <1>2, <3>1 DEF Positive
    <3> QED BY <1>2, <3>1, <3>2
  <2>2. CASE ~raw
    BY <1>1, <1>2, <2>2, PartsAreInside
  <2> QED BY <2>1, <2>2
<1>5. enc = << >> \/ Wide(n, enc, counts)
  <2>1. enc = << >> \/ \E a \in Alignments[counts] : enc = AlignedStrides(counts, a)
    BY <1>1 DEF Encodings
  <2>2. ASSUME NEW a \in Alignments[counts] PROVE Wide(n, AlignedStrides(counts, a), counts)
    <3>1. a \in [1 .. n -> Int]
      BY <1>2
    <3> QED BY <1>2, <3>1, AlignedIsWide
  <2> QED BY <2>1, <2>2
<1>6. Memref(n, t)
  BY <1>2, <1>3, <1>4, <1>5 DEF Memref
<1>7. Len(t.shape) = n
  <2>1. n \in Nat
    BY <1>2 DEF Positive
  <2> QED BY <1>3, <1>4, <2>1, LenOf
<1>8. raw => Raw(t)
  BY <1>1, <1>3 DEF Raw
<1> QED BY <1>1, <1>3, <1>6, <1>7, <1>8
-----------------------------------------------------------------------------
(* An operation moves each element of a memref to its place in another.     *)
Pairs(f, t) == {<<Element(f, idx), Element(t, idx)>> : idx \in Indices(f.shape)}

Parted(n, shape, last, blocks) ==
  blocks.shape = Outer(n, shape, last) /\ blocks.size = Product(shape, last)

LEMMA OuterIsPositive ==
  ASSUME NEW n \in Nat, NEW shape \in [1 .. n -> Positive], NEW last \in 1 .. n + 1
  PROVE  Outer(n, shape, last) \in [1 .. n -> Positive]
PROOF
BY DEF Outer, Positive

LEMMA OuterProducts ==
  ASSUME NEW n \in Nat, NEW shape \in [1 .. n -> Positive], NEW last \in 1 .. n + 1
  PROVE  \A i \in 1 .. n + 1 :
           /\ Product(Outer(n, shape, last), i) \in Nat
           /\ i >= last => Product(Outer(n, shape, last), i) = 1
           /\ i <= last => Product(shape, last) * Product(Outer(n, shape, last), i)
                             = Product(shape, i)
PROOF
<1> DEFINE O == Outer(n, shape, last)
           s == Product(shape, last)
           T == {i \in 1 .. n + 1 : /\ i >= last => Product(O, i) = 1
                                    /\ i <= last => s * Product(O, i) = Product(shape, i)}
<1>0. /\ O \in [1 .. n -> Nat] /\ shape \in [1 .. n -> Nat]
      /\ \A i \in 1 .. n : O[i] = IF i < last THEN shape[i] ELSE 1
  BY DEF Outer, Positive
<1> HIDE DEF O
<1>1. \A i \in 1 .. n + 1 : Product(O, i) \in Nat /\ Product(shape, i) \in Nat
  BY <1>0, Products, Zenon
<1>2. s \in Nat /\ s * 1 = s
  BY <1>1
<1>3. Product(O, n + 1) = 1
  BY <1>0, Products, Zenon
<1>4. n + 1 \in T
  <2>1. ASSUME n + 1 <= last PROVE s = Product(shape, n + 1)
    <3>1. last = n + 1
      BY <2>1
    <3> QED BY <3>1
  <2> HIDE DEF s
  <2> QED BY <1>2, <1>3, <2>1
<1>5. ASSUME NEW i \in 1 .. n, i + 1 \in T PROVE i \in T
  <2>1. i \in 1 .. n + 1 /\ i + 1 \in 1 .. n + 1
    OBVIOUS
  <2>2. Product(O, i) = O[i] * Product(O, i + 1)
    BY <1>0, Products, Zenon
  <2>3. Product(shape, i) = shape[i] * Product(shape, i + 1)
    BY <1>0, Products, Zenon
  <2> HIDE DEF s
  <2>4. CASE i >= last
    <3>1. O[i] = 1 /\ Product(O, i + 1) = 1
      BY <1>0, <1>5, <2>4
    <3>2. Product(O, i) = 1
      BY <2>2, <3>1
    <3>3. ASSUME i <= last PROVE s = Product(shape, i)
      <4>1. last = i
        BY <2>4, <3>3
      <4> QED BY <4>1 DEF s
    <3> QED BY <1>2, <2>1, <2>4, <3>2, <3>3
  <2>5. CASE i < last
    <3>1. O[i] = shape[i] /\ s * Product(O, i + 1) = Product(shape, i + 1)
      BY <1>0, <1>5, <2>5
    <3>2. shape[i] \in Nat /\ Product(O, i + 1) \in Nat
      BY <1>0, <1>1, <2>1
    <3>3. ASSUME NEW a \in Nat, NEW b \in Nat, NEW c \in Nat PROVE a * (b * c) = b * (a * c)
      BY Z3
    <3>4. s * (shape[i] * Product(O, i + 1)) = shape[i] * (s * Product(O, i + 1))
      BY <1>2, <3>2, <3>3
    <3>5. s * Product(O, i) = Product(shape, i)
      BY <2>2, <2>3, <3>1, <3>4
    <3> QED BY <2>1, <2>5, <3>5
  <2> QED BY <2>4, <2>5
<1>6. 1 .. n + 1 \subseteq T
  <2> HIDE DEF T
  <2> QED BY <1>4, <1>5, DownFrom
<1> QED BY <1>1, <1>6 DEF O

LEMMA ContiguousFits ==
  ASSUME NEW n \in Nat, NEW shape \in [1 .. n -> Positive], NEW last \in 1 .. n + 1,
         NEW blocks, Parted(n, shape, last, blocks)
  PROVE  Fit(n, shape, last, Naturals(n, shape), Contiguously(blocks))
PROOF
<1> DEFINE O == Outer(n, shape, last)
           s == Product(shape, last)
           C == Contiguously(blocks)
<1>1. DOMAIN O = 1 .. n
  BY DEF Outer
<1>2. C = [i \in 1 .. n |-> s * Product(O, i + 1)]
  BY <1>1 DEF Contiguously, Parted
<1>3. s \in Nat
  BY NaturalIsWide DEF Positive
<1>4. ASSUME NEW i \in 1 .. n
      PROVE  /\ C[i] \in Nat
             /\ i < last => C[i] = Naturals(n, shape)[i]
  <2> HIDE DEF O, s
  <2>1. i + 1 \in 1 .. n + 1
    OBVIOUS
  <2>2. Product(O, i + 1) \in Nat
    BY <2>1, OuterProducts DEF O
  <2>3. C[i] = s * Product(O, i + 1)
    BY <1>2
  <2>4. ASSUME i < last PROVE C[i] = Naturals(n, shape)[i]
    <3>1. s * Product(O, i + 1) = Product(shape, i + 1)
      BY <2>1, <2>4, OuterProducts DEF O, s
    <3>2. Naturals(n, shape)[i] = Product(shape, i + 1)
      BY NaturalIsWide, Zenon
    <3> QED BY <2>3, <3>1, <3>2
  <2> QED BY <1>3, <2>2, <2>3, <2>4, Multiples
<1>5. C \in [1 .. n -> Nat]
  <2>1. C = [i \in 1 .. n |-> C[i]]
    BY <1>2
  <2> HIDE DEF C
  <2> QED BY <1>4, <2>1
<1>6. Naturals(n, shape) \in [1 .. n -> Nat]
  BY NaturalIsWide DEF Wide
<1> HIDE DEF C
<1>7. Fit(n, shape, last, Naturals(n, shape), C)
  BY <1>4, <1>5, <1>6 DEF Fit
<1> QED BY <1>7 DEF C
LEMMA BlockMoves ==
  ASSUME NEW n, NEW o, Right(n, o.from), Right(n, o.to), o.from.shape = o.to.shape,
         NEW last \in 1 .. n + 1, Parted(n, o.from.shape, last, o.blocks),
         Fit(n, o.from.shape, last, BufferStrides(o.from), ReadStrides(o)),
         Fit(n, o.from.shape, last, BufferStrides(o.to), WriteStrides(o))
  PROVE  Moves(o) = Pairs(o.from, o.to)
PROOF
<1> DEFINE f == o.from
           t == o.to
           shape == o.from.shape
           O == Outer(n, shape, last)
           R == ReadStrides(o)
           W == WriteStrides(o)
           FB == BufferStrides(f)
           TB == BufferStrides(t)
<1>1. n \in Nat /\ shape \in [1 .. n -> Positive] /\ t.shape = shape
  BY DEF Right, Memref, Positive
<1>2. Indices(O) = Below(n, O) /\ Indices(shape) = Below(n, shape)
  <2>1. O \in [1 .. n -> Positive]
    BY <1>1, OuterIsPositive
  <2> HIDE DEF O
  <2> QED BY <1>1, <2>1, IndicesAreBelow
<1>3. /\ o.blocks.shape = O
      /\ \A e : e \in 0 .. o.blocks.size - 1 <=> e \in Nat /\ e < Product(shape, last)
  <2>1. Product(shape, last) \in Positive /\ o.blocks.size = Product(shape, last)
    BY <1>1, NaturalIsWide DEF Parted
  <2> QED BY <2>1 DEF Parted, Positive
<1>4. ASSUME NEW idx \in Below(n, O)
      PROVE  Dot(idx, R) = DotFrom(idx, R, 1) /\ Dot(idx, W) = DotFrom(idx, W, 1)
  BY DEF Dot
<1>5. ASSUME NEW idx \in Below(n, O), NEW e \in Nat, NEW g \in Below(n, shape),
             DotFrom(g, FB, 1) = DotFrom(idx, R, 1) + e,
             DotFrom(g, TB, 1) = DotFrom(idx, W, 1) + e
      PROVE  /\ Element(f, g) = <<f.space, DataStart(f) + Dot(idx, R) + e>>
             /\ Element(t, g) = <<t.space, DataStart(t) + Dot(idx, W) + e>>
  <2> DEFINE a == DataStart(f)
             b == DataStart(t)
             r == DotFrom(idx, R, 1)
             w == DotFrom(idx, W, 1)
             x == DotFrom(g, FB, 1)
             y == DotFrom(g, TB, 1)
  <2>1. /\ a \in Nat /\ x \in Nat /\ Element(f, g) = <<f.space, a + x>>
    BY <1>5, ElementAt
  <2>2. /\ b \in Nat /\ y \in Nat /\ Element(t, g) = <<t.space, b + y>>
    <3>1. g \in Below(n, t.shape) /\ Right(n, t)
      BY <1>1, <1>5
    <3> QED BY <3>1, ElementAt
  <2>3. r \in Nat /\ w \in Nat
    <3>1. idx \in [1 .. n -> Nat] /\ R \in [1 .. n -> Nat] /\ W \in [1 .. n -> Nat]
      BY <1>5 DEF Below, Fit
    <3>2. 1 \in 1 .. n + 1
      BY <1>1
    <3> HIDE DEF R, W
    <3> QED BY <1>1, <3>1, <3>2, Dots, Zenon
  <2>4. x = r + e /\ y = w + e
    BY <1>5
  <2> HIDE DEF a, b, r, w, x, y
  <2>5. a + x = a + r + e /\ b + y = b + w + e
    BY <2>1, <2>2, <2>3, <2>4
  <2> QED BY <1>4, <2>1, <2>2, <2>5 DEF a, b, r, w
<1> HIDE DEF O, R, W, FB, TB
<1>6. ASSUME NEW m \in Moves(o) PROVE m \in Pairs(f, t)
  <2>1. PICK idx \in Below(n, O), e \in 0 .. o.blocks.size - 1 :
          m = <<<<f.space, DataStart(f) + Dot(idx, R) + e>>,
                <<t.space, DataStart(t) + Dot(idx, W) + e>>>>
    BY <1>2, <1>3 DEF Moves, R, W
  <2>2. e \in Nat /\ e < Product(shape, last)
    BY <1>3, <2>1
  <2>3. PICK g \in Below(n, shape) :
          \A st, r : Fit(n, shape, last, st, r) => DotFrom(g, st, 1) = DotFrom(idx, r, 1) + e
    BY <1>1, <2>1, <2>2, Assemble DEF O
  <2>4. /\ DotFrom(g, FB, 1) = DotFrom(idx, R, 1) + e
        /\ DotFrom(g, TB, 1) = DotFrom(idx, W, 1) + e
    BY <2>3 DEF FB, TB, R, W
  <2>5. m = <<Element(f, g), Element(t, g)>>
    BY <1>5, <2>1, <2>2, <2>3, <2>4
  <2> QED BY <1>2, <2>3, <2>5 DEF Pairs
<1>7. ASSUME NEW m \in Pairs(f, t) PROVE m \in Moves(o)
  <2>1. PICK g \in Below(n, shape) : m = <<Element(f, g), Element(t, g)>>
    BY <1>2 DEF Pairs
  <2>2. PICK idx \in Below(n, O), e \in Nat :
          /\ e < Product(shape, last)
          /\ \A st, r : Fit(n, shape, last, st, r) => DotFrom(g, st, 1) = DotFrom(idx, r, 1) + e
    BY <1>1, <2>1, Disassemble DEF O
  <2>3. /\ DotFrom(g, FB, 1) = DotFrom(idx, R, 1) + e
        /\ DotFrom(g, TB, 1) = DotFrom(idx, W, 1) + e
    BY <2>2 DEF FB, TB, R, W
  <2>4. m = <<<<f.space, DataStart(f) + Dot(idx, R) + e>>,
              <<t.space, DataStart(t) + Dot(idx, W) + e>>>>
    BY <1>5, <2>1, <2>2, <2>3
  <2>5. idx \in Indices(o.blocks.shape) /\ e \in 0 .. o.blocks.size - 1
    BY <1>2, <1>3, <2>2
  <2> QED BY <2>4, <2>5 DEF Moves, R, W
<1> QED BY <1>6, <1>7
-----------------------------------------------------------------------------
(* The blocks of two memrefs (computeStrides).                              *)
LEMMA WholeIsNatural ==
  ASSUME NEW n, NEW t, Memref(n, t), IsDenseInMemory(t)
  PROVE  BufferStrides(t) = Naturals(n, t.shape)
PROOF
BY BufferIsWide DEF IsDenseInMemory, IsIdentityLayout

LEMMA ComputedBlocks ==
  ASSUME NEW n, NEW f, NEW t, Memref(n, f), Memref(n, t), f.shape = t.shape
  PROVE  \E last \in 1 .. n + 1 :
           /\ Parted(n, f.shape, last, ComputeStrides(f, t))
           /\ ComputeStrides(f, t).from = BufferStrides(f)
           /\ ComputeStrides(f, t).to = BufferStrides(t)
           /\ \A i \in 1 .. n : i >= last =>
                /\ BufferStrides(f)[i] = Naturals(n, f.shape)[i]
                /\ BufferStrides(t)[i] = Naturals(n, f.shape)[i]
           /\ IsDenseInMemory(f) /\ IsDenseInMemory(t) => last = 1
PROOF
<1> DEFINE N == Naturals(n, f.shape)
           FB == BufferStrides(f)
           TB == BufferStrides(t)
           Contiguous(i) == \A j \in i .. n : /\ FB[j] = TB[j]
                                              /\ FB[j] = Product(f.shape, j + 1)
           S == {n + 1} \cup {i \in 1 .. n : Contiguous(i)}
           last == Min(S)
<1>1. /\ n \in Nat /\ n >= 1 /\ f.shape \in [1 .. n -> Positive]
      /\ EncodedStrides(f) = FB /\ EncodedStrides(t) = TB
  <2>1. EncodedStrides(f) = FB /\ EncodedStrides(t) = TB
    BY BufferIsWide
  <2>2. n \in Nat /\ n >= 1 /\ f.shape \in [1 .. n -> Positive]
    BY DEF Memref, Positive
  <2> QED BY <2>1, <2>2
<1>2. Len(f.shape) = n /\ DOMAIN f.shape = 1 .. n
  BY <1>1, LenOf
<1>3. S \in SUBSET Nat /\ S # {} /\ S \subseteq 1 .. n + 1
  BY <1>1
<1>4. last \in S /\ \A y \in S : last <= y
  <2> HIDE DEF S
  <2> QED BY <1>3, MinIsLeast
<1>5. ComputeStrides(f, t) = Blocks(f, t, last)
  BY <1>1, <1>2 DEF ComputeStrides
<1>6. ASSUME NEW j \in 1 .. n PROVE N[j] = Product(f.shape, j + 1)
  BY <1>1, <1>6, NaturalIsWide, Zenon
<1>7. ASSUME NEW i \in 1 .. n, i >= last PROVE FB[i] = N[i] /\ TB[i] = N[i]
  <2>1. last # n + 1
    <3>1. last \in 1 .. n + 1
      BY <1>3, <1>4
    <3> HIDE DEF S, last
    <3> QED BY <1>1, <1>7, <3>1
  <2>2. Contiguous(last)
    BY <1>4, <2>1
  <2> HIDE DEF S
  <2>3. i \in last .. n
    BY <1>1, <1>3, <1>4, <1>7
  <2> QED BY <1>6, <2>2, <2>3
<1>8. ASSUME IsDenseInMemory(f), IsDenseInMemory(t) PROVE last = 1
  <2>1. FB = N /\ TB = N
    BY <1>8, WholeIsNatural
  <2> HIDE DEF FB, TB, N
  <2>2. Contiguous(1)
    BY <1>6, <2>1
  <2>3. 1 \in S
    BY <1>1, <2>2
  <2> HIDE DEF S
  <2>4. last \in 1 .. n + 1 /\ last <= 1
    BY <1>3, <1>4, <2>3
  <2> HIDE DEF last
  <2> QED BY <1>1, <2>4
<1> HIDE DEF last
<1>9. /\ Parted(n, f.shape, last, ComputeStrides(f, t))
      /\ ComputeStrides(f, t).from = FB /\ ComputeStrides(f, t).to = TB
  BY <1>1, <1>2, <1>5 DEF Blocks, Parted, Outer
<1>10. last \in 1 .. n + 1
  BY <1>3, <1>4
<1> HIDE DEF FB, TB, N
<1> QED BY <1>7, <1>8, <1>9, <1>10 DEF FB, TB, N

(* Each operation that createTorqCopy makes moves its memref.               *)
LEMMA HostMoves ==
  ASSUME NEW n, NEW f, NEW t, Right(n, f), Right(n, t), f.shape = t.shape,
         NEW o, o = Op("host", f, t, ComputeStrides(f, t))
  PROVE  Moves(o) = Pairs(f, t)
PROOF
<1>1. Memref(n, f) /\ Memref(n, t) /\ o.from = f /\ o.to = t
  BY DEF Right, Op
<1>2. PICK last \in 1 .. n + 1 :
        /\ Parted(n, f.shape, last, ComputeStrides(f, t))
        /\ ComputeStrides(f, t).from = BufferStrides(f)
        /\ ComputeStrides(f, t).to = BufferStrides(t)
        /\ \A i \in 1 .. n : i >= last =>
             /\ BufferStrides(f)[i] = Naturals(n, f.shape)[i]
             /\ BufferStrides(t)[i] = Naturals(n, f.shape)[i]
  BY <1>1, ComputedBlocks
<1>3. o.blocks = ComputeStrides(f, t) /\ ReadStrides(o) = BufferStrides(f) /\ WriteStrides(o) = BufferStrides(t)
  BY <1>2 DEF Op, ReadStrides, WriteStrides
<1>4. BufferStrides(f) \in [1 .. n -> Nat] /\ BufferStrides(t) \in [1 .. n -> Nat]
  BY <1>1, BufferIsWide
<1>5. /\ Fit(n, f.shape, last, BufferStrides(f), ReadStrides(o))
      /\ Fit(n, f.shape, last, BufferStrides(t), WriteStrides(o))
  BY <1>2, <1>3, <1>4 DEF Fit
<1> QED BY <1>1, <1>2, <1>3, <1>5, BlockMoves

LEMMA StoreMoves ==
  ASSUME NEW n, NEW f, NEW t, Right(n, f), Right(n, t), f.shape = t.shape, IsDenseInMemory(f),
         NEW o, o = Op("store", f, t, ComputeStrides(f, t))
  PROVE  Moves(o) = Pairs(f, t)
PROOF
<1>1. Memref(n, f) /\ Memref(n, t) /\ o.from = f /\ o.to = t
  BY DEF Right, Op
<1>2. PICK last \in 1 .. n + 1 :
        /\ Parted(n, f.shape, last, ComputeStrides(f, t))
        /\ ComputeStrides(f, t).from = BufferStrides(f)
        /\ ComputeStrides(f, t).to = BufferStrides(t)
        /\ \A i \in 1 .. n : i >= last =>
             /\ BufferStrides(f)[i] = Naturals(n, f.shape)[i]
             /\ BufferStrides(t)[i] = Naturals(n, f.shape)[i]
  BY <1>1, ComputedBlocks
<1>3. /\ o.blocks = ComputeStrides(f, t) /\ ReadStrides(o) = Contiguously(ComputeStrides(f, t))
      /\ WriteStrides(o) = BufferStrides(t)
  BY <1>2 DEF Op, ReadStrides, WriteStrides
<1>4. BufferStrides(t) \in [1 .. n -> Nat] /\ BufferStrides(f) = Naturals(n, f.shape)
  BY <1>1, BufferIsWide, WholeIsNatural
<1>5. Fit(n, f.shape, last, BufferStrides(f), ReadStrides(o))
  <2>1. n \in Nat /\ f.shape \in [1 .. n -> Positive]
    BY <1>1 DEF Memref, Positive
  <2>2. Fit(n, f.shape, last, Naturals(n, f.shape), Contiguously(ComputeStrides(f, t)))
    BY <1>2, <2>1, ContiguousFits
  <2> QED BY <1>3, <1>4, <2>2
<1>6. Fit(n, f.shape, last, BufferStrides(t), WriteStrides(o))
  BY <1>2, <1>3, <1>4 DEF Fit
<1> QED BY <1>1, <1>2, <1>3, <1>5, <1>6, BlockMoves

LEMMA LoadMoves ==
  ASSUME NEW n, NEW f, NEW t, Right(n, f), Right(n, t), f.shape = t.shape, IsDenseInMemory(t),
         NEW o, o = Op("load", f, t, ComputeStrides(f, t))
  PROVE  Moves(o) = Pairs(f, t)
PROOF
<1>1. Memref(n, f) /\ Memref(n, t) /\ o.from = f /\ o.to = t
  BY DEF Right, Op
<1>2. PICK last \in 1 .. n + 1 :
        /\ Parted(n, f.shape, last, ComputeStrides(f, t))
        /\ ComputeStrides(f, t).from = BufferStrides(f)
        /\ ComputeStrides(f, t).to = BufferStrides(t)
        /\ \A i \in 1 .. n : i >= last =>
             /\ BufferStrides(f)[i] = Naturals(n, f.shape)[i]
             /\ BufferStrides(t)[i] = Naturals(n, f.shape)[i]
  BY <1>1, ComputedBlocks
<1>3. /\ o.blocks = ComputeStrides(f, t) /\ ReadStrides(o) = BufferStrides(f)
      /\ WriteStrides(o) = Contiguously(ComputeStrides(f, t))
  BY <1>2 DEF Op, ReadStrides, WriteStrides
<1>4. BufferStrides(f) \in [1 .. n -> Nat] /\ BufferStrides(t) = Naturals(n, f.shape)
  BY <1>1, BufferIsWide, WholeIsNatural
<1>5. Fit(n, f.shape, last, BufferStrides(t), WriteStrides(o))
  <2>1. n \in Nat /\ f.shape \in [1 .. n -> Positive]
    BY <1>1 DEF Memref, Positive
  <2>2. Fit(n, f.shape, last, Naturals(n, f.shape), Contiguously(ComputeStrides(f, t)))
    BY <1>2, <2>1, ContiguousFits
  <2> QED BY <1>3, <1>4, <2>2
<1>6. Fit(n, f.shape, last, BufferStrides(f), ReadStrides(o))
  BY <1>2, <1>3, <1>4 DEF Fit
<1> QED BY <1>1, <1>2, <1>3, <1>5, <1>6, BlockMoves

LEMMA ConvertMoves ==
  ASSUME NEW n, NEW f, NEW t, Right(n, f), Right(n, t), f.shape = t.shape,
         NEW o, o = Op("convert", f, t, [from |-> EncodedStrides(f), to |-> EncodedStrides(t),
                                         shape |-> f.shape, size |-> 1])
  PROVE  Moves(o) = Pairs(f, t)
PROOF
<1>1. Memref(n, f) /\ Memref(n, t) /\ o.from = f /\ o.to = t /\ o.kind = "convert"
  BY DEF Right, Op
<1>2. n \in Nat /\ n + 1 \in 1 .. n + 1 /\ f.shape \in [1 .. n -> Positive]
  BY <1>1 DEF Memref, Positive
<1>3. o.blocks.shape = f.shape /\ o.blocks.size = 1
  BY DEF Op
<1>4. Parted(n, f.shape, n + 1, o.blocks)
  <2>1. Outer(n, f.shape, n + 1) = f.shape
    BY <1>2 DEF Outer
  <2>2. Product(f.shape, n + 1) = 1
    <3>1. f.shape \in [1 .. n -> Nat]
      BY <1>2 DEF Positive
    <3> QED BY <1>2, <3>1, Products, Zenon
  <2> QED BY <1>3, <2>1, <2>2 DEF Parted
<1>5. /\ EncodedStrides(f) = BufferStrides(f) /\ EncodedStrides(t) = BufferStrides(t)
      /\ BufferStrides(f) \in [1 .. n -> Nat] /\ BufferStrides(t) \in [1 .. n -> Nat]
  BY <1>1, BufferIsWide
<1>6. ReadStrides(o) = BufferStrides(f) /\ WriteStrides(o) = BufferStrides(t)
  BY <1>5 DEF Op, ReadStrides, WriteStrides
<1>7. /\ Fit(n, f.shape, n + 1, BufferStrides(f), ReadStrides(o))
      /\ Fit(n, f.shape, n + 1, BufferStrides(t), WriteStrides(o))
  BY <1>2, <1>5, <1>6 DEF Fit
<1> QED BY <1>1, <1>2, <1>4, <1>7, BlockMoves
(* A raw copy moves all bytes of a dense buffer.                            *)
LEMMA LastElement ==
  ASSUME NEW n \in Nat, NEW shape \in [1 .. n -> Positive]
  PROVE  DotFrom([i \in 1 .. n |-> shape[i] - 1], Naturals(n, shape), 1) + 1 = Product(shape, 1)
PROOF
<1> DEFINE N == Naturals(n, shape)
           l == [i \in 1 .. n |-> shape[i] - 1]
           T == {i \in 1 .. n + 1 : DotFrom(l, N, i) + 1 = Product(shape, i)}
<1>0. N \in [1 .. n -> Nat] /\ l \in [1 .. n -> Nat] /\ shape \in [1 .. n -> Nat]
  BY NaturalIsWide, SMTT(30) DEF Wide, Positive
<1>1. \A i \in 1 .. n : shape[i] \in Nat /\ l[i] = shape[i] - 1 /\ l[i] \in Nat
  BY DEF Positive
<1> HIDE DEF l
<1>2. n + 1 \in T
  <2>1. DotFrom(l, N, n + 1) = 0
    BY <1>0, Dots, Zenon
  <2>2. Product(shape, n + 1) = 1
    BY <1>0, Products, Zenon
  <2> QED BY <2>1, <2>2
<1>3. ASSUME NEW i \in 1 .. n, i + 1 \in T PROVE i \in T
  <2>1. Product(shape, i) = shape[i] * N[i]
    BY NaturalIsWide, Zenon
  <2>2. Product(shape, i + 1) = N[i]
    BY NaturalIsWide, Zenon
  <2>3. DotFrom(l, N, i) = l[i] * N[i] + DotFrom(l, N, i + 1)
    BY <1>0, Dots, Zenon
  <2>4. DotFrom(l, N, i + 1) + 1 = N[i]
    BY <1>3, <2>2
  <2> DEFINE a == l[i]
             b == shape[i]
             c == N[i]
             d == DotFrom(l, N, i + 1)
             p == a * c
             q == b * c
  <2>5. a \in Nat /\ b = a + 1 /\ c \in Nat
    BY <1>0, <1>1
  <2>6. d \in Nat
    <3>1. i + 1 \in 1 .. n + 1
      OBVIOUS
    <3> HIDE DEF N
    <3> QED BY <1>0, <3>1, Dots
  <2>7. (a + 1) * c = a * c + c
    <3> HIDE DEF a, c
    <3> QED BY <2>5, Multiples
  <2>8. p \in Nat /\ q = p + c
    BY <2>5, <2>7, Multiples
  <2>9. DotFrom(l, N, i) = p + d /\ Product(shape, i) = q
    BY <2>1, <2>3
  <2> HIDE DEF N, a, b, c, d, p, q
  <2>10. DotFrom(l, N, i) + 1 = Product(shape, i)
    BY <2>4, <2>5, <2>6, <2>8, <2>9 DEF c, d
  <2> QED BY <2>10
<1>4. 1 .. n + 1 \subseteq T
  <2> HIDE DEF T
  <2> QED BY <1>2, <1>3, DownFrom
<1>5. 1 \in T
  <2> HIDE DEF T
  <2> QED BY <1>4
<1> QED BY <1>5 DEF l

LEMMA RawAddresses ==
  ASSUME NEW n, NEW t, Memref(n, t), Raw(t)
  PROVE  /\ Right(n, t) /\ BufferStrides(t) = Naturals(n, t.shape)
         /\ DataStart(t) \in Nat /\ DataSize(t) = Product(t.shape, 1)
PROOF
<1>1. HasDenseEncoding(t) /\ IsDenseInMemory(t)
  BY DEF Raw, HasDenseEncoding, IsDenseInMemory, IsIdentityLayout
<1>2. n \in Nat /\ t.shape \in [1 .. n -> Positive] /\ 1 \in 1 .. n + 1
  BY DEF Memref, Positive
<1>3. Right(n, t)
  BY <1>1 DEF Right
<1>4. BufferStrides(t) = Naturals(n, t.shape) /\ EncodedStrides(t) = Naturals(n, t.shape)
  BY <1>1, BufferIsWide, WholeIsNatural
<1>5. DataStart(t) \in Nat
  <2> DEFINE z == [i \in 1 .. n |-> 0]
  <2>1. z \in Below(n, t.shape)
    BY <1>2 DEF Below, Positive
  <2> QED BY <1>3, <2>1, ElementAt
<1>6. DataSize(t) = DotFrom([i \in 1 .. n |-> t.shape[i] - 1], Naturals(n, t.shape), 1) + 1
  BY <1>2, <1>4 DEF DataSize, Dot
<1> QED BY <1>2, <1>3, <1>4, <1>5, <1>6, LastElement

LEMMA NoSteps ==
  /\ Indices(<< >>) = {<< >>}
  /\ Dot(<< >>, << >>) = 0
PROOF
<1> DEFINE e == << >>
<1>1. e \in [1 .. 0 -> Positive] /\ e \in [1 .. 0 -> Nat]
  OBVIOUS
<1>2. [1 .. 0 -> Nat] = {e}
  <2>1. ASSUME NEW f \in [1 .. 0 -> Nat] PROVE f = e
    <3> HIDE DEF e
    <3> QED BY <1>1, Extensional
  <2> QED BY <1>1, <2>1
<1>3. Below(0, e) = {e}
  BY <1>2 DEF Below
<1> HIDE DEF e
<1>4. Indices(e) = {e}
  BY <1>1, <1>3, IndicesAreBelow
<1>5. DotFrom(e, e, 0 + 1) = 0
  BY <1>1, Dots
<1> QED BY <1>4, <1>5 DEF Dot, e

LEMMA RawMoves ==
  ASSUME NEW n, NEW f, NEW t, Memref(n, f), Memref(n, t), Raw(f), Raw(t), f.shape = t.shape,
         NEW o, o = Op("copy", f, t, [from |-> << >>, to |-> << >>, shape |-> << >>,
                                      size |-> DataSize(f)])
  PROVE  Moves(o) = Pairs(f, t)
PROOF
<1> DEFINE s == f.shape
           N == Naturals(n, s)
           a == DataStart(f)
           b == DataStart(t)
<1>1. /\ n \in Nat /\ s \in [1 .. n -> Positive] /\ 1 \in 1 .. n /\ 1 \in 1 .. n + 1
      /\ Right(n, f) /\ Right(n, t) /\ BufferStrides(f) = N /\ BufferStrides(t) = N
      /\ a \in Nat /\ b \in Nat /\ DataSize(f) = Product(s, 1)
  <2>1. /\ Right(n, f) /\ Right(n, t) /\ BufferStrides(f) = N /\ BufferStrides(t) = N
        /\ a \in Nat /\ b \in Nat /\ DataSize(f) = Product(s, 1)
    BY RawAddresses
  <2>2. n \in Nat /\ s \in [1 .. n -> Positive] /\ 1 \in 1 .. n /\ 1 \in 1 .. n + 1
    BY DEF Memref, Positive
  <2> QED BY <2>1, <2>2
<1>2. Indices(s) = Below(n, s)
  BY <1>1, IndicesAreBelow
<1>3. Product(s, 1) \in Positive
  BY <1>1, NaturalIsWide
<1>4. Moves(o) = {<<<<f.space, a + 0 + e>>, <<t.space, b + 0 + e>>>> : e \in 0 .. Product(s, 1) - 1}
  BY <1>1, NoSteps DEF Moves, Op, ReadStrides, WriteStrides
<1>5. ASSUME NEW g \in Below(n, s)
      PROVE  /\ DotFrom(g, N, 1) \in 0 .. Product(s, 1) - 1
             /\ Element(f, g) = <<f.space, a + 0 + DotFrom(g, N, 1)>>
             /\ Element(t, g) = <<t.space, b + 0 + DotFrom(g, N, 1)>>
  <2> DEFINE d == DotFrom(g, N, 1)
  <2>1. d \in Nat /\ Element(f, g) = <<f.space, a + d>> /\ Element(t, g) = <<t.space, b + d>>
    BY <1>1, ElementAt
  <2>2. d < s[1] * N[1]
    <3>1. Wide(n, N, s)
      BY <1>1, NaturalIsWide
    <3> HIDE DEF N
    <3> QED BY <1>1, <3>1, Extent
  <2>3. Product(s, 1) = s[1] * N[1]
    BY <1>1, NaturalIsWide, Zenon
  <2> HIDE DEF d
  <2>4. a + 0 + d = a + d /\ b + 0 + d = b + d /\ d \in 0 .. Product(s, 1) - 1
    BY <1>1, <1>3, <2>1, <2>2, <2>3 DEF Positive
  <2> QED BY <2>1, <2>4 DEF d
<1>6. ASSUME NEW e \in 0 .. Product(s, 1) - 1
      PROVE  \E g \in Below(n, s) : DotFrom(g, N, 1) = e
  <2>1. e \in Nat /\ e < Product(s, 1)
    BY <1>3 DEF Positive
  <2> QED BY <1>1, <2>1, NaturalReaches
<1> HIDE DEF N, a, b
<1>7. Pairs(f, t) = {<<Element(f, g), Element(t, g)>> : g \in Below(n, s)}
  BY <1>2 DEF Pairs
<1>8. ASSUME NEW m \in Moves(o) PROVE m \in Pairs(f, t)
  <2>1. PICK e \in 0 .. Product(s, 1) - 1 : m = <<<<f.space, a + 0 + e>>, <<t.space, b + 0 + e>>>>
    BY <1>4
  <2>2. PICK g \in Below(n, s) : DotFrom(g, N, 1) = e
    BY <1>6
  <2>3. m = <<Element(f, g), Element(t, g)>>
    BY <1>5, <2>1, <2>2
  <2> QED BY <1>7, <2>3
<1>9. ASSUME NEW m \in Pairs(f, t) PROVE m \in Moves(o)
  <2>1. PICK g \in Below(n, s) : m = <<Element(f, g), Element(t, g)>>
    BY <1>7
  <2> QED BY <1>4, <1>5, <2>1
<1> QED BY <1>8, <1>9
-----------------------------------------------------------------------------
(* The temporary buffers of a copy.                                         *)
LEMMA Bounds ==
  MaxDmaStrides \in Nat /\ Area \in Nat \ {0}
PROOF
BY CopyAssumption, Zenon

LEMMA TemporaryBuffers ==
  ASSUME NEW n \in Positive, NEW counts \in Counts, counts \in [1 .. n -> Positive],
         NEW shape \in [1 .. n -> Positive], \A i \in 1 .. n : shape[i] <= counts[i],
         NEW t \in {TmpLram(shape), TmpXram(shape)}
  PROVE  /\ Right(n, t) /\ t.shape = shape /\ IsDenseInMemory(t) /\ Raw(t)
         /\ Elements(t) \subseteq Temporary
PROOF
<1>1. n \in Nat /\ 1 \in 1 .. n /\ Area \in Nat
  BY Bounds DEF Positive
<1>2. /\ t.addr \in {2 * Area, 3 * Area} /\ t.addr \in Nat /\ t.space \in {"lram", "xram"}
      /\ t.counts = shape /\ t.shape = shape /\ t.enc = << >>
      /\ t.start = [i \in 1 .. n |-> 0] /\ t.start = Zeros(t.counts)
  BY <1>1 DEF TmpLram, TmpXram, Dense, Zeros
<1>3. HasDenseEncoding(t) /\ IsDenseInMemory(t) /\ Raw(t)
  BY <1>2 DEF HasDenseEncoding, IsDenseInMemory, IsIdentityLayout, Raw
<1>4. Memref(n, t)
  <2>1. \A i \in 1 .. n : shape[i] \in Nat /\ t.start[i] = 0
    BY <1>2 DEF Positive
  <2>2. \A i \in 1 .. n : t.start[i] + t.shape[i] <= t.counts[i]
    BY <1>2, <2>1
  <2> QED BY <1>2, <2>2 DEF Memref
<1>5. Right(n, t)
  BY <1>3, <1>4 DEF Right
<1> DEFINE N == Naturals(n, shape)
<1>6. Product(shape, 1) <= Area /\ Product(shape, 1) \in Nat /\ Product(shape, 1) = shape[1] * N[1]
  <2> DEFINE M == Naturals(n, counts)
  <2>1. Wide(n, M, counts) /\ M \in [1 .. n -> Nat]
    BY <1>1, NaturalIsWide DEF Wide
  <2>2. N[1] <= M[1]
    <3> HIDE DEF M
    <3> QED BY <1>1, <2>1, NaturalIsLeast
  <2>3. N \in [1 .. n -> Nat]
    BY <1>1, NaturalIsWide DEF Wide
  <2>4. Product(shape, 1) = shape[1] * N[1]
    BY <1>1, NaturalIsWide, Zenon
  <2>5. Product(counts, 1) = counts[1] * M[1]
    BY <1>1, NaturalIsWide, Zenon
  <2>6. Product(counts, 1) <= Area
    BY AreaAssumption
  <2> DEFINE a == shape[1]
             b == counts[1]
             c == N[1]
             d == M[1]
  <2>7. a \in Nat /\ b \in Nat /\ c \in Nat /\ d \in Nat /\ a <= b /\ c <= d
    BY <1>1, <2>1, <2>2, <2>3 DEF Positive
  <2> HIDE DEF a, b, c, d
  <2>8. a * c <= b * d /\ a * c \in Nat /\ b * d \in Nat
    BY <2>7, Multiples
  <2>9. Product(shape, 1) = a * c /\ b * d <= Area
    BY <2>4, <2>5, <2>6 DEF a, b, c, d
  <2> QED BY <1>1, <2>4, <2>8, <2>9
<1>7. ASSUME NEW idx \in Indices(t.shape) PROVE Element(t, idx) \in Temporary
  <2> DEFINE g == [i \in 1 .. n |-> t.start[i] + idx[i]]
             d == DotFrom(g, N, 1)
  <2>1. idx \in Below(n, shape)
    BY <1>1, <1>2, IndicesAreBelow
  <2>2. g \in Below(n, shape) /\ DOMAIN idx = 1 .. n
    <3>1. idx \in Below(n, t.shape)
      BY <1>2, <2>1
    <3>2. g \in Below(n, t.counts) /\ idx \in [1 .. n -> Nat]
      BY <1>4, <3>1, BelowCounts
    <3> QED BY <1>2, <3>2
  <2>3. BufferStrides(t) = N
    BY <1>2, <1>3, <1>4, WholeIsNatural
  <2>4. Element(t, idx) = <<t.space, t.addr + d>>
    BY <2>2, <2>3 DEF Element, Dot
  <2>5. d < shape[1] * N[1] /\ d \in Nat
    <3>1. Wide(n, N, shape) /\ N \in [1 .. n -> Nat]
      BY <1>1, NaturalIsWide DEF Wide
    <3>2. g \in [1 .. n -> Nat] /\ 1 \in 1 .. n + 1
      BY <1>1, <2>2 DEF Below
    <3> HIDE DEF N, g
    <3>3. d < shape[1] * N[1]
      BY <1>1, <2>2, <3>1, Extent
    <3>4. d \in Nat
      BY <1>1, <3>1, <3>2, Dots
    <3> QED BY <3>3, <3>4
  <2> HIDE DEF d
  <2>6. d < Area
    BY <1>1, <1>6, <2>5
  <2>7. t.addr + d \in 2 * Area .. 4 * Area - 1
    BY <1>1, <1>2, <2>5, <2>6
  <2> QED BY <1>2, <2>4, <2>7 DEF Temporary
<1>8. Elements(t) \subseteq Temporary
  BY <1>7 DEF Elements
<1> QED BY <1>2, <1>3, <1>5, <1>8

-----------------------------------------------------------------------------
(* The operations that are left take the data on from memref src to end.    *)
DmaFits(o) == o.kind \in {"load", "store"} => Strides(o.blocks) <= MaxDmaStrides

Moved(n, end, o, f, t) ==
  /\ o.from = f /\ o.to = t
  /\ Right(n, f) /\ Right(n, t) /\ f.shape = end.shape /\ t.shape = end.shape
  /\ Moves(o) = Pairs(f, t)
  /\ DmaFits(o)
  /\ t = end \/ Elements(t) \subseteq Temporary

Route(n, end, src, left) ==
  \/ left = << >> /\ src = end
  \/ \E a : left = <<a>> /\ Moved(n, end, a, src, end)
  \/ \E a, b, x : left = <<a, b>> /\ Moved(n, end, a, src, x) /\ Moved(n, end, b, x, end)
  \/ \E a, b, c, x, y : /\ left = <<a, b, c>>
                        /\ Moved(n, end, a, src, x)
                        /\ Moved(n, end, b, x, y)
                        /\ Moved(n, end, c, y, end)

(* A store of dense data to dense memory is one block.                      *)
LEMMA DenseStrides ==
  ASSUME NEW n, NEW f, NEW t, Memref(n, f), Memref(n, t), f.shape = t.shape,
         IsDenseInMemory(f), IsDenseInMemory(t)
  PROVE  Strides(ComputeStrides(f, t)) <= MaxDmaStrides
PROOF
<1>1. PICK last \in 1 .. n + 1 :
        /\ Parted(n, f.shape, last, ComputeStrides(f, t))
        /\ last = 1
  BY ComputedBlocks
<1>2. ComputeStrides(f, t).shape = [i \in 1 .. n |-> 1]
  <2>1. n \in Nat
    BY DEF Memref, Positive
  <2> QED BY <1>1, <2>1 DEF Parted, Outer
<1>3. {i \in DOMAIN ComputeStrides(f, t).shape : ComputeStrides(f, t).shape[i] # 1} = {}
  BY <1>2
<1>4. Strides(ComputeStrides(f, t)) = 0
  BY <1>3, FS_EmptySet DEF Strides
<1> QED BY <1>4, Bounds
(* createTorqCopy makes such operations.                                    *)
Place(n, end, t) ==
  Right(n, t) /\ t.shape = end.shape /\ (t = end \/ Elements(t) \subseteq Temporary)

LEMMA Host ==
  ASSUME NEW n, NEW f, NEW t, Right(n, f), f.shape = to.shape, Place(n, to, t)
  PROVE  Moved(n, to, Op("host", f, t, ComputeStrides(f, t)), f, t)
PROOF
<1> DEFINE o == Op("host", f, t, ComputeStrides(f, t))
<1>1. Right(n, t) /\ f.shape = t.shape /\ t.shape = to.shape /\ (t = to \/ Elements(t) \subseteq Temporary)
  BY DEF Place
<1>2. Moves(o) = Pairs(f, t)
  BY <1>1, HostMoves
<1>3. o.from = f /\ o.to = t /\ o.kind = "host"
  BY DEF Op
<1>4. DmaFits(o)
  BY <1>3 DEF DmaFits
<1> HIDE DEF o
<1>5. Moved(n, to, o, f, t)
  BY <1>1, <1>2, <1>3, <1>4 DEF Moved
<1> QED BY <1>5 DEF o

LEMMA Convert ==
  ASSUME NEW n, NEW f, NEW t, Right(n, f), f.shape = to.shape, Place(n, to, t)
  PROVE  \E o : ConvertOp(f, t) = <<o>> /\ Moved(n, to, o, f, t)
PROOF
<1> DEFINE o == Op("convert", f, t, [from |-> EncodedStrides(f), to |-> EncodedStrides(t),
                                      shape |-> f.shape, size |-> 1])
<1>1. Right(n, t) /\ f.shape = t.shape /\ t.shape = to.shape /\ (t = to \/ Elements(t) \subseteq Temporary)
  BY DEF Place
<1>2. ConvertOp(f, t) = <<o>>
  BY DEF ConvertOp
<1>3. Moves(o) = Pairs(f, t)
  BY <1>1, ConvertMoves
<1>0. o.from = f /\ o.to = t /\ o.kind = "convert"
  BY DEF Op
<1> HIDE DEF o
<1>4. DmaFits(o)
  BY <1>0 DEF DmaFits
<1>5. Moved(n, to, o, f, t)
  BY <1>0, <1>1, <1>3, <1>4 DEF Moved
<1> QED BY <1>2, <1>5

LEMMA Store ==
  ASSUME NEW n, NEW f, NEW t, Right(n, f), f.shape = to.shape, Place(n, to, t), IsDenseInMemory(f),
         Strides(ComputeStrides(f, t)) <= MaxDmaStrides
  PROVE  Moved(n, to, Op("store", f, t, ComputeStrides(f, t)), f, t)
PROOF
<1> DEFINE o == Op("store", f, t, ComputeStrides(f, t))
<1>1. Right(n, t) /\ f.shape = t.shape /\ t.shape = to.shape /\ (t = to \/ Elements(t) \subseteq Temporary)
  BY DEF Place
<1>2. Moves(o) = Pairs(f, t)
  BY <1>1, StoreMoves
<1>3. o.from = f /\ o.to = t /\ o.blocks = ComputeStrides(f, t)
  BY DEF Op
<1>4. DmaFits(o)
  BY <1>3 DEF DmaFits
<1> HIDE DEF o
<1>5. Moved(n, to, o, f, t)
  BY <1>1, <1>2, <1>3, <1>4 DEF Moved
<1> QED BY <1>5 DEF o

LEMMA Load ==
  ASSUME NEW n, NEW f, NEW t, Right(n, f), f.shape = to.shape, Place(n, to, t), IsDenseInMemory(t),
         Strides(ComputeStrides(f, t)) <= MaxDmaStrides
  PROVE  Moved(n, to, Op("load", f, t, ComputeStrides(f, t)), f, t)
PROOF
<1> DEFINE o == Op("load", f, t, ComputeStrides(f, t))
<1>1. Right(n, t) /\ f.shape = t.shape /\ t.shape = to.shape /\ (t = to \/ Elements(t) \subseteq Temporary)
  BY DEF Place
<1>2. Moves(o) = Pairs(f, t)
  BY <1>1, LoadMoves
<1>3. o.from = f /\ o.to = t /\ o.blocks = ComputeStrides(f, t)
  BY DEF Op
<1>4. DmaFits(o)
  BY <1>3 DEF DmaFits
<1> HIDE DEF o
<1>5. Moved(n, to, o, f, t)
  BY <1>1, <1>2, <1>3, <1>4 DEF Moved
<1> QED BY <1>5 DEF o

LEMMA StridesAreNumbers ==
  ASSUME NEW n, NEW f, NEW t, Memref(n, f), Memref(n, t), f.shape = t.shape,
         ~TooManyStrides(ComputeStrides(f, t))
  PROVE  Strides(ComputeStrides(f, t)) <= MaxDmaStrides
PROOF
<1> DEFINE b == ComputeStrides(f, t)
           D == {i \in DOMAIN b.shape : b.shape[i] # 1}
<1>1. PICK last \in 1 .. n + 1 : Parted(n, f.shape, last, b)
  BY ComputedBlocks
<1>2. n \in Nat /\ f.shape \in [1 .. n -> Positive]
  BY DEF Memref, Positive
<1>3. DOMAIN b.shape = 1 .. n
  BY <1>1 DEF Parted, Outer
<1> HIDE DEF b
<1>4. IsFiniteSet(1 .. n) /\ D \subseteq 1 .. n
  BY <1>2, <1>3, FS_Interval
<1>5. Cardinality(D) \in Nat
  <2> HIDE DEF D
  <2> QED BY <1>4, FS_Subset, FS_CardinalityType
<1>6. Strides(b) \in Nat
  BY <1>5 DEF Strides
<1>7. ~ (Strides(b) > MaxDmaStrides)
  BY DEF TooManyStrides, b
<1> QED BY <1>6, <1>7, Bounds DEF b

(* StoreBlocks goes by way of a dense buffer in XRAM if it has to, *)
LEMMA OneAndOne ==
  ASSUME NEW a, NEW b
  PROVE  <<a>> \o <<b>> = <<a, b>>
PROOF
<1> DEFINE s == <<a>> \o <<b>>
<1>1. s \in Seq({a, b}) /\ Len(s) = 2
  OBVIOUS
<1>2. \A i \in 1 .. 2 : s[i] = <<a, b>>[i]
  OBVIOUS
<1> HIDE DEF s
<1>3. s = <<a, b>>
  BY <1>1, <1>2, SeqEqual
<1> QED BY <1>3 DEF s

LEMMA OneAndTwo ==
  ASSUME NEW a, NEW b, NEW c
  PROVE  <<a>> \o <<b, c>> = <<a, b, c>>
PROOF
<1> DEFINE s == <<a>> \o <<b, c>>
<1>1. s \in Seq({a, b, c}) /\ Len(s) = 3
  OBVIOUS
<1>2. \A i \in 1 .. 3 : s[i] = <<a, b, c>>[i]
  OBVIOUS
<1> HIDE DEF s
<1>3. s = <<a, b, c>>
  BY <1>1, <1>2, SeqEqual
<1> QED BY <1>3 DEF s

LEMMA StoreRoute ==
  ASSUME NEW n, NEW f, Right(n, f), f.shape = to.shape, IsDenseInMemory(f), Place(n, to, to),
         Place(n, to, TmpXram(to.shape)), IsDenseInMemory(TmpXram(to.shape))
  PROVE  \/ \E a : StoreBlocks(f, to) = <<a>> /\ Moved(n, to, a, f, to)
         \/ \E a, b, x : StoreBlocks(f, to) = <<a, b>> /\ Moved(n, to, a, f, x) /\ Moved(n, to, b, x, to)
PROOF
<1> DEFINE X == TmpXram(to.shape)
           B == ComputeStrides(f, to)
<1>1. /\ Memref(n, f) /\ Memref(n, to) /\ Memref(n, X) /\ Right(n, X)
      /\ f.shape = to.shape /\ f.shape = X.shape /\ X.shape = to.shape
  BY DEF Place, Right
<1>2. CASE TooManyStrides(B)
  <2> DEFINE a == Op("store", f, X, ComputeStrides(f, X))
             b == Op("host", X, to, ComputeStrides(X, to))
  <2>1. StoreBlocks(f, to) = <<a>> \o <<b>>
    BY <1>2 DEF StoreBlocks, HostCopyOp
  <2>2. Strides(ComputeStrides(f, X)) <= MaxDmaStrides
    BY <1>1, DenseStrides
  <2>3. Moved(n, to, a, f, X)
    BY <2>2, Store
  <2>4. Moved(n, to, b, X, to)
    BY <1>1, Host
  <2> HIDE DEF a, b, X
  <2>5. <<a>> \o <<b>> = <<a, b>>
    BY OneAndOne
  <2> QED BY <2>1, <2>3, <2>4, <2>5
<1>3. CASE ~TooManyStrides(B)
  <2> DEFINE a == Op("store", f, to, B)
  <2>1. StoreBlocks(f, to) = <<a>>
    BY <1>3 DEF StoreBlocks
  <2>2. Strides(B) <= MaxDmaStrides
    BY <1>1, <1>3, StridesAreNumbers
  <2>3. Moved(n, to, a, f, to)
    BY <2>2, Store
  <2> HIDE DEF a
  <2> QED BY <2>1, <2>3
<1> QED BY <1>2, <1>3
(* ... as the other copies do through one in LRAM.                          *)
Valid(n, f, t) ==
  /\ Right(n, f) /\ Right(n, t) /\ f.shape = t.shape /\ f.counts \in Counts
  /\ <<f.space, t.space>> \in Spaces
  /\ "dtcm" \in {f.space, t.space} => Raw(f) /\ Raw(t)
  /\ Sound(f, t)

LEMMA TemporaryPlaces ==
  ASSUME NEW n, Valid(n, from, to), NEW t \in {TmpLram(to.shape), TmpXram(to.shape)}
  PROVE  Place(n, to, t) /\ Right(n, t) /\ t.shape = to.shape /\ IsDenseInMemory(t)
PROOF
<1>1. Memref(n, from) /\ from.counts \in Counts /\ from.shape = to.shape
  BY DEF Valid, Right
<1>2. n \in Positive /\ from.counts \in [1 .. n -> Positive] /\ from.shape \in [1 .. n -> Positive]
  BY <1>1 DEF Memref
<1>3. ASSUME NEW i \in 1 .. n PROVE from.shape[i] <= from.counts[i]
  <2>1. /\ from.start[i] \in Nat /\ from.shape[i] \in Positive /\ from.counts[i] \in Positive
        /\ from.start[i] + from.shape[i] <= from.counts[i]
    BY <1>1 DEF Memref
  <2> QED BY <2>1 DEF Positive
<1>4. /\ Right(n, t) /\ t.shape = to.shape /\ IsDenseInMemory(t)
      /\ Elements(t) \subseteq Temporary
  BY <1>1, <1>2, <1>3, TemporaryBuffers
<1> QED BY <1>4 DEF Place

LEMMA Lowered ==
  ASSUME NEW n, Included = {}, Valid(n, from, to)
  PROVE  Route(n, to, from, CreateTorqCopy(from, to))
PROOF
<1> DEFINE T == TmpLram(to.shape)
           X == TmpXram(to.shape)
           C == CreateTorqCopy(from, to)
<1> SUFFICES Route(n, to, from, C)
  OBVIOUS
<1>1. /\ Place(n, to, T) /\ Right(n, T) /\ T.shape = to.shape /\ IsDenseInMemory(T)
      /\ Place(n, to, X) /\ Right(n, X) /\ X.shape = to.shape /\ IsDenseInMemory(X)
  BY TemporaryPlaces
<1>2. /\ Right(n, from) /\ Right(n, to) /\ from.shape = to.shape /\ Place(n, to, to)
      /\ Memref(n, from) /\ Memref(n, to) /\ Memref(n, T)
  BY <1>1 DEF Valid, Place, Right
<1>3. CASE from.space = "lram" /\ to.space = "xram"
  <2>1. C = CreateStoreOp(from, to)
    BY <1>3 DEF CreateTorqCopy
  <2>2. CASE IsDenseInMemory(from)
    <3>1. C = StoreBlocks(from, to)
      BY <2>1, <2>2 DEF CreateStoreOp
    <3> HIDE DEF C, X
    <3> QED BY <1>1, <1>2, <2>2, <3>1, StoreRoute DEF Route, X
  <2>3. CASE ~IsDenseInMemory(from)
    <3>1. C = ConvertOp(from, T) \o StoreBlocks(T, to)
      BY <1>2, <2>1, <2>3 DEF CreateStoreOp
    <3>2. PICK a : ConvertOp(from, T) = <<a>> /\ Moved(n, to, a, from, T)
      BY <1>1, <1>2, Convert
    <3>3. \/ \E b : StoreBlocks(T, to) = <<b>> /\ Moved(n, to, b, T, to)
          \/ \E b, c, y : StoreBlocks(T, to) = <<b, c>> /\ Moved(n, to, b, T, y) /\ Moved(n, to, c, y, to)
      BY <1>1, <1>2, StoreRoute
    <3> HIDE DEF C, T
    <3>4. ASSUME NEW b, StoreBlocks(T, to) = <<b>>, Moved(n, to, b, T, to) PROVE Route(n, to, from, C)
      <4>1. C = <<a, b>>
        BY <3>1, <3>2, <3>4, OneAndOne
      <4> QED BY <3>2, <3>4, <4>1 DEF Route
    <3>5. ASSUME NEW b, NEW c, NEW y, StoreBlocks(T, to) = <<b, c>>,
                 Moved(n, to, b, T, y), Moved(n, to, c, y, to)
          PROVE  Route(n, to, from, C)
      <4>1. C = <<a, b, c>>
        BY <3>1, <3>2, <3>5, OneAndTwo
      <4> QED BY <3>2, <3>5, <4>1 DEF Route
    <3> QED BY <3>3, <3>4, <3>5
  <2> QED BY <2>2, <2>3
<1>4. CASE from.space = "xram" /\ to.space = "lram"
  <2>1. C = CreateLoadOp(from, to)
    BY <1>4 DEF CreateTorqCopy
  <2>2. ~TooManyStrides(ComputeStrides(from, IF IsDenseInMemory(to) THEN to ELSE T))
    <3>1. Sound(from, to) /\ from.shape = to.shape
      BY DEF Valid
    <3> QED BY <1>4, <3>1 DEF Sound
  <2>3. CASE IsDenseInMemory(to)
    <3> DEFINE a == Op("load", from, to, ComputeStrides(from, to))
    <3>1. C = <<a>>
      BY <2>1, <2>2, <2>3 DEF CreateLoadOp, LoadBlocks
    <3>2. Strides(ComputeStrides(from, to)) <= MaxDmaStrides
      BY <1>2, <2>2, <2>3, StridesAreNumbers
    <3>3. Moved(n, to, a, from, to)
      BY <1>2, <2>3, <3>2, Load
    <3> HIDE DEF C, a
    <3> QED BY <3>1, <3>3 DEF Route
  <2>4. CASE ~IsDenseInMemory(to)
    <3> DEFINE a == Op("load", from, T, ComputeStrides(from, T))
    <3>1. LoadBlocks(from, T) = <<a>>
      BY <2>2, <2>4 DEF LoadBlocks
    <3>2. C = LoadBlocks(from, T) \o ConvertOp(T, to)
      BY <1>2, <2>1, <2>4 DEF CreateLoadOp
    <3>3. PICK b : ConvertOp(T, to) = <<b>> /\ Moved(n, to, b, T, to)
      BY <1>1, <1>2, Convert
    <3>4. Strides(ComputeStrides(from, T)) <= MaxDmaStrides
      <4> HIDE DEF T
      <4> QED BY <1>1, <1>2, <2>2, <2>4, StridesAreNumbers
    <3>5. Moved(n, to, a, from, T)
      BY <1>1, <1>2, <3>4, Load
    <3> HIDE DEF C, a, T
    <3>6. C = <<a, b>>
      BY <3>1, <3>2, <3>3, OneAndOne
    <3> QED BY <3>3, <3>5, <3>6 DEF Route
  <2> QED BY <2>3, <2>4
<1>5. CASE from.space = "xram" /\ to.space = "xram"
  <2> DEFINE a == Op("host", from, to, ComputeStrides(from, to))
  <2>1. C = <<a>>
    BY <1>5 DEF CreateTorqCopy, HostCopyOp
  <2>2. Moved(n, to, a, from, to)
    BY <1>2, Host
  <2> HIDE DEF C, a
  <2> QED BY <2>1, <2>2 DEF Route
<1>6. CASE from.space = "lram" /\ to.space = "lram"
  <2>1. C = ConvertOp(from, to)
    BY <1>6 DEF CreateTorqCopy
  <2>2. PICK a : ConvertOp(from, to) = <<a>> /\ Moved(n, to, a, from, to)
    BY <1>2, Convert
  <2> HIDE DEF C
  <2> QED BY <2>1, <2>2 DEF Route
<1>7. CASE "dtcm" \in {from.space, to.space}
  <2> DEFINE a == Op("copy", from, to, [from |-> << >>, to |-> << >>, shape |-> << >>,
                                        size |-> DataSize(from)])
  <2>1. C = <<a>>
    BY <1>7 DEF CreateTorqCopy
  <2>2. Raw(from) /\ Raw(to)
    BY <1>7 DEF Valid
  <2>3. Moves(a) = Pairs(from, to)
    BY <1>2, <2>2, RawMoves
  <2>4. a.from = from /\ a.to = to /\ a.kind = "copy"
    BY DEF Op
  <2> HIDE DEF C, a
  <2>5. Moved(n, to, a, from, to)
    BY <1>2, <2>3, <2>4 DEF Moved, DmaFits
  <2> QED BY <2>1, <2>5 DEF Route
<1> HIDE DEF C
<1>8. \/ from.space = "lram" /\ to.space = "xram"
      \/ from.space = "xram" /\ to.space = "lram"
      \/ from.space = "xram" /\ to.space = "xram"
      \/ from.space = "lram" /\ to.space = "lram"
      \/ "dtcm" \in {from.space, to.space}
  <2>1. <<from.space, to.space>> \in Spaces
    BY DEF Valid
  <2> QED BY <2>1 DEF Spaces
<1> QED BY <1>3, <1>4, <1>5, <1>6, <1>7, <1>8
-----------------------------------------------------------------------------
(* The inductive invariant.                                                 *)
Contents(m, cell) == IF cell \in DOMAIN m THEN m[cell] ELSE cell

Holds(m, f, src) == \A idx \in Indices(f.shape) : Contents(m, Element(src, idx)) = Element(f, idx)

Rank == Len(from.shape)

CopyInv ==
  /\ Valid(Rank, from, to)
  /\ pc \in {"lower", "run", "done"}
  /\ pc # "run" => ops = << >>
  /\ pc = "lower" => Holds(mem, from, from)
  /\ pc = "run" => \E src : Route(Rank, to, src, ops) /\ Holds(mem, from, src)
  /\ pc = "done" => Holds(mem, from, to)
  /\ DOMAIN mem \subseteq Elements(to) \cup Temporary

LEMMA CopyInit ==
  ASSUME Included = {}, Init
  PROVE  CopyInv
PROOF
<1>1. PICK s \in Spaces :
        /\ from \in Memrefs(s[1], 0, "dtcm" \in {s[1], s[2]})
        /\ to \in Memrefs(s[2], Area, "dtcm" \in {s[1], s[2]})
        /\ from.shape = to.shape
        /\ Sound(from, to)
  BY DEF Init
<1> DEFINE raw == "dtcm" \in {s[1], s[2]}
<1>0. raw \in BOOLEAN /\ from \in Memrefs(s[1], 0, raw) /\ to \in Memrefs(s[2], Area, raw)
  BY <1>1
<1>a. raw <=> "dtcm" \in {s[1], s[2]}
  OBVIOUS
<1> HIDE DEF raw
<1>2. /\ Memref(Rank, from) /\ from.counts \in Counts /\ from.space = s[1]
      /\ raw => Raw(from)
  BY <1>0, MembersAreMemrefs DEF Rank
<1>3. /\ Memref(Rank, to) /\ to.space = s[2]
      /\ raw => Raw(to)
  <2>1. Area \in Nat
    BY Bounds
  <2>2. Memref(Len(to.shape), to) /\ to.space = s[2] /\ (raw => Raw(to))
    BY <1>0, <2>1, MembersAreMemrefs
  <2> QED BY <1>1, <2>2 DEF Rank
<1>4. /\ LayoutOffset(from) = 0 \/ HasDenseEncoding(from)
      /\ LayoutOffset(to) = 0 \/ HasDenseEncoding(to)
  BY <1>1 DEF Sound
<1>5. <<from.space, to.space>> = s
  BY <1>1, <1>2, <1>3 DEF Spaces
<1>6. Valid(Rank, from, to)
  BY <1>1, <1>a, <1>2, <1>3, <1>4, <1>5 DEF Valid, Right
<1>7. pc = "lower" /\ ops = << >> /\ mem = << >>
  BY DEF Init
<1>8. DOMAIN mem = {}
  BY <1>7
<1>9. Holds(mem, from, from)
  BY <1>8 DEF Holds, Contents
<1> QED BY <1>6, <1>7, <1>8, <1>9 DEF CopyInv

After(m, moves) ==
  [c \in DOMAIN m \cup {x[2] : x \in moves} |->
     IF c \in {x[2] : x \in moves}
     THEN Contents(m, (CHOOSE x \in moves : x[2] = c)[1]) ELSE m[c]]

(* Running an operation takes the data from its source to its destination   *)
(* and writes nothing else.                                                 *)
LEMMA RunMoves ==
  ASSUME NEW n, NEW o, NEW f, NEW src, NEW t, NEW end, Moved(n, end, o, src, t),
         f.shape = end.shape, NEW m, Holds(m, f, src), NEW after, after = After(m, Moves(o))
  PROVE  /\ Holds(after, f, t)
         /\ DOMAIN after = DOMAIN m \cup Elements(t)
PROOF
<1>1. /\ Right(n, src) /\ Right(n, t) /\ src.shape = t.shape /\ f.shape = t.shape
      /\ Moves(o) = Pairs(src, t)
  BY DEF Moved
<1>2. n \in Nat /\ t.shape \in [1 .. n -> Positive]
  BY <1>1 DEF Right, Memref, Positive
<1>3. Indices(t.shape) = Below(n, t.shape)
  BY <1>2, IndicesAreBelow
<1>4. Moves(o) = {<<Element(src, idx), Element(t, idx)>> : idx \in Indices(t.shape)}
  BY <1>1 DEF Pairs
<1> DEFINE W == {x[2] : x \in Moves(o)}
<1>5. W = Elements(t)
  <2>1. ASSUME NEW c \in W PROVE c \in Elements(t)
    <3>1. PICK x \in Moves(o) : c = x[2]
      OBVIOUS
    <3>2. PICK idx \in Indices(t.shape) : x = <<Element(src, idx), Element(t, idx)>>
      BY <1>4
    <3>3. c = Element(t, idx)
      BY <3>1, <3>2
    <3> QED BY <3>3 DEF Elements
  <2>2. ASSUME NEW c \in Elements(t) PROVE c \in W
    <3>1. PICK idx \in Indices(t.shape) : c = Element(t, idx)
      BY DEF Elements
    <3>2. <<Element(src, idx), c>> \in Moves(o)
      BY <1>4, <3>1
    <3>3. <<Element(src, idx), c>>[2] = c
      OBVIOUS
    <3> QED BY <3>2, <3>3
  <2> QED BY <2>1, <2>2
<1>10. after = [c \in DOMAIN m \cup W |->
                  IF c \in W
                  THEN Contents(m, (CHOOSE x \in Moves(o) : x[2] = c)[1]) ELSE m[c]]
  BY DEF After
<1> HIDE DEF W
<1>6. after = [c \in DOMAIN m \cup Elements(t) |->
                 IF c \in Elements(t)
                 THEN Contents(m, (CHOOSE x \in Moves(o) : x[2] = c)[1]) ELSE m[c]]
  BY <1>5, <1>10
<1>7. ASSUME NEW idx \in Indices(t.shape)
      PROVE  Contents(after, Element(t, idx)) = Element(f, idx)
  <2> DEFINE c == Element(t, idx)
             x == CHOOSE y \in Moves(o) : y[2] = c
  <2>1. c \in Elements(t)
    BY DEF Elements
  <2>2. <<Element(src, idx), c>> \in Moves(o)
    BY <1>4
  <2>3. x \in Moves(o) /\ x[2] = c
    BY <2>2
  <2>4. PICK g \in Indices(t.shape) : x = <<Element(src, g), Element(t, g)>>
    BY <1>4, <2>3
  <2>5. Element(t, g) = Element(t, idx)
    BY <2>3, <2>4
  <2>6. g = idx
    BY <1>1, <1>3, <2>4, <2>5, ElementInjective
  <2> HIDE DEF x
  <2>7. x[1] = Element(src, idx)
    BY <2>4, <2>6
  <2>8. after[c] = Contents(m, x[1]) /\ c \in DOMAIN after
    BY <1>6, <2>1 DEF x
  <2>9. Contents(m, Element(src, idx)) = Element(f, idx)
    BY <1>1 DEF Holds
  <2> QED BY <2>7, <2>8, <2>9 DEF Contents
<1>8. Holds(after, f, t)
  BY <1>1, <1>7 DEF Holds
<1> QED BY <1>6, <1>8

LEMMA RunStep ==
  ASSUME CopyInv, Run
  PROVE  CopyInv'
PROOF
<1>1. /\ pc = "run" /\ ops # << >> /\ pc' = "run" /\ from' = from /\ to' = to
      /\ ops' = Tail(ops)
      /\ mem' = After(mem, Moves(Head(ops)))
  BY DEF Run, Read, Contents, After
<1>2. Valid(Rank, from, to) /\ from.shape = to.shape
  BY DEF CopyInv, Valid
<1>3. PICK src : Route(Rank, to, src, ops) /\ Holds(mem, from, src)
  BY <1>1 DEF CopyInv
<1>4. PICK o, t : /\ Head(ops) = o /\ Moved(Rank, to, o, src, t)
                  /\ Route(Rank, to, t, Tail(ops))
  <2>1. ASSUME NEW a, ops = <<a>>, Moved(Rank, to, a, src, to)
        PROVE  Head(ops) = a /\ Route(Rank, to, to, Tail(ops))
    <3>1. Head(ops) = a /\ Tail(ops) = << >>
      BY <2>1
    <3> QED BY <3>1 DEF Route
  <2>2. ASSUME NEW a, NEW b, NEW x, ops = <<a, b>>, Moved(Rank, to, b, x, to)
        PROVE  Head(ops) = a /\ Route(Rank, to, x, Tail(ops))
    <3>1. Head(ops) = a /\ Tail(ops) = <<b>>
      BY <2>2
    <3> QED BY <2>2, <3>1 DEF Route
  <2>3. ASSUME NEW a, NEW b, NEW c, NEW x, NEW y, ops = <<a, b, c>>,
               Moved(Rank, to, b, x, y), Moved(Rank, to, c, y, to)
        PROVE  Head(ops) = a /\ Route(Rank, to, x, Tail(ops))
    <3>1. Head(ops) = a /\ Tail(ops) = <<b, c>>
      BY <2>3
    <3> QED BY <2>3, <3>1 DEF Route
  <2>4. \/ \E a : ops = <<a>> /\ Moved(Rank, to, a, src, to)
        \/ \E a, b, x : ops = <<a, b>> /\ Moved(Rank, to, a, src, x) /\ Moved(Rank, to, b, x, to)
        \/ \E a, b, c, x, y : /\ ops = <<a, b, c>>
                              /\ Moved(Rank, to, a, src, x)
                              /\ Moved(Rank, to, b, x, y)
                              /\ Moved(Rank, to, c, y, to)
    BY <1>1, <1>3 DEF Route
  <2> QED BY <2>1, <2>2, <2>3, <2>4
<1>5. Holds(mem', from, t) /\ DOMAIN mem' = DOMAIN mem \cup Elements(t)
  <2> DEFINE after == mem'
  <2>1. after = After(mem, Moves(o))
    BY <1>1, <1>4
  <2> HIDE DEF after
  <2>2. Holds(after, from, t) /\ DOMAIN after = DOMAIN mem \cup Elements(t)
    BY <1>2, <1>3, <1>4, <2>1, RunMoves
  <2> QED BY <2>2 DEF after
<1>6. Elements(t) \subseteq Elements(to) \cup Temporary
  BY <1>4 DEF Moved
<1>7. DOMAIN mem' \subseteq Elements(to) \cup Temporary
  BY <1>5, <1>6 DEF CopyInv
<1>8. Rank' = Rank
  BY <1>1 DEF Rank
<1>9. Route(Rank', to', t, ops') /\ Holds(mem', from', t)
  BY <1>1, <1>4, <1>5, <1>8
<1> QED BY <1>1, <1>2, <1>7, <1>8, <1>9 DEF CopyInv

LEMMA CopyStep ==
  ASSUME Included = {}, CopyInv, [Next]_vars
  PROVE  CopyInv'
PROOF
<1>1. CASE Lower
  <2>1. /\ pc = "lower" /\ pc' = "run" /\ from' = from /\ to' = to /\ mem' = mem
        /\ ops' = CreateTorqCopy(from, to) /\ Rank' = Rank
    BY <1>1 DEF Lower, Rank
  <2>2. Valid(Rank, from, to) /\ Holds(mem, from, from) /\ DOMAIN mem \subseteq Elements(to) \cup Temporary
    BY <2>1 DEF CopyInv
  <2>3. Route(Rank, to, from, CreateTorqCopy(from, to))
    BY <2>2, Lowered
  <2>4. Route(Rank', to', from', ops') /\ Holds(mem', from', from')
    BY <2>1, <2>2, <2>3
  <2> QED BY <2>1, <2>2, <2>4 DEF CopyInv
<1>2. CASE Run
  BY <1>2, RunStep
<1>3. CASE Done
  <2>1. /\ pc = "run" /\ ops = << >> /\ pc' = "done" /\ from' = from /\ to' = to
        /\ mem' = mem /\ ops' = << >> /\ Rank' = Rank
    BY <1>3 DEF Done, Rank
  <2>2. PICK src : Route(Rank, to, src, << >>) /\ Holds(mem, from, src)
    BY <2>1 DEF CopyInv
  <2>3. src = to
    BY <2>2 DEF Route
  <2> QED BY <2>1, <2>2, <2>3 DEF CopyInv
<1>4. CASE UNCHANGED vars
  <2>1. from' = from /\ to' = to /\ ops' = ops /\ pc' = pc /\ mem' = mem /\ Rank' = Rank
    BY <1>4 DEF vars, Rank
  <2> QED BY <2>1 DEF CopyInv
<1> QED BY <1>1, <1>2, <1>3, <1>4 DEF Next
LEMMA CopyAlways ==
  ASSUME Included = {}
  PROVE  Spec => []CopyInv
PROOF
<1>1. Init => CopyInv
  BY CopyInit
<1>2. CopyInv /\ [Next]_vars => CopyInv'
  BY CopyStep
<1> QED BY <1>1, <1>2, PTL DEF Spec

LEMMA InvArrives ==
  ASSUME CopyInv
  PROVE  CopyArrives
PROOF
BY DEF CopyInv, CopyArrives, Holds, Contents, Read

(* A move pairs each element of its source with one of its destination.     *)
LEMMA BelowIsFinite ==
  ASSUME NEW n \in Nat, NEW shape \in [1 .. n -> Positive]
  PROVE  IsFiniteSet(Below(n, shape))
PROOF
<1> DEFINE N == Naturals(n, shape)
           D == Below(n, shape)
           P == Product(shape, 1)
           h == [g \in D |-> DotFrom(g, N, 1)]
<1>1. N \in [1 .. n -> Nat] /\ Wide(n, N, shape) /\ 1 \in 1 .. n + 1 /\ P \in Nat
  <2>1. N \in [1 .. n -> Nat] /\ Wide(n, N, shape) /\ 1 \in 1 .. n + 1
    BY NaturalIsWide, SMTT(30) DEF Wide
  <2>2. P \in Positive
    BY <2>1, NaturalIsWide
  <2> QED BY <2>1, <2>2 DEF Positive
<1> HIDE DEF N
<1>2. ASSUME NEW g \in D PROVE DotFrom(g, N, 1) \in 0 .. P
  <2>1. g \in [1 .. n -> Nat]
    BY DEF Below
  <2>2. DotFrom(g, N, 1) \in Nat
    BY <1>1, <2>1, Dots
  <2>3. CASE n = 0
    <3>1. DotFrom(g, N, n + 1) = 0
      BY <1>1, <2>1, Dots, Zenon
    <3> QED BY <1>1, <2>3, <3>1
  <2>4. CASE n # 0
    <3>1. 1 \in 1 .. n
      BY <2>4
    <3>2. DotFrom(g, N, 1) < shape[1] * N[1]
      BY <1>1, <3>1, Extent
    <3>3. P = shape[1] * N[1]
      BY <3>1, NaturalIsWide, Zenon DEF N
    <3> QED BY <1>1, <2>2, <3>2, <3>3
  <2> QED BY <2>3, <2>4
<1>3. \A g, k \in D : DotFrom(g, N, 1) = DotFrom(k, N, 1) => g = k
  BY <1>1, DotInjective
<1> HIDE DEF D
<1>4. h \in Injection(D, 0 .. P)
  BY <1>2, <1>3 DEF Injection, IsInjective
<1>5. IsFiniteSet(0 .. P)
  BY <1>1, FS_Interval
<1> HIDE DEF h
<1>6. IsFiniteSet(D)
  BY <1>4, <1>5, FS_Injection
<1> QED BY <1>6 DEF D

LEMMA AsMany ==
  ASSUME NEW D, IsFiniteSet(D), NEW h, h = [g \in D |-> h[g]],
         \A g, k \in D : h[g] = h[k] => g = k
  PROVE  Cardinality({h[g] : g \in D}) = Cardinality(D)
PROOF
<1> DEFINE T == {h[g] : g \in D}
<1>1. h \in [D -> T]
  BY Zenon
<1>2. \A x \in T : \E g \in D : h[g] = x
  OBVIOUS
<1> HIDE DEF T
<1>3. h \in Bijection(D, T)
  BY <1>1, <1>2, Fun_IsBij
<1>4. ExistsBijection(D, T)
  BY <1>3 DEF ExistsBijection
<1>5. Cardinality(T) = Cardinality(D)
  BY <1>4, FS_Bijection
<1> QED BY <1>5 DEF T

LEMMA MovesAreAsMany ==
  ASSUME NEW n, NEW end, NEW o, Moved(n, end, o, o.from, o.to)
  PROVE  /\ {m[1] : m \in Moves(o)} = Elements(o.from)
         /\ {m[2] : m \in Moves(o)} = Elements(o.to)
         /\ Cardinality(Moves(o)) = Cardinality(Elements(o.from))
         /\ Cardinality(Moves(o)) = Cardinality(Elements(o.to))
PROOF
<1> DEFINE f == o.from
           t == o.to
           D == Below(n, t.shape)
           F == [g \in D |-> Element(f, g)]
           T == [g \in D |-> Element(t, g)]
           B == [g \in D |-> <<F[g], T[g]>>]
<1>1. /\ Right(n, f) /\ Right(n, t) /\ f.shape = t.shape /\ Moves(o) = Pairs(f, t)
  BY DEF Moved
<1>2. n \in Nat /\ t.shape \in [1 .. n -> Positive]
  BY <1>1 DEF Right, Memref, Positive
<1>3. Indices(t.shape) = D /\ IsFiniteSet(D)
  BY <1>2, IndicesAreBelow, BelowIsFinite
<1>4. \A g, k \in D : F[g] = F[k] => g = k
  BY <1>1, ElementInjective
<1>5. \A g, k \in D : T[g] = T[k] => g = k
  BY <1>1, ElementInjective
<1> HIDE DEF D
<1>6. \A g \in D : B[g] = <<F[g], T[g]>> /\ B[g][1] = F[g] /\ B[g][2] = T[g]
  OBVIOUS
<1>7. \A g, k \in D : B[g] = B[k] => g = k
  BY <1>4, <1>6
<1>8. /\ Elements(f) = {F[g] : g \in D}
      /\ Elements(t) = {T[g] : g \in D}
      /\ Moves(o) = {B[g] : g \in D}
  BY <1>1, <1>3 DEF Elements, Pairs
<1>9. F = [g \in D |-> F[g]] /\ T = [g \in D |-> T[g]] /\ B = [g \in D |-> B[g]]
  OBVIOUS
<1> HIDE DEF F, T, B
<1>10. /\ Cardinality(Elements(f)) = Cardinality(D)
       /\ Cardinality(Elements(t)) = Cardinality(D)
       /\ Cardinality(Moves(o)) = Cardinality(D)
  <2>1. Cardinality({F[g] : g \in D}) = Cardinality(D)
    BY <1>3, <1>4, <1>9, AsMany
  <2>2. Cardinality({T[g] : g \in D}) = Cardinality(D)
    BY <1>3, <1>5, <1>9, AsMany
  <2>3. Cardinality({B[g] : g \in D}) = Cardinality(D)
    BY <1>3, <1>7, <1>9, AsMany
  <2> QED BY <1>8, <2>1, <2>2, <2>3
<1>11. {m[1] : m \in Moves(o)} = {F[g] : g \in D} /\ {m[2] : m \in Moves(o)} = {T[g] : g \in D}
  BY <1>6, <1>8
<1> QED BY <1>8, <1>10, <1>11

LEMMA InvIsPossible ==
  ASSUME CopyInv
  PROVE  DmaIsPossible
PROOF
<1> SUFFICES ASSUME NEW i \in DOMAIN ops, ops[i].kind \in {"load", "store"}
             PROVE  LET o == ops[i]
                        lram == IF o.kind = "load" THEN o.to ELSE o.from
                    IN  /\ Strides(o.blocks) <= MaxDmaStrides
                        /\ Cardinality(Moves(o)) = Cardinality(Elements(lram))
                        /\ {IF o.kind = "load" THEN m[2] ELSE m[1] : m \in Moves(o)}
                             = Elements(lram)
  BY DEF DmaIsPossible
<1>1. PICK o : o = ops[i]
  OBVIOUS
<1>2. Moved(Rank, to, o, o.from, o.to)
  <2>1. ops # << >>
    OBVIOUS
  <2>2. PICK src : Route(Rank, to, src, ops)
    BY <2>1 DEF CopyInv
  <2>3. \E x, y : Moved(Rank, to, o, x, y)
    <3>1. ASSUME NEW a, ops = <<a>>, Moved(Rank, to, a, src, to)
          PROVE  \E x, y : Moved(Rank, to, o, x, y)
      <4>1. o = a
        BY <1>1, <3>1
      <4> QED BY <3>1, <4>1
    <3>2. ASSUME NEW a, NEW b, NEW x, ops = <<a, b>>, Moved(Rank, to, a, src, x), Moved(Rank, to, b, x, to)
          PROVE  \E y, z : Moved(Rank, to, o, y, z)
      <4>1. o = a \/ o = b
        BY <1>1, <3>2
      <4> QED BY <3>2, <4>1
    <3>3. ASSUME NEW a, NEW b, NEW c, NEW x, NEW y, ops = <<a, b, c>>, Moved(Rank, to, a, src, x),
                 Moved(Rank, to, b, x, y), Moved(Rank, to, c, y, to)
          PROVE  \E z, w : Moved(Rank, to, o, z, w)
      <4>1. o = a \/ o = b \/ o = c
        BY <1>1, <3>3
      <4> QED BY <3>3, <4>1
    <3> QED BY <2>1, <2>2, <3>1, <3>2, <3>3 DEF Route
  <2> QED BY <2>3 DEF Moved
<1>3. /\ {m[1] : m \in Moves(o)} = Elements(o.from)
      /\ {m[2] : m \in Moves(o)} = Elements(o.to)
      /\ Cardinality(Moves(o)) = Cardinality(Elements(o.from))
      /\ Cardinality(Moves(o)) = Cardinality(Elements(o.to))
  BY <1>2, MovesAreAsMany
<1>4. Strides(o.blocks) <= MaxDmaStrides
  BY <1>1, <1>2 DEF Moved, DmaFits
<1>5. CASE o.kind = "load"
  BY <1>1, <1>3, <1>4, <1>5
<1>6. CASE o.kind # "load"
  BY <1>1, <1>3, <1>4, <1>6
<1> QED BY <1>5, <1>6

(***************************************************************************)
(* The properties.  For the first three the copies the code gets wrong are  *)
(* left out.                                                                *)
(***************************************************************************)

(* createTorqCopy: the destination holds the source's elements, whatever    *)
(* the rank, the layouts and the number of strides of a DMA.                *)
THEOREM CopyArrivesAlways ==
  ASSUME Included = {}
  PROVE  Spec => []CopyArrives
PROOF
<1>1. CopyInv => CopyArrives
  BY InvArrives
<1> QED BY <1>1, CopyAlways, PTL

(* createTorqCopy: nothing but the destination's elements and the temporary *)
(* buffers of the copy is written.                                          *)
THEOREM OnlyDestinationChangesAlways ==
  ASSUME Included = {}
  PROVE  Spec => []OnlyDestinationChanges
PROOF
<1>1. CopyInv => OnlyDestinationChanges
  BY DEF CopyInv, OnlyDestinationChanges
<1> QED BY <1>1, CopyAlways, PTL

(* createLoadOp, createStoreOp: the DMA has no more strides than it can do  *)
(* and reads or writes all of its LRAM side and nothing else.               *)
THEOREM DmaIsPossibleAlways ==
  ASSUME Included = {}
  PROVE  Spec => []DmaIsPossible
PROOF
<1>1. CopyInv => DmaIsPossible
  BY InvIsPossible
<1> QED BY <1>1, CopyAlways, PTL

(* Both ends of a copy are views of buffers, whatever is included.         *)
PartInv == Memref(Len(from.shape), from) /\ Memref(Len(to.shape), to)

(* getEncodedTotalSizeElements: the size of a part of a dense buffer covers *)
(* the part and stays in the buffer, for all the copies of the model.       *)
THEOREM SizeCoversThePartAlways == Spec => []SizeCoversThePart
PROOF
<1>1. Init => PartInv
  <2> SUFFICES ASSUME Init PROVE PartInv
    OBVIOUS
  <2>1. PICK s \in Spaces : /\ from \in Memrefs(s[1], 0, "dtcm" \in {s[1], s[2]})
                            /\ to \in Memrefs(s[2], Area, "dtcm" \in {s[1], s[2]})
    BY DEF Init
  <2> DEFINE raw == "dtcm" \in {s[1], s[2]}
  <2>2. Area \in Nat /\ raw \in BOOLEAN
    BY Bounds
  <2>3. from \in Memrefs(s[1], 0, raw) /\ to \in Memrefs(s[2], Area, raw)
    BY <2>1
  <2> HIDE DEF raw
  <2> QED BY <2>2, <2>3, MembersAreMemrefs DEF PartInv
<1>2. PartInv /\ [Next]_vars => PartInv'
  <2> SUFFICES ASSUME PartInv, [Next]_vars PROVE PartInv'
    OBVIOUS
  <2>1. from' = from /\ to' = to
    BY DEF Next, Lower, Run, Done, vars
  <2> QED BY <2>1 DEF PartInv
<1>3. PartInv => SizeCoversThePart
  BY PartSize DEF PartInv, SizeCoversThePart
<1> QED BY <1>1, <1>2, <1>3, PTL DEF Spec
=============================================================================
