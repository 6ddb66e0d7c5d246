-------------------------- MODULE TorqAddressProofs --------------------------
(***************************************************************************)
(* Proofs about the addresses of TorqPipeline: AssignAddressesPass gives    *)
(* every buffer, binding and code section one, OutlineNSSProgramsPass keeps *)
(* what the host defines in the function, Serialize computes a footprint    *)
(* that has all of it, and so the run reaches nothing of XRAM outside       *)
(* (NSS programs aside, see ProgramsAreMapped): XramInv.                    *)
(***************************************************************************)
EXTENDS TorqPipelineProofs

-----------------------------------------------------------------------------
(* Addresses are natural numbers. *)
Naturals(f) == \A x \in DOMAIN f : f[x] \in Nat

(* The state of AssignAddressesPass after m operations of s. *)
Placing(acc) ==
  /\ DOMAIN acc = {"used", "next", "at", "ok"}
  /\ acc.next \in Nat
  /\ Naturals(acc.at)

PlacedTo(acc, s, m) ==
  /\ Placing(acc)
  /\ acc.ok => \A i \in 1 .. m : \A d \in Defs(s[i]) : Key(d) \in DOMAIN acc.at

NothingPlaced ==
  [used |-> [lram |-> Reserved, dtcm |-> {}, itcm |-> {}], next |-> 0, at |-> << >>, ok |-> TRUE]

(* Every buffer, binding and section of the function has an address. *)
Addressed(s, ad) ==
  /\ Naturals(ad)
  /\ NextFreeXram \in DOMAIN ad
  /\ \A i \in 1 .. Len(s) : \A d \in Defs(s[i]) : Key(d) \in DOMAIN ad

(* What OutlineNSSProgramsPass adds, for n programs. *)
NssOwn(op, n) ==
  /\ \A v \in Operands(op) : v.base[2] = "nss" \/ v.sp = "lram"
  /\ op.k \notin {"alloc", "binding"}
  /\ op.k = "inv" => op.ex = "nss" /\ \E i \in 0 .. n - 1 : op.code = <<NssSection(i)>>

(* The operands of an operation are in memories that an operation defines,  *)
(* before or after it. *)
Covered(s) ==
  \A i \in 1 .. Len(s) : s[i].k # "inv" =>
    \A v \in Operands(s[i]) : \E a \in 1 .. Len(s) : \E d \in Defs(s[a]) : Covers(d, v)

(* What is defined has an address, and an NSS section is of a program. *)
Located(h, pr, ad) ==
  /\ h \in Seq(SomeOp)
  /\ Naturals(ad) /\ NextFreeXram \in DOMAIN ad
  /\ \A k \in 1 .. Len(h) : h[k].k \in {"alloc", "binding"} => Key(h[k].res) \in DOMAIN ad
  /\ \A k \in 1 .. Len(h) : h[k].k = "inv" =>
       /\ h[k].ex \in {"css", "slice", "nss"} \/ h[k].code = << >>
       /\ \A v \in Range(h[k].code) :
            /\ Key(v) \in DOMAIN ad /\ v.sp = "xram"
            /\ v.base[2] = "nss" => v.base[1] + 1 \in 1 .. Len(pr)

(* What the host and the NSS reach in XRAM, but for NSS programs, is        *)
(* defined in the function.                                                 *)
StepsCovered(h, pr) ==
  \A x \in RunSteps(h, pr) : (x[2] = 0 => RunOp(h, pr, x).k # "inv") =>
    \A v \in XramOf(RunOp(h, pr, x)) : v.base[2] # "nss" =>
      \E k \in 1 .. Len(h) : \E d \in Defs(h[k]) : Covers(d, v)

(* A footprint, one that is in another, and z words at a in one. *)
Spans(acc) == acc.lo \in Nat /\ acc.hi \in Nat
Widens(acc, r) == Spans(r) /\ r.lo <= acc.lo /\ acc.hi <= r.hi
Reaching(acc, a, z) == acc.lo <= a /\ a + z <= acc.hi

(* What the host and the NSS do in the run reaches the footprint only. *)
RunMapped ==
  \A x \in RunSteps(ir, progs) :
    \A v \in XramOf(RunOp(ir, progs, x)) : v.base[2] # "nss" => InFootprint(v)

(* The invariant: what each pass leaves the next one, for the addresses.   *)
XramInv ==
  /\ BufferInv
  /\ stage \in {"assign", "outlineNSS"} => Covered(ir)
  /\ stage = "outlineNSS" => Addressed(ir, addr)
  /\ stage = "serialize" => Located(ir, progs, addr) /\ StepsCovered(ir, progs)
  /\ stage \in {"run", "done"} => RunMapped

-----------------------------------------------------------------------------
(* Addresses are natural numbers, for all that is defined.                  *)

(* The recursive function of the fold over the sections of an invocation    *)
(* exists. *)
LEMMA XramSteps ==
  ASSUME NEW n \in Nat, NEW s, NEW base
  PROVE  \E f : f = [i \in 0 .. n |-> IF i = 0 THEN base ELSE PlaceInXram(f[i - 1], s[i])]
PROOF
<1> DEFINE R(g, m) == g = [i \in 0 .. m |-> IF i = 0 THEN base ELSE PlaceInXram(g[i - 1], s[i])]
           T == {m \in Nat : \E g : R(g, m)}
<1>0. \E f : R(f, n)
  <2>1. 0 \in T
    <3>1. R([i \in 0 .. 0 |-> base], 0)
      OBVIOUS
    <3> QED BY <3>1
  <2>2. ASSUME NEW m \in Nat, m \in T PROVE m + 1 \in T
    <3>1. PICK g : R(g, m)
      BY <2>2
    <3>2. \A i \in 0 .. m : g[i] = IF i = 0 THEN base ELSE PlaceInXram(g[i - 1], s[i])
      BY <3>1
    <3> HIDE DEF R
    <3> DEFINE h == [i \in 0 .. m + 1 |-> IF i <= m THEN g[i] ELSE PlaceInXram(g[m], s[m + 1])]
    <3>3. ASSUME NEW i \in 0 .. m + 1
          PROVE  h[i] = IF i = 0 THEN base ELSE PlaceInXram(h[i - 1], s[i])
      <4>1. CASE i <= m
        <5>1. h[i] = g[i] /\ (i # 0 => h[i - 1] = g[i - 1])
          BY <4>1
        <5>2. g[i] = IF i = 0 THEN base ELSE PlaceInXram(g[i - 1], s[i])
          BY <3>2, <4>1
        <5> HIDE DEF h
        <5> QED BY <5>1, <5>2
      <4>2. CASE i = m + 1
        BY <4>2
      <4> QED BY <4>1, <4>2
    <3>4. R(h, m + 1)
      <4>1. h = [i \in 0 .. m + 1 |-> h[i]]
        OBVIOUS
      <4> HIDE DEF h
      <4> QED BY <3>3, <4>1 DEF R
    <3> HIDE DEF h
    <3> QED BY <3>4
  <2>3. n \in T
    <3> HIDE DEF T
    <3> QED BY <2>1, <2>2, NatSet
  <2> QED BY <2>3
<1> QED BY <1>0

(* That of the fold in AssignAddressesPass exists. *)
LEMMA PlaceSteps ==
  ASSUME NEW n \in Nat, NEW s
  PROVE  \E f : f = [i \in 0 .. n |-> IF i = 0 THEN NothingPlaced ELSE PlaceIfOk(f[i - 1], s[i])]
PROOF
<1> DEFINE R(g, m) == g = [i \in 0 .. m |-> IF i = 0 THEN NothingPlaced ELSE PlaceIfOk(g[i - 1], s[i])]
           T == {m \in Nat : \E g : R(g, m)}
<1>0. \E f : R(f, n)
  <2>1. 0 \in T
    <3>1. R([i \in 0 .. 0 |-> NothingPlaced], 0)
      OBVIOUS
    <3> QED BY <3>1
  <2>2. ASSUME NEW m \in Nat, m \in T PROVE m + 1 \in T
    <3>1. PICK g : R(g, m)
      BY <2>2
    <3>2. \A i \in 0 .. m : g[i] = IF i = 0 THEN NothingPlaced ELSE PlaceIfOk(g[i - 1], s[i])
      BY <3>1
    <3> HIDE DEF R
    <3> DEFINE h == [i \in 0 .. m + 1 |-> IF i <= m THEN g[i] ELSE PlaceIfOk(g[m], s[m + 1])]
    <3>3. ASSUME NEW i \in 0 .. m + 1
          PROVE  h[i] = IF i = 0 THEN NothingPlaced ELSE PlaceIfOk(h[i - 1], s[i])
      <4>1. CASE i <= m
        <5>1. h[i] = g[i] /\ (i # 0 => h[i - 1] = g[i - 1])
          BY <4>1
        <5>2. g[i] = IF i = 0 THEN NothingPlaced ELSE PlaceIfOk(g[i - 1], s[i])
          BY <3>2, <4>1
        <5> HIDE DEF h
        <5> QED BY <5>1, <5>2
      <4>2. CASE i = m + 1
        BY <4>2
      <4> QED BY <4>1, <4>2
    <3>4. R(h, m + 1)
      <4>1. h = [i \in 0 .. m + 1 |-> h[i]]
        OBVIOUS
      <4> HIDE DEF h
      <4> QED BY <3>3, <4>1 DEF R
    <3> HIDE DEF h
    <3> QED BY <3>4
  <2>3. n \in T
    <3> HIDE DEF T
    <3> QED BY <2>1, <2>2, NatSet
  <2> QED BY <2>3
<1> QED BY <1>0

(* A map with one more key. *)
LEMMA WithOne ==
  ASSUME NEW f, Naturals(f), NEW v, NEW p \in Nat
  PROVE  /\ Naturals(With(f, At(v, p)))
         /\ DOMAIN With(f, At(v, p)) = DOMAIN f \cup {Key(v)}
PROOF
<1> DEFINE g == At(v, p)
           h == With(f, g)
<1>1. DOMAIN g = {Key(v)} /\ \A x \in DOMAIN g : g[x] = p
  BY DEF At
<1> HIDE DEF g
<1>2. h = [x \in DOMAIN f \cup DOMAIN g |-> IF x \in DOMAIN f THEN f[x] ELSE g[x]]
  BY DEF With
<1>3. DOMAIN h = DOMAIN f \cup {Key(v)} /\ \A x \in DOMAIN h : h[x] \in Nat
  BY <1>1, <1>2 DEF Naturals
<1> HIDE DEF h
<1> QED BY <1>3 DEF Naturals, g, h

(* A value gets the next address in XRAM. *)
LEMMA XramPlaces ==
  ASSUME NEW acc, Placing(acc), NEW v \in Value
  PROVE  LET r == PlaceInXram(acc, v)
         IN  /\ Placing(r) /\ r.ok = acc.ok
             /\ DOMAIN r.at = DOMAIN acc.at \cup {Key(v)}
PROOF
<1> DEFINE r == PlaceInXram(acc, v)
           w == With(acc.at, At(v, acc.next))
<1>1. Naturals(w) /\ DOMAIN w = DOMAIN acc.at \cup {Key(v)}
  BY WithOne DEF Placing
<1>2. r = [acc EXCEPT !.next = @ + v.sz, !.at = w]
  BY DEF PlaceInXram
<1> HIDE DEF w
<1>3. v.sz \in Nat
  BY DEF Value
<1>4. DOMAIN acc = {"used", "next", "at", "ok"} /\ acc.next \in Nat
  BY DEF Placing
<1> HIDE DEF r
<1>5. DOMAIN r = DOMAIN acc /\ r.next = acc.next + v.sz /\ r.at = w /\ r.ok = acc.ok
  BY <1>2, <1>4
<1>6. Placing(r) /\ r.ok = acc.ok /\ DOMAIN r.at = DOMAIN acc.at \cup {Key(v)}
  BY <1>1, <1>3, <1>4, <1>5 DEF Placing
<1> QED BY <1>6 DEF r

(* A buffer of a pool gets an address, or the pass ends. *)
LEMMA PoolPlaces ==
  ASSUME NEW acc, Placing(acc), NEW v \in Value
  PROVE  LET r == PlaceInPool(acc, v)
         IN  /\ Placing(r)
             /\ r.ok => acc.ok /\ DOMAIN r.at = DOMAIN acc.at \cup {Key(v)}
PROOF
<1> DEFINE r == PlaceInPool(acc, v)
           fits == Fits(acc.used[v.sp], v.sz)
<1>4. DOMAIN acc = {"used", "next", "at", "ok"} /\ acc.next \in Nat /\ Naturals(acc.at)
  BY DEF Placing
<1>1. CASE fits = {}
  <2>1. r = [acc EXCEPT !.ok = FALSE]
    BY <1>1 DEF PlaceInPool
  <2> HIDE DEF r
  <2>2. DOMAIN r = DOMAIN acc /\ r.next = acc.next /\ r.at = acc.at /\ ~r.ok
    BY <2>1, <1>4
  <2> QED BY <1>4, <2>2 DEF Placing, r
<1>2. CASE fits # {}
  <2>1. fits \subseteq Nat
    BY DEF Fits
  <2> DEFINE p == Min(fits)
             w == With(acc.at, At(v, p))
             u == acc.used[v.sp] \cup BlockAt(p, v)
  <2>2. p \in Nat
    <3> HIDE DEF fits
    <3> QED BY <1>2, <2>1, LeastOf
  <2>3. r = [acc EXCEPT !.used = [acc.used EXCEPT ![v.sp] = u], !.at = w]
    BY <1>2 DEF PlaceInPool
  <2> HIDE DEF p, u
  <2>4. Naturals(w) /\ DOMAIN w = DOMAIN acc.at \cup {Key(v)}
    BY <1>4, <2>2, WithOne
  <2> HIDE DEF r, w
  <2>5. DOMAIN r = DOMAIN acc /\ r.next = acc.next /\ r.at = w /\ r.ok = acc.ok
    BY <1>4, <2>3
  <2>6. Placing(r) /\ (r.ok => acc.ok /\ DOMAIN r.at = DOMAIN acc.at \cup {Key(v)})
    BY <1>4, <2>4, <2>5 DEF Placing
  <2> QED BY <2>6 DEF r
<1> QED BY <1>1, <1>2

(* The sections of an invocation get addresses. *)
LEMMA SectionsPlaced ==
  ASSUME NEW base, Placing(base), NEW s \in Seq(Value)
  PROVE  LET r == Fold(PlaceInXram, base, s)
         IN  /\ Placing(r) /\ r.ok = base.ok
             /\ DOMAIN base.at \subseteq DOMAIN r.at
             /\ \A i \in 1 .. Len(s) : Key(s[i]) \in DOMAIN r.at
PROOF
<1> DEFINE n == Len(s)
           R(g) == g = [i \in 0 .. n |-> IF i = 0 THEN base ELSE PlaceInXram(g[i - 1], s[i])]
           f == CHOOSE g : R(g)
<1>1. n \in Nat /\ \A i \in 1 .. n : s[i] \in Value
  BY ElementOfSeq
<1>2. Fold(PlaceInXram, base, s) = f[n]
  BY DEF Fold
<1>3. R(f)
  BY <1>1, XramSteps
<1>4. \A i \in 0 .. n : f[i] = IF i = 0 THEN base ELSE PlaceInXram(f[i - 1], s[i])
  <2> HIDE DEF f
  <2> QED BY <1>3
<1> HIDE DEF f, R, n
<1> DEFINE P(m) == /\ Placing(f[m]) /\ f[m].ok = base.ok
                   /\ DOMAIN base.at \subseteq DOMAIN f[m].at
                   /\ \A i \in 1 .. m : Key(s[i]) \in DOMAIN f[m].at
           T == {m \in 0 .. n : P(m)}
<1>5. 0 \in T
  BY <1>1, <1>4
<1>6. \A m \in 0 .. n - 1 : m \in T => m + 1 \in T
  <2> SUFFICES ASSUME NEW m \in 0 .. n - 1, m \in T PROVE m + 1 \in T
    OBVIOUS
  <2>1. m \in Nat /\ m + 1 \in 1 .. n /\ m + 1 \in 0 .. n /\ m + 1 # 0 /\ (m + 1) - 1 = m
    BY <1>1
  <2>2. f[m + 1] = PlaceInXram(f[m], s[m + 1])
    BY <1>4, <2>1
  <2>3. P(m)
    OBVIOUS
  <2> DEFINE r == PlaceInXram(f[m], s[m + 1])
  <2>4. Placing(r) /\ r.ok = f[m].ok /\ DOMAIN r.at = DOMAIN f[m].at \cup {Key(s[m + 1])}
    BY <1>1, <2>1, <2>3, XramPlaces
  <2> HIDE DEF r
  <2>5. \A i \in 1 .. m + 1 : i \in 1 .. m \/ i = m + 1
    BY <2>1
  <2>6. f[m + 1] = r
    BY <2>2 DEF r
  <2>7. P(m + 1)
    BY <2>3, <2>4, <2>5, <2>6
  <2> QED BY <2>1, <2>7
<1>7. n \in 0 .. n /\ 0 .. n \subseteq T
  <2> HIDE DEF T
  <2> QED BY <1>1, <1>5, <1>6, UpTo
<1>8. P(n)
  BY <1>7
<1> QED BY <1>2, <1>8 DEF n

(* One more operation. *)
LEMMA PlacedMore ==
  ASSUME NEW acc, NEW s, NEW m \in Nat, PlacedTo(acc, s, m), Lower(s[m + 1])
  PROVE  PlacedTo(PlaceIfOk(acc, s[m + 1]), s, m + 1)
PROOF
<1> DEFINE op == s[m + 1]
           r == PlaceIfOk(acc, op)
<1>1. Placing(acc) /\ op \in SomeOp /\ Shape(op) /\ op.k \in LoweredKinds
  BY DEF PlacedTo, Lower
<1>2. op.res \in Value /\ op.code \in Seq(Value)
  BY <1>1 DEF SomeOp
<1>3. SUFFICES /\ Placing(r)
               /\ r.ok => /\ acc.ok /\ DOMAIN acc.at \subseteq DOMAIN r.at
                          /\ \A d \in Defs(op) : Key(d) \in DOMAIN r.at
  <2>1. \A i \in 1 .. m + 1 : i \in 1 .. m \/ i = m + 1
    OBVIOUS
  <2> HIDE DEF r
  <2>2. ASSUME r.ok, NEW i \in 1 .. m + 1, NEW d \in Defs(s[i]) PROVE Key(d) \in DOMAIN r.at
    <3>1. CASE i \in 1 .. m
      BY <1>3, <2>2, <3>1 DEF PlacedTo
    <3>2. CASE i = m + 1
      BY <1>3, <2>2, <3>2
    <3> QED BY <2>1, <3>1, <3>2
  <2>3. PlacedTo(r, s, m + 1)
    BY <1>3, <2>2 DEF PlacedTo
  <2> QED BY <2>3 DEF r
<1> HIDE DEF op, Value
<1>4. CASE ~acc.ok
  BY <1>1, <1>4 DEF PlaceIfOk
<1>5. CASE acc.ok
  <2>0. r = Place(acc, op)
    BY <1>5 DEF PlaceIfOk
  <2> HIDE DEF r
  <2>1. CASE op.k = "inv"
    <3> DEFINE q == Fold(PlaceInXram, acc, op.code)
    <3>1. /\ Placing(q) /\ q.ok = acc.ok /\ DOMAIN acc.at \subseteq DOMAIN q.at
          /\ \A i \in 1 .. Len(op.code) : Key(op.code[i]) \in DOMAIN q.at
      BY <1>1, <1>2, SectionsPlaced
    <3>2. r = q
      BY <2>0, <2>1 DEF Place
    <3> HIDE DEF q
    <3>3. Defs(op) = Range(op.code)
      BY <2>1 DEF Defs
    <3>4. \A d \in Range(op.code) : \E i \in 1 .. Len(op.code) : d = op.code[i]
      BY <1>2 DEF Range
    <3> QED BY <1>5, <3>1, <3>2, <3>3, <3>4
  <2>2. CASE op.k = "binding" \/ (op.k = "alloc" /\ op.res.sp = "xram")
    <3> DEFINE q == PlaceInXram(acc, op.res)
    <3>1. Placing(q) /\ q.ok = acc.ok /\ DOMAIN q.at = DOMAIN acc.at \cup {Key(op.res)}
      BY <1>1, <1>2, XramPlaces
    <3>2. r = q
      BY <2>0, <2>2 DEF Place
    <3> HIDE DEF q
    <3>3. Defs(op) = {op.res}
      BY <2>2 DEF Defs
    <3> QED BY <1>5, <3>1, <3>2, <3>3
  <2>3. CASE op.k = "alloc" /\ op.res.sp # "xram"
    <3> DEFINE q == PlaceInPool(acc, op.res)
    <3>1. Placing(q) /\ (q.ok => acc.ok /\ DOMAIN q.at = DOMAIN acc.at \cup {Key(op.res)})
      BY <1>1, <1>2, PoolPlaces
    <3>2. r = q
      BY <2>0, <2>3 DEF Place
    <3> HIDE DEF q
    <3>3. Defs(op) = {op.res}
      BY <2>3 DEF Defs
    <3> QED BY <3>1, <3>2, <3>3
  <2>4. CASE op.k = "dealloc" /\ op.res.sp # "xram"
    <3> DEFINE u == acc.used[op.res.sp] \ BlockAt(acc.at[Key(op.res)], op.res)
    <3>1. r = [acc EXCEPT !.used = [acc.used EXCEPT ![op.res.sp] = u]]
      BY <2>0, <2>4 DEF Place
    <3> HIDE DEF u
    <3>2. DOMAIN acc = {"used", "next", "at", "ok"}
      BY <1>1 DEF Placing
    <3>3. DOMAIN r = DOMAIN acc /\ r.next = acc.next /\ r.at = acc.at /\ r.ok = acc.ok
      BY <3>1, <3>2
    <3>4. Defs(op) = {}
      BY <2>4 DEF Defs
    <3> QED BY <1>1, <1>5, <3>3, <3>4 DEF Placing
  <2>5. CASE op.k \notin {"inv", "binding", "alloc"} /\ ~(op.k = "dealloc" /\ op.res.sp # "xram")
    <3>1. r = acc
      BY <2>0, <2>5 DEF Place
    <3>2. Defs(op) = {}
      BY <2>5 DEF Defs
    <3> QED BY <1>1, <1>5, <3>1, <3>2
  <2> QED BY <2>1, <2>2, <2>3, <2>4, <2>5
<1> QED BY <1>4, <1>5

(* AssignAddressesPass gives every buffer, binding and section an address. *)
LEMMA AddressesPlaced ==
  ASSUME Planned(ir, slice)
  PROVE  PlacedTo(Addresses, ir, Len(ir))
PROOF
<1> DEFINE n == Len(ir)
           R(g) == g = [i \in 0 .. n |-> IF i = 0 THEN NothingPlaced ELSE PlaceIfOk(g[i - 1], ir[i])]
           f == CHOOSE g : R(g)
<1>1. n \in Nat /\ \A i \in 1 .. n : Lower(ir[i])
  <2>1. ir \in Seq(SomeOp)
    BY DEF Planned, Shaped
  <2>2. \A i \in 1 .. n : ir[i] \in SomeOp
    BY <2>1, ElementOfSeq
  <2> QED BY <2>1, <2>2 DEF Planned, Shaped, Lower
<1>2. Addresses = f[n]
  BY DEF Addresses, Fold, NothingPlaced
<1>3. R(f)
  BY <1>1, PlaceSteps
<1>4. \A i \in 0 .. n : f[i] = IF i = 0 THEN NothingPlaced ELSE PlaceIfOk(f[i - 1], ir[i])
  <2> HIDE DEF f
  <2> QED BY <1>3
<1> HIDE DEF f, R, n
<1> DEFINE T == {m \in 0 .. n : PlacedTo(f[m], ir, m)}
<1>5. 0 \in T
  <2>1. f[0] = NothingPlaced
    BY <1>1, <1>4
  <2>2. PlacedTo(NothingPlaced, ir, 0)
    BY DEF NothingPlaced, PlacedTo, Placing, Naturals
  <2> QED BY <1>1, <2>1, <2>2
<1>6. \A m \in 0 .. n - 1 : m \in T => m + 1 \in T
  <2> SUFFICES ASSUME NEW m \in 0 .. n - 1, m \in T PROVE m + 1 \in T
    OBVIOUS
  <2>1. m \in Nat /\ m + 1 \in 1 .. n /\ m + 1 \in 0 .. n /\ m + 1 # 0 /\ (m + 1) - 1 = m
    BY <1>1
  <2>2. f[m + 1] = PlaceIfOk(f[m], ir[m + 1])
    BY <1>4, <2>1
  <2>3. PlacedTo(PlaceIfOk(f[m], ir[m + 1]), ir, m + 1)
    BY <1>1, <2>1, PlacedMore
  <2> QED BY <2>1, <2>2, <2>3
<1>7. n \in 0 .. n /\ 0 .. n \subseteq T
  <2> HIDE DEF T
  <2> QED BY <1>1, <1>5, <1>6, UpTo
<1> QED BY <1>2, <1>7 DEF n

(* Maps of natural numbers. *)
LEMMA WithNaturals ==
  ASSUME NEW f, NEW g, Naturals(f), Naturals(g)
  PROVE  Naturals(With(f, g)) /\ DOMAIN With(f, g) = DOMAIN f \cup DOMAIN g
PROOF
<1> DEFINE h == With(f, g)
<1>1. h = [x \in DOMAIN f \cup DOMAIN g |-> IF x \in DOMAIN f THEN f[x] ELSE g[x]]
  BY DEF With
<1>2. DOMAIN h = DOMAIN f \cup DOMAIN g /\ \A x \in DOMAIN h : h[x] \in Nat
  BY <1>1 DEF Naturals
<1> HIDE DEF h
<1> QED BY <1>2 DEF Naturals, h

(* AssignAddressesPass, unless a memory has no room. *)
LEMMA AssignsAddresses ==
  ASSUME Planned(ir, slice), AssignAddresses, stage' = "outlineNSS"
  PROVE  Addressed(ir', addr')
PROOF
<1> DEFINE a == Addresses
           g == [key \in {NextFreeXram} |-> a.next]
<1>1. PlacedTo(a, ir, Len(ir))
  BY AddressesPlaced
<1>2. a.ok /\ addr' = With(a.at, g) /\ ir' = ir
  BY DEF AssignAddresses, Pass
<1> HIDE DEF a
<1>3. Naturals(a.at) /\ a.next \in Nat
  BY <1>1 DEF PlacedTo, Placing
<1>4. Naturals(g) /\ DOMAIN g = {NextFreeXram}
  BY <1>3 DEF Naturals
<1> HIDE DEF g
<1>5. Naturals(addr') /\ DOMAIN addr' = DOMAIN a.at \cup {NextFreeXram}
  BY <1>2, <1>3, <1>4, WithNaturals
<1>6. \A i \in 1 .. Len(ir) : \A d \in Defs(ir[i]) : Key(d) \in DOMAIN a.at
  BY <1>1, <1>2 DEF PlacedTo
<1> QED BY <1>2, <1>5, <1>6 DEF Addressed

(* The operations that start a program are the pass's own. *)
LEMMA StartsAreOwn ==
  ASSUME NEW n \in Nat, NEW u \in 0 .. n - 1
  PROVE  OutlineOperations(u, n) \in Seq({op \in SomeOp : NssOwn(op, n)})
PROOF
<1> DEFINE S == {op \in SomeOp : NssOwn(op, n)}
           first == IF u = 0 THEN <<InvOp(NssInv(0), "nss", <<NssSection(0)>>),
                                    Use("hostcopy", <<Area(0), NssSection(0)>>)>> ELSE << >>
           later == IF u + 1 < n
                    THEN <<InvOp(NssInv(u + 1), "nss", <<NssSection(u + 1)>>)>> ELSE << >>
           last == <<StartOp(NssInv(u), "nss", <<Area(u)>>, << >>), WaitOp(NssInv(u), "nss")>>
<1>1. u \in Nat /\ u + 1 \in Nat /\ 0 \in Nat /\ (u + 1 < n => u + 1 \in 0 .. n - 1) /\ 0 \in 0 .. n - 1
  OBVIOUS
<1>2. NoVal \in Value
  BY DEF NoVal, Val, Value, Ids, Names, Spaces
<1>3. \A i \in Nat : Area(i).sp = "lram" /\ NssSection(i).base[2] = "nss"
  BY DEF Area, NssSection, Val
<1>4. ASSUME NEW i \in Nat, i \in 0 .. n - 1
      PROVE  InvOp(NssInv(i), "nss", <<NssSection(i)>>) \in S
  <2> DEFINE o == InvOp(NssInv(i), "nss", <<NssSection(i)>>)
             x == NssSection(i)
             y == NssInv(i)
  <2>1. x \in Value /\ y \in InvRec
    BY NssValues
  <2>2. Operands(o) = {x}
    BY RangeOf DEF Operands, InvOp, Op
  <2>3. o.k = "inv" /\ o.ex = "nss" /\ o.code = <<x>>
    BY DEF InvOp, Op
  <2>4. x.base[2] = "nss"
    BY <1>3
  <2> HIDE DEF x, y, Value, InvRec, NoVal
  <2>5. o \in SomeOp
    BY <1>2, <2>1 DEF InvOp, Op, SomeOp, x, y
  <2> HIDE DEF o, SomeOp
  <2>6. NssOwn(o, n)
    BY <1>4, <2>2, <2>3, <2>4 DEF NssOwn, x
  <2> QED BY <2>5, <2>6 DEF o
<1>5. Use("hostcopy", <<Area(0), NssSection(0)>>) \in S
  <2> DEFINE o == Use("hostcopy", <<Area(0), NssSection(0)>>)
             x == NssSection(0)
             a == Area(0)
  <2>1. x \in Value /\ a \in Value
    BY NssValues
  <2>2. Operands(o) = {a, x} /\ o.k = "hostcopy"
    BY UseOperands
  <2>4. x.base[2] = "nss" /\ a.sp = "lram"
    BY <1>3
  <2> HIDE DEF x, a, Value, NoVal
  <2>5. o \in SomeOp
    BY <1>2, <2>1 DEF Use, Op, SomeOp, x, a
  <2> HIDE DEF o, SomeOp
  <2>6. NssOwn(o, n)
    BY <2>2, <2>4 DEF NssOwn
  <2> QED BY <2>5, <2>6 DEF o
<1>6. StartOp(NssInv(u), "nss", <<Area(u)>>, << >>) \in S
  <2> DEFINE o == StartOp(NssInv(u), "nss", <<Area(u)>>, << >>)
             a == Area(u)
             y == NssInv(u)
  <2>1. a \in Value /\ y \in InvRec
    BY <1>1, NssValues
  <2>2. Operands(o) = {a} /\ o.k = "start"
    BY RangeOf DEF Operands, StartOp, Op
  <2>4. a.sp = "lram"
    BY <1>1, <1>3
  <2> HIDE DEF y, a, Value, NoVal, InvRec
  <2>5. o \in SomeOp
    BY <1>2, <2>1 DEF StartOp, Op, SomeOp, y, a
  <2> HIDE DEF o, SomeOp
  <2>6. NssOwn(o, n)
    BY <2>2, <2>4 DEF NssOwn
  <2> QED BY <2>5, <2>6 DEF o
<1>7. WaitOp(NssInv(u), "nss") \in S
  <2> DEFINE o == WaitOp(NssInv(u), "nss")
             y == NssInv(u)
  <2>1. y \in InvRec
    BY <1>1, NssValues
  <2>2. Operands(o) = {} /\ o.k = "wait"
    BY WaitOperands DEF WaitOp, Op
  <2> HIDE DEF y, Value, NoVal, InvRec
  <2>5. o \in SomeOp
    BY <1>2, <2>1 DEF WaitOp, Op, SomeOp, y
  <2> HIDE DEF o, SomeOp
  <2>6. NssOwn(o, n)
    BY <2>2 DEF NssOwn
  <2> QED BY <2>5, <2>6 DEF o
<1> HIDE DEF S
<1>8. first \in Seq(S) /\ later \in Seq(S) /\ last \in Seq(S)
  BY <1>1, <1>4, <1>5, <1>6, <1>7
<1>9. OutlineOperations(u, n) = first \o later \o last
  BY DEF OutlineOperations
<1> HIDE DEF first, later, last
<1> QED BY <1>8, <1>9 DEF S

(* So is the load of the next program. *)
LEMMA NextLoadIsOwn ==
  ASSUME NEW n \in Nat, NEW j \in Nat
  PROVE  Use("load", <<Area(j), NssSection(j)>>) \in {op \in SomeOp : NssOwn(op, n)}
PROOF
<1> DEFINE o == Use("load", <<Area(j), NssSection(j)>>)
           x == NssSection(j)
           a == Area(j)
<1>0. NoVal \in Value
  BY DEF NoVal, Val, Value, Ids, Names, Spaces
<1>1. x \in Value /\ a \in Value
  BY NssValues
<1>2. Operands(o) = {a, x} /\ o.k = "load"
  BY UseOperands
<1>3. x.base[2] = "nss" /\ a.sp = "lram"
  BY DEF Area, NssSection, Val
<1> HIDE DEF x, a, Value, NoVal
<1>4. o \in SomeOp
  BY <1>0, <1>1 DEF Use, Op, SomeOp, x, a
<1> HIDE DEF o, SomeOp
<1>5. NssOwn(o, n)
  BY <1>2, <1>3 DEF NssOwn
<1> QED BY <1>4, <1>5 DEF o
-----------------------------------------------------------------------------
(* Outlining NSS programs.                                                  *)

(* An operation of a sequence is one of its range, and the other way round. *)
LEMMA SeqRange ==
  ASSUME NEW S, NEW s \in Seq(S)
  PROVE  Len(s) \in Nat /\ DOMAIN s = 1 .. Len(s) /\ \A i \in 1 .. Len(s) : s[i] \in S
PROOF OBVIOUS

(* OutlineNSSProgramsPass makes nothing but its own operations of those of  *)
(* the function, and leaves those that the NSS does not do in the function. *)
LEMMA OutlinedOps ==
  ASSUME Planned(ir, slice), OutlineNSSPrograms
  PROVE  /\ Len(progs') = Len(Found.programs) /\ Len(progs') \in Nat
         /\ ir' \in Seq(SomeOp)
         /\ \A x \in RunSteps(ir', progs') :
              \/ NssOwn(RunOp(ir', progs', x), Len(progs'))
              \/ \E b \in 1 .. Len(ir) : RunOp(ir', progs', x) = ir[b]
         /\ \A x \in RunSteps(ir', progs') : x[2] # 0 => RunOp(ir', progs', x).k # "inv"
         /\ \A b \in 1 .. Len(ir) : ~IsNssOperation(ir[b]) => \E k \in 1 .. Len(ir') : ir'[k] = ir[b]
PROOF
<1> DEFINE fn == Found.function
           pr == Found.programs
           n == Len(pr)
           S == {op \in SomeOp : NssOwn(op, n) \/ \E b \in 1 .. Len(ir) : op = ir[b]}
           ss == [j \in DOMAIN fn |-> IF fn[j].k = "program" THEN OutlineOperations(fn[j].inv, n)
                                                             ELSE <<fn[j]>>]
           pm == WithNextLoad(pr)
           t == FlattenSeq(ss)
<1>1. ir' = t /\ progs' = pm
  BY DEF OutlineNSSPrograms
<1>2. Divided(fn, pr) /\ \E c : Spread(fn, pr, ir, Len(ir), c)
  BY FoundSpreads DEF FoundTo
<1>3. PICK c : Spread(fn, pr, ir, Len(ir), c)
  BY <1>2
<1> HIDE DEF fn, pr, pm, t
<1>4. /\ fn \in Seq(SomeOp) /\ pr \in Seq(Seq(SomeOp)) /\ n \in Nat
      /\ DOMAIN fn = 1 .. Len(fn) /\ DOMAIN pr = 1 .. n /\ Len(fn) \in Nat
      /\ \A j \in 1 .. Len(fn) : fn[j] \in SomeOp
      /\ \A j \in 1 .. Len(fn) : IF IsProgram(fn[j]) THEN fn[j].inv \in 0 .. n - 1
                                                     ELSE ~IsNssOperation(fn[j]) /\ Lower(fn[j])
      /\ \A q \in 1 .. n : pr[q] \in Seq(SomeOp)
      /\ \A q \in 1 .. n : \A i \in 1 .. Len(pr[q]) : IsNssOperation(pr[q][i])
  <2>1. /\ fn \in Seq(SomeOp) /\ pr \in Seq(Seq(SomeOp))
        /\ \A j \in 1 .. Len(fn) : IF IsProgram(fn[j]) THEN fn[j].inv \in 0 .. n - 1
                                                       ELSE ~IsNssOperation(fn[j]) /\ Lower(fn[j])
        /\ \A q \in 1 .. n : \A i \in 1 .. Len(pr[q]) : IsNssOperation(pr[q][i])
    BY <1>2 DEF Divided
  <2> HIDE DEF SomeOp, S
  <2>2. Len(fn) \in Nat /\ DOMAIN fn = 1 .. Len(fn) /\ \A j \in 1 .. Len(fn) : fn[j] \in SomeOp
    BY <2>1, SeqRange
  <2>3. Len(pr) \in Nat /\ DOMAIN pr = 1 .. Len(pr) /\ \A j \in 1 .. Len(pr) : pr[j] \in Seq(SomeOp)
    BY <2>1, SeqRange
  <2> QED BY <2>1, <2>2, <2>3
<1>5. /\ \A j \in 1 .. Len(fn) : ~IsProgram(fn[j]) => \E b \in 1 .. Len(ir) : fn[j] = ir[b]
      /\ \A q \in 1 .. n : \A i \in 1 .. Len(pr[q]) :
           (\E j \in 1 .. Len(fn) : IsProgram(fn[j]) /\ fn[j].inv = q - 1) => \E b \in 1 .. Len(ir) : pr[q][i] = ir[b]
  <2>1. ASSUME NEW j \in 1 .. Len(fn), ~IsProgram(fn[j]) PROVE \E b \in 1 .. Len(ir) : fn[j] = ir[b]
    <3>1. PICK x : x = <<j, 0>>
      OBVIOUS
    <3>2. x \in Spots(fn, pr) /\ AtSpot(fn, pr, x) = fn[j]
      BY <2>1, <3>1 DEF Spots, AtSpot
    <3>3. PICK b \in 1 .. Len(ir) : c[b] = x
      BY <1>3, <3>2 DEF Spread
    <3> QED BY <1>3, <3>2, <3>3 DEF Spread
  <2>2. ASSUME NEW q \in 1 .. n, NEW i \in 1 .. Len(pr[q]), NEW j \in 1 .. Len(fn),
               IsProgram(fn[j]), fn[j].inv = q - 1
        PROVE  \E b \in 1 .. Len(ir) : pr[q][i] = ir[b]
    <3>1. PICK x : x = <<j, i>>
      OBVIOUS
    <3>2. fn[j].inv + 1 = q /\ x[1] = j /\ x[2] = i /\ i # 0 /\ i \in Nat
      BY <1>4, <2>2, <3>1
    <3>3. x \in Spots(fn, pr) /\ AtSpot(fn, pr, x) = pr[q][i]
      BY <2>2, <3>1, <3>2 DEF Spots, AtSpot
    <3>4. PICK b \in 1 .. Len(ir) : c[b] = x
      BY <1>3, <3>3 DEF Spread
    <3> QED BY <1>3, <3>3, <3>4 DEF Spread
  <2> QED BY <2>1, <2>2
<1>6. ss \in Seq(Seq(S)) /\ Len(ss) = Len(fn)
      /\ \A j \in 1 .. Len(fn) : IF IsProgram(fn[j]) THEN StartAndWait(ss[j], fn[j].inv) ELSE ss[j] = <<fn[j]>>
  <2>1. ASSUME NEW j \in 1 .. Len(fn)
        PROVE  /\ ss[j] \in Seq(S)
               /\ IF IsProgram(fn[j]) THEN StartAndWait(ss[j], fn[j].inv) ELSE ss[j] = <<fn[j]>>
    <3>1. CASE IsProgram(fn[j])
      <4> DEFINE u == fn[j].inv
                 So == {op \in SomeOp : NssOwn(op, n)}
      <4>1. ss[j] = OutlineOperations(u, n)
        BY <1>4, <3>1 DEF IsProgram
      <4>2. u \in 0 .. n - 1 /\ u \in Nat
        BY <1>4, <3>1
      <4> HIDE DEF u, ss, n
      <4>3. OutlineOperations(u, n) \in Seq(So) /\ StartAndWait(OutlineOperations(u, n), u)
        BY <1>4, <4>2, StartsAreOwn, OutlineOperationsAre
      <4>4. So \subseteq S
        OBVIOUS
      <4> HIDE DEF So, S
      <4>5. ss[j] \in Seq(S)
        BY <4>1, <4>3, <4>4
      <4> QED BY <3>1, <4>1, <4>3, <4>5 DEF u
    <3>2. CASE ~IsProgram(fn[j])
      <4>1. ss[j] = <<fn[j]>>
        BY <1>4, <3>2 DEF IsProgram
      <4> HIDE DEF ss
      <4>2. fn[j] \in S
        BY <1>4, <1>5, <3>2
      <4> HIDE DEF S
      <4> QED BY <3>2, <4>1, <4>2
    <3> QED BY <3>1, <3>2
  <2>2. ss = [j \in 1 .. Len(fn) |-> ss[j]]
    BY <1>4
  <2> HIDE DEF ss, S
  <2>3. ss \in [1 .. Len(fn) -> Seq(S)]
    BY <2>1, <2>2
  <2>4. ss \in Seq(Seq(S)) /\ Len(ss) = Len(fn)
    BY <1>4, <2>3
  <2> QED BY <2>1, <2>4
<1> HIDE DEF ss
<1>7. t \in Seq(S) /\ \E p : Arranged(ss, t, p)
  <2> HIDE DEF S
  <2> QED BY <1>6, Flatten DEF t
<1>8. PICK p : Arranged(ss, t, p)
  BY <1>7
<1>9. /\ \A k \in 1 .. Len(t) : p[k] \in Places(ss) /\ t[k] = ss[p[k][1]][p[k][2]]
      /\ \A x \in Places(ss) : \E k \in 1 .. Len(t) : p[k] = x
  <2>1. Len(ss) \in Nat /\ \A x \in Places(ss) : x[1] <= Len(ss)
    BY <1>4, <1>6 DEF Places
  <2>2. /\ p \in [1 .. Len(t) -> Places(ss)]
        /\ \A k \in 1 .. Len(t) : t[k] = ss[p[k][1]][p[k][2]]
        /\ \A x \in Places(ss) : x[1] <= Len(ss) => \E k \in 1 .. Len(t) : p[k] = x
    BY <1>8 DEF Arranged, ArrangedTo
  <2> QED BY <2>1, <2>2
<1>10. S \subseteq SomeOp /\ Len(t) \in Nat /\ \A k \in 1 .. Len(t) : t[k] \in S
  <2>1. S \subseteq SomeOp
    OBVIOUS
  <2> HIDE DEF S
  <2> QED BY <1>7, <2>1, SeqRange
<1>11. Len(pm) = n /\ \A q \in 1 .. n :
         pm[q] = pr[q] \o (IF q < n THEN <<Use("load", <<Area(q), NssSection(q)>>)>> ELSE << >>)
  BY <1>4 DEF pm, WithNextLoad
(* The task of a program that is started. *)
<1>12. ASSUME NEW x \in RunSteps(t, pm), x[2] # 0
       PROVE  RunOp(t, pm, x) \in S /\ RunOp(t, pm, x).k # "inv"
  <2> DEFINE k == x[1]
             j == p[k][1]
             q == fn[j].inv + 1
             o == RunOp(t, pm, x)
  <2>1. k \in 1 .. Len(t) /\ x \in NssSteps(t, pm) /\ StartsNss(t[k]) /\ o = NssStep(t, pm, x)
    BY <1>10, <1>12, RunStepIs
  <2>2. x[2] \in 1 .. Len(ProgramOf(t, pm, k)) /\ o = ProgramOf(t, pm, k)[x[2]]
    BY <2>1 DEF NssSteps, NssStep
  <2>3. j \in 1 .. Len(fn) /\ p[k][2] \in 1 .. Len(ss[j]) /\ t[k] = ss[j][p[k][2]]
    BY <1>6, <1>9, <2>1 DEF Places
  <2> HIDE DEF o, k, j, S
  <2>4. IsProgram(fn[j])
    <3> SUFFICES ASSUME ~IsProgram(fn[j]) PROVE FALSE
      OBVIOUS
    <3>1. ss[j] = <<fn[j]>>
      BY <1>6, <2>3
    <3>2. t[k] = fn[j]
      BY <2>3, <3>1
    <3>3. Shape(fn[j])
      BY <1>4, <2>3 DEF Lower
    <3> QED BY <2>1, <3>2, <3>3 DEF StartsNss, Shape
  <2>5. StartAndWait(ss[j], fn[j].inv)
    BY <1>6, <2>3, <2>4
  <2>6. t[k].inv.id[1] = fn[j].inv
    BY <2>1, <2>3, <2>5 DEF StartAndWait
  <2>7. fn[j].inv \in 0 .. n - 1
    BY <1>4, <2>3, <2>4
  <2>8. q \in 1 .. n /\ q - 1 = fn[j].inv /\ q \in Nat
    BY <1>4, <2>7
  <2>9. ProgramOf(t, pm, k) = pm[q]
    BY <2>6 DEF ProgramOf
  <2> HIDE DEF q
  <2> DEFINE e == Use("load", <<Area(q), NssSection(q)>>)
             last == IF q < n THEN <<e>> ELSE << >>
             i == x[2]
  <2>10. e \in {op \in SomeOp : NssOwn(op, n)}
    BY <1>4, <2>8, NextLoadIsOwn
  <2>11. pm[q] = pr[q] \o last
    BY <1>11, <2>8
  <2>12. pr[q] \in Seq(SomeOp) /\ \A b \in 1 .. Len(pr[q]) : pr[q][b] \in SomeOp
    <3>1. pr[q] \in Seq(SomeOp)
      BY <1>4, <2>8
    <3> HIDE DEF SomeOp
    <3> QED BY <3>1
  <2> HIDE DEF e, i, n
  <2>13. CASE i \in 1 .. Len(pr[q])
    <3>1. o = pr[q][i]
      BY <2>2, <2>9, <2>11, <2>12, <2>13 DEF i
    <3>2. \E b \in 1 .. Len(ir) : pr[q][i] = ir[b]
      BY <1>5, <2>3, <2>4, <2>8, <2>13
    <3>3. IsNssOperation(pr[q][i])
      BY <1>4, <2>8, <2>13 DEF n
    <3>4. o.k # "inv"
      BY <3>1, <3>3 DEF IsNssOperation
    <3> QED BY <2>12, <2>13, <3>1, <3>2, <3>4 DEF S, o
  <2>14. CASE i \notin 1 .. Len(pr[q])
    <3>1. i \in 1 .. Len(pr[q] \o last) /\ o = (pr[q] \o last)[i]
      BY <2>2, <2>9, <2>11 DEF i
    <3> DEFINE a == pr[q]
    <3>2. Len(a) \in Nat /\ a \in Seq(SomeOp)
      BY <2>12
    <3> HIDE DEF a, SomeOp
    <3>3. i \in 1 .. Len(a \o last) /\ o = (a \o last)[i] /\ i \notin 1 .. Len(a)
      BY <2>14, <3>1 DEF a
    <3>4. q < n
      <4> SUFFICES ASSUME ~(q < n) PROVE FALSE
        OBVIOUS
      <4>1. a \o last = a
        BY <3>2
      <4> QED BY <3>3, <4>1
    <3>5. last = <<e>>
      BY <3>4
    <3> HIDE DEF last
    <3>6. o = e
      BY <3>2, <3>3, <3>5
    <3>7. e.k = "load"
      BY UseOperands DEF e
    <3> QED BY <2>10, <3>6, <3>7 DEF S, o
  <2> QED BY <2>13, <2>14
<1>13. \A x \in RunSteps(t, pm) : RunOp(t, pm, x) \in S
  <2> TAKE x \in RunSteps(t, pm)
  <2>1. CASE x[2] = 0
    BY <1>10, <2>1, RunStepIs
  <2> QED BY <1>12, <2>1
<1>14. ASSUME NEW b \in 1 .. Len(ir), ~IsNssOperation(ir[b])
       PROVE  \E k \in 1 .. Len(t) : t[k] = ir[b]
  <2>1. c[b] \in Spots(fn, pr) /\ AtSpot(fn, pr, c[b]) = ir[b]
    BY <1>3 DEF Spread
  <2> DEFINE j == c[b][1]
             i == c[b][2]
  <2>2. /\ j \in 1 .. Len(fn) /\ i \in Nat
        /\ IsProgram(fn[j]) => i \in 1 .. Len(pr[fn[j].inv + 1])
        /\ ~IsProgram(fn[j]) => i = 0
    BY <2>1, SpotOf
  <2>3. ~IsProgram(fn[j])
    <3> SUFFICES ASSUME IsProgram(fn[j]) PROVE FALSE
      OBVIOUS
    <3> DEFINE q == fn[j].inv + 1
    <3>1. fn[j].inv \in 0 .. n - 1
      BY <1>4, <2>2
    <3>2. i \in 1 .. Len(pr[q])
      BY <2>2
    <3> HIDE DEF n, i, j
    <3>4. q \in 1 .. n
      BY <1>4, <3>1
    <3>5. i # 0
      BY <3>2
    <3>3. ir[b] = pr[q][i]
      BY <2>1, <3>5 DEF AtSpot, i, j
    <3> QED BY <1>4, <1>14, <3>2, <3>3, <3>4
  <2>4. ir[b] = fn[j] /\ ss[j] = <<fn[j]>>
    BY <1>6, <2>1, <2>2, <2>3 DEF AtSpot
  <2> HIDE DEF j
  <2>5. PICK x : x = <<j, 1>>
    OBVIOUS
  <2>6. x \in Places(ss) /\ x[1] = j /\ x[2] = 1
    <3>1. Len(ss[j]) = 1 /\ j \in 1 .. Len(ss) /\ 1 \in 1 .. 1 /\ 1 \in Nat
      BY <1>6, <2>2, <2>4 DEF j
    <3>2. x[1] = j /\ x[2] = 1
      BY <2>5
    <3> QED BY <2>5, <3>1, <3>2 DEF Places
  <2>7. PICK k \in 1 .. Len(t) : p[k] = x
    BY <1>9, <2>6
  <2>8. t[k] = ss[j][1]
    BY <1>9, <2>6, <2>7
  <2> QED BY <2>4, <2>8
<1>15. t \in Seq(SomeOp)
  <2> HIDE DEF S, SomeOp
  <2> QED BY <1>7, <1>10
<1> HIDE DEF n
<1>16. \A o \in S : NssOwn(o, n) \/ \E b \in 1 .. Len(ir) : o = ir[b]
  OBVIOUS
<1>17. Len(progs') = n /\ n \in Nat /\ n = Len(Found.programs)
  BY <1>1, <1>4, <1>11 DEF n, pr
<1> HIDE DEF S
<1>18. \A x \in RunSteps(ir', progs') : RunOp(ir', progs', x) \in S
  BY <1>1, <1>13
<1>19. \A x \in RunSteps(ir', progs') : x[2] # 0 => RunOp(ir', progs', x).k # "inv"
  BY <1>1, <1>12
<1> QED BY <1>1, <1>14, <1>15, <1>16, <1>17, <1>18, <1>19

(* AddDeallocationPass adds operations without operands. *)
LEMMA AddDeallocationCovers ==
  ASSUME Shaped(ir), Covered(ir), AddDeallocation
  PROVE  Covered(ir')
PROOF
<1> DEFINE t == ir'
           last == LastAllocationUser
<1>1. PICK p : Freed(ir, last, t, p)
  BY AddDeallocationFrees
<1> HIDE DEF t, last
<1>2. SUFFICES ASSUME NEW i \in 1 .. Len(t), t[i].k # "inv", NEW v \in Operands(t[i])
               PROVE  \E a \in 1 .. Len(t) : \E d \in Defs(t[a]) : Covers(d, v)
  BY DEF Covered, t
<1>3. p[i][1] \in 1 .. Len(ir) /\ IF p[i][2] = 1 THEN t[i] = ir[p[i][1]] ELSE IsDealloc(ir, p[i][1], last, t[i])
  BY <1>1 DEF Freed
<1>4. p[i][2] = 1
  <2> SUFFICES ASSUME p[i][2] # 1 PROVE FALSE
    OBVIOUS
  <2>1. t[i].k = "dealloc" /\ Shape(t[i])
    BY <1>3 DEF IsDealloc
  <2>2. t[i].args = << >> /\ t[i].code = << >>
    BY <2>1 DEF Shape
  <2>3. Operands(t[i]) = {}
    BY <2>2, RangeOf DEF Operands
  <2> QED BY <1>2, <2>3
<1>5. PICK a \in 1 .. Len(ir) : \E d \in Defs(ir[a]) : Covers(d, v)
  BY <1>2, <1>3, <1>4 DEF Covered
<1>6. PICK k \in 1 .. Len(t) : p[k] = <<a, 1>>
  BY <1>1 DEF Freed
<1>7. t[k] = ir[a]
  BY <1>1, <1>6 DEF Freed
<1> QED BY <1>5, <1>7

(* OutlineNSSProgramsPass gives the areas and the sections of the programs  *)
(* addresses.                                                               *)
LEMMA ProgramsPlaced ==
  ASSUME OutlineNSSPrograms, Naturals(addr), NextFreeXram \in DOMAIN addr,
         NEW n, n = Len(Found.programs), n \in Nat
  PROVE  /\ Naturals(addr') /\ DOMAIN addr \subseteq DOMAIN addr'
         /\ \A i \in 0 .. n - 1 : Key(NssSection(i)) \in DOMAIN addr'
PROOF
<1> DEFINE areas == [k \in {Key(Area(0)), Key(Area(1))} |-> k[1][1] * NssTaskSize]
           sections == [k \in {Key(NssSection(i)) : i \in 0 .. n - 1} |->
                          addr[NextFreeXram] + k[1][1] * NssTaskSize]
           more == With(areas, sections)
<1>1. addr' = With(addr, more)
  BY DEF OutlineNSSPrograms
<1>2. NssTaskSize \in Nat
  BY PipelineAssumption
<1>3. \A i \in Nat : Key(Area(i))[1][1] = i % 2 /\ Key(NssSection(i))[1][1] = i
  BY DEF Key, Area, NssSection, Val
<1>4. addr[NextFreeXram] \in Nat
  BY DEF Naturals
<1>5. \A a, b \in Nat : a * b \in Nat /\ a + b \in Nat
  OBVIOUS
<1>6. Naturals(areas)
  <2>1. 0 % 2 \in Nat /\ 1 % 2 \in Nat /\ 0 \in Nat /\ 1 \in Nat
    OBVIOUS
  <2>2. \A k \in {Key(Area(0)), Key(Area(1))} : k[1][1] \in Nat
    BY <1>3, <2>1
  <2> QED BY <1>2, <1>5, <2>2 DEF Naturals
<1>7. Naturals(sections) /\ DOMAIN sections = {Key(NssSection(i)) : i \in 0 .. n - 1}
  <2>1. \A i \in 0 .. n - 1 : i \in Nat
    OBVIOUS
  <2>2. \A k \in {Key(NssSection(i)) : i \in 0 .. n - 1} : k[1][1] \in Nat
    BY <1>3, <2>1
  <2>3. \A k \in {Key(NssSection(i)) : i \in 0 .. n - 1} : addr[NextFreeXram] + k[1][1] * NssTaskSize \in Nat
    BY <1>2, <1>4, <1>5, <2>2
  <2> QED BY <2>3 DEF Naturals
<1> HIDE DEF areas, sections
<1>8. Naturals(more) /\ DOMAIN more = DOMAIN areas \cup DOMAIN sections
  BY <1>6, <1>7, WithNaturals
<1> HIDE DEF more
<1>9. Naturals(With(addr, more)) /\ DOMAIN With(addr, more) = DOMAIN addr \cup DOMAIN more
  BY <1>8, WithNaturals
<1> QED BY <1>1, <1>7, <1>8, <1>9

(* OutlineNSSProgramsPass leaves where it was all that the host defines.    *)
LEMMA OutlinedIsLocated ==
  ASSUME Planned(ir, slice), Covered(ir), Addressed(ir, addr), OutlineNSSPrograms
  PROVE  Located(ir', progs', addr') /\ StepsCovered(ir', progs')
PROOF
<1> DEFINE n == Len(Found.programs)
           h == ir'
           pm == progs'
           ad == addr'
<1>1. /\ Len(pm) = n /\ n \in Nat
      /\ h \in Seq(SomeOp)
      /\ \A x \in RunSteps(h, pm) :
           NssOwn(RunOp(h, pm, x), n) \/ \E b \in 1 .. Len(ir) : RunOp(h, pm, x) = ir[b]
      /\ \A x \in RunSteps(h, pm) : x[2] # 0 => RunOp(h, pm, x).k # "inv"
      /\ \A b \in 1 .. Len(ir) : ~IsNssOperation(ir[b]) => \E k \in 1 .. Len(h) : h[k] = ir[b]
  <2>1. /\ Len(progs') = Len(Found.programs) /\ Len(progs') \in Nat
        /\ ir' \in Seq(SomeOp)
        /\ \A x \in RunSteps(ir', progs') :
             \/ NssOwn(RunOp(ir', progs', x), Len(progs'))
             \/ \E b \in 1 .. Len(ir) : RunOp(ir', progs', x) = ir[b]
        /\ \A x \in RunSteps(ir', progs') : x[2] # 0 => RunOp(ir', progs', x).k # "inv"
        /\ \A b \in 1 .. Len(ir) : ~IsNssOperation(ir[b]) => \E k \in 1 .. Len(ir') : ir'[k] = ir[b]
    BY OutlinedOps
  <2> HIDE DEF NssOwn, RunOp, RunSteps, IsNssOperation, SomeOp
  <2> QED BY <2>1
<1>2. /\ Naturals(ad) /\ DOMAIN addr \subseteq DOMAIN ad
      /\ \A i \in 0 .. n - 1 : Key(NssSection(i)) \in DOMAIN ad
  <2>1. Naturals(addr) /\ NextFreeXram \in DOMAIN addr
    BY DEF Addressed
  <2> QED BY <1>1, <2>1, ProgramsPlaced
<1>3. \A i \in 1 .. Len(ir) : \A d \in Defs(ir[i]) : Key(d) \in DOMAIN ad
  BY <1>2 DEF Addressed
<1>4. NextFreeXram \in DOMAIN ad
  BY <1>2 DEF Addressed
<1>5. \A i \in 1 .. Len(ir) : Shape(ir[i])
  BY DEF Planned, Shaped
<1> HIDE DEF n, h, pm, ad
<1>6. ASSUME NEW k \in 1 .. Len(h)
      PROVE  NssOwn(h[k], n) \/ \E b \in 1 .. Len(ir) : h[k] = ir[b]
  <2>1. PICK x : x = <<k, 0>>
    OBVIOUS
  <2>2. x \in RunSteps(h, pm) /\ RunOp(h, pm, x) = h[k]
    BY <2>1 DEF RunSteps, RunOp
  <2> QED BY <1>1, <2>2
<1>7. ASSUME NEW k \in 1 .. Len(h), h[k].k \in {"alloc", "binding"}
      PROVE  Key(h[k].res) \in DOMAIN ad
  <2>1. ~NssOwn(h[k], n)
    BY <1>7 DEF NssOwn
  <2>2. PICK b \in 1 .. Len(ir) : h[k] = ir[b]
    BY <1>6, <2>1
  <2>3. h[k].res \in Defs(ir[b])
    BY <1>7, <2>2 DEF Defs
  <2> QED BY <1>3, <2>3
<1>8. ASSUME NEW k \in 1 .. Len(h), h[k].k = "inv"
      PROVE  /\ h[k].ex \in {"css", "slice", "nss"} \/ h[k].code = << >>
             /\ \A v \in Range(h[k].code) :
                  /\ Key(v) \in DOMAIN ad /\ v.sp = "xram"
                  /\ v.base[2] = "nss" => v.base[1] + 1 \in 1 .. Len(pm)
  <2>1. CASE NssOwn(h[k], n)
    <3>1. h[k].ex = "nss" /\ \E i \in 0 .. n - 1 : h[k].code = <<NssSection(i)>>
      BY <1>8, <2>1 DEF NssOwn
    <3>2. PICK i \in 0 .. n - 1 : h[k].code = <<NssSection(i)>>
      BY <3>1
    <3> DEFINE v == NssSection(i)
    <3>3. v.base[1] = i /\ v.sp = "xram" /\ i + 1 \in 1 .. n
      BY <1>1 DEF NssSection, Val
    <3>4. Key(v) \in DOMAIN ad
      BY <1>2
    <3> HIDE DEF v
    <3>5. Range(h[k].code) = {v}
      BY <3>2, RangeOf DEF v
    <3> QED BY <1>1, <3>1, <3>3, <3>4, <3>5
  <2>2. CASE \E b \in 1 .. Len(ir) : h[k] = ir[b]
    <3>1. PICK b \in 1 .. Len(ir) : h[k] = ir[b]
      BY <2>2
    <3>2. Shape(ir[b]) /\ ir[b].k = "inv"
      BY <1>5, <1>8, <3>1
    <3>3. /\ ir[b].ex \in {"slice", "css", "host"}
          /\ ir[b].ex = "host" => ir[b].code = << >>
          /\ \A j \in DOMAIN ir[b].code : ir[b].code[j].base[2] \in {"c", "g"} /\ ir[b].code[j].sp = "xram"
      BY <3>2 DEF Shape
    <3>4. \A v \in Range(ir[b].code) : \E j \in DOMAIN ir[b].code : v = ir[b].code[j]
      BY DEF Range
    <3>5. Defs(ir[b]) = Range(ir[b].code)
      BY <3>2 DEF Defs
    <3>6. ASSUME NEW v \in Range(ir[b].code) PROVE Key(v) \in DOMAIN ad /\ v.sp = "xram" /\ v.base[2] # "nss"
      BY <1>3, <3>3, <3>4, <3>5
    <3> QED BY <3>1, <3>3, <3>6
  <2> QED BY <1>6, <2>1, <2>2
<1>9. ASSUME NEW x \in RunSteps(h, pm), x[2] = 0 => RunOp(h, pm, x).k # "inv",
             NEW v \in XramOf(RunOp(h, pm, x)), v.base[2] # "nss"
      PROVE  \E k \in 1 .. Len(h) : \E d \in Defs(h[k]) : Covers(d, v)
  <2>1. v \in Operands(RunOp(h, pm, x)) /\ v.sp = "xram"
    BY <1>9 DEF XramOf
  <2>2. ~NssOwn(RunOp(h, pm, x), n)
    BY <1>9, <2>1 DEF NssOwn
  <2>3. PICK b \in 1 .. Len(ir) : RunOp(h, pm, x) = ir[b]
    BY <1>1, <2>2
  <2>4. PICK a \in 1 .. Len(ir) : \E d \in Defs(ir[a]) : Covers(d, v)
    <3>1. x[2] # 0 => RunOp(h, pm, x).k # "inv"
      BY <1>1
    <3>2. RunOp(h, pm, x).k # "inv"
      BY <1>9, <3>1
    <3> QED BY <2>1, <2>3, <3>2 DEF Covered
  <2>5. PICK d \in Defs(ir[a]) : Covers(d, v)
    BY <2>4
  <2>6. d.sp = "xram"
    BY <2>1, <2>5 DEF Covers
  <2>7. ~IsNssOperation(ir[a])
    BY <2>5, <2>6 DEF Defs, IsNssOperation
  <2>8. PICK k \in 1 .. Len(h) : h[k] = ir[a]
    BY <1>1, <2>7
  <2> QED BY <2>5, <2>8
<1>10. Located(h, pm, ad)
  BY <1>1, <1>2, <1>4, <1>7, <1>8 DEF Located
<1>11. StepsCovered(h, pm)
  BY <1>9 DEF StepsCovered
<1> QED BY <1>10, <1>11 DEF h, pm, ad
-----------------------------------------------------------------------------
(* The footprint.                                                           *)

(* The function of the fold over the sections of invocations exists. *)
LEMMA SectionSteps ==
  ASSUME NEW n \in Nat, NEW s
  PROVE  \E f : f = [i \in 0 .. n |-> IF i = 0 THEN << >> ELSE f[i - 1] \o s[i].code]
PROOF
<1> DEFINE R(g, m) == g = [i \in 0 .. m |-> IF i = 0 THEN << >> ELSE g[i - 1] \o s[i].code]
           T == {m \in Nat : \E g : R(g, m)}
<1>0. \E f : R(f, n)
  <2>1. 0 \in T
    <3>1. R([i \in 0 .. 0 |-> << >>], 0)
      OBVIOUS
    <3> QED BY <3>1
  <2>2. ASSUME NEW m \in Nat, m \in T PROVE m + 1 \in T
    <3>1. PICK g : R(g, m)
      BY <2>2
    <3>2. \A i \in 0 .. m : g[i] = IF i = 0 THEN << >> ELSE g[i - 1] \o s[i].code
      BY <3>1
    <3> HIDE DEF R
    <3> DEFINE h == [i \in 0 .. m + 1 |-> IF i <= m THEN g[i] ELSE g[m] \o s[m + 1].code]
    <3>3. ASSUME NEW i \in 0 .. m + 1
          PROVE  h[i] = IF i = 0 THEN << >> ELSE h[i - 1] \o s[i].code
      <4>1. CASE i <= m
        <5>1. h[i] = g[i] /\ (i # 0 => h[i - 1] = g[i - 1])
          BY <4>1
        <5>2. g[i] = IF i = 0 THEN << >> ELSE g[i - 1] \o s[i].code
          BY <3>2, <4>1
        <5> HIDE DEF h
        <5> QED BY <5>1, <5>2
      <4>2. CASE i = m + 1
        BY <4>2
      <4> QED BY <4>1, <4>2
    <3>4. R(h, m + 1)
      <4>1. h = [i \in 0 .. m + 1 |-> h[i]]
        OBVIOUS
      <4> HIDE DEF h
      <4> QED BY <3>3, <4>1 DEF R
    <3> HIDE DEF h
    <3> QED BY <3>4
  <2>3. n \in T
    <3> HIDE DEF T
    <3> QED BY <2>1, <2>2, NatSet
  <2> QED BY <2>3
<1> QED BY <1>0

(* That of the fold over the segments in compute_xram_footprint exists. *)
LEMMA SegmentSteps ==
  ASSUME NEW n \in Nat, NEW s, NEW base
  PROVE  \E f : f = [i \in 0 .. n |-> IF i = 0 THEN base ELSE SegmentInFootprint(f[i - 1], s[i])]
PROOF
<1> DEFINE R(g, m) == g = [i \in 0 .. m |-> IF i = 0 THEN base ELSE SegmentInFootprint(g[i - 1], s[i])]
           T == {m \in Nat : \E g : R(g, m)}
<1>0. \E f : R(f, n)
  <2>1. 0 \in T
    <3>1. R([i \in 0 .. 0 |-> base], 0)
      OBVIOUS
    <3> QED BY <3>1
  <2>2. ASSUME NEW m \in Nat, m \in T PROVE m + 1 \in T
    <3>1. PICK g : R(g, m)
      BY <2>2
    <3>2. \A i \in 0 .. m : g[i] = IF i = 0 THEN base ELSE SegmentInFootprint(g[i - 1], s[i])
      BY <3>1
    <3> HIDE DEF R
    <3> DEFINE h == [i \in 0 .. m + 1 |-> IF i <= m THEN g[i] ELSE SegmentInFootprint(g[m], s[m + 1])]
    <3>3. ASSUME NEW i \in 0 .. m + 1
          PROVE  h[i] = IF i = 0 THEN base ELSE SegmentInFootprint(h[i - 1], s[i])
      <4>1. CASE i <= m
        <5>1. h[i] = g[i] /\ (i # 0 => h[i - 1] = g[i - 1])
          BY <4>1
        <5>2. g[i] = IF i = 0 THEN base ELSE SegmentInFootprint(g[i - 1], s[i])
          BY <3>2, <4>1
        <5> HIDE DEF h
        <5> QED BY <5>1, <5>2
      <4>2. CASE i = m + 1
        BY <4>2
      <4> QED BY <4>1, <4>2
    <3>4. R(h, m + 1)
      <4>1. h = [i \in 0 .. m + 1 |-> h[i]]
        OBVIOUS
      <4> HIDE DEF h
      <4> QED BY <3>3, <4>1 DEF R
    <3> HIDE DEF h
    <3> QED BY <3>4
  <2>3. n \in T
    <3> HIDE DEF T
    <3> QED BY <2>1, <2>2, NatSet
  <2> QED BY <2>3
<1> QED BY <1>0

(* That of the fold over the buffers exists. *)
LEMMA BufferSteps ==
  ASSUME NEW n \in Nat, NEW s, NEW base
  PROVE  \E f : f = [i \in 0 .. n |-> IF i = 0 THEN base ELSE BufferInFootprint(f[i - 1], s[i])]
PROOF
<1> DEFINE R(g, m) == g = [i \in 0 .. m |-> IF i = 0 THEN base ELSE BufferInFootprint(g[i - 1], s[i])]
           T == {m \in Nat : \E g : R(g, m)}
<1>0. \E f : R(f, n)
  <2>1. 0 \in T
    <3>1. R([i \in 0 .. 0 |-> base], 0)
      OBVIOUS
    <3> QED BY <3>1
  <2>2. ASSUME NEW m \in Nat, m \in T PROVE m + 1 \in T
    <3>1. PICK g : R(g, m)
      BY <2>2
    <3>2. \A i \in 0 .. m : g[i] = IF i = 0 THEN base ELSE BufferInFootprint(g[i - 1], s[i])
      BY <3>1
    <3> HIDE DEF R
    <3> DEFINE h == [i \in 0 .. m + 1 |-> IF i <= m THEN g[i] ELSE BufferInFootprint(g[m], s[m + 1])]
    <3>3. ASSUME NEW i \in 0 .. m + 1
          PROVE  h[i] = IF i = 0 THEN base ELSE BufferInFootprint(h[i - 1], s[i])
      <4>1. CASE i <= m
        <5>1. h[i] = g[i] /\ (i # 0 => h[i - 1] = g[i - 1])
          BY <4>1
        <5>2. g[i] = IF i = 0 THEN base ELSE BufferInFootprint(g[i - 1], s[i])
          BY <3>2, <4>1
        <5> HIDE DEF h
        <5> QED BY <5>1, <5>2
      <4>2. CASE i = m + 1
        BY <4>2
      <4> QED BY <4>1, <4>2
    <3>4. R(h, m + 1)
      <4>1. h = [i \in 0 .. m + 1 |-> h[i]]
        OBVIOUS
      <4> HIDE DEF h
      <4> QED BY <3>3, <4>1 DEF R
    <3> HIDE DEF h
    <3> QED BY <3>4
  <2>3. n \in T
    <3> HIDE DEF T
    <3> QED BY <2>1, <2>2, NatSet
  <2> QED BY <2>3
<1> QED BY <1>0

(* The sections of the invocations on some executors are their code. *)
LEMMA SectionsAre ==
  ASSUME ir \in Seq(SomeOp), NEW E
  PROVE  /\ Sections(E) \in Seq(Value)
         /\ \A i \in 1 .. Len(Sections(E)) : \E k \in 1 .. Len(ir) :
              ir[k].k = "inv" /\ Sections(E)[i] \in Range(ir[k].code)
         /\ \A k \in 1 .. Len(ir) : ir[k].k = "inv" /\ ir[k].ex \in E =>
              \A v \in Range(ir[k].code) : \E i \in 1 .. Len(Sections(E)) : Sections(E)[i] = v
PROOF
<1> DEFINE B == {i \in DOMAIN ir : ir[i].k = "inv" /\ ir[i].ex \in E}
           s == FlattenSeq([i \in DOMAIN ir |-> IF i \in B THEN <<ir[i]>> ELSE << >>])
           n == Len(s)
           R(g) == g = [i \in 0 .. n |-> IF i = 0 THEN << >> ELSE g[i - 1] \o s[i].code]
           f == CHOOSE g : R(g)
<1>1. InvocationsOf(E) = s
  <2>1. InvocationsOf(E) = FlattenSeq([i \in DOMAIN ir |-> IF ir[i].k = "inv" /\ ir[i].ex \in E
                                                           THEN <<ir[i]>> ELSE << >>])
    BY DEF InvocationsOf, Kept
  <2>2. [i \in DOMAIN ir |-> IF i \in B THEN <<ir[i]>> ELSE << >>] =
        [i \in DOMAIN ir |-> IF ir[i].k = "inv" /\ ir[i].ex \in E THEN <<ir[i]>> ELSE << >>]
    OBVIOUS
  <2> QED BY <2>1, <2>2
<1>2. Sections(E) = f[n]
  <2> HIDE DEF s
  <2>1. Sections(E) = Fold(LAMBDA acc, op : acc \o op.code, << >>, s)
    BY <1>1 DEF Sections
  <2> QED BY <2>1 DEF Fold
<1>3. DOMAIN ir = 1 .. Len(ir) /\ \A i \in 1 .. Len(ir) : ir[i] \in SomeOp
  <2> HIDE DEF SomeOp
  <2> QED BY SeqRange
<1>4. B \subseteq DOMAIN ir /\ \A i \in B : ir[i].k = "inv" /\ ir[i].ex \in E
  OBVIOUS
<1>5. \A i \in 1 .. Len(ir) : ir[i].k = "inv" /\ ir[i].ex \in E => i \in B
  BY <1>3
<1> HIDE DEF B
<1>6. s \in Seq(SomeOp) /\ \E p : Picked(ir, s, p, B)
  BY <1>4, Selected
<1> HIDE DEF s
<1>7. PICK p : Picked(ir, s, p, B)
  BY <1>6
<1>8. n \in Nat /\ \A i \in 1 .. n : s[i] \in SomeOp
  <2> HIDE DEF SomeOp
  <2> QED BY <1>6
<1>9. R(f)
  <2> HIDE DEF n
  <2>1. \E g : R(g)
    BY <1>8, SectionSteps
  <2> QED BY <2>1
<1>10. \A i \in 0 .. n : f[i] = IF i = 0 THEN << >> ELSE f[i - 1] \o s[i].code
  <2> HIDE DEF f
  <2> QED BY <1>9
<1> HIDE DEF f, R, n
<1> DEFINE P(m) == /\ f[m] \in Seq(Value)
                   /\ \A i \in 1 .. Len(f[m]) : \E j \in 1 .. n : f[m][i] \in Range(s[j].code)
                   /\ \A j \in 1 .. m : \A v \in Range(s[j].code) : \E i \in 1 .. Len(f[m]) : f[m][i] = v
           T == {m \in 0 .. n : P(m)}
<1>11. 0 \in T
  <2>1. f[0] = << >>
    BY <1>8, <1>10
  <2>2. P(0)
    BY <2>1
  <2> QED BY <1>8, <2>2
<1>12. \A m \in 0 .. n - 1 : m \in T => m + 1 \in T
  <2> SUFFICES ASSUME NEW m \in 0 .. n - 1, m \in T PROVE m + 1 \in T
    OBVIOUS
  <2>1. m \in Nat /\ m + 1 \in 1 .. n /\ m + 1 \in 0 .. n /\ m + 1 # 0 /\ (m + 1) - 1 = m
        /\ \A j \in 1 .. m + 1 : j \in 1 .. m \/ j = m + 1
    BY <1>8
  <2> DEFINE a == f[m]
             b == s[m + 1].code
             r == f[m + 1]
  <2>2. r = a \o b
    BY <1>10, <2>1
  <2>3. P(m)
    OBVIOUS
  <2>4. b \in Seq(Value)
    <3>1. s[m + 1] \in SomeOp
      BY <1>8, <2>1
    <3> QED BY <3>1 DEF SomeOp
  <2>5. a \in Seq(Value)
    BY <2>3
  <2> HIDE DEF Value, a, b, r
  <2>6. /\ r \in Seq(Value) /\ Len(a) \in Nat /\ Len(b) \in Nat /\ Len(r) = Len(a) + Len(b)
        /\ \A i \in 1 .. Len(a) : i \in 1 .. Len(r) /\ r[i] = a[i]
        /\ \A i \in 1 .. Len(b) : Len(a) + i \in 1 .. Len(r) /\ r[Len(a) + i] = b[i]
        /\ \A i \in 1 .. Len(r) : i \in 1 .. Len(a) \/ (i - Len(a) \in 1 .. Len(b) /\ r[i] = b[i - Len(a)])
    BY <2>2, <2>4, <2>5
  <2>7. Range(b) = {b[i] : i \in 1 .. Len(b)}
    <3>1. DOMAIN b = 1 .. Len(b)
      BY <2>4
    <3> QED BY <3>1 DEF Range
  <2>8. ASSUME NEW i \in 1 .. Len(r) PROVE \E j \in 1 .. n : r[i] \in Range(s[j].code)
    <3>1. CASE i \in 1 .. Len(a)
      BY <2>3, <2>6, <3>1 DEF a
    <3>2. CASE i - Len(a) \in 1 .. Len(b) /\ r[i] = b[i - Len(a)]
      <4>1. r[i] \in Range(b)
        BY <2>7, <3>2
      <4> QED BY <2>1, <4>1 DEF b
    <3> QED BY <2>6, <3>1, <3>2
  <2>9. ASSUME NEW j \in 1 .. m + 1, NEW v \in Range(s[j].code) PROVE \E i \in 1 .. Len(r) : r[i] = v
    <3>1. CASE j \in 1 .. m
      <4>1. PICK i \in 1 .. Len(a) : a[i] = v
        BY <2>3, <2>9, <3>1 DEF a
      <4> QED BY <2>6, <4>1
    <3>2. CASE j = m + 1
      <4>1. PICK i \in 1 .. Len(b) : b[i] = v
        BY <2>7, <2>9, <3>2 DEF b
      <4> QED BY <2>6, <4>1
    <3> QED BY <2>1, <3>1, <3>2
  <2>10. P(m + 1)
    BY <2>6, <2>8, <2>9 DEF r
  <2> HIDE DEF P
  <2> QED BY <2>1, <2>10
<1>13. n \in 0 .. n /\ 0 .. n \subseteq T
  <2> HIDE DEF T, P
  <2>1. n \in Nat
    BY <1>8
  <2>2. 0 .. n \subseteq T
    BY <1>11, <1>12, <2>1, UpTo
  <2> QED BY <2>1, <2>2
<1>14. P(n)
  BY <1>13
<1>15. \A j \in 1 .. n : p[j] \in B /\ s[j] = ir[p[j]]
  BY <1>7 DEF Picked, n
<1>16. \A j \in 1 .. n : \A v \in Range(s[j].code) :
         \E k \in 1 .. Len(ir) : ir[k].k = "inv" /\ v \in Range(ir[k].code)
  BY <1>3, <1>4, <1>15
<1>17. \A k \in 1 .. Len(ir) : ir[k].k = "inv" /\ ir[k].ex \in E => \E j \in 1 .. n : s[j] = ir[k]
  BY <1>5, <1>7 DEF Picked, n
<1> HIDE DEF Value
<1> DEFINE c == f[n]
<1>18. /\ c \in Seq(Value)
       /\ \A i \in 1 .. Len(c) : \E j \in 1 .. n : c[i] \in Range(s[j].code)
       /\ \A j \in 1 .. n : \A v \in Range(s[j].code) : \E i \in 1 .. Len(c) : c[i] = v
  BY <1>14
<1> HIDE DEF c
<1>19. /\ \A i \in 1 .. Len(c) : \E k \in 1 .. Len(ir) : ir[k].k = "inv" /\ c[i] \in Range(ir[k].code)
       /\ \A k \in 1 .. Len(ir) : ir[k].k = "inv" /\ ir[k].ex \in E =>
            \A v \in Range(ir[k].code) : \E i \in 1 .. Len(c) : c[i] = v
  <2>1. ASSUME NEW i \in 1 .. Len(c)
        PROVE  \E k \in 1 .. Len(ir) : ir[k].k = "inv" /\ c[i] \in Range(ir[k].code)
    BY <1>16, <1>18
  <2>2. ASSUME NEW k \in 1 .. Len(ir), ir[k].k = "inv", ir[k].ex \in E, NEW v \in Range(ir[k].code)
        PROVE  \E i \in 1 .. Len(c) : c[i] = v
    <3>1. PICK j \in 1 .. n : s[j] = ir[k]
      BY <1>17, <2>2
    <3> QED BY <1>18, <2>2, <3>1
  <2> QED BY <2>1, <2>2
<1>20. Sections(E) = c
  BY <1>2 DEF c
<1> QED BY <1>18, <1>19, <1>20

(* What is in a footprint is in a wider one. *)
LEMMA WiderReaches ==
  ASSUME NEW acc, Spans(acc), NEW r, Widens(acc, r), NEW a \in Nat, NEW z \in Nat, Reaching(acc, a, z)
  PROVE  Reaching(r, a, z)
PROOF
  BY DEF Spans, Widens, Reaching

(* compute_xram_footprint takes in a segment. *)
LEMMA SegmentTaken ==
  ASSUME NEW acc, Spans(acc), NEW v, addr[Key(v)] \in Nat, SegmentSize(v) \in Nat
  PROVE  /\ Widens(acc, SegmentInFootprint(acc, v))
         /\ Reaching(SegmentInFootprint(acc, v), addr[Key(v)], SegmentSize(v))
PROOF
<1> DEFINE a == addr[Key(v)]
           z == SegmentSize(v)
           r == SegmentInFootprint(acc, v)
           least == Min({acc.lo, a})
<1>1. acc.lo \in Nat /\ acc.hi \in Nat /\ a \in Nat /\ z \in Nat /\ NssTaskSize \in Nat
  BY PipelineAssumption DEF Spans
<1>2. r.lo = least /\ r.hi = IF a + z > acc.hi THEN a + z + NssTaskSize ELSE acc.hi
  BY DEF SegmentInFootprint
<1> HIDE DEF a, z, r
<1>3. least \in {acc.lo, a} /\ least <= acc.lo /\ least <= a
  <2>1. {acc.lo, a} \subseteq Nat /\ {acc.lo, a} # {}
    BY <1>1
  <2> QED BY <2>1, LeastOf
<1> HIDE DEF least
<1>4. Widens(acc, r)
  BY <1>1, <1>2, <1>3 DEF Widens, Spans
<1>5. Reaching(r, a, z)
  BY <1>1, <1>2, <1>3 DEF Reaching
<1> QED BY <1>4, <1>5 DEF a, z, r

(* It takes in a buffer or a binding. *)
LEMMA BufferTaken ==
  ASSUME NEW acc, Spans(acc), NEW op \in SomeOp,
         op.k \in {"alloc", "binding"} => addr[Key(op.res)] \in Nat
  PROVE  /\ Widens(acc, BufferInFootprint(acc, op))
         /\ op.k \in {"alloc", "binding"} /\ op.res.sp = "xram" =>
              Reaching(BufferInFootprint(acc, op), addr[Key(op.res)], op.res.sz)
PROOF
<1> DEFINE a == addr[Key(op.res)]
           z == op.res.sz
           r == BufferInFootprint(acc, op)
           least == Min({acc.lo, a})
           most == Max({acc.hi, a + z})
<1>1. acc.lo \in Nat /\ acc.hi \in Nat
  BY DEF Spans
<1>2. CASE op.k \in {"alloc", "binding"} /\ op.res.sp = "xram"
  <2>1. r.lo = least /\ r.hi = most
    BY <1>2 DEF BufferInFootprint
  <2>2. a \in Nat /\ z \in Nat
    <3>1. op.res \in Value
      BY DEF SomeOp
    <3> QED BY <1>2, <3>1 DEF Value
  <2> HIDE DEF a, z, r
  <2>3. least \in {acc.lo, a} /\ least <= acc.lo /\ least <= a
    <3>1. {acc.lo, a} \subseteq Nat /\ {acc.lo, a} # {}
      BY <1>1, <2>2
    <3> QED BY <3>1, LeastOf
  <2>4. most \in {acc.hi, a + z} /\ acc.hi <= most /\ a + z <= most
    <3> DEFINE n == acc.hi + a + z
    <3>1. {acc.hi, a + z} \subseteq 0 .. n /\ {acc.hi, a + z} # {} /\ n \in Nat
      BY <1>1, <2>2
    <3> HIDE DEF n
    <3> QED BY <3>1, GreatestOf
  <2> HIDE DEF least, most
  <2>5. a + z \in Nat
    BY <2>2
  <2>6. Widens(acc, r)
    BY <1>1, <2>1, <2>2, <2>3, <2>4, <2>5 DEF Widens, Spans
  <2>7. Reaching(r, a, z)
    BY <2>1, <2>3, <2>4 DEF Reaching
  <2> QED BY <2>6, <2>7 DEF a, z, r
<1>3. CASE ~(op.k \in {"alloc", "binding"} /\ op.res.sp = "xram")
  <2>1. r = acc
    BY <1>3 DEF BufferInFootprint
  <2> HIDE DEF r
  <2>2. Widens(acc, r)
    BY <1>1, <2>1 DEF Widens, Spans
  <2> QED BY <1>3, <2>2 DEF r
<1> QED BY <1>2, <1>3

(* The tasks of a program are counted. *)
LEMMA TasksAreNat ==
  ASSUME NEW program, program \in Seq(SomeOp)
  PROVE  Tasks(program) \in Nat
PROOF
<1> DEFINE B == {i \in DOMAIN program : OperationSize(program[i]) = 1}
           s == FlattenSeq([i \in DOMAIN program |-> IF i \in B THEN <<program[i]>> ELSE << >>])
<1>1. Tasks(program) = Len(FlattenSeq([i \in DOMAIN program |->
                             IF OperationSize(program[i]) = 1 THEN <<program[i]>> ELSE << >>]))
  BY DEF Tasks, Kept
<1>2. [i \in DOMAIN program |-> IF i \in B THEN <<program[i]>> ELSE << >>] =
      [i \in DOMAIN program |-> IF OperationSize(program[i]) = 1 THEN <<program[i]>> ELSE << >>]
  OBVIOUS
<1>3. Tasks(program) = Len(s)
  BY <1>1, <1>2
<1>4. B \subseteq DOMAIN program
  OBVIOUS
<1> HIDE DEF B
<1>5. s \in Seq(SomeOp)
  BY <1>4, Selected
<1> HIDE DEF s, SomeOp
<1> QED BY <1>3, <1>5

(* The code segments are the sections of all the invocations. *)
LEMMA SegmentsAre ==
  ASSUME Located(ir, progs, addr), progs \in Seq(Seq(SomeOp))
  PROVE  /\ Segments \in Seq(Value)
         /\ \A i \in 1 .. Len(Segments) : addr[Key(Segments[i])] \in Nat /\ SegmentSize(Segments[i]) \in Nat
         /\ \A k \in 1 .. Len(ir) : ir[k].k = "inv" =>
              \A v \in Range(ir[k].code) : \E i \in 1 .. Len(Segments) : Segments[i] = v
PROOF
<1> DEFINE a == Sections({"css"})
           b == Sections({"slice", "nss"})
           c == a \o b
<1>1. ir \in Seq(SomeOp)
  BY DEF Located
<1>2. /\ a \in Seq(Value)
      /\ \A i \in 1 .. Len(a) : \E k \in 1 .. Len(ir) : ir[k].k = "inv" /\ a[i] \in Range(ir[k].code)
      /\ \A k \in 1 .. Len(ir) : ir[k].k = "inv" /\ ir[k].ex \in {"css"} =>
           \A v \in Range(ir[k].code) : \E i \in 1 .. Len(a) : a[i] = v
  BY <1>1, SectionsAre
<1>3. /\ b \in Seq(Value)
      /\ \A i \in 1 .. Len(b) : \E k \in 1 .. Len(ir) : ir[k].k = "inv" /\ b[i] \in Range(ir[k].code)
      /\ \A k \in 1 .. Len(ir) : ir[k].k = "inv" /\ ir[k].ex \in {"slice", "nss"} =>
           \A v \in Range(ir[k].code) : \E i \in 1 .. Len(b) : b[i] = v
  BY <1>1, SectionsAre
<1>4. Segments = c
  BY DEF Segments
<1>5. \A k \in 1 .. Len(ir) : ir[k].k = "inv" =>
        /\ ir[k].ex \in {"css", "slice", "nss"} \/ ir[k].code = << >>
        /\ \A v \in Range(ir[k].code) :
             Key(v) \in DOMAIN addr /\ (v.base[2] = "nss" => v.base[1] + 1 \in 1 .. Len(progs))
  BY DEF Located
<1> HIDE DEF a, b, Value
<1>6. /\ c \in Seq(Value) /\ Len(a) \in Nat
      /\ \A i \in 1 .. Len(a) : i \in 1 .. Len(c) /\ c[i] = a[i]
      /\ \A i \in 1 .. Len(b) : Len(a) + i \in 1 .. Len(c) /\ c[Len(a) + i] = b[i]
      /\ \A i \in 1 .. Len(c) : i \in 1 .. Len(a) \/ (i - Len(a) \in 1 .. Len(b) /\ c[i] = b[i - Len(a)])
      /\ \A i \in 1 .. Len(c) : c[i] \in Value
  BY <1>2, <1>3
<1> HIDE DEF c
<1>7. ASSUME NEW i \in 1 .. Len(c)
      PROVE  addr[Key(c[i])] \in Nat /\ SegmentSize(c[i]) \in Nat
  <2>1. \E k \in 1 .. Len(ir) : ir[k].k = "inv" /\ c[i] \in Range(ir[k].code)
    <3>1. CASE i \in 1 .. Len(a)
      BY <1>2, <1>6, <3>1
    <3>2. CASE i - Len(a) \in 1 .. Len(b) /\ c[i] = b[i - Len(a)]
      BY <1>3, <3>2
    <3> QED BY <1>6, <3>1, <3>2
  <2>2. Key(c[i]) \in DOMAIN addr /\ (c[i].base[2] = "nss" => c[i].base[1] + 1 \in 1 .. Len(progs))
    BY <1>5, <2>1
  <2>3. addr[Key(c[i])] \in Nat
    BY <2>2 DEF Located, Naturals
  <2>4. CASE c[i].base[2] = "nss"
    <3> DEFINE pr == progs[c[i].base[1] + 1]
    <3>1. pr \in Seq(SomeOp)
      <4> HIDE DEF SomeOp
      <4> QED BY <2>2, <2>4, SeqRange
    <3>2. SegmentSize(c[i]) = Tasks(pr)
      BY <2>4 DEF SegmentSize
    <3> HIDE DEF pr
    <3> QED BY <2>3, <3>1, <3>2, TasksAreNat
  <2>5. CASE c[i].base[2] # "nss"
    <3>1. SegmentSize(c[i]) = c[i].sz /\ c[i] \in Value
      BY <1>6, <2>5 DEF SegmentSize
    <3> QED BY <2>3, <3>1 DEF Value
  <2> QED BY <2>4, <2>5
<1>8. ASSUME NEW k \in 1 .. Len(ir), ir[k].k = "inv", NEW v \in Range(ir[k].code)
      PROVE  \E i \in 1 .. Len(c) : c[i] = v
  <2>1. CASE ir[k].ex \in {"css"}
    BY <1>2, <1>6, <1>8, <2>1
  <2>2. CASE ir[k].ex \in {"slice", "nss"}
    <3>1. PICK i \in 1 .. Len(b) : b[i] = v
      BY <1>3, <1>8, <2>2
    <3> QED BY <1>6, <3>1
  <2>3. CASE ir[k].code = << >>
    <3>1. Range(ir[k].code) = {}
      BY <2>3, RangeOf
    <3> QED BY <1>8, <3>1
  <2> QED BY <1>5, <1>8, <2>1, <2>2, <2>3
<1> QED BY <1>4, <1>6, <1>7, <1>8

(* All the segments are taken in. *)
LEMMA SegmentsTaken ==
  ASSUME NEW s \in Seq(Value), NEW base, Spans(base),
         \A i \in 1 .. Len(s) : addr[Key(s[i])] \in Nat /\ SegmentSize(s[i]) \in Nat
  PROVE  LET r == Fold(SegmentInFootprint, base, s)
         IN  /\ Spans(r)
             /\ \A i \in 1 .. Len(s) : Reaching(r, addr[Key(s[i])], SegmentSize(s[i]))
PROOF
<1> DEFINE n == Len(s)
           R(g) == g = [i \in 0 .. n |-> IF i = 0 THEN base ELSE SegmentInFootprint(g[i - 1], s[i])]
           f == CHOOSE g : R(g)
<1>1. n \in Nat
  BY SeqRange
<1>2. Fold(SegmentInFootprint, base, s) = f[n]
  BY DEF Fold
<1>3. R(f)
  <2>1. \A m \in Nat : \A t, b : \E g :
          g = [i \in 0 .. m |-> IF i = 0 THEN b ELSE SegmentInFootprint(g[i - 1], t[i])]
    BY SegmentSteps
  <2> HIDE DEF n
  <2>2. \A b : \E g : g = [i \in 0 .. n |-> IF i = 0 THEN b ELSE SegmentInFootprint(g[i - 1], s[i])]
    BY <1>1, <2>1
  <2> QED BY <2>2
<1>4. \A i \in 0 .. n : f[i] = IF i = 0 THEN base ELSE SegmentInFootprint(f[i - 1], s[i])
  <2> HIDE DEF f
  <2> QED BY <1>3
<1> HIDE DEF f, R, n
<1> DEFINE P(m) == /\ Spans(f[m])
                   /\ \A i \in 1 .. m : Reaching(f[m], addr[Key(s[i])], SegmentSize(s[i]))
           T == {m \in 0 .. n : P(m)}
<1>5. 0 \in T
  BY <1>1, <1>4
<1>6. \A m \in 0 .. n - 1 : m \in T => m + 1 \in T
  <2> SUFFICES ASSUME NEW m \in 0 .. n - 1, m \in T PROVE m + 1 \in T
    OBVIOUS
  <2>1. /\ m \in Nat /\ m + 1 \in 1 .. n /\ m + 1 \in 0 .. n /\ m + 1 # 0 /\ (m + 1) - 1 = m
        /\ \A i \in 1 .. m + 1 : i \in 1 .. n /\ (i \in 1 .. m \/ i = m + 1)
    BY <1>1
  <2> DEFINE acc == f[m]
             r == SegmentInFootprint(acc, s[m + 1])
  <2>2. f[m + 1] = r
    BY <1>4, <2>1
  <2>3. P(m)
    OBVIOUS
  <2>4. \A i \in 1 .. n : addr[Key(s[i])] \in Nat /\ SegmentSize(s[i]) \in Nat
    BY DEF n
  <2> HIDE DEF r, acc
  <2>5. Widens(acc, r) /\ Reaching(r, addr[Key(s[m + 1])], SegmentSize(s[m + 1]))
    BY <2>1, <2>3, <2>4, SegmentTaken DEF r, acc
  <2>6. ASSUME NEW i \in 1 .. m + 1 PROVE Reaching(r, addr[Key(s[i])], SegmentSize(s[i]))
    <3>1. CASE i \in 1 .. m
      BY <2>1, <2>3, <2>4, <2>5, <3>1, WiderReaches DEF acc
    <3> QED BY <2>1, <2>5, <3>1
  <2>7. P(m + 1)
    BY <2>2, <2>5, <2>6 DEF Widens
  <2> HIDE DEF P
  <2> QED BY <2>1, <2>7
<1>7. P(n)
  <2> HIDE DEF T, P
  <2>1. 0 .. n \subseteq T
    BY <1>1, <1>5, <1>6, UpTo
  <2>2. n \in T
    BY <1>1, <2>1
  <2> QED BY <2>2 DEF T
<1> QED BY <1>2, <1>7 DEF n

(* So are all the buffers and the bindings. *)
LEMMA BuffersTaken ==
  ASSUME NEW s \in Seq(SomeOp), NEW base, Spans(base),
         \A i \in 1 .. Len(s) : s[i].k \in {"alloc", "binding"} => addr[Key(s[i].res)] \in Nat
  PROVE  LET r == Fold(BufferInFootprint, base, s)
         IN  /\ Widens(base, r)
             /\ \A i \in 1 .. Len(s) : s[i].k \in {"alloc", "binding"} /\ s[i].res.sp = "xram" =>
                  Reaching(r, addr[Key(s[i].res)], s[i].res.sz)
PROOF
<1> DEFINE n == Len(s)
           R(g) == g = [i \in 0 .. n |-> IF i = 0 THEN base ELSE BufferInFootprint(g[i - 1], s[i])]
           f == CHOOSE g : R(g)
           B(i) == s[i].k \in {"alloc", "binding"} /\ s[i].res.sp = "xram"
<1>1. n \in Nat /\ \A i \in 1 .. n : s[i] \in SomeOp
  <2> HIDE DEF SomeOp
  <2> QED BY SeqRange
<1>2. Fold(BufferInFootprint, base, s) = f[n]
  BY DEF Fold
<1>3. R(f)
  <2>1. \A m \in Nat : \A t, b : \E g :
          g = [i \in 0 .. m |-> IF i = 0 THEN b ELSE BufferInFootprint(g[i - 1], t[i])]
    BY BufferSteps
  <2> HIDE DEF n
  <2>2. \A b : \E g : g = [i \in 0 .. n |-> IF i = 0 THEN b ELSE BufferInFootprint(g[i - 1], s[i])]
    BY <1>1, <2>1
  <2> QED BY <2>2
<1>4. \A i \in 0 .. n : f[i] = IF i = 0 THEN base ELSE BufferInFootprint(f[i - 1], s[i])
  <2> HIDE DEF f
  <2> QED BY <1>3
<1>5. \A i \in 1 .. n : s[i].k \in {"alloc", "binding"} => addr[Key(s[i].res)] \in Nat
  OBVIOUS
<1>6. \A i \in 1 .. n : B(i) => addr[Key(s[i].res)] \in Nat /\ s[i].res.sz \in Nat
  BY <1>1, <1>5 DEF SomeOp, Value
<1> HIDE DEF f, R, n, B
<1> DEFINE P(m) == /\ Widens(base, f[m])
                   /\ \A i \in 1 .. m : B(i) => Reaching(f[m], addr[Key(s[i].res)], s[i].res.sz)
           T == {m \in 0 .. n : P(m)}
<1>7. 0 \in T
  <2>1. Widens(base, base)
    BY DEF Widens, Spans
  <2> QED BY <1>1, <1>4, <2>1
<1>8. \A m \in 0 .. n - 1 : m \in T => m + 1 \in T
  <2> SUFFICES ASSUME NEW m \in 0 .. n - 1, m \in T PROVE m + 1 \in T
    OBVIOUS
  <2>1. /\ m \in Nat /\ m + 1 \in 1 .. n /\ m + 1 \in 0 .. n /\ m + 1 # 0 /\ (m + 1) - 1 = m
        /\ \A i \in 1 .. m + 1 : i \in 1 .. n /\ (i \in 1 .. m \/ i = m + 1)
    BY <1>1
  <2> DEFINE acc == f[m]
             r == BufferInFootprint(acc, s[m + 1])
  <2>2. f[m + 1] = r
    BY <1>4, <2>1
  <2>3. P(m)
    OBVIOUS
  <2>4. Spans(acc)
    BY <2>3 DEF Widens
  <2> HIDE DEF r, acc
  <2>5. Widens(acc, r) /\ (B(m + 1) => Reaching(r, addr[Key(s[m + 1].res)], s[m + 1].res.sz))
    BY <1>1, <1>5, <2>1, <2>4, BufferTaken DEF r, B
  <2>6. ASSUME NEW i \in 1 .. m + 1, B(i) PROVE Reaching(r, addr[Key(s[i].res)], s[i].res.sz)
    <3>1. CASE i \in 1 .. m
      <4>1. Reaching(acc, addr[Key(s[i].res)], s[i].res.sz)
        BY <2>3, <2>6, <3>1 DEF acc
      <4> QED BY <1>6, <2>1, <2>4, <2>5, <2>6, <4>1, WiderReaches
    <3> QED BY <2>1, <2>5, <2>6, <3>1
  <2>7. Widens(base, r)
    <3>1. Widens(base, acc)
      BY <2>3 DEF acc
    <3> QED BY <2>5, <3>1 DEF Widens, Spans
  <2>8. P(m + 1)
    BY <2>2, <2>6, <2>7
  <2> HIDE DEF P
  <2> QED BY <2>1, <2>8
<1>9. P(n)
  <2> HIDE DEF T, P
  <2>1. 0 .. n \subseteq T
    BY <1>1, <1>7, <1>8, UpTo
  <2>2. n \in T
    BY <1>1, <2>1
  <2> QED BY <2>2 DEF T
<1> QED BY <1>2, <1>9 DEF n, B

(* All that is defined in XRAM, but for NSS programs, is in the footprint. *)
LEMMA FootprintTakes ==
  ASSUME Located(ir, progs, addr), progs \in Seq(Seq(SomeOp)),
         NEW k \in 1 .. Len(ir), NEW d \in Defs(ir[k]), d.sp = "xram", d.base[2] # "nss"
  PROVE  /\ Spans(Footprint)
         /\ addr[Key(d)] \in Nat /\ d.sz \in Nat /\ Reaching(Footprint, addr[Key(d)], d.sz)
PROOF
<1> DEFINE c == Segments
           base == [lo |-> addr[NextFreeXram], hi |-> 0]
           segs == Fold(SegmentInFootprint, base, c)
           all == Fold(BufferInFootprint, segs, ir)
           a == addr[Key(d)]
<1>1. Footprint = all
  BY DEF Footprint
<1>2. ir \in Seq(SomeOp) /\ ir[k] \in SomeOp
  <2>1. ir \in Seq(SomeOp)
    BY DEF Located
  <2> HIDE DEF SomeOp
  <2> QED BY <2>1
<1>3. Spans(base)
  <2>1. addr[NextFreeXram] \in Nat
    BY DEF Located, Naturals
  <2> QED BY <2>1 DEF Spans
<1>4. /\ c \in Seq(Value)
      /\ \A i \in 1 .. Len(c) : addr[Key(c[i])] \in Nat /\ SegmentSize(c[i]) \in Nat
      /\ \A j \in 1 .. Len(ir) : ir[j].k = "inv" => \A v \in Range(ir[j].code) : \E i \in 1 .. Len(c) : c[i] = v
  BY SegmentsAre
<1> HIDE DEF c, base
<1>5. Spans(segs) /\ \A i \in 1 .. Len(c) : Reaching(segs, addr[Key(c[i])], SegmentSize(c[i]))
  BY <1>3, <1>4, SegmentsTaken
<1> HIDE DEF segs
<1>6. \A i \in 1 .. Len(ir) : ir[i].k \in {"alloc", "binding"} => addr[Key(ir[i].res)] \in Nat
  BY DEF Located, Naturals
<1>7. /\ Widens(segs, all)
      /\ \A i \in 1 .. Len(ir) : ir[i].k \in {"alloc", "binding"} /\ ir[i].res.sp = "xram" =>
           Reaching(all, addr[Key(ir[i].res)], ir[i].res.sz)
  BY <1>2, <1>5, <1>6, BuffersTaken
<1> HIDE DEF all, a
<1>10. Spans(all)
  BY <1>7 DEF Widens
<1>8. CASE ir[k].k \in {"alloc", "binding"}
  <2>1. d = ir[k].res
    BY <1>8 DEF Defs
  <2>2. d \in Value /\ a \in Nat
    BY <1>2, <1>6, <1>8, <2>1 DEF SomeOp, a
  <2>3. Reaching(all, a, d.sz)
    BY <1>7, <1>8, <2>1 DEF a
  <2> QED BY <1>1, <1>10, <2>2, <2>3 DEF Value, a
<1>9. CASE ir[k].k = "inv"
  <2>1. d \in Range(ir[k].code)
    BY <1>9 DEF Defs
  <2>2. PICK i \in 1 .. Len(c) : c[i] = d
    BY <1>4, <1>9, <2>1
  <2>3. SegmentSize(d) = d.sz
    BY DEF SegmentSize
  <2>4. a \in Nat /\ d.sz \in Nat /\ Reaching(segs, a, d.sz)
    BY <1>4, <1>5, <2>2, <2>3 DEF a
  <2>5. Reaching(all, a, d.sz)
    BY <1>5, <1>7, <2>4, WiderReaches
  <2> QED BY <1>1, <1>10, <2>4, <2>5 DEF a
<1> QED BY <1>8, <1>9 DEF Defs
-----------------------------------------------------------------------------
(* The run.                                                                 *)

(* What a definition covers is where the definition is. *)
LEMMA CoveredIsThere ==
  ASSUME NEW d, NEW v \in Value, Covers(d, v), addr[Key(d)] \in Nat, d.sz \in Nat,
         NEW acc, Spans(acc), Reaching(acc, addr[Key(d)], d.sz), NEW w \in WordsOf(v)
  PROVE  Cell(v, w)[2] >= acc.lo /\ Cell(v, w)[2] < acc.hi
PROOF
<1> DEFINE a == addr[Key(d)]
           at == IF IsBinding(v) THEN addr[<<v.base, 0>>] + v.it * Words ELSE addr[Key(v)]
           p == Cell(v, w)[2]
<1>1. p = at + v.off + w
  BY DEF Cell
<1>2. v.it \in Nat /\ v.off \in Nat /\ v.sz \in Nat
  BY DEF Value
<1>3. w \in Nat /\ w < v.sz
  BY <1>2 DEF WordsOf
<1>4. a \in Nat /\ d.sz \in Nat /\ acc.lo \in Nat /\ acc.hi \in Nat /\ acc.lo <= a /\ a + d.sz <= acc.hi
  BY DEF Spans, Reaching
<1> HIDE DEF p
<1>5. CASE IsBinding(v)
  <2>1. d.base = v.base /\ d.it = 0 /\ v.off + v.sz <= 2 /\ (v.it + 1) * 2 <= d.sz
    BY <1>5 DEF Covers, Words
  <2>2. Key(d) = <<v.base, 0>>
    BY <2>1 DEF Key
  <2>3. at = a + v.it * 2
    BY <1>5, <2>2 DEF Words
  <2> DEFINE z == d.sz
             i == v.it
             o == v.off
             s == v.sz
             lo == acc.lo
             hi == acc.hi
  <2>4. /\ a \in Nat /\ z \in Nat /\ lo \in Nat /\ hi \in Nat /\ i \in Nat /\ o \in Nat /\ s \in Nat /\ w \in Nat
        /\ w < s /\ lo <= a /\ a + z <= hi /\ o + s <= 2 /\ (i + 1) * 2 <= z
        /\ p = (a + i * 2) + o + w
    BY <1>1, <1>2, <1>3, <1>4, <2>1, <2>3
  <2> HIDE DEF a, z, i, o, s, lo, hi
  <2>5. p >= lo /\ p < hi
    BY <2>4
  <2> QED BY <2>5 DEF p, lo, hi
<1>6. CASE ~IsBinding(v)
  <2>1. d.base = v.base /\ d.it = v.it /\ v.off + v.sz <= d.sz
    BY <1>6 DEF Covers
  <2>2. Key(d) = Key(v)
    BY <2>1 DEF Key
  <2>3. at = a
    BY <1>6, <2>2
  <2> HIDE DEF at, a
  <2>4. p >= acc.lo /\ p < acc.hi
    BY <1>1, <1>2, <1>3, <1>4, <2>1, <2>3
  <2> QED BY <2>4 DEF p
<1> QED BY <1>5, <1>6

(* The operations of the run. *)
LEMMA RunOpTyped ==
  ASSUME NEW h, NEW pr, h \in Seq(SomeOp), pr \in Seq(Seq(SomeOp)), StartsWaitedFor(h, pr),
         NEW x \in RunSteps(h, pr)
  PROVE  RunOp(h, pr, x) \in SomeOp
PROOF
<1>1. Len(h) \in Nat /\ \A i \in 1 .. Len(h) : h[i] \in SomeOp
  BY SeqRange
<1>2. Len(pr) \in Nat /\ \A q \in 1 .. Len(pr) : pr[q] \in Seq(SomeOp)
  BY SeqRange
<1>3. /\ x[1] \in 1 .. Len(h) /\ x[2] \in Nat
      /\ x[2] # 0 => x \in NssSteps(h, pr) /\ StartsNss(h[x[1]]) /\ RunOp(h, pr, x) = NssStep(h, pr, x)
      /\ x[2] = 0 => RunOp(h, pr, x) = h[x[1]]
  BY <1>1, RunStepIs
<1>4. CASE x[2] = 0
  BY <1>1, <1>3, <1>4
<1>5. CASE x[2] # 0
  <2> DEFINE u == h[x[1]].inv.id[1]
             s == pr[u + 1]
  <2>1. u \in 0 .. Len(pr) - 1
    BY <1>3, <1>5 DEF StartsWaitedFor
  <2>2. x[2] \in 1 .. Len(s) /\ RunOp(h, pr, x) = s[x[2]]
    BY <1>3, <1>5 DEF NssSteps, NssStep, ProgramOf
  <2> HIDE DEF u
  <2>3. u + 1 \in 1 .. Len(pr)
    BY <1>2, <2>1
  <2>4. s \in Seq(SomeOp)
    BY <1>2, <2>3
  <2> HIDE DEF s, SomeOp
  <2> QED BY <2>2, <2>4
<1> QED BY <1>4, <1>5

(* The footprint that Serialize computes has all that the run reaches. *)
LEMMA SerializeMaps ==
  ASSUME Located(ir, progs, addr), StepsCovered(ir, progs), Outlined(ir, progs, slice), Serialize
  PROVE  RunMapped'
PROOF
<1> DEFINE B == {i \in DOMAIN ir : ir[i].k \notin {"inv", "binding", "view"}}
           t == FlattenSeq([i \in DOMAIN ir |-> IF i \in B THEN <<ir[i]>> ELSE << >>])
<1>0. ir \in Seq(SomeOp) /\ progs \in Seq(Seq(SomeOp)) /\ StartsWaitedFor(ir, progs)
  BY DEF Outlined
<1>1. DOMAIN ir = 1 .. Len(ir) /\ Len(ir) \in Nat
  <2> HIDE DEF SomeOp
  <2> QED BY <1>0, SeqRange
<1>2. ir' = FlattenSeq([i \in DOMAIN ir |-> IF ir[i].k \notin {"inv", "binding", "view"}
                                            THEN <<ir[i]>> ELSE << >>])
      /\ progs' = progs /\ addr' = addr /\ footprint' = Footprint
  BY DEF Serialize, Kept
<1>3. [i \in DOMAIN ir |-> IF i \in B THEN <<ir[i]>> ELSE << >>] =
      [i \in DOMAIN ir |-> IF ir[i].k \notin {"inv", "binding", "view"} THEN <<ir[i]>> ELSE << >>]
  OBVIOUS
<1>4. ir' = t
  BY <1>2, <1>3
<1>5. B \subseteq DOMAIN ir /\ \A i \in B : ir[i].k # "inv"
  OBVIOUS
<1> HIDE DEF B
<1>6. t \in Seq(SomeOp) /\ \E g : Picked(ir, t, g, B)
  BY <1>0, <1>5, Selected
<1> HIDE DEF t
<1>7. PICK g : Picked(ir, t, g, B)
  BY <1>6
<1>8. Len(t) \in Nat /\ \A k \in 1 .. Len(t) : g[k] \in 1 .. Len(ir) /\ t[k] = ir[g[k]] /\ t[k].k # "inv"
  <2>1. Len(t) \in Nat
    BY <1>6, SeqRange
  <2>2. g \in [1 .. Len(t) -> B] /\ \A k \in 1 .. Len(t) : t[k] = ir[g[k]]
    BY <1>7 DEF Picked
  <2> QED BY <1>1, <1>5, <2>1, <2>2
(* A step of the run was one before, and is no invocation of the host. *)
<1>9. ASSUME NEW x \in RunSteps(t, progs)
      PROVE  \E z \in RunSteps(ir, progs) : /\ RunOp(ir, progs, z) = RunOp(t, progs, x)
                                            /\ z[2] = 0 => RunOp(ir, progs, z).k # "inv"
  <2> DEFINE k == x[1]
  <2>1. /\ k \in 1 .. Len(t) /\ x[2] \in Nat
        /\ x[2] # 0 => x \in NssSteps(t, progs) /\ StartsNss(t[k]) /\ RunOp(t, progs, x) = NssStep(t, progs, x)
        /\ x[2] = 0 => RunOp(t, progs, x) = t[k]
    BY <1>8, RunStepIs
  <2>2. PICK z : z = <<g[k], x[2]>>
    OBVIOUS
  <2>3. g[k] \in 1 .. Len(ir) /\ t[k] = ir[g[k]] /\ t[k].k # "inv" /\ z[1] = g[k] /\ z[2] = x[2]
    BY <1>8, <2>1, <2>2
  <2> HIDE DEF k
  <2>4. CASE x[2] = 0
    <3>1. z \in RunSteps(ir, progs) /\ RunOp(ir, progs, z) = ir[g[k]]
      BY <2>2, <2>3, <2>4 DEF RunSteps, RunOp
    <3> QED BY <2>1, <2>3, <2>4, <3>1
  <2>5. CASE x[2] # 0
    <3>1. x[2] \in 1 .. Len(ProgramOf(t, progs, k)) /\ NssStep(t, progs, x) = ProgramOf(t, progs, k)[x[2]]
      BY <2>1, <2>5 DEF NssSteps, NssStep, k
    <3>2. ProgramOf(t, progs, k) = ProgramOf(ir, progs, g[k])
      BY <2>3 DEF ProgramOf
    <3>3. z \in NssSteps(ir, progs) /\ NssStep(ir, progs, z) = NssStep(t, progs, x)
      BY <2>1, <2>2, <2>3, <2>5, <3>1, <3>2 DEF NssSteps, NssStep
    <3> QED BY <2>1, <2>3, <2>5, <3>3 DEF RunSteps, RunOp
  <2> QED BY <2>4, <2>5
<1>10. ASSUME NEW x \in RunSteps(t, progs), NEW v \in XramOf(RunOp(t, progs, x)), v.base[2] # "nss",
              NEW w \in WordsOf(v)
       PROVE  Cell(v, w)[2] >= Footprint.lo /\ Cell(v, w)[2] < Footprint.hi
  <2>1. PICK z \in RunSteps(ir, progs) : /\ RunOp(ir, progs, z) = RunOp(t, progs, x)
                                         /\ z[2] = 0 => RunOp(ir, progs, z).k # "inv"
    BY <1>9
  <2>2. PICK k \in 1 .. Len(ir) : \E d \in Defs(ir[k]) : Covers(d, v)
    BY <1>10, <2>1 DEF StepsCovered
  <2>3. PICK d \in Defs(ir[k]) : Covers(d, v)
    BY <2>2
  <2>4. v \in Operands(RunOp(ir, progs, z)) /\ v.sp = "xram"
    BY <2>1 DEF XramOf
  <2>5. v \in Value
    BY <1>0, <2>4, RunOpTyped, OperandTyped
  <2>6. d.sp = "xram" /\ d.base[2] # "nss"
    BY <1>10, <2>3, <2>4 DEF Covers
  <2>7. Spans(Footprint) /\ addr[Key(d)] \in Nat /\ d.sz \in Nat /\ Reaching(Footprint, addr[Key(d)], d.sz)
    BY <1>0, <2>6, FootprintTakes
  <2> QED BY <2>3, <2>5, <2>7, CoveredIsThere
<1>11. \A v, w : Cell(v, w)' = Cell(v, w)
  BY <1>2 DEF Cell
<1>12. ASSUME NEW x \in RunSteps(t, progs), NEW v \in XramOf(RunOp(t, progs, x)), v.base[2] # "nss"
       PROVE  InFootprint(v)'
  <2>1. \A w \in WordsOf(v) : Cell(v, w)'[2] >= footprint'.lo /\ Cell(v, w)'[2] < footprint'.hi
    BY <1>2, <1>10, <1>11, <1>12
  <2> QED BY <2>1 DEF InFootprint
<1>13. RunSteps(ir, progs)' = RunSteps(t, progs) /\ \A x : RunOp(ir, progs, x)' = RunOp(t, progs, x)
  BY <1>2, <1>4
<1> QED BY <1>12, <1>13 DEF RunMapped

(* Nothing is planned before the function is built. *)
LEMMA XramInit ==
  ASSUME Init PROVE XramInv
PROOF
  BY BufferInit DEF Init, XramInv

(* What the run leaves alone. *)
LEMMA MappedSame ==
  ASSUME RunMapped, UNCHANGED <<ir, progs, addr, footprint>>
  PROVE  RunMapped'
PROOF
<1>1. ir' = ir /\ progs' = progs /\ addr' = addr /\ footprint' = footprint
  OBVIOUS
<1>2. \A v, w : Cell(v, w)' = Cell(v, w)
  BY <1>1 DEF Cell
<1>3. \A v : InFootprint(v) => InFootprint(v)'
  BY <1>1, <1>2 DEF InFootprint
<1>4. RunSteps(ir, progs)' = RunSteps(ir, progs) /\ \A x : RunOp(ir, progs, x)' = RunOp(ir, progs, x)
  BY <1>1
<1> QED BY <1>3, <1>4 DEF RunMapped

(* The passes and the run keep the invariant. *)
LEMMA XramNext ==
  ASSUME XramInv, [Next]_vars
  PROVE  XramInv'
PROOF
<1>0. BufferInv /\ BufferInv' /\ PassInv /\ PassInv' /\ PassLives
  BY BufferNext DEF XramInv, BufferInv, TurnInv
<1>1. CASE Build \/ Finish \/ TakeMeaning \/ LowerCalls \/ OutlineSlices \/ UnrollForall
           \/ ScheduleSliceTasks \/ Canonicalize
  <2>1. stage' \notin {"assign", "outlineNSS", "serialize", "run", "done"}
    BY <1>1 DEF Build, SourceLoad, SourceKernel, SourceKernelInto, SourceView, SourceCss, SourceHost,
                SourceForall, Append1, Finish, TakeMeaning, LowerCalls, OutlineSlices, UnrollForall,
                ScheduleSliceTasks, Canonicalize, Pass
  <2> QED BY <1>0, <2>1 DEF XramInv
<1>2. CASE AddDeallocation
  <2>1. stage = "deallocate" /\ stage' = "assign"
    BY <1>2 DEF AddDeallocation, Pass
  <2>2. Shaped(ir) /\ Covered(ir)
    BY <1>0, <2>1 DEF PassLives, Ready, Allocated, Covered
  <2>3. Covered(ir')
    BY <1>2, <2>2, AddDeallocationCovers
  <2> QED BY <1>0, <2>1, <2>3 DEF XramInv
<1>3. CASE AssignAddresses
  <2>1. stage = "assign" /\ stage' \in {"outlineNSS", "failed"} /\ ir' = ir
    BY <1>3 DEF AssignAddresses, Pass
  <2>2. Planned(ir, slice) /\ Covered(ir)
    BY <1>0, <2>1 DEF PassInv, XramInv
  <2>3. stage' = "outlineNSS" => Addressed(ir', addr')
    BY <1>3, <2>2, AssignsAddresses
  <2>4. Covered(ir')
    BY <2>1, <2>2
  <2> QED BY <1>0, <2>1, <2>3, <2>4 DEF XramInv
<1>4. CASE OutlineNSSPrograms
  <2>1. stage = "outlineNSS" /\ stage' = "serialize"
    BY <1>4 DEF OutlineNSSPrograms, Pass
  <2>2. Planned(ir, slice) /\ Covered(ir) /\ Addressed(ir, addr)
    BY <1>0, <2>1 DEF PassInv, XramInv
  <2>3. Located(ir', progs', addr') /\ StepsCovered(ir', progs')
    BY <1>4, <2>2, OutlinedIsLocated
  <2> QED BY <1>0, <2>1, <2>3 DEF XramInv
<1>5. CASE Serialize
  <2>1. stage = "serialize" /\ stage' = "run"
    BY <1>5 DEF Serialize
  <2>2. Located(ir, progs, addr) /\ StepsCovered(ir, progs) /\ Outlined(ir, progs, slice)
    BY <1>0, <2>1 DEF PassInv, XramInv
  <2>3. RunMapped'
    BY <1>5, <2>2, SerializeMaps
  <2> QED BY <1>0, <2>1, <2>3 DEF XramInv
<1>6. CASE HostAction \/ StartNSS \/ WaitNSS \/ NssCopy \/ NssStart \/ NssWait \/ Complete \/ ReadBack
  <2>1. /\ stage = "run" /\ stage' \in {"run", "done"}
        /\ ir' = ir /\ progs' = progs /\ addr' = addr /\ footprint' = footprint
    BY <1>6 DEF HostAction, StartNSS, WaitNSS, NssCopy, NssStart, NssWait, Complete, ReadBack,
                RunStep, planVars
  <2>2. RunMapped
    BY <2>1 DEF XramInv
  <2>3. RunMapped'
    BY <2>1, <2>2, MappedSame
  <2> QED BY <1>0, <2>1, <2>3 DEF XramInv
<1>7. CASE UNCHANGED vars
  <2>1. /\ stage' = stage /\ ir' = ir /\ progs' = progs /\ addr' = addr /\ footprint' = footprint
    BY <1>7 DEF vars, planVars
  <2>2. RunMapped => RunMapped'
    BY <2>1, MappedSame
  <2> QED BY <1>0, <2>1, <2>2 DEF XramInv
<1> QED BY <1>1, <1>2, <1>3, <1>4, <1>5, <1>6, <1>7 DEF Next, Terminated

(* The invariant says that what is going on reaches the footprint only. *)
LEMMA XramMeans ==
  ASSUME XramInv
  PROVE  XramIsMapped
PROOF
<1>1. CASE stage \in {"run", "done"}
  <2>1. Outlined(ir, progs, slice) /\ RunInv /\ RunMapped
    BY <1>1 DEF XramInv, BufferInv, TurnInv, PassInv
  <2>2. NssAtStart /\ Len(ir) \in Nat
    <3>1. ir \in Seq(SomeOp)
      BY <2>1 DEF Outlined
    <3> QED BY <2>1, <3>1, SeqRange DEF RunInv
  <2>3. ASSUME NEW op \in GoingOn
        PROVE  \E x \in RunSteps(ir, progs) : RunOp(ir, progs, x) = op
    <3>1. CASE op \in flying
      <4>1. PICK x \in NssSteps(ir, progs) : NssStep(ir, progs, x) = op
        BY <2>1, <3>1 DEF RunInv, Flies
      <4>2. x[2] # 0
        BY <4>1 DEF NssSteps
      <4> QED BY <4>1, <4>2 DEF RunSteps, RunOp
    <3>2. CASE Running /\ ~NssHasEnded /\ op = NssOp
      <4>1. PICK x : x = <<hpc - 1, nss.pc>>
        OBVIOUS
      <4>2. x \in NssSteps(ir, progs) /\ NssStep(ir, progs, x) = NssOp
        BY <2>1, <2>2, <3>2, <4>1, NssTaskAt
      <4>3. x[2] # 0
        BY <4>2 DEF NssSteps
      <4> QED BY <3>2, <4>2, <4>3 DEF RunSteps, RunOp
    <3>3. CASE hpc <= Len(ir) /\ op = HostOp
      <4>1. hpc \in 1 .. Len(ir)
        BY <2>2, <3>3 DEF NssAtStart
      <4>2. PICK x : x = <<hpc, 0>>
        OBVIOUS
      <4> QED BY <3>3, <4>1, <4>2 DEF RunSteps, RunOp, HostOp
    <3> QED BY <2>3, <3>1, <3>2, <3>3 DEF GoingOn
  <2> QED BY <2>1, <2>3 DEF XramIsMapped, RunMapped
<1>2. CASE stage \notin {"run", "done"}
  <2>1. flying = {} /\ ~Running
    BY <1>2 DEF XramInv, BufferInv, TurnInv, NotStarted, NssIdle, Running
  <2>2. GoingOn = {}
    BY <1>2, <2>1 DEF GoingOn
  <2> QED BY <2>2 DEF XramIsMapped
<1> QED BY <1>1, <1>2

(* The footprint that compute_xram_footprint maps is large enough: whatever *)
(* the source, the buffers, bindings and code sections that an operation    *)
(* going on reaches in XRAM are in it.                                      *)
THEOREM XramStaysMapped == Spec => []XramIsMapped
PROOF
<1>1. Init => XramInv
  BY XramInit
<1>2. XramInv /\ [Next]_vars => XramInv'
  BY XramNext
<1>3. XramInv => XramIsMapped
  BY XramMeans
<1> QED BY <1>1, <1>2, <1>3, PTL DEF Spec
=============================================================================
