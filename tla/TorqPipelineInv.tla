-------------------------- MODULE TorqPipelineInv --------------------------
(***************************************************************************)
(* What each pass of TorqPipeline leaves the next one, and what holds       *)
(* during the run: the parts of the inductive invariants TurnInv and        *)
(* BufferInv, and how a pass relates what it makes to what it is given.     *)
(***************************************************************************)
EXTENDS TorqPipeline

-----------------------------------------------------------------------------
(* Sequences of sequences: the places of their elements, and the order in   *)
(* which FlattenSeq puts them.                                              *)
Places(ss) == {x \in (1 .. Len(ss)) \X Nat : x[2] \in 1 .. Len(ss[x[1]])}

Earlier(x, y) == x[1] < y[1] \/ (x[1] = y[1] /\ x[2] < y[2])

(* The first m sequences of ss are t, element k of t being at place p[k].   *)
ArrangedTo(m, ss, t, p) ==
  /\ p \in [1 .. Len(t) -> Places(ss)]
  /\ \A k \in 1 .. Len(t) : t[k] = ss[p[k][1]][p[k][2]] /\ p[k][1] <= m
  /\ \A k, l \in 1 .. Len(t) : k < l => Earlier(p[k], p[l])
  /\ \A x \in Places(ss) : x[1] <= m => \E k \in 1 .. Len(t) : p[k] = x

Arranged(ss, t, p) == ArrangedTo(Len(ss), ss, t, p)

(* p is one to one, and keeps the order both ways.                          *)
Ordered(ss, t, p) ==
  /\ \A k \in 1 .. Len(t) : /\ p[k][1] \in 1 .. Len(ss)
                            /\ p[k][2] \in 1 .. Len(ss[p[k][1]])
                            /\ p[k] = <<p[k][1], p[k][2]>>
                            /\ t[k] = ss[p[k][1]][p[k][2]]
  /\ \A k, l \in 1 .. Len(t) : p[k] = p[l] => k = l
  /\ \A k, l \in 1 .. Len(t) : k < l <=> Earlier(p[k], p[l])
  /\ \A i \in 1 .. Len(ss) : \A j \in 1 .. Len(ss[i]) :
       \E k \in 1 .. Len(t) : p[k] = <<i, j>>

(* t is what s has at the places B, in order.                               *)
Picked(s, t, p, B) ==
  /\ p \in [1 .. Len(t) -> B]
  /\ \A k \in 1 .. Len(t) : t[k] = s[p[k]]
  /\ \A k, l \in 1 .. Len(t) : k < l <=> p[k] < p[l]
  /\ \A i \in B : \E k \in 1 .. Len(t) : p[k] = i

-----------------------------------------------------------------------------
(* What the operations are made of.                                         *)
Spaces == {"none", "lram", "xram", "dtcm", "itcm"}

Buffers == {"a", "b", "t", "lc", "ic", "lg", "dg"}
Names == {"a", "b", "t", "lc", "ic", "lg", "dg",
          "none", "x", "o", "v", "k", "c", "g", "area", "nss", "next"}

Ids == Nat \X Names
Value == [id : Ids, base : Ids, it : Nat, sp : Spaces, sz : Nat, off : Nat]
InvRec == [id : Ids, it : Nat]

SomeOp == [k : {"binding", "alloc", "dealloc", "load", "store", "copy", "hostcopy", "kernel",
                "call", "view", "forall", "end", "inv", "start", "wait", "program"},
           res : Value, args : Seq(Value), code : Seq(Value),
           inv : {<< >>} \cup InvRec \cup Nat,
           ex : {"none", "slice", "css", "host", "nss"}]

Launches == {"kernel", "call", "start"}
Simple == {"load", "store", "copy", "view"}

(* Operations by their kind, until NSS programs are outlined. *)
Shape(op) ==
  /\ op.k \in Launches \cup {"wait", "inv"} => op.inv \in InvRec
  /\ op.k \in Launches => op.args # << >>
  /\ op.k = "kernel" => op.ex = "slice" /\ op.code = << >>
  /\ op.k = "call" => op.ex \in {"css", "host"} /\ op.code = << >>
  /\ op.k \in {"start", "wait", "inv"} => op.ex \in {"slice", "css", "host"}
  /\ op.k = "wait" => op.args = << >> /\ op.code = << >>
  /\ op.k = "inv" => /\ op.args = << >>
                     /\ op.ex = "host" => op.code = << >>
                     /\ \A j \in DOMAIN op.code : op.code[j].base[2] \in {"c", "g"} /\ op.code[j].sp = "xram"
  /\ op.k \in Simple => op.args # << >>
  /\ op.k \in {"alloc", "dealloc"} => op.args = << >> /\ op.res.base[2] \in Buffers /\ op.res.sp # "none"
  /\ op.k = "binding" => op.args = << >> /\ op.res.base[2] \in {"x", "o"} /\ op.res.sp = "xram"
  /\ op.k \in Simple \cup {"alloc", "dealloc", "binding"} => op.inv = << >>
  /\ op.k \in Simple \cup {"alloc", "dealloc", "binding", "forall", "end"} => op.code = << >> /\ op.ex = "none"
  /\ op.k \in {"forall", "end"} => op.args = << >>
  /\ op.k = "forall" => op.inv \in Nat
  /\ op.k = "end" => op.inv = << >>
  /\ op.k \notin {"hostcopy", "program"}
  /\ op.ex # "nss"

Shaped(s) == s \in Seq(SomeOp) /\ \A i \in 1 .. Len(s) : Shape(s[i])

-----------------------------------------------------------------------------
(* The function while it may have a loop.                                   *)
Loop(s, l, e) == l \in 1 .. Len(s) /\ e \in 1 .. Len(s) /\ s[l].k = "forall" /\ s[e].k = "end"

Inside(s, i) == \E l, e \in 1 .. Len(s) : Loop(s, l, e) /\ l < i /\ i < e

OneLoop(s) ==
  /\ \A l, m \in 1 .. Len(s) : s[l].k = "forall" /\ s[m].k = "forall" => l = m
  /\ \A l, m \in 1 .. Len(s) : s[l].k = "end" /\ s[m].k = "end" => l = m
  /\ \A l \in 1 .. Len(s) : s[l].k = "forall" => \E e \in 1 .. Len(s) : s[e].k = "end" /\ l < e
  /\ \A e \in 1 .. Len(s) : s[e].k = "end" => \E l \in 1 .. Len(s) : s[l].k = "forall" /\ l < e

(* The operations of the source, before calls are lowered. *)
SourceKinds == {"binding", "alloc", "load", "store", "copy", "kernel", "call", "view", "forall", "end"}

LaunchedOnce(s) ==
  \A i, j \in 1 .. Len(s) :
    s[i].k \in Launches /\ s[j].k \in Launches /\ s[i].inv = s[j].inv => i = j

First(s) ==
  \A i \in 1 .. Len(s) : s[i].k \in Launches \cup {"wait"} => s[i].inv.it = 0

Source(s) ==
  /\ Shaped(s)
  /\ \A i \in 1 .. Len(s) : /\ s[i].k \in SourceKinds
                            /\ s[i].k \in Launches => s[i].inv.id[1] <= Len(s)
                            /\ Inside(s, i) => s[i].ex \in {"none", "slice"}
  /\ OneLoop(s)
  /\ LaunchedOnce(s)
  /\ First(s)

(* Operations that a step of the source adds. *)
NewOps(ops, n) ==
  /\ ops \in Seq(SomeOp)
  /\ Len(ops) > 0
  /\ \A j \in 1 .. Len(ops) :
       /\ Shape(ops[j])
       /\ ops[j].k \in SourceKinds
       /\ ops[j].k \in Launches => ops[j].inv = [id |-> <<n, "k">>, it |-> 0]
  /\ \A i, j \in 1 .. Len(ops) : ops[i].k \in Launches /\ ops[j].k \in Launches => i = j

NoLoop(s) == \A j \in 1 .. Len(s) : s[j].k \notin {"forall", "end"}

LoopOps(ops) ==
  \A j \in 1 .. Len(ops) :
    /\ ops[j].k = "forall" <=> j = 3
    /\ ops[j].k = "end" <=> j = 9
    /\ 3 < j => ops[j].ex \in {"none", "slice"}

ValsTyped == /\ vals \subseteq Value
             /\ \A v \in vals : v.sp = "lram" /\ v.base[2] \in {"a", "b"}

Match(o, p) == o.k = "start" /\ p.k = "wait" /\ o.inv = p.inv /\ o.ex = p.ex

(* Starts and waits go together; programs of the CSS one after the other.   *)
WaitsStarted(s) ==
  \A j \in 1 .. Len(s) : s[j].k = "wait" => \E i \in 1 .. Len(s) : i < j /\ Match(s[i], s[j])

StartsWaited(s) ==
  \A i \in 1 .. Len(s) : s[i].k = "start" => \E j \in 1 .. Len(s) : i < j /\ Match(s[i], s[j])

WaitedOnce(s) ==
  \A i, j \in 1 .. Len(s) : s[i].k = "wait" /\ s[j].k = "wait" /\ s[i].inv = s[j].inv => i = j

CssInTurn(s) ==
  \A i, j \in 1 .. Len(s) :
    i < j /\ s[i].k = "start" /\ s[i].ex = "css" /\ s[j].k \in Launches /\ s[j].ex = "css" =>
      \E m \in 1 .. Len(s) : i < m /\ m < j /\ s[m].k = "wait" /\ s[m].ex = "css"

LoopOfSlices(s) ==
  /\ \A i \in 1 .. Len(s) : Inside(s, i) => s[i].ex \in {"none", "slice"}
  /\ \A i, j \in 1 .. Len(s) : Match(s[i], s[j]) => (Inside(s, i) <=> Inside(s, j))

(* The function until the loop is unrolled.                                 *)
Looped(s) ==
  /\ Shaped(s)
  /\ OneLoop(s)
  /\ LaunchedOnce(s)
  /\ First(s)
  /\ WaitsStarted(s)
  /\ StartsWaited(s)
  /\ WaitedOnce(s)
  /\ CssInTurn(s)
  /\ LoopOfSlices(s)

(* What an operation o that launches a program is rewritten to.             *)
BlockOf(o, b) ==
  /\ b \in Seq(SomeOp)
  /\ Len(b) > 1
  /\ \A j \in 1 .. Len(b) :
       /\ Shape(b[j])
       /\ b[j].k = "start" <=> j = Len(b) - 1
       /\ b[j].k = "wait" <=> j = Len(b)
       /\ b[j].k \notin {"kernel", "call", "forall", "end", "dealloc"}
       /\ b[j].ex \in {"none", o.ex}
       /\ b[j].k \in {"start", "wait"} => b[j].inv = o.inv /\ b[j].ex = o.ex

Rewritten(s, K, ss) ==
  /\ Len(ss) = Len(s)
  /\ ss \in Seq(Seq(SomeOp))
  /\ \A i \in 1 .. Len(s) : IF s[i].k = K THEN BlockOf(s[i], ss[i]) ELSE ss[i] = <<s[i]>>

(* Where operation k of the rewritten function comes from. *)
Placed(s, K, ss, t, p) ==
  /\ \A k \in 1 .. Len(t) : /\ p[k][1] \in 1 .. Len(s) /\ p[k][1] \in Nat
                            /\ p[k][2] \in 1 .. Len(ss[p[k][1]]) /\ p[k][2] \in Nat
                            /\ p[k] = <<p[k][1], p[k][2]>>
                            /\ t[k] = ss[p[k][1]][p[k][2]]
                            /\ s[p[k][1]].k # K =>
                                 t[k] = s[p[k][1]] /\ p[k] = <<p[k][1], 1>> /\ Len(ss[p[k][1]]) = 1
                            /\ t[k].k \in {"forall", "end"} => s[p[k][1]].k # K
                            /\ Inside(t, k) <=> Inside(s, p[k][1])
  /\ \A k, l \in 1 .. Len(t) : p[k] = p[l] => k = l
  /\ \A k, l \in 1 .. Len(t) : k < l <=> Earlier(p[k], p[l])
  /\ \A i \in 1 .. Len(s) : \A j \in 1 .. Len(ss[i]) : \E k \in 1 .. Len(t) : p[k] = <<i, j>>
  /\ \A i \in 1 .. Len(s) : s[i].k # K =>
       \E k \in 1 .. Len(t) : p[k] = <<i, 1>> /\ p[k][1] = i /\ t[k] = s[i]

(* The blocks that the passes put in place of calls and kernels.            *)
CssBlock(op) ==
  <<InvOp(op.inv, "css", <<Section(op.inv, 1), Section(op.inv, 2)>>),
    AllocOp(Near(op.inv, "lc", "lram")),
    Use("load", <<Near(op.inv, "lc", "lram"), Section(op.inv, 1)>>),
    AllocOp(Near(op.inv, "ic", "itcm")),
    Use("copy", <<Near(op.inv, "ic", "itcm"), Near(op.inv, "lc", "lram")>>),
    AllocOp(Near(op.inv, "lg", "lram")),
    Use("load", <<Near(op.inv, "lg", "lram"), Section(op.inv, 2)>>),
    AllocOp(Near(op.inv, "dg", "dtcm")),
    Use("copy", <<Near(op.inv, "dg", "dtcm"), Near(op.inv, "lg", "lram")>>),
    StartOp(op.inv, "css", <<Near(op.inv, "ic", "itcm"), Near(op.inv, "dg", "dtcm")>>, op.args),
    WaitOp(op.inv, "css")>>

HostBlock(op) ==
  <<InvOp(op.inv, "host", << >>), StartOp(op.inv, "host", << >>, op.args), WaitOp(op.inv, "host")>>

SliceBlock(op) ==
  <<InvOp(op.inv, "slice", <<Section(op.inv, 1)>>),
    AllocOp(Near(op.inv, "lc", "lram")),
    Use("load", <<Near(op.inv, "lc", "lram"), Section(op.inv, 1)>>),
    StartOp(op.inv, "slice", <<Near(op.inv, "lc", "lram")>>, op.args),
    WaitOp(op.inv, "slice")>>

OfProgram(op, k, inv, ex) ==
  op \in SomeOp /\ Shape(op) /\ op.k = k /\ op.inv = inv /\ op.ex = ex

-----------------------------------------------------------------------------
(* Pieces: element b of the body is at place c[b] of the pieces.            *)
Cut(pieces, body, m, c) ==
  /\ pieces \in Seq(Seq(SomeOp))
  /\ Len(pieces) > 0
  /\ \A b \in 1 .. m : /\ c[b] \in Places(pieces)
                       /\ pieces[c[b][1]][c[b][2]] = body[b]
  /\ \A a, b \in 1 .. m : a < b => Earlier(c[a], c[b])
  /\ \A x \in Places(pieces) : \E b \in 1 .. m : c[b] = x

(* An operation of the body in iteration i.                                 *)
CopyOf(body, op, i) ==
  LET own == Defined(body)
      Of(v) == IF v.base \in own \/ IsBinding(v) THEN [v EXCEPT !.it = i] ELSE v
      All(s) == [j \in DOMAIN s |-> Of(s[j])]
  IN  [op EXCEPT !.res = Of(@), !.args = All(@), !.code = All(@),
                 !.inv = IF @ = << >> THEN @ ELSE [@ EXCEPT !.it = i]]

CopyVal(body, v, i) ==
  IF v.base \in Defined(body) \/ IsBinding(v) THEN [v EXCEPT !.it = i] ELSE v

CopyKeeps(op, o, i) ==
  /\ o \in SomeOp /\ Shape(o)
  /\ o.k = op.k /\ o.ex = op.ex
  /\ op.inv \in InvRec => o.inv \in InvRec /\ o.inv.id = op.inv.id /\ o.inv.it = i

Copyable(op) == Shape(op) /\ op.inv \in {<< >>} \cup InvRec /\ op.k # "forall"

(* Element k of t is the copy of operation w[k][1] of the body for          *)
(* iteration w[k][2]; the order of an iteration is kept.                    *)
Copied(t, body, n, w) ==
  /\ \A k \in 1 .. Len(t) : /\ w[k][1] \in 1 .. Len(body) /\ w[k][2] \in 0 .. n - 1
                            /\ w[k] = <<w[k][1], w[k][2]>>
                            /\ t[k] = CopyOf(body, body[w[k][1]], w[k][2])
  /\ \A k, l \in 1 .. Len(t) : w[k] = w[l] => k = l
  /\ \A b \in 1 .. Len(body) : \A i \in 0 .. n - 1 : \E k \in 1 .. Len(t) : w[k] = <<b, i>>
  /\ \A k, l \in 1 .. Len(t) : w[k][2] = w[l][2] /\ w[k][1] < w[l][1] => k < l

UnrolledBody(body, n) ==
  LET pieces == Pieces(body)
  IN  FlattenSeq([p \in DOMAIN pieces |->
        FlattenSeq([i \in 1 .. n |-> Iteration(body, pieces[p], i - 1)])])

CutInOrder(pieces, body, c) ==
  /\ \A a, b \in 1 .. Len(body) : c[a] = c[b] => a = b
  /\ \A b \in 1 .. Len(body) : /\ c[b][1] \in 1 .. Len(pieces)
                               /\ c[b][2] \in 1 .. Len(pieces[c[b][1]])
                               /\ c[b] = <<c[b][1], c[b][2]>>
  /\ \A p \in 1 .. Len(pieces) : \A j \in 1 .. Len(pieces[p]) :
       \E b \in 1 .. Len(body) : c[b] = <<p, j>> /\ pieces[p][j] = body[b]

(* Where the loop of s is. *)
LoopIs(s, L, E) ==
  /\ L \in 1 .. Len(s) /\ E \in 1 .. Len(s) /\ L < E
  /\ \A i \in 1 .. Len(s) : (s[i].k = "forall" <=> i = L) /\ (s[i].k = "end" <=> i = E)

(* Element k of t is operation g[k][1] of s, in iteration g[k][2] of the    *)
(* loop if it is there.                                                     *)
In(L, E, j) == L < j /\ j < E

Unrolls(s, L, E, body, n, t, g) ==
  /\ \A k \in 1 .. Len(t) :
       /\ g[k][1] \in 1 .. Len(s) /\ g[k][1] # L /\ g[k][1] # E
       /\ g[k] = <<g[k][1], g[k][2]>>
       /\ In(L, E, g[k][1]) => g[k][2] \in 0 .. n - 1 /\ t[k] = CopyOf(body, s[g[k][1]], g[k][2])
       /\ ~In(L, E, g[k][1]) => g[k][2] = 0 /\ t[k] = s[g[k][1]]
  /\ \A k, l \in 1 .. Len(t) : g[k] = g[l] => k = l
  /\ \A j \in 1 .. Len(s) : \A i \in 0 .. n - 1 :
       In(L, E, j) => \E k \in 1 .. Len(t) : g[k] = <<j, i>>
  /\ \A j \in 1 .. Len(s) :
       ~In(L, E, j) /\ j # L /\ j # E => \E k \in 1 .. Len(t) : g[k] = <<j, 0>>
  /\ \A k, l \in 1 .. Len(t) :
       g[k][1] < g[l][1] /\ (g[k][2] = g[l][2] \/ ~In(L, E, g[k][1]) \/ ~In(L, E, g[l][1])) => k < l

(* The function when its loop has been unrolled. *)
LoweredKinds == {"binding", "alloc", "dealloc", "load", "store", "copy", "view", "inv", "start", "wait"}

Lowered(s) ==
  /\ Shaped(s)
  /\ \A i \in 1 .. Len(s) : s[i].k \in LoweredKinds
  /\ LaunchedOnce(s)
  /\ WaitsStarted(s)
  /\ StartsWaited(s)
  /\ WaitedOnce(s)
  /\ CssInTurn(s)

ByNss(op) == op.ex \in {"slice", "css"}
On(op, ids) == IF op.ex = "slice" THEN <<"slice", ids[op.inv]>> ELSE <<op.ex, 0>>

(* Between two starts on an executor there is a wait for it. *)
Spaced(s, ids) ==
  \A i, j \in 1 .. Len(s) :
    i < j /\ s[i].k = "start" /\ s[j].k = "start" /\ ByNss(s[i]) /\ On(s[i], ids) = On(s[j], ids) =>
      \E m \in 1 .. Len(s) : /\ i < m /\ m < j /\ s[m].k = "wait" /\ ByNss(s[m])
                             /\ On(s[m], ids) = On(s[i], ids)

Unscheduled == [busy |-> {}, ids |-> << >>, ok |-> TRUE]

(* What the first m operations leave: e[i] is the executor_id start i got.  *)
Waited(s, i, m) == \E w \in 1 .. m : s[w].k = "wait" /\ s[w].inv = s[i].inv

ScheduledTo(s, m, acc, e) ==
  /\ DOMAIN acc = {"busy", "ids", "ok"}
  /\ DOMAIN acc.ids = {s[i].inv : i \in {j \in 1 .. m : s[j].k = "start"}}
  /\ \A i \in 1 .. m : s[i].k = "start" => acc.ids[s[i].inv] = e[i]
  /\ \A i \in 1 .. m : s[i].k = "start" /\ ~Waited(s, i, m) => e[i] \in acc.busy
  /\ \A i, j \in 1 .. m :
       /\ s[i].k = "start" /\ ~Waited(s, i, m) /\ s[j].k = "start" /\ ~Waited(s, j, m)
       /\ e[i] = e[j]
       => i = j

Turns(s, n, e) ==
  \A m \in 0 .. n : \A i, j \in 1 .. m :
       /\ s[i].k = "start" /\ ~Waited(s, i, m) /\ s[j].k = "start" /\ ~Waited(s, j, m)
       /\ e[i] = e[j]
       => i = j

IsTask(op) == op.k \in {"start", "wait"}

(* t has the starts and the waits of s, in order. *)
KeepsTasks(s, t, g) ==
  /\ \A k \in 1 .. Len(t) : IsTask(t[k]) => g[k] \in 1 .. Len(s) /\ t[k] = s[g[k]]
  /\ \A m \in 1 .. Len(s) : IsTask(s[m]) => \E k \in 1 .. Len(t) : g[k] = m /\ t[k] = s[m]
  /\ \A k, l \in 1 .. Len(t) : IsTask(t[k]) /\ IsTask(t[l]) => (k < l <=> g[k] < g[l])

(* Between the passes after scheduling. *)
Planned(s, ids) ==
  /\ Shaped(s)
  /\ \A i \in 1 .. Len(s) : s[i].k \in LoweredKinds
  /\ Spaced(s, ids)

-----------------------------------------------------------------------------
(* Canonicalize. *)
KeepNeeded(kept, op) ==
  IF op.k = "view" /\ \A i \in DOMAIN kept : op.res \notin Operands(kept[i])
  THEN kept ELSE <<op>> \o kept

(* t is s from place a on without some of the views there. *)
Remains(s, a, t, g) ==
  /\ t \in Seq(SomeOp)
  /\ \A k \in 1 .. Len(t) : g[k] \in a .. Len(s) /\ t[k] = s[g[k]]
  /\ \A m \in a .. Len(s) : s[m].k # "view" => \E k \in 1 .. Len(t) : g[k] = m
  /\ \A k, l \in 1 .. Len(t) : k < l => g[k] < g[l]

-----------------------------------------------------------------------------
(* AddDeallocation. *)
IsDealloc(s, i, lastUser, op) ==
  /\ op.k = "dealloc" /\ Shape(op)
  /\ \E a \in 1 .. Len(s) :
       s[a].k = "alloc" /\ lastUser[Key(s[a].res)] = i /\ op.res = s[a].res

(* Element k of t is operation p[k][1] of s or, after it, the deallocation  *)
(* of a buffer that has it as last user.                                    *)
Freed(s, lastUser, t, p) ==
  /\ t \in Seq(SomeOp)
  /\ \A k \in 1 .. Len(t) :
       /\ p[k][1] \in 1 .. Len(s) /\ p[k][2] \in Nat /\ p[k][2] > 0
       /\ p[k] = <<p[k][1], p[k][2]>>
       /\ IF p[k][2] = 1 THEN t[k] = s[p[k][1]] ELSE IsDealloc(s, p[k][1], lastUser, t[k])
  /\ \A k, l \in 1 .. Len(t) : k < l <=> Earlier(p[k], p[l])
  /\ \A i \in 1 .. Len(s) : \E k \in 1 .. Len(t) : p[k] = <<i, 1>>

(* The function that FindPrograms makes of the NSS operations and the       *)
(* programs they go to: where the operations are.                           *)
IsProgram(op) == op.k = "program"

Lower(op) == op \in SomeOp /\ Shape(op) /\ op.k \in LoweredKinds
Spots(fn, pr) ==
  {x \in (1 .. Len(fn)) \X Nat :
     IF IsProgram(fn[x[1]]) THEN x[2] \in 1 .. Len(pr[fn[x[1]].inv + 1]) ELSE x[2] = 0}

AtSpot(fn, pr, x) == IF x[2] = 0 THEN fn[x[1]] ELSE pr[fn[x[1]].inv + 1][x[2]]

Divided(fn, pr) ==
  /\ fn \in Seq(SomeOp) /\ Len(fn) > 0
  /\ pr \in Seq(Seq(SomeOp)) /\ Len(pr) > 0
  /\ \A j \in 1 .. Len(fn) :
       IF IsProgram(fn[j]) THEN fn[j].inv \in 0 .. Len(pr) - 1
                           ELSE ~IsNssOperation(fn[j]) /\ Lower(fn[j])
  /\ \A j, l \in 1 .. Len(fn) : IsProgram(fn[j]) /\ IsProgram(fn[l]) /\ fn[j].inv = fn[l].inv => j = l
  /\ \A q \in 1 .. Len(pr) : \A i \in 1 .. Len(pr[q]) : IsNssOperation(pr[q][i]) /\ Lower(pr[q][i])

(* Operation b of s is at c[b], in order. *)
Spread(fn, pr, s, m, c) ==
  /\ \A b \in 1 .. m : c[b] \in Spots(fn, pr) /\ AtSpot(fn, pr, c[b]) = s[b]
  /\ \A a, b \in 1 .. m : a < b => Earlier(c[a], c[b])
  /\ \A x \in Spots(fn, pr) : \E b \in 1 .. m : c[b] = x

LastIsOpen(fn, pr) == IsProgram(fn[Len(fn)]) /\ fn[Len(fn)].inv = Len(pr) - 1

FoundTo(acc, s, m) ==
  /\ DOMAIN acc = {"function", "programs", "size", "new"}
  /\ Divided(acc.function, acc.programs)
  /\ \E c : Spread(acc.function, acc.programs, s, m, c)
  /\ acc.new \/ LastIsOpen(acc.function, acc.programs)

-----------------------------------------------------------------------------
NothingFound == [function |-> <<Program(0)>>, programs |-> << << >> >>, size |-> 0, new |-> TRUE]

StartsNss(op) == op.k = "start" /\ op.ex = "nss"

(* The tasks of the run: task x[2] of the program that host action x[1]     *)
(* starts.                                                                  *)
ProgramOf(h, pr, i) == pr[h[i].inv.id[1] + 1]

NssSteps(h, pr) ==
  {x \in (1 .. Len(h)) \X Nat : StartsNss(h[x[1]]) /\ x[2] \in 1 .. Len(ProgramOf(h, pr, x[1]))}

NssStep(h, pr, x) == ProgramOf(h, pr, x[1])[x[2]]

StepsSpaced(h, pr, ids) ==
  \A x, y \in NssSteps(h, pr) :
    /\ Earlier(x, y) /\ NssStep(h, pr, x).k = "start" /\ NssStep(h, pr, y).k = "start"
    /\ On(NssStep(h, pr, x), ids) = On(NssStep(h, pr, y), ids)
    => \E z \in NssSteps(h, pr) : /\ Earlier(x, z) /\ Earlier(z, y) /\ NssStep(h, pr, z).k = "wait"
                                  /\ On(NssStep(h, pr, z), ids) = On(NssStep(h, pr, x), ids)

StartsWaitedFor(h, pr) ==
  \A i \in 1 .. Len(h) : StartsNss(h[i]) =>
    /\ h[i].inv.id[1] \in 0 .. Len(pr) - 1
    /\ i + 1 \in 1 .. Len(h) /\ h[i + 1].k = "wait" /\ h[i + 1].ex = "nss"

Outlined(h, pr, ids) ==
  /\ h \in Seq(SomeOp)
  /\ pr \in Seq(Seq(SomeOp))
  /\ StartsWaitedFor(h, pr)
  /\ \A q \in 1 .. Len(pr) : \A i \in 1 .. Len(pr[q]) : IsTask(pr[q][i]) => ByNss(pr[q][i])
  /\ StepsSpaced(h, pr, ids)

(* Neither places a buffer in a memory nor uses one. *)
Bare(op) == op.k \notin {"alloc", "dealloc"} /\ \A v \in Operands(op) : ~Pooled(v)

(* What stands for a program in the function: it ends with the start and    *)
(* the wait.                                                                *)
StartAndWait(o, u) ==
  /\ o \in Seq(SomeOp) /\ Len(o) \in Nat /\ Len(o) > 1
  /\ StartsNss(o[Len(o) - 1]) /\ o[Len(o) - 1].inv.id[1] = u
  /\ o[Len(o)].k = "wait" /\ o[Len(o)].ex = "nss"
  /\ \A j \in 1 .. Len(o) : StartsNss(o[j]) => j = Len(o) - 1
  /\ \A j \in 1 .. Len(o) : Bare(o[j])

(* The function with starts in place of the programs, pm being pr with      *)
(* loads at their ends.                                                     *)
Replaced(fn, ss) ==
  /\ ss \in Seq(Seq(SomeOp)) /\ Len(ss) = Len(fn)
  /\ \A j \in 1 .. Len(fn) : IF IsProgram(fn[j]) THEN StartAndWait(ss[j], fn[j].inv)
                                                 ELSE ss[j] = <<fn[j]>>

Extended(pr, pm) ==
  /\ pm \in Seq(Seq(SomeOp)) /\ Len(pm) = Len(pr)
  /\ \A q \in 1 .. Len(pr) :
       /\ \A i \in 1 .. Len(pr[q]) : i \in 1 .. Len(pm[q]) /\ pm[q][i] = pr[q][i]
       /\ \A i \in 1 .. Len(pm[q]) : IsTask(pm[q][i]) \/ ~Bare(pm[q][i]) => i \in 1 .. Len(pr[q])

(* The starts of the function are where its programs were.                  *)
StartsAt(fn, t, g) ==
  /\ \A k \in 1 .. Len(t) : StartsNss(t[k]) =>
       /\ g[k] \in 1 .. Len(fn) /\ IsProgram(fn[g[k]]) /\ t[k].inv.id[1] = fn[g[k]].inv
       /\ k + 1 \in 1 .. Len(t) /\ t[k + 1].k = "wait" /\ t[k + 1].ex = "nss"
  /\ \A k, l \in 1 .. Len(t) : StartsNss(t[k]) /\ StartsNss(t[l]) => (k < l <=> g[k] < g[l])
  /\ \A j \in 1 .. Len(fn) : IsProgram(fn[j]) => \E k \in 1 .. Len(t) : StartsNss(t[k]) /\ g[k] = j

(* What is there of fn, in order: its host operations, and the starts for   *)
(* its programs.                                                            *)
Anchor(fn, t, g, k) == StartsNss(t[k]) \/ ~IsProgram(fn[g[k]])

AnchoredAt(fn, t, g) ==
  /\ \A k \in 1 .. Len(t) : /\ g[k] \in 1 .. Len(fn)
                            /\ IF IsProgram(fn[g[k]]) THEN Bare(t[k]) ELSE t[k] = fn[g[k]]
  /\ \A k, l \in 1 .. Len(t) : Anchor(fn, t, g, k) /\ Anchor(fn, t, g, l) => (k < l <=> g[k] < g[l])
  /\ \A j \in 1 .. Len(fn) : \E k \in 1 .. Len(t) : g[k] = j /\ Anchor(fn, t, g, k)

(* The tasks that the NSS has done. *)
HasRun(x) == x[1] < hpc /\ (Running /\ x[1] = hpc - 1 => x[2] < nss.pc)

(* op was started and no wait for its executor has been done since. *)
Flies(op) ==
  \E x \in NssSteps(ir, progs) :
    /\ HasRun(x) /\ NssStep(ir, progs, x) = op /\ op.k = "start"
    /\ \A z \in NssSteps(ir, progs) :
         HasRun(z) /\ Earlier(x, z) /\ NssStep(ir, progs, z).k = "wait" =>
           On(NssStep(ir, progs, z), slice) # On(op, slice)

NssAtStart ==
  /\ hpc \in Nat /\ hpc > 0
  /\ nss \in [program : Int, pc : Nat]
  /\ Running => /\ hpc - 1 \in 1 .. Len(ir) /\ StartsNss(ir[hpc - 1])
                /\ nss.program = ir[hpc - 1].inv.id[1]
                /\ nss.pc > 0

RunInv == NssAtStart /\ \A op \in flying : Flies(op)

(* Nothing that the run does changes what it runs. *)
RunKeeps == UNCHANGED <<ir, progs, slice>>

(* What a pass leaves the next one. *)
Without(s, kinds) == \A k \in 1 .. Len(s) : s[k].k \notin kinds

PassInv ==
  /\ stage = "build" => Source(ir) /\ ValsTyped
  /\ stage \in {"mean", "lowerCalls"} => Source(ir)
  /\ stage = "outlineSlices" => Looped(ir) /\ Without(ir, {"call"})
  /\ stage = "unroll" => Looped(ir) /\ Without(ir, {"call", "kernel"})
  /\ stage = "schedule" => Lowered(ir)
  /\ stage \in {"canonicalize", "deallocate", "assign", "outlineNSS"} => Planned(ir, slice)
  /\ stage \in {"serialize", "run", "done"} => Outlined(ir, progs, slice)

NotStarted == flying = {} /\ hpc = 1 /\ nss = NssIdle

TurnInv ==
  /\ PassInv
  /\ IF stage \in {"run", "done"} THEN RunInv ELSE NotStarted

-----------------------------------------------------------------------------
(* What an operation defines, and when the definition d is one of the       *)
(* memory that value v is in.                                               *)
Defs(op) ==
  IF op.k \in {"alloc", "binding"} THEN {op.res}
  ELSE IF op.k = "inv" THEN Range(op.code) ELSE {}

Covers(d, v) ==
  /\ d.base = v.base /\ d.sp = v.sp
  /\ IF IsBinding(v) THEN d.it = 0 /\ v.off + v.sz <= Words /\ (v.it + 1) * Words <= d.sz
                     ELSE d.it = v.it /\ v.off + v.sz <= d.sz

Bases(op) == {op.res.base} \cup {v.base : v \in IF op.k = "inv" THEN Range(op.code) ELSE {}}

(* v is of a buffer of the source that no operation of the loop defines. *)
Foreign(s, v) ==
  /\ v.base[2] \in {"a", "b"}
  /\ \A p \in 1 .. Len(s) : Inside(s, p) => v.base \notin Bases(s[p])

(* The definition d of operation a is the one that operation i means by v,  *)
(* in every iteration of the loop.                                          *)
Reaches(s, a, d, i, v) ==
  /\ Inside(s, a) => Inside(s, i) /\ ~IsBinding(v)
  /\ Inside(s, i) /\ ~Inside(s, a) /\ ~IsBinding(v) => Foreign(s, v)
  /\ Inside(s, i) /\ IsBinding(v) =>
       \A l \in 1 .. Len(s) : s[l].k = "forall" => s[l].inv * Words <= d.sz

Seen(s, i, v) ==
  \E a \in 1 .. Len(s) : a < i /\ \E d \in Defs(s[a]) : Covers(d, v) /\ Reaches(s, a, d, i, v)

(* Every operand is defined before it is used. *)
Declared(s) == \A i \in 1 .. Len(s) : s[i].k # "inv" => \A v \in Operands(s[i]) : Seen(s, i, v)

ValsDeclared(s, V) ==
  \A v \in V :
    /\ v.base[1] <= Len(s) /\ v.off + v.sz <= Words
    /\ \E a \in 1 .. Len(s) : s[a].k = "alloc" /\ ~Inside(s, a) /\ Covers(s[a].res, v)

(* The operands of the operations that a step of the source adds. *)
NewDeclared(ops, V) ==
  /\ \A j \in 1 .. Len(ops) : \A v \in Operands(ops[j]) : v \in V \/ Seen(ops, j, v)
  /\ \A j \in 1 .. Len(ops) : Inside(ops, j) => \A v \in V : v.base \notin Bases(ops[j])

BuildInv == Source(ir) /\ ValsTyped /\ Declared(ir) /\ ValsDeclared(ir, vals)

(* The operands of the loop: buffers of its own, the bindings before it,    *)
(* values of the function.                                                  *)
LoopUses(ops, V, a, b, x, o, n, m) ==
  /\ Len(ops) = 9 /\ LoopOps(ops) /\ ops[3].inv = n
  /\ \A j \in 1 .. 9 : ops[j].k # "inv"
  /\ \A j \in {1, 2, 3, 4, 6, 9} : Operands(ops[j]) = {}
  /\ Operands(ops[5]) = {a, x} /\ Operands(ops[7]) \subseteq {b, a} \cup V /\ Operands(ops[8]) = {o, b}
  /\ IsBinding(x) /\ IsBinding(o) /\ ~IsBinding(a) /\ ~IsBinding(b)
  /\ ops[1].res \in Defs(ops[1]) /\ Covers(ops[1].res, x) /\ n * Words <= ops[1].res.sz
  /\ ops[2].res \in Defs(ops[2]) /\ Covers(ops[2].res, o) /\ n * Words <= ops[2].res.sz
  /\ ops[4].res \in Defs(ops[4]) /\ Covers(ops[4].res, a)
  /\ ops[6].res \in Defs(ops[6]) /\ Covers(ops[6].res, b)
  /\ \A j \in 4 .. 8 : ops[j].res.base = <<0, "none">> \/ ops[j].res.base[1] = m
  /\ \A v \in V : v.base[2] \in {"a", "b"} /\ v.base[1] # m

-----------------------------------------------------------------------------
(* The rewriting of calls and kernels.  A block uses what the operation it  *)
(* stands for uses, and buffers of its own, after their allocation.         *)
BlockDeclares(o, b) ==
  /\ \A j \in 1 .. Len(b) : b[j].k # "inv" => \A v \in Operands(b[j]) :
       \/ v \in Operands(o)
       \/ ~IsBinding(v) /\ \E c \in 1 .. Len(b) : c < j /\ \E d \in Defs(b[c]) : Covers(d, v)
  /\ \A j \in 1 .. Len(b) : \A x \in Bases(b[j]) : x[2] \notin {"a", "b"}

-----------------------------------------------------------------------------
(* Every operand of the unrolled function is of a memory defined before.    *)
Allocated(t) ==
  \A i \in 1 .. Len(t) : t[i].k # "inv" =>
    \A v \in Operands(t[i]) :
      \E a \in 1 .. Len(t) : a < i /\ \E d \in Defs(t[a]) : Covers(d, v)

-----------------------------------------------------------------------------
(* Before AddDeallocationPass no operation deallocates. *)
NothingFreed(s) == \A i \in 1 .. Len(s) : s[i].k # "dealloc"

-----------------------------------------------------------------------------
(* What AddDeallocationPass is given. *)
Ready(s) ==
  /\ Shaped(s)
  /\ \A i \in 1 .. Len(s) : s[i].k \in LoweredKinds
  /\ LaunchedOnce(s)
  /\ StartsWaited(s)
  /\ Allocated(s)
  /\ NothingFreed(s)

Gives(op, v) == op.k = "alloc" /\ Key(op.res) = Key(v)
Frees(op, v) == op.k = "dealloc" /\ Key(op.res) = Key(v)

(* A buffer is allocated before it is used and not deallocated before; nor  *)
(* before the wait, if it is used by a program that is started.             *)
Lives(s) ==
  \A i \in 1 .. Len(s) : \A v \in Operands(s[i]) : Pooled(v) =>
    /\ \E a \in 1 .. Len(s) : a < i /\ Gives(s[a], v)
    /\ \A m \in 1 .. Len(s) : Frees(s[m], v) =>
         /\ i < m
         /\ s[i].k = "start" => \E w \in 1 .. Len(s) : i < w /\ w < m /\ Match(s[i], s[w])

-----------------------------------------------------------------------------
(* What the host and the NSS do: host action i is <<i, 0>>, the tasks of    *)
(* the program that it starts come after it.                                *)
RunSteps(h, pr) == {<<i, 0>> : i \in 1 .. Len(h)} \cup NssSteps(h, pr)

RunOp(h, pr, x) == IF x[2] = 0 THEN h[x[1]] ELSE NssStep(h, pr, x)

(* A buffer lives while they use it. *)
StepLives(h, pr, x, v) ==
  /\ \E a \in RunSteps(h, pr) : Earlier(a, x) /\ Gives(RunOp(h, pr, a), v)
  /\ \A m \in RunSteps(h, pr) : Frees(RunOp(h, pr, m), v) =>
       /\ Earlier(x, m)
       /\ x[2] # 0 /\ RunOp(h, pr, x).k = "start" =>
            \E w \in NssSteps(h, pr) : /\ Earlier(x, w) /\ Earlier(w, m)
                                       /\ Match(RunOp(h, pr, x), NssStep(h, pr, w))

StepsLive(h, pr) ==
  /\ \A x \in RunSteps(h, pr) : \A v \in Operands(RunOp(h, pr, x)) : Pooled(v) => StepLives(h, pr, x, v)
  /\ \A i \in 1 .. Len(h) : h[i].k = "wait" => Bare(h[i])

(* A buffer that the run has allocated and not deallocated is live. *)
Given(key) ==
  \E a \in RunSteps(ir, progs) :
    HasRun(a) /\ RunOp(ir, progs, a).k = "alloc" /\ Key(RunOp(ir, progs, a).res) = key

Taken(key) ==
  \E m \in RunSteps(ir, progs) :
    HasRun(m) /\ RunOp(ir, progs, m).k = "dealloc" /\ Key(RunOp(ir, progs, m).res) = key

LiveInv == \A key : Given(key) /\ ~Taken(key) => key \in live

-----------------------------------------------------------------------------
(* What a pass leaves the next one, for the buffers. *)
PassLives ==
  /\ stage = "build" => Declared(ir) /\ ValsDeclared(ir, vals)
  /\ stage \in {"mean", "lowerCalls"} => Declared(ir)
  /\ stage \in {"outlineSlices", "unroll"} => Declared(ir) /\ NothingFreed(ir)
  /\ stage = "schedule" => Allocated(ir) /\ NothingFreed(ir)
  /\ stage \in {"canonicalize", "deallocate"} => Ready(ir)
  /\ stage \in {"assign", "outlineNSS"} => Lives(ir)
  /\ stage \in {"serialize", "run", "done"} => StepsLive(ir, progs)

BufferInv ==
  /\ TurnInv
  /\ PassLives
  /\ stage \in {"run", "done"} => LiveInv
=============================================================================
