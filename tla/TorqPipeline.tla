---------------------------- MODULE TorqPipeline ----------------------------
(***************************************************************************)
(* From a bufferized function to what runs on the device: the passes of     *)
(* TORQLowerExecutableTargetPass::addNssPasses that decide when a program   *)
(* is started and waited for, how long a buffer lives, where it is and      *)
(* which NSS program does what, then the run of the result by the host, the *)
(* NSS, the slices and the CSS.                                             *)
(*                                                                         *)
(* The function is any sequence of at most MaxSteps source steps.  A value  *)
(* is a memref: its name, the buffer it is in, the iteration of the forall  *)
(* loop it belongs to, its memory, size and offset in the buffer.  Sizes    *)
(* are in units of one NSS task; contents are symbolic, so that the result  *)
(* of the run can be compared with the meaning of the source.  The          *)
(* buffers are small ones of Pool.  A function for which a memory has no    *)
(* room is refused; where that memory is LRAM, VirtualMemory is about the   *)
(* rewriting it would need.                                                 *)
(***************************************************************************)
EXTENDS Integers, Sequences, FiniteSets, SequencesExt, FiniteSetsExt

CONSTANTS
  MaxSteps,      \* steps of the source function
  Iterations,    \* upper bounds of forall loops
  SliceCount,    \* HwInfo::slice_count
  NssTaskSize,   \* tasks of an NSS program, also the size of its area
  MemSize,       \* size of LRAM, DTCM and ITCM
  Kinds          \* steps the source may have

ASSUME PipelineAssumption ==
  /\ {MaxSteps, SliceCount, NssTaskSize, MemSize} \subseteq Nat
  /\ Iterations \subseteq Nat \ {0}
  /\ NssTaskSize > 1     \* findPrograms refuses less
  /\ Kinds \subseteq {"load", "kernel", "into", "view", "css", "host", "forall"}

Words == 2   \* size of a data buffer

Val(id, sp, sz) == [id |-> id, base |-> id, it |-> 0, sp |-> sp, sz |-> sz, off |-> 0]
NoVal == Val(<<0, "none">>, "none", 0)

Op(k, res, args, code, inv, ex) ==
  [k |-> k, res |-> res, args |-> args, code |-> code, inv |-> inv, ex |-> ex]
AllocOp(v) == Op("alloc", v, << >>, << >>, << >>, "none")
Use(k, args) == Op(k, NoVal, args, << >>, << >>, "none")
Invoke(k, inv, ex, args) == Op(k, NoVal, args, << >>, inv, ex)
InvOp(inv, ex, sections) == Op("inv", NoVal, << >>, sections, inv, ex)
StartOp(inv, ex, code, args) == Op("start", NoVal, args, code, inv, ex)
WaitOp(inv, ex) == Op("wait", NoVal, << >>, << >>, inv, ex)

Operands(op) == Range(op.code) \cup Range(op.args)

VARIABLES
  stage,      \* the next pass, or "run", "done", "failed"
  ir,         \* the function: a sequence of operations
  vals,       \* values of the function that can be used
  steps,      \* steps of the source so far
  expected,   \* the meaning of the source: contents of its outputs
  slice,      \* slice[inv]: executor_id of an invocation
  addr,       \* addr[id]: address of a buffer or code section
  progs,      \* progs[i + 1]: the operations of NSS program i
  footprint,  \* XRAM the run time maps: its first address and its end
  hpc, nss,   \* where the host and the NSS are
  flying,     \* invocations started and not waited for
  ended,      \* those of them that have ended
  live,       \* buffers allocated and not deallocated
  mem         \* contents of the cells written

runVars == <<hpc, nss, flying, ended, live, mem>>
planVars == <<slice, addr, progs, footprint>>
vars == <<stage, ir, vals, steps, expected, planVars, runVars>>

(***************************************************************************)
(* What an operation does to a memory, of which Cell(v, w) is word w of     *)
(* value v: copies move their second operand to their first, programs       *)
(* compute the first from the others.                                       *)
(***************************************************************************)
(* FoldLeft, which TLC would evaluate over the subsets of the indices. *)
Fold(F(_, _), base, seq) ==
  LET f[i \in 0 .. Len(seq)] == IF i = 0 THEN base ELSE F(f[i - 1], seq[i])
  IN  f[Len(seq)]

(* The map f with the entries of g for what f does not have. *)
With(f, g) ==
  [x \in DOMAIN f \cup DOMAIN g |-> IF x \in DOMAIN f THEN f[x] ELSE g[x]]

(* SelectSeq, of which the provers know nothing. *)
Kept(s, Test(_)) == FlattenSeq([i \in DOMAIN s |-> IF Test(s[i]) THEN <<s[i]>> ELSE << >>])

Get(m, cell) == IF cell \in DOMAIN m THEN m[cell] ELSE <<"junk">>

WordsOf(v) == 0 .. v.sz - 1

IsCopy(op) == op.k \in {"load", "store", "copy", "hostcopy"}

Sources(op) == IF Len(op.args) = 1 THEN op.args ELSE Tail(op.args)

Apply(op, m, Cell(_, _)) ==
  LET dst == op.args[1]
      src == Sources(op)
      read == [j \in DOMAIN src |-> [w \in WordsOf(src[j]) |-> Get(m, Cell(src[j], w))]]
      written == {Cell(dst, w) : w \in WordsOf(dst)}
      New(w) == IF IsCopy(op) THEN read[1][w] ELSE <<op.inv, w, read>>
  IN  [c \in DOMAIN m \cup written |->
         IF c \in written THEN New(CHOOSE w \in WordsOf(dst) : c = Cell(dst, w)) ELSE m[c]]

(***************************************************************************)
(* The source: loads, kernels, views, calls of CSS and host programs around *)
(* the copies that bufferization puts there, and a forall loop that spreads *)
(* a kernel over the slices.                                                *)
(***************************************************************************)
Id(k) == <<Len(ir) + 1, k>>
Fresh(k, sp, sz) == Val(Id(k), sp, sz)
Inv == [id |-> Id("k"), it |-> 0]
BindingOp(v, n) == Op("binding", [v EXCEPT !.sz = Words * n], << >>, << >>, << >>, "none")

Append1(kind, ops, new) ==
  /\ stage = "build"
  /\ kind \in Kinds
  /\ steps < MaxSteps
  /\ ir' = ir \o ops
  /\ vals' = vals \cup new
  /\ steps' = steps + 1
  /\ UNCHANGED <<stage, expected, planVars, runVars>>

SourceLoad ==
  LET a == Fresh("a", "lram", Words)
      x == Fresh("x", "xram", Words)
  IN  Append1("load", <<BindingOp(x, 1), AllocOp(a), Use("load", <<a, x>>)>>, {a})

SourceKernel ==
  \E s \in vals :
    LET b == Fresh("b", "lram", Words)
    IN  Append1("kernel", <<AllocOp(b), Invoke("kernel", Inv, "slice", <<b, s>>)>>, {b})

SourceKernelInto ==
  \E s, d \in vals :
    /\ s # d
    /\ Append1("into", <<Invoke("kernel", Inv, "slice", <<d, s>>)>>, {})

SourceView ==
  \E s \in {v \in vals : v.sz > 1} :
    LET v == [s EXCEPT !.id = Id("v"), !.sz = 1, !.off = s.off + s.sz - 1]
    IN  Append1("view", <<Op("view", v, <<s>>, << >>, << >>, "none")>>, {v})

SourceCss ==
  \E s \in vals :
    LET t == Fresh("t", "dtcm", s.sz)
    IN  Append1("css", <<AllocOp(t), Use("copy", <<t, s>>), Invoke("call", Inv, "css", <<t>>),
                         Use("copy", <<s, t>>)>>, {})

SourceHost ==
  \E s \in vals :
    LET t == Fresh("t", "xram", s.sz)
    IN  Append1("host", <<AllocOp(t), Use("store", <<t, s>>), Invoke("call", Inv, "host", <<t>>),
                          Use("load", <<s, t>>)>>, {})

SourceForall ==
  \E n \in Iterations, s \in {<< >>} \cup {<<v>> : v \in vals} :
    LET a == Fresh("a", "lram", Words)
        b == Fresh("b", "lram", Words)
        x == Fresh("x", "xram", Words)
        o == Fresh("o", "xram", Words)
    IN  /\ \A i \in DOMAIN ir : ir[i].k # "forall"
        /\ Append1("forall",
             <<BindingOp(x, n), BindingOp(o, n), Op("forall", NoVal, << >>, << >>, n, "none"),
               AllocOp(a), Use("load", <<a, x>>),
               AllocOp(b), Invoke("kernel", Inv, "slice", <<b, a>> \o s),
               Use("store", <<o, b>>), Op("end", NoVal, << >>, << >>, << >>, "none")>>, {})

Build == \/ SourceLoad \/ SourceKernel \/ SourceKernelInto \/ SourceView
         \/ SourceCss \/ SourceHost \/ SourceForall

(* Iteration i of the loop: the values its body defines, the parts of the   *)
(* bindings it uses and its invocations are its own.                        *)
IsBinding(v) == v.base[2] \in {"x", "o"}
Defined(ops) == UNION {{ops[i].res.base} \cup
                       {v.base : v \in IF ops[i].k = "inv" THEN Range(ops[i].code) ELSE {}} :
                       i \in DOMAIN ops}
Iteration(body, ops, i) ==
  LET own == Defined(body)
      Of(v) == IF v.base \in own \/ IsBinding(v) THEN [v EXCEPT !.it = i] ELSE v
      All(s) == [j \in DOMAIN s |-> Of(s[j])]
  IN  [j \in DOMAIN ops |->
         [ops[j] EXCEPT !.res = Of(@), !.args = All(@), !.code = All(@),
                        !.inv = IF @ = << >> THEN @ ELSE [@ EXCEPT !.it = i]]]

Position(k) == {i \in DOMAIN ir : ir[i].k = k}
HasLoop == Position("forall") # {}
LoopAt == Min(Position("forall"))
EndAt == Min(Position("end"))
Body == SubSeq(ir, LoopAt + 1, EndAt - 1)
Bound == ir[LoopAt].inv
WithLoopAs(ops) == SubSeq(ir, 1, LoopAt - 1) \o ops \o SubSeq(ir, EndAt + 1, Len(ir))

(* The meaning of the source: its operations in order, iteration after      *)
(* iteration.                                                               *)
SourceOrder ==
  IF ~HasLoop THEN ir
  ELSE WithLoopAs(FlattenSeq([i \in 1 .. Bound |-> Iteration(Body, Body, i - 1)]))

Bindings(k) == {ir[i].res : i \in {j \in Position("binding") : ir[j].res.base[2] = k}}
BindingCells(k) == UNION {{<<v.base, w \div Words, w % Words>> : w \in WordsOf(v)} :
                          v \in Bindings(k)}
SourceCell(v, w) == <<v.base, v.it, v.off + w>>
Meaning ==
  LET effects == Kept(SourceOrder, LAMBDA op : IsCopy(op) \/ op.k \in {"kernel", "call"})
      m == Fold(LAMBDA acc, op : Apply(op, acc, SourceCell),
                    [c \in BindingCells("x") |-> <<"in">> \o c], effects)
  IN  [c \in BindingCells("o") |-> Get(m, c)]

(* The function ends with a store of one of its values. *)
Finish ==
  /\ stage = "build"
  /\ \/ \E v \in vals :
          LET o == Fresh("o", "xram", v.sz)
          IN  ir' = ir \o <<BindingOp(o, 1), Use("store", <<o, v>>)>>
     \/ vals = {} /\ HasLoop /\ ir' = ir
  /\ stage' = "mean"
  /\ UNCHANGED <<vals, steps, expected, planVars, runVars>>

TakeMeaning ==
  /\ stage = "mean"
  /\ expected' = Meaning
  /\ stage' = "lowerCalls"
  /\ UNCHANGED <<ir, vals, steps, planVars, runVars>>

-----------------------------------------------------------------------------
(* LowerCallProgramToStartWaitPass: a call becomes an invocation, which is  *)
(* started and waited for; the code and the argument addresses of a CSS     *)
(* program go through LRAM to ITCM and DTCM first.                          *)
Section(inv, j) == [Val(<<inv.id[1], <<"c", "g">>[j]>>, "xram", 1) EXCEPT !.it = inv.it]
Near(inv, name, sp) == Val(<<inv.id[1], name>>, sp, 1)

CodeToLram(inv) ==
  <<AllocOp(Near(inv, "lc", "lram")), Use("load", <<Near(inv, "lc", "lram"), Section(inv, 1)>>)>>

CssCode(inv) ==
  CodeToLram(inv) \o
  <<AllocOp(Near(inv, "ic", "itcm")),
    Use("copy", <<Near(inv, "ic", "itcm"), Near(inv, "lc", "lram")>>),
    AllocOp(Near(inv, "lg", "lram")), Use("load", <<Near(inv, "lg", "lram"), Section(inv, 2)>>),
    AllocOp(Near(inv, "dg", "dtcm")),
    Use("copy", <<Near(inv, "dg", "dtcm"), Near(inv, "lg", "lram")>>)>>

LowerCall(op) ==
  IF op.ex = "css"
  THEN <<InvOp(op.inv, "css", <<Section(op.inv, 1), Section(op.inv, 2)>>)>> \o CssCode(op.inv) \o
       <<StartOp(op.inv, "css", <<Near(op.inv, "ic", "itcm"), Near(op.inv, "dg", "dtcm")>>, op.args),
         WaitOp(op.inv, "css")>>
  ELSE <<InvOp(op.inv, "host", << >>), StartOp(op.inv, "host", << >>, op.args),
         WaitOp(op.inv, "host")>>

(* outlineOp: a kernel becomes a slice program with its code in LRAM. *)
OutlineOp(op) ==
  <<InvOp(op.inv, "slice", <<Section(op.inv, 1)>>)>> \o CodeToLram(op.inv) \o
  <<StartOp(op.inv, "slice", <<Near(op.inv, "lc", "lram")>>, op.args), WaitOp(op.inv, "slice")>>

Rewrite(k, F(_)) == FlattenSeq([i \in DOMAIN ir |-> IF ir[i].k = k THEN F(ir[i]) ELSE <<ir[i]>>])

Pass(from, to) == stage = from /\ stage' = to /\ UNCHANGED <<vals, steps, expected, runVars>>

LowerCalls ==
  /\ Pass("lowerCalls", "outlineSlices")
  /\ ir' = Rewrite("call", LowerCall)
  /\ UNCHANGED planVars

OutlineSlices ==
  /\ Pass("outlineSlices", "unroll")
  /\ ir' = Rewrite("kernel", OutlineOp)
  /\ UNCHANGED planVars

(* ForallOpPattern: the body is cut before every wait, and each piece is    *)
(* copied for all the iterations before the next piece begins.              *)
Pieces(body) ==
  Fold(LAMBDA acc, op : IF op.k = "wait" THEN Append(acc, <<op>>)
                            ELSE Append(Front(acc), Append(Last(acc), op)),
           << << >> >>, body)

Unrolled ==
  LET body == Body
      pieces == Pieces(body)
  IN  FlattenSeq([p \in DOMAIN pieces |->
        FlattenSeq([i \in 1 .. Bound |-> Iteration(body, pieces[p], i - 1)])])

UnrollForall ==
  /\ Pass("unroll", "schedule")
  /\ ir' = IF HasLoop THEN WithLoopAs(Unrolled) ELSE ir
  /\ UNCHANGED planVars

(* scheduleSliceTasks: each started invocation, whatever runs it, gets the  *)
(* first executor_id that is not busy.  (No pass before sets executor_id:   *)
(* the branch for one that is already set is left out.)                     *)
\* Mutant: the slices are counted, but every invocation gets the first one.
ScheduleOnFirst(acc, op) ==
  CASE op.k = "start" -> [acc EXCEPT !.busy = @ \cup {Cardinality(@)},
                                     !.ids = With(@, [inv \in {op.inv} |-> 0]),
                                     !.ok = @ /\ Cardinality(acc.busy) < SliceCount]
    [] op.k = "wait"  -> [acc EXCEPT !.busy = {}]
    [] OTHER          -> acc

Schedule(acc, op) ==
  LET free == 0 .. SliceCount - 1 \ acc.busy
  IN  CASE op.k = "start" /\ free = {} -> [acc EXCEPT !.ok = FALSE]
        [] op.k = "start" /\ free # {} -> [acc EXCEPT !.busy = @ \cup {Min(free)},
                                                      !.ids = With(@, [inv \in {op.inv} |-> Min(free)])]
        [] op.k = "wait" /\ op.inv \in DOMAIN acc.ids ->
             [acc EXCEPT !.busy = @ \ {acc.ids[op.inv]}]
        [] OTHER -> acc

Scheduled == Fold(Schedule, [busy |-> {}, ids |-> << >>, ok |-> TRUE], ir)

ScheduleSliceTasks ==
  LET scheduled == Scheduled
  IN  /\ Pass("schedule", IF scheduled.ok THEN "canonicalize" ELSE "failed")
      /\ slice' = scheduled.ids
      /\ UNCHANGED <<ir, addr, progs, footprint>>

(* The canonicalizer erases the views that nothing uses. *)
Canonicalize ==
  /\ Pass("canonicalize", "deallocate")
  /\ ir' = Fold(LAMBDA kept, op :
                  IF op.k = "view" /\ \A i \in DOMAIN kept : op.res \notin Operands(kept[i])
                  THEN kept ELSE <<op>> \o kept,
                << >>, Reverse(ir))
  /\ UNCHANGED planVars

(***************************************************************************)
(* AddDeallocationPass.  A buffer is used by the operations that have it or *)
(* an alias of it as operand, a wait having those of its start.             *)
(***************************************************************************)
Key(v) == <<v.base, v.it>>

StartOf(inv) == ir[Min({i \in Position("start") : ir[i].inv = inv})]

\* Mutant: a view is not an alias of the buffer it is in.
UsedByOwnName(op) ==
  {<<v.id, v.it>> : v \in Operands(IF op.k = "wait" THEN StartOf(op.inv) ELSE op)}
\* Mutant: a wait uses nothing, an invocation's buffers end with its start.
UsedByOperands(op) == {Key(v) : v \in Operands(op)}

UsedBy(op) == {Key(v) : v \in Operands(IF op.k = "wait" THEN StartOf(op.inv) ELSE op)}

LastAllocationUser ==
  LET uses == [i \in DOMAIN ir |-> UsedBy(ir[i])]
  IN  [key \in {Key(ir[i].res) : i \in Position("alloc")} |->
         Max({i \in DOMAIN ir : key \in uses[i]})]

DeallocsAfter(i, lastUser) ==
  LET last == Kept(ir, LAMBDA op : op.k = "alloc" /\ lastUser[Key(op.res)] = i)
  IN  Reverse([j \in DOMAIN last |-> Op("dealloc", last[j].res, << >>, << >>, << >>, "none")])

AddDeallocation ==
  LET lastUser == LastAllocationUser
  IN  /\ Pass("deallocate", "assign")
      /\ ir' = FlattenSeq([i \in DOMAIN ir |-> <<ir[i]>> \o DeallocsAfter(i, lastUser)])
      /\ UNCHANGED planVars

(***************************************************************************)
(* AssignAddressesPass: pools of LRAM, with the two areas of NSS programs   *)
(* reserved, DTCM and ITCM; in XRAM increasing addresses for the sections   *)
(* of invocations, bindings and buffers.                                    *)
(***************************************************************************)
BlockAt(p, v) == p .. p + v.sz - 1

At(v, p) == [key \in {Key(v)} |-> p]

Fits(used, n) == {p \in 0 .. MemSize - n - 1 : (p .. p + n - 1) \cap used = {}}

PlaceInPool(acc, v) ==
  LET fits == Fits(acc.used[v.sp], v.sz)
  IN  IF fits = {} THEN [acc EXCEPT !.ok = FALSE]
      ELSE [acc EXCEPT !.used[v.sp] = @ \cup BlockAt(Min(fits), v),
                       !.at = With(@, At(v, Min(fits)))]

PlaceInXram(acc, v) == [acc EXCEPT !.next = @ + v.sz, !.at = With(@, At(v, acc.next))]

Place(acc, op) ==
  CASE op.k = "inv"                             -> Fold(PlaceInXram, acc, op.code)
    [] op.k = "binding"                         -> PlaceInXram(acc, op.res)
    [] op.k = "alloc" /\ op.res.sp = "xram"     -> PlaceInXram(acc, op.res)
    [] op.k = "alloc" /\ op.res.sp # "xram"     -> PlaceInPool(acc, op.res)
    [] op.k = "dealloc" /\ op.res.sp # "xram"   ->
         [acc EXCEPT !.used[op.res.sp] = @ \ BlockAt(acc.at[Key(op.res)], op.res)]
    [] OTHER                                    -> acc

(* No room in a memory ends the pass. *)
PlaceIfOk(acc, op) == IF acc.ok THEN Place(acc, op) ELSE acc

Reserved == 0 .. 2 * NssTaskSize - 1

(* The attribute torq-next-free-xram-address of the function. *)
NextFreeXram == <<<<0, "next">>, 0>>

Addresses ==
  Fold(PlaceIfOk, [used |-> [lram |-> Reserved, dtcm |-> {}, itcm |-> {}],
                   next |-> 0, at |-> << >>, ok |-> TRUE], ir)

AssignAddresses ==
  LET addresses == Addresses
  IN  /\ Pass("assign", IF addresses.ok THEN "outlineNSS" ELSE "failed")
      /\ addr' = With(addresses.at, [key \in {NextFreeXram} |-> addresses.next])
      /\ UNCHANGED <<ir, slice, progs, footprint>>

(***************************************************************************)
(* OutlineNSSProgramsPass: runs of operations that the NSS does become NSS  *)
(* programs of less than NssTaskSize tasks, the last task being the load of *)
(* the next program into the other area.  The first program, which the host *)
(* copies into area 0, only loads the second.                               *)
(***************************************************************************)
IsNssOperation(op) ==
  \/ op.k \in {"load", "store", "copy"}
  \/ op.k \in {"start", "wait"} /\ op.ex \in {"slice", "css"}
  \/ op.k \in {"alloc", "dealloc"} /\ op.res.sp # "xram"

OperationSize(op) == IF op.k \in {"alloc", "dealloc"} THEN 0 ELSE 1

Program(i) == Op("program", NoVal, << >>, << >>, i, "nss")   \* program i goes here

FindPrograms(acc, op) ==
  CASE ~IsNssOperation(op) -> [acc EXCEPT !.function = Append(@, op), !.new = TRUE]
    [] IsNssOperation(op) /\ (acc.new \/ acc.size + OperationSize(op) > NssTaskSize - 1) ->
         [acc EXCEPT !.function = Append(@, Program(Len(acc.programs))),
                     !.programs = Append(@, <<op>>),
                     !.size = OperationSize(op), !.new = FALSE]
    [] OTHER ->
         [acc EXCEPT !.programs = Append(Front(@), Append(Last(@), op)),
                     !.size = @ + OperationSize(op)]

Found == Fold(FindPrograms,
                  [function |-> <<Program(0)>>, programs |-> << << >> >>,
                   size |-> 0, new |-> TRUE], ir)

\* Mutant: the next program is loaded over the one that loads it.
AreaOfAll(i) == Val(<<0, "area">>, "lram", NssTaskSize)

Area(i) == Val(<<i % 2, "area">>, "lram", NssTaskSize)
NssSection(i) == Val(<<i, "nss">>, "xram", NssTaskSize)
NssInv(i) == [id |-> <<i, "nss">>, it |-> 0]

OutlineOperations(i, count) ==
  (IF i = 0 THEN <<InvOp(NssInv(0), "nss", <<NssSection(0)>>),
                   Use("hostcopy", <<Area(0), NssSection(0)>>)>> ELSE << >>) \o
  (IF i + 1 < count THEN <<InvOp(NssInv(i + 1), "nss", <<NssSection(i + 1)>>)>> ELSE << >>) \o
  <<StartOp(NssInv(i), "nss", <<Area(i)>>, << >>), WaitOp(NssInv(i), "nss")>>

WithNextLoad(programs) ==
  [j \in DOMAIN programs |->
     programs[j] \o (IF j < Len(programs) THEN <<Use("load", <<Area(j), NssSection(j)>>)>> ELSE << >>)]

OutlineNSSPrograms ==
  LET found == Found
      count == Len(found.programs)
      areas == [k \in {Key(Area(0)), Key(Area(1))} |-> k[1][1] * NssTaskSize]
      sections == [k \in {Key(NssSection(i)) : i \in 0 .. count - 1} |->
                     addr[NextFreeXram] + k[1][1] * NssTaskSize]
  IN  /\ Pass("outlineNSS", "serialize")
      /\ progs' = WithNextLoad(found.programs)
      /\ ir' = FlattenSeq([j \in DOMAIN found.function |->
                 IF found.function[j].k = "program"
                 THEN OutlineOperations(found.function[j].inv, count)
                 ELSE <<found.function[j]>>])
      /\ addr' = With(addr, With(areas, sections))
      /\ UNCHANGED <<slice, footprint>>

(***************************************************************************)
(* serializeFunction: the code segments, those of CSS programs first, and   *)
(* the host actions.  compute_xram_footprint at run time.                   *)
(*                                                                         *)
(* A section is one segment here.  The segment of an NSS program is as long *)
(* as its tasks.  The code of a slice is in fact some segments, for CFG and *)
(* for NDL descriptors, that together are not longer than the section.      *)
(***************************************************************************)
InvocationsOf(executors) == Kept(ir, LAMBDA op : op.k = "inv" /\ op.ex \in executors)
Sections(executors) ==
  Fold(LAMBDA acc, op : acc \o op.code, << >>, InvocationsOf(executors))
Segments == Sections({"css"}) \o Sections({"slice", "nss"})

Tasks(program) == Len(Kept(program, LAMBDA op : OperationSize(op) = 1))
SegmentSize(v) == IF v.base[2] = "nss" THEN Tasks(progs[v.base[1] + 1]) ELSE v.sz

SegmentInFootprint(acc, v) ==
  LET end == addr[Key(v)] + SegmentSize(v)
  IN  [lo |-> Min({acc.lo, addr[Key(v)]}),
       hi |-> IF end > acc.hi THEN end + NssTaskSize ELSE acc.hi]

BufferInFootprint(acc, op) ==
  IF op.k \in {"binding", "alloc"} /\ op.res.sp = "xram"
  THEN [lo |-> Min({acc.lo, addr[Key(op.res)]}),
        hi |-> Max({acc.hi, addr[Key(op.res)] + op.res.sz})]
  ELSE acc

\* Mutant: the bindings and the buffers are left out.
FootprintOfSegments ==
  Fold(SegmentInFootprint, [lo |-> addr[NextFreeXram], hi |-> 0], Segments)

Footprint ==
  Fold(BufferInFootprint,
           Fold(SegmentInFootprint, [lo |-> addr[NextFreeXram], hi |-> 0], Segments), ir)

\* Where word w of a value is; the part of a binding that an iteration uses.
Cell(v, w) ==
  LET at == IF IsBinding(v) THEN addr[<<v.base, 0>>] + v.it * Words ELSE addr[Key(v)]
  IN  <<v.sp, at + v.off + w>>

Code(v) == <<"code", Key(v)>>

\* XRAM when the first action runs: the inputs and the code segments.
Prepared ==
  LET Part(c) == Cell([Val(c[1], "xram", 1) EXCEPT !.it = c[2]], c[3])
      cells == BindingCells("x")
      inputs == [p \in {Part(c) : c \in cells} |-> <<"in">> \o CHOOSE c \in cells : Part(c) = p]
  IN  Fold(LAMBDA m, v : With(m, [c \in {Cell(v, w) : w \in WordsOf(v)} |-> Code(v)]),
           inputs, Segments)

Serialize ==
  /\ stage = "serialize"
  /\ stage' = "run"
  /\ footprint' = Footprint
  /\ mem' = Prepared
  /\ ir' = Kept(ir, LAMBDA op : op.k \notin {"inv", "binding", "view"})
  /\ UNCHANGED <<vals, steps, expected, slice, addr, progs, hpc, nss, flying, ended, live>>

(***************************************************************************)
(* The run.  The host does its actions in order; a host program runs in its *)
(* start action.  The NSS does the tasks of the program in the area it was  *)
(* started at, a copy being started and waited for in one task.  A slice or *)
(* the CSS ends its program any time after the start.                       *)
(***************************************************************************)
Running == nss.program >= 0
HostOp == ir[hpc]
NssOp == progs[nss.program + 1][nss.pc]
NssHasEnded == Running /\ nss.pc > Len(progs[nss.program + 1])
NssIdle == [program |-> -1, pc |-> 0]

After(op) ==
  CASE op.k = "alloc"   -> live \cup {Key(op.res)}
    [] op.k = "dealloc" -> live \ {Key(op.res)}
    [] OTHER            -> live

Executor(op) == IF op.ex = "slice" THEN <<"slice", slice[op.inv]>> ELSE <<op.ex, 0>>

RunStep == stage = "run" /\ UNCHANGED <<stage, ir, vals, steps, expected, planVars>>

HostAction ==
  /\ RunStep
  /\ hpc <= Len(ir)
  /\ HostOp.ex # "nss"
  /\ mem' = IF IsCopy(HostOp) \/ HostOp.k = "start" THEN Apply(HostOp, mem, Cell) ELSE mem
  /\ live' = After(HostOp)
  /\ hpc' = hpc + 1
  /\ UNCHANGED <<nss, flying, ended>>

StartNSS ==
  /\ RunStep
  /\ hpc <= Len(ir)
  /\ HostOp.k = "start" /\ HostOp.ex = "nss"
  /\ nss' = [program |-> HostOp.inv.id[1], pc |-> 1]
  /\ hpc' = hpc + 1
  /\ UNCHANGED <<flying, ended, live, mem>>

WaitNSS ==
  /\ RunStep
  /\ hpc <= Len(ir)
  /\ HostOp.k = "wait" /\ HostOp.ex = "nss"
  /\ NssHasEnded
  /\ nss' = NssIdle
  /\ hpc' = hpc + 1
  /\ UNCHANGED <<flying, ended, live, mem>>

NssNext == nss' = [nss EXCEPT !.pc = @ + 1] /\ UNCHANGED hpc

NssCopy ==
  /\ RunStep
  /\ Running /\ ~NssHasEnded
  /\ NssOp.k \notin {"start", "wait"}
  /\ mem' = IF IsCopy(NssOp) THEN Apply(NssOp, mem, Cell) ELSE mem
  /\ live' = After(NssOp)
  /\ NssNext
  /\ UNCHANGED <<flying, ended>>

NssStart ==
  /\ RunStep
  /\ Running /\ ~NssHasEnded
  /\ NssOp.k = "start"
  /\ flying' = flying \cup {NssOp}
  /\ NssNext
  /\ UNCHANGED <<ended, live, mem>>

NssWait ==
  /\ RunStep
  /\ Running /\ ~NssHasEnded
  /\ NssOp.k = "wait"
  /\ LET here == {op \in flying : Executor(op) = Executor(NssOp)}
     IN  /\ here \subseteq ended
         /\ flying' = flying \ here
         /\ ended' = ended \ here
  /\ NssNext
  /\ UNCHANGED <<live, mem>>

CodeIsLoaded(op) ==
  \A j \in DOMAIN op.code :
    \A w \in WordsOf(op.code[j]) : Get(mem, Cell(op.code[j], w)) = Code(Section(op.inv, j))

Complete ==
  /\ RunStep
  /\ \E op \in flying \ ended :
       /\ ended' = ended \cup {op}
       /\ mem' = IF CodeIsLoaded(op) THEN Apply(op, mem, Cell)
                 ELSE Apply([op EXCEPT !.inv = [id |-> <<0, "junk">>, it |-> 0]], mem, Cell)
  /\ UNCHANGED <<hpc, nss, flying, live>>

ReadBack ==
  /\ stage = "run"
  /\ hpc > Len(ir)
  /\ stage' = "done"
  /\ UNCHANGED <<ir, vals, steps, expected, planVars, runVars>>

Terminated == stage \in {"done", "failed"} /\ UNCHANGED vars

Init ==
  /\ stage = "build"
  /\ ir = << >> /\ vals = {} /\ steps = 0
  /\ expected = << >>
  /\ slice = << >> /\ addr = << >> /\ progs = << >> /\ footprint = [lo |-> 0, hi |-> 0]
  /\ hpc = 1 /\ nss = NssIdle
  /\ flying = {} /\ ended = {} /\ live = {}
  /\ mem = << >>

Next ==
  \/ Build \/ Finish \/ TakeMeaning
  \/ LowerCalls \/ OutlineSlices \/ UnrollForall \/ ScheduleSliceTasks \/ Canonicalize
  \/ AddDeallocation \/ AssignAddresses \/ OutlineNSSPrograms \/ Serialize
  \/ HostAction \/ StartNSS \/ WaitNSS \/ NssCopy \/ NssStart \/ NssWait \/ Complete \/ ReadBack
  \/ Terminated

Spec == Init /\ [][Next]_vars

-----------------------------------------------------------------------------
(* The operations that are going on: those of invocations that have not     *)
(* been waited for, and the one the host or the NSS does next.              *)
GoingOn ==
  flying \cup (IF Running /\ ~NssHasEnded THEN {NssOp} ELSE {})
         \cup (IF stage = "run" /\ hpc <= Len(ir) THEN {HostOp} ELSE {})

Pooled(v) == v.base[2] \notin {"x", "o", "c", "g", "nss", "area"}

(* When the function returns its outputs are what the source means, however *)
(* the slices, the CSS and the NSS were scheduled: outlining, unrolling,    *)
(* deallocation, addresses and NSS programs together preserve the meaning.  *)
ResultsMatch ==
  stage = "done" =>
    \A c \in DOMAIN expected :
      Get(mem, Cell([Val(c[1], "xram", 1) EXCEPT !.it = c[2]], c[3])) = expected[c]

(* No operation that is going on uses a buffer that AddDeallocationPass has *)
(* deallocated: a buffer outlives the invocations it was passed to.         *)
UsedBuffersAreLive ==
  \A op \in GoingOn : \A v \in Operands(op) : Pooled(v) => Key(v) \in live

(* Two invocations that have not been waited for are on different slices,   *)
(* and there is one at a time on the CSS: scheduleSliceTasks never starts a *)
(* program on an executor that is busy.                                     *)
ExecutorIsIdle ==
  \A o, p \in flying : o # p => Executor(o) # Executor(p)

(* The area a running NSS program was started in holds that program: it was *)
(* loaded before the start, and neither the load of the next program nor a  *)
(* buffer overwrites it before the host has seen the program end.           *)
ProgramsAreLoaded ==
  Running =>
    \A w \in 0 .. NssTaskSize - 1 :
      Get(mem, Cell(Area(nss.program), w)) = Code(NssSection(nss.program))

XramOf(op) == {v \in Operands(op) : v.sp = "xram"}
InFootprint(v) ==
  \A w \in WordsOf(v) : Cell(v, w)[2] >= footprint.lo /\ Cell(v, w)[2] < footprint.hi

(* The buffers, bindings and code sections that the NSS and the host reach  *)
(* in XRAM are in the footprint that compute_xram_footprint maps.           *)
XramIsMapped ==
  \A op \in GoingOn : \A v \in XramOf(op) : v.base[2] # "nss" => InFootprint(v)

(* So are the NSS programs that are loaded: every load reads a whole area,  *)
(* as the comment in compute_xram_footprint says it must allow for.         *)
ProgramsAreMapped ==
  \A op \in GoingOn : \A v \in XramOf(op) : v.base[2] = "nss" => InFootprint(v)
=============================================================================
