------------------------------- MODULE Generator -------------------------------
(***************************************************************************)
(* From the syntax tree of a module to byte-code: reduce (src/reduce.h)    *)
(* and the gen_* functions of src/generator.c.                             *)
(*                                                                         *)
(* A program is a sequence of paths [name, param, body] in the order of    *)
(* the source.  A body is a sequence of statements; nodes are records with *)
(* the field op:                                                           *)
(*    num n | atom a | var x | tuple ms | list ms | cons ms                *)
(*    add l r | sub l r | gt l r | lt l r                                  *)
(*    bind x e            x := e                                           *)
(*    apply f e           ./f e                                            *)
(*    select arg clauses  arg ? pat & guards : body | ...                  *)
(* where arg and pat are sequences of length 0 or 1 (no argument, no       *)
(* pattern).  "cons" is what reduce makes of a list.                       *)
(*                                                                         *)
(* A node is known by its address in its function, a sequence of indices:  *)
(* the code compares nodes by pointer, and equal nodes may occur twice.    *)
(***************************************************************************)
EXTENDS Patterns, Integers, SequencesExt

CONSTANT BitRK      \* BITRK: operands from here on are constants

RKASK(i) == i + BitRK
ISK(x) == x >= BitRK

-----------------------------------------------------------------------------
RECURSIVE Reduce(_)

\* reduce_node: descends into bindings, applications and the arguments of
\* selects.  OCLAUSE has no reducer, so the bodies of a select's clauses stay
\* as they are, and so do the members of tuples and lists and the operands of
\* operators.
Reduce(n) ==
    CASE n.op = "list"   -> [op |-> "cons", ms |-> n.ms]
      [] n.op = "bind"   -> [n EXCEPT !.e = Reduce(@)]
      [] n.op = "apply"  -> [n EXCEPT !.e = Reduce(@)]
      [] n.op = "select" -> [n EXCEPT !.arg = [i \in DOMAIN @ |-> Reduce(@[i])]]
      [] OTHER -> n

\* reduce_block, reduce_path
ReduceBody(body) == [i \in DOMAIN body |-> Reduce(body[i])]

-----------------------------------------------------------------------------
(***************************************************************************)
(* The generator's state within a path is a record g:                      *)
(*    path   g->path->name             nreg  clause->nreg                  *)
(*    sc     the names in scope        k     clause->kheader and ktable    *)
(*    code   clause->code              block g->block                      *)
(*    reg    what the last gen_* function returned: a register or, from    *)
(*           BitRK on, a constant                                          *)
(*    left   the operand that was generated before that                    *)
(*    crash  a null block was dereferenced                                 *)
(* A block is [last, top, first]: the address of its last statement,       *)
(* whether it is the body of the path's clause, and whether it is the      *)
(* first block of the file, whose parent is NULL.                          *)
(***************************************************************************)
Ins(op, a, b, c) == [op |-> op, a |-> a, b |-> b, c |-> c]
Jump(offset) == Ins("JUMP", 0, offset, 0)

\* Number 0, which ends vm_execute's loop, and holds the place of a jump that
\* is patched later.
Zero == Ins("ZERO", 0, 0, 0)

\* gen(g, i)
Emit(g, i) == [g EXCEPT !.code = Append(@, i)]
PC(g) == Len(g.code)

\* The positions of the code so far, counted from 0 as jumps do.
Places(g) == 0..PC(g) - 1

\* Put patch[j] in every place j from `from` on that is still to be patched.
PatchFrom(g, from, patch) ==
    [g EXCEPT !.code = [j \in DOMAIN @ |-> IF j > from /\ @[j] = Zero THEN patch[j - 1]
                                           ELSE @[j]]]

\* nextreg(g), for clauses of fewer than the 256 registers at which it wraps
\* around (SymTab).
NextReg(g) == [g EXCEPT !.nreg = @ + 1, !.reg = g.nreg]

\* An instruction that writes to a register of its own.
EmitResult(g, op, b, c) == Emit(NextReg(g), Ins(op, g.nreg, b, c))

\* gen_constant(g, src, tval): a constant with a source text is shared.
NoSrc == [src |-> "none"]
Constants(g, src) == {i \in DOMAIN g.k : g.k[i].src = src /\ src # NoSrc}
Constant(g, src, v) ==
    IF Constants(g, src) = {}
      THEN [g EXCEPT !.k = Append(@, [src |-> src, v |-> v]), !.reg = RKASK(Len(g.k))]
    ELSE [g EXCEPT !.reg = RKASK((CHOOSE i \in Constants(g, src) : TRUE) - 1)]

\* gen_num, gen_atom
Literal(g, v) == Constant(g, v, v)

\* LOADK or MOVE, as gen_bind and gen_select choose.
Copy(g, to, reg) == Emit(g, Ins(IF ISK(reg) THEN "LOADK" ELSE "MOVE", to, reg, 0))

ModuleName == [k |-> "atom", a |-> "module"]
PathId(f) == [k |-> "pathid", path |-> f]

RECURSIVE Gen(_, _, _)
RECURSIVE GenStatements(_, _, _, _)
RECURSIVE GenClauses(_, _, _, _, _)

\* gen_node after something else: that comes to be the left operand.
GenNext(g, n, at) == [Gen(g, n, at) EXCEPT !.left = g.reg]

\* The operands of gen_add, gen_sub, gen_gt and gen_lt.
GenOperands(g, n, at) == GenNext(Gen(g, n.l, Append(at, 1)), n.r, Append(at, 2))

\* gen_add, gen_sub
EmitArith(g, op) == EmitResult(g, op, g.left, g.reg)

\* gen_gt, gen_lt: l < r is r > l.
EmitCompare(g, op) ==
    Emit(g, IF op = "gt" THEN Ins("GT", 0, g.left, g.reg)
                         ELSE Ins("GT", 0, g.reg, g.left))

\* gen_tuple: TUPLE, and SETTUPLE for every member.
GenTuple(g, n, at) ==
    LET SetTo(h, i) == Emit(h, Ins("SETTUPLE", g.nreg, i - 1, h.reg))
        Set(h, i) == SetTo(Gen(h, n.ms[i], Append(at, i)), i)
    IN [FoldLeftDomain(Set, EmitResult(g, "TUPLE", Len(n.ms), 0), n.ms)
          EXCEPT !.reg = g.nreg]

\* gen_list: a list that reduce has not been at loses its members.
GenList(g) == EmitResult(g, "LIST", 0, 0)

\* gen_cons: the members, last to first, each consed in the same register.
GenCons(g, n, at) ==
    LET ConsTo(h) == Emit(h, Ins("CONS", g.nreg, g.nreg, h.reg))
        Put(i, h) == ConsTo(Gen(h, n.ms[i], Append(at, i)))
    IN [FoldRightDomain(Put, n.ms, GenList(g)) EXCEPT !.reg = g.nreg]

\* gen_access on a path of the module itself: a register that is never used,
\* the module's name, and a constant of the call's own.
GenAccess(g, f) ==
    Constant(Constant(NextReg(g), ModuleName, ModuleName), NoSrc, PathId(f))

\* Mutated forms: every call of the path itself is a tail call; none is.
IsAnySelfCall(g, n, at) == n.f = g.path
IsNever(g, n, at) == FALSE

\* gen_apply's loop: a call of the path itself that is the last statement of
\* g->block is a tail call.
IsTailCall(g, n, at) == g.block.last = at /\ n.f = g.path

\* For any other last statement the loop goes on to the block's parent, which
\* is NULL for the first block of a file.
FollowsNull(g, n, at) == g.block.last = at /\ n.f # g.path /\ g.block.first

\* gen_apply, when the path and the argument have been generated.
EmitApply(g, n, at) ==
    IF FollowsNull(g, n, at) THEN [g EXCEPT !.crash = TRUE]
    ELSE IF IsTailCall(g, n, at) THEN EmitResult(g, "TAILCALL", 0, g.reg)
    ELSE EmitResult(g, "CALL", g.left, g.reg)

GenApply(g, n, at) == EmitApply(GenNext(GenAccess(g, n.f), n.e, Append(at, 1)), n, at)

\* gen_bind, when the value is in g.reg.  It returns 0, whatever it bound.
BindName(g, x) ==
    [Copy(NextReg(g), g.nreg, g.reg) EXCEPT !.sc = Bind(@, x, g.nreg), !.reg = 0]

GenBind(g, n, at) == BindName(Gen(g, n.e, Append(at, 1)), n.x)

RECURSIVE GenPattern(_, _, _)

\* gen_pattern, which calls itself.
GenPattern(p, sc, next) ==
    GenPatternTerm(p, sc, next, LAMBDA q, s, n : GenPattern(q, s, n))

\* Mutated form: the registers of the pattern's names are not reserved.
PatternConstantNoRegs(g, pat) == Constant([g EXCEPT !.sc = pat.sc], NoSrc, pat.pat)

\* gen_pattern, for registers from g.nreg + 1 on, and its constant.
PatternConstant(g, pat) ==
    Constant([g EXCEPT !.sc = pat.sc, !.nreg = pat.next], NoSrc, pat.pat)

\* gen_select's try of a clause's pattern: A is the register before those of
\* the pattern, and behind it is the place of the jump to the next clause.
EmitTry(g, op, a) == Emit(Emit(g, Ins(op, a, g.left, g.reg)), Zero)

GenTry(g, c, arg, at) ==
    IF c.pat = <<>> \/ arg = <<>> THEN g
    ELSE EmitTry(GenNext(PatternConstant(g, GenPattern(c.pat[1], g.sc, g.nreg + 1)),
                         arg[1], Append(at, 0)),
                 IF c.pat[1].k = "num" THEN "EQ" ELSE "MATCH", g.nreg)

\* The guards: each a comparison and the place of a jump.
GenGuards(g, c, at) ==
    FoldLeftDomain(LAMBDA h, i : Emit(Gen(h, c.guards[i], at \o <<0, i>>), Zero),
                   g, c.guards)

\* The end of a clause whose code is from `from` on: the value goes to the
\* select's register, a place is left for the way out, and the pattern's and
\* the guards' jumps lead behind it.
EndClause(g, from, result, out) ==
    LET places == IF out THEN 1 ELSE 0
        Skip(h) == PatchFrom(h, from, [j \in Places(h) |-> Jump(PC(h) + places - j - 1)])
        Leave(h) == IF out THEN Emit(h, Zero) ELSE h
    IN Leave(Skip(Copy(g, result, g.reg)))

\* gen_block, when g->block is the block itself.
GenBlockOf(g, body, at) ==
    [GenStatements(g, body, at, 1) EXCEPT !.block = g.block]

\* gen_block.  When it ends, g->block is still the block itself, not the one
\* around it; the caller's exitscope closes the scope of its names.
GenBlock(g, body, at) ==
    GenBlockOf([g EXCEPT !.reg = 0,
                         !.block = [last |-> Append(at, Len(body)), top |-> at = <<>>,
                                    first |-> at = <<>> /\ g.nth = 1]],
               body, at)

\* gen_block's loop, from statement i.
GenStatements(g, body, at, i) ==
    IF g.crash \/ i > Len(body) THEN g
    ELSE GenStatements(Gen(g, body[i], Append(at, i)), body, at, i + 1)

\* One clause of a select, in scopes of its own.
GenClause(g, n, at, i, result) ==
    LET c    == n.clauses[i]
        here == Append(at, i)
    IN [EndClause(GenBlock(GenGuards(GenTry(g, c, n.arg, at), c, here), c.body, here),
                  PC(g), result, i < Len(n.clauses))
          EXCEPT !.sc = g.sc]

\* gen_select's loop, from clause i.
GenClauses(g, n, at, i, result) ==
    IF g.crash \/ i > Len(n.clauses) THEN g
    ELSE GenClauses(GenClause(g, n, at, i, result), n, at, i + 1, result)

\* The ways out of a select: where it is the last value of its function the
\* clauses return, elsewhere they jump behind it.
EndSelect(g, from, result, islast) ==
    [PatchFrom(g, from, [j \in Places(g) |-> IF islast THEN Ins("RETURN", result, 0, 0)
                                            ELSE Jump(PC(g) - j - 1)])
       EXCEPT !.reg = result]

\* gen_select
GenSelect(g, n, at) ==
    EndSelect(GenClauses(NextReg(g), n, at, 1, g.nreg), PC(g), g.nreg,
              g.block.last = at /\ g.block.top)

\* gen_node.  A name that is not in scope is outside of what is modelled.
Gen(g, n, at) ==
    CASE n.op = "num"    -> Literal(g, [k |-> "num", n |-> n.n])
      [] n.op = "atom"   -> Literal(g, [k |-> "atom", a |-> n.a])
      [] n.op = "var"    -> [g EXCEPT !.reg = g.sc[n.x]]
      [] n.op = "tuple"  -> GenTuple(g, n, at)
      [] n.op = "list"   -> GenList(g)
      [] n.op = "cons"   -> GenCons(g, n, at)
      [] n.op = "add"    -> EmitArith(GenOperands(g, n, at), "ADD")
      [] n.op = "sub"    -> EmitArith(GenOperands(g, n, at), "SUB")
      [] n.op \in {"gt", "lt"} -> EmitCompare(GenOperands(g, n, at), n.op)
      [] n.op = "bind"   -> GenBind(g, n, at)
      [] n.op = "apply"  -> GenApply(g, n, at)
      [] n.op = "select" -> GenSelect(g, n, at)

RECURSIVE GenLocals(_, _)

\* gen_locals: a register for every new name of the parameter, and a constant
\* for every literal.
GenLocals(g, p) ==
    CASE p.k = "ident" ->
           IF p.x \in DOMAIN g.sc THEN g
           ELSE [NextReg(g) EXCEPT !.sc = Bind(@, p.x, g.nreg)]
      [] p.k = "tuple" -> FoldLeft(GenLocals, g, p.ms)
      [] p.k \in {"num", "atom"} -> Literal(g, p)
      [] OTHER -> g

RECURSIVE DumpPattern(_)

\* dump_pattern and bin_readnode: of a name only TYPE_ANY is left.  (A list as
\* a parameter is refused by an assertion of dump_node.)
DumpPattern(p) ==
    CASE p.k = "ident" -> [k |-> "any", reg |-> 0, range |-> FALSE]
      [] p.k = "tuple" -> [k |-> "tuple", ms |-> [i \in DOMAIN p.ms |-> DumpPattern(p.ms[i])]]
      [] OTHER -> p

\* Mutated form: a tail call anywhere stands for the return at the end.
HasTailCall(g) == \E i \in DOMAIN g.code : g.code[i].op = "TAILCALL"

\* gen_clause's look at the last instruction.  Where the body has none the code
\* reads the word before the buffer, the upper half of its size in the heap: 0.
EndsInTailCall(g) == g.code # <<>> /\ Last(g.code).op = "TAILCALL"

\* The end of gen_clause: a constant is loaded, and the value returned.
LoadResult(g) == IF ISK(g.reg) THEN EmitResult(g, "LOADK", g.reg, 0) ELSE g
EmitReturn(g) == Emit(g, Ins("RETURN", g.reg, 0, 0))
EndCode(g) == Emit(IF EndsInTailCall(g) THEN g ELSE EmitReturn(LoadResult(g)), Zero)

\* dump_clause and vm_readclause
LoadClause(g, param) ==
    [name |-> g.path, pattern |-> DumpPattern(param), nlocals |-> g.nreg,
     k |-> [i \in DOMAIN g.k |-> g.k[i].v], code |-> g.code, crash |-> g.crash]

\* gen_path and gen_clause, of the n-th path of the file.
GenPath(path, n) ==
    LET new == [path |-> path.name, nth |-> n, sc |-> [x \in {} |-> 0], nreg |-> 0,
                k |-> <<>>, code |-> <<>>, reg |-> 0, left |-> 0, crash |-> FALSE,
                block |-> [last |-> <<>>, top |-> FALSE, first |-> FALSE]]
    IN LoadClause(EndCode(GenBlock(GenLocals(new, path.param), ReduceBody(path.body), <<>>)),
                  path.param)

\* generate: the module that vm_open reads, by the names of its paths.
Compile(program) ==
    [f \in {program[i].name : i \in DOMAIN program} |->
        LET i == CHOOSE j \in DOMAIN program : program[j].name = f
        IN GenPath(program[i], i)]
=============================================================================
