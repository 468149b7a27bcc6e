-------------------------------- MODULE Meaning --------------------------------
(***************************************************************************)
(* What a program means, without registers, frames or jumps: the value of  *)
(* every expression in an environment of names.  The tests under test/gen  *)
(* are written against this reading of the language.                       *)
(*                                                                         *)
(* An outcome is <<value>>, or <<>> when the program has no value: an      *)
(* operand of the wrong type, no clause that matches, no such path, or more*)
(* than Fuel nested calls.                                                 *)
(***************************************************************************)
EXTENDS Integers, Sequences

CONSTANT Fuel

None == <<>>
Just(v) == <<v>>

With(env, x, v) == [y \in DOMAIN env \cup {x} |-> IF y = x THEN v ELSE env[y]]

\* The environment in which value v is an instance of pattern p, if any.
RECURSIVE Bindings(_, _, _)
RECURSIVE BindingsOf(_, _, _)
BindingsOf(ps, vs, env) ==
    IF ps = <<>> THEN IF vs = <<>> THEN Just(env) ELSE None
    ELSE IF Head(ps).k = "rest"
      THEN Bindings([k |-> "ident", x |-> Head(ps).x], [k |-> "list", ms |-> vs], env)
    ELSE IF vs = <<>> THEN None
    ELSE LET b == Bindings(Head(ps), Head(vs), env)
         IN IF b = None THEN None ELSE BindingsOf(Tail(ps), Tail(vs), b[1])

Bindings(p, v, env) ==
    CASE p.k = "ident" ->
           IF p.x \notin DOMAIN env THEN Just(With(env, p.x, v))
           ELSE IF env[p.x] = v THEN Just(env) ELSE None
      [] p.k \in {"tuple", "list"} ->
           IF v.k = p.k THEN BindingsOf(p.ms, v.ms, env) ELSE None
      [] OTHER -> IF p = v THEN Just(env) ELSE None

Path(program, f) == {i \in DOMAIN program : program[i].name = f}

Numbers(o) == Len(o) = 2 /\ \A i \in 1..2 : o[i].k = "num"

RECURSIVE Eval(_, _, _, _)
RECURSIVE EvalAll(_, _, _, _)
RECURSIVE EvalBody(_, _, _, _)
RECURSIVE EvalClauses(_, _, _, _, _)

\* The values of the expressions es, or <<>> if one has none.
EvalAll(es, env, program, fuel) ==
    IF es = <<>> THEN <<>>
    ELSE LET h == Eval(Head(es), env, program, fuel)
             t == EvalAll(Tail(es), env, program, fuel)
         IN IF h = None \/ Len(t) # Len(es) - 1 THEN None ELSE h \o t

\* The value of path f for argument v.
Apply(f, v, program, fuel) ==
    IF fuel = 0 \/ Path(program, f) = {} THEN None
    ELSE LET path == program[CHOOSE i \in Path(program, f) : TRUE]
             b    == Bindings(path.param, v, [x \in {} |-> 0])
         IN IF b = None THEN None ELSE EvalBody(path.body, b[1], program, fuel - 1)

Compare(op, o) == IF op = "gt" THEN o[1].n > o[2].n ELSE o[1].n < o[2].n

\* The first clause whose pattern and guards hold.
EvalClauses(cs, arg, env, program, fuel) ==
    IF cs = <<>> THEN None
    ELSE LET c == Head(cs)
             b == IF c.pat = <<>> \/ arg = <<>> THEN Just(env)
                  ELSE Bindings(c.pat[1], arg[1], env)
             o(i) == EvalAll(<<c.guards[i].l, c.guards[i].r>>, b[1], program, fuel)
         IN IF b = None THEN EvalClauses(Tail(cs), arg, env, program, fuel)
            ELSE LET wrong == {i \in DOMAIN c.guards : ~Numbers(o(i))}
                     false == {i \in DOMAIN c.guards \ wrong : ~Compare(c.guards[i].op, o(i))}
                 IN IF \E i \in wrong : \A j \in false : i < j THEN None
                    ELSE IF false # {} THEN EvalClauses(Tail(cs), arg, env, program, fuel)
                    ELSE EvalBody(c.body, b[1], program, fuel)

Eval(e, env, program, fuel) ==
    CASE e.op = "num"  -> Just([k |-> "num", n |-> e.n])
      [] e.op = "atom" -> Just([k |-> "atom", a |-> e.a])
      [] e.op = "var"  -> Just(env[e.x])
      [] e.op \in {"tuple", "list"} ->
           LET ms == EvalAll(e.ms, env, program, fuel)
           IN IF Len(ms) = Len(e.ms) THEN Just([k |-> e.op, ms |-> ms]) ELSE None
      [] e.op \in {"add", "sub"} ->
           LET o == EvalAll(<<e.l, e.r>>, env, program, fuel)
           IN IF ~Numbers(o) THEN None
              ELSE Just([k |-> "num", n |-> IF e.op = "add" THEN o[1].n + o[2].n
                                                            ELSE o[1].n - o[2].n])
      [] e.op = "apply" ->
           LET v == Eval(e.e, env, program, fuel)
           IN IF v = None THEN None ELSE Apply(e.f, v[1], program, fuel)
      [] e.op = "select" ->
           LET v == EvalAll(e.arg, env, program, fuel)
           IN IF Len(v) # Len(e.arg) THEN None
              ELSE EvalClauses(e.clauses, v, env, program, fuel)

\* The value of the last statement, after the bindings before it.
EvalBody(body, env, program, fuel) ==
    LET s == Head(body)
        v == Eval(IF s.op = "bind" THEN s.e ELSE s, env, program, fuel)
    IN IF v = None THEN None
       ELSE IF Len(body) = 1 THEN v
       ELSE EvalBody(Tail(body), IF s.op = "bind" THEN With(env, s.x, v[1]) ELSE env,
                     program, fuel)

\* The value of main.
MeaningOf(program) == Apply("main", [k |-> "tuple", ms |-> <<>>], program, Fuel)
=============================================================================
