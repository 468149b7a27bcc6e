-------------------------------- MODULE Program --------------------------------
(***************************************************************************)
(* Compiler and interpreter together: what a program does when it is       *)
(* compiled (Generator) and run (Machine), against what it means (Meaning).*)
(*                                                                         *)
(* The code gives some programs another meaning.  Supported says which     *)
(* programs the comparison is about; each of its parts names a construct   *)
(* and the code that treats it differently.                                *)
(***************************************************************************)
EXTENDS Machine, Meaning, FiniteSets

RECURSIVE NodesOf(_)
RECURSIVE NodesIn(_)

\* All nodes of an expression or statement, and of a body.
NodesOf(n) ==
    {n} \cup
    (CASE n.op \in {"add", "sub", "gt", "lt"} -> NodesIn(<<n.l, n.r>>)
       [] n.op \in {"bind", "apply"} -> NodesOf(n.e)
       [] n.op \in {"tuple", "list"} -> NodesIn(n.ms)
       [] n.op = "select" ->
            NodesIn(n.arg) \cup
            UNION {NodesIn(n.clauses[i].guards) \cup NodesIn(n.clauses[i].body) :
                     i \in DOMAIN n.clauses}
       [] OTHER -> {})
NodesIn(ns) == UNION {NodesOf(ns[i]) : i \in DOMAIN ns}

RECURSIVE Leaves(_)
\* The names of a pattern from left to right, and those of its `xs..`.
Leaves(p) ==
    IF p.k \in {"ident", "rest"} THEN <<p>>
    ELSE IF p.k \in {"tuple", "list"}
      THEN FlattenSeq([i \in DOMAIN p.ms |-> Leaves(p.ms[i])])
    ELSE <<>>

\* bin_readnode: the names of a parameter are forgotten, so that one that
\* occurs twice is bound twice, in registers that belong to others.
RepeatsParameter(path) ==
    LET ns == Leaves(path.param)
    IN \E i, j \in DOMAIN ns : i # j /\ ns[i].x = ns[j].x

\* reduce_node does not reach the lists in the clauses of a select, in tuples,
\* lists and operators, and gen_list makes them empty.
LosesList(body) ==
    LET Reached(n) == IF n.op \in {"bind", "apply"} THEN {n.e}
                      ELSE IF n.op = "select" THEN ToSet(n.arg) ELSE {}
        r1 == ToSet(body)
        r2 == UNION {Reached(n) : n \in r1}
        r3 == UNION {Reached(n) : n \in r2}
        Members(n) == IF n.op = "list" THEN NodesIn(n.ms) ELSE {}
    IN \E l \in NodesIn(body) :
         /\ l.op = "list" /\ l.ms # <<>>
         /\ \/ l \notin r1 \cup r2 \cup r3
            \/ \E m \in NodesIn(body) : l \in Members(m)

SelfCall(n, f) == n.op = "apply" /\ n.f = f

\* gen_apply replaces the frame for a call in a clause of a select whose value
\* is not that of the function, and takes the argument to be in a register.
RECURSIVE SelectsNotLast(_)
SelectsNotLast(body) ==
    LET last == body[Len(body)]
        inner == UNION {NodesOf(n) \ {n} : n \in {last}}
    IN IF last.op = "select"
         THEN {n \in NodesIn(Front(body)) \cup NodesIn(last.arg) : n.op = "select"}
              \cup UNION {SelectsNotLast(last.clauses[i].body) : i \in DOMAIN last.clauses}
       ELSE {n \in NodesIn(Front(body)) \cup inner : n.op = "select"}

DropsRest(path) ==
    \E s \in SelectsNotLast(path.body) : \E i \in DOMAIN s.clauses :
      SelfCall(Last(s.clauses[i].body), path.name)

TailsConstant(path) ==
    \E n \in NodesIn(path.body) :
      SelfCall(n, path.name) /\ n.e.op \in {"num", "atom"}

\* match_list does not look at the outcome of a bound `xs..`.
RECURSIVE RestBound(_, _)
RestBound(p, names) ==
    LET ns == Leaves(p)
    IN \E i \in DOMAIN ns :
         ns[i].k = "rest" /\ (ns[i].x \in names \/ \E j \in 1..i - 1 : ns[j].x = ns[i].x)

NamesOfBody(path) ==
    {l.x : l \in ToSet(Leaves(path.param))} \cup
    {n.x : n \in {m \in NodesIn(path.body) : m.op = "bind"}}

BindsRest(path) ==
    \E n \in NodesIn(path.body) : n.op = "select" /\
      \E i \in DOMAIN n.clauses : n.clauses[i].pat # <<>> /\
        RestBound(n.clauses[i].pat[1], NamesOfBody(path))

\* gen_apply follows the parent link of the file's first block.
FirstEndsInCall ==
    LET s == Last(program[1].body) IN s.op = "apply" /\ s.f # program[1].name

SupportedButForRest ==
    /\ ~FirstEndsInCall
    /\ \A i \in DOMAIN program :
         /\ ~RepeatsParameter(program[i])
         /\ ~LosesList(program[i].body)
         /\ ~TailsConstant(program[i])
         /\ ~BindsRest(program[i])

Supported == SupportedButForRest /\ \A i \in DOMAIN program : ~DropsRest(program[i])

-----------------------------------------------------------------------------
\* A value with the members of its lists in place of pointers to them.
RECURSIVE Deep(_, _)
Deep(M, v) ==
    IF v.k \in {"tuple", "list"}
      THEN [v EXCEPT !.ms = [i \in DOMAIN @ |-> Deep(M, Member(M, @[i]))]]
    ELSE v

Ended == status \notin {"loaded", "running"}

\* The interpreter's state keeps its shape: every frame runs a path of the
\* module, and an execution goes on exactly while there are frames.
TypeOK ==
    /\ \A i \in DOMAIN frames :
         /\ frames[i].path \in DOMAIN module
         /\ frames[i].base \in Nat /\ frames[i].pc \in Nat
    /\ credits \in 0..CreditMod - 1
    /\ status \in {"loaded", "running", "returned", "nomatch", "nopath", "undefined",
                   "crashed"}
    /\ status \in {"loaded", "returned", "crashed"} <=> frames = <<>>

\* The run returned the meaning of the program, if it has one.
AsMeant ==
    LET meaning == MeaningOf(program)
    IN meaning = None \/ (status = "returned" /\ <<Deep(mem, ret)>> = meaning)

\* vm_run returns what the program means: registers, jumps, frames, results,
\* tail calls and bindings all do their part.  A supported program that means
\* something does not stop early, either.
Correct == (Ended /\ lapses = {} /\ Supported) => AsMeant

\* The comment in generator.c:414-416: a select that is the last value of its
\* function can return from inside its clauses, any other jumps outside and
\* goes on with the statements behind it.
OnlyLastSelectReturns == (Ended /\ lapses = {} /\ SupportedButForRest) => AsMeant

\* The table of op-codes (op.c:57, op.h:116): the argument of a tail call is a
\* register, which OP_TAILCALL reads without looking for a constant.
TailCallTakesRegister ==
    (status = "running" /\ Fetch.op = "TAILCALL") => ~ISK(Fetch.c)

\* The next instruction is one of the clause's, and never the number 0 that
\* ends its code or holds the place of a jump: all jumps were patched, and they
\* lead to instructions; behind its loop vm_execute returns NULL.
StaysInCode ==
    status = "running" => Top.pc < Len(Code) /\ Fetch.op # "ZERO"

\* No instruction writes outside the registers of the frame that is current
\* before or after it: matches bind no more registers than their clause has, and
\* the calls that are waiting only ever see their result register change.
InFrame ==
    [][Supported =>
        \A i \in DOMAIN mem' : (i \notin DOMAIN mem \/ mem'[i] # mem[i]) =>
          \/ /\ frames # <<>>
             /\ Len(frames') = Len(frames)
             /\ i \in Slots(Top.path, Top.base)
          \/ /\ Len(frames') > Len(frames)
             /\ i \in Slots(Top'.path, Top'.base)
          \/ /\ Len(frames') < Len(frames)
             /\ i = frames'[Len(frames')].base + Top.result]_vars

\* Within a call a register is bound once: what a name, an operand or a result
\* stands for never changes.  (TUPLE, LIST and their successors build a value
\* in place, and a tail call starts a new call in the frame.)
BoundOnce ==
    [][(Supported /\ status = "running" /\ Len(frames') = Len(frames)
          /\ Fetch.op \notin {"SETTUPLE", "CONS", "TAILCALL"}) =>
        \A i \in Slots(Top.path, Top.base) :
          Slot(mem, i) # Unset => mem'[i] = mem[i]]_vars

\* A path that only main calls and that calls itself only as the last value of
\* the clauses of its last statement, the one select it has.
Loop(path) ==
    LET last  == Last(path.body)
        calls == {n \in NodesIn(path.body) : n.op = "apply"}
    IN /\ last.op = "select"
       /\ Cardinality({n \in NodesIn(path.body) : n.op = "select"}) = 1
       /\ \A n \in calls : /\ n.f = path.name
                           /\ \E i \in DOMAIN last.clauses : Last(last.clauses[i].body) = n
                           /\ n \notin NodesIn(Front(path.body)) \cup NodesIn(last.arg)

\* generator.c:254: such a loop runs in one frame, however long it runs.
LoopsInOneFrame ==
    (\A i \in DOMAIN program :
        program[i].name = "main" \/ Loop(program[i])) => Len(frames) <= 2

\* A program that means something comes to an end.
Ends == (Supported /\ MeaningOf(program) # None) => <>Ended
=============================================================================
