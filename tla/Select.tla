-------------------------------- MODULE Select --------------------------------
(***************************************************************************)
(* A select expression  arg ? p1 : e1 | p2 : e2 | ...  from its source to  *)
(* the choice of a clause at run time: the part of gen_select and          *)
(* gen_pattern (src/generator.c) that compiles the clauses' patterns, and  *)
(* the MATCH and EQ instructions of vm_execute (src/vm.c) that try them.   *)
(*                                                                         *)
(* The bodies of clauses and guards are left out: they come after the      *)
(* choice.                                                                 *)
(***************************************************************************)
EXTENDS Terms

CONSTANTS
    Patterns,     \* source patterns the clauses are made of
    Values,       \* values of the argument
    Scopes,       \* what is bound outside the select: functions name -> value
    MaxClauses    \* bound on the number of clauses

\* Patterns, values and scopes are of the depth that Terms is about.
ASSUME SelectAssumption ==
    /\ Patterns \subseteq PatternType[Depth] /\ \A p \in Patterns : p.k # "rest"
    /\ Values \subseteq ValueType[Depth]
    /\ \A s \in Scopes : /\ DOMAIN s \subseteq Names /\ s = [x \in DOMAIN s |-> s[x]]
                         /\ \A x \in DOMAIN s : s[x] \in ValueType[Depth]

\* The frame has registers for the outer names, the argument, the result, and
\* the pattern variables of every clause.
ASSUME RegistersAssumption ==
    /\ MaxClauses \in Nat
    /\ LastReg >= Cardinality(Names) + 1 + MaxClauses * (Cardinality(Names) + 1)

VARIABLES
    src,          \* the clauses' source patterns
    outer,        \* the bindings of the enclosing scopes, by name
    arg,          \* the value of the argument
    scope,        \* the symbol table of the enclosing scopes: name -> register
    nreg,         \* ClauseEntry.nreg
    code,         \* the compiled clauses
    R,            \* the registers of the frame
    pc,           \* index of the clause the next instruction tries
    phase         \* "gen", "run", "chosen" (clause pc) or "fell" through

vars == <<src, outer, arg, scope, nreg, code, R, pc, phase>>

-----------------------------------------------------------------------------
\* Numbering the names of the enclosing scope, in any order.
Numberings(S) ==
    {f \in [S -> 0..Cardinality(S) - 1] : \A x, y \in S : f[x] = f[y] => x = y}

Init ==
    /\ src \in UNION {[1..n -> Patterns] : n \in 1..MaxClauses}
    /\ outer \in Scopes
    /\ arg \in Values
    /\ scope \in Numberings(DOMAIN outer)
    \* the argument is in the next register, and the select's result after it
    /\ nreg = Cardinality(DOMAIN outer) + 2
    /\ R = [r \in Registers |->
              IF \E x \in DOMAIN outer : scope[x] = r
                THEN outer[CHOOSE x \in DOMAIN outer : scope[x] = r]
              ELSE IF r = Cardinality(DOMAIN outer) THEN arg
              ELSE Unset]
    /\ code = <<>>
    /\ pc = 1
    /\ phase = "gen"

ArgReg == Cardinality(DOMAIN outer)

-----------------------------------------------------------------------------
\* Mutated form: the pattern does not skip the register A of the clause.
GenClauseNoSkip(sc, p, next) ==
    LET g == GenPattern(p, sc, next)
    IN [op |-> IF p.k = "num" THEN "EQ" ELSE "MATCH",
        a |-> next, pat |-> g.pat, sc |-> g.sc, next |-> g.next]

\* One iteration of gen_select's loop: a register, the pattern in a scope of
\* the clause's own, and EQ for a number, MATCH for anything else.
GenClause(sc, p, next) ==
    LET g == GenPattern(p, sc, next + 1)
    IN [op |-> IF p.k = "num" THEN "EQ" ELSE "MATCH",
        a |-> next, pat |-> g.pat, sc |-> g.sc, next |-> g.next]

Gen ==
    /\ phase = "gen"
    /\ LET c == GenClause(scope, src[Len(code) + 1], nreg)
       IN /\ code' = Append(code, c)
          /\ nreg' = c.next
    /\ phase' = IF Len(code') = Len(src) THEN "run" ELSE "gen"
    /\ UNCHANGED <<src, outer, arg, scope, R, pc>>

-----------------------------------------------------------------------------
\* Where an instruction of clause pc that matched, or did not, leads to: the
\* clause's body, the next clause, or past the select.
Continue(matched) ==
    IF matched THEN phase' = "chosen" /\ pc' = pc
    ELSE /\ pc' = pc + 1
         /\ phase' = IF pc = Len(code) THEN "fell" ELSE "run"

\* Mutated form: binds from R[A].
TryMatchAtA ==
    /\ phase = "run" /\ code[pc].op = "MATCH"
    /\ LET m == Match(R, code[pc].pat, R[ArgReg], code[pc].a)
       IN R' = m.mem /\ Continue(m.n >= 0)
    /\ UNCHANGED <<src, outer, arg, scope, nreg, code>>

\* OP_MATCH A B C: match(R, &K[B], &R[C], &R[A + 1]).
TryMatch ==
    /\ phase = "run" /\ code[pc].op = "MATCH"
    /\ LET m == Match(R, code[pc].pat, R[ArgReg], code[pc].a + 1)
       IN R' = m.mem /\ Continue(m.n >= 0)
    /\ UNCHANGED <<src, outer, arg, scope, nreg, code>>

\* OP_EQ A B C compares the number fields of the two unions and looks at
\* neither type: for a value that is no number the field overlaps a pointer,
\* and the outcome depends on an address.
TryEq ==
    /\ phase = "run" /\ code[pc].op = "EQ"
    /\ IF R[ArgReg].k = "num" THEN Continue(R[ArgReg] = code[pc].pat)
       ELSE \E same \in BOOLEAN : Continue(same)
    /\ UNCHANGED <<src, outer, arg, scope, nreg, code, R>>

Next == Gen \/ TryMatch \/ TryEq

Spec == Init /\ [][Next]_vars

-----------------------------------------------------------------------------
\* The bindings of p's new names that make the argument an instance of it.
Solutions(p) ==
    {new \in [NamesIn(p) \ DOMAIN outer -> Parts(arg)] :
        Instance(p, arg, [x \in DOMAIN outer \cup DOMAIN new |->
                            IF x \in DOMAIN outer THEN outer[x] ELSE new[x]])}

\* Clause i compares a number with something that is no number.
Untyped(i) == code[i].op = "EQ" /\ arg.k # "num"

Tried == 1..(IF phase = "gen" THEN 0 ELSE IF phase = "run" THEN pc - 1
             ELSE IF phase = "fell" THEN Len(code) ELSE pc)

\* Of the clauses tried, the one chosen, and no other, has a solution.
RightChoice ==
    \A i \in Tried : (phase = "chosen" /\ i = pc) <=> Solutions(src[i]) # {}

-----------------------------------------------------------------------------
\* A select takes its first clause whose pattern the argument is an instance
\* of, and none if there is no such clause; as long as no number is compared
\* with a value of another type and no `xs..` names a bound variable.
ChoosesFirst ==
    (\A i \in Tried : ~Untyped(i) /\ ~BoundRest(code[i].pat)) => RightChoice

\* When a clause is chosen, the register that the compiler gave each variable
\* of its pattern holds the value that makes the argument an instance: the
\* order in which match numbers the registers is the order of gen_pattern.
BindsSolution ==
    phase = "chosen" /\ ~Untyped(pc) /\ ~BoundRest(code[pc].pat) =>
      \E b \in Solutions(src[pc]) :
        \A x \in DOMAIN b : R[code[pc].sc[x]] = b[x]

\* Trying a clause, even in vain, writes only registers of that clause's own
\* pattern: outer variables, the argument and the bindings of other clauses
\* are as they were.
KeepsOthers ==
    [][\A r \in Registers :
         R'[r] # R[r] => /\ phase = "run"
                         /\ r \in code[pc].a + 1..code[pc].next - 1]_vars

\* test/gen/select-lists.arb:13 expects that a variable that is already bound
\* matches only an equal value; so it should for `xs..` too.
BoundRestMatchesEqual ==
    (\A i \in Tried : ~Untyped(i)) => RightChoice
=============================================================================
