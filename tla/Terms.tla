--------------------------------- MODULE Terms ---------------------------------
(***************************************************************************)
(* Patterns and values without pointers, up to a depth: what gen_pattern   *)
(* and match make of them (modules Patterns and Match), and what a pattern *)
(* means in the language.                                                  *)
(*                                                                         *)
(* What is recursive in the code is here a function of the depth, or of    *)
(* how many calls of match are in each other.                              *)
(***************************************************************************)
EXTENDS Match, Patterns, FiniteSets

CONSTANTS
    Names,        \* variable names
    Atoms,        \* the texts of atoms
    Depth,        \* how deep tuples and lists nest
    LastReg       \* the last register of the frame

\* A source has finitely many names, and a register's number is a byte.
ASSUME TermsAssumption == IsFiniteSet(Names) /\ Depth \in Nat /\ LastReg \in 0..255

-----------------------------------------------------------------------------
Simple == [k : {"num"}, n : Int] \cup [k : {"atom"}, a : Atoms]

\* Values.  What is in a tuple or a list nests less deep.
ValueAt(d, inner) ==
    Simple \cup (IF d = 0 THEN {} ELSE [k : {"tuple", "list"}, ms : Seq(inner)])

ValueType[d \in 0..Depth] == ValueAt(d, IF d = 0 THEN <<>> ELSE ValueType[d - 1])

\* Source patterns.  `xs..` is only parsed as a member of a list; that it is
\* the last one is an assumption: match_list ignores what is behind.
RestLast(ps) == \A i \in 1..Len(ps) - 1 : ps[i].k # "rest"
RestNever(ps) == \A i \in 1..Len(ps) : ps[i].k # "rest"

PatternAt(d, inner) ==
    Simple \cup [k : {"ident", "rest"}, x : Names]
      \cup (IF d = 0 THEN {}
            ELSE {p \in [k : {"tuple"}, ms : Seq(inner)] : RestNever(p.ms)}
                   \cup {p \in [k : {"list"}, ms : Seq(inner)] : RestLast(p.ms)})

PatternType[d \in 0..Depth] == PatternAt(d, IF d = 0 THEN <<>> ELSE PatternType[d - 1])

\* Compiled patterns.
CompiledAt(d, inner) ==
    Simple \cup [k : {"any", "var"}, reg : Nat, range : BOOLEAN]
      \cup (IF d = 0 THEN {} ELSE [k : {"tuple", "list"}, ms : Seq(inner)])

CompiledType[d \in 0..Depth] == CompiledAt(d, IF d = 0 THEN <<>> ELSE CompiledType[d - 1])

Registers == 0..LastReg
Memories == [Registers -> ValueType[Depth] \cup {Unset}]

-----------------------------------------------------------------------------
\* gen_pattern, by the depth of the pattern; S are the names in scope.
GenOne(inner, p, sc, next) ==
    GenPatternTerm(p, sc, next, LAMBDA q, s, n : inner[q][DOMAIN s][s][n])

GenAt(d, inner) ==
    [p \in PatternType[d] |-> [S \in SUBSET Names |-> [sc \in [S -> Nat] |->
      [next \in Nat |-> GenOne(inner, p, sc, next)]]]]

Gens[d \in 0..Depth] == GenAt(d, IF d = 0 THEN <<>> ELSE Gens[d - 1])

GenPattern(p, sc, next) == Gens[Depth][p][DOMAIN sc][sc][next]

\* match, by the number of calls in each other.
MatchOne(inner, M, p, v, at) ==
    MatchTerm(M, 0, p, v, at, LAMBDA m, q, w, i : inner[m][q][w][i])

MatchBy(inner) ==
    [M \in Memories |-> [p \in CompiledType[Depth] \cup {Unset} |->
      [v \in ValueType[Depth] |-> [at \in Nat |-> MatchOne(inner, M, p, v, at)]]]]

\* Down a pattern, to a register, and down the value that is in it.
Calls == Depth + 1 + Depth

Matches[f \in 0..Calls] == MatchBy(IF f = 0 THEN <<>> ELSE Matches[f - 1])

Match(M, p, v, at) == Matches[Calls][M][p][v][at]

-----------------------------------------------------------------------------
\* The language's meaning of a pattern, independent of registers: value v is
\* an instance of pattern p under the bindings b.
Instantiates(p, v, b, Inner(_, _)) ==
    CASE p.k \in {"ident", "rest"} -> b[p.x] = v
      [] p.k = "tuple" ->
           /\ v.k = "tuple" /\ Len(v.ms) = Len(p.ms)
           /\ \A i \in 1..Len(p.ms) : Inner(p.ms[i], v.ms[i])
      [] p.k = "list" /\ p.ms # <<>> /\ p.ms[Len(p.ms)].k = "rest" ->
           LET n == Len(p.ms)
           IN /\ v.k = "list" /\ Len(v.ms) >= n - 1
              /\ \A i \in 1..n - 1 : Inner(p.ms[i], v.ms[i])
              /\ Inner(p.ms[n], List(SubSeq(v.ms, n, Len(v.ms))))
      [] p.k = "list" /\ ~(p.ms # <<>> /\ p.ms[Len(p.ms)].k = "rest") ->
           /\ v.k = "list" /\ Len(v.ms) = Len(p.ms)
           /\ \A i \in 1..Len(p.ms) : Inner(p.ms[i], v.ms[i])
      [] OTHER -> p = v

InstanceOne(inner, p, v, b) == Instantiates(p, v, b, LAMBDA q, w : inner[q][w])

InstanceAt(d, b, inner) ==
    [p \in PatternType[d] |-> [v \in ValueType[Depth] |-> InstanceOne(inner, p, v, b)]]

Instance(p, v, b) ==
    LET inst[d \in 0..Depth] == InstanceAt(d, b, IF d = 0 THEN <<>> ELSE inst[d - 1])
    IN inst[Depth][p][v]

\* The names of a pattern.
NamesAt(d, inner) ==
    [p \in PatternType[d] |->
       CASE p.k \in {"ident", "rest"} -> {p.x}
         [] p.k \in {"tuple", "list"} -> UNION {inner[p.ms[i]] : i \in 1..Len(p.ms)}
         [] OTHER -> {}]

PatternNames[d \in 0..Depth] == NamesAt(d, IF d = 0 THEN <<>> ELSE PatternNames[d - 1])

NamesIn(p) == PatternNames[Depth][p]

\* The parts of a value a variable can be bound to.
PartsAt(d, inner) ==
    [v \in ValueType[d] |->
       {v} \cup (IF v.k \in {"tuple", "list"}
                   THEN UNION {inner[v.ms[i]] : i \in 1..Len(v.ms)} ELSE {})
           \cup (IF v.k = "list"
                   THEN {List(SubSeq(v.ms, i, Len(v.ms))) : i \in 1..Len(v.ms) + 1}
                   ELSE {})]

ValueParts[d \in 0..Depth] == PartsAt(d, IF d = 0 THEN <<>> ELSE ValueParts[d - 1])

Parts(v) == ValueParts[Depth][v]

\* The registers that an `xs..` in a compiled pattern compares with.
RestsAt(d, inner) ==
    [p \in CompiledType[d] |->
       CASE p.k = "var" /\ p.range -> {p.reg}
         [] p.k \in {"tuple", "list"} -> UNION {inner[p.ms[i]] : i \in 1..Len(p.ms)}
         [] OTHER -> {}]

BoundRests[d \in 0..Depth] == RestsAt(d, IF d = 0 THEN <<>> ELSE BoundRests[d - 1])

BoundRest(p) == BoundRests[Depth][p] # {}
=============================================================================
