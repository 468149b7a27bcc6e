------------------------------ MODULE SelectProofs ------------------------------
(***************************************************************************)
(* Proofs about the choice of a clause (Select), for any patterns, values, *)
(* scopes and number of clauses, as deep as Depth.                         *)
(*                                                                         *)
(* The argument: a clause's registers come after those of the enclosing    *)
(* scopes, of the argument and of the clauses before it, and there are     *)
(* enough of them (Compiled); so no clause that is tried overwrites what   *)
(* the enclosing names and the argument are (Frame); so every clause is    *)
(* matched against the bindings it was compiled for, and what a match says *)
(* of a pattern (TermsProofs) is the verdict on the clause (Verdicts).     *)
(***************************************************************************)
EXTENDS Select, TermsProofs

\* The compiled form of a clause.
Clause == [op : {"EQ", "MATCH"}, a : Nat, pat : CompiledType[Depth],
           sc : UNION {[D -> Nat] : D \in SUBSET Names}, next : Nat]

\* What is given.
Setting ==
    /\ src \in Seq(Patterns) /\ Len(src) \in 1..MaxClauses
    /\ outer \in Scopes
    /\ arg \in Values
    /\ scope \in Numberings(DOMAIN outer)

\* How far the compiler and the process are.
Progress ==
    /\ code \in Seq(Clause)
    /\ Len(code) \in 0..Len(src)
    /\ pc \in 1..Len(src) + 1
    /\ phase \in {"gen", "run", "chosen", "fell"}
    /\ phase = "gen" => pc = 1 /\ Len(code) < Len(src)
    /\ phase # "gen" => Len(code) = Len(src)
    /\ phase \in {"run", "chosen"} => pc <= Len(src)

\* The registers that the clauses need at most.
First == Cardinality(DOMAIN outer) + 2
Width == Cardinality(Names) + 1
Room(n) == First + n * Width

\* A clause is compiled from its source, for registers of its own.
Compiled ==
    /\ nreg \in Nat /\ First <= nreg /\ nreg <= Room(Len(code))
    /\ \A i \in 1..Len(code) : /\ code[i] = GenClause(scope, src[i], code[i].a)
                               /\ First <= code[i].a
                               /\ code[i].next <= nreg

\* The enclosing names and the argument are where they were.
Frame ==
    /\ R \in Memories
    /\ \A x \in DOMAIN outer : R[scope[x]] = outer[x]
    /\ R[ArgReg] = arg

\* A clause that was tried was chosen if it has a solution.
Verdict(i) ==
    ~Untyped(i) /\ ~BoundRest(code[i].pat) =>
      ((phase = "chosen" /\ i = pc) <=> Solutions(src[i]) # {})

Verdicts == \A i \in Tried : Verdict(i)

\* The inductive invariant.
IInv == Setting /\ Progress /\ Compiled /\ Frame /\ Verdicts /\ BindsSolution

-----------------------------------------------------------------------------
(* Clauses, scopes and registers.                                          *)

\* What gen_select emits for a clause.
ClauseRight(p, sc, next, c, g) ==
    /\ c \in Clause /\ c.a = next /\ c.pat = g.pat /\ c.sc = g.sc /\ c.next = g.next
    /\ c.op = IF p.k = "num" THEN "EQ" ELSE "MATCH"
    /\ next + 1 <= c.next /\ c.next <= next + Width /\ c.next \in Nat
    /\ DOMAIN c.sc = DOMAIN sc \cup NamesIn(p)
    /\ Grown(sc, next + 1, c.sc, c.next)

LEMMA ClauseIs ==
    ASSUME NEW p \in Patterns, NEW sc, IsScope(sc), NEW next \in Nat,
           NEW c, c = GenClause(sc, p, next), NEW g, g = GenPattern(p, sc, next + 1)
    PROVE  ClauseRight(p, sc, next, c, g)
<1>1. p \in PatternType[Depth] /\ next + 1 \in Nat
  BY SelectAssumption
<1>2. CompiledRight(p, sc, next + 1)
  BY <1>1, CompiledIs
<1>3. /\ Grown(sc, next + 1, g.sc, g.next)
      /\ DOMAIN g.sc = DOMAIN sc \cup NamesIn(p)
      /\ g.pat \in CompiledType[Depth]
  BY <1>2, Zenon DEF CompiledRight
<1>4. c = [op |-> IF p.k = "num" THEN "EQ" ELSE "MATCH",
           a |-> next, pat |-> g.pat, sc |-> g.sc, next |-> g.next]
  BY Zenon DEF GenClause
<1>5. /\ c.a = next /\ c.pat = g.pat /\ c.sc = g.sc /\ c.next = g.next
      /\ c.op = IF p.k = "num" THEN "EQ" ELSE "MATCH"
  BY <1>4
<1>6. IsScope(g.sc) /\ g.next \in Nat /\ next + 1 <= g.next
  BY <1>3 DEF Grown
<1>7. g.next <= next + Width
  <2>1. Cardinality(DOMAIN g.sc) - Cardinality(DOMAIN sc) = g.next - (next + 1)
    BY <1>3 DEF Grown
  <2>2. /\ Cardinality(DOMAIN g.sc) \in Nat /\ Cardinality(DOMAIN sc) \in Nat
        /\ Cardinality(DOMAIN g.sc) <= Cardinality(Names) /\ Cardinality(Names) \in Nat
    BY <1>6, NamesFinite DEF IsScope
  <2> QED
    BY <1>6, <2>1, <2>2 DEF Width
<1>8. c \in Clause
  <2>1. g.sc \in UNION {[D -> Nat] : D \in SUBSET Names}
    BY <1>6 DEF IsScope
  <2> QED
    BY <1>3, <1>4, <1>6, <2>1 DEF Clause
<1> QED
  BY <1>3, <1>5, <1>6, <1>7, <1>8 DEF ClauseRight

LEMMA ScopeIs ==
    ASSUME Setting
    PROVE  /\ DOMAIN scope = DOMAIN outer /\ IsScope(scope)
           /\ DOMAIN outer \subseteq Names
           /\ \A x \in DOMAIN outer : /\ scope[x] \in 0..ArgReg - 1 /\ scope[x] \in Registers
                                      /\ outer[x] \in ValueType[Depth]
           /\ \A x, y \in DOMAIN outer : scope[x] = scope[y] => x = y
           /\ ArgReg \in Nat /\ ArgReg \in Registers /\ First = ArgReg + 2 /\ First \in Nat
           /\ arg \in ValueType[Depth]
           /\ Width \in Nat /\ Room(MaxClauses) <= LastReg + 1
<1>1. /\ outer \in Scopes /\ arg \in Values /\ scope \in Numberings(DOMAIN outer)
  BY DEF Setting
<1>2. /\ DOMAIN outer \subseteq Names
      /\ \A x \in DOMAIN outer : outer[x] \in ValueType[Depth]
      /\ arg \in ValueType[Depth]
  BY <1>1, SelectAssumption
<1>3. /\ ArgReg \in Nat /\ ArgReg <= Cardinality(Names) /\ Cardinality(Names) \in Nat
  BY <1>2, NamesFinite DEF ArgReg
<1>4. /\ scope \in [DOMAIN outer -> 0..ArgReg - 1]
      /\ \A x, y \in DOMAIN outer : scope[x] = scope[y] => x = y
  BY <1>1 DEF Numberings, ArgReg
<1>5. IsScope(scope) /\ DOMAIN scope = DOMAIN outer
  <2>1. 0..ArgReg - 1 \subseteq Nat
    BY <1>3
  <2> QED
    BY <1>2, <1>4, <2>1 DEF IsScope
<1>6. MaxClauses * Width \in Nat /\ LastReg \in Nat
      /\ LastReg >= Cardinality(Names) + 1 + MaxClauses * Width
  <2>1. MaxClauses \in Nat /\ Width \in Nat
    BY <1>3, RegistersAssumption DEF Width
  <2>2. MaxClauses * Width \in Nat
    BY <2>1
  <2> QED
    BY <2>2, RegistersAssumption, TermsAssumption DEF Width
<1>7. ArgReg \in Registers /\ \A x \in DOMAIN outer : scope[x] \in Registers
  <2>1. LastReg >= ArgReg
    BY <1>3, <1>6
  <2>2. ArgReg \in Registers /\ \A r \in 0..ArgReg - 1 : r \in Registers
    BY <1>3, <1>6, <2>1 DEF Registers
  <2> QED
    BY <1>4, <2>2
<1>8. First = ArgReg + 2 /\ First \in Nat
  BY <1>3 DEF First, ArgReg
<1>9. Width \in Nat
  BY <1>3 DEF Width
<1>10. Room(MaxClauses) <= LastReg + 1
  <2> DEFINE z == MaxClauses * Width
  <2>1. Room(MaxClauses) = First + z
    BY DEF Room
  <2>2. z \in Nat /\ LastReg >= Cardinality(Names) + 1 + z /\ LastReg \in Nat
    BY <1>6
  <2> HIDE DEF z
  <2> QED
    BY <1>3, <1>8, <2>1, <2>2
<1> QED
  BY <1>2, <1>3, <1>4, <1>5, <1>7, <1>8, <1>9, <1>10

\* There is room for one more clause, up to the bound.
LEMMA RoomNext ==
    ASSUME Setting, NEW n \in Nat, n < MaxClauses
    PROVE  /\ Room(n) \in Nat /\ Room(n + 1) = Room(n) + Width /\ Room(n + 1) <= LastReg + 1
<1>1. First \in Nat /\ Width \in Nat /\ Room(MaxClauses) <= LastReg + 1 /\ MaxClauses \in Nat
  BY ScopeIs, RegistersAssumption
<1>2. n * Width \in Nat /\ (n + 1) * Width = n * Width + Width
  BY <1>1
<1>3. (n + 1) * Width <= MaxClauses * Width /\ (n + 1) * Width \in Nat /\ MaxClauses * Width \in Nat
  <2>1. \E k \in Nat : MaxClauses = (n + 1) + k
    <3>1. MaxClauses - (n + 1) \in Nat /\ MaxClauses = (n + 1) + (MaxClauses - (n + 1))
      BY <1>1
    <3> QED
      BY <3>1
  <2>2. PICK k \in Nat : MaxClauses = (n + 1) + k
    BY <2>1
  <2> HIDE DEF Width
  <2>3. MaxClauses * Width = (n + 1) * Width + k * Width
    BY <1>1, <2>2
  <2>4. k * Width \in Nat /\ (n + 1) * Width \in Nat
    BY <1>1
  <2> QED
    BY <2>3, <2>4
<1> DEFINE a == n * Width
           b == (n + 1) * Width
           c == MaxClauses * Width
<1>4. Room(n) = First + a /\ Room(n + 1) = First + b /\ Room(MaxClauses) = First + c
  BY DEF Room
<1>5. a \in Nat /\ b = a + Width /\ b <= c /\ b \in Nat /\ c \in Nat /\ LastReg \in Nat
  BY <1>2, <1>3, TermsAssumption
<1> HIDE DEF a, b, c
<1> QED
  BY <1>1, <1>4, <1>5
\* A compiled clause is for its source, and has its registers in the frame.
LEMMA ClauseOf ==
    ASSUME Setting, Progress, Compiled, NEW i \in 1..Len(code),
           NEW c, c = code[i], NEW g, g = GenPattern(src[i], scope, c.a + 1)
    PROVE  /\ src[i] \in Patterns /\ src[i] \in PatternType[Depth]
           /\ c.a \in Nat /\ First <= c.a
           /\ c.pat = g.pat /\ c.sc = g.sc /\ c.next = g.next
           /\ c.op = IF src[i].k = "num" THEN "EQ" ELSE "MATCH"
           /\ c.a + 1 <= c.next /\ c.next \in Nat /\ c.next <= LastReg + 1
           /\ DOMAIN c.sc = DOMAIN outer \cup NamesIn(src[i])
           /\ Grown(scope, c.a + 1, c.sc, c.next)
<1>1. /\ src \in Seq(Patterns) /\ Len(src) \in Nat /\ Len(src) <= MaxClauses
      /\ code \in Seq(Clause) /\ Len(code) \in Nat /\ Len(code) <= Len(src)
  BY RegistersAssumption DEF Setting, Progress
<1>2. src[i] \in Patterns /\ c \in Clause
  BY <1>1
<1>3. c.a \in Nat /\ First <= c.a /\ c.next <= nreg /\ c = GenClause(scope, src[i], c.a)
  BY <1>2 DEF Compiled, Clause
<1>4. IsScope(scope) /\ DOMAIN scope = DOMAIN outer
  BY ScopeIs
<1>5. /\ c.pat = g.pat /\ c.sc = g.sc /\ c.next = g.next
      /\ c.op = IF src[i].k = "num" THEN "EQ" ELSE "MATCH"
      /\ c.a + 1 <= c.next /\ c.next \in Nat
      /\ DOMAIN c.sc = DOMAIN scope \cup NamesIn(src[i])
      /\ Grown(scope, c.a + 1, c.sc, c.next)
  <2> DEFINE p == src[i]
             n == c.a
  <2>1. p \in Patterns /\ n \in Nat /\ c = GenClause(scope, p, n) /\ g = GenPattern(p, scope, n + 1)
    BY <1>2, <1>3
  <2> HIDE DEF p, n
  <2>2. ClauseRight(p, scope, n, c, g)
    BY <1>4, <2>1, ClauseIs
  <2> QED
    BY <2>2 DEF p, n, ClauseRight
<1>6. c.next <= LastReg + 1
  <2>1. Len(code) - 1 \in Nat /\ Len(code) - 1 < MaxClauses /\ (Len(code) - 1) + 1 = Len(code)
    BY <1>1, RegistersAssumption
  <2>2. Room(Len(code)) <= LastReg + 1 /\ Room(Len(code)) \in Nat
    <3>1. /\ Room(Len(code) - 1) \in Nat /\ Room((Len(code) - 1) + 1) = Room(Len(code) - 1) + Width
          /\ Room((Len(code) - 1) + 1) <= LastReg + 1
      BY <2>1, RoomNext
    <3>2. Width \in Nat
      BY ScopeIs
    <3> QED
      BY <2>1, <3>1, <3>2
  <2>3. nreg \in Nat /\ nreg <= Room(Len(code)) /\ LastReg \in Nat
    BY TermsAssumption DEF Compiled
  <2> QED
    BY <1>3, <1>5, <2>2, <2>3
<1> QED
  BY <1>2, <1>3, <1>4, <1>5, <1>6, SelectAssumption

\* The frame holds what the enclosing scopes bind.
LEMMA FrameHolds ==
    ASSUME Setting, Frame, NEW next \in Nat, First <= next
    PROVE  /\ Held(R, scope, next) /\ R \in Memories
           /\ \A b : (\A x \in DOMAIN outer : b[x] = outer[x]) => Agrees(b, R, scope)
<1>1. /\ DOMAIN scope = DOMAIN outer /\ ArgReg \in Nat /\ First = ArgReg + 2
      /\ \A x \in DOMAIN outer : /\ scope[x] \in 0..ArgReg - 1
                                 /\ outer[x] \in ValueType[Depth]
  BY ScopeIs
<1>2. R \in Memories /\ \A x \in DOMAIN outer : R[scope[x]] = outer[x]
  BY DEF Frame
<1>3. Held(R, scope, next)
  BY <1>1, <1>2 DEF Held
<1> QED
  BY <1>1, <1>2, <1>3 DEF Agrees

-----------------------------------------------------------------------------
(* Trying a clause.                                                        *)

\* The bindings of the enclosing scopes and new ones.
With(new) == [x \in DOMAIN outer \cup DOMAIN new |->
                IF x \in DOMAIN outer THEN outer[x] ELSE new[x]]

LEMMA SolutionIs ==
    ASSUME NEW p, NEW new
    PROVE  new \in Solutions(p) <=> /\ new \in [NamesIn(p) \ DOMAIN outer -> Parts(arg)]
                                    /\ Instance(p, arg, With(new))
BY Zenon DEF Solutions, With

\* The answer is yes if there is a solution, and the registers of the clause
\* hold one then.
Finds(p, sc, M, yes) ==
    /\ yes <=> Solutions(p) # {}
    /\ yes => \E b \in Solutions(p) : \A x \in DOMAIN b : M[sc[x]] = b[x]

LEMMA MatchFinds ==
    ASSUME Setting, Frame, NEW p \in PatternType[Depth], NEW at \in Nat, First <= at,
           NEW g, g = GenPattern(p, scope, at), g.next <= LastReg + 1,
           NEW m, m = Match(R, g.pat, arg, at)
    PROVE  /\ Within(R, m, at, g.next - at)
           /\ ~BoundRest(g.pat) => Finds(p, g.sc, m.mem, m.n # -1)
<1>1. /\ DOMAIN scope = DOMAIN outer /\ IsScope(scope) /\ DOMAIN outer \subseteq Names
      /\ arg \in ValueType[Depth]
  BY ScopeIs
<1>2. /\ Held(R, scope, at) /\ R \in Memories
      /\ \A b : (\A x \in DOMAIN outer : b[x] = outer[x]) => Agrees(b, R, scope)
  BY FrameHolds
<1>3. Grown(scope, at, g.sc, g.next) /\ DOMAIN g.sc = DOMAIN outer \cup NamesIn(p)
  <2>1. CompiledRight(p, scope, at)
    BY <1>1, CompiledIs
  <2> QED
    BY <1>1, <2>1, Zenon DEF CompiledRight
<1>4. g.next \in Nat /\ at <= g.next /\ g.next - at \in Nat /\ at + (g.next - at) = g.next
      /\ at <= LastReg + 1
  BY <1>3, TermsAssumption DEF Grown
<1>5. Within(R, m, at, g.next - at)
  <2>1. WritesOwn(p, scope, at, R, arg, at)
    BY <1>1, <1>2, MatchWritesOwn
  <2>2. at + (g.next - at) <= LastReg + 1 => Within(R, m, at, g.next - at)
    BY <2>1, Zenon DEF WritesOwn
  <2> QED
    BY <1>4, <2>2
<1> SUFFICES ASSUME ~BoundRest(g.pat) PROVE Finds(p, g.sc, m.mem, m.n # -1)
  BY <1>5
<1>6. /\ m.n # -1 => \A x \in DOMAIN g.sc \ DOMAIN scope : m.mem[g.sc[x]] \in Parts(arg)
      /\ \A b : Agrees(b, R, scope) =>
                  (Instance(p, arg, b) <=> m.n # -1 /\ Agrees(b, m.mem, g.sc))
  <2>1. MatchRight(p, scope, at, R, arg)
    BY <1>1, <1>2, MatchIsInstance
  <2> QED
    BY <1>2, <2>1, Zenon DEF MatchRight
<1>7. Kept(scope, g.sc, R, m)
  BY <1>1, <1>2, <1>3, <1>4, <1>5, KeptBy
<1>8. ASSUME NEW new \in Solutions(p) PROVE m.n # -1
  <2>1. Instance(p, arg, With(new))
    BY SolutionIs
  <2>2. \A x \in DOMAIN outer : With(new)[x] = outer[x]
    BY DEF With
  <2>3. Agrees(With(new), R, scope)
    BY <1>2, <2>2
  <2> QED
    BY <1>6, <2>1, <2>3
<1>9. ASSUME m.n # -1
      PROVE  \E b \in Solutions(p) : \A x \in DOMAIN b : m.mem[g.sc[x]] = b[x]
  <2> DEFINE new == [x \in NamesIn(p) \ DOMAIN outer |-> m.mem[g.sc[x]]]
  <2>1. DOMAIN new = NamesIn(p) \ DOMAIN outer
        /\ \A x \in DOMAIN new : new[x] = m.mem[g.sc[x]]
    OBVIOUS
  <2>2. new \in [NamesIn(p) \ DOMAIN outer -> Parts(arg)]
    BY <1>1, <1>3, <1>6, <1>9
  <2> HIDE DEF new
  <2>3. \A x \in DOMAIN outer : With(new)[x] = outer[x]
    BY DEF With
  <2>4. \A x \in DOMAIN new : With(new)[x] = new[x]
    BY <2>1 DEF With
  <2>5. Agrees(With(new), R, scope)
    BY <1>2, <2>3
  <2>6. Agrees(With(new), m.mem, g.sc)
    <3> SUFFICES ASSUME NEW x \in DOMAIN g.sc PROVE With(new)[x] = m.mem[g.sc[x]]
      BY DEF Agrees
    <3>1. CASE x \in DOMAIN outer
      <4>1. m.mem[g.sc[x]] = R[scope[x]]
        BY <1>1, <1>7, <3>1 DEF Kept
      <4>2. R[scope[x]] = outer[x]
        BY <3>1 DEF Frame
      <4> QED
        BY <2>3, <3>1, <4>1, <4>2
    <3>2. CASE x \notin DOMAIN outer
      BY <1>3, <2>1, <2>4, <3>2
    <3> QED
      BY <3>1, <3>2
  <2>7. Instance(p, arg, With(new))
    BY <1>6, <1>9, <2>5, <2>6
  <2>8. new \in Solutions(p)
    BY <2>2, <2>7, SolutionIs
  <2> QED
    BY <2>1, <2>8
<1>10. m.n # -1 <=> Solutions(p) # {}
  BY <1>8, <1>9
<1> QED
  BY <1>9, <1>10 DEF Finds
\* A number is compiled to itself, and binds nothing.
LEMMA NumberFinds ==
    ASSUME Setting, NEW p \in PatternType[Depth], p.k = "num", NEW at \in Nat, NEW sc, NEW M
    PROVE  GenPattern(p, scope, at).pat = p /\ Finds(p, sc, M, p = arg)
<1>1. Depth \in 0..Depth
  BY TermsAssumption
<1>2. p \in Simple
  BY <1>1, PatternTypeDef DEF PatternAt
<1>3. IsScope(scope) /\ arg \in ValueType[Depth]
  BY ScopeIs
<1>4. GenPattern(p, scope, at).pat = p
  <2>1. GenIn(Depth, p, scope, at) = [pat |-> p, sc |-> scope, next |-> at]
    BY <1>1, <1>2, <1>3, GenSimple
  <2>2. GenPattern(p, scope, at) = GenIn(Depth, p, scope, at)
    BY Zenon DEF GenPattern, GenIn
  <2> QED
    BY <2>1, <2>2
<1>5. NamesIn(p) = {}
  BY <1>1, <1>2, NamesStep DEF NamesIn
<1>6. \A b : Instance(p, arg, b) <=> p = arg
  <2> SUFFICES ASSUME NEW b PROVE Instance(p, arg, b) <=> p = arg
    OBVIOUS
  <2>1. InstIn(b, Depth, p, arg) <=> p = arg
    BY <1>1, <1>2, <1>3, InstSimple
  <2>2. Instance(p, arg, b) = InstanceIn(b)[Depth][p][arg]
    BY InstanceDef
  <2> QED
    BY <2>1, <2>2, Zenon DEF InstIn
<1>7. ASSUME NEW new \in Solutions(p) PROVE p = arg /\ DOMAIN new = {}
  BY <1>5, <1>6, SolutionIs
<1>8. ASSUME p = arg PROVE \E b \in Solutions(p) : DOMAIN b = {}
  <2> DEFINE new == [x \in {} |-> arg]
  <2>1. new \in [NamesIn(p) \ DOMAIN outer -> Parts(arg)] /\ DOMAIN new = {}
    BY <1>5
  <2> HIDE DEF new
  <2>2. new \in Solutions(p)
    BY <1>6, <1>8, <2>1, SolutionIs
  <2> QED
    BY <2>1, <2>2
<1> QED
  BY <1>4, <1>7, <1>8 DEF Finds

-----------------------------------------------------------------------------
(* The steps.                                                              *)

\* A clause that was tried: the answer decides what comes next.
LEMMA Answered ==
    ASSUME IInv, phase = "run", NEW yes \in BOOLEAN, Continue(yes), Frame',
           UNCHANGED <<src, outer, arg, scope, nreg, code>>,
           ~Untyped(pc) /\ ~BoundRest(code[pc].pat) => Finds(src[pc], code[pc].sc, R', yes)
    PROVE  IInv'
<1> USE DEF IInv
<1>1. Setting'
  BY DEF Setting
<1>2. /\ pc \in Nat /\ pc <= Len(src) /\ 1 <= pc /\ Len(code) = Len(src) /\ Len(src) \in Nat
      /\ Tried = 1..pc - 1
  BY DEF Progress, Setting, Tried
<1>3. \/ yes /\ phase' = "chosen" /\ pc' = pc
      \/ ~yes /\ pc' = pc + 1 /\ phase' = "fell" /\ pc = Len(code)
      \/ ~yes /\ pc' = pc + 1 /\ phase' = "run" /\ pc # Len(code)
  BY DEF Continue
<1>4. Progress'
  BY <1>2, <1>3 DEF Progress
<1>5. Compiled'
  BY DEF Compiled, First, Room
<1>6. /\ \A i : Solutions(src[i])' = Solutions(src[i])
      /\ \A i : Untyped(i)' <=> Untyped(i)
  BY DEF Solutions, Untyped
<1>7. \A i \in Tried' : i \in Tried \/ i = pc
  BY <1>2, <1>3 DEF Tried
<1>8. ASSUME NEW i \in Tried' PROVE Verdict(i)'
  <2> SUFFICES ASSUME ~Untyped(i), ~BoundRest(code[i].pat)
               PROVE  (phase' = "chosen" /\ i = pc') <=> Solutions(src[i]) # {}
    BY <1>6 DEF Verdict
  <2>1. CASE i = pc
    <3>1. yes <=> Solutions(src[i]) # {}
      BY <2>1 DEF Finds
    <3> QED
      BY <1>2, <1>3, <2>1, <3>1
  <2>2. CASE i \in Tried /\ i # pc
    <3>1. Solutions(src[i]) = {}
      BY <2>2 DEF Verdicts, Verdict
    <3> QED
      BY <1>2, <1>3, <2>2, <3>1
  <2> QED
    BY <1>7, <2>1, <2>2
<1>9. Verdicts'
  BY <1>8 DEF Verdicts
<1>10. BindsSolution'
  <2> SUFFICES ASSUME phase' = "chosen", ~Untyped(pc)', ~BoundRest(code[pc].pat)'
               PROVE  (\E b \in Solutions(src[pc]) : \A x \in DOMAIN b : R[code[pc].sc[x]] = b[x])'
    BY DEF BindsSolution
  <2>1. yes /\ pc' = pc
    BY <1>3
  <2>2. ~Untyped(pc) /\ ~BoundRest(code[pc].pat)
    BY <2>1 DEF Untyped
  <2>3. \E b \in Solutions(src[pc]) : \A x \in DOMAIN b : R'[code[pc].sc[x]] = b[x]
    BY <2>1, <2>2 DEF Finds
  <2>4. Solutions(src[pc])' = Solutions(src[pc])
    BY <2>1 DEF Solutions
  <2> QED
    BY <2>1, <2>3, <2>4
<1> QED
  BY <1>1, <1>4, <1>5, <1>9, <1>10
LEMMA InitInv ==
    ASSUME Init
    PROVE  IInv
<1>1. Setting
  <2>1. PICK n \in 1..MaxClauses : src \in [1..n -> Patterns]
    BY Zenon DEF Init
  <2>2. n \in Nat /\ MaxClauses \in Nat
    BY RegistersAssumption
  <2>3. src \in Seq(Patterns) /\ Len(src) = n
    BY <2>1, <2>2
  <2> QED
    BY <2>1, <2>3 DEF Init, Setting
<1>2. Len(src) \in Nat /\ 1 <= Len(src)
  BY <1>1 DEF Setting
<1>3. Progress
  <2>1. code = <<>> /\ pc = 1 /\ phase = "gen" /\ Len(code) = 0 /\ code \in Seq(Clause)
    BY DEF Init
  <2> QED
    BY <1>2, <2>1 DEF Progress
<1>4. Compiled
  <2>1. nreg = First /\ First \in Nat /\ Width \in Nat /\ Len(code) = 0
    BY <1>1, ScopeIs DEF Init, First
  <2>2. Room(Len(code)) = First
    BY <2>1 DEF Room
  <2> QED
    BY <2>1, <2>2 DEF Compiled
<1>5. Frame
  <2>1. /\ ArgReg \in Nat /\ ArgReg \in Registers /\ arg \in ValueType[Depth]
        /\ \A x \in DOMAIN outer : /\ scope[x] \in 0..ArgReg - 1 /\ scope[x] \in Registers
                                   /\ outer[x] \in ValueType[Depth]
        /\ \A x, y \in DOMAIN outer : scope[x] = scope[y] => x = y
    BY <1>1, ScopeIs
  <2> DEFINE Named(r) == \E x \in DOMAIN outer : scope[x] = r
             Name(r) == CHOOSE x \in DOMAIN outer : scope[x] = r
  <2>2. R = [r \in Registers |-> IF Named(r) THEN outer[Name(r)]
                                 ELSE IF r = ArgReg THEN arg ELSE Unset]
    BY Zenon DEF Init, ArgReg
  <2>3. \A r : Named(r) => Name(r) \in DOMAIN outer /\ scope[Name(r)] = r
    OBVIOUS
  <2>4. \A x \in DOMAIN outer : Named(scope[x]) /\ Name(scope[x]) = x
    BY <2>1, <2>3
  <2>5. ~Named(ArgReg)
    BY <2>1
  <2> HIDE DEF Named, Name
  <2>6. \A x \in DOMAIN outer : R[scope[x]] = outer[x]
    BY <2>1, <2>2, <2>4
  <2>7. R[ArgReg] = arg
    BY <2>1, <2>2, <2>5
  <2>8. \A r \in Registers : (IF Named(r) THEN outer[Name(r)]
                              ELSE IF r = ArgReg THEN arg ELSE Unset)
                                \in ValueType[Depth] \cup {Unset}
    BY <2>1, <2>3
  <2>9. R \in Memories
    BY <2>2, <2>8 DEF Memories
  <2> QED
    BY <2>6, <2>7, <2>9 DEF Frame
<1>6. Verdicts
  BY DEF Init, Tried, Verdicts
<1>7. BindsSolution
  BY DEF Init, BindsSolution
<1> QED
  BY <1>1, <1>3, <1>4, <1>5, <1>6, <1>7 DEF IInv

LEMMA GenInv ==
    ASSUME IInv, Gen
    PROVE  IInv'
<1> DEFINE p == src[Len(code) + 1]
           c == GenClause(scope, p, nreg)
           g == GenPattern(p, scope, nreg + 1)
<1>1. Setting /\ Progress /\ Compiled /\ Frame
  BY DEF IInv
<1>2. /\ Len(code) \in Nat /\ Len(src) \in Nat /\ Len(code) < Len(src) /\ Len(src) <= MaxClauses
      /\ pc = 1 /\ src \in Seq(Patterns) /\ code \in Seq(Clause) /\ MaxClauses \in Nat
  BY <1>1, RegistersAssumption DEF Gen, Progress, Setting
<1>3. /\ p \in Patterns /\ nreg \in Nat /\ First <= nreg /\ nreg <= Room(Len(code))
      /\ IsScope(scope)
  BY <1>1, <1>2, ScopeIs DEF Compiled
<1>4. ClauseRight(p, scope, nreg, c, g)
  BY <1>3, ClauseIs
<1>5. /\ code' = Append(code, c) /\ nreg' = c.next
      /\ phase' = IF Len(code') = Len(src) THEN "run" ELSE "gen"
      /\ UNCHANGED <<src, outer, arg, scope, R, pc>>
  BY Zenon DEF Gen
<1> HIDE DEF c, g
<1>6. c \in Clause /\ c.a = nreg /\ nreg + 1 <= c.next /\ c.next <= nreg + Width /\ c.next \in Nat
  BY <1>4 DEF ClauseRight
<1> HIDE DEF p
<1>7. /\ Len(code') = Len(code) + 1 /\ code' \in Seq(Clause)
      /\ \A i \in 1..Len(code) : code'[i] = code[i]
      /\ code'[Len(code) + 1] = c
  BY <1>2, <1>5, <1>6
<1>8. Setting'
  BY <1>1, <1>5 DEF Setting
<1>9. Progress'
  BY <1>2, <1>5, <1>7 DEF Progress
<1>10. Compiled'
  <2>1. /\ Room(Len(code)) \in Nat /\ Room(Len(code) + 1) = Room(Len(code)) + Width
        /\ Width \in Nat /\ First \in Nat
    BY <1>1, <1>2, RoomNext, ScopeIs
  <2>2. First' = First /\ Room(Len(code))' = Room(Len(code) + 1)
    BY <1>5, <1>7 DEF First, Room
  <2>3. nreg' \in Nat /\ First <= nreg' /\ nreg <= nreg' /\ nreg' <= Room(Len(code) + 1)
    BY <1>3, <1>5, <1>6, <2>1
  <2>4. ASSUME NEW i \in 1..Len(code')
        PROVE  /\ code'[i] = GenClause(scope, src[i], code'[i].a)
               /\ First <= code'[i].a /\ code'[i].next <= nreg'
    <3>1. CASE i \in 1..Len(code)
      <4>1. /\ code[i] = GenClause(scope, src[i], code[i].a)
            /\ First <= code[i].a /\ code[i].next <= nreg
        BY <1>1, <3>1 DEF Compiled
      <4>2. code[i] \in Clause
        BY <1>2, <3>1
      <4>3. code[i].next \in Nat
        BY <4>2 DEF Clause
      <4> QED
        BY <1>3, <1>7, <2>3, <3>1, <4>1, <4>3
    <3>2. CASE i = Len(code) + 1
      <4>1. code'[i] = c /\ c = GenClause(scope, src[i], nreg)
        BY <1>7, <3>2 DEF c, p
      <4>2. c.next <= nreg'
        BY <1>5, <1>6
      <4> QED
        BY <1>3, <1>6, <4>1, <4>2
    <3> QED
      BY <1>2, <1>7, <3>1, <3>2
  <2> QED
    BY <1>5, <2>2, <2>3, <2>4 DEF Compiled
<1>11. Frame'
  BY <1>1, <1>5 DEF Frame, ArgReg
<1>12. Verdicts'
  <2>1. Tried' = {}
    BY <1>2, <1>5 DEF Tried
  <2> QED
    BY <2>1 DEF Verdicts
<1>13. BindsSolution'
  BY <1>5 DEF BindsSolution
<1> QED
  BY <1>8, <1>9, <1>10, <1>11, <1>12, <1>13 DEF IInv
\* A match writes the registers of its clause alone, and answers for it.
LEMMA TryMatchIs ==
    ASSUME IInv, phase = "run", code[pc].op = "MATCH",
           NEW c, c = code[pc], NEW m, m = Match(R, c.pat, R[ArgReg], c.a + 1)
    PROVE  /\ m.mem \in Memories /\ m.n \in Int /\ (m.n >= 0 <=> m.n # -1)
           /\ \A r \in Registers : m.mem[r] # R[r] => r \in c.a + 1..c.next - 1
           /\ c.a \in Nat /\ First <= c.a
           /\ ~BoundRest(c.pat) => Finds(src[pc], c.sc, m.mem, m.n # -1)
<1> DEFINE p == src[pc]
           g == GenPattern(p, scope, c.a + 1)
<1>1. Setting /\ Progress /\ Compiled /\ Frame
  BY DEF IInv
<1>2. pc \in 1..Len(code)
  BY <1>1 DEF Progress, Setting
<1>3. /\ p \in PatternType[Depth] /\ c.a \in Nat /\ First <= c.a
      /\ c.pat = g.pat /\ c.sc = g.sc /\ c.next = g.next
      /\ c.a + 1 <= c.next /\ c.next \in Nat /\ c.next <= LastReg + 1
  BY <1>1, <1>2, ClauseOf
<1>4. R[ArgReg] = arg
  BY <1>1 DEF Frame
<1> DEFINE at == c.a + 1
<1>5. g = GenPattern(p, scope, at) /\ m = Match(R, g.pat, arg, at)
  BY <1>3, <1>4
<1>6. at \in Nat /\ First <= at /\ g.next <= LastReg + 1
  BY <1>1, <1>3, ScopeIs
<1> HIDE DEF p, g, at
<1>7. /\ Within(R, m, at, g.next - at)
      /\ ~BoundRest(g.pat) => Finds(p, g.sc, m.mem, m.n # -1)
  BY <1>1, <1>3, <1>5, <1>6, MatchFinds
<1>8. at = c.a + 1 /\ g.next = c.next
  BY <1>3 DEF at
<1>9. /\ m.mem \in Memories /\ m.n \in Int /\ (m.n >= 0 <=> m.n # -1)
      /\ \A r \in Registers : m.mem[r] # R[r] => r \in c.a + 1..c.next - 1
  BY <1>3, <1>7, <1>8 DEF Within
<1>10. ~BoundRest(c.pat) => Finds(src[pc], c.sc, m.mem, m.n # -1)
  BY <1>3, <1>7 DEF p
<1> QED
  BY <1>3, <1>9, <1>10

LEMMA TryMatchInv ==
    ASSUME IInv, TryMatch
    PROVE  IInv'
<1> DEFINE c == code[pc]
           m == Match(R, c.pat, R[ArgReg], c.a + 1)
           yes == m.n >= 0
<1>1. /\ phase = "run" /\ code[pc].op = "MATCH" /\ R' = m.mem /\ Continue(yes)
      /\ UNCHANGED <<src, outer, arg, scope, nreg, code>>
  BY Zenon DEF TryMatch
<1>2. /\ m.mem \in Memories /\ m.n \in Int /\ (m.n >= 0 <=> m.n # -1)
      /\ \A r \in Registers : m.mem[r] # R[r] => r \in c.a + 1..c.next - 1
      /\ c.a \in Nat /\ First <= c.a
      /\ ~BoundRest(c.pat) => Finds(src[pc], c.sc, m.mem, m.n # -1)
  BY <1>1, TryMatchIs
<1> HIDE DEF m
<1>3. Frame'
  <2>1. /\ ArgReg \in Nat /\ ArgReg \in Registers /\ First = ArgReg + 2
        /\ \A x \in DOMAIN outer : scope[x] \in 0..ArgReg - 1 /\ scope[x] \in Registers
    BY ScopeIs DEF IInv
  <2>2. \A r \in 0..ArgReg : r \in Registers => m.mem[r] = R[r]
    BY <1>2, <2>1
  <2>3. m.mem[ArgReg] = arg /\ \A x \in DOMAIN outer : m.mem[scope[x]] = outer[x]
    BY <2>1, <2>2 DEF IInv, Frame
  <2>4. ArgReg' = ArgReg
    BY <1>1 DEF ArgReg
  <2> QED
    BY <1>1, <1>2, <2>3, <2>4 DEF Frame
<1>4. yes \in BOOLEAN /\ (yes <=> m.n # -1)
  BY <1>2
<1> HIDE DEF yes
<1>5. ~BoundRest(c.pat) => Finds(src[pc], c.sc, R', yes)
  BY <1>1, <1>2, <1>4 DEF Finds
<1> QED
  BY <1>1, <1>3, <1>4, <1>5, Answered

LEMMA TryEqInv ==
    ASSUME IInv, TryEq
    PROVE  IInv'
<1> DEFINE c == code[pc]
           p == src[pc]
<1>1. Setting /\ Progress /\ Compiled /\ Frame
  BY DEF IInv
<1>2. /\ phase = "run" /\ c.op = "EQ" /\ R' = R
      /\ UNCHANGED <<src, outer, arg, scope, nreg, code>>
  BY DEF TryEq
<1>3. pc \in 1..Len(code)
  BY <1>1, <1>2 DEF Progress, Setting
<1>4. /\ p \in PatternType[Depth] /\ c.a \in Nat /\ c.pat = GenPattern(p, scope, c.a + 1).pat
      /\ c.op = IF p.k = "num" THEN "EQ" ELSE "MATCH"
  BY <1>1, <1>3, ClauseOf
<1>5. p.k = "num"
  BY <1>2, <1>4
<1>6. c.pat = p /\ Finds(p, c.sc, R, p = arg)
  <2> DEFINE at == c.a + 1
  <2>1. at \in Nat
    BY <1>4
  <2> HIDE DEF at
  <2>2. GenPattern(p, scope, at).pat = p /\ Finds(p, c.sc, R, p = arg)
    BY <1>1, <1>4, <1>5, <2>1, NumberFinds
  <2> QED
    BY <1>4, <2>2 DEF at
<1>7. R[ArgReg] = arg
  BY <1>1 DEF Frame
<1>8. Frame'
  BY <1>1, <1>2 DEF Frame, ArgReg
<1>9. CASE arg.k = "num"
  <2> DEFINE yes == p = arg
  <2>1. Continue(arg = p)
    BY <1>6, <1>7, <1>9 DEF TryEq
  <2>2. yes \in BOOLEAN /\ Continue(yes)
    BY <2>1 DEF Continue
  <2>3. Finds(p, c.sc, R', yes)
    BY <1>2, <1>6
  <2> HIDE DEF yes
  <2> QED
    BY <1>2, <1>8, <2>2, <2>3, Answered
<1>10. CASE arg.k # "num"
  <2>1. PICK same \in BOOLEAN : Continue(same)
    BY <1>7, <1>10 DEF TryEq
  <2>2. Untyped(pc)
    BY <1>2, <1>10 DEF Untyped
  <2> QED
    BY <1>2, <1>8, <2>1, <2>2, Answered
<1> QED
  BY <1>9, <1>10
LEMMA StutterInv ==
    ASSUME IInv, UNCHANGED vars
    PROVE  IInv'
<1>1. UNCHANGED <<src, outer, arg, scope, nreg, code, R, pc, phase>>
  BY DEF vars
<1>2. Setting' /\ Progress'
  BY <1>1 DEF IInv, Setting, Progress
<1>3. Compiled' /\ Frame'
  BY <1>1 DEF IInv, Compiled, First, Room, Frame, ArgReg
<1>4. /\ \A i : Solutions(src[i])' = Solutions(src[i]) /\ (Untyped(i)' <=> Untyped(i))
      /\ Tried' = Tried
  BY <1>1 DEF Solutions, Untyped, Tried
<1>5. ASSUME NEW i \in Tried PROVE Verdict(i)'
  <2>1. Verdict(i)
    BY DEF IInv, Verdicts
  <2> QED
    BY <1>1, <1>4, <2>1 DEF Verdict
<1>6. Verdicts'
  BY <1>4, <1>5 DEF Verdicts
<1>7. BindsSolution'
  <2>1. Solutions(src[pc])' = Solutions(src[pc]) /\ (Untyped(pc)' <=> Untyped(pc))
    BY <1>1 DEF Solutions, Untyped
  <2>2. BindsSolution
    BY DEF IInv
  <2> QED
    BY <1>1, <2>1, <2>2 DEF BindsSolution
<1> QED
  BY <1>2, <1>3, <1>6, <1>7 DEF IInv

-----------------------------------------------------------------------------
(* The theorems.                                                           *)

\* The clauses that were tried were right to be chosen or passed, whatever
\* they wrote before they failed.
THEOREM Invariance == Spec => []IInv
<1>1. Init => IInv
  BY InitInv
<1>2. IInv /\ [Next]_vars => IInv'
  <2> SUFFICES ASSUME IInv, [Next]_vars PROVE IInv'
    OBVIOUS
  <2>1. CASE Gen
    BY <2>1, GenInv
  <2>2. CASE TryMatch
    BY <2>2, TryMatchInv
  <2>3. CASE TryEq
    BY <2>3, TryEqInv
  <2>4. CASE UNCHANGED vars
    BY <2>4, StutterInv
  <2> QED
    BY <2>1, <2>2, <2>3, <2>4 DEF Next
<1> QED
  BY <1>1, <1>2, PTL DEF Spec

\* vm_execute takes the first clause of a select whose pattern the argument
\* is an instance of, and falls through when there is none.
THEOREM FirstIsChosen == Spec => []ChoosesFirst
<1>1. IInv => ChoosesFirst
  BY DEF IInv, Verdicts, Verdict, ChoosesFirst, RightChoice
<1> QED
  BY <1>1, Invariance, PTL

\* The body of the chosen clause finds, in the register gen_pattern gave each
\* variable of the pattern, the value that makes the argument an instance.
THEOREM SolutionIsBound == Spec => []BindsSolution
<1>1. IInv => BindsSolution
  BY DEF IInv
<1> QED
  BY <1>1, Invariance, PTL

\* match writes to the registers of the pattern it tries, and to no others.
THEOREM OthersAreKept == Spec => KeepsOthers
<1> DEFINE Own == \A r \in Registers :
                    R'[r] # R[r] => /\ phase = "run"
                                    /\ r \in code[pc].a + 1..code[pc].next - 1
<1>1. IInv /\ [Next]_vars => [Own]_vars
  <2> SUFFICES ASSUME IInv, Next PROVE Own
    OBVIOUS
  <2>1. CASE Gen
    BY <2>1 DEF Gen
  <2>2. CASE TryMatch
    <3> DEFINE c == code[pc]
               m == Match(R, c.pat, R[ArgReg], c.a + 1)
    <3>1. phase = "run" /\ c.op = "MATCH" /\ R' = m.mem
      BY <2>2, Zenon DEF TryMatch
    <3>2. \A r \in Registers : m.mem[r] # R[r] => r \in c.a + 1..c.next - 1
      BY <3>1, TryMatchIs
    <3> HIDE DEF m
    <3> QED
      BY <3>1, <3>2
  <2>3. CASE TryEq
    BY <2>3 DEF TryEq
  <2> QED
    BY <2>1, <2>2, <2>3 DEF Next
<1>2. IInv /\ [Next]_vars => [\A r \in Registers :
         R'[r] # R[r] => /\ phase = "run"
                         /\ r \in code[pc].a + 1..code[pc].next - 1]_vars
  BY <1>1
<1> QED
  BY <1>2, Invariance, PTL DEF Spec, KeepsOthers

================================================================================
