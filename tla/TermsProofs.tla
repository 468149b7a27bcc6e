------------------------------ MODULE TermsProofs ------------------------------
(***************************************************************************)
(* Proofs about patterns: for any names, atoms and depth, a compiled       *)
(* pattern matches the values that are instances of its source, and binds  *)
(* its names to what makes them so.                                        *)
(***************************************************************************)
EXTENDS Terms, WellFoundedInduction, FiniteSetTheorems, SequenceTheorems, TLAPS

-----------------------------------------------------------------------------
\* Induction over the natural numbers, for what can be said as a set of them.
LEMMA SetInduction ==
    ASSUME NEW S \in SUBSET Nat, 0 \in S, \A n \in S : n + 1 \in S
    PROVE  S = Nat
<1> DEFINE T == Nat \ S
           Less == {p \in Nat \X Nat : p[1] < p[2]}
<1> SUFFICES ASSUME T # {} PROVE FALSE
  OBVIOUS
<1>1. Less = OpToRel(<, Nat)
  BY DEF OpToRel
<1>2. IsWellFoundedOn(Less, Nat)
  BY <1>1, NatLessThanWellFounded
<1> HIDE DEF Less
<1>3. PICK x \in T : \A y \in T : ~ (<<y, x>> \in Less)
  BY <1>2, WFMin, Zenon
<1>4. x \in Nat /\ x # 0
  OBVIOUS
<1>5. x - 1 \in Nat /\ x - 1 \notin T
  <2>1. x - 1 \in Nat /\ <<x - 1, x>> \in Less
    BY <1>4 DEF Less
  <2> QED
    BY <1>3, <2>1
<1> QED
  BY <1>4, <1>5

-----------------------------------------------------------------------------
\* What comes before the d-th.
Before(g, d) == IF d = 0 THEN <<>> ELSE g[d - 1]

\* What is recursive has the definition's values.  First, a function up to m
\* and its next value.
Longer(m, g, e) == [i \in 0..m + 1 |-> IF i <= m THEN g[i] ELSE e]

LEMMA LongerFacts ==
    ASSUME NEW m \in Nat, NEW g, NEW e
    PROVE  /\ Longer(m, g, e) = [i \in 0..m + 1 |-> Longer(m, g, e)[i]]
           /\ Longer(m, g, e)[m + 1] = e
           /\ \A i \in 0..m : Longer(m, g, e)[i] = g[i] /\ Before(Longer(m, g, e), i) = Before(g, i)
           /\ Before(Longer(m, g, e), m + 1) = g[m]
<1>1. /\ Longer(m, g, e) = [i \in 0..m + 1 |-> Longer(m, g, e)[i]]
      /\ Longer(m, g, e)[m + 1] = e
      /\ \A i \in 0..m : Longer(m, g, e)[i] = g[i]
  BY DEF Longer
<1>2. \A i \in 1..m + 1 : i - 1 \in 0..m /\ i # 0
  OBVIOUS
<1>3. \A i \in 0..m : i = 0 \/ i \in 1..m + 1
  OBVIOUS
<1> QED
  BY <1>1, <1>2, <1>3 DEF Before

\* Values nest as their type says.
IsValues(n, g) == g = [d \in 0..n |-> ValueAt(d, Before(g, d))]

LEMMA ValuesExists ==
    ASSUME NEW n \in Nat
    PROVE  \E g : IsValues(n, g)
<1> DEFINE S == {m \in Nat : \E g : IsValues(m, g)}
<1>1. 0 \in S
  <2>1. IsValues(0, [d \in 0..0 |-> ValueAt(d, <<>>)])
    BY DEF IsValues, Before
  <2> QED
    BY <2>1
<1>2. ASSUME NEW m \in S PROVE m + 1 \in S
  <2>1. m \in Nat /\ \E g : IsValues(m, g)
    OBVIOUS
  <2>2. PICK g : IsValues(m, g)
    BY <2>1
  <2> DEFINE h == Longer(m, g, ValueAt(m + 1, g[m]))
  <2>3. /\ h = [d \in 0..m + 1 |-> h[d]]
        /\ h[m + 1] = ValueAt(m + 1, Before(h, m + 1))
        /\ \A d \in 0..m : h[d] = g[d] /\ Before(h, d) = Before(g, d)
    BY <2>1, LongerFacts
  <2> HIDE DEF h
  <2>4. \A d \in 0..m : g[d] = ValueAt(d, Before(g, d))
    BY <2>2 DEF IsValues
  <2>5. \A d \in 0..m + 1 : d \in 0..m \/ d = m + 1
    BY <2>1
  <2>6. \A d \in 0..m + 1 : h[d] = ValueAt(d, Before(h, d))
    BY <2>3, <2>4, <2>5, Zenon
  <2>7. IsValues(m + 1, h)
    BY <2>3, <2>6, Zenon DEF IsValues
  <2> QED
    BY <2>1, <2>7
<1> HIDE DEF S
<1>3. S = Nat
  BY <1>1, <1>2, SetInduction DEF S
<1> QED
  BY <1>3 DEF S

LEMMA ValueTypeDef ==
    \A d \in 0..Depth : ValueType[d] = ValueAt(d, Before(ValueType, d))
<1> DEFINE f == CHOOSE g : IsValues(Depth, g)
<1>1. IsValues(Depth, f)
  BY ValuesExists, TermsAssumption DEF Calls
<1>2. ValueType = f
  BY Zenon DEF ValueType, IsValues, Before
<1> HIDE DEF f
<1> QED
  BY <1>1, <1>2, Zenon DEF IsValues

\* So do patterns,
IsPatterned(n, g) == g = [d \in 0..n |-> PatternAt(d, Before(g, d))]

LEMMA PatternedExists ==
    ASSUME NEW n \in Nat
    PROVE  \E g : IsPatterned(n, g)
<1> DEFINE S == {m \in Nat : \E g : IsPatterned(m, g)}
<1>1. 0 \in S
  <2>1. IsPatterned(0, [d \in 0..0 |-> PatternAt(d, <<>>)])
    BY DEF IsPatterned, Before
  <2> QED
    BY <2>1
<1>2. ASSUME NEW m \in S PROVE m + 1 \in S
  <2>1. m \in Nat /\ \E g : IsPatterned(m, g)
    OBVIOUS
  <2>2. PICK g : IsPatterned(m, g)
    BY <2>1
  <2> DEFINE h == Longer(m, g, PatternAt(m + 1, g[m]))
  <2>3. /\ h = [d \in 0..m + 1 |-> h[d]]
        /\ h[m + 1] = PatternAt(m + 1, Before(h, m + 1))
        /\ \A d \in 0..m : h[d] = g[d] /\ Before(h, d) = Before(g, d)
    BY <2>1, LongerFacts
  <2> HIDE DEF h
  <2>4. \A d \in 0..m : g[d] = PatternAt(d, Before(g, d))
    BY <2>2 DEF IsPatterned
  <2>5. \A d \in 0..m + 1 : d \in 0..m \/ d = m + 1
    BY <2>1
  <2>6. \A d \in 0..m + 1 : h[d] = PatternAt(d, Before(h, d))
    BY <2>3, <2>4, <2>5, Zenon
  <2>7. IsPatterned(m + 1, h)
    BY <2>3, <2>6, Zenon DEF IsPatterned
  <2> QED
    BY <2>1, <2>7
<1> HIDE DEF S
<1>3. S = Nat
  BY <1>1, <1>2, SetInduction DEF S
<1> QED
  BY <1>3 DEF S

LEMMA PatternTypeDef ==
    \A d \in 0..Depth : PatternType[d] = PatternAt(d, Before(PatternType, d))
<1> DEFINE f == CHOOSE g : IsPatterned(Depth, g)
<1>1. IsPatterned(Depth, f)
  BY PatternedExists, TermsAssumption DEF Calls
<1>2. PatternType = f
  BY Zenon DEF PatternType, IsPatterned, Before
<1> HIDE DEF f
<1> QED
  BY <1>1, <1>2, Zenon DEF IsPatterned

\* and compiled ones.
IsCompiled(n, g) == g = [d \in 0..n |-> CompiledAt(d, Before(g, d))]

LEMMA CompiledExists ==
    ASSUME NEW n \in Nat
    PROVE  \E g : IsCompiled(n, g)
<1> DEFINE S == {m \in Nat : \E g : IsCompiled(m, g)}
<1>1. 0 \in S
  <2>1. IsCompiled(0, [d \in 0..0 |-> CompiledAt(d, <<>>)])
    BY DEF IsCompiled, Before
  <2> QED
    BY <2>1
<1>2. ASSUME NEW m \in S PROVE m + 1 \in S
  <2>1. m \in Nat /\ \E g : IsCompiled(m, g)
    OBVIOUS
  <2>2. PICK g : IsCompiled(m, g)
    BY <2>1
  <2> DEFINE h == Longer(m, g, CompiledAt(m + 1, g[m]))
  <2>3. /\ h = [d \in 0..m + 1 |-> h[d]]
        /\ h[m + 1] = CompiledAt(m + 1, Before(h, m + 1))
        /\ \A d \in 0..m : h[d] = g[d] /\ Before(h, d) = Before(g, d)
    BY <2>1, LongerFacts
  <2> HIDE DEF h
  <2>4. \A d \in 0..m : g[d] = CompiledAt(d, Before(g, d))
    BY <2>2 DEF IsCompiled
  <2>5. \A d \in 0..m + 1 : d \in 0..m \/ d = m + 1
    BY <2>1
  <2>6. \A d \in 0..m + 1 : h[d] = CompiledAt(d, Before(h, d))
    BY <2>3, <2>4, <2>5, Zenon
  <2>7. IsCompiled(m + 1, h)
    BY <2>3, <2>6, Zenon DEF IsCompiled
  <2> QED
    BY <2>1, <2>7
<1> HIDE DEF S
<1>3. S = Nat
  BY <1>1, <1>2, SetInduction DEF S
<1> QED
  BY <1>3 DEF S

LEMMA CompiledTypeDef ==
    \A d \in 0..Depth : CompiledType[d] = CompiledAt(d, Before(CompiledType, d))
<1> DEFINE f == CHOOSE g : IsCompiled(Depth, g)
<1>1. IsCompiled(Depth, f)
  BY CompiledExists, TermsAssumption DEF Calls
<1>2. CompiledType = f
  BY Zenon DEF CompiledType, IsCompiled, Before
<1> HIDE DEF f
<1> QED
  BY <1>1, <1>2, Zenon DEF IsCompiled

\* gen_pattern at a depth is made of gen_pattern one less deep;
IsGen(n, g) == g = [d \in 0..n |-> GenAt(d, Before(g, d))]

LEMMA GenExists ==
    ASSUME NEW n \in Nat
    PROVE  \E g : IsGen(n, g)
<1> DEFINE S == {m \in Nat : \E g : IsGen(m, g)}
<1>1. 0 \in S
  <2>1. IsGen(0, [d \in 0..0 |-> GenAt(d, <<>>)])
    BY DEF IsGen, Before
  <2> QED
    BY <2>1
<1>2. ASSUME NEW m \in S PROVE m + 1 \in S
  <2>1. m \in Nat /\ \E g : IsGen(m, g)
    OBVIOUS
  <2>2. PICK g : IsGen(m, g)
    BY <2>1
  <2> DEFINE h == Longer(m, g, GenAt(m + 1, g[m]))
  <2>3. /\ h = [d \in 0..m + 1 |-> h[d]]
        /\ h[m + 1] = GenAt(m + 1, Before(h, m + 1))
        /\ \A d \in 0..m : h[d] = g[d] /\ Before(h, d) = Before(g, d)
    BY <2>1, LongerFacts
  <2> HIDE DEF h
  <2>4. \A d \in 0..m : g[d] = GenAt(d, Before(g, d))
    BY <2>2 DEF IsGen
  <2>5. \A d \in 0..m + 1 : d \in 0..m \/ d = m + 1
    BY <2>1
  <2>6. \A d \in 0..m + 1 : h[d] = GenAt(d, Before(h, d))
    BY <2>3, <2>4, <2>5, Zenon
  <2>7. IsGen(m + 1, h)
    BY <2>3, <2>6, Zenon DEF IsGen
  <2> QED
    BY <2>1, <2>7
<1> HIDE DEF S
<1>3. S = Nat
  BY <1>1, <1>2, SetInduction DEF S
<1> QED
  BY <1>3 DEF S

LEMMA GensDef ==
    \A d \in 0..Depth : Gens[d] = GenAt(d, Before(Gens, d))
<1> DEFINE f == CHOOSE g : IsGen(Depth, g)
<1>1. IsGen(Depth, f)
  BY GenExists, TermsAssumption DEF Calls
<1>2. Gens = f
  BY Zenon DEF Gens, IsGen, Before
<1> HIDE DEF f
<1> QED
  BY <1>1, <1>2, Zenon DEF IsGen

\* match with so many calls in each other, of match with one less;
IsMatching(n, g) == g = [d \in 0..n |-> MatchBy(Before(g, d))]

LEMMA MatchingExists ==
    ASSUME NEW n \in Nat
    PROVE  \E g : IsMatching(n, g)
<1> DEFINE S == {m \in Nat : \E g : IsMatching(m, g)}
<1>1. 0 \in S
  <2>1. IsMatching(0, [d \in 0..0 |-> MatchBy(<<>>)])
    BY DEF IsMatching, Before
  <2> QED
    BY <2>1
<1>2. ASSUME NEW m \in S PROVE m + 1 \in S
  <2>1. m \in Nat /\ \E g : IsMatching(m, g)
    OBVIOUS
  <2>2. PICK g : IsMatching(m, g)
    BY <2>1
  <2> DEFINE h == Longer(m, g, MatchBy(g[m]))
  <2>3. /\ h = [d \in 0..m + 1 |-> h[d]]
        /\ h[m + 1] = MatchBy(Before(h, m + 1))
        /\ \A d \in 0..m : h[d] = g[d] /\ Before(h, d) = Before(g, d)
    BY <2>1, LongerFacts
  <2> HIDE DEF h
  <2>4. \A d \in 0..m : g[d] = MatchBy(Before(g, d))
    BY <2>2 DEF IsMatching
  <2>5. \A d \in 0..m + 1 : d \in 0..m \/ d = m + 1
    BY <2>1
  <2>6. \A d \in 0..m + 1 : h[d] = MatchBy(Before(h, d))
    BY <2>3, <2>4, <2>5, Zenon
  <2>7. IsMatching(m + 1, h)
    BY <2>3, <2>6, Zenon DEF IsMatching
  <2> QED
    BY <2>1, <2>7
<1> HIDE DEF S
<1>3. S = Nat
  BY <1>1, <1>2, SetInduction DEF S
<1> QED
  BY <1>3 DEF S

LEMMA MatchesDef ==
    \A d \in 0..Calls : Matches[d] = MatchBy(Before(Matches, d))
<1> DEFINE f == CHOOSE g : IsMatching(Calls, g)
<1>1. IsMatching(Calls, f)
  BY MatchingExists, TermsAssumption DEF Calls
<1>2. Matches = f
  BY Zenon DEF Matches, IsMatching, Before
<1> HIDE DEF f
<1> QED
  BY <1>1, <1>2, Zenon DEF IsMatching

\* instances at a depth, of instances one less deep;
IsInst(n, g, b) == g = [d \in 0..n |-> InstanceAt(d, b, Before(g, d))]

LEMMA InstExists ==
    ASSUME NEW n \in Nat, NEW b
    PROVE  \E g : IsInst(n, g, b)
<1> DEFINE S == {m \in Nat : \E g : IsInst(m, g, b)}
<1>1. 0 \in S
  <2>1. IsInst(0, [d \in 0..0 |-> InstanceAt(d, b, <<>>)], b)
    BY DEF IsInst, Before
  <2> QED
    BY <2>1
<1>2. ASSUME NEW m \in S PROVE m + 1 \in S
  <2>1. m \in Nat /\ \E g : IsInst(m, g, b)
    OBVIOUS
  <2>2. PICK g : IsInst(m, g, b)
    BY <2>1
  <2> DEFINE h == Longer(m, g, InstanceAt(m + 1, b, g[m]))
  <2>3. /\ h = [d \in 0..m + 1 |-> h[d]]
        /\ h[m + 1] = InstanceAt(m + 1, b, Before(h, m + 1))
        /\ \A d \in 0..m : h[d] = g[d] /\ Before(h, d) = Before(g, d)
    BY <2>1, LongerFacts
  <2> HIDE DEF h
  <2>4. \A d \in 0..m : g[d] = InstanceAt(d, b, Before(g, d))
    BY <2>2 DEF IsInst
  <2>5. \A d \in 0..m + 1 : d \in 0..m \/ d = m + 1
    BY <2>1
  <2>6. \A d \in 0..m + 1 : h[d] = InstanceAt(d, b, Before(h, d))
    BY <2>3, <2>4, <2>5, Zenon
  <2>7. IsInst(m + 1, h, b)
    BY <2>3, <2>6, Zenon DEF IsInst
  <2> QED
    BY <2>1, <2>7
<1> HIDE DEF S
<1>3. S = Nat
  BY <1>1, <1>2, SetInduction DEF S
<1> QED
  BY <1>3 DEF S

\* Instance at a depth.
InstanceIn(b) == CHOOSE g : IsInst(Depth, g, b)

LEMMA InstanceDef ==
    ASSUME NEW b
    PROVE  /\ \A p, v : Instance(p, v, b) = InstanceIn(b)[Depth][p][v]
           /\ \A d \in 0..Depth : InstanceIn(b)[d] = InstanceAt(d, b, Before(InstanceIn(b), d))
<1>1. IsInst(Depth, InstanceIn(b), b)
  BY InstExists, TermsAssumption, Zenon DEF InstanceIn
<1>2. \A p, v : Instance(p, v, b) = InstanceIn(b)[Depth][p][v]
  BY Zenon DEF Instance, InstanceIn, IsInst, Before
<1> QED
  BY <1>1, <1>2, Zenon DEF IsInst

\* so are names,
IsNaming(n, g) == g = [d \in 0..n |-> NamesAt(d, Before(g, d))]

LEMMA NamingExists ==
    ASSUME NEW n \in Nat
    PROVE  \E g : IsNaming(n, g)
<1> DEFINE S == {m \in Nat : \E g : IsNaming(m, g)}
<1>1. 0 \in S
  <2>1. IsNaming(0, [d \in 0..0 |-> NamesAt(d, <<>>)])
    BY DEF IsNaming, Before
  <2> QED
    BY <2>1
<1>2. ASSUME NEW m \in S PROVE m + 1 \in S
  <2>1. m \in Nat /\ \E g : IsNaming(m, g)
    OBVIOUS
  <2>2. PICK g : IsNaming(m, g)
    BY <2>1
  <2> DEFINE h == Longer(m, g, NamesAt(m + 1, g[m]))
  <2>3. /\ h = [d \in 0..m + 1 |-> h[d]]
        /\ h[m + 1] = NamesAt(m + 1, Before(h, m + 1))
        /\ \A d \in 0..m : h[d] = g[d] /\ Before(h, d) = Before(g, d)
    BY <2>1, LongerFacts
  <2> HIDE DEF h
  <2>4. \A d \in 0..m : g[d] = NamesAt(d, Before(g, d))
    BY <2>2 DEF IsNaming
  <2>5. \A d \in 0..m + 1 : d \in 0..m \/ d = m + 1
    BY <2>1
  <2>6. \A d \in 0..m + 1 : h[d] = NamesAt(d, Before(h, d))
    BY <2>3, <2>4, <2>5, Zenon
  <2>7. IsNaming(m + 1, h)
    BY <2>3, <2>6, Zenon DEF IsNaming
  <2> QED
    BY <2>1, <2>7
<1> HIDE DEF S
<1>3. S = Nat
  BY <1>1, <1>2, SetInduction DEF S
<1> QED
  BY <1>3 DEF S

LEMMA PatternNamesDef ==
    \A d \in 0..Depth : PatternNames[d] = NamesAt(d, Before(PatternNames, d))
<1> DEFINE f == CHOOSE g : IsNaming(Depth, g)
<1>1. IsNaming(Depth, f)
  BY NamingExists, TermsAssumption DEF Calls
<1>2. PatternNames = f
  BY Zenon DEF PatternNames, IsNaming, Before
<1> HIDE DEF f
<1> QED
  BY <1>1, <1>2, Zenon DEF IsNaming

\* parts
IsParting(n, g) == g = [d \in 0..n |-> PartsAt(d, Before(g, d))]

LEMMA PartingExists ==
    ASSUME NEW n \in Nat
    PROVE  \E g : IsParting(n, g)
<1> DEFINE S == {m \in Nat : \E g : IsParting(m, g)}
<1>1. 0 \in S
  <2>1. IsParting(0, [d \in 0..0 |-> PartsAt(d, <<>>)])
    BY DEF IsParting, Before
  <2> QED
    BY <2>1
<1>2. ASSUME NEW m \in S PROVE m + 1 \in S
  <2>1. m \in Nat /\ \E g : IsParting(m, g)
    OBVIOUS
  <2>2. PICK g : IsParting(m, g)
    BY <2>1
  <2> DEFINE h == Longer(m, g, PartsAt(m + 1, g[m]))
  <2>3. /\ h = [d \in 0..m + 1 |-> h[d]]
        /\ h[m + 1] = PartsAt(m + 1, Before(h, m + 1))
        /\ \A d \in 0..m : h[d] = g[d] /\ Before(h, d) = Before(g, d)
    BY <2>1, LongerFacts
  <2> HIDE DEF h
  <2>4. \A d \in 0..m : g[d] = PartsAt(d, Before(g, d))
    BY <2>2 DEF IsParting
  <2>5. \A d \in 0..m + 1 : d \in 0..m \/ d = m + 1
    BY <2>1
  <2>6. \A d \in 0..m + 1 : h[d] = PartsAt(d, Before(h, d))
    BY <2>3, <2>4, <2>5, Zenon
  <2>7. IsParting(m + 1, h)
    BY <2>3, <2>6, Zenon DEF IsParting
  <2> QED
    BY <2>1, <2>7
<1> HIDE DEF S
<1>3. S = Nat
  BY <1>1, <1>2, SetInduction DEF S
<1> QED
  BY <1>3 DEF S

LEMMA ValuePartsDef ==
    \A d \in 0..Depth : ValueParts[d] = PartsAt(d, Before(ValueParts, d))
<1> DEFINE f == CHOOSE g : IsParting(Depth, g)
<1>1. IsParting(Depth, f)
  BY PartingExists, TermsAssumption DEF Calls
<1>2. ValueParts = f
  BY Zenon DEF ValueParts, IsParting, Before
<1> HIDE DEF f
<1> QED
  BY <1>1, <1>2, Zenon DEF IsParting

\* and bound ranges.
IsResting(n, g) == g = [d \in 0..n |-> RestsAt(d, Before(g, d))]

LEMMA RestingExists ==
    ASSUME NEW n \in Nat
    PROVE  \E g : IsResting(n, g)
<1> DEFINE S == {m \in Nat : \E g : IsResting(m, g)}
<1>1. 0 \in S
  <2>1. IsResting(0, [d \in 0..0 |-> RestsAt(d, <<>>)])
    BY DEF IsResting, Before
  <2> QED
    BY <2>1
<1>2. ASSUME NEW m \in S PROVE m + 1 \in S
  <2>1. m \in Nat /\ \E g : IsResting(m, g)
    OBVIOUS
  <2>2. PICK g : IsResting(m, g)
    BY <2>1
  <2> DEFINE h == Longer(m, g, RestsAt(m + 1, g[m]))
  <2>3. /\ h = [d \in 0..m + 1 |-> h[d]]
        /\ h[m + 1] = RestsAt(m + 1, Before(h, m + 1))
        /\ \A d \in 0..m : h[d] = g[d] /\ Before(h, d) = Before(g, d)
    BY <2>1, LongerFacts
  <2> HIDE DEF h
  <2>4. \A d \in 0..m : g[d] = RestsAt(d, Before(g, d))
    BY <2>2 DEF IsResting
  <2>5. \A d \in 0..m + 1 : d \in 0..m \/ d = m + 1
    BY <2>1
  <2>6. \A d \in 0..m + 1 : h[d] = RestsAt(d, Before(h, d))
    BY <2>3, <2>4, <2>5, Zenon
  <2>7. IsResting(m + 1, h)
    BY <2>3, <2>6, Zenon DEF IsResting
  <2> QED
    BY <2>1, <2>7
<1> HIDE DEF S
<1>3. S = Nat
  BY <1>1, <1>2, SetInduction DEF S
<1> QED
  BY <1>3 DEF S

LEMMA BoundRestsDef ==
    \A d \in 0..Depth : BoundRests[d] = RestsAt(d, Before(BoundRests, d))
<1> DEFINE f == CHOOSE g : IsResting(Depth, g)
<1>1. IsResting(Depth, f)
  BY RestingExists, TermsAssumption DEF Calls
<1>2. BoundRests = f
  BY Zenon DEF BoundRests, IsResting, Before
<1> HIDE DEF f
<1> QED
  BY <1>1, <1>2, Zenon DEF IsResting

-----------------------------------------------------------------------------
(* What values, patterns and compiled patterns are.                        *)

LEMMA SimpleKind ==
    ASSUME NEW v \in Simple
    PROVE  v.k \in {"num", "atom"}
BY DEF Simple

\* A value is simple, or made of values one less deep.
LEMMA ValueKind ==
    ASSUME NEW d \in 0..Depth, NEW v \in ValueType[d]
    PROVE  \/ v \in Simple
           \/ /\ d \in 1..Depth /\ d - 1 \in 0..Depth
              /\ v.k \in {"tuple", "list"}
              /\ v.ms \in Seq(ValueType[d - 1])
              /\ v = [k |-> v.k, ms |-> v.ms]
<1>1. ValueType[d] = ValueAt(d, Before(ValueType, d))
  BY ValueTypeDef
<1>2. d = 0 \/ (d \in 1..Depth /\ d - 1 \in 0..Depth /\ Before(ValueType, d) = ValueType[d - 1])
  BY TermsAssumption DEF Before
<1> QED
  BY <1>1, <1>2 DEF ValueAt

LEMMA ValueMade ==
    ASSUME NEW d \in 1..Depth, NEW kind \in {"tuple", "list"}, NEW ms \in Seq(ValueType[d - 1])
    PROVE  [k |-> kind, ms |-> ms] \in ValueType[d]
<1>1. d \in 0..Depth /\ d # 0
  OBVIOUS
<1>2. ValueType[d] = ValueAt(d, ValueType[d - 1])
  BY <1>1, ValueTypeDef DEF Before
<1> QED
  BY <1>1, <1>2 DEF ValueAt

LEMMA SimpleValue ==
    ASSUME NEW d \in 0..Depth
    PROVE  Simple \subseteq ValueType[d]
BY ValueTypeDef DEF ValueAt

LEMMA SeqSubset ==
    ASSUME NEW S, NEW T, S \subseteq T
    PROVE  Seq(S) \subseteq Seq(T)
<1> SUFFICES ASSUME NEW s \in Seq(S) PROVE s \in Seq(T)
  OBVIOUS
<1>1. s \in [1..Len(s) -> S] /\ Len(s) \in Nat
  OBVIOUS
<1>2. s \in [1..Len(s) -> T]
  BY <1>1
<1> QED
  BY <1>1, <1>2

\* What nests less deep also nests at most that deep.
LEMMA ValuesGrow ==
    ASSUME NEW d \in 0..Depth
    PROVE  ValueType[d] \subseteq ValueType[Depth]
<1> DEFINE S == {n \in Nat : n + 1 \in 0..Depth => ValueType[n] \subseteq ValueType[n + 1]}
<1>1. 0 \in S
  <2>1. ASSUME 1 \in 0..Depth PROVE ValueType[0] \subseteq ValueType[1]
    <3>1. 0 \in 0..Depth /\ 1 \in 0..Depth
      BY <2>1, TermsAssumption
    <3>2. ValueType[0] = Simple
      BY <3>1, ValueTypeDef DEF ValueAt
    <3> QED
      BY <3>1, <3>2, SimpleValue
  <2> QED
    BY <2>1
<1>2. ASSUME NEW n \in S PROVE n + 1 \in S
  <2>1. n \in Nat /\ n + 1 \in Nat
    OBVIOUS
  <2> SUFFICES ASSUME n + 2 \in 0..Depth PROVE ValueType[n + 1] \subseteq ValueType[n + 2]
    BY <2>1
  <2>2. n + 1 \in 1..Depth /\ n + 2 \in 1..Depth /\ (n + 1) - 1 = n /\ (n + 2) - 1 = n + 1
    BY <2>1, TermsAssumption
  <2>3. ValueType[n] \subseteq ValueType[n + 1]
    BY <2>1, <2>2
  <2>4. Seq(ValueType[n]) \subseteq Seq(ValueType[n + 1])
    BY <2>3, SeqSubset
  <2>5. ASSUME NEW v \in ValueType[n + 1] PROVE v \in ValueType[n + 2]
    <3>1. n + 1 \in 0..Depth /\ n + 2 \in 0..Depth
      BY <2>2
    <3>2. v \in Simple \/ (v.k \in {"tuple", "list"} /\ v.ms \in Seq(ValueType[n])
                          /\ v = [k |-> v.k, ms |-> v.ms])
      BY <3>1, <2>2, ValueKind
    <3>3. CASE v \in Simple
      BY <3>1, <3>3, SimpleValue
    <3>4. CASE v.k \in {"tuple", "list"} /\ v.ms \in Seq(ValueType[n])
               /\ v = [k |-> v.k, ms |-> v.ms]
      BY <3>4, <2>2, <2>4, ValueMade
    <3> QED
      BY <3>2, <3>3, <3>4
  <2> QED
    BY <2>5
<1>3. S = Nat
  <2> HIDE DEF S
  <2> QED
    BY <1>1, <1>2, SetInduction DEF S
<1> DEFINE T == {n \in Nat : d + n \in 0..Depth => ValueType[d] \subseteq ValueType[d + n]}
<1>4. 0 \in T
  OBVIOUS
<1>5. ASSUME NEW n \in T PROVE n + 1 \in T
  <2>1. n \in Nat /\ d + n \in Nat /\ (d + n) + 1 = d + (n + 1)
    OBVIOUS
  <2> SUFFICES ASSUME d + (n + 1) \in 0..Depth PROVE ValueType[d] \subseteq ValueType[d + (n + 1)]
    BY <2>1
  <2>2. d + n \in 0..Depth
    BY <2>1, TermsAssumption
  <2>3. ValueType[d] \subseteq ValueType[d + n]
    BY <2>1, <2>2
  <2>4. d + n \in S
    BY <2>1, <1>3
  <2>5. ValueType[d + n] \subseteq ValueType[d + (n + 1)]
    BY <2>1, <2>4
  <2> QED
    BY <2>3, <2>5
<1>6. T = Nat
  <2> HIDE DEF T
  <2> QED
    BY <1>4, <1>5, SetInduction DEF T
<1>7. Depth - d \in Nat /\ d + (Depth - d) = Depth /\ Depth \in 0..Depth
  BY TermsAssumption
<1>8. Depth - d \in T
  BY <1>6, <1>7, Zenon
<1> QED
  BY <1>7, <1>8

\* The same of compiled patterns.
LEMMA CompiledKind ==
    ASSUME NEW d \in 0..Depth, NEW p \in CompiledType[d]
    PROVE  \/ p \in Simple
           \/ p \in [k : {"any", "var"}, reg : Nat, range : BOOLEAN]
           \/ /\ d \in 1..Depth /\ d - 1 \in 0..Depth
              /\ p.k \in {"tuple", "list"}
              /\ p.ms \in Seq(CompiledType[d - 1])
              /\ p = [k |-> p.k, ms |-> p.ms]
<1>1. CompiledType[d] = CompiledAt(d, Before(CompiledType, d))
  BY CompiledTypeDef
<1>2. d = 0 \/ (d \in 1..Depth /\ d - 1 \in 0..Depth
                 /\ Before(CompiledType, d) = CompiledType[d - 1])
  BY TermsAssumption DEF Before
<1> QED
  BY <1>1, <1>2 DEF CompiledAt

LEMMA CompiledMade ==
    ASSUME NEW d \in 1..Depth, NEW kind \in {"tuple", "list"}, NEW ms \in Seq(CompiledType[d - 1])
    PROVE  [k |-> kind, ms |-> ms] \in CompiledType[d]
<1>1. d \in 0..Depth /\ d # 0
  OBVIOUS
<1>2. CompiledType[d] = CompiledAt(d, CompiledType[d - 1])
  BY <1>1, CompiledTypeDef DEF Before
<1> QED
  BY <1>1, <1>2 DEF CompiledAt

LEMMA CompiledLeaf ==
    ASSUME NEW d \in 0..Depth
    PROVE  /\ Simple \subseteq CompiledType[d]
           /\ [k : {"any", "var"}, reg : Nat, range : BOOLEAN] \subseteq CompiledType[d]
BY CompiledTypeDef DEF CompiledAt

LEMMA CompiledGrow ==
    ASSUME NEW d \in 0..Depth
    PROVE  CompiledType[d] \subseteq CompiledType[Depth]
<1> DEFINE S == {n \in Nat : n + 1 \in 0..Depth => CompiledType[n] \subseteq CompiledType[n + 1]}
<1>1. 0 \in S
  <2>1. ASSUME 1 \in 0..Depth PROVE CompiledType[0] \subseteq CompiledType[1]
    <3>1. 0 \in 0..Depth /\ 1 \in 0..Depth
      BY <2>1, TermsAssumption
    <3>2. CompiledType[0] = Simple \cup [k : {"any", "var"}, reg : Nat, range : BOOLEAN]
      BY <3>1, CompiledTypeDef DEF CompiledAt
    <3> QED
      BY <3>1, <3>2, CompiledLeaf
  <2> QED
    BY <2>1
<1>2. ASSUME NEW n \in S PROVE n + 1 \in S
  <2>1. n \in Nat /\ n + 1 \in Nat
    OBVIOUS
  <2> SUFFICES ASSUME n + 2 \in 0..Depth PROVE CompiledType[n + 1] \subseteq CompiledType[n + 2]
    BY <2>1
  <2>2. n + 1 \in 1..Depth /\ n + 2 \in 1..Depth /\ (n + 1) - 1 = n /\ (n + 2) - 1 = n + 1
    BY <2>1, TermsAssumption
  <2>3. CompiledType[n] \subseteq CompiledType[n + 1]
    BY <2>1, <2>2
  <2>4. Seq(CompiledType[n]) \subseteq Seq(CompiledType[n + 1])
    BY <2>3, SeqSubset
  <2>5. ASSUME NEW v \in CompiledType[n + 1] PROVE v \in CompiledType[n + 2]
    <3>1. n + 1 \in 0..Depth /\ n + 2 \in 0..Depth
      BY <2>2
    <3>2. v \in Simple \/ v \in [k : {"any", "var"}, reg : Nat, range : BOOLEAN]
          \/ (v.k \in {"tuple", "list"} /\ v.ms \in Seq(CompiledType[n])
              /\ v = [k |-> v.k, ms |-> v.ms])
      BY <3>1, <2>2, CompiledKind
    <3>3. CASE v \in Simple \/ v \in [k : {"any", "var"}, reg : Nat, range : BOOLEAN]
      BY <3>1, <3>3, CompiledLeaf
    <3>4. CASE v.k \in {"tuple", "list"} /\ v.ms \in Seq(CompiledType[n])
               /\ v = [k |-> v.k, ms |-> v.ms]
      BY <3>4, <2>2, <2>4, CompiledMade
    <3> QED
      BY <3>2, <3>3, <3>4
  <2> QED
    BY <2>5
<1>3. S = Nat
  <2> HIDE DEF S
  <2> QED
    BY <1>1, <1>2, SetInduction DEF S
<1> DEFINE T == {n \in Nat : d + n \in 0..Depth => CompiledType[d] \subseteq CompiledType[d + n]}
<1>4. 0 \in T
  OBVIOUS
<1>5. ASSUME NEW n \in T PROVE n + 1 \in T
  <2>1. n \in Nat /\ d + n \in Nat /\ (d + n) + 1 = d + (n + 1)
    OBVIOUS
  <2> SUFFICES ASSUME d + (n + 1) \in 0..Depth PROVE CompiledType[d] \subseteq CompiledType[d + (n + 1)]
    BY <2>1
  <2>2. d + n \in 0..Depth
    BY <2>1, TermsAssumption
  <2>3. CompiledType[d] \subseteq CompiledType[d + n]
    BY <2>1, <2>2
  <2>4. d + n \in S
    BY <2>1, <1>3
  <2>5. CompiledType[d + n] \subseteq CompiledType[d + (n + 1)]
    BY <2>1, <2>4
  <2> QED
    BY <2>3, <2>5
<1>6. T = Nat
  <2> HIDE DEF T
  <2> QED
    BY <1>4, <1>5, SetInduction DEF T
<1>7. Depth - d \in Nat /\ d + (Depth - d) = Depth /\ Depth \in 0..Depth
  BY TermsAssumption
<1>8. Depth - d \in T
  BY <1>6, <1>7, Zenon
<1> QED
  BY <1>7, <1>8

\* A value is also a pattern: match compares with what is in a register.
LEMMA ValuesCompiled ==
    ASSUME NEW d \in 0..Depth
    PROVE  ValueType[d] \subseteq CompiledType[d]
<1> DEFINE S == {n \in Nat : n \in 0..Depth => ValueType[n] \subseteq CompiledType[n]}
<1>1. 0 \in S
  <2>1. 0 \in 0..Depth
    BY TermsAssumption
  <2>2. ValueType[0] = Simple
    BY <2>1, ValueTypeDef DEF ValueAt
  <2> QED
    BY <2>1, <2>2, CompiledLeaf
<1>2. ASSUME NEW n \in S PROVE n + 1 \in S
  <2>1. n \in Nat /\ n + 1 \in Nat /\ (n + 1) - 1 = n
    OBVIOUS
  <2> SUFFICES ASSUME n + 1 \in 0..Depth PROVE ValueType[n + 1] \subseteq CompiledType[n + 1]
    BY <2>1
  <2>2. n + 1 \in 1..Depth /\ n \in 0..Depth
    BY <2>1, TermsAssumption
  <2>3. Seq(ValueType[n]) \subseteq Seq(CompiledType[n])
    BY <2>1, <2>2, SeqSubset
  <2>4. ASSUME NEW v \in ValueType[n + 1] PROVE v \in CompiledType[n + 1]
    <3>1. v \in Simple \/ (v.k \in {"tuple", "list"} /\ v.ms \in Seq(ValueType[n])
                          /\ v = [k |-> v.k, ms |-> v.ms])
      BY <2>1, <2>2, ValueKind
    <3>2. CASE v \in Simple
      BY <3>2, CompiledLeaf
    <3>3. CASE v.k \in {"tuple", "list"} /\ v.ms \in Seq(ValueType[n])
               /\ v = [k |-> v.k, ms |-> v.ms]
      BY <3>3, <2>1, <2>2, <2>3, CompiledMade
    <3> QED
      BY <3>1, <3>2, <3>3
  <2> QED
    BY <2>4
<1>3. S = Nat
  <2> HIDE DEF S
  <2> QED
    BY <1>1, <1>2, SetInduction DEF S
<1> QED
  BY <1>3

\* A source pattern.
LEMMA PatternKind ==
    ASSUME NEW d \in 0..Depth, NEW p \in PatternType[d]
    PROVE  \/ p \in Simple
           \/ p \in [k : {"ident", "rest"}, x : Names]
           \/ /\ d \in 1..Depth /\ d - 1 \in 0..Depth
              /\ p.ms \in Seq(PatternType[d - 1])
              /\ p = [k |-> p.k, ms |-> p.ms]
              /\ \/ p.k = "tuple" /\ RestNever(p.ms)
                 \/ p.k = "list" /\ RestLast(p.ms)
<1>1. PatternType[d] = PatternAt(d, Before(PatternType, d))
  BY PatternTypeDef
<1>2. d = 0 \/ (d \in 1..Depth /\ d - 1 \in 0..Depth
                 /\ Before(PatternType, d) = PatternType[d - 1])
  BY TermsAssumption DEF Before
<1> QED
  BY <1>1, <1>2 DEF PatternAt

-----------------------------------------------------------------------------
(* The loops over the members of a tuple or a list, step by step.          *)

\* One round of the loop of match_tuple and match_list; rd gives what match
\* makes of the members.
MatchRound(rd, ps, vs, at, i, r) ==
    LET m == rd[r.mem][Member(r.mem, ps[i])][Member(r.mem, vs[i])][at + r.n]
    IN IF r.n = -1 THEN r ELSE Matched(IF m.n = -1 THEN -1 ELSE r.n + m.n, m.mem)

IsMatchLoop(rd, M, ps, vs, n, at, s) ==
    s = [i \in 0..n |-> IF i = 0 THEN Matched(0, M) ELSE MatchRound(rd, ps, vs, at, i, s[i - 1])]

LEMMA MatchLoopExists ==
    ASSUME NEW rd, NEW M, NEW ps, NEW vs, NEW n \in Nat, NEW at
    PROVE  \E s : IsMatchLoop(rd, M, ps, vs, n, at, s)
<1> DEFINE S == {m \in Nat : \E s : IsMatchLoop(rd, M, ps, vs, m, at, s)}
<1>1. 0 \in S
  <2>1. IsMatchLoop(rd, M, ps, vs, 0, at, [i \in 0..0 |-> Matched(0, M)])
    BY DEF IsMatchLoop
  <2> QED
    BY <2>1
<1>2. ASSUME NEW m \in S PROVE m + 1 \in S
  <2>1. m \in Nat /\ \E s : IsMatchLoop(rd, M, ps, vs, m, at, s)
    OBVIOUS
  <2>2. PICK s : IsMatchLoop(rd, M, ps, vs, m, at, s)
    BY <2>1
  <2> DEFINE e == MatchRound(rd, ps, vs, at, m + 1, s[m])
             h == Longer(m, s, e)
  <2> HIDE DEF e
  <2>3. /\ h = [i \in 0..m + 1 |-> h[i]]
        /\ h[m + 1] = e
        /\ \A i \in 0..m : h[i] = s[i]
    BY <2>1, LongerFacts
  <2> HIDE DEF h
  <2> USE DEF e
  <2>4. \A i \in 0..m : s[i] = IF i = 0 THEN Matched(0, M)
                               ELSE MatchRound(rd, ps, vs, at, i, s[i - 1])
    BY <2>2 DEF IsMatchLoop
  <2>5. m + 1 # 0 /\ (m + 1) - 1 = m /\ m \in 0..m
    BY <2>1
  <2>6. h[m + 1] = IF m + 1 = 0 THEN Matched(0, M)
                   ELSE MatchRound(rd, ps, vs, at, m + 1, h[(m + 1) - 1])
    BY <2>3, <2>5, Zenon
  <2>7. \A i \in 0..m : i = 0 \/ i - 1 \in 0..m
    BY <2>1
  <2>8. \A i \in 0..m + 1 : i \in 0..m \/ i = m + 1
    BY <2>1
  <2>9. \A i \in 0..m + 1 : h[i] = IF i = 0 THEN Matched(0, M)
                                   ELSE MatchRound(rd, ps, vs, at, i, h[i - 1])
    BY <2>3, <2>4, <2>6, <2>7, <2>8, Zenon
  <2>10. IsMatchLoop(rd, M, ps, vs, m + 1, at, h)
    BY <2>3, <2>9, Zenon DEF IsMatchLoop
  <2> QED
    BY <2>1, <2>10
<1> HIDE DEF S
<1>3. S = Nat
  BY <1>1, <1>2, SetInduction DEF S
<1> QED
  BY <1>3 DEF S

\* What the loop comes to after n members.
MembersBy(rd, M, ps, vs, n, at) ==
    MatchMembers(M, ps, vs, n, at, LAMBDA m, q, w, i : rd[m][q][w][i])

MatchRounds(rd, M, ps, vs, n, at, s) ==
    /\ s[0] = Matched(0, M)
    /\ \A i \in 1..n : s[i] = MatchRound(rd, ps, vs, at, i, s[i - 1])
    /\ MembersBy(rd, M, ps, vs, n, at) = s[n]

LEMMA MatchLoop ==
    ASSUME NEW rd, NEW M, NEW ps, NEW vs, NEW n \in Nat, NEW at
    PROVE  \E s : MatchRounds(rd, M, ps, vs, n, at, s)
<1> DEFINE s == CHOOSE g : IsMatchLoop(rd, M, ps, vs, n, at, g)
<1>1. IsMatchLoop(rd, M, ps, vs, n, at, s)
  BY MatchLoopExists
<1>2. MembersBy(rd, M, ps, vs, n, at) = s[n]
  BY Zenon DEF MembersBy, MatchMembers, IsMatchLoop, MatchRound
<1> HIDE DEF s
<1>3. 0 \in 0..n /\ \A i \in 1..n : i \in 0..n /\ i # 0
  OBVIOUS
<1>4. \A i \in 0..n : s[i] = IF i = 0 THEN Matched(0, M)
                             ELSE MatchRound(rd, ps, vs, at, i, s[i - 1])
  BY <1>1 DEF IsMatchLoop
<1>5. s[0] = Matched(0, M) /\ \A i \in 1..n : s[i] = MatchRound(rd, ps, vs, at, i, s[i - 1])
  BY <1>3, <1>4, Zenon
<1> QED
  BY <1>2, <1>5, Zenon DEF MatchRounds

\* One round of gen_pattern's loop.
GenRound(rd, ps, i, r) ==
    LET g == rd[ps[i]][DOMAIN r.sc][r.sc][r.next]
    IN [pats |-> Append(r.pats, g.pat), sc |-> g.sc, next |-> g.next]

IsGenLoop(rd, ps, sc, next, n, s) ==
    s = [i \in 0..n |-> IF i = 0 THEN [pats |-> <<>>, sc |-> sc, next |-> next]
                        ELSE GenRound(rd, ps, i, s[i - 1])]

LEMMA GenLoopExists ==
    ASSUME NEW rd, NEW ps, NEW sc, NEW next, NEW n \in Nat
    PROVE  \E s : IsGenLoop(rd, ps, sc, next, n, s)
<1> DEFINE S == {m \in Nat : \E s : IsGenLoop(rd, ps, sc, next, m, s)}
<1>1. 0 \in S
  <2>1. IsGenLoop(rd, ps, sc, next, 0, [i \in 0..0 |-> [pats |-> <<>>, sc |-> sc, next |-> next]])
    BY DEF IsGenLoop
  <2> QED
    BY <2>1
<1>2. ASSUME NEW m \in S PROVE m + 1 \in S
  <2>1. m \in Nat /\ \E s : IsGenLoop(rd, ps, sc, next, m, s)
    OBVIOUS
  <2>2. PICK s : IsGenLoop(rd, ps, sc, next, m, s)
    BY <2>1
  <2> DEFINE e == GenRound(rd, ps, m + 1, s[m])
             h == Longer(m, s, e)
             z == [pats |-> <<>>, sc |-> sc, next |-> next]
  <2> HIDE DEF e
  <2>3. /\ h = [i \in 0..m + 1 |-> h[i]]
        /\ h[m + 1] = e
        /\ \A i \in 0..m : h[i] = s[i]
    BY <2>1, LongerFacts
  <2> HIDE DEF h
  <2> USE DEF e
  <2>4. \A i \in 0..m : s[i] = IF i = 0 THEN z ELSE GenRound(rd, ps, i, s[i - 1])
    BY <2>2 DEF IsGenLoop
  <2>5. m + 1 # 0 /\ (m + 1) - 1 = m /\ m \in 0..m
    BY <2>1
  <2>6. h[m + 1] = IF m + 1 = 0 THEN z ELSE GenRound(rd, ps, m + 1, h[(m + 1) - 1])
    BY <2>3, <2>5, Zenon
  <2>7. \A i \in 0..m : i = 0 \/ i - 1 \in 0..m
    BY <2>1
  <2>8. \A i \in 0..m + 1 : i \in 0..m \/ i = m + 1
    BY <2>1
  <2>9. \A i \in 0..m + 1 : h[i] = IF i = 0 THEN z ELSE GenRound(rd, ps, i, h[i - 1])
    BY <2>3, <2>4, <2>6, <2>7, <2>8, Zenon
  <2>10. IsGenLoop(rd, ps, sc, next, m + 1, h)
    BY <2>3, <2>9, Zenon DEF IsGenLoop
  <2> QED
    BY <2>1, <2>10
<1> HIDE DEF S
<1>3. S = Nat
  BY <1>1, <1>2, SetInduction DEF S
<1> QED
  BY <1>3 DEF S

GenMembersBy(rd, ps, sc, next) ==
    GenPatternMembers(ps, sc, next, LAMBDA q, s, n : rd[q][DOMAIN s][s][n])

GenRounds(rd, ps, sc, next, s) ==
    /\ s[0] = [pats |-> <<>>, sc |-> sc, next |-> next]
    /\ \A i \in 1..Len(ps) : s[i] = GenRound(rd, ps, i, s[i - 1])
    /\ GenMembersBy(rd, ps, sc, next) = s[Len(ps)]

LEMMA GenLoop ==
    ASSUME NEW rd, NEW ps, NEW sc, NEW next, Len(ps) \in Nat
    PROVE  \E s : GenRounds(rd, ps, sc, next, s)
<1> DEFINE s == CHOOSE g : IsGenLoop(rd, ps, sc, next, Len(ps), g)
           z == [pats |-> <<>>, sc |-> sc, next |-> next]
<1>1. IsGenLoop(rd, ps, sc, next, Len(ps), s)
  BY GenLoopExists
<1>2. GenMembersBy(rd, ps, sc, next) = s[Len(ps)]
  BY Zenon DEF GenMembersBy, GenPatternMembers, IsGenLoop, GenRound
<1> HIDE DEF s
<1>3. 0 \in 0..Len(ps) /\ \A i \in 1..Len(ps) : i \in 0..Len(ps) /\ i # 0
  OBVIOUS
<1>4. \A i \in 0..Len(ps) : s[i] = IF i = 0 THEN z ELSE GenRound(rd, ps, i, s[i - 1])
  BY <1>1 DEF IsGenLoop
<1>5. s[0] = z /\ \A i \in 1..Len(ps) : s[i] = GenRound(rd, ps, i, s[i - 1])
  BY <1>3, <1>4, Zenon
<1> QED
  BY <1>2, <1>5, Zenon DEF GenRounds

-----------------------------------------------------------------------------
(* What match does with each kind of pattern.                              *)

MatchIn(f, M, p, v, at) == Matches[f][M][p][v][at]

LEMMA MatchStep ==
    ASSUME NEW f \in 0..Calls, NEW M \in Memories, NEW p \in CompiledType[Depth] \cup {Unset},
           NEW v \in ValueType[Depth], NEW at \in Nat
    PROVE  MatchIn(f, M, p, v, at) = MatchOne(Before(Matches, f), M, p, v, at)
<1>1. Matches[f] = MatchBy(Before(Matches, f))
  BY MatchesDef
<1> QED
  BY <1>1 DEF MatchIn, MatchBy

LEMMA MatchAny ==
    ASSUME NEW f \in 0..Calls, NEW M \in Memories, NEW p \in CompiledType[Depth],
           NEW v \in ValueType[Depth], NEW at \in Nat, p.k = "any"
    PROVE  MatchIn(f, M, p, v, at) = Matched(1, Store(M, at, v))
<1>1. MatchIn(f, M, p, v, at) = MatchOne(Before(Matches, f), M, p, v, at)
  BY MatchStep
<1>2. p.k \notin {"tuple", "list", "var"}
  OBVIOUS
<1> QED
  BY <1>1, <1>2 DEF MatchOne, MatchTerm

\* match calls itself with one call less.
Inner(f) == Before(Matches, f)

LEMMA InnerIs ==
    ASSUME NEW f \in 1..Calls
    PROVE  /\ f - 1 \in 0..Calls
           /\ \A M, p, v, at : Inner(f)[M][p][v][at] = MatchIn(f - 1, M, p, v, at)
BY TermsAssumption DEF Calls, Inner, Before, MatchIn

LEMMA MatchVar ==
    ASSUME NEW f \in 0..Calls, NEW M \in Memories, NEW p \in CompiledType[Depth],
           NEW v \in ValueType[Depth], NEW at \in Nat, p.k = "var", p.reg \in Nat
    PROVE  MatchIn(f, M, p, v, at) = Inner(f)[M][Slot(M, p.reg)][v][at]
<1>1. MatchIn(f, M, p, v, at) = MatchOne(Inner(f), M, p, v, at)
  BY MatchStep DEF Inner
<1>2. p.k \notin {"tuple", "list", "any"} /\ 0 + p.reg = p.reg
  OBVIOUS
<1> QED
  BY <1>1, <1>2 DEF MatchOne, MatchTerm

LEMMA MatchKinds ==
    ASSUME NEW f \in 0..Calls, NEW M \in Memories, NEW p \in CompiledType[Depth] \cup {Unset},
           NEW v \in ValueType[Depth], NEW at \in Nat, p.k \notin {"any", "var"}, p.k # v.k
    PROVE  MatchIn(f, M, p, v, at) = Mismatch(M)
<1>1. MatchIn(f, M, p, v, at) = MatchOne(Before(Matches, f), M, p, v, at)
  BY MatchStep
<1>2. ~(p.k = "any") /\ ~(p.k = "var") /\ ~(p.k = "tuple" /\ v.k = "tuple")
      /\ ~(p.k = "list" /\ v.k = "list")
  OBVIOUS
<1> QED
  BY <1>1, <1>2 DEF MatchOne, MatchTerm

LEMMA MatchSimple ==
    ASSUME NEW f \in 0..Calls, NEW M \in Memories, NEW p \in Simple,
           NEW v \in ValueType[Depth], NEW at \in Nat
    PROVE  MatchIn(f, M, p, v, at) = IF p = v THEN Matched(0, M) ELSE Mismatch(M)
<1>1. p.k \in {"num", "atom"} /\ p \in CompiledType[Depth]
  BY SimpleKind, CompiledLeaf, TermsAssumption
<1>2. CASE p.k # v.k
  BY <1>1, <1>2, MatchKinds
<1>3. CASE p.k = v.k
  <2>1. MatchIn(f, M, p, v, at) = MatchOne(Before(Matches, f), M, p, v, at)
    BY <1>1, MatchStep
  <2>2. ~(p.k = "any") /\ ~(p.k = "var") /\ ~(p.k = "tuple" /\ v.k = "tuple")
        /\ ~(p.k = "list" /\ v.k = "list")
    BY <1>1
  <2> QED
    BY <1>3, <2>1, <2>2 DEF MatchOne, MatchTerm
<1> QED
  BY <1>2, <1>3

LEMMA MatchTuples ==
    ASSUME NEW f \in 0..Calls, NEW M \in Memories, NEW p \in CompiledType[Depth],
           NEW v \in ValueType[Depth], NEW at \in Nat, p.k = "tuple", v.k = "tuple"
    PROVE  MatchIn(f, M, p, v, at) =
             IF Len(p.ms) # Len(v.ms) THEN Mismatch(M)
             ELSE MembersBy(Inner(f), M, p.ms, v.ms, Len(p.ms), at)
<1>1. MatchIn(f, M, p, v, at) = MatchOne(Inner(f), M, p, v, at)
  BY MatchStep DEF Inner
<1>2. MatchOne(Inner(f), M, p, v, at)
        = MatchTuple(M, p.ms, v.ms, at, LAMBDA m, q, w, i : Inner(f)[m][q][w][i])
  BY DEF MatchOne, MatchTerm
<1> QED
  BY <1>1, <1>2, Zenon DEF MatchTuple, MembersBy

\* For a list there are the members that are not the rest, and what is left.
ListBy(rd, M, ps, vs, at) ==
    LET q == Plain(ps)
        n == IF q <= Len(vs) THEN q ELSE Len(vs)
        r == MembersBy(rd, M, ps, vs, n, at)
        m == rd[r.mem][ps[q + 1]][List(SubSeq(vs, q + 1, Len(vs)))][at + r.n]
    IN IF r.n = -1 THEN r
       ELSE IF q < Len(ps) /\ q <= Len(vs) THEN Matched(r.n + m.n, m.mem)
       ELSE IF EndsTogether(ps, vs) THEN r ELSE Mismatch(r.mem)

LEMMA MatchLists ==
    ASSUME NEW f \in 0..Calls, NEW M \in Memories, NEW p \in CompiledType[Depth],
           NEW v \in ValueType[Depth], NEW at \in Nat, p.k = "list", v.k = "list"
    PROVE  MatchIn(f, M, p, v, at) = ListBy(Inner(f), M, p.ms, v.ms, at)
<1>1. MatchIn(f, M, p, v, at) = MatchOne(Inner(f), M, p, v, at)
  BY MatchStep DEF Inner
<1>2. MatchOne(Inner(f), M, p, v, at)
        = MatchList(M, p.ms, v.ms, at, LAMBDA m, q, w, i : Inner(f)[m][q][w][i])
  BY DEF MatchOne, MatchTerm
<1> QED
  BY <1>1, <1>2, Zenon DEF MatchList, ListBy, MembersBy

\* A list's pattern without a range,
LEMMA ListNoRest ==
    ASSUME NEW rd, NEW M, NEW ps, NEW vs, NEW at, NEW n,
           Len(ps) \in Nat, Len(vs) \in Nat, Plain(ps) = Len(ps),
           n = IF Len(ps) <= Len(vs) THEN Len(ps) ELSE Len(vs)
    PROVE  LET r == MembersBy(rd, M, ps, vs, n, at)
           IN ListBy(rd, M, ps, vs, at) = IF r.n = -1 THEN r
                                          ELSE IF Len(vs) = Len(ps) THEN r ELSE Mismatch(r.mem)
<1>1. ~(Len(ps) < Len(ps))
  OBVIOUS
<1> QED
  BY <1>1, Zenon DEF ListBy, EndsTogether

\* and one that ends in a range.
LongList(rd, M, ps, vs, at, r, m) ==
    ListBy(rd, M, ps, vs, at) = IF r.n = -1 THEN r ELSE Matched(r.n + m.n, m.mem)

LEMMA ListLong ==
    ASSUME NEW rd, NEW M, NEW ps, NEW vs, NEW at, NEW q,
           Len(vs) \in Nat, q \in Nat, Plain(ps) = q, Len(ps) = q + 1, q <= Len(vs),
           NEW r, r = MembersBy(rd, M, ps, vs, q, at),
           NEW w, w = List(SubSeq(vs, q + 1, Len(vs))),
           NEW m, m = rd[r.mem][ps[q + 1]][w][at + r.n]
    PROVE  LongList(rd, M, ps, vs, at, r, m)
<1>1. q < Len(ps)
  OBVIOUS
<1> QED
  BY <1>1, Zenon DEF ListBy, EndsTogether, LongList

LEMMA ListShort ==
    ASSUME NEW rd, NEW M, NEW ps, NEW vs, NEW at, NEW q,
           Len(vs) \in Nat, q \in Nat, Plain(ps) = q, Len(ps) = q + 1, ~(q <= Len(vs)),
           NEW r, r = MembersBy(rd, M, ps, vs, Len(vs), at)
    PROVE  ListBy(rd, M, ps, vs, at) = IF r.n = -1 THEN r ELSE Mismatch(r.mem)
<1>1. q < Len(ps) /\ ~(Len(vs) = Len(ps))
  OBVIOUS
<1> QED
  BY <1>1, Zenon DEF ListBy, EndsTogether

-----------------------------------------------------------------------------
(* A value as a pattern matches itself only.                               *)

\* Nothing of a value or of a pattern is a pointer.
LEMMA NoPointers ==
    ASSUME NEW d \in 0..Depth
    PROVE  /\ \A v \in ValueType[d] : v.k \in {"num", "atom", "tuple", "list"}
           /\ \A p \in CompiledType[d] : p.k \in {"num", "atom", "tuple", "list", "any", "var"}
<1>1. ASSUME NEW p \in CompiledType[d]
      PROVE  p.k \in {"num", "atom", "tuple", "list", "any", "var"}
  <2>1. CASE p \in Simple
    BY <2>1, SimpleKind
  <2>2. CASE p \in [k : {"any", "var"}, reg : Nat, range : BOOLEAN]
    BY <2>2
  <2>3. CASE p.k \in {"tuple", "list"}
    BY <2>3
  <2> QED
    BY <2>1, <2>2, <2>3, CompiledKind
<1>2. ASSUME NEW v \in ValueType[d]
      PROVE  v.k \in {"num", "atom", "tuple", "list"}
  <2>1. CASE v \in Simple
    BY <2>1, SimpleKind
  <2>2. CASE v.k \in {"tuple", "list"}
    BY <2>2
  <2> QED
    BY <2>1, <2>2, ValueKind
<1> QED
  BY <1>1, <1>2

\* The members of a value are values, and so is what is left of a list.
LEMMA ValueMembers ==
    ASSUME NEW v \in ValueType[Depth], v.k \in {"tuple", "list"}
    PROVE  /\ v.ms \in Seq(ValueType[Depth])
           /\ Len(v.ms) \in Nat
           /\ \A i \in 1..Len(v.ms) : v.ms[i] \in ValueType[Depth]
           /\ \A i \in 1..Len(v.ms) + 1 : List(SubSeq(v.ms, i, Len(v.ms))) \in ValueType[Depth]
<1>1. Depth \in 0..Depth
  BY TermsAssumption
<1>2. v \notin Simple
  BY SimpleKind
<1>3. Depth \in 1..Depth /\ Depth - 1 \in 0..Depth /\ v.ms \in Seq(ValueType[Depth - 1])
  BY <1>1, <1>2, ValueKind
<1>4. ValueType[Depth - 1] \subseteq ValueType[Depth]
  BY <1>3, ValuesGrow
<1>5. v.ms \in Seq(ValueType[Depth])
  BY <1>3, <1>4, SeqSubset
<1>6. ASSUME NEW i \in 1..Len(v.ms) + 1
      PROVE  List(SubSeq(v.ms, i, Len(v.ms))) \in ValueType[Depth]
  <2>1. SubSeq(v.ms, i, Len(v.ms)) \in Seq(ValueType[Depth - 1])
    <3>1. i \in Int /\ Len(v.ms) \in Int
          /\ \A j \in i..Len(v.ms) : v.ms[j] \in ValueType[Depth - 1]
      BY <1>3
    <3> QED
      BY <3>1, SubSeqProperties
  <2> QED
    BY <1>3, <2>1, ValueMade DEF List
<1> QED
  BY <1>5, <1>6

LEMMA RoundMissed ==
    ASSUME NEW rd, NEW ps, NEW vs, NEW at, NEW i, NEW r, r.n = -1
    PROVE  MatchRound(rd, ps, vs, at, i, r) = r
BY Zenon DEF MatchRound

Equal(w, v, M) == IF w = v THEN Matched(0, M) ELSE Mismatch(M)

Compares(rd, M, ps, vs, n) ==
    \A i \in 1..n : /\ ps[i].k # "ref" /\ vs[i].k # "ref"
                    /\ \A j \in Nat : rd[M][ps[i]][vs[i]][j] = Equal(ps[i], vs[i], M)

SameUpTo(ps, vs, n) == \A i \in 1..n : ps[i] = vs[i]

LEMMA EqualMembers ==
    ASSUME NEW rd, NEW M, NEW ps, NEW vs, NEW n \in Nat, NEW at \in Nat,
           Compares(rd, M, ps, vs, n)
    PROVE  MembersBy(rd, M, ps, vs, n, at) =
             IF SameUpTo(ps, vs, n) THEN Matched(0, M) ELSE Mismatch(M)
<1>1. PICK s : MatchRounds(rd, M, ps, vs, n, at, s)
  BY MatchLoop
<1> DEFINE Same(i) == SameUpTo(ps, vs, i)
           T == {i \in Nat : i \in 0..n => s[i] = IF Same(i) THEN Matched(0, M) ELSE Mismatch(M)}
<1>2. 0 \in T
  BY <1>1 DEF MatchRounds, SameUpTo
<1>3. ASSUME NEW i \in T PROVE i + 1 \in T
  <2>1. i \in Nat /\ i + 1 \in Nat /\ (i + 1) - 1 = i
    OBVIOUS
  <2> SUFFICES ASSUME i + 1 \in 0..n
               PROVE  s[i + 1] = IF Same(i + 1) THEN Matched(0, M) ELSE Mismatch(M)
    BY <2>1
  <2>2. i + 1 \in 1..n /\ i \in 0..n
    BY <2>1
  <2>3. s[i] = IF Same(i) THEN Matched(0, M) ELSE Mismatch(M)
    BY <2>1, <2>2
  <2>4. s[i + 1] = MatchRound(rd, ps, vs, at, i + 1, s[i])
    BY <1>1, <2>1, <2>2 DEF MatchRounds
  <2>5. Same(i + 1) <=> Same(i) /\ ps[i + 1] = vs[i + 1]
    <3>1. \A j \in 1..i + 1 : j \in 1..i \/ j = i + 1
      BY <2>1
    <3>2. i + 1 \in 1..i + 1 /\ \A j \in 1..i : j \in 1..i + 1
      BY <2>1
    <3> QED
      BY <3>1, <3>2 DEF SameUpTo
  <2> HIDE DEF Same, T
  <2>6. CASE Same(i)
    <3>1. s[i] = Matched(0, M) /\ s[i].n = 0 /\ s[i].mem = M /\ at + 0 \in Nat
      BY <2>3, <2>6 DEF Matched
    <3>2. rd[M][ps[i + 1]][vs[i + 1]][at + 0] = Equal(ps[i + 1], vs[i + 1], M)
      BY <2>2, <3>1 DEF Compares
    <3> DEFINE m == Equal(ps[i + 1], vs[i + 1], M)
    <3>3. s[i + 1] = Matched(IF m.n = -1 THEN -1 ELSE 0 + m.n, m.mem)
      <4>1. s[i].n # -1 /\ ps[i + 1].k # "ref" /\ vs[i + 1].k # "ref"
        BY <2>2, <3>1 DEF Compares
      <4> DEFINE k == rd[s[i].mem][ps[i + 1]][vs[i + 1]][at + s[i].n]
      <4>2. MatchRound(rd, ps, vs, at, i + 1, s[i])
              = Matched(IF k.n = -1 THEN -1 ELSE s[i].n + k.n, k.mem)
        BY <4>1, Zenon DEF MatchRound, Member
      <4>3. k = m
        BY <3>1, <3>2, Zenon
      <4> HIDE DEF k, m
      <4> QED
        BY <2>4, <3>1, <4>2, <4>3
    <3> QED
      BY <2>5, <2>6, <3>3 DEF Equal, Matched, Mismatch
  <2>7. CASE ~Same(i)
    <3>1. s[i] = Mismatch(M) /\ s[i].n = -1
      BY <2>3, <2>7 DEF Matched, Mismatch
    <3>2. s[i + 1] = s[i]
      BY <2>4, <3>1, RoundMissed
    <3> QED
      BY <2>5, <2>7, <3>1, <3>2
  <2> QED
    BY <2>6, <2>7
<1>4. T = Nat
  <2> HIDE DEF T
  <2> QED
    BY <1>2, <1>3, SetInduction DEF T
<1>5. n \in T /\ n \in 0..n
  BY <1>4
<1> QED
  BY <1>1, <1>5, Zenon DEF MatchRounds

\* How many members come before the first range.
LEMMA PlainAll ==
    ASSUME NEW ps, Len(ps) \in Nat, \A i \in 1..Len(ps) : ~IsRange(ps[i])
    PROVE  Plain(ps) = Len(ps)
<1> DEFINE Ok(q) == /\ q = Len(ps) \/ IsRange(ps[q + 1])
                    /\ \A i \in 1..q : ~IsRange(ps[i])
<1>1. Len(ps) \in 0..Len(ps) /\ Ok(Len(ps))
  OBVIOUS
<1>2. ASSUME NEW q \in 0..Len(ps), Ok(q) PROVE q = Len(ps)
  <2>1. q # Len(ps) => q + 1 \in 1..Len(ps)
    OBVIOUS
  <2> QED
    BY <1>2, <2>1
<1>3. Plain(ps) = CHOOSE q \in 0..Len(ps) : Ok(q)
  BY DEF Plain
<1> HIDE DEF Ok
<1> QED
  BY <1>1, <1>2, <1>3

LEMMA PlainButLast ==
    ASSUME NEW ps, Len(ps) \in Nat \ {0}, IsRange(ps[Len(ps)]),
           \A i \in 1..Len(ps) - 1 : ~IsRange(ps[i])
    PROVE  Plain(ps) = Len(ps) - 1
<1> DEFINE Ok(q) == /\ q = Len(ps) \/ IsRange(ps[q + 1])
                    /\ \A i \in 1..q : ~IsRange(ps[i])
<1>1. Len(ps) - 1 \in 0..Len(ps) /\ Ok(Len(ps) - 1)
  OBVIOUS
<1>2. ASSUME NEW q \in 0..Len(ps), Ok(q) PROVE q = Len(ps) - 1
  <2>1. q # Len(ps) /\ q # Len(ps) - 1 => q + 1 \in 1..Len(ps) - 1
    OBVIOUS
  <2>2. q = Len(ps) => Len(ps) \in 1..q
    OBVIOUS
  <2> QED
    BY <1>2, <2>1, <2>2
<1>3. Plain(ps) = CHOOSE q \in 0..Len(ps) : Ok(q)
  BY DEF Plain
<1> HIDE DEF Ok
<1> QED
  BY <1>1, <1>2, <1>3

LEMMA ValueMatch ==
    ASSUME NEW d \in 0..Depth, NEW w \in ValueType[d], NEW f \in d..Calls, NEW M \in Memories,
           NEW v \in ValueType[Depth], NEW at \in Nat
    PROVE  MatchIn(f, M, w, v, at) = Equal(w, v, M)
<1> DEFINE Right(n) == \A w1 \in ValueType[n] : \A f1 \in n..Calls : \A v1 \in ValueType[Depth] :
                         \A j \in Nat : MatchIn(f1, M, w1, v1, j) = Equal(w1, v1, M)
           S == {n \in Nat : n \in 0..Depth => Right(n)}
<1>1. ASSUME NEW n \in 0..Depth, NEW w1 \in Simple, NEW f1 \in n..Calls,
             NEW v1 \in ValueType[Depth], NEW j \in Nat
      PROVE  MatchIn(f1, M, w1, v1, j) = Equal(w1, v1, M)
  <2>1. f1 \in 0..Calls
    BY TermsAssumption DEF Calls
  <2> QED
    BY <2>1, MatchSimple DEF Equal
<1>2. 0 \in S
  <2>1. 0 \in 0..Depth
    BY TermsAssumption
  <2>2. ValueType[0] = Simple
    BY <2>1, ValueTypeDef DEF ValueAt
  <2>3. Right(0)
    BY <1>1, <2>1, <2>2
  <2> HIDE DEF Right
  <2> QED
    BY <2>3
<1>3. ASSUME NEW n \in S PROVE n + 1 \in S
  <2>1. n \in Nat /\ n + 1 \in Nat /\ (n + 1) - 1 = n
    OBVIOUS
  <2> SUFFICES ASSUME n + 1 \in 0..Depth, NEW w1 \in ValueType[n + 1], NEW f1 \in n + 1..Calls,
                      NEW v1 \in ValueType[Depth], NEW j \in Nat
               PROVE  MatchIn(f1, M, w1, v1, j) = Equal(w1, v1, M)
    BY <2>1
  <2>2. /\ n \in 0..Depth /\ n + 1 \in 0..Depth
        /\ f1 \in 0..Calls /\ f1 \in 1..Calls /\ f1 - 1 \in n..Calls
    BY <2>1, TermsAssumption DEF Calls
  <2>3. Right(n)
    BY <2>2
  <2> DEFINE rd == Inner(f1)
  <2> HIDE DEF Right, S, rd
  <2>4. CASE w1 \in Simple
    BY <1>1, <2>2, <2>4
  <2>5. CASE /\ w1.k \in {"tuple", "list"} /\ w1.ms \in Seq(ValueType[n])
             /\ w1 = [k |-> w1.k, ms |-> w1.ms]
    <3>1. w1 \in CompiledType[Depth]
      BY <2>2, ValuesGrow, ValuesCompiled, TermsAssumption
    <3>2. CASE w1.k # v1.k
      BY <2>2, <2>5, <3>1, <3>2, MatchKinds DEF Equal
    <3>3. CASE w1.k = v1.k
      <4>1. v1.k \in {"tuple", "list"} /\ v1.ms \in Seq(ValueType[Depth])
            /\ v1 = [k |-> v1.k, ms |-> v1.ms]
        <5>1. v1 \notin Simple /\ Depth \in 0..Depth
          BY <2>5, <3>3, SimpleKind, TermsAssumption
        <5> QED
          BY <2>5, <3>3, <5>1, ValueKind, ValueMembers
      <4> DEFINE ps == w1.ms
                 vs == v1.ms
      <4>2. Len(ps) \in Nat /\ Len(vs) \in Nat
        BY <2>5, <4>1
      <4>3. w1 = v1 <=> ps = vs
        BY <2>5, <3>3, <4>1
      <4>4. ps = vs <=> Len(ps) = Len(vs) /\ \A i \in 1..Len(ps) : ps[i] = vs[i]
        BY <2>5, <4>1
      <4>5. ASSUME NEW q \in Nat, q <= Len(ps), q <= Len(vs)
            PROVE  MembersBy(rd, M, ps, vs, q, j) =
                     IF SameUpTo(ps, vs, q) THEN Matched(0, M) ELSE Mismatch(M)
        <5>1. ASSUME NEW i \in 1..q
              PROVE  /\ ps[i].k # "ref" /\ vs[i].k # "ref"
                     /\ \A l \in Nat : rd[M][ps[i]][vs[i]][l] = Equal(ps[i], vs[i], M)
          <6>1. ps[i] \in ValueType[n] /\ vs[i] \in ValueType[Depth]
            BY <2>5, <4>1, <4>2, <4>5
          <6>2. \A l \in Nat : MatchIn(f1 - 1, M, ps[i], vs[i], l) = Equal(ps[i], vs[i], M)
            BY <2>2, <2>3, <6>1 DEF Right
          <6>3. ps[i].k # "ref" /\ vs[i].k # "ref"
            BY <2>2, <6>1, NoPointers, TermsAssumption
          <6> QED
            BY <2>2, <6>2, <6>3, InnerIs DEF rd
        <5> HIDE DEF ps, vs
        <5>2. Compares(rd, M, ps, vs, q)
          BY <5>1 DEF Compares
        <5> QED
          BY <5>2, EqualMembers
      <4>6. CASE w1.k = "tuple"
        <5>1. MatchIn(f1, M, w1, v1, j) =
                IF Len(ps) # Len(vs) THEN Mismatch(M)
                ELSE MembersBy(rd, M, ps, vs, Len(ps), j)
          <6>1. f1 \in 0..Calls /\ w1.k = "tuple" /\ v1.k = "tuple"
            BY <2>2, <3>3, <4>6
          <6>2. MatchIn(f1, M, w1, v1, j) =
                  IF Len(w1.ms) # Len(v1.ms) THEN Mismatch(M)
                  ELSE MembersBy(Inner(f1), M, w1.ms, v1.ms, Len(w1.ms), j)
            BY <3>1, <6>1, MatchTuples, Zenon
          <6> QED
            BY <6>2, Zenon DEF rd
        <5> HIDE DEF ps, vs
        <5> QED
          BY <4>2, <4>3, <4>4, <4>5, <5>1 DEF Equal, SameUpTo
      <4>7. CASE w1.k = "list"
        <5>1. MatchIn(f1, M, w1, v1, j) = ListBy(rd, M, ps, vs, j)
          <6>1. f1 \in 0..Calls /\ w1.k = "list" /\ v1.k = "list"
            BY <2>2, <3>3, <4>7
          <6>2. MatchIn(f1, M, w1, v1, j) = ListBy(Inner(f1), M, w1.ms, v1.ms, j)
            BY <3>1, <6>1, MatchLists, Zenon
          <6> QED
            BY <6>2, Zenon DEF rd
        <5>2. Plain(ps) = Len(ps)
          <6>1. \A i \in 1..Len(ps) : ps[i] \in ValueType[n]
            BY <2>5
          <6>2. \A i \in 1..Len(ps) : ~IsRange(ps[i])
            BY <2>2, <6>1, NoPointers DEF IsRange
          <6> QED
            BY <4>2, <6>2, PlainAll
        <5> HIDE DEF ps, vs
        <5> DEFINE q == IF Len(ps) <= Len(vs) THEN Len(ps) ELSE Len(vs)
                   r == MembersBy(rd, M, ps, vs, q, j)
        <5>3. r = IF SameUpTo(ps, vs, q) THEN Matched(0, M) ELSE Mismatch(M)
          BY <4>2, <4>5
        <5>4. ListBy(rd, M, ps, vs, j) =
                IF r.n = -1 THEN r
                ELSE IF Len(vs) = Len(ps) THEN r ELSE Mismatch(r.mem)
          BY <4>2, <5>2, ListNoRest
        <5>5. Len(vs) = Len(ps) => q = Len(ps)
          BY <4>2
        <5> HIDE DEF q, r
        <5> QED
          BY <4>3, <4>4, <5>1, <5>3, <5>4, <5>5 DEF Equal, Matched, Mismatch, SameUpTo
      <4> QED
        BY <2>5, <4>6, <4>7
    <3> QED
      BY <3>2, <3>3
  <2> QED
    BY <2>1, <2>2, <2>4, <2>5, ValueKind
<1>4. S = Nat
  <2> HIDE DEF S
  <2> QED
    BY <1>2, <1>3, SetInduction DEF S
<1>5. Right(d)
  BY <1>4, TermsAssumption
<1> QED
  BY <1>5

-----------------------------------------------------------------------------
(* What gen_pattern makes of a pattern: its registers, in the order of its *)
(* new names.                                                              *)

GenIn(d, p, sc, next) == Gens[d][p][DOMAIN sc][sc][next]

IsScope(sc) == DOMAIN sc \subseteq Names /\ sc \in [DOMAIN sc -> Nat]

LEMMA GenStep ==
    ASSUME NEW d \in 0..Depth, NEW p \in PatternType[d], NEW sc, IsScope(sc), NEW next \in Nat
    PROVE  GenIn(d, p, sc, next) = GenOne(Before(Gens, d), p, sc, next)
<1>1. Gens[d] = GenAt(d, Before(Gens, d))
  BY GensDef
<1> QED
  BY <1>1 DEF GenIn, GenAt, IsScope

LEMMA GenSimple ==
    ASSUME NEW d \in 0..Depth, NEW p \in Simple, NEW sc, IsScope(sc), NEW next \in Nat
    PROVE  GenIn(d, p, sc, next) = [pat |-> p, sc |-> sc, next |-> next]
<1>1. p \in PatternType[d] /\ p.k \in {"num", "atom"}
  BY PatternTypeDef, SimpleKind DEF PatternAt
<1>2. GenIn(d, p, sc, next) = GenOne(Before(Gens, d), p, sc, next)
  BY <1>1, GenStep
<1> QED
  BY <1>1, <1>2 DEF GenOne, GenPatternTerm

LEMMA GenName ==
    ASSUME NEW d \in 0..Depth, NEW p \in PatternType[d], NEW sc, IsScope(sc), NEW next \in Nat,
           p.k \in {"ident", "rest"}
    PROVE  GenIn(d, p, sc, next) = GenPatternIdent(p.x, p.k = "rest", sc, next)
<1>1. GenIn(d, p, sc, next) = GenOne(Before(Gens, d), p, sc, next)
  BY GenStep
<1>2. CASE p.k = "ident"
  <2>1. (p.k = "rest") = FALSE
    BY <1>2
  <2>2. GenOne(Before(Gens, d), p, sc, next) = GenPatternIdent(p.x, FALSE, sc, next)
    BY <1>2 DEF GenOne, GenPatternTerm
  <2> QED
    BY <1>1, <2>1, <2>2
<1>3. CASE p.k = "rest"
  <2>1. (p.k = "rest") = TRUE
    BY <1>3
  <2>2. GenOne(Before(Gens, d), p, sc, next) = GenPatternIdent(p.x, TRUE, sc, next)
    BY <1>3 DEF GenOne, GenPatternTerm
  <2> QED
    BY <1>1, <2>1, <2>2
<1> QED
  BY <1>2, <1>3

LEMMA GenComposite ==
    ASSUME NEW d \in 0..Depth, NEW p \in PatternType[d], NEW sc, IsScope(sc), NEW next \in Nat,
           p.k \in {"tuple", "list"}
    PROVE  LET g == GenMembersBy(Before(Gens, d), p.ms, sc, next)
           IN GenIn(d, p, sc, next)
                = [pat |-> [k |-> p.k, ms |-> g.pats], sc |-> g.sc, next |-> g.next]
<1>1. GenIn(d, p, sc, next) = GenOne(Before(Gens, d), p, sc, next)
  BY GenStep
<1>2. ~(p.k = "ident") /\ ~(p.k = "rest")
  OBVIOUS
<1> QED
  BY <1>1, <1>2 DEF GenOne, GenPatternTerm, GenMembersBy

\* A scope and the ones that come of it: names are added, each with a register
\* of its own out of those counted, and as many are counted as names added.
Grown(sc, next, sc2, next2) ==
    /\ IsScope(sc2) /\ next2 \in Nat /\ next <= next2
    /\ DOMAIN sc \subseteq DOMAIN sc2
    /\ \A x \in DOMAIN sc : sc2[x] = sc[x]
    /\ \A x \in DOMAIN sc2 \ DOMAIN sc : sc2[x] \in next..next2 - 1
    /\ \A x, y \in DOMAIN sc2 \ DOMAIN sc : sc2[x] = sc2[y] => x = y
    /\ Cardinality(DOMAIN sc2) - Cardinality(DOMAIN sc) = next2 - next

LEMMA NamesFinite ==
    ASSUME NEW S, S \subseteq Names
    PROVE  /\ IsFiniteSet(S) /\ Cardinality(S) \in Nat
           /\ Cardinality(S) <= Cardinality(Names) /\ Cardinality(Names) \in Nat
BY TermsAssumption, FS_Subset, FS_CardinalityType

LEMMA GrownSame ==
    ASSUME NEW sc, IsScope(sc), NEW next \in Nat
    PROVE  Grown(sc, next, sc, next)
<1>1. Cardinality(DOMAIN sc) \in Nat
  BY NamesFinite DEF IsScope
<1> QED
  BY <1>1 DEF Grown

LEMMA GrownTwice ==
    ASSUME NEW sc, IsScope(sc), NEW next \in Nat,
           NEW sc2, NEW next2, Grown(sc, next, sc2, next2),
           NEW sc3, NEW next3, Grown(sc2, next2, sc3, next3)
    PROVE  Grown(sc, next, sc3, next3)
<1>1. /\ next2 \in Nat /\ next3 \in Nat /\ next <= next2 /\ next2 <= next3
      /\ IsScope(sc2) /\ IsScope(sc3)
      /\ DOMAIN sc \subseteq DOMAIN sc2 /\ DOMAIN sc2 \subseteq DOMAIN sc3
  BY DEF Grown
<1>2. \A x \in DOMAIN sc : sc3[x] = sc[x]
  BY <1>1 DEF Grown
<1>3. ASSUME NEW x \in DOMAIN sc3 \ DOMAIN sc PROVE sc3[x] \in next..next3 - 1
  <2>1. CASE x \in DOMAIN sc2
    <3>1. sc3[x] = sc2[x] /\ sc2[x] \in next..next2 - 1
      BY <2>1 DEF Grown
    <3> QED
      BY <1>1, <3>1
  <2>2. CASE x \notin DOMAIN sc2
    <3>1. sc3[x] \in next2..next3 - 1
      BY <2>2 DEF Grown
    <3> QED
      BY <1>1, <3>1
  <2> QED
    BY <2>1, <2>2
<1>4. Cardinality(DOMAIN sc3) - Cardinality(DOMAIN sc) = next3 - next
  <2>1. /\ Cardinality(DOMAIN sc) \in Nat /\ Cardinality(DOMAIN sc2) \in Nat
        /\ Cardinality(DOMAIN sc3) \in Nat
    BY <1>1, NamesFinite DEF IsScope
  <2>2. /\ Cardinality(DOMAIN sc2) - Cardinality(DOMAIN sc) = next2 - next
        /\ Cardinality(DOMAIN sc3) - Cardinality(DOMAIN sc2) = next3 - next2
    BY DEF Grown
  <2> QED
    BY <1>1, <2>1, <2>2
<1>5. ASSUME NEW x \in DOMAIN sc3 \ DOMAIN sc, NEW y \in DOMAIN sc3 \ DOMAIN sc, sc3[x] = sc3[y]
      PROVE  x = y
  <2>1. \A z \in DOMAIN sc2 \ DOMAIN sc : sc3[z] = sc2[z] /\ sc2[z] \in Nat /\ sc2[z] < next2
    BY <1>1 DEF Grown
  <2>2. \A z \in DOMAIN sc3 \ DOMAIN sc2 : sc3[z] \in Nat /\ next2 <= sc3[z]
    BY <1>1 DEF Grown
  <2>3. CASE x \in DOMAIN sc2 /\ y \in DOMAIN sc2
    <3>1. sc2[x] = sc2[y]
      BY <1>5, <2>1, <2>3
    <3> QED
      BY <2>3, <3>1 DEF Grown
  <2>4. CASE x \notin DOMAIN sc2 /\ y \notin DOMAIN sc2
    BY <1>5, <2>4 DEF Grown
  <2>5. CASE x \in DOMAIN sc2 /\ y \notin DOMAIN sc2
    BY <1>1, <1>5, <2>1, <2>2, <2>5
  <2>6. CASE x \notin DOMAIN sc2 /\ y \in DOMAIN sc2
    BY <1>1, <1>5, <2>1, <2>2, <2>6
  <2> QED
    BY <2>3, <2>4, <2>5, <2>6
<1> QED
  BY <1>1, <1>2, <1>3, <1>4, <1>5 DEF Grown

NameOk(x, range, sc, next) ==
    LET g == GenPatternIdent(x, range, sc, next)
    IN /\ Grown(sc, next, g.sc, g.next)
       /\ DOMAIN g.sc = DOMAIN sc \cup {x}
       /\ g.pat \in [k : {"any", "var"}, reg : Nat, range : BOOLEAN]
       /\ g.pat.range = range

LEMMA GrownByName ==
    ASSUME NEW sc, IsScope(sc), NEW next \in Nat, NEW x \in Names, NEW range \in BOOLEAN
    PROVE  NameOk(x, range, sc, next)
<1>1. CASE x \in DOMAIN sc
  <2>1. DOMAIN sc \cup {x} = DOMAIN sc /\ sc[x] \in Nat
    BY <1>1 DEF IsScope
  <2> QED
    BY <1>1, <2>1, GrownSame DEF GenPatternIdent, NameOk
<1>2. CASE x \notin DOMAIN sc
  <2> DEFINE sc2 == Bind(sc, x, next)
  <2>1. /\ DOMAIN sc2 = DOMAIN sc \cup {x} /\ sc2[x] = next
        /\ \A y \in DOMAIN sc : sc2[y] = sc[y]
        /\ sc2 = [y \in DOMAIN sc2 |-> sc2[y]]
    BY <1>2 DEF Bind
  <2> HIDE DEF sc2
  <2>2. IsScope(sc2)
    BY <2>1 DEF IsScope
  <2>3. Cardinality(DOMAIN sc2) - Cardinality(DOMAIN sc) = (next + 1) - next
    <3>1. IsFiniteSet(DOMAIN sc) /\ Cardinality(DOMAIN sc) \in Nat
      BY NamesFinite DEF IsScope
    <3>2. Cardinality(DOMAIN sc2) = Cardinality(DOMAIN sc) + 1
      BY <1>2, <2>1, <3>1, FS_AddElement
    <3> QED
      BY <3>1, <3>2
  <2>4. \A y \in DOMAIN sc2 \ DOMAIN sc : sc2[y] \in next..(next + 1) - 1
    BY <2>1
  <2>5. Grown(sc, next, sc2, next + 1)
    BY <2>1, <2>2, <2>3, <2>4 DEF Grown
  <2>6. GenPatternIdent(x, range, sc, next)
          = [pat |-> [k |-> "any", reg |-> next, range |-> range], sc |-> sc2, next |-> next + 1]
    BY <1>2 DEF GenPatternIdent, sc2
  <2> QED
    BY <2>1, <2>5, <2>6 DEF NameOk
<1> QED
  BY <1>1, <1>2

\* The names of a pattern, by its kind.
LEMMA NamesStep ==
    ASSUME NEW d \in 0..Depth, NEW p \in PatternType[d]
    PROVE  /\ p \in Simple => PatternNames[d][p] = {}
           /\ p.k \in {"ident", "rest"} => PatternNames[d][p] = {p.x}
           /\ p.k \in {"tuple", "list"} =>
                PatternNames[d][p] = UNION {Before(PatternNames, d)[p.ms[i]] : i \in 1..Len(p.ms)}
<1>1. PatternNames[d] = NamesAt(d, Before(PatternNames, d))
  BY PatternNamesDef
<1>2. PatternNames[d][p] =
        CASE p.k \in {"ident", "rest"} -> {p.x}
          [] p.k \in {"tuple", "list"} ->
               UNION {Before(PatternNames, d)[p.ms[i]] : i \in 1..Len(p.ms)}
          [] OTHER -> {}
  BY <1>1 DEF NamesAt
<1>3. p \in Simple => p.k \in {"num", "atom"}
  BY SimpleKind
<1>4. CASE p.k \in {"ident", "rest"}
  BY <1>2, <1>3, <1>4
<1>5. CASE p.k \in {"tuple", "list"}
  BY <1>2, <1>3, <1>5
<1>6. CASE ~(p.k \in {"ident", "rest"}) /\ ~(p.k \in {"tuple", "list"})
  BY <1>2, <1>3, <1>6
<1> QED
  BY <1>4, <1>5, <1>6

\* gen_pattern is right about a pattern in a scope.
GenOk(d, p, sc, next) ==
    LET g == GenIn(d, p, sc, next)
    IN /\ Grown(sc, next, g.sc, g.next)
       /\ DOMAIN g.sc = DOMAIN sc \cup PatternNames[d][p]
       /\ g.pat \in CompiledType[d]
       /\ IsRange(g.pat) <=> p.k = "rest"

GenRightAt(d) ==
    \A p \in PatternType[d] : \A sc, next : IsScope(sc) /\ next \in Nat => GenOk(d, p, sc, next)

\* The names in the first members.
NamesUpTo(d, ps, i) == UNION {PatternNames[d][ps[j]] : j \in 1..i}

LEMMA NamesUpToNext ==
    ASSUME NEW d, NEW ps, NEW i \in Nat
    PROVE  /\ NamesUpTo(d, ps, 0) = {}
           /\ NamesUpTo(d, ps, i + 1) = NamesUpTo(d, ps, i) \cup PatternNames[d][ps[i + 1]]
<1>1. \A j \in 1..i + 1 : j \in 1..i \/ j = i + 1
  OBVIOUS
<1>2. i + 1 \in 1..i + 1 /\ \A j \in 1..i : j \in 1..i + 1
  OBVIOUS
<1>3. \A x : x \in NamesUpTo(d, ps, i + 1)
                <=> x \in NamesUpTo(d, ps, i) \/ x \in PatternNames[d][ps[i + 1]]
  BY <1>1, <1>2, Zenon DEF NamesUpTo
<1>4. NamesUpTo(d, ps, 0) = {}
  BY DEF NamesUpTo
<1> QED
  BY <1>3, <1>4

\* The members of a tuple or list: t[i] is what is known after the i-th.
LinkOk(d, ps, sc, next, t, i) ==
    /\ IsScope(t[i].sc) /\ t[i].next \in Nat
    /\ Grown(sc, next, t[i].sc, t[i].next)
    /\ DOMAIN t[i].sc = DOMAIN sc \cup NamesUpTo(d, ps, i)
    /\ t[i].pats \in Seq(CompiledType[d]) /\ Len(t[i].pats) = i
    /\ \A j \in 1..i : t[i].pats[j] = GenIn(d, ps[j], t[j - 1].sc, t[j - 1].next).pat
    /\ \A j \in 0..i : t[j].next \in Nat /\ t[j].next <= t[i].next

Chain(d, ps, sc, next, t) ==
    /\ GenMembersBy(Gens[d], ps, sc, next) = t[Len(ps)]
    /\ t[0].sc = sc /\ t[0].next = next
    /\ \A i \in 1..Len(ps) : LET g == GenIn(d, ps[i], t[i - 1].sc, t[i - 1].next)
                             IN t[i].sc = g.sc /\ t[i].next = g.next
    /\ \A i \in 0..Len(ps) : LinkOk(d, ps, sc, next, t, i)

LEMMA ChainExists ==
    ASSUME NEW d \in 0..Depth, GenRightAt(d), NEW ps \in Seq(PatternType[d]),
           NEW sc, IsScope(sc), NEW next \in Nat
    PROVE  \E t : Chain(d, ps, sc, next, t)
<1>1. PICK t : GenRounds(Gens[d], ps, sc, next, t)
  BY GenLoop
<1>2. /\ GenMembersBy(Gens[d], ps, sc, next) = t[Len(ps)]
      /\ t[0] = [pats |-> <<>>, sc |-> sc, next |-> next]
      /\ \A i \in 1..Len(ps) : t[i] = GenRound(Gens[d], ps, i, t[i - 1])
  BY <1>1 DEF GenRounds
<1> DEFINE g(i) == GenIn(d, ps[i], t[i - 1].sc, t[i - 1].next)
<1>3. \A i \in 1..Len(ps) : /\ t[i].pats = Append(t[i - 1].pats, g(i).pat)
                            /\ t[i].sc = g(i).sc /\ t[i].next = g(i).next
  <2> SUFFICES ASSUME NEW i \in 1..Len(ps)
               PROVE  /\ t[i].pats = Append(t[i - 1].pats, g(i).pat)
                      /\ t[i].sc = g(i).sc /\ t[i].next = g(i).next
    OBVIOUS
  <2>1. t[i] = [pats |-> Append(t[i - 1].pats, g(i).pat), sc |-> g(i).sc, next |-> g(i).next]
    BY <1>2, Zenon DEF GenRound, GenIn
  <2> QED
    BY <2>1
<1> DEFINE Ok(i) == LinkOk(d, ps, sc, next, t, i)
           T == {i \in Nat : i \in 0..Len(ps) => Ok(i)}
<1>4. 0 \in T
  <2>1. t[0].sc = sc /\ t[0].next = next /\ t[0].pats = <<>>
    BY <1>2
  <2>2. NamesUpTo(d, ps, 0) = {}
    BY NamesUpToNext
  <2>3. \A j \in 0..0 : t[j].next \in Nat /\ t[j].next <= t[0].next
    BY <2>1
  <2>4. t[0].pats \in Seq(CompiledType[d]) /\ Len(t[0].pats) = 0
    BY <2>1
  <2>5. Grown(sc, next, t[0].sc, t[0].next)
    BY <2>1, GrownSame
  <2>6. DOMAIN t[0].sc = DOMAIN sc \cup NamesUpTo(d, ps, 0)
    BY <2>1, <2>2
  <2>7. ~(\E j : j \in 1..0)
    OBVIOUS
  <2>8. Ok(0)
    BY <2>1, <2>3, <2>4, <2>5, <2>6, <2>7, Zenon DEF LinkOk
  <2> HIDE DEF Ok
  <2> QED
    BY <2>8
<1>5. ASSUME NEW i \in T PROVE i + 1 \in T
  <2>1. i \in Nat /\ i + 1 \in Nat /\ (i + 1) - 1 = i
    OBVIOUS
  <2> SUFFICES ASSUME i + 1 \in 0..Len(ps) PROVE Ok(i + 1)
    BY <2>1
  <2>2. i \in 0..Len(ps) /\ i + 1 \in 1..Len(ps) /\ Len(ps) \in Nat
    BY <2>1
  <2>3. Ok(i)
    BY <2>2
  <2> DEFINE h == GenIn(d, ps[i + 1], t[i].sc, t[i].next)
  <2>4. /\ t[i + 1].pats = Append(t[i].pats, h.pat)
        /\ t[i + 1].sc = h.sc /\ t[i + 1].next = h.next
    BY <1>3, <2>1, <2>2, Zenon
  <2>5. /\ IsScope(t[i].sc) /\ t[i].next \in Nat
        /\ Grown(sc, next, t[i].sc, t[i].next)
        /\ DOMAIN t[i].sc = DOMAIN sc \cup NamesUpTo(d, ps, i)
        /\ t[i].pats \in Seq(CompiledType[d]) /\ Len(t[i].pats) = i
        /\ \A j \in 1..i : t[i].pats[j] = g(j).pat
        /\ \A j \in 0..i : t[j].next \in Nat /\ t[j].next <= t[i].next
    BY <2>3 DEF LinkOk
  <2>6. GenOk(d, ps[i + 1], t[i].sc, t[i].next)
    <3>1. ps[i + 1] \in PatternType[d]
      BY <2>2
    <3> QED
      BY <2>5, <3>1 DEF GenRightAt
  <2>7. /\ Grown(t[i].sc, t[i].next, h.sc, h.next)
        /\ DOMAIN h.sc = DOMAIN t[i].sc \cup PatternNames[d][ps[i + 1]]
        /\ h.pat \in CompiledType[d]
    BY <2>6 DEF GenOk
  <2> HIDE DEF h, Ok, T
  <2>8. Grown(sc, next, t[i + 1].sc, t[i + 1].next)
    BY <2>4, <2>5, <2>7, GrownTwice
  <2>9. IsScope(t[i + 1].sc) /\ t[i + 1].next \in Nat /\ t[i].next <= t[i + 1].next
    BY <2>4, <2>7 DEF Grown
  <2>10. DOMAIN t[i + 1].sc = DOMAIN sc \cup NamesUpTo(d, ps, i + 1)
    <3>1. NamesUpTo(d, ps, i + 1) = NamesUpTo(d, ps, i) \cup PatternNames[d][ps[i + 1]]
      BY <2>1, NamesUpToNext
    <3> QED
      BY <2>4, <2>5, <2>7, <3>1, Zenon
  <2> DEFINE a == t[i].pats
             b == t[i + 1].pats
  <2>11. /\ b \in Seq(CompiledType[d]) /\ Len(b) = i + 1
         /\ b[i + 1] = h.pat /\ \A j \in 1..i : b[j] = a[j]
    <3>1. a \in Seq(CompiledType[d]) /\ Len(a) = i /\ b = Append(a, h.pat) /\ h.pat \in CompiledType[d]
      BY <2>4, <2>5, <2>7
    <3> HIDE DEF a, b
    <3> DEFINE C == CompiledType[d]
               e == h.pat
    <3>2. a \in Seq(C) /\ Len(a) = i /\ e \in C /\ b = Append(a, e)
      BY <3>1
    <3> HIDE DEF C, e
    <3>3. b \in Seq(C) /\ Len(b) = i + 1 /\ b[i + 1] = e /\ \A j \in 1..i : b[j] = a[j]
      BY <3>2
    <3> QED
      BY <3>3 DEF C, e
  <2>12. ASSUME NEW j \in 1..i + 1
         PROVE  t[i + 1].pats[j] = g(j).pat
    <3>1. CASE j \in 1..i
      BY <2>5, <2>11, <3>1
    <3>2. CASE j = i + 1
      BY <2>1, <2>11, <3>2 DEF h
    <3> QED
      BY <2>1, <3>1, <3>2
  <2>13. ASSUME NEW j \in 0..i + 1
         PROVE  t[j].next \in Nat /\ t[j].next <= t[i + 1].next
    <3>1. CASE j \in 0..i
      BY <2>4, <2>5, <2>9, <3>1
    <3>2. CASE j = i + 1
      BY <2>9, <3>2
    <3> QED
      BY <2>1, <3>1, <3>2
  <2> QED
    BY <2>8, <2>9, <2>10, <2>11, <2>12, <2>13 DEF Ok, LinkOk
<1>6. T = Nat
  <2> HIDE DEF T
  <2> QED
    BY <1>4, <1>5, SetInduction DEF T
<1>7. \A i \in 0..Len(ps) : Ok(i)
  BY <1>6
<1>8. Chain(d, ps, sc, next, t)
  BY <1>2, <1>3, <1>7 DEF Chain
<1> QED
  BY <1>8

\* A tuple or list is made of its members.
MadeOf(n, p, sc, next, t) ==
    /\ Chain(n, p.ms, sc, next, t)
    /\ LET g == GenIn(n + 1, p, sc, next)
           r == t[Len(p.ms)]
       IN g.pat = [k |-> p.k, ms |-> r.pats] /\ g.sc = r.sc /\ g.next = r.next

LEMMA GenMadeOf ==
    ASSUME NEW n \in Nat, n + 1 \in 0..Depth, GenRightAt(n), NEW p \in PatternType[n + 1],
           p.k \in {"tuple", "list"}, NEW sc, IsScope(sc), NEW next \in Nat
    PROVE  \E t : MadeOf(n, p, sc, next, t)
<1>1. n \in 0..Depth /\ n + 1 # 0 /\ (n + 1) - 1 = n
  BY TermsAssumption
<1>2. p.ms \in Seq(PatternType[n])
  <2>1. p \notin Simple /\ ~(p \in [k : {"ident", "rest"}, x : Names])
    BY SimpleKind
  <2> QED
    BY <1>1, <2>1, PatternKind
<1>3. PICK t : Chain(n, p.ms, sc, next, t)
  BY <1>1, <1>2, ChainExists
<1>4. Before(Gens, n + 1) = Gens[n]
  BY <1>1 DEF Before
<1>5. GenMembersBy(Gens[n], p.ms, sc, next) = t[Len(p.ms)]
  BY <1>3 DEF Chain
<1> DEFINE r == t[Len(p.ms)]
<1>6. GenIn(n + 1, p, sc, next) = [pat |-> [k |-> p.k, ms |-> r.pats], sc |-> r.sc, next |-> r.next]
  BY <1>4, <1>5, GenComposite
<1>7. MadeOf(n, p, sc, next, t)
  BY <1>3, <1>6 DEF MadeOf
<1> QED
  BY <1>7

\* gen_pattern adds the pattern's names to the scope, each with one of the
\* registers it counts, and leaves the others alone.
LEMMA GenRight ==
    ASSUME NEW d \in 0..Depth
    PROVE  GenRightAt(d)
<1>1. ASSUME NEW n \in 0..Depth, NEW p \in PatternType[n], NEW sc, NEW next \in Nat, IsScope(sc),
             p \in Simple \/ p \in [k : {"ident", "rest"}, x : Names]
      PROVE  GenOk(n, p, sc, next)
  <2>1. CASE p \in Simple
    <3>1. GenIn(n, p, sc, next) = [pat |-> p, sc |-> sc, next |-> next]
      BY <1>1, <2>1, GenSimple
    <3>2. Grown(sc, next, sc, next) /\ PatternNames[n][p] = {}
      BY <1>1, <2>1, GrownSame, NamesStep
    <3>3. p \in CompiledType[n] /\ p.k \in {"num", "atom"}
      BY <2>1, CompiledLeaf, SimpleKind
    <3> QED
      BY <3>1, <3>2, <3>3 DEF GenOk, IsRange
  <2>2. CASE p \in [k : {"ident", "rest"}, x : Names]
    <3>1. p.k \in {"ident", "rest"} /\ p.x \in Names /\ (p.k = "rest") \in BOOLEAN
      BY <2>2
    <3> DEFINE x == p.x
               range == p.k = "rest"
               g == GenPatternIdent(x, range, sc, next)
    <3>2. GenIn(n, p, sc, next) = g
      BY <1>1, <3>1, GenName
    <3>3. /\ Grown(sc, next, g.sc, g.next)
          /\ DOMAIN g.sc = DOMAIN sc \cup {p.x}
          /\ g.pat \in [k : {"any", "var"}, reg : Nat, range : BOOLEAN]
          /\ g.pat.range = (p.k = "rest")
      <4>1. x \in Names /\ range \in BOOLEAN /\ x = p.x /\ range = (p.k = "rest")
        BY <3>1
      <4> HIDE DEF x, range
      <4>2. /\ Grown(sc, next, g.sc, g.next)
            /\ DOMAIN g.sc = DOMAIN sc \cup {x}
            /\ g.pat \in [k : {"any", "var"}, reg : Nat, range : BOOLEAN]
            /\ g.pat.range = range
        <5>1. NameOk(x, range, sc, next)
          BY <1>1, <4>1, GrownByName
        <5> QED
          BY <5>1 DEF NameOk
      <4> HIDE DEF g
      <4> QED
        BY <4>1, <4>2, Zenon
    <3> HIDE DEF g
    <3>4. PatternNames[n][p] = {p.x}
      BY <3>1, NamesStep
    <3>5. g.pat \in CompiledType[n] /\ (IsRange(g.pat) <=> p.k = "rest")
      BY <3>3, CompiledLeaf DEF IsRange
    <3> QED
      BY <3>2, <3>3, <3>4, <3>5 DEF GenOk
  <2> QED
    BY <1>1, <2>1, <2>2
<1> DEFINE S == {n \in Nat : n \in 0..Depth => GenRightAt(n)}
<1>2. 0 \in S
  <2>1. 0 \in 0..Depth
    BY TermsAssumption
  <2>2. \A p \in PatternType[0] : p \in Simple \/ p \in [k : {"ident", "rest"}, x : Names]
    BY <2>1, PatternKind
  <2>3. GenRightAt(0)
    BY <1>1, <2>1, <2>2 DEF GenRightAt
  <2> QED
    BY <2>3
<1>3. ASSUME NEW n \in S PROVE n + 1 \in S
  <2>1. n \in Nat /\ n + 1 \in Nat /\ (n + 1) - 1 = n
    OBVIOUS
  <2> SUFFICES ASSUME n + 1 \in 0..Depth PROVE GenRightAt(n + 1)
    BY <2>1
  <2>2. n \in 0..Depth /\ n + 1 \in 1..Depth /\ GenRightAt(n) /\ Before(PatternNames, n + 1) = PatternNames[n]
    BY <2>1, TermsAssumption DEF Before
  <2> SUFFICES ASSUME NEW p \in PatternType[n + 1], NEW sc, NEW next, IsScope(sc), next \in Nat
               PROVE  GenOk(n + 1, p, sc, next)
    BY DEF GenRightAt
  <2> HIDE DEF S
  <2>3. CASE p \in Simple \/ p \in [k : {"ident", "rest"}, x : Names]
    BY <1>1, <2>3
  <2>4. CASE /\ p.ms \in Seq(PatternType[n]) /\ p.k \in {"tuple", "list"}
    <3>1. PICK t : MadeOf(n, p, sc, next, t)
      BY <2>1, <2>2, <2>4, GenMadeOf
    <3> DEFINE l == Len(p.ms)
    <3>2. l \in Nat /\ l \in 0..l
      BY <2>4
    <3>3. LinkOk(n, p.ms, sc, next, t, l)
      BY <3>1, <3>2 DEF MadeOf, Chain
    <3>4. PatternNames[n + 1][p] = NamesUpTo(n, p.ms, l)
      BY <2>1, <2>2, <2>4, NamesStep DEF NamesUpTo
    <3> DEFINE g == GenIn(n + 1, p, sc, next)
    <3>5. g.pat = [k |-> p.k, ms |-> t[l].pats] /\ g.sc = t[l].sc /\ g.next = t[l].next
      BY <3>1 DEF MadeOf
    <3>6. /\ Grown(sc, next, g.sc, g.next)
          /\ DOMAIN g.sc = DOMAIN sc \cup PatternNames[n + 1][p]
          /\ t[l].pats \in Seq(CompiledType[n])
      BY <3>3, <3>4, <3>5 DEF LinkOk
    <3>7. g.pat \in CompiledType[n + 1]
      BY <2>1, <2>2, <2>4, <3>5, <3>6, CompiledMade
    <3>8. ~IsRange(g.pat) /\ p.k # "rest"
      BY <2>4, <3>5 DEF IsRange
    <3> HIDE DEF g
    <3> QED
      BY <3>6, <3>7, <3>8 DEF GenOk, g
  <2> QED
    BY <2>1, <2>2, <2>3, <2>4, PatternKind
<1>4. S = Nat
  <2> HIDE DEF S
  <2> QED
    BY <1>2, <1>3, SetInduction DEF S
<1> QED
  BY <1>4, TermsAssumption

\* What is known of a member after the i-th.
MemberOk(d, ps, t, i) ==
    LET g == GenIn(d, ps[i + 1], t[i].sc, t[i].next)
        cs == t[Len(ps)].pats
    IN /\ ps[i + 1] \in PatternType[d]
       /\ IsScope(t[i].sc) /\ t[i].next \in Nat /\ t[i + 1].next \in Nat
       /\ t[i].next <= t[i + 1].next /\ t[i + 1].next <= t[Len(ps)].next
       /\ Grown(t[i].sc, t[i].next, t[i + 1].sc, t[i + 1].next)
       /\ cs[i + 1] = g.pat /\ t[i + 1].sc = g.sc /\ t[i + 1].next = g.next
       /\ cs[i + 1] \in CompiledType[d] /\ cs[i + 1].k # "ref"
       /\ (IsRange(cs[i + 1]) <=> ps[i + 1].k = "rest")

LEMMA ChainMembers ==
    ASSUME NEW d \in 0..Depth, NEW ps \in Seq(PatternType[d]), NEW sc, IsScope(sc), NEW next \in Nat,
           NEW t, Chain(d, ps, sc, next, t)
    PROVE  /\ t[Len(ps)].pats \in Seq(CompiledType[d]) /\ Len(t[Len(ps)].pats) = Len(ps)
           /\ t[0].sc = sc /\ t[0].next = next
           /\ \A i \in 0..Len(ps) : /\ t[i].next \in Nat /\ next <= t[i].next
                                    /\ t[i].next <= t[Len(ps)].next
                                    /\ IsScope(t[i].sc) /\ Grown(sc, next, t[i].sc, t[i].next)
           /\ \A i \in 0..Len(ps) - 1 : MemberOk(d, ps, t, i)
<1> DEFINE l == Len(ps)
           cs == t[l].pats
<1>1. l \in Nat /\ l \in 0..l /\ 0 \in 0..l
  OBVIOUS
<1>2. LinkOk(d, ps, sc, next, t, l) /\ \A i \in 0..l : LinkOk(d, ps, sc, next, t, i)
  BY <1>1 DEF Chain
<1>3. /\ cs \in Seq(CompiledType[d]) /\ Len(cs) = l
      /\ \A j \in 1..l : cs[j] = GenIn(d, ps[j], t[j - 1].sc, t[j - 1].next).pat
      /\ \A j \in 0..l : t[j].next \in Nat /\ t[j].next <= t[l].next
  BY <1>2 DEF LinkOk
<1>4. t[0].sc = sc /\ t[0].next = next
  BY DEF Chain
<1>5. \A i \in 0..l : IsScope(t[i].sc) /\ Grown(sc, next, t[i].sc, t[i].next) /\ next <= t[i].next
  BY <1>2 DEF LinkOk, Grown
<1>6. ASSUME NEW i \in 0..l - 1 PROVE MemberOk(d, ps, t, i)
  <2>1. i \in 0..l /\ i + 1 \in 0..l /\ i + 1 \in 1..l /\ (i + 1) - 1 = i
    BY <1>1
  <2> DEFINE g == GenIn(d, ps[i + 1], t[i].sc, t[i].next)
  <2>2. t[i + 1].sc = g.sc /\ t[i + 1].next = g.next
    <3>1. LET h == GenIn(d, ps[i + 1], t[(i + 1) - 1].sc, t[(i + 1) - 1].next)
          IN t[i + 1].sc = h.sc /\ t[i + 1].next = h.next
      BY <2>1, Zenon DEF Chain
    <3> QED
      BY <2>1, <3>1
  <2>3. ps[i + 1] \in PatternType[d]
    BY <2>1
  <2>4. IsScope(t[i].sc) /\ t[i].next \in Nat
    BY <1>3, <1>5, <2>1
  <2>5. GenOk(d, ps[i + 1], t[i].sc, t[i].next)
    BY <2>3, <2>4, GenRight DEF GenRightAt
  <2>6. cs[i + 1] = g.pat
    BY <1>3, <2>1, Zenon
  <2> HIDE DEF cs
  <2>7. /\ Grown(t[i].sc, t[i].next, g.sc, g.next)
        /\ g.pat \in CompiledType[d]
        /\ IsRange(g.pat) <=> ps[i + 1].k = "rest"
    BY <2>5 DEF GenOk
  <2> HIDE DEF g
  <2>8. g.pat.k # "ref"
    BY <2>7, NoPointers
  <2>9. t[i].next <= t[i + 1].next /\ t[i + 1].next \in Nat /\ t[i + 1].next <= t[l].next
    BY <1>3, <2>1, <2>2, <2>7 DEF Grown
  <2> QED
    BY <2>2, <2>3, <2>4, <2>6, <2>7, <2>8, <2>9 DEF MemberOk, g, cs
<1> QED
  BY <1>3, <1>4, <1>5, <1>6

-----------------------------------------------------------------------------
(* Where match writes.                                                     *)

LEMMA StoreIn ==
    ASSUME NEW M \in Memories, NEW i \in Registers, NEW v \in ValueType[Depth]
    PROVE  /\ Store(M, i, v) \in Memories /\ Store(M, i, v)[i] = v
           /\ \A r \in Registers : r # i => Store(M, i, v)[r] = M[r]
BY DEF Store, Memories

LEMMA SlotIn ==
    ASSUME NEW M \in Memories, NEW i
    PROVE  /\ Slot(M, i) \in ValueType[Depth] \cup {Unset}
           /\ i \in Registers => Slot(M, i) = M[i]
BY DEF Slot, Memories

\* A variable that is bound compares.
LEMMA BoundVariable ==
    ASSUME NEW f \in Depth + 1..Calls, NEW M \in Memories, NEW p \in CompiledType[Depth],
           NEW v \in ValueType[Depth], NEW at \in Nat, p.k = "var", p.reg \in Nat
    PROVE  MatchIn(f, M, p, v, at) = Equal(Slot(M, p.reg), v, M)
<1>1. f \in 0..Calls /\ f \in 1..Calls /\ f - 1 \in Depth..Calls /\ f - 1 \in 0..Calls
      /\ Depth \in 0..Depth
  BY TermsAssumption DEF Calls
<1> DEFINE w == Slot(M, p.reg)
<1>2. MatchIn(f, M, p, v, at) = MatchIn(f - 1, M, w, v, at)
  BY <1>1, MatchVar, InnerIs
<1>3. w \in ValueType[Depth] \cup {Unset}
  BY SlotIn
<1> HIDE DEF w
<1>4. CASE w \in ValueType[Depth]
  BY <1>1, <1>2, <1>4, ValueMatch DEF w
<1>5. CASE w = Unset
  <2>1. v.k \in {"num", "atom", "tuple", "list"}
    BY <1>1, NoPointers
  <2>2. w.k = "unset" /\ w.k # v.k /\ w # v /\ w.k \notin {"any", "var"}
    BY <1>5, <2>1 DEF Unset
  <2>3. MatchIn(f - 1, M, w, v, at) = Mismatch(M)
    BY <1>1, <1>5, <2>2, MatchKinds
  <2> QED
    BY <1>2, <2>2, <2>3 DEF Equal, w
<1> QED
  BY <1>3, <1>4, <1>5

\* The result m of a match from M writes only from `at` on, k registers.
Within(M, m, at, k) ==
    /\ m.n \in -1..k
    /\ m.mem \in Memories
    /\ \A r \in Registers : m.mem[r] # M[r] => r \in at..at + k - 1

LEMMA WithinNothing ==
    ASSUME NEW M \in Memories, NEW at \in Nat, NEW k \in Nat
    PROVE  /\ Within(M, Matched(0, M), at, k) /\ Within(M, Mismatch(M), at, k)
BY DEF Within, Matched, Mismatch

LEMMA WithinMore ==
    ASSUME NEW M \in Memories, NEW m, NEW at \in Nat, NEW k \in Nat, NEW k2 \in Nat, k <= k2,
           Within(M, m, at, k)
    PROVE  Within(M, m, at, k2)
BY DEF Within

\* One match after another.
Both(r, m) == Matched(IF m.n = -1 THEN -1 ELSE r.n + m.n, m.mem)

WithRest(r, m) == Matched(r.n + m.n, m.mem)

LEMMA WithinBoth ==
    ASSUME NEW M \in Memories, NEW r, NEW m, NEW at \in Nat, NEW k \in Nat, NEW j \in Nat,
           NEW a, a = at + r.n, NEW k2, k2 = k + j,
           Within(M, r, at, k), r.n # -1, Within(r.mem, m, a, j)
    PROVE  Within(M, Both(r, m), at, k2) /\ Within(M, WithRest(r, m), at, k2)
<1>1. r.n \in 0..k /\ m.n \in -1..j /\ m.mem \in Memories /\ r.mem \in Memories
  BY DEF Within
<1>2. ASSUME NEW x \in Registers, m.mem[x] # M[x]
      PROVE  x \in at..at + k2 - 1
  <2>1. x \in Int
    BY TermsAssumption DEF Registers
  <2>2. CASE r.mem[x] # M[x]
    <3>1. x \in at..at + k - 1
      BY <2>2 DEF Within
    <3> QED
      BY <3>1
  <2>3. CASE m.mem[x] # r.mem[x]
    <3>1. x \in at + r.n..at + r.n + j - 1
      BY <2>3 DEF Within
    <3> QED
      BY <1>1, <2>1, <3>1
  <2> QED
    BY <1>2, <2>2, <2>3
<1> QED
  BY <1>1, <1>2 DEF Within, Matched, Both, WithRest

\* rd is match with f calls in each other.
Does(rd, f) == \A M, p, v, at : rd[M][p][v][at] = MatchIn(f, M, p, v, at)

LEMMA InnerDoes ==
    ASSUME NEW f \in 1..Calls
    PROVE  Does(Inner(f), f - 1)
BY InnerIs DEF Does

\* A round of the loop whose members before matched.
RoundIs(rd, f, ps, vs, at, i, r) ==
    MatchRound(rd, ps, vs, at, i, r) = Both(r, MatchIn(f, r.mem, ps[i], vs[i], at + r.n))

LEMMA RoundDoes ==
    ASSUME NEW rd, NEW f, Does(rd, f), NEW ps, NEW vs, NEW at, NEW i, NEW r,
           r.n # -1, ps[i].k # "ref", vs[i].k # "ref"
    PROVE  RoundIs(rd, f, ps, vs, at, i, r)
<1> DEFINE a == at + r.n
           m == rd[r.mem][ps[i]][vs[i]][a]
<1>1. MatchRound(rd, ps, vs, at, i, r) = Both(r, m)
  BY Zenon DEF MatchRound, Member, Both
<1> HIDE DEF a
<1>2. m = MatchIn(f, r.mem, ps[i], vs[i], a)
  BY DEF Does
<1> HIDE DEF m
<1>3. MatchRound(rd, ps, vs, at, i, r) = Both(r, MatchIn(f, r.mem, ps[i], vs[i], a))
  BY <1>1, <1>2, Zenon
<1> QED
  BY <1>3, Zenon DEF RoundIs, a

\* What gen_pattern made of p writes only to the registers counted for it.
BoundOk(d, p, sc, next, f, M, v, at) ==
    LET g == GenIn(d, p, sc, next)
    IN at + (g.next - next) <= LastReg + 1 =>
         Within(M, MatchIn(f, M, g.pat, v, at), at, g.next - next)

BoundsAt(d) ==
    \A p \in PatternType[d] : \A sc, next : IsScope(sc) /\ next \in Nat =>
      \A f \in d + 1 + Depth..Calls : \A M \in Memories : \A v \in ValueType[Depth] : \A at \in Nat :
        BoundOk(d, p, sc, next, f, M, v, at)

\* A round keeps within the registers counted so far and its own.
RoundFits(M, r, m, at, k, j, lim, k2, a) ==
    /\ Within(M, r, at, k2)
    /\ r.n # -1 => r.mem \in Memories /\ a \in Nat /\ a + j <= lim
    /\ r.n # -1 /\ Within(r.mem, m, a, j) => /\ Within(M, Both(r, m), at, k2)
                                             /\ Within(M, WithRest(r, m), at, k2)

LEMMA RoundWithin ==
    ASSUME NEW M \in Memories, NEW r, NEW m, NEW at \in Nat, NEW k \in Nat, NEW j \in Nat,
           NEW lim \in Nat, NEW k2, k2 = k + j, at + k2 <= lim,
           Within(M, r, at, k), NEW a, a = at + r.n
    PROVE  RoundFits(M, r, m, at, k, j, lim, k2, a)
<1>1. k2 \in Nat /\ k <= k2
  OBVIOUS
<1>2. Within(M, r, at, k2)
  BY <1>1, WithinMore
<1>3. r.n \in -1..k /\ r.mem \in Memories
  BY DEF Within
<1>4. r.n # -1 => a \in Nat /\ a + j <= lim
  BY <1>3
<1>5. ASSUME r.n # -1, Within(r.mem, m, a, j)
      PROVE  Within(M, Both(r, m), at, k2) /\ Within(M, WithRest(r, m), at, k2)
  BY <1>5, WithinBoth
<1> QED
  BY <1>2, <1>3, <1>4, <1>5 DEF RoundFits

\* c counts the registers after each member.
StepWithin(rd, ps, vs, c, lim, i) ==
    /\ ps[i + 1].k # "ref" /\ vs[i + 1].k # "ref"
    /\ \A M \in Memories, a \in Nat :
         a + (c[i + 1] - c[i]) <= lim =>
           Within(M, rd[M][ps[i + 1]][vs[i + 1]][a], a, c[i + 1] - c[i])

LEMMA LoopWithin ==
    ASSUME NEW rd, NEW M \in Memories, NEW ps, NEW vs, NEW n \in Nat, NEW at \in Nat,
           NEW c \in [0..n -> Nat], c[0] = 0, NEW lim \in Nat,
           \A i \in 0..n - 1 : /\ StepWithin(rd, ps, vs, c, lim, i)
                               /\ c[i] <= c[i + 1] /\ at + c[i + 1] <= lim
    PROVE  Within(M, MembersBy(rd, M, ps, vs, n, at), at, c[n])
<1>1. PICK s : MatchRounds(rd, M, ps, vs, n, at, s)
  BY MatchLoop
<1>2. /\ s[0] = Matched(0, M)
      /\ \A i \in 1..n : s[i] = MatchRound(rd, ps, vs, at, i, s[i - 1])
      /\ MembersBy(rd, M, ps, vs, n, at) = s[n]
  BY <1>1 DEF MatchRounds
<1> DEFINE Ok(i) == Within(M, s[i], at, c[i])
           T == {i \in Nat : i \in 0..n => Ok(i)}
<1>3. 0 \in T
  <2>1. Ok(0)
    BY <1>2, WithinNothing
  <2> HIDE DEF Ok
  <2> QED
    BY <2>1
<1>4. ASSUME NEW i \in T PROVE i + 1 \in T
  <2>1. i \in Nat /\ i + 1 \in Nat /\ (i + 1) - 1 = i
    OBVIOUS
  <2> SUFFICES ASSUME i + 1 \in 0..n PROVE Ok(i + 1)
    BY <2>1
  <2>2. i \in 0..n /\ i + 1 \in 1..n /\ i \in 0..n - 1
    BY <2>1
  <2>3. Ok(i)
    BY <2>2
  <2>4. s[i + 1] = MatchRound(rd, ps, vs, at, i + 1, s[i])
    BY <1>2, <2>1, <2>2, Zenon
  <2> HIDE DEF T
  <2> DEFINE k == c[i]
             k2 == c[i + 1]
             j == k2 - k
             a == at + s[i].n
             m == rd[s[i].mem][ps[i + 1]][vs[i + 1]][a]
  <2>5. StepWithin(rd, ps, vs, c, lim, i) /\ k <= k2 /\ at + k2 <= lim /\ k \in Nat /\ k2 \in Nat
    BY <2>2
  <2>6. Within(M, s[i], at, k)
    BY <2>3
  <2>7. \A M1 \in Memories, b \in Nat :
           b + j <= lim => Within(M1, rd[M1][ps[i + 1]][vs[i + 1]][b], b, j)
    BY <2>5, Zenon DEF StepWithin
  <2>8. j \in Nat /\ k2 = k + j
    <3> HIDE DEF k, k2
    <3> QED
      BY <2>5
  <2>9. ps[i + 1].k # "ref" /\ vs[i + 1].k # "ref"
    BY <2>5 DEF StepWithin
  <2>10. s[i].n # -1 => s[i + 1] = Both(s[i], m)
    BY <2>4, <2>9, Zenon DEF MatchRound, Member, Both
  <2>11. s[i].n = -1 => s[i + 1] = s[i]
    BY <2>4, RoundMissed
  <2>12. a = at + s[i].n
    OBVIOUS
  <2> HIDE DEF k, k2, j, a
  <2>13. /\ Within(M, s[i], at, k2)
         /\ s[i].n # -1 => s[i].mem \in Memories /\ a \in Nat /\ a + j <= lim
         /\ s[i].n # -1 /\ Within(s[i].mem, m, a, j) => Within(M, Both(s[i], m), at, k2)
    <3> HIDE DEF m
    <3>1. RoundFits(M, s[i], m, at, k, j, lim, k2, a)
      BY <2>5, <2>6, <2>8, <2>12, RoundWithin
    <3> QED
      BY <3>1 DEF RoundFits
  <2>14. s[i].n # -1 => Within(s[i].mem, m, a, j)
    BY <2>7, <2>13, Zenon
  <2>15. Within(M, s[i + 1], at, k2)
    <3> HIDE DEF m
    <3> QED
      BY <2>10, <2>11, <2>13, <2>14
  <2> QED
    BY <2>15 DEF k2
<1>5. T = Nat
  <2> HIDE DEF T
  <2> QED
    BY <1>3, <1>4, SetInduction DEF T
<1>6. n \in T /\ n \in 0..n
  BY <1>5
<1>7. Ok(n)
  BY <1>6
<1> QED
  BY <1>2, <1>7

\* The members of what gen_pattern made.
LEMMA MembersWithin ==
    ASSUME NEW d \in 0..Depth, BoundsAt(d), NEW ps \in Seq(PatternType[d]),
           NEW sc, IsScope(sc), NEW next \in Nat, NEW t, Chain(d, ps, sc, next, t),
           NEW f \in d + 1 + Depth..Calls, NEW rd, Does(rd, f), NEW M \in Memories,
           NEW vs \in Seq(ValueType[Depth]), NEW at \in Nat,
           NEW n \in 0..Len(ps), n <= Len(vs),
           at + (t[Len(ps)].next - next) <= LastReg + 1
    PROVE  Within(M, MembersBy(rd, M, t[Len(ps)].pats, vs, n, at), at, t[n].next - next)
<1> DEFINE l == Len(ps)
           cs == t[l].pats
           c == [i \in 0..n |-> t[i].next - next]
           lim == LastReg + 1
<1>1. /\ l \in Nat /\ n \in Nat /\ lim \in Nat
      /\ t[0].sc = sc /\ t[0].next = next /\ t[l].next \in Nat
      /\ \A i \in 0..l : t[i].next \in Nat /\ next <= t[i].next
      /\ \A i \in 0..l - 1 : MemberOk(d, ps, t, i)
  BY ChainMembers, TermsAssumption
<1>2. c \in [0..n -> Nat] /\ c[0] = 0
  <2>1. ASSUME NEW i \in 0..n PROVE t[i].next - next \in Nat
    <3>1. t[i].next \in Nat /\ next <= t[i].next
      BY <1>1
    <3> QED
      BY <3>1
  <2> QED
    BY <1>1, <2>1
<1>3. ASSUME NEW i \in 0..n - 1
      PROVE  StepWithin(rd, cs, vs, c, lim, i) /\ c[i] <= c[i + 1] /\ at + c[i + 1] <= lim
  <2>1. i \in 0..l - 1 /\ i \in 0..n /\ i + 1 \in 0..n /\ i \in 0..l /\ i + 1 \in 1..Len(vs)
    <3>1. n <= l /\ l \in Nat /\ Len(vs) \in Nat /\ n <= Len(vs) /\ n \in Nat
      OBVIOUS
    <3> HIDE DEF l
    <3> QED
      BY <3>1
  <2>2. MemberOk(d, ps, t, i)
    BY <1>1, <2>1
  <2> DEFINE t1 == t[i].next
             t2 == t[i + 1].next
             t3 == t[l].next
             j == t2 - t1
  <2>3. t1 \in Nat /\ t2 \in Nat /\ t3 \in Nat /\ t1 <= t2 /\ t2 <= t3
    BY <1>1, <2>2 DEF MemberOk
  <2>4. c[i] = t1 - next /\ c[i + 1] = t2 - next
    BY <2>1
  <2>5. next <= t1
    BY <1>1, <2>1
  <2>6. at + (t3 - next) <= lim
    OBVIOUS
  <2> HIDE DEF t1, t2, t3, c
  <2>7. c[i + 1] - c[i] = j /\ c[i] <= c[i + 1] /\ at + c[i + 1] <= lim
    <3> HIDE DEF lim, l
    <3>1. (t2 - next) - (t1 - next) = t2 - t1 /\ t1 - next <= t2 - next /\ t2 - next <= t3 - next
      BY <2>3, <2>5
    <3>2. at + (t2 - next) <= lim
      BY <1>1, <2>3, <2>6, <3>1
    <3> QED
      BY <2>4, <3>1, <3>2
  <2>8. vs[i + 1] \in ValueType[Depth] /\ vs[i + 1].k # "ref"
    <3>1. vs[i + 1] \in ValueType[Depth] /\ Depth \in 0..Depth
      BY <2>1, TermsAssumption
    <3> QED
      BY <3>1, NoPointers
  <2>9. ASSUME NEW M1 \in Memories, NEW a \in Nat, a + j <= lim
        PROVE  Within(M1, rd[M1][cs[i + 1]][vs[i + 1]][a], a, j)
    <3> DEFINE g == GenIn(d, ps[i + 1], t[i].sc, t[i].next)
    <3>1. BoundOk(d, ps[i + 1], t[i].sc, t[i].next, f, M1, vs[i + 1], a)
      <4>1. ps[i + 1] \in PatternType[d] /\ IsScope(t[i].sc) /\ t[i].next \in Nat
        BY <2>2 DEF MemberOk
      <4> QED
        BY <2>8, <4>1 DEF BoundsAt
    <3>2. cs[i + 1] = g.pat /\ j = g.next - t[i].next
      BY <2>2, Zenon DEF MemberOk, t1, t2
    <3>3. Within(M1, MatchIn(f, M1, cs[i + 1], vs[i + 1], a), a, j)
      BY <2>9, <3>1, <3>2, Zenon DEF BoundOk
    <3> HIDE DEF cs
    <3>4. rd[M1][cs[i + 1]][vs[i + 1]][a] = MatchIn(f, M1, cs[i + 1], vs[i + 1], a)
      BY DEF Does
    <3> QED
      BY <3>3, <3>4, Zenon
  <2>10. cs[i + 1].k # "ref"
    BY <2>2 DEF MemberOk
  <2>11. StepWithin(rd, cs, vs, c, lim, i)
    <3> HIDE DEF j, lim, cs
    <3> QED
      BY <2>7, <2>8, <2>9, <2>10, Zenon DEF StepWithin
  <2> QED
    BY <2>7, <2>11
<1>4. Within(M, MembersBy(rd, M, cs, vs, n, at), at, c[n])
  <2> HIDE DEF c, cs, lim
  <2> QED
    BY <1>1, <1>2, <1>3, LoopWithin
<1>5. c[n] = t[n].next - next
  BY <1>1
<1> QED
  BY <1>4, <1>5

\* Where the range of a list's pattern is.
EndsInRest(ps) == ps # <<>> /\ ps[Len(ps)].k = "rest"

LEMMA ChainPlain ==
    ASSUME NEW d \in 0..Depth, NEW ps \in Seq(PatternType[d]), RestLast(ps),
           NEW sc, IsScope(sc), NEW next \in Nat, NEW t, Chain(d, ps, sc, next, t)
    PROVE  /\ EndsInRest(ps) => /\ Len(ps) - 1 \in 0..Len(ps) - 1
                                /\ Plain(t[Len(ps)].pats) = Len(ps) - 1
           /\ ~EndsInRest(ps) => Plain(t[Len(ps)].pats) = Len(ps)
<1> DEFINE l == Len(ps)
           cs == t[l].pats
<1>1. /\ l \in Nat /\ Len(cs) = l
      /\ \A i \in 0..l - 1 : MemberOk(d, ps, t, i)
  BY ChainMembers
<1>2. ASSUME NEW i \in 1..l PROVE IsRange(cs[i]) <=> ps[i].k = "rest"
  <2>1. i - 1 \in 0..l - 1 /\ (i - 1) + 1 = i
    BY <1>1
  <2>2. MemberOk(d, ps, t, i - 1)
    BY <1>1, <2>1
  <2>3. IsRange(cs[(i - 1) + 1]) <=> ps[(i - 1) + 1].k = "rest"
    BY <2>2 DEF MemberOk
  <2> HIDE DEF cs
  <2> QED
    BY <2>1, <2>3
<1>3. \A i \in 1..l - 1 : ps[i].k # "rest"
  BY DEF RestLast
<1>4. ps = <<>> <=> l = 0
  OBVIOUS
<1> HIDE DEF cs, l
<1>5. CASE EndsInRest(ps)
  <2>1. l \in Nat \ {0} /\ ps[l].k = "rest" /\ l - 1 \in 0..l - 1 /\ l \in 1..l
    BY <1>1, <1>4, <1>5 DEF EndsInRest, l
  <2>2. IsRange(cs[l]) /\ \A i \in 1..l - 1 : ~IsRange(cs[i])
    BY <1>1, <1>2, <1>3, <2>1
  <2>3. Plain(cs) = l - 1
    BY <1>1, <2>1, <2>2, PlainButLast
  <2> QED
    BY <1>5, <2>1, <2>3 DEF l, cs
<1>6. CASE ~EndsInRest(ps)
  <2>1. \A i \in 1..l : i \in 1..l - 1 \/ (i = l /\ l # 0)
    BY <1>1
  <2>2. l # 0 => ps[l].k # "rest"
    BY <1>4, <1>6 DEF EndsInRest, l
  <2>3. \A i \in 1..l : ~IsRange(cs[i])
    BY <1>2, <1>3, <2>1, <2>2
  <2>4. Plain(cs) = l
    BY <1>1, <2>3, PlainAll
  <2> QED
    BY <1>6, <2>4 DEF l, cs
<1> QED
  BY <1>5, <1>6

LEMMA WithinFailed ==
    ASSUME NEW M \in Memories, NEW m, NEW at \in Nat, NEW k \in Nat, Within(M, m, at, k)
    PROVE  Within(M, Mismatch(m.mem), at, k)
BY DEF Within, Mismatch, Matched

\* A list that gen_pattern made.
LEMMA ListWithin ==
    ASSUME NEW d \in 0..Depth, BoundsAt(d), NEW ps \in Seq(PatternType[d]), RestLast(ps),
           NEW sc, IsScope(sc), NEW next \in Nat, NEW t, Chain(d, ps, sc, next, t),
           NEW f \in d + 1 + Depth..Calls, NEW rd, Does(rd, f), NEW M \in Memories,
           NEW v \in ValueType[Depth], v.k = "list", NEW at \in Nat,
           at + (t[Len(ps)].next - next) <= LastReg + 1
    PROVE  Within(M, ListBy(rd, M, t[Len(ps)].pats, v.ms, at), at, t[Len(ps)].next - next)
<1> DEFINE l == Len(ps)
           cs == t[l].pats
           vs == v.ms
           k == t[l].next - next
           R(n) == MembersBy(rd, M, cs, vs, n, at)
           lim == LastReg + 1
<1>1. /\ l \in Nat /\ Len(cs) = l /\ t[l].next \in Nat
      /\ \A i \in 0..l : t[i].next \in Nat /\ next <= t[i].next /\ t[i].next <= t[l].next
      /\ \A i \in 0..l - 1 : MemberOk(d, ps, t, i)
  BY ChainMembers
<1>2. vs \in Seq(ValueType[Depth]) /\ Len(vs) \in Nat /\ lim \in Nat
  BY ValueMembers, TermsAssumption
<1>3. k \in Nat
  <2>1. l \in 0..l
    BY <1>1
  <2>2. t[l].next \in Nat /\ next <= t[l].next
    BY <1>1, <2>1
  <2> QED
    BY <2>2
<1>4. ASSUME NEW n \in Nat, n <= l, n <= Len(vs)
      PROVE  /\ t[n].next - next \in Nat /\ Within(M, R(n), at, t[n].next - next)
             /\ Within(M, R(n), at, k)
  <2>1. n \in 0..l
    BY <1>1, <1>4
  <2>2. Within(M, R(n), at, t[n].next - next)
    BY <1>2, <1>4, <2>1, MembersWithin
  <2> DEFINE t1 == t[n].next
             t2 == t[l].next
  <2>3. t1 \in Nat /\ t2 \in Nat /\ next <= t1 /\ t1 <= t2
    BY <1>1, <2>1
  <2>4. t1 - next \in Nat /\ t1 - next <= t2 - next
    <3> HIDE DEF t1, t2
    <3> QED
      BY <2>3
  <2> HIDE DEF R
  <2>5. Within(M, R(n), at, k)
    BY <1>3, <2>2, <2>4, WithinMore
  <2> QED
    BY <2>2, <2>4, <2>5
<1>5. CASE ~EndsInRest(ps)
  <2> DEFINE n == IF l <= Len(vs) THEN l ELSE Len(vs)
  <2>1. n \in Nat /\ n <= l /\ n <= Len(vs)
    BY <1>1, <1>2
  <2>2. Plain(cs) = Len(cs)
    BY <1>1, <1>5, ChainPlain
  <2> DEFINE r == R(n)
  <2>3. ListBy(rd, M, cs, vs, at) = IF r.n = -1 THEN r
                                    ELSE IF Len(vs) = l THEN r ELSE Mismatch(r.mem)
    <3> HIDE DEF cs, l, vs
    <3> QED
      BY <1>1, <1>2, <2>2, ListNoRest
  <2>4. Within(M, r, at, k) /\ Within(M, Mismatch(r.mem), at, k)
    <3>1. Within(M, r, at, k)
      BY <1>4, <2>1
    <3> HIDE DEF r, k
    <3> QED
      BY <1>3, <3>1, WithinFailed
  <2> HIDE DEF r
  <2> QED
    BY <2>3, <2>4
<1>6. CASE EndsInRest(ps)
  <2> DEFINE q == l - 1
  <2>1. q \in Nat /\ q \in 0..l - 1 /\ Plain(cs) = q /\ l = q + 1 /\ q <= l
    BY <1>1, <1>6, ChainPlain
  <2> HIDE DEF q
  <2>2. CASE q <= Len(vs)
    <3> DEFINE r == R(q)
               w == List(SubSeq(vs, q + 1, Len(vs)))
               a == at + r.n
               m == rd[r.mem][cs[q + 1]][w][a]
    <3>1. ListBy(rd, M, cs, vs, at) = IF r.n = -1 THEN r ELSE WithRest(r, m)
      <4> HIDE DEF cs, vs, l
      <4> QED
        <5>1. Len(vs) \in Nat /\ q \in Nat /\ Plain(cs) = q /\ Len(cs) = q + 1 /\ q <= Len(vs)
          BY <1>1, <1>2, <2>1, <2>2 DEF l
        <5>2. /\ r = MembersBy(rd, M, cs, vs, q, at) /\ w = List(SubSeq(vs, q + 1, Len(vs)))
              /\ m = rd[r.mem][cs[q + 1]][w][at + r.n]
          BY Zenon
        <5> HIDE DEF r, w, m, a
        <5>3. LongList(rd, M, cs, vs, at, r, m)
          BY <5>1, <5>2, ListLong
        <5> QED
          BY <5>3, Zenon DEF LongList, WithRest
    <3>2. w \in ValueType[Depth]
      <4>1. q + 1 \in 1..Len(vs) + 1
        BY <1>2, <2>1, <2>2
      <4> QED
        BY <4>1, ValueMembers
    <3>3. MemberOk(d, ps, t, q)
      BY <1>1, <2>1
    <3> DEFINE k1 == t[q].next - next
               j == t[l].next - t[q].next
    <3>4. k1 \in Nat /\ Within(M, r, at, k1)
      BY <1>4, <2>1, <2>2
    <3>5. j \in Nat /\ k = k1 + j
      <4> DEFINE u1 == t[q].next
                 u2 == t[l].next
      <4>1. u1 \in Nat /\ u1 <= u2 /\ u2 \in Nat
        BY <1>1, <2>1
      <4>2. k = u2 - next /\ k1 = u1 - next /\ j = u2 - u1
        OBVIOUS
      <4> HIDE DEF u1, u2, k, k1, j
      <4> QED
        BY <4>1, <4>2
    <3>6. at + k <= lim /\ a = at + r.n
      OBVIOUS
    <3>7. RoundFits(M, r, m, at, k1, j, lim, k, a)
      <4> HIDE DEF k, k1, j, r, m, a, lim
      <4> QED
        BY <1>2, <1>3, <3>4, <3>5, <3>6, RoundWithin
    <3>8. r.n # -1 => Within(r.mem, m, a, j)
      <4> HIDE DEF r, a, w
      <4> SUFFICES ASSUME r.n # -1 PROVE Within(r.mem, m, a, j)
        BY Zenon
      <4>1. r.mem \in Memories /\ a \in Nat /\ a + j <= lim
        BY <3>7, Zenon DEF RoundFits
      <4>2. BoundOk(d, ps[q + 1], t[q].sc, t[q].next, f, r.mem, w, a)
        <5>1. ps[q + 1] \in PatternType[d] /\ IsScope(t[q].sc) /\ t[q].next \in Nat
          BY <3>3 DEF MemberOk
        <5> QED
          BY <3>2, <4>1, <5>1 DEF BoundsAt
      <4> DEFINE g == GenIn(d, ps[q + 1], t[q].sc, t[q].next)
      <4>3. cs[q + 1] = g.pat /\ t[q + 1].next = g.next
        BY <3>3 DEF MemberOk
      <4>4. j = g.next - t[q].next
        BY <2>1, <4>3
      <4>5. Within(r.mem, MatchIn(f, r.mem, cs[q + 1], w, a), a, j)
        BY <4>1, <4>2, <4>3, <4>4, Zenon DEF BoundOk
      <4> HIDE DEF cs
      <4>6. m = MatchIn(f, r.mem, cs[q + 1], w, a)
        BY DEF Does
      <4> QED
        BY <4>5, <4>6, Zenon
    <3> HIDE DEF r, m, a
    <3> QED
      BY <3>1, <3>7, <3>8 DEF RoundFits
  <2>3. CASE ~(q <= Len(vs))
    <3> DEFINE r == R(Len(vs))
    <3>1. ListBy(rd, M, cs, vs, at) = IF r.n = -1 THEN r ELSE Mismatch(r.mem)
      <4>1. r = MembersBy(rd, M, cs, vs, Len(vs), at)
        OBVIOUS
      <4>2. Len(cs) = q + 1
        BY <1>1, <2>1
      <4> HIDE DEF cs, vs, l, r
      <4> QED
        <5>1. Len(vs) \in Nat /\ q \in Nat /\ Plain(cs) = q /\ ~(q <= Len(vs))
          BY <1>2, <2>1, <2>3
        <5> QED
          BY <4>1, <4>2, <5>1, ListShort
    <3>2. Len(vs) <= l
      <4> HIDE DEF l, vs
      <4> QED
        BY <1>1, <1>2, <2>1, <2>3
    <3>3. Within(M, r, at, k)
      BY <1>2, <1>4, <3>2
    <3> HIDE DEF r, k
    <3>4. Within(M, Mismatch(r.mem), at, k)
      BY <1>3, <3>3, WithinFailed
    <3> QED
      BY <3>1, <3>3, <3>4, Zenon DEF k
  <2> QED
    BY <2>2, <2>3
<1> QED
  BY <1>5, <1>6

\* What gen_pattern makes of a name: compares, or binds.
LEMMA NameMade ==
    ASSUME NEW d \in 0..Depth, NEW p \in PatternType[d], NEW sc, IsScope(sc), NEW next \in Nat,
           p.k \in {"ident", "rest"}, NEW g, g = GenIn(d, p, sc, next)
    PROVE  /\ p.x \in DOMAIN sc => /\ g.pat.k = "var" /\ g.pat.reg = sc[p.x] /\ g.pat.reg \in Nat
                                   /\ g.pat \in CompiledType[Depth]
                                   /\ g.sc = sc /\ g.next = next
                                   /\ IsRange(g.pat) <=> p.k = "rest"
           /\ p.x \notin DOMAIN sc => /\ g.pat.k = "any" /\ g.pat \in CompiledType[Depth]
                                      /\ g.sc = Bind(sc, p.x, next) /\ g.next = next + 1
<1>1. g = GenPatternIdent(p.x, p.k = "rest", sc, next)
  BY GenName
<1>2. Depth \in 0..Depth /\ (p.k = "rest") \in BOOLEAN
  BY TermsAssumption
<1>3. CASE p.x \in DOMAIN sc
  <2>1. sc[p.x] \in Nat
    BY <1>3 DEF IsScope
  <2>2. g = [pat |-> [k |-> "var", reg |-> sc[p.x], range |-> (p.k = "rest")],
             sc |-> sc, next |-> next]
    BY <1>1, <1>3, Zenon DEF GenPatternIdent
  <2>3. g.pat \in [k : {"any", "var"}, reg : Nat, range : BOOLEAN]
    BY <1>2, <2>1, <2>2
  <2>4. g.pat \in CompiledType[Depth]
    BY <1>2, <2>3, CompiledLeaf
  <2>5. IsRange(g.pat) <=> p.k = "rest"
    BY GenRight, Zenon DEF GenRightAt, GenOk
  <2> QED
    BY <1>3, <2>1, <2>2, <2>4, <2>5
<1>4. CASE p.x \notin DOMAIN sc
  <2>2. g = [pat |-> [k |-> "any", reg |-> next, range |-> (p.k = "rest")],
             sc |-> Bind(sc, p.x, next), next |-> next + 1]
    BY <1>1, <1>4, Zenon DEF GenPatternIdent
  <2>3. g.pat \in [k : {"any", "var"}, reg : Nat, range : BOOLEAN]
    BY <1>2, <2>2
  <2>4. g.pat \in CompiledType[Depth]
    BY <1>2, <2>3, CompiledLeaf
  <2> QED
    BY <1>4, <2>2, <2>4
<1> QED
  BY <1>3, <1>4

\* A variable binds the next register.
LEMMA FreshVariable ==
    ASSUME NEW f \in 0..Calls, NEW M \in Memories, NEW p \in CompiledType[Depth],
           NEW v \in ValueType[Depth], NEW at \in Registers, p.k = "any"
    PROVE  /\ MatchIn(f, M, p, v, at) = Matched(1, Store(M, at, v))
           /\ Within(M, MatchIn(f, M, p, v, at), at, 1)
<1>1. at \in Nat
  BY TermsAssumption DEF Registers
<1>2. MatchIn(f, M, p, v, at) = Matched(1, Store(M, at, v))
  BY <1>1, MatchAny
<1>3. /\ Store(M, at, v) \in Memories
      /\ \A r \in Registers : r # at => Store(M, at, v)[r] = M[r]
  BY StoreIn
<1>4. at \in at..at + 1 - 1 /\ 1 \in -1..1
  BY <1>1
<1> QED
  BY <1>2, <1>3, <1>4 DEF Within, Matched

LEMMA LeafWithin ==
    ASSUME NEW d \in 0..Depth, NEW p \in PatternType[d], NEW sc, IsScope(sc), NEW next \in Nat,
           p \in Simple \/ p \in [k : {"ident", "rest"}, x : Names],
           NEW f \in d + 1 + Depth..Calls, NEW M \in Memories, NEW v \in ValueType[Depth],
           NEW at \in Nat
    PROVE  BoundOk(d, p, sc, next, f, M, v, at)
<1> DEFINE g == GenIn(d, p, sc, next)
           m == MatchIn(f, M, g.pat, v, at)
<1>1. f \in 0..Calls /\ f \in Depth + 1..Calls
  BY TermsAssumption DEF Calls
<1>2. CASE p \in Simple
  <2>1. g = [pat |-> p, sc |-> sc, next |-> next]
    BY <1>2, GenSimple
  <2>2. g.pat = p /\ g.next - next = 0
    BY <2>1
  <2>3. MatchIn(f, M, p, v, at) = IF p = v THEN Matched(0, M) ELSE Mismatch(M)
    BY <1>1, <1>2, MatchSimple
  <2>4. Within(M, MatchIn(f, M, p, v, at), at, 0)
    BY <2>3, WithinNothing
  <2> HIDE DEF g
  <2> QED
    BY <2>2, <2>4 DEF BoundOk, g
<1>3. CASE p \in [k : {"ident", "rest"}, x : Names]
  <2>1. p.k \in {"ident", "rest"}
    BY <1>3
  <2>2. CASE p.x \in DOMAIN sc
    <3>1. g.pat.k = "var" /\ g.pat.reg \in Nat /\ g.pat \in CompiledType[Depth] /\ g.next = next
      <4>1. g = GenIn(d, p, sc, next)
        OBVIOUS
      <4> HIDE DEF g
      <4> QED
        BY <2>1, <2>2, <4>1, NameMade
    <3> HIDE DEF g
    <3>2. m = Equal(Slot(M, g.pat.reg), v, M) /\ g.next - next = 0
      BY <1>1, <3>1, BoundVariable
    <3>3. Within(M, m, at, 0)
      BY <3>2, WithinNothing DEF Equal
    <3> QED
      BY <3>2, <3>3 DEF BoundOk, g
  <2>3. CASE p.x \notin DOMAIN sc
    <3>1. g.pat.k = "any" /\ g.pat \in CompiledType[Depth] /\ g.next = next + 1
      <4>1. g = GenIn(d, p, sc, next)
        OBVIOUS
      <4> HIDE DEF g
      <4> QED
        BY <2>1, <2>3, <4>1, NameMade
    <3> HIDE DEF g
    <3>2. g.next - next = 1
      BY <3>1
    <3>3. ASSUME at + 1 <= LastReg + 1 PROVE Within(M, m, at, 1)
      <4>1. at \in Registers
        BY <3>3, TermsAssumption DEF Registers
      <4> QED
        BY <1>1, <3>1, <4>1, FreshVariable
    <3> QED
      BY <3>2, <3>3 DEF BoundOk, g
  <2> QED
    BY <2>2, <2>3
<1> QED
  BY <1>2, <1>3

\* A tuple or list that gen_pattern made.
LEMMA CompositeWithin ==
    ASSUME NEW n \in Nat, n + 1 \in 0..Depth, BoundsAt(n), NEW p \in PatternType[n + 1],
           p.k \in {"tuple", "list"}, NEW sc, IsScope(sc), NEW next \in Nat,
           NEW f \in (n + 1) + 1 + Depth..Calls, NEW M \in Memories, NEW v \in ValueType[Depth],
           NEW at \in Nat
    PROVE  BoundOk(n + 1, p, sc, next, f, M, v, at)
<1> DEFINE g == GenIn(n + 1, p, sc, next)
           k == g.next - next
           m == MatchIn(f, M, g.pat, v, at)
<1>1. /\ n \in 0..Depth /\ n + 1 \in 1..Depth /\ (n + 1) - 1 = n
      /\ f \in 1..Calls /\ f \in 0..Calls /\ f - 1 \in n + 1 + Depth..Calls
  BY TermsAssumption DEF Calls
<1>2. p.ms \in Seq(PatternType[n]) /\ RestLast(p.ms)
  <2>1. p \notin Simple /\ ~(p \in [k : {"ident", "rest"}, x : Names])
    BY SimpleKind
  <2>2. p.ms \in Seq(PatternType[n]) /\ (RestNever(p.ms) \/ RestLast(p.ms))
    BY <1>1, <2>1, PatternKind
  <2>3. RestNever(p.ms) => RestLast(p.ms)
    BY <2>2 DEF RestNever, RestLast
  <2> QED
    BY <2>2, <2>3
<1>3. GenRightAt(n) /\ GenRightAt(n + 1)
  BY <1>1, GenRight
<1>4. PICK t : MadeOf(n, p, sc, next, t)
  BY <1>1, <1>3, GenMadeOf
<1> DEFINE ps == p.ms
           l == Len(ps)
           cs == t[l].pats
<1>5. /\ Chain(n, ps, sc, next, t)
      /\ g.pat = [k |-> p.k, ms |-> cs] /\ g.sc = t[l].sc /\ g.next = t[l].next
  BY <1>4 DEF MadeOf
<1>6. GenOk(n + 1, p, sc, next)
  BY <1>3 DEF GenRightAt
<1>7. k \in Nat /\ g.pat \in CompiledType[n + 1]
  <2>1. g.next \in Nat /\ next <= g.next /\ g.pat \in CompiledType[n + 1]
    BY <1>6 DEF GenOk, Grown
  <2> HIDE DEF g
  <2> QED
    BY <2>1
<1>8. g.pat \in CompiledType[Depth]
  BY <1>7, CompiledGrow
<1>9. k = t[l].next - next /\ g.pat.k = p.k /\ g.pat.ms = cs
  BY <1>5
<1>10. Does(Inner(f), f - 1)
  BY <1>1, InnerDoes
<1>11. /\ l \in Nat /\ l \in 0..l /\ Len(cs) = l
  BY <1>1, <1>2, <1>5, ChainMembers
<1> SUFFICES ASSUME at + k <= LastReg + 1 PROVE Within(M, m, at, k)
  BY DEF BoundOk
<1>12. at + (t[l].next - next) <= LastReg + 1
  BY <1>9
<1>13. CASE p.k # v.k
  <2>1. g.pat.k \notin {"any", "var"} /\ g.pat.k # v.k
    BY <1>9, <1>13
  <2> HIDE DEF g, k
  <2>2. m = Mismatch(M)
    BY <1>1, <1>8, <2>1, MatchKinds
  <2> QED
    BY <1>7, <2>2, WithinNothing
<1>14. CASE p.k = "tuple" /\ v.k = "tuple"
  <2> HIDE DEF g, cs
  <2>1. m = IF Len(cs) # Len(v.ms) THEN Mismatch(M)
            ELSE MembersBy(Inner(f), M, cs, v.ms, Len(cs), at)
    <3>1. g.pat.k = "tuple"
      BY <1>9, <1>14
    <3>2. m = IF Len(g.pat.ms) # Len(v.ms) THEN Mismatch(M)
              ELSE MembersBy(Inner(f), M, g.pat.ms, v.ms, Len(g.pat.ms), at)
      BY <1>1, <1>8, <1>14, <3>1, MatchTuples
    <3> QED
      BY <1>9, <3>2
  <2>2. CASE Len(cs) # Len(v.ms)
    BY <1>7, <2>1, <2>2, WithinNothing
  <2>3. CASE Len(cs) = Len(v.ms)
    <3>1. v.ms \in Seq(ValueType[Depth]) /\ l <= Len(v.ms)
      BY <1>11, <1>14, <2>3, ValueMembers
    <3>2. Within(M, MembersBy(Inner(f), M, cs, v.ms, l, at), at, t[l].next - next)
      BY <1>1, <1>2, <1>5, <1>10, <1>11, <1>12, <3>1, MembersWithin DEF cs
    <3>3. m = MembersBy(Inner(f), M, cs, v.ms, l, at)
      BY <1>11, <2>1, <2>3
    <3> HIDE DEF m, k
    <3> QED
      BY <1>9, <3>2, <3>3
  <2> QED
    BY <2>2, <2>3
<1>15. CASE p.k = "list" /\ v.k = "list"
  <2> HIDE DEF g, cs
  <2>1. m = ListBy(Inner(f), M, cs, v.ms, at)
    <3>1. g.pat.k = "list"
      BY <1>9, <1>15
    <3>2. m = ListBy(Inner(f), M, g.pat.ms, v.ms, at)
      BY <1>1, <1>8, <1>15, <3>1, MatchLists
    <3> QED
      BY <1>9, <3>2
  <2>2. Within(M, ListBy(Inner(f), M, cs, v.ms, at), at, t[l].next - next)
    BY <1>1, <1>2, <1>5, <1>10, <1>12, <1>15, ListWithin DEF cs
  <2> HIDE DEF m, k
  <2> QED
    BY <1>9, <2>1, <2>2
<1> QED
  BY <1>13, <1>14, <1>15

\* match writes only to the registers that gen_pattern counted.
LEMMA Bounds ==
    ASSUME NEW d \in 0..Depth
    PROVE  BoundsAt(d)
<1> DEFINE S == {n \in Nat : n \in 0..Depth => BoundsAt(n)}
<1>1. 0 \in S
  <2>1. 0 \in 0..Depth
    BY TermsAssumption
  <2>2. \A p \in PatternType[0] : p \in Simple \/ p \in [k : {"ident", "rest"}, x : Names]
    BY <2>1, PatternKind
  <2>3. BoundsAt(0)
    BY <2>1, <2>2, LeafWithin DEF BoundsAt
  <2> QED
    BY <2>3
<1>2. ASSUME NEW n \in S PROVE n + 1 \in S
  <2>1. n \in Nat /\ n + 1 \in Nat
    OBVIOUS
  <2> SUFFICES ASSUME n + 1 \in 0..Depth PROVE BoundsAt(n + 1)
    BY <2>1
  <2>2. n \in 0..Depth /\ BoundsAt(n)
    BY <2>1, TermsAssumption
  <2> HIDE DEF S
  <2> SUFFICES ASSUME NEW p \in PatternType[n + 1], NEW sc, NEW next, IsScope(sc), next \in Nat,
                      NEW f \in (n + 1) + 1 + Depth..Calls, NEW M \in Memories,
                      NEW v \in ValueType[Depth], NEW at \in Nat
               PROVE  BoundOk(n + 1, p, sc, next, f, M, v, at)
    BY Zenon DEF BoundsAt
  <2>3. \/ p \in Simple \/ p \in [k : {"ident", "rest"}, x : Names]
        \/ p.k \in {"tuple", "list"}
    BY PatternKind
  <2>4. CASE p \in Simple \/ p \in [k : {"ident", "rest"}, x : Names]
    BY <2>4, LeafWithin
  <2>5. CASE p.k \in {"tuple", "list"}
    BY <2>1, <2>2, <2>5, CompositeWithin
  <2> QED
    BY <2>3, <2>4, <2>5
<1>3. S = Nat
  <2> HIDE DEF S
  <2> QED
    BY <1>1, <1>2, SetInduction DEF S
<1> QED
  BY <1>3, TermsAssumption

-----------------------------------------------------------------------------
(* What the loop over members comes to, one member at a time.              *)

LoopNext(rd, M, ps, vs, n, at) ==
    MembersBy(rd, M, ps, vs, n + 1, at)
      = MatchRound(rd, ps, vs, at, n + 1, MembersBy(rd, M, ps, vs, n, at))

LEMMA MembersFirst ==
    ASSUME NEW rd, NEW M, NEW ps, NEW vs, NEW at
    PROVE  MembersBy(rd, M, ps, vs, 0, at) = Matched(0, M)
<1>1. PICK s : MatchRounds(rd, M, ps, vs, 0, at, s)
  BY MatchLoop
<1> QED
  BY <1>1 DEF MatchRounds

LEMMA MembersNext ==
    ASSUME NEW rd, NEW M, NEW ps, NEW vs, NEW n \in Nat, NEW at
    PROVE  LoopNext(rd, M, ps, vs, n, at)
<1>1. PICK s : MatchRounds(rd, M, ps, vs, n, at, s)
  BY MatchLoop
<1>2. PICK u : MatchRounds(rd, M, ps, vs, n + 1, at, u)
  BY MatchLoop
<1>3. /\ s[0] = u[0] /\ MembersBy(rd, M, ps, vs, n, at) = s[n]
      /\ MembersBy(rd, M, ps, vs, n + 1, at) = u[n + 1]
      /\ \A i \in 1..n : s[i] = MatchRound(rd, ps, vs, at, i, s[i - 1])
      /\ \A i \in 1..n + 1 : u[i] = MatchRound(rd, ps, vs, at, i, u[i - 1])
  BY <1>1, <1>2 DEF MatchRounds
<1> DEFINE T == {i \in Nat : i \in 0..n => s[i] = u[i]}
<1>4. 0 \in T
  BY <1>3
<1>5. ASSUME NEW i \in T PROVE i + 1 \in T
  <2>1. i \in Nat /\ i + 1 \in Nat /\ (i + 1) - 1 = i
    OBVIOUS
  <2> SUFFICES ASSUME i + 1 \in 0..n PROVE s[i + 1] = u[i + 1]
    BY <2>1
  <2>2. i \in 0..n /\ i + 1 \in 1..n /\ i + 1 \in 1..n + 1
    BY <2>1
  <2>3. s[i] = u[i]
    BY <2>2
  <2>4. s[i + 1] = MatchRound(rd, ps, vs, at, i + 1, s[i])
    BY <1>3, <2>1, <2>2, Zenon
  <2>5. u[i + 1] = MatchRound(rd, ps, vs, at, i + 1, u[i])
    BY <1>3, <2>1, <2>2, Zenon
  <2> QED
    BY <2>3, <2>4, <2>5, Zenon
<1>6. T = Nat
  <2> HIDE DEF T
  <2> QED
    BY <1>4, <1>5, SetInduction DEF T
<1>7. n \in T /\ n \in 0..n
  BY <1>6
<1>8. s[n] = u[n]
  BY <1>7
<1>9. n + 1 \in 1..n + 1 /\ (n + 1) - 1 = n
  OBVIOUS
<1>10. u[n + 1] = MatchRound(rd, ps, vs, at, n + 1, u[n])
  BY <1>3, <1>9, Zenon
<1> QED
  BY <1>3, <1>8, <1>10, Zenon DEF LoopNext

\* It looks at the first members only.
LEMMA MembersSame ==
    ASSUME NEW rd, NEW M, NEW ps, NEW vs, NEW ws, NEW n \in Nat, NEW at,
           \A i \in 1..n : vs[i] = ws[i]
    PROVE  MembersBy(rd, M, ps, vs, n, at) = MembersBy(rd, M, ps, ws, n, at)
<1> DEFINE A(i) == MembersBy(rd, M, ps, vs, i, at)
           B(i) == MembersBy(rd, M, ps, ws, i, at)
           T == {i \in Nat : i \in 0..n => A(i) = B(i)}
<1>1. 0 \in T
  <2>1. A(0) = B(0)
    BY MembersFirst, Zenon
  <2> HIDE DEF A, B
  <2> QED
    BY <2>1
<1>2. ASSUME NEW i \in T PROVE i + 1 \in T
  <2>1. i \in Nat /\ i + 1 \in Nat /\ (i + 1) - 1 = i
    OBVIOUS
  <2> SUFFICES ASSUME i + 1 \in 0..n PROVE A(i + 1) = B(i + 1)
    BY <2>1
  <2>2. i \in 0..n /\ i + 1 \in 1..n
    BY <2>1
  <2>3. A(i) = B(i)
    BY <2>2
  <2>4. LoopNext(rd, M, ps, vs, i, at) /\ LoopNext(rd, M, ps, ws, i, at)
    BY <2>1, MembersNext
  <2>5. vs[i + 1] = ws[i + 1]
    BY <2>2
  <2>6. \A r : MatchRound(rd, ps, vs, at, i + 1, r) = MatchRound(rd, ps, ws, at, i + 1, r)
    BY <2>5, Zenon DEF MatchRound
  <2> QED
    BY <2>3, <2>4, <2>6, Zenon DEF LoopNext
<1>3. T = Nat
  <2> HIDE DEF T
  <2> QED
    BY <1>1, <1>2, SetInduction DEF T
<1>4. n \in T /\ n \in 0..n
  BY <1>3
<1> QED
  BY <1>4

-----------------------------------------------------------------------------
(* What a pattern means, what is a part of a value, and where a range      *)
(* compares, by the kind of pattern or value.                              *)

InstIn(b, d, p, v) == InstanceIn(b)[d][p][v]

LEMMA InstStep ==
    ASSUME NEW b, NEW d \in 0..Depth, NEW p \in PatternType[d], NEW v \in ValueType[Depth]
    PROVE  InstIn(b, d, p, v) = InstanceOne(Before(InstanceIn(b), d), p, v, b)
<1>1. InstanceIn(b)[d] = InstanceAt(d, b, Before(InstanceIn(b), d))
  BY InstanceDef
<1>2. InstanceIn(b)[d][p] = [w \in ValueType[Depth] |-> InstanceOne(Before(InstanceIn(b), d), p, w, b)]
  BY <1>1, Zenon DEF InstanceAt
<1>3. InstanceIn(b)[d][p][v] = InstanceOne(Before(InstanceIn(b), d), p, v, b)
  BY <1>2, Zenon
<1> QED
  BY <1>3, Zenon DEF InstIn

LEMMA InstSimple ==
    ASSUME NEW b, NEW d \in 0..Depth, NEW p \in PatternType[d], NEW v \in ValueType[Depth],
           p \in Simple
    PROVE  InstIn(b, d, p, v) <=> p = v
<1>1. p.k # "ident" /\ p.k # "rest" /\ p.k # "tuple" /\ p.k # "list"
  BY SimpleKind
<1>2. InstanceOne(Before(InstanceIn(b), d), p, v, b) <=> p = v
  BY <1>1 DEF InstanceOne, Instantiates
<1> QED
  BY <1>2, InstStep, Zenon

LEMMA InstName ==
    ASSUME NEW b, NEW d \in 0..Depth, NEW p \in PatternType[d], NEW v \in ValueType[Depth],
           p.k \in {"ident", "rest"}
    PROVE  InstIn(b, d, p, v) <=> b[p.x] = v
<1>1. p.k # "tuple" /\ p.k # "list"
  OBVIOUS
<1>2. InstanceOne(Before(InstanceIn(b), d), p, v, b) <=> b[p.x] = v
  BY <1>1 DEF InstanceOne, Instantiates
<1> QED
  BY <1>2, InstStep, Zenon

\* The members that are instances, as many as the pattern has.
InstMembers(b, n, ps, ws) == \A i \in 1..Len(ps) : InstIn(b, n, ps[i], ws[i])

LEMMA InstTuple ==
    ASSUME NEW b, NEW n \in Nat, n + 1 \in 0..Depth, NEW p \in PatternType[n + 1],
           NEW v \in ValueType[Depth], p.k = "tuple"
    PROVE  InstIn(b, n + 1, p, v) <=> /\ v.k = "tuple" /\ Len(v.ms) = Len(p.ms)
                                      /\ InstMembers(b, n, p.ms, v.ms)
<1>1. n + 1 # 0 /\ (n + 1) - 1 = n
  OBVIOUS
<1>2. Before(InstanceIn(b), n + 1) = InstanceIn(b)[n]
  BY <1>1 DEF Before
<1>3. p.k # "ident" /\ p.k # "rest" /\ p.k # "list"
  OBVIOUS
<1>4. InstanceOne(InstanceIn(b)[n], p, v, b)
        <=> /\ v.k = "tuple" /\ Len(v.ms) = Len(p.ms)
            /\ \A i \in 1..Len(p.ms) : InstanceIn(b)[n][p.ms[i]][v.ms[i]]
  BY <1>3 DEF InstanceOne, Instantiates
<1>5. InstIn(b, n + 1, p, v) = InstanceOne(InstanceIn(b)[n], p, v, b)
  BY <1>2, InstStep, Zenon
<1>6. InstMembers(b, n, p.ms, v.ms)
        <=> \A i \in 1..Len(p.ms) : InstanceIn(b)[n][p.ms[i]][v.ms[i]]
  BY Zenon DEF InstMembers, InstIn
<1> QED
  BY <1>4, <1>5, <1>6, Zenon

LEMMA InstList ==
    ASSUME NEW b, NEW n \in Nat, n + 1 \in 0..Depth, NEW p \in PatternType[n + 1],
           NEW v \in ValueType[Depth], p.k = "list"
    PROVE  /\ ~EndsInRest(p.ms) => (InstIn(b, n + 1, p, v) <=> /\ v.k = "list" /\ Len(v.ms) = Len(p.ms)
                                                               /\ InstMembers(b, n, p.ms, v.ms))
           /\ EndsInRest(p.ms) =>
                (InstIn(b, n + 1, p, v) <=>
                   /\ v.k = "list" /\ Len(v.ms) >= Len(p.ms) - 1
                   /\ \A i \in 1..Len(p.ms) - 1 : InstIn(b, n, p.ms[i], v.ms[i])
                   /\ InstIn(b, n, p.ms[Len(p.ms)], List(SubSeq(v.ms, Len(p.ms), Len(v.ms)))))
<1>1. n + 1 # 0 /\ (n + 1) - 1 = n
  OBVIOUS
<1>2. Before(InstanceIn(b), n + 1) = InstanceIn(b)[n]
  BY <1>1 DEF Before
<1>3. p.k # "ident" /\ p.k # "rest" /\ p.k # "tuple"
  OBVIOUS
<1>4. ASSUME ~EndsInRest(p.ms)
      PROVE  InstanceOne(InstanceIn(b)[n], p, v, b)
                <=> /\ v.k = "list" /\ Len(v.ms) = Len(p.ms)
                    /\ \A i \in 1..Len(p.ms) : InstanceIn(b)[n][p.ms[i]][v.ms[i]]
  BY <1>3, <1>4 DEF InstanceOne, Instantiates, EndsInRest
<1>5. ASSUME EndsInRest(p.ms)
      PROVE  InstanceOne(InstanceIn(b)[n], p, v, b)
                <=> /\ v.k = "list" /\ Len(v.ms) >= Len(p.ms) - 1
                    /\ \A i \in 1..Len(p.ms) - 1 : InstanceIn(b)[n][p.ms[i]][v.ms[i]]
                    /\ InstanceIn(b)[n][p.ms[Len(p.ms)]][List(SubSeq(v.ms, Len(p.ms), Len(v.ms)))]
  BY <1>3, <1>5 DEF InstanceOne, Instantiates, EndsInRest
<1>6. InstIn(b, n + 1, p, v) = InstanceOne(InstanceIn(b)[n], p, v, b)
  BY <1>2, InstStep, Zenon
<1>7. CASE ~EndsInRest(p.ms)
  BY <1>4, <1>6, <1>7, Zenon DEF InstMembers, InstIn
<1>8. CASE EndsInRest(p.ms)
  BY <1>5, <1>6, <1>8, Zenon DEF InstIn
<1> QED
  BY <1>7, <1>8, Zenon

\* y is a part of v.
PartOf(y, v) == \A e \in 0..Depth : v \in ValueType[e] => y \in ValueParts[e][v]

LEMMA PartsStep ==
    ASSUME NEW e \in 0..Depth, NEW v \in ValueType[e]
    PROVE  ValueParts[e][v] =
             {v} \cup (IF v.k \in {"tuple", "list"}
                         THEN UNION {Before(ValueParts, e)[v.ms[i]] : i \in 1..Len(v.ms)} ELSE {})
                 \cup (IF v.k = "list"
                         THEN {List(SubSeq(v.ms, i, Len(v.ms))) : i \in 1..Len(v.ms) + 1}
                         ELSE {})
<1>1. ValueParts[e] = PartsAt(e, Before(ValueParts, e))
  BY ValuePartsDef
<1> QED
  BY <1>1 DEF PartsAt

LEMMA PartSelf ==
    ASSUME NEW v
    PROVE  PartOf(v, v)
BY PartsStep DEF PartOf

LEMMA PartMember ==
    ASSUME NEW v, v.k \in {"tuple", "list"}, NEW i \in 1..Len(v.ms), NEW y, PartOf(y, v.ms[i])
    PROVE  PartOf(y, v)
<1> SUFFICES ASSUME NEW e \in 0..Depth, v \in ValueType[e] PROVE y \in ValueParts[e][v]
  BY DEF PartOf
<1>1. v \notin Simple
  BY SimpleKind
<1>2. e \in 1..Depth /\ e - 1 \in 0..Depth /\ e # 0 /\ v.ms \in Seq(ValueType[e - 1])
  BY <1>1, ValueKind
<1>3. v.ms[i] \in ValueType[e - 1]
  BY <1>2
<1>4. y \in ValueParts[e - 1][v.ms[i]]
  BY <1>2, <1>3 DEF PartOf
<1>5. Before(ValueParts, e) = ValueParts[e - 1]
  BY <1>2 DEF Before
<1>6. UNION {ValueParts[e - 1][v.ms[j]] : j \in 1..Len(v.ms)} \subseteq ValueParts[e][v]
  BY <1>5, PartsStep
<1> QED
  BY <1>4, <1>6

\* A compiled pattern without a bound range has none in its members.
LEMMA RestsNone ==
    ASSUME NEW d \in 0..Depth, NEW p \in CompiledType[d], BoundRests[d][p] = {}
    PROVE  /\ ~(p.k = "var" /\ IsRange(p))
           /\ p.k \in {"tuple", "list"} =>
                \A i \in 1..Len(p.ms) : Before(BoundRests, d)[p.ms[i]] = {}
<1>1. BoundRests[d] = RestsAt(d, Before(BoundRests, d))
  BY BoundRestsDef
<1>2. BoundRests[d][p] =
        CASE p.k = "var" /\ p.range -> {p.reg}
          [] p.k \in {"tuple", "list"} ->
               UNION {Before(BoundRests, d)[p.ms[i]] : i \in 1..Len(p.ms)}
          [] OTHER -> {}
  BY <1>1 DEF RestsAt
<1>3. CASE p.k = "var" /\ p.range
  <2>1. BoundRests[d][p] = {p.reg}
    BY <1>2, <1>3
  <2> QED
    BY <2>1
<1>4. CASE ~(p.k = "var" /\ p.range) /\ p.k \in {"tuple", "list"}
  <2>1. BoundRests[d][p] = UNION {Before(BoundRests, d)[p.ms[i]] : i \in 1..Len(p.ms)}
    BY <1>2, <1>4
  <2> QED
    BY <1>4, <2>1 DEF IsRange
<1>5. CASE ~(p.k = "var" /\ p.range) /\ ~(p.k \in {"tuple", "list"})
  BY <1>5 DEF IsRange
<1> QED
  BY <1>3, <1>4, <1>5

\* What is left of a list has no other parts.
LEMMA PartTail ==
    ASSUME NEW v, v.k = "list", NEW i \in 1..Len(v.ms) + 1, NEW y,
           PartOf(y, List(SubSeq(v.ms, i, Len(v.ms))))
    PROVE  PartOf(y, v)
<1> SUFFICES ASSUME NEW e \in 0..Depth, v \in ValueType[e] PROVE y \in ValueParts[e][v]
  BY DEF PartOf
<1> DEFINE vs == v.ms
           l == Len(vs)
           u == SubSeq(vs, i, l)
           w == List(u)
           In == Before(ValueParts, e)
<1>1. v \notin Simple
  BY SimpleKind
<1>2. e \in 1..Depth /\ vs \in Seq(ValueType[e - 1])
  BY <1>1, ValueKind
<1>3. l \in Nat /\ i \in 1..l + 1
  BY <1>2
<1>4. /\ u \in Seq(ValueType[e - 1]) /\ Len(u) = l - i + 1
      /\ \A j \in 1..l - i + 1 : u[j] = vs[i + j - 1]
  <2>1. i \in Int /\ l \in Int /\ \A j \in i..l : vs[j] \in ValueType[e - 1]
    BY <1>2, <1>3
  <2>2. u \in Seq(ValueType[e - 1])
    BY <2>1, SubSeqProperties
  <2> QED
    BY <1>2, <1>3, <2>2
<1>5. w \in ValueType[e] /\ w.k = "list" /\ w.ms = u
  BY <1>2, <1>4, ValueMade DEF List
<1>6. y \in ValueParts[e][w]
  BY <1>5 DEF PartOf
<1> HIDE DEF w
<1>7. \/ y = w
      \/ \E j \in 1..Len(u) : y \in In[u[j]]
      \/ \E j \in 1..Len(u) + 1 : y = List(SubSeq(u, j, Len(u)))
  <2>1. ValueParts[e][w] =
          {w} \cup (UNION {In[w.ms[j]] : j \in 1..Len(w.ms)})
              \cup {List(SubSeq(w.ms, j, Len(w.ms))) : j \in 1..Len(w.ms) + 1}
    BY <1>5, PartsStep
  <2> QED
    BY <1>5, <1>6, <2>1, Zenon
<1>8. ValueParts[e][v] =
        {v} \cup (UNION {In[vs[j]] : j \in 1..l}) \cup {List(SubSeq(vs, j, l)) : j \in 1..l + 1}
  BY PartsStep
<1> HIDE DEF In
<1>9. CASE y = w
  BY <1>3, <1>8, <1>9 DEF w
<1>10. CASE \E j \in 1..Len(u) : y \in In[u[j]]
  <2>1. PICK j \in 1..Len(u) : y \in In[u[j]]
    BY <1>10
  <2>2. i + j - 1 \in 1..l /\ u[j] = vs[i + j - 1]
    BY <1>3, <1>4, <2>1
  <2> HIDE DEF u, l, vs
  <2>3. y \in In[vs[i + j - 1]]
    BY <2>1, <2>2
  <2> QED
    BY <1>8, <2>2, <2>3, Zenon
<1>11. CASE \E j \in 1..Len(u) + 1 : y = List(SubSeq(u, j, Len(u)))
  <2>1. PICK j \in 1..Len(u) + 1 : y = List(SubSeq(u, j, Len(u)))
    BY <1>11
  <2> DEFINE k == i + j - 1
  <2>2. k \in 1..l + 1 /\ j \in 1..l - i + 2 /\ Len(u) = l - i + 1
    BY <1>3, <1>4
  <2>3. SubSeq(u, j, Len(u)) = SubSeq(vs, k, l)
    <3> DEFINE A == SubSeq(u, j, l - i + 1)
               B == SubSeq(vs, k, l)
    <3>1. A = [h \in 1..l - i + 1 - j + 1 |-> u[j + h - 1]]
      BY <1>3, <1>4, <2>2
    <3>2. B = [h \in 1..l - k + 1 |-> vs[k + h - 1]]
      BY <1>2, <1>3, <2>2
    <3>3. l - k + 1 = l - i + 1 - j + 1 /\ l - k + 1 \in Nat
      BY <1>3, <2>2
    <3>4. ASSUME NEW h \in 1..l - k + 1 PROVE u[j + h - 1] = vs[k + h - 1]
      <4>1. j + h - 1 \in 1..l - i + 1 /\ i + (j + h - 1) - 1 = k + h - 1
        BY <1>3, <2>2, <3>3
      <4>2. u[j + h - 1] = vs[i + (j + h - 1) - 1]
        BY <1>4, <4>1
      <4> HIDE DEF u, vs, k
      <4> QED
        BY <4>1, <4>2
    <3>5. A = B
      <4> HIDE DEF A, B, u, vs, l, k
      <4> QED
        BY <3>1, <3>2, <3>3, <3>4
    <3> QED
      BY <2>2, <3>5
  <2> HIDE DEF u, l, vs, k
  <2>4. y = List(SubSeq(vs, k, l)) /\ k \in 1..l + 1
    BY <2>1, <2>2, <2>3
  <2> QED
    BY <1>8, <2>4, Zenon
<1> QED
  BY <1>7, <1>9, <1>10, <1>11

-----------------------------------------------------------------------------
(* A match is exact: it succeeds with the one binding of the new names     *)
(* that makes the value an instance, and fails if there is none.           *)

\* The names' registers hold values, and are before the next.
Held(M, sc, next) == \A x \in DOMAIN sc : sc[x] < next /\ M[sc[x]] \in ValueType[Depth]

\* The bindings are what the registers hold.
Agrees(b, M, sc) == \A x \in DOMAIN sc : b[x] = M[sc[x]]

\* The result m of a match that started with the names sc holds the names sc2,
Counted(next, sc2, next2, m) ==
    m.n # -1 => m.n = next2 - next /\ Held(m.mem, sc2, next2)

\* the new ones are parts of v,
BindsParts(v, sc, sc2, m) ==
    m.n # -1 => \A x \in DOMAIN sc2 \ DOMAIN sc : PartOf(m.mem[sc2[x]], v)

\* and they are what makes v an instance.
Solves(d, p, v, sc, sc2, M, m) ==
    \A b : Agrees(b, M, sc) => (InstIn(b, d, p, v) <=> m.n # -1 /\ Agrees(b, m.mem, sc2))

Exact(d, p, v, sc, next, sc2, next2, M, m) ==
    /\ Counted(next, sc2, next2, m)
    /\ BindsParts(v, sc, sc2, m)
    /\ Solves(d, p, v, sc, sc2, M, m)

ExactOk(d, p, sc, next, f, M, v) ==
    LET g == GenIn(d, p, sc, next)
    IN Held(M, sc, next) /\ BoundRests[d][g.pat] = {} /\ g.next <= LastReg + 1 =>
         Exact(d, p, v, sc, next, g.sc, g.next, M, MatchIn(f, M, g.pat, v, next))

ExactAt(d) ==
    \A p \in PatternType[d] : \A sc, next : IsScope(sc) /\ next \in Nat =>
      \A f \in d + 1 + Depth..Calls : \A M \in Memories : \A v \in ValueType[Depth] :
        ExactOk(d, p, sc, next, f, M, v)

\* A match that fails of a pattern that the value is no instance of, and one
\* that binds nothing.
LEMMA ExactFailed ==
    ASSUME NEW d, NEW p, NEW v, NEW sc, NEW next, NEW sc2, NEW next2, NEW M, NEW m, m.n = -1,
           \A b : Agrees(b, M, sc) => ~InstIn(b, d, p, v)
    PROVE  Exact(d, p, v, sc, next, sc2, next2, M, m)
BY DEF Exact, Counted, BindsParts, Solves

LEMMA ExactSame ==
    ASSUME NEW d, NEW p, NEW v, NEW sc, NEW next \in Nat, NEW M, Held(M, sc, next),
           \A b : Agrees(b, M, sc) => InstIn(b, d, p, v)
    PROVE  Exact(d, p, v, sc, next, sc, next, M, Matched(0, M))
BY DEF Exact, Counted, BindsParts, Solves, Matched

LEMMA SimpleExact ==
    ASSUME NEW d \in 0..Depth, NEW p \in PatternType[d], p \in Simple, NEW sc, IsScope(sc),
           NEW next \in Nat, NEW f \in 0..Calls, NEW M \in Memories, NEW v \in ValueType[Depth]
    PROVE  ExactOk(d, p, sc, next, f, M, v)
<1> DEFINE g == GenIn(d, p, sc, next)
           m == MatchIn(f, M, g.pat, v, next)
<1> SUFFICES ASSUME Held(M, sc, next) PROVE Exact(d, p, v, sc, next, g.sc, g.next, M, m)
  BY DEF ExactOk
<1>1. g = [pat |-> p, sc |-> sc, next |-> next]
  BY GenSimple
<1>2. g.pat = p /\ g.sc = sc /\ g.next = next
  BY <1>1
<1> HIDE DEF g
<1>3. m = IF p = v THEN Matched(0, M) ELSE Mismatch(M)
  BY <1>2, MatchSimple
<1>4. \A b : InstIn(b, d, p, v) <=> p = v
  BY InstSimple
<1> HIDE DEF m
<1>5. CASE p = v
  BY <1>2, <1>3, <1>4, <1>5, ExactSame
<1>6. CASE p # v
  <2>1. m.n = -1
    BY <1>3, <1>6 DEF Mismatch, Matched
  <2> QED
    BY <1>4, <1>6, <2>1, ExactFailed
<1> QED
  BY <1>5, <1>6

\* A name that is in the scope,
LEMMA BoundExact ==
    ASSUME NEW d \in 0..Depth, NEW p \in PatternType[d], p.k \in {"ident", "rest"}, NEW sc, IsScope(sc),
           p.x \in DOMAIN sc, NEW next \in Nat, NEW f \in Depth + 1..Calls, NEW M \in Memories,
           NEW v \in ValueType[Depth]
    PROVE  ExactOk(d, p, sc, next, f, M, v)
<1> DEFINE g == GenIn(d, p, sc, next)
           m == MatchIn(f, M, g.pat, v, next)
<1> SUFFICES ASSUME Held(M, sc, next), g.next <= LastReg + 1
             PROVE  Exact(d, p, v, sc, next, g.sc, g.next, M, m)
  BY DEF ExactOk
<1>1. /\ g.pat.k = "var" /\ g.pat.reg = sc[p.x] /\ g.pat.reg \in Nat
      /\ g.pat \in CompiledType[Depth] /\ g.sc = sc /\ g.next = next
  <2>1. g = GenIn(d, p, sc, next)
    OBVIOUS
  <2> HIDE DEF g
  <2> QED
    BY <2>1, NameMade
<1> HIDE DEF g
<1>2. m = Equal(Slot(M, g.pat.reg), v, M)
  BY <1>1, BoundVariable
<1>3. sc[p.x] \in Registers
  <2>1. sc[p.x] \in Nat /\ sc[p.x] < next
    BY <1>1 DEF Held
  <2> QED
    BY <1>1, <2>1, TermsAssumption DEF Registers
<1>4. Slot(M, g.pat.reg) = M[sc[p.x]]
  BY <1>1, <1>3, SlotIn
<1>5. m = IF M[sc[p.x]] = v THEN Matched(0, M) ELSE Mismatch(M)
  BY <1>2, <1>4 DEF Equal
<1>6. \A b : InstIn(b, d, p, v) <=> b[p.x] = v
  BY InstName
<1>7. \A b : Agrees(b, M, sc) => (InstIn(b, d, p, v) <=> M[sc[p.x]] = v)
  BY <1>6 DEF Agrees
<1> HIDE DEF m
<1>8. CASE M[sc[p.x]] = v
  BY <1>1, <1>5, <1>7, <1>8, ExactSame
<1>9. CASE M[sc[p.x]] # v
  <2>1. m.n = -1
    BY <1>5, <1>9 DEF Mismatch, Matched
  <2> QED
    BY <1>7, <1>9, <2>1, ExactFailed
<1> QED
  BY <1>8, <1>9

\* and a new one.
LEMMA FreshExact ==
    ASSUME NEW d \in 0..Depth, NEW p \in PatternType[d], p.k \in {"ident", "rest"}, NEW sc, IsScope(sc),
           p.x \notin DOMAIN sc, NEW next \in Nat, NEW f \in 0..Calls, NEW M \in Memories,
           NEW v \in ValueType[Depth]
    PROVE  ExactOk(d, p, sc, next, f, M, v)
<1> DEFINE g == GenIn(d, p, sc, next)
           m == MatchIn(f, M, g.pat, v, next)
           x == p.x
<1> SUFFICES ASSUME Held(M, sc, next), g.next <= LastReg + 1
             PROVE  Exact(d, p, v, sc, next, g.sc, g.next, M, m)
  BY DEF ExactOk
<1>1. /\ g.pat.k = "any" /\ g.pat \in CompiledType[Depth]
      /\ g.sc = Bind(sc, x, next) /\ g.next = next + 1
  <2>1. g = GenIn(d, p, sc, next)
    OBVIOUS
  <2> HIDE DEF g
  <2> QED
    BY <2>1, NameMade
<1> HIDE DEF g
<1>2. next \in Registers
  BY <1>1, TermsAssumption DEF Registers
<1>3. m = Matched(1, Store(M, next, v))
  BY <1>1, <1>2, FreshVariable
<1> DEFINE M2 == Store(M, next, v)
           sc2 == Bind(sc, x, next)
<1>4. /\ M2 \in Memories /\ M2[next] = v
      /\ \A r \in Registers : r # next => M2[r] = M[r]
  BY <1>2, StoreIn
<1>5. /\ DOMAIN sc2 = DOMAIN sc \cup {x} /\ sc2[x] = next
      /\ \A y \in DOMAIN sc : sc2[y] = sc[y]
  BY DEF Bind
<1>6. \A y \in DOMAIN sc : sc[y] \in Registers /\ sc[y] < next
  <2> SUFFICES ASSUME NEW y \in DOMAIN sc PROVE sc[y] \in Registers /\ sc[y] < next
    OBVIOUS
  <2>1. sc[y] \in Nat /\ sc[y] < next
    BY DEF Held, IsScope
  <2> QED
    BY <1>1, <2>1, TermsAssumption DEF Registers
<1>7. \A y \in DOMAIN sc : M2[sc2[y]] = M[sc[y]]
  <2> SUFFICES ASSUME NEW y \in DOMAIN sc PROVE M2[sc2[y]] = M[sc[y]]
    OBVIOUS
  <2>1. sc2[y] = sc[y] /\ sc[y] \in Registers /\ sc[y] # next
    BY <1>5, <1>6
  <2> HIDE DEF M2, sc2
  <2> QED
    BY <1>4, <2>1
<1>8. M2[sc2[x]] = v
  BY <1>4, <1>5
<1>9. m.n = 1 /\ m.mem = M2 /\ g.sc = sc2 /\ g.next = next + 1
  BY <1>1, <1>3 DEF Matched
<1> HIDE DEF m, M2, sc2, x
<1>10. Held(M2, sc2, next + 1)
  <2> SUFFICES ASSUME NEW y \in DOMAIN sc2
               PROVE  sc2[y] < next + 1 /\ M2[sc2[y]] \in ValueType[Depth]
    BY DEF Held
  <2>1. CASE y \in DOMAIN sc
    <3>1. M[sc[y]] \in ValueType[Depth]
      BY <2>1 DEF Held
    <3>2. sc[y] \in Nat /\ sc[y] < next
      BY <1>6, <2>1 DEF Registers
    <3> QED
      BY <1>5, <1>7, <2>1, <3>1, <3>2
  <2>2. CASE y = x
    BY <1>5, <1>8, <2>2
  <2> QED
    BY <1>5, <2>1, <2>2
<1>11. Counted(next, g.sc, g.next, m)
  BY <1>9, <1>10 DEF Counted
<1>12. BindsParts(v, sc, g.sc, m)
  <2>1. \A y \in DOMAIN sc2 \ DOMAIN sc : M2[sc2[y]] = v
    BY <1>5, <1>8
  <2> QED
    BY <1>9, <2>1, PartSelf DEF BindsParts
<1>13. Solves(d, p, v, sc, g.sc, M, m)
  <2> SUFFICES ASSUME NEW b, Agrees(b, M, sc)
               PROVE  InstIn(b, d, p, v) <=> Agrees(b, M2, sc2)
    BY <1>9 DEF Solves
  <2>1. InstIn(b, d, p, v) <=> b[x] = v
    BY InstName DEF x
  <2>2. Agrees(b, M2, sc2) <=> b[x] = v
    BY <1>5, <1>7, <1>8 DEF Agrees
  <2> QED
    BY <2>1, <2>2
<1> QED
  BY <1>11, <1>12, <1>13 DEF Exact

\* The names that are in scope stay where they are.
Kept(sc, sc2, M, m) ==
    \A x \in DOMAIN sc : x \in DOMAIN sc2 /\ m.mem[sc2[x]] = M[sc[x]]

LEMMA KeptBy ==
    ASSUME NEW sc, IsScope(sc), NEW next \in Nat, next <= LastReg + 1,
           NEW sc2, NEW next2, Grown(sc, next, sc2, next2), NEW M, Held(M, sc, next),
           NEW m, NEW k \in Nat, Within(M, m, next, k)
    PROVE  Kept(sc, sc2, M, m)
<1> SUFFICES ASSUME NEW x \in DOMAIN sc
             PROVE  x \in DOMAIN sc2 /\ m.mem[sc2[x]] = M[sc[x]]
  BY DEF Kept
<1>1. x \in DOMAIN sc2 /\ sc2[x] = sc[x]
  BY DEF Grown
<1>2. sc[x] \in Nat /\ sc[x] < next
  BY DEF IsScope, Held
<1>3. sc[x] \in Registers /\ ~(sc[x] \in next..next + k - 1)
  BY <1>2, TermsAssumption DEF Registers
<1> QED
  BY <1>1, <1>3 DEF Within

\* The first i members: what they hold, of which values it is part, and what
\* it means.
MeantUpTo(b, d, ps, ws, i) == \A j \in 1..i : InstIn(b, d, ps[j], ws[j])

PartsUpTo(ws, i, sc, sc1, r) ==
    r.n # -1 => \A x \in DOMAIN sc1 \ DOMAIN sc : \E j \in 1..i : PartOf(r.mem[sc1[x]], ws[j])

SolvesUpTo(d, ps, ws, i, sc, sc1, M, r) ==
    \A b : Agrees(b, M, sc) => (MeantUpTo(b, d, ps, ws, i) <=> r.n # -1 /\ Agrees(b, r.mem, sc1))

LoopExact(d, ps, ws, i, sc, next, sc1, next1, M, r) ==
    /\ Counted(next, sc1, next1, r)
    /\ PartsUpTo(ws, i, sc, sc1, r)
    /\ SolvesUpTo(d, ps, ws, i, sc, sc1, M, r)

LEMMA MeantNext ==
    ASSUME NEW b, NEW d, NEW ps, NEW ws, NEW i \in Nat
    PROVE  MeantUpTo(b, d, ps, ws, i + 1)
             <=> MeantUpTo(b, d, ps, ws, i) /\ InstIn(b, d, ps[i + 1], ws[i + 1])
<1>1. \A j \in 1..i + 1 : j \in 1..i \/ j = i + 1
  OBVIOUS
<1>2. i + 1 \in 1..i + 1 /\ \A j \in 1..i : j \in 1..i + 1
  OBVIOUS
<1> QED
  BY <1>1, <1>2, Zenon DEF MeantUpTo

LEMMA LoopFirst ==
    ASSUME NEW d, NEW ps, NEW ws, NEW sc, NEW next \in Nat, NEW M, Held(M, sc, next)
    PROVE  LoopExact(d, ps, ws, 0, sc, next, sc, next, M, Matched(0, M))
<1>1. \A b : MeantUpTo(b, d, ps, ws, 0)
  BY DEF MeantUpTo
<1> QED
  BY <1>1 DEF LoopExact, Counted, PartsUpTo, SolvesUpTo, Matched

LEMMA LoopMissed ==
    ASSUME NEW d, NEW ps, NEW ws, NEW i \in Nat, NEW sc, NEW next, NEW sc1, NEW next1, NEW M, NEW r,
           LoopExact(d, ps, ws, i, sc, next, sc1, next1, M, r), r.n = -1, NEW sc2, NEW next2
    PROVE  LoopExact(d, ps, ws, i + 1, sc, next, sc2, next2, M, r)
<1>1. \A b : Agrees(b, M, sc) => ~MeantUpTo(b, d, ps, ws, i)
  BY Zenon DEF LoopExact, SolvesUpTo
<1>2. \A b : Agrees(b, M, sc) => ~MeantUpTo(b, d, ps, ws, i + 1)
  BY <1>1, MeantNext
<1> QED
  BY <1>2, Zenon DEF LoopExact, Counted, PartsUpTo, SolvesUpTo

LEMMA LoopStep ==
    ASSUME NEW d, NEW ps, NEW ws, NEW i \in Nat, NEW sc, NEW next \in Nat, NEW sc1, NEW next1 \in Nat,
           NEW M, NEW r, LoopExact(d, ps, ws, i, sc, next, sc1, next1, M, r), r.n # -1,
           NEW sc2, NEW next2 \in Nat, next <= next1, next1 <= next2, NEW m,
           Exact(d, ps[i + 1], ws[i + 1], sc1, next1, sc2, next2, r.mem, m),
           Kept(sc1, sc2, r.mem, m)
    PROVE  LoopExact(d, ps, ws, i + 1, sc, next, sc2, next2, M, Both(r, m))
<1>1. r.n = next1 - next
  BY DEF LoopExact, Counted
<1>2. m.n # -1 => m.n = next2 - next1 /\ Held(m.mem, sc2, next2)
  BY DEF Exact, Counted
<1> DEFINE s == Both(r, m)
<1>3. /\ s.mem = m.mem
      /\ s.n = IF m.n = -1 THEN -1 ELSE r.n + m.n
  BY DEF Both, Matched
<1>4. (s.n # -1 <=> m.n # -1) /\ (s.n # -1 => s.n = next2 - next)
  BY <1>1, <1>2, <1>3
<1> HIDE DEF s
<1>5. Counted(next, sc2, next2, s)
  BY <1>2, <1>3, <1>4 DEF Counted
<1>6. ASSUME m.n # -1, NEW x \in DOMAIN sc2 \ DOMAIN sc
      PROVE  \E j \in 1..i + 1 : PartOf(m.mem[sc2[x]], ws[j])
  <2>1. CASE x \in DOMAIN sc1
    <3>1. PICK j \in 1..i : PartOf(r.mem[sc1[x]], ws[j])
      BY <1>6, <2>1, Zenon DEF LoopExact, PartsUpTo
    <3>2. j \in 1..i + 1 /\ m.mem[sc2[x]] = r.mem[sc1[x]]
      BY <2>1 DEF Kept
    <3> QED
      BY <3>1, <3>2
  <2>2. CASE x \notin DOMAIN sc1
    <3>1. PartOf(m.mem[sc2[x]], ws[i + 1])
      BY <1>6, <2>2, Zenon DEF Exact, BindsParts
    <3>2. i + 1 \in 1..i + 1
      OBVIOUS
    <3> QED
      BY <3>1, <3>2
  <2> QED
    BY <2>1, <2>2
<1>7. PartsUpTo(ws, i + 1, sc, sc2, s)
  BY <1>3, <1>4, <1>6 DEF PartsUpTo
<1>8. ASSUME NEW b, Agrees(b, M, sc)
      PROVE  MeantUpTo(b, d, ps, ws, i + 1) <=> m.n # -1 /\ Agrees(b, m.mem, sc2)
  <2>1. MeantUpTo(b, d, ps, ws, i) <=> Agrees(b, r.mem, sc1)
    BY <1>8, Zenon DEF LoopExact, SolvesUpTo
  <2>2. Agrees(b, r.mem, sc1) =>
          (InstIn(b, d, ps[i + 1], ws[i + 1]) <=> m.n # -1 /\ Agrees(b, m.mem, sc2))
    BY Zenon DEF Exact, Solves
  <2>3. Agrees(b, m.mem, sc2) => Agrees(b, r.mem, sc1)
    BY DEF Agrees, Kept
  <2> QED
    BY <2>1, <2>2, <2>3, MeantNext
<1>9. SolvesUpTo(d, ps, ws, i + 1, sc, sc2, M, s)
  BY <1>3, <1>4, <1>8, Zenon DEF SolvesUpTo
<1> QED
  BY <1>5, <1>7, <1>9 DEF LoopExact, s

\* The members of what gen_pattern made.
LEMMA MembersExact ==
    ASSUME NEW d \in 0..Depth, ExactAt(d), NEW ps \in Seq(PatternType[d]),
           NEW sc, IsScope(sc), NEW next \in Nat, NEW t, Chain(d, ps, sc, next, t),
           NEW f \in d + 1 + Depth..Calls, NEW rd, Does(rd, f), NEW M \in Memories,
           NEW ws \in Seq(ValueType[Depth]), NEW n \in 0..Len(ps), n <= Len(ws),
           t[Len(ps)].next <= LastReg + 1, Held(M, sc, next),
           \A i \in 1..Len(ps) : BoundRests[d][t[Len(ps)].pats[i]] = {}
    PROVE  LoopExact(d, ps, ws, n, sc, next, t[n].sc, t[n].next, M,
                     MembersBy(rd, M, t[Len(ps)].pats, ws, n, next))
<1> DEFINE l == Len(ps)
           cs == t[l].pats
           R(i) == MembersBy(rd, M, cs, ws, i, next)
           Ok(i) == LoopExact(d, ps, ws, i, sc, next, t[i].sc, t[i].next, M, R(i))
           T == {i \in Nat : i \in 0..n => Ok(i)}
<1>1. /\ l \in Nat /\ n \in Nat /\ n <= l /\ l \in 0..l /\ t[l].next \in Nat
      /\ t[0].sc = sc /\ t[0].next = next
      /\ \A i \in 0..l : t[i].next \in Nat /\ next <= t[i].next
      /\ \A i \in 0..l - 1 : MemberOk(d, ps, t, i)
  BY ChainMembers
<1>2. BoundsAt(d)
  BY Bounds
<1>3. next + (t[l].next - next) <= LastReg + 1
  BY <1>1
<1>4. 0 \in T
  <2>1. R(0) = Matched(0, M)
    BY MembersFirst
  <2>2. Ok(0)
    BY <1>1, <2>1, LoopFirst
  <2> HIDE DEF Ok
  <2> QED
    BY <2>2
<1>5. ASSUME NEW i \in T PROVE i + 1 \in T
  <2>1. i \in Nat /\ i + 1 \in Nat
    OBVIOUS
  <2> SUFFICES ASSUME i + 1 \in 0..n PROVE Ok(i + 1)
    BY <2>1
  <2>2. i \in 0..n /\ i \in 0..l /\ i \in 0..l - 1 /\ i <= Len(ws) /\ i + 1 \in 1..Len(ws)
        /\ i + 1 \in 1..l
    <3>1. Len(ws) \in Nat
      OBVIOUS
    <3> HIDE DEF l, T
    <3> QED
      BY <1>1, <2>1, <3>1
  <2>3. Ok(i)
    BY <2>2
  <2>4. MemberOk(d, ps, t, i)
    BY <1>1, <2>2
  <2> DEFINE next1 == t[i].next
             next2 == t[i + 1].next
             sc1 == t[i].sc
             sc2 == t[i + 1].sc
             r == R(i)
             m == MatchIn(f, r.mem, cs[i + 1], ws[i + 1], next1)
             k1 == next1 - next
             k == next2 - next1
  <2>5. /\ next1 \in Nat /\ next2 \in Nat /\ next <= next1 /\ next1 <= next2
        /\ next2 <= LastReg + 1 /\ next1 <= LastReg + 1
    <3>1. next1 \in Nat /\ next2 \in Nat /\ next1 <= next2 /\ next2 <= t[l].next
      BY <2>4 DEF MemberOk
    <3>2. next <= next1
      BY <1>1, <2>2
    <3>3. t[l].next \in Nat /\ t[l].next <= LastReg + 1 /\ LastReg \in Nat
      BY <1>1, TermsAssumption
    <3> HIDE DEF next1, next2, l
    <3> QED
      BY <3>1, <3>2, <3>3
  <2>6. Within(M, r, next, k1)
    <3>1. i \in 0..Len(ps)
      BY <2>2
    <3> QED
      BY <1>2, <1>3, <2>2, <3>1, MembersWithin
  <2>7. R(i + 1) = MatchRound(rd, cs, ws, next, i + 1, r)
    <3>1. LoopNext(rd, M, cs, ws, i, next)
      BY <2>1, MembersNext
    <3> QED
      BY <3>1, Zenon DEF LoopNext
  <2>8. CASE r.n = -1
    <3>1. R(i + 1) = r
      BY <2>7, <2>8, RoundMissed
    <3>2. LoopExact(d, ps, ws, i, sc, next, sc1, next1, M, r)
      BY <2>3
    <3> HIDE DEF r, R, sc1, next1, cs, T
    <3>3. LoopExact(d, ps, ws, i + 1, sc, next, t[i + 1].sc, t[i + 1].next, M, r)
      BY <2>1, <2>8, <3>2, LoopMissed
    <3> QED
      BY <3>1, <3>3
  <2>9. CASE r.n # -1
    <3>1. LoopExact(d, ps, ws, i, sc, next, sc1, next1, M, r)
      BY <2>3
    <3>2. r.n = k1 /\ Held(r.mem, sc1, next1)
      BY <2>9, <3>1 DEF LoopExact, Counted
    <3>3. next + r.n = next1
      <4> HIDE DEF r, next1
      <4> QED
        BY <2>5, <3>2
    <3>4. /\ cs[i + 1].k # "ref" /\ IsScope(sc1) /\ ps[i + 1] \in PatternType[d]
          /\ Grown(sc1, next1, sc2, next2)
      BY <2>4 DEF MemberOk
    <3>5. ws[i + 1] \in ValueType[Depth] /\ ws[i + 1].k # "ref"
      <4>1. ws[i + 1] \in ValueType[Depth] /\ Depth \in 0..Depth
        BY <2>2, TermsAssumption
      <4> QED
        BY <4>1, NoPointers
    <3>6. R(i + 1) = Both(r, m)
      <4>1. RoundIs(rd, f, cs, ws, next, i + 1, r)
        <5> HIDE DEF r, cs
        <5> QED
          BY <2>9, <3>4, <3>5, RoundDoes
      <4>2. R(i + 1) = Both(r, MatchIn(f, r.mem, cs[i + 1], ws[i + 1], next + r.n))
        BY <2>7, <4>1, Zenon DEF RoundIs
      <4> HIDE DEF R, r, cs, next1
      <4> QED
        BY <3>3, <4>2
    <3>7. r.mem \in Memories
      BY <2>6 DEF Within
    <3> DEFINE g == GenIn(d, ps[i + 1], sc1, next1)
    <3>8. cs[i + 1] = g.pat /\ sc2 = g.sc /\ next2 = g.next
      BY <2>4 DEF MemberOk
    <3>9. Exact(d, ps[i + 1], ws[i + 1], sc1, next1, sc2, next2, r.mem, m)
      <4>1. ExactOk(d, ps[i + 1], sc1, next1, f, r.mem, ws[i + 1])
        <5> HIDE DEF r, sc1, next1
        <5> QED
          BY <2>5, <3>4, <3>5, <3>7, Zenon DEF ExactAt
      <4>2. BoundRests[d][cs[i + 1]] = {}
        BY <2>2
      <4> HIDE DEF r, sc1, next1, sc2, next2, cs
      <4>3. g.next <= LastReg + 1 /\ BoundRests[d][g.pat] = {}
        BY <2>5, <3>8, <4>2
      <4> QED
        BY <3>2, <3>8, <4>1, <4>3, Zenon DEF ExactOk
    <3>10. k \in Nat /\ Within(r.mem, m, next1, k)
      <4>1. BoundOk(d, ps[i + 1], sc1, next1, f, r.mem, ws[i + 1], next1)
        <5> HIDE DEF r, sc1, next1
        <5> QED
          BY <1>2, <2>5, <3>4, <3>5, <3>7, Zenon DEF BoundsAt
      <4>2. k \in Nat /\ next1 + k <= LastReg + 1
        <5> HIDE DEF next1, next2
        <5> QED
          BY <2>5
      <4>3. k = g.next - next1
        BY <3>8
      <4> HIDE DEF r, sc1, next1, sc2, next2, cs, k
      <4> QED
        BY <3>8, <4>1, <4>2, <4>3, Zenon DEF BoundOk
    <3>11. Kept(sc1, sc2, r.mem, m)
      <4> HIDE DEF r, sc1, next1, sc2, next2, cs, k, m
      <4> QED
        BY <2>5, <3>2, <3>4, <3>10, KeptBy
    <3>12. LoopExact(d, ps, ws, i + 1, sc, next, sc2, next2, M, Both(r, m))
      <4> HIDE DEF r, sc1, next1, sc2, next2, cs, k, m, T
      <4> QED
        BY <2>1, <2>5, <2>9, <3>1, <3>9, <3>11, LoopStep
    <3> HIDE DEF R, r, m, T
    <3> QED
      BY <3>6, <3>12
  <2> QED
    BY <2>8, <2>9
<1>6. T = Nat
  <2> HIDE DEF T
  <2> QED
    BY <1>4, <1>5, SetInduction DEF T
<1>7. n \in T /\ n \in 0..n
  BY <1>1, <1>6
<1> QED
  BY <1>7

\* What holds of all members holds of the tuple or list made of them.
LEMMA ExactOfMembers ==
    ASSUME NEW d, NEW n, NEW p, NEW v, NEW ps, NEW ws, NEW l, NEW sc, NEW next, NEW sc2, NEW next2,
           NEW M, NEW r, LoopExact(n, ps, ws, l, sc, next, sc2, next2, M, r),
           \A j \in 1..l : \A y : PartOf(y, ws[j]) => PartOf(y, v),
           \A b : InstIn(b, d, p, v) <=> MeantUpTo(b, n, ps, ws, l)
    PROVE  Exact(d, p, v, sc, next, sc2, next2, M, r)
<1>1. Counted(next, sc2, next2, r)
  BY DEF LoopExact
<1>2. BindsParts(v, sc, sc2, r)
  BY DEF LoopExact, PartsUpTo, BindsParts
<1>3. Solves(d, p, v, sc, sc2, M, r)
  BY Zenon DEF LoopExact, SolvesUpTo, Solves
<1> QED
  BY <1>1, <1>2, <1>3 DEF Exact

\* A tuple or list that gen_pattern made, and a value to match.
MadeToMatch(n, p, sc, next, t, f, M, v) ==
    /\ n \in 0..Depth /\ n + 1 \in 0..Depth /\ p \in PatternType[n + 1]
    /\ p.ms \in Seq(PatternType[n]) /\ RestLast(p.ms)
    /\ IsScope(sc) /\ next \in Nat /\ Chain(n, p.ms, sc, next, t)
    /\ f \in n + 1 + Depth..Calls /\ M \in Memories /\ v \in ValueType[Depth]
    /\ t[Len(p.ms)].next <= LastReg + 1 /\ Held(M, sc, next)
    /\ \A i \in 1..Len(p.ms) : BoundRests[n][t[Len(p.ms)].pats[i]] = {}

LEMMA TupleExact ==
    ASSUME NEW n \in Nat, NEW p, NEW sc, NEW next, NEW t, NEW f, NEW M, NEW v,
           MadeToMatch(n, p, sc, next, t, f, M, v), p.k = "tuple", v.k = "tuple",
           Len(p.ms) = Len(v.ms), NEW rd, Does(rd, f), ExactAt(n)
    PROVE  Exact(n + 1, p, v, sc, next, t[Len(p.ms)].sc, t[Len(p.ms)].next, M,
                 MembersBy(rd, M, t[Len(p.ms)].pats, v.ms, Len(p.ms), next))
<1> DEFINE ps == p.ms
           l == Len(ps)
           vs == v.ms
           r == MembersBy(rd, M, t[l].pats, vs, l, next)
<1>1. /\ n \in 0..Depth /\ n + 1 \in 0..Depth /\ p \in PatternType[n + 1]
      /\ ps \in Seq(PatternType[n])
      /\ IsScope(sc) /\ next \in Nat /\ Chain(n, ps, sc, next, t)
      /\ f \in n + 1 + Depth..Calls /\ M \in Memories /\ v \in ValueType[Depth]
      /\ t[l].next <= LastReg + 1 /\ Held(M, sc, next)
      /\ \A i \in 1..l : BoundRests[n][t[l].pats[i]] = {}
  BY DEF MadeToMatch
<1>2. vs \in Seq(ValueType[Depth]) /\ l \in Nat /\ l \in 0..l /\ l <= Len(vs) /\ Len(vs) = l
  BY <1>1, ValueMembers
<1>3. LoopExact(n, ps, vs, l, sc, next, t[l].sc, t[l].next, M, r)
  BY <1>1, <1>2, MembersExact
<1>4. \A j \in 1..l : \A y : PartOf(y, vs[j]) => PartOf(y, v)
  BY <1>2, PartMember
<1>5. \A b : InstIn(b, n + 1, p, v) <=> MeantUpTo(b, n, ps, vs, l)
  BY <1>1, <1>2, InstTuple, Zenon DEF InstMembers, MeantUpTo
<1> HIDE DEF r, l, ps, vs
<1>6. Exact(n + 1, p, v, sc, next, t[l].sc, t[l].next, M, r)
  BY <1>3, <1>4, <1>5, ExactOfMembers
<1> QED
  BY <1>6 DEF r, l, ps, vs

\* A list without a range,
LEMMA PlainListExact ==
    ASSUME NEW n \in Nat, NEW p, NEW sc, NEW next, NEW t, NEW f, NEW M, NEW v,
           MadeToMatch(n, p, sc, next, t, f, M, v), p.k = "list", v.k = "list",
           ~EndsInRest(p.ms), NEW rd, Does(rd, f), ExactAt(n)
    PROVE  Exact(n + 1, p, v, sc, next, t[Len(p.ms)].sc, t[Len(p.ms)].next, M,
                 ListBy(rd, M, t[Len(p.ms)].pats, v.ms, next))
<1> DEFINE ps == p.ms
           l == Len(ps)
           cs == t[l].pats
           vs == v.ms
           R(i) == MembersBy(rd, M, cs, vs, i, next)
<1>1. /\ n \in 0..Depth /\ n + 1 \in 0..Depth /\ p \in PatternType[n + 1]
      /\ ps \in Seq(PatternType[n]) /\ RestLast(ps)
      /\ IsScope(sc) /\ next \in Nat /\ Chain(n, ps, sc, next, t)
      /\ f \in n + 1 + Depth..Calls /\ M \in Memories /\ v \in ValueType[Depth]
      /\ t[l].next <= LastReg + 1 /\ Held(M, sc, next)
      /\ \A i \in 1..l : BoundRests[n][t[l].pats[i]] = {}
  BY DEF MadeToMatch
<1>2. vs \in Seq(ValueType[Depth]) /\ l \in Nat /\ l \in 0..l /\ Len(vs) \in Nat
  BY <1>1, ValueMembers
<1>3. Len(cs) = l /\ Plain(cs) = Len(cs)
  BY <1>1, ChainMembers, ChainPlain
<1>4. \A b : InstIn(b, n + 1, p, v) <=> Len(vs) = l /\ MeantUpTo(b, n, ps, vs, l)
  <2>1. \A b : InstIn(b, n + 1, p, v) <=> Len(vs) = l /\ InstMembers(b, n, ps, vs)
    <3> SUFFICES ASSUME NEW b
                 PROVE  InstIn(b, n + 1, p, v) <=> Len(vs) = l /\ InstMembers(b, n, ps, vs)
      OBVIOUS
    <3> QED
      BY <1>1, InstList
  <2> QED
    BY <2>1, Zenon DEF InstMembers, MeantUpTo
<1> DEFINE i == IF l <= Len(vs) THEN l ELSE Len(vs)
           r == R(i)
           m == ListBy(rd, M, cs, vs, next)
<1>5. m = IF r.n = -1 THEN r ELSE IF Len(vs) = l THEN r ELSE Mismatch(r.mem)
  <2> HIDE DEF cs, l, vs
  <2> QED
    BY <1>2, <1>3, ListNoRest
<1>6. CASE Len(vs) = l
  <2>1. m = r /\ i = l /\ l <= Len(vs)
    BY <1>2, <1>5, <1>6
  <2>2. LoopExact(n, ps, vs, l, sc, next, t[l].sc, t[l].next, M, R(l))
    BY <1>1, <1>2, <2>1, MembersExact
  <2>3. m = R(l)
    BY <2>1
  <2>4. \A j \in 1..l : \A y : PartOf(y, vs[j]) => PartOf(y, v)
    BY <1>6, PartMember
  <2>5. \A b : InstIn(b, n + 1, p, v) <=> MeantUpTo(b, n, ps, vs, l)
    BY <1>4, <1>6
  <2> HIDE DEF m, R, l, ps, vs
  <2>6. Exact(n + 1, p, v, sc, next, t[l].sc, t[l].next, M, m)
    BY <2>2, <2>3, <2>4, <2>5, ExactOfMembers
  <2> QED
    BY <2>6 DEF m, R, l, ps, vs
<1>7. CASE Len(vs) # l
  <2> HIDE DEF r
  <2>1. m.n = -1
    BY <1>5, <1>7 DEF Mismatch, Matched
  <2>2. \A b : ~InstIn(b, n + 1, p, v)
    BY <1>4, <1>7
  <2> HIDE DEF m, l
  <2>3. Exact(n + 1, p, v, sc, next, t[l].sc, t[l].next, M, m)
    BY <2>1, <2>2, ExactFailed
  <2> QED
    BY <2>3 DEF m, l
<1> QED
  BY <1>6, <1>7

\* A range that is not bound takes all there is.
LEMMA FreeRest ==
    ASSUME NEW n \in 0..Depth, NEW c \in CompiledType[n], IsRange(c), BoundRests[n][c] = {},
           NEW f \in 0..Calls, NEW M \in Memories, NEW v \in ValueType[Depth], NEW at \in Nat
    PROVE  MatchIn(f, M, c, v, at).n # -1
<1>1. c.k = "any"
  BY RestsNone DEF IsRange
<1>2. c \in CompiledType[Depth]
  BY CompiledGrow
<1>3. MatchIn(f, M, c, v, at) = Matched(1, Store(M, at, v))
  BY <1>1, <1>2, MatchAny
<1> QED
  BY <1>3 DEF Matched

\* The members of a list, and what is left of it.
WithTail(vs, l) == [i \in 1..l |-> IF i = l THEN List(SubSeq(vs, l, Len(vs))) ELSE vs[i]]

LEMMA TailMembers ==
    ASSUME NEW v \in ValueType[Depth], v.k = "list", NEW q \in Nat, NEW l, l = q + 1, q <= Len(v.ms),
           NEW ws, ws = WithTail(v.ms, l)
    PROVE  /\ ws \in Seq(ValueType[Depth]) /\ Len(ws) = l
           /\ \A i \in 1..q : ws[i] = v.ms[i]
           /\ ws[l] = List(SubSeq(v.ms, l, Len(v.ms)))
           /\ \A i \in 1..l : \A y : PartOf(y, ws[i]) => PartOf(y, v)
<1> DEFINE vs == v.ms
           w == List(SubSeq(vs, l, Len(vs)))
<1>1. /\ vs \in Seq(ValueType[Depth]) /\ Len(vs) \in Nat /\ l \in 1..Len(vs) + 1
      /\ \A i \in 1..Len(vs) : vs[i] \in ValueType[Depth]
      /\ w \in ValueType[Depth]
  <2>1. /\ Len(vs) \in Nat /\ vs \in Seq(ValueType[Depth])
        /\ \A i \in 1..Len(vs) : vs[i] \in ValueType[Depth]
    BY ValueMembers
  <2>2. l \in 1..Len(vs) + 1
    BY <2>1
  <2> QED
    BY <2>1, <2>2, ValueMembers
<1>2. /\ l \in Nat /\ l \in 1..l
      /\ \A i \in 1..q : i \in 1..l /\ i # l /\ i \in 1..Len(vs)
      /\ \A i \in 1..l : i = l \/ i \in 1..q
  BY <1>1
<1>3. /\ ws = [i \in 1..l |-> IF i = l THEN w ELSE vs[i]]
      /\ \A i \in 1..q : ws[i] = vs[i]
      /\ ws[l] = w
  <2>1. ws = [i \in 1..l |-> IF i = l THEN w ELSE vs[i]]
    BY DEF WithTail
  <2> HIDE DEF w, vs
  <2> QED
    BY <1>2, <2>1
<1>4. ws \in Seq(ValueType[Depth]) /\ Len(ws) = l
  <2> HIDE DEF w, vs
  <2>1. ws \in [1..l -> ValueType[Depth]]
    BY <1>1, <1>2, <1>3
  <2> QED
    BY <1>2, <2>1, SeqDef, LenProperties
<1>5. ASSUME NEW i \in 1..l, NEW y, PartOf(y, ws[i]) PROVE PartOf(y, v)
  <2>1. CASE i = l
    BY <1>1, <1>3, <1>5, <2>1, PartTail
  <2>2. CASE i \in 1..q
    BY <1>2, <1>3, <1>5, <2>2, PartMember
  <2> QED
    BY <1>2, <2>1, <2>2
<1> QED
  BY <1>3, <1>4, <1>5

\* A list's pattern that ends in a range: the loop goes on to what is left.
LEMMA RestIsMember ==
    ASSUME NEW rd, NEW f, Does(rd, f), NEW M, NEW cs, NEW vs, NEW ws, NEW at, NEW q \in Nat, NEW l,
           l = q + 1, Len(cs) = l, Plain(cs) = q, Len(vs) \in Nat, q <= Len(vs),
           \A i \in 1..q : ws[i] = vs[i], ws[l] = List(SubSeq(vs, l, Len(vs))),
           cs[l].k # "ref",
           NEW r, r = MembersBy(rd, M, cs, vs, q, at),
           r.n # -1 => MatchIn(f, r.mem, cs[l], ws[l], at + r.n).n # -1
    PROVE  ListBy(rd, M, cs, vs, at) = MembersBy(rd, M, cs, ws, l, at)
<1> DEFINE a == at + r.n
           m == rd[r.mem][cs[l]][ws[l]][a]
<1>1. MembersBy(rd, M, cs, ws, q, at) = r
  BY MembersSame
<1>2. MembersBy(rd, M, cs, ws, l, at) = MatchRound(rd, cs, ws, at, l, r)
  <2>1. LoopNext(rd, M, cs, ws, q, at)
    BY MembersNext
  <2> QED
    BY <1>1, <2>1, Zenon DEF LoopNext
<1>3. ListBy(rd, M, cs, vs, at) = IF r.n = -1 THEN r ELSE WithRest(r, m)
  <2>1. q + 1 = l /\ Len(cs) = q + 1 /\ ws[l] = List(SubSeq(vs, q + 1, Len(vs)))
    OBVIOUS
  <2>2. m = rd[r.mem][cs[q + 1]][ws[l]][at + r.n]
    BY <2>1
  <2> HIDE DEF m
  <2>3. LongList(rd, M, cs, vs, at, r, m)
    BY <2>1, <2>2, ListLong
  <2> QED
    BY <2>3 DEF LongList, WithRest
<1>4. CASE r.n = -1
  BY <1>2, <1>3, <1>4, RoundMissed
<1>5. CASE r.n # -1
  <2>1. ws[l].k # "ref"
    BY DEF List
  <2>2. m = MatchIn(f, r.mem, cs[l], ws[l], a)
    BY DEF Does
  <2>3. RoundIs(rd, f, cs, ws, at, l, r)
    BY <1>5, <2>1, RoundDoes
  <2> HIDE DEF m
  <2>4. MatchRound(rd, cs, ws, at, l, r) = Both(r, m)
    BY <2>2, <2>3, Zenon DEF RoundIs
  <2>5. m.n # -1
    BY <1>5, <2>2
  <2>6. Both(r, m) = WithRest(r, m)
    BY <2>5 DEF Both, WithRest
  <2> QED
    BY <1>2, <1>3, <1>5, <2>4, <2>6
<1> QED
  BY <1>4, <1>5

LEMMA RestListExact ==
    ASSUME NEW n \in Nat, NEW p, NEW sc, NEW next, NEW t, NEW f, NEW M, NEW v,
           MadeToMatch(n, p, sc, next, t, f, M, v), p.k = "list", v.k = "list",
           EndsInRest(p.ms), NEW rd, Does(rd, f), ExactAt(n)
    PROVE  Exact(n + 1, p, v, sc, next, t[Len(p.ms)].sc, t[Len(p.ms)].next, M,
                 ListBy(rd, M, t[Len(p.ms)].pats, v.ms, next))
<1> DEFINE ps == p.ms
           l == Len(ps)
           q == l - 1
           cs == t[l].pats
           vs == v.ms
           m == ListBy(rd, M, cs, vs, next)
<1>1. /\ n \in 0..Depth /\ n + 1 \in 0..Depth /\ p \in PatternType[n + 1]
      /\ ps \in Seq(PatternType[n]) /\ RestLast(ps)
      /\ IsScope(sc) /\ next \in Nat /\ Chain(n, ps, sc, next, t)
      /\ f \in n + 1 + Depth..Calls /\ M \in Memories /\ v \in ValueType[Depth]
      /\ t[l].next <= LastReg + 1 /\ Held(M, sc, next)
      /\ \A i \in 1..l : BoundRests[n][cs[i]] = {}
  BY DEF MadeToMatch
<1>2. vs \in Seq(ValueType[Depth]) /\ l \in Nat /\ l \in 0..l /\ Len(vs) \in Nat
  BY <1>1, ValueMembers
<1>3. /\ q \in Nat /\ l = q + 1 /\ q \in 0..l - 1 /\ q <= l /\ l \in 1..l /\ q \in 0..l
      /\ Plain(cs) = q
  BY <1>1, <1>2, ChainPlain
<1>4. /\ Len(cs) = l /\ MemberOk(n, ps, t, q)
      /\ t[q].next \in Nat /\ next <= t[q].next /\ t[q].next <= t[l].next /\ t[l].next \in Nat
  <2>1. /\ Len(cs) = l
        /\ \A i \in 0..l : t[i].next \in Nat /\ next <= t[i].next /\ t[i].next <= t[l].next
        /\ \A i \in 0..l - 1 : MemberOk(n, ps, t, i)
    BY <1>1, ChainMembers
  <2> HIDE DEF l, q, cs
  <2> QED
    BY <1>2, <1>3, <2>1
<1>5. /\ cs[l] \in CompiledType[n] /\ cs[l].k # "ref" /\ IsRange(cs[l])
      /\ BoundRests[n][cs[l]] = {}
  <2>1. cs[q + 1] \in CompiledType[n] /\ cs[q + 1].k # "ref"
        /\ (IsRange(cs[q + 1]) <=> ps[q + 1].k = "rest")
    BY <1>4, Zenon DEF MemberOk
  <2>2. ps[l].k = "rest"
    BY DEF EndsInRest
  <2>3. BoundRests[n][cs[l]] = {}
    BY <1>1, <1>3
  <2>4. q + 1 = l
    BY <1>3
  <2> HIDE DEF cs, l, ps, q
  <2> QED
    BY <2>1, <2>2, <2>3, <2>4
<1>6. \A b : InstIn(b, n + 1, p, v) <=>
               /\ Len(vs) >= q
               /\ \A i \in 1..q : InstIn(b, n, ps[i], vs[i])
               /\ InstIn(b, n, ps[l], List(SubSeq(vs, l, Len(vs))))
  BY <1>1, InstList, Zenon
<1>7. f \in 0..Calls
  BY <1>1, TermsAssumption DEF Calls
<1>8. CASE q <= Len(vs)
  <2> DEFINE ws == WithTail(vs, l)
             r == MembersBy(rd, M, cs, vs, q, next)
             R == MembersBy(rd, M, cs, ws, l, next)
  <2>1. /\ ws \in Seq(ValueType[Depth]) /\ Len(ws) = l
        /\ \A i \in 1..q : ws[i] = vs[i]
        /\ ws[l] = List(SubSeq(vs, l, Len(vs)))
        /\ \A i \in 1..l : \A y : PartOf(y, ws[i]) => PartOf(y, v)
    <3>1. ws = WithTail(v.ms, l)
      OBVIOUS
    <3> HIDE DEF ws, q, l
    <3> QED
      BY <1>1, <1>3, <1>8, <3>1, TailMembers
  <2> HIDE DEF ws
  <2>2. ws[l] \in ValueType[Depth] /\ l <= Len(ws)
    BY <1>2, <1>3, <2>1
  <2>3. LoopExact(n, ps, ws, l, sc, next, t[l].sc, t[l].next, M, R)
    BY <1>1, <1>2, <2>1, <2>2, MembersExact
  <2>4. ASSUME r.n # -1 PROVE MatchIn(f, r.mem, cs[l], ws[l], next + r.n).n # -1
    <3>1. Within(M, r, next, t[q].next - next)
      <4>1. BoundsAt(n)
        BY <1>1, Bounds
      <4>2. next + (t[l].next - next) <= LastReg + 1
        BY <1>1, <1>4
      <4> QED
        BY <1>1, <1>2, <1>3, <1>8, <4>1, <4>2, MembersWithin
    <3>2. r.mem \in Memories /\ r.n \in Nat
      <4>1. r.mem \in Memories /\ r.n \in -1..t[q].next - next
        BY <3>1 DEF Within
      <4>2. t[q].next - next \in Nat
        BY <1>1, <1>4
      <4> HIDE DEF r
      <4> QED
        BY <2>4, <4>1, <4>2
    <3> DEFINE a == next + r.n
    <3>3. a \in Nat
      <4> HIDE DEF r
      <4> QED
        BY <1>1, <3>2
    <3> HIDE DEF r, cs, a, l
    <3>4. MatchIn(f, r.mem, cs[l], ws[l], a).n # -1
      BY <1>1, <1>5, <1>7, <2>2, <3>2, <3>3, FreeRest
    <3> QED
      BY <3>4 DEF a
  <2>5. m = R
    <3>1. r = MembersBy(rd, M, cs, vs, q, next)
      OBVIOUS
    <3> HIDE DEF r, cs, vs, l, q
    <3> QED
      BY <1>2, <1>3, <1>4, <1>5, <1>8, <2>1, <2>4, <3>1, RestIsMember
  <2>6. \A b : InstIn(b, n + 1, p, v) <=> MeantUpTo(b, n, ps, ws, l)
    <3> SUFFICES ASSUME NEW b
                 PROVE  InstIn(b, n + 1, p, v) <=> MeantUpTo(b, n, ps, ws, l)
      OBVIOUS
    <3>1. InstIn(b, n + 1, p, v) <=> /\ MeantUpTo(b, n, ps, vs, q)
                                     /\ InstIn(b, n, ps[l], ws[l])
      <4>1. Len(vs) >= q
        BY <1>8
      <4> HIDE DEF l, q, vs, ps
      <4> QED
        BY <1>6, <2>1, <4>1, Zenon DEF MeantUpTo
    <3>2. MeantUpTo(b, n, ps, vs, q) <=> MeantUpTo(b, n, ps, ws, q)
      <4> HIDE DEF q, vs, ps
      <4> QED
        BY <2>1, Zenon DEF MeantUpTo
    <3>3. MeantUpTo(b, n, ps, ws, q + 1)
            <=> MeantUpTo(b, n, ps, ws, q) /\ InstIn(b, n, ps[q + 1], ws[q + 1])
      BY <1>3, MeantNext
    <3>4. q + 1 = l
      BY <1>3
    <3> HIDE DEF l, q, vs, ps
    <3> QED
      BY <3>1, <3>2, <3>3, <3>4
  <2> HIDE DEF m, R, l, ps, vs
  <2>7. Exact(n + 1, p, v, sc, next, t[l].sc, t[l].next, M, R)
    BY <2>1, <2>3, <2>6, ExactOfMembers
  <2> QED
    BY <2>5, <2>7 DEF m, l, ps, vs
<1>9. CASE ~(q <= Len(vs))
  <2> DEFINE r == MembersBy(rd, M, cs, vs, Len(vs), next)
  <2>1. m = IF r.n = -1 THEN r ELSE Mismatch(r.mem)
    <3>1. r = MembersBy(rd, M, cs, vs, Len(vs), next)
      OBVIOUS
    <3>2. Len(cs) = q + 1
      BY <1>3, <1>4
    <3> HIDE DEF r, cs, vs, l, q
    <3> QED
      BY <1>2, <1>3, <1>9, <3>1, <3>2, ListShort
  <2> HIDE DEF r
  <2>2. m.n = -1
    BY <2>1 DEF Mismatch, Matched
  <2>3. ~(Len(vs) >= q)
    BY <1>2, <1>3, <1>9
  <2> HIDE DEF m, l, q, vs, ps
  <2>4. \A b : ~InstIn(b, n + 1, p, v)
    BY <1>6, <2>3
  <2>5. Exact(n + 1, p, v, sc, next, t[l].sc, t[l].next, M, m)
    BY <2>2, <2>4, ExactFailed
  <2> QED
    BY <2>5 DEF m, l, vs, ps
<1> QED
  BY <1>8, <1>9

LEMMA CompositeExact ==
    ASSUME NEW n \in Nat, n + 1 \in 0..Depth, ExactAt(n), NEW p \in PatternType[n + 1],
           p.k \in {"tuple", "list"}, NEW sc, IsScope(sc), NEW next \in Nat,
           NEW f \in (n + 1) + 1 + Depth..Calls, NEW M \in Memories, NEW v \in ValueType[Depth]
    PROVE  ExactOk(n + 1, p, sc, next, f, M, v)
<1> DEFINE g == GenIn(n + 1, p, sc, next)
           m == MatchIn(f, M, g.pat, v, next)
<1> SUFFICES ASSUME Held(M, sc, next), BoundRests[n + 1][g.pat] = {}, g.next <= LastReg + 1
             PROVE  Exact(n + 1, p, v, sc, next, g.sc, g.next, M, m)
  BY DEF ExactOk
<1>1. /\ n \in 0..Depth /\ n + 1 \in 1..Depth /\ (n + 1) - 1 = n /\ n + 1 # 0
      /\ f \in 1..Calls /\ f \in 0..Calls /\ f - 1 \in n + 1 + Depth..Calls
  BY TermsAssumption DEF Calls
<1>2. p.ms \in Seq(PatternType[n]) /\ RestLast(p.ms)
  <2>1. p \notin Simple /\ ~(p \in [k : {"ident", "rest"}, x : Names])
    BY SimpleKind
  <2>2. p.ms \in Seq(PatternType[n]) /\ (RestNever(p.ms) \/ RestLast(p.ms))
    BY <1>1, <2>1, PatternKind
  <2>3. RestNever(p.ms) => RestLast(p.ms)
    BY <2>2 DEF RestNever, RestLast
  <2> QED
    BY <2>2, <2>3
<1>3. GenRightAt(n) /\ GenRightAt(n + 1)
  BY <1>1, GenRight
<1>4. PICK t : MadeOf(n, p, sc, next, t)
  BY <1>1, <1>3, GenMadeOf
<1> DEFINE ps == p.ms
           l == Len(ps)
           cs == t[l].pats
<1>5. /\ Chain(n, ps, sc, next, t)
      /\ g.pat = [k |-> p.k, ms |-> cs] /\ g.sc = t[l].sc /\ g.next = t[l].next
  BY <1>4 DEF MadeOf
<1>6. g.pat \in CompiledType[n + 1] /\ g.pat \in CompiledType[Depth]
  <2>1. GenOk(n + 1, p, sc, next)
    BY <1>3 DEF GenRightAt
  <2>2. g.pat \in CompiledType[n + 1]
    BY <2>1 DEF GenOk
  <2> QED
    BY <1>1, <2>2, CompiledGrow
<1>7. g.pat.k = p.k /\ g.pat.ms = cs
  BY <1>5
<1>8. Does(Inner(f), f - 1)
  BY <1>1, InnerDoes
<1>9. l \in Nat /\ Len(cs) = l
  BY <1>1, <1>2, <1>5, ChainMembers
<1>10. \A i \in 1..l : BoundRests[n][cs[i]] = {}
  <2>1. Before(BoundRests, n + 1) = BoundRests[n]
    BY <1>1 DEF Before
  <2> HIDE DEF g, cs, l
  <2>2. \A i \in 1..Len(g.pat.ms) : Before(BoundRests, n + 1)[g.pat.ms[i]] = {}
    BY <1>6, <1>7, RestsNone
  <2> QED
    BY <1>7, <1>9, <2>1, <2>2
<1>11. MadeToMatch(n, p, sc, next, t, f - 1, M, v)
  <2>1. t[l].next <= LastReg + 1
    BY <1>5
  <2> QED
    BY <1>1, <1>2, <1>5, <1>10, <2>1 DEF MadeToMatch
<1>12. CASE p.k # v.k
  <2>1. g.pat.k \notin {"any", "var"} /\ g.pat.k # v.k
    BY <1>7, <1>12
  <2> HIDE DEF g
  <2>2. m = Mismatch(M)
    BY <1>1, <1>6, <2>1, MatchKinds
  <2>3. m.n = -1
    BY <2>2 DEF Mismatch, Matched
  <2>4. \A b : ~InstIn(b, n + 1, p, v)
    <3>1. CASE p.k = "tuple"
      BY <1>12, <3>1, InstTuple
    <3>2. CASE p.k = "list"
      BY <1>12, <3>2, InstList
    <3> QED
      BY <3>1, <3>2
  <2> HIDE DEF m
  <2> QED
    BY <2>3, <2>4, ExactFailed
<1>13. CASE p.k = "tuple" /\ v.k = "tuple"
  <2>1. m = IF Len(cs) # Len(v.ms) THEN Mismatch(M)
            ELSE MembersBy(Inner(f), M, cs, v.ms, Len(cs), next)
    <3> HIDE DEF g, cs
    <3>1. g.pat.k = "tuple"
      BY <1>7, <1>13
    <3>2. m = IF Len(g.pat.ms) # Len(v.ms) THEN Mismatch(M)
              ELSE MembersBy(Inner(f), M, g.pat.ms, v.ms, Len(g.pat.ms), next)
      BY <1>1, <1>6, <1>13, <3>1, MatchTuples
    <3> QED
      BY <1>7, <3>2
  <2>2. CASE l # Len(v.ms)
    <3> HIDE DEF cs, g
    <3>1. m.n = -1
      <4>1. m = Mismatch(M)
        <5> HIDE DEF l, m
        <5> QED
          BY <1>9, <2>1, <2>2
      <4> HIDE DEF m
      <4> QED
        BY <4>1 DEF Mismatch, Matched
    <3>2. \A b : ~InstIn(b, n + 1, p, v)
      <4> SUFFICES ASSUME NEW b PROVE ~InstIn(b, n + 1, p, v)
        OBVIOUS
      <4>1. p.k = "tuple" /\ Len(v.ms) # Len(p.ms)
        BY <1>13, <2>2
      <4>2. InstIn(b, n + 1, p, v) => Len(v.ms) = Len(p.ms)
        BY <4>1, InstTuple
      <4> QED
        BY <4>1, <4>2
    <3> HIDE DEF m
    <3> QED
      BY <3>1, <3>2, ExactFailed
  <2>3. CASE l = Len(v.ms)
    <3> DEFINE r == MembersBy(Inner(f), M, cs, v.ms, l, next)
    <3>1. Exact(n + 1, p, v, sc, next, t[l].sc, t[l].next, M, r)
      BY <1>8, <1>11, <1>13, <2>3, TupleExact
    <3> HIDE DEF cs, g, m
    <3>2. m = r
      BY <1>9, <2>1, <2>3
    <3> HIDE DEF r, l
    <3> QED
      BY <1>5, <3>1, <3>2, Zenon
  <2> QED
    BY <2>2, <2>3
<1>14. CASE p.k = "list" /\ v.k = "list"
  <2> DEFINE r == ListBy(Inner(f), M, cs, v.ms, next)
  <2>1. m = r
    <3> HIDE DEF g, cs
    <3>1. g.pat.k = "list"
      BY <1>7, <1>14
    <3>2. m = ListBy(Inner(f), M, g.pat.ms, v.ms, next)
      BY <1>1, <1>6, <1>14, <3>1, MatchLists
    <3> QED
      BY <1>7, <3>2
  <2>2. Exact(n + 1, p, v, sc, next, t[l].sc, t[l].next, M, r)
    BY <1>8, <1>11, <1>14, PlainListExact, RestListExact
  <2> HIDE DEF r, m, l, g, cs
  <2> QED
    BY <1>5, <2>1, <2>2, Zenon
<1> QED
  BY <1>12, <1>13, <1>14

\* A match of what gen_pattern made is exact, where no range is bound.
LEMMA MatchExact ==
    ASSUME NEW d \in 0..Depth
    PROVE  ExactAt(d)
<1>1. ASSUME NEW n \in 0..Depth, NEW p \in PatternType[n], NEW sc, NEW next \in Nat, IsScope(sc),
             NEW f \in n + 1 + Depth..Calls, NEW M \in Memories, NEW v \in ValueType[Depth],
             p \in Simple \/ p \in [k : {"ident", "rest"}, x : Names]
      PROVE  ExactOk(n, p, sc, next, f, M, v)
  <2>1. f \in 0..Calls /\ f \in Depth + 1..Calls
    BY TermsAssumption DEF Calls
  <2>2. CASE p \in Simple
    BY <1>1, <2>1, <2>2, SimpleExact
  <2>3. CASE p \in [k : {"ident", "rest"}, x : Names]
    <3>1. p.k \in {"ident", "rest"}
      BY <2>3
    <3> QED
      BY <1>1, <2>1, <3>1, BoundExact, FreshExact
  <2> QED
    BY <1>1, <2>2, <2>3
<1> DEFINE S == {n \in Nat : n \in 0..Depth => ExactAt(n)}
<1>2. 0 \in S
  <2>1. 0 \in 0..Depth
    BY TermsAssumption
  <2>2. \A p \in PatternType[0] : p \in Simple \/ p \in [k : {"ident", "rest"}, x : Names]
    BY <2>1, PatternKind
  <2>3. ExactAt(0)
    BY <1>1, <2>1, <2>2 DEF ExactAt
  <2> QED
    BY <2>3
<1>3. ASSUME NEW n \in S PROVE n + 1 \in S
  <2>1. n \in Nat /\ n + 1 \in Nat
    OBVIOUS
  <2> SUFFICES ASSUME n + 1 \in 0..Depth PROVE ExactAt(n + 1)
    BY <2>1
  <2>2. n \in 0..Depth /\ ExactAt(n)
    BY <2>1, TermsAssumption
  <2> HIDE DEF S
  <2> SUFFICES ASSUME NEW p \in PatternType[n + 1], NEW sc, NEW next, IsScope(sc), next \in Nat,
                      NEW f \in (n + 1) + 1 + Depth..Calls, NEW M \in Memories,
                      NEW v \in ValueType[Depth]
               PROVE  ExactOk(n + 1, p, sc, next, f, M, v)
    BY Zenon DEF ExactAt
  <2>3. \/ p \in Simple \/ p \in [k : {"ident", "rest"}, x : Names]
        \/ p.k \in {"tuple", "list"}
    BY PatternKind
  <2>4. CASE p \in Simple \/ p \in [k : {"ident", "rest"}, x : Names]
    BY <1>1, <2>4
  <2>5. CASE p.k \in {"tuple", "list"}
    BY <2>1, <2>2, <2>5, CompositeExact
  <2> QED
    BY <2>3, <2>4, <2>5
<1>4. S = Nat
  <2> HIDE DEF S
  <2> QED
    BY <1>2, <1>3, SetInduction DEF S
<1> QED
  BY <1>4, TermsAssumption

-----------------------------------------------------------------------------
(* What all this says of GenPattern, Match, Instance and Parts.            *)

\* gen_pattern adds the names of the pattern to those in scope, each with one
\* of the registers it counts.
CompiledRight(p, sc, next) ==
    LET g == GenPattern(p, sc, next)
    IN /\ Grown(sc, next, g.sc, g.next)
       /\ DOMAIN g.sc = DOMAIN sc \cup NamesIn(p)
       /\ g.pat \in CompiledType[Depth]

\* What GenPattern returns, whose registers are numbers without a limit.
LEMMA CompiledIs ==
    ASSUME NEW p \in PatternType[Depth], NEW sc, IsScope(sc), NEW next \in Nat
    PROVE  CompiledRight(p, sc, next)
<1>1. Depth \in 0..Depth
  BY TermsAssumption
<1>2. GenOk(Depth, p, sc, next)
  BY <1>1, GenRight DEF GenRightAt
<1>3. GenPattern(p, sc, next) = GenIn(Depth, p, sc, next)
  BY Zenon DEF GenPattern, GenIn
<1> QED
  BY <1>2, <1>3, Zenon DEF CompiledRight, GenOk, NamesIn

\* For any pattern of any depth, in any scope: what gen_pattern returns, as long
\* as nextreg does not come to its last register and wrap around.
THEOREM PatternCompiles ==
    ASSUME NEW p \in PatternType[Depth], NEW sc, IsScope(sc), NEW next \in Nat,
           GenPattern(p, sc, next).next <= LastReg + 1
    PROVE  CompiledRight(p, sc, next)
BY CompiledIs

\* match writes to nothing but the registers counted for the pattern.
WritesOwn(p, sc, next, M, v, at) ==
    LET g == GenPattern(p, sc, next)
    IN at + (g.next - next) <= LastReg + 1 =>
         Within(M, Match(M, g.pat, v, at), at, g.next - next)

\* For any pattern, frame and value, in a frame with room for the pattern's
\* registers: whether the match succeeds or fails.
THEOREM MatchWritesOwn ==
    ASSUME NEW p \in PatternType[Depth], NEW sc, IsScope(sc), NEW next \in Nat,
           NEW M \in Memories, NEW v \in ValueType[Depth], NEW at \in Nat
    PROVE  WritesOwn(p, sc, next, M, v, at)
<1>1. Depth \in 0..Depth /\ Calls \in Depth + 1 + Depth..Calls
  BY TermsAssumption DEF Calls
<1>2. BoundOk(Depth, p, sc, next, Calls, M, v, at)
  BY <1>1, Bounds DEF BoundsAt
<1>3. GenPattern(p, sc, next) = GenIn(Depth, p, sc, next)
  BY Zenon DEF GenPattern, GenIn
<1>4. \A q : Match(M, q, v, at) = MatchIn(Calls, M, q, v, at)
  BY Zenon DEF Match, MatchIn
<1> QED
  BY <1>2, <1>3, <1>4, Zenon DEF WritesOwn, BoundOk

\* match succeeds with the bindings that make the value an instance, and
\* those alone; a new name is bound to a part of the value.
MatchRight(p, sc, next, M, v) ==
    LET g == GenPattern(p, sc, next)
        m == Match(M, g.pat, v, next)
    IN Held(M, sc, next) /\ ~BoundRest(g.pat) /\ g.next <= LastReg + 1 =>
         /\ m.n # -1 => /\ m.n = g.next - next
                        /\ Held(m.mem, g.sc, g.next)
                        /\ \A x \in DOMAIN g.sc \ DOMAIN sc : m.mem[g.sc[x]] \in Parts(v)
         /\ \A b : Agrees(b, M, sc) => (Instance(p, v, b) <=> m.n # -1 /\ Agrees(b, m.mem, g.sc))

\* For any pattern in which no range is bound, any value and any frame that
\* holds what is in scope: the compiled pattern means what the source does.
THEOREM MatchIsInstance ==
    ASSUME NEW p \in PatternType[Depth], NEW sc, IsScope(sc), NEW next \in Nat,
           NEW M \in Memories, NEW v \in ValueType[Depth]
    PROVE  MatchRight(p, sc, next, M, v)
<1>1. Depth \in 0..Depth /\ Calls \in Depth + 1 + Depth..Calls
  BY TermsAssumption DEF Calls
<1>2. ExactOk(Depth, p, sc, next, Calls, M, v)
  BY <1>1, MatchExact DEF ExactAt
<1> DEFINE g == GenPattern(p, sc, next)
           m == Match(M, g.pat, v, next)
<1>3. g = GenIn(Depth, p, sc, next)
  BY Zenon DEF GenPattern, GenIn
<1>4. \A q : Match(M, q, v, next) = MatchIn(Calls, M, q, v, next)
  BY Zenon DEF Match, MatchIn
<1>5. \A b : Instance(p, v, b) <=> InstIn(b, Depth, p, v)
  <2> SUFFICES ASSUME NEW b PROVE Instance(p, v, b) <=> InstIn(b, Depth, p, v)
    OBVIOUS
  <2>1. Instance(p, v, b) = InstanceIn(b)[Depth][p][v]
    BY InstanceDef
  <2> QED
    BY <2>1, Zenon DEF InstIn
<1> SUFFICES ASSUME Held(M, sc, next), ~BoundRest(g.pat), g.next <= LastReg + 1
             PROVE  /\ m.n # -1 => /\ m.n = g.next - next
                                   /\ Held(m.mem, g.sc, g.next)
                                   /\ \A x \in DOMAIN g.sc \ DOMAIN sc : m.mem[g.sc[x]] \in Parts(v)
                    /\ \A b : Agrees(b, M, sc) =>
                                (Instance(p, v, b) <=> m.n # -1 /\ Agrees(b, m.mem, g.sc))
  BY Zenon DEF MatchRight
<1>6. BoundRests[Depth][g.pat] = {}
  BY Zenon DEF BoundRest
<1>7. m = MatchIn(Calls, M, g.pat, v, next)
  BY <1>4
<1> HIDE DEF m, g
<1>8. Exact(Depth, p, v, sc, next, g.sc, g.next, M, m)
  BY <1>2, <1>3, <1>6, <1>7, Zenon DEF ExactOk
<1>9. \A y : PartOf(y, v) => y \in Parts(v)
  BY <1>1 DEF PartOf, Parts
<1>10. m.n # -1 => m.n = g.next - next /\ Held(m.mem, g.sc, g.next)
  BY <1>8, Zenon DEF Exact, Counted
<1>11. m.n # -1 => \A x \in DOMAIN g.sc \ DOMAIN sc : m.mem[g.sc[x]] \in Parts(v)
  BY <1>8, <1>9, Zenon DEF Exact, BindsParts
<1>12. \A b : Agrees(b, M, sc) => (Instance(p, v, b) <=> m.n # -1 /\ Agrees(b, m.mem, g.sc))
  BY <1>5, <1>8, Zenon DEF Exact, Solves
<1> QED
  BY <1>10, <1>11, <1>12

================================================================================
