----------------------------- MODULE FormatProofs -----------------------------
(***************************************************************************)
(* Proofs about the format: for any number of values of a byte and any     *)
(* depth, what vm_read* and bin_read* read is what dump_* wrote, and they  *)
(* read to its end, as long as it is inside of the format's limits.        *)
(***************************************************************************)
EXTENDS Format, WellFoundedInduction, SequenceTheorems, TLAPS

-----------------------------------------------------------------------------
\* Induction over the natural numbers, for what can be said as a set of them.
LEMMA SetInduction ==
    ASSUME NEW S \in SUBSET Nat, 0 \in S, \A n \in S : n + 1 \in S
    PROVE  S = Nat
<1> DEFINE T == Nat \ S
           Less == {p \in Nat \X Nat : p[1] < p[2]}
<1> SUFFICES ASSUME T # {} PROVE FALSE
  OBVIOUS
<1>1. Less = OpToRel(<, Nat)
  BY DEF OpToRel
<1>2. IsWellFoundedOn(Less, Nat)
  BY <1>1, NatLessThanWellFounded
<1> HIDE DEF Less
<1>3. PICK x \in T : \A y \in T : ~ (<<y, x>> \in Less)
  BY <1>2, WFMin, Zenon
<1>4. x \in Nat /\ x # 0
  OBVIOUS
<1>5. x - 1 \in Nat /\ x - 1 \notin T
  <2>1. x - 1 \in Nat /\ <<x - 1, x>> \in Less
    BY <1>4 DEF Less
  <2> QED
    BY <1>3, <2>1
<1> QED
  BY <1>4, <1>5

-----------------------------------------------------------------------------
\* What is recursive has the definition's values.  First, a function up to m
\* and its next value.
Longer(m, g, e) == [i \in 0..m + 1 |-> IF i <= m THEN g[i] ELSE e]

LEMMA LongerFacts ==
    ASSUME NEW m \in Nat, NEW g, NEW e
    PROVE  /\ Longer(m, g, e) = [i \in 0..m + 1 |-> Longer(m, g, e)[i]]
           /\ Longer(m, g, e)[m + 1] = e
           /\ \A i \in 0..m : Longer(m, g, e)[i] = g[i]
BY DEF Longer

\* rd reads the nodes of f that nest up to n deep.
NodesAt(f, r) == [p \in Nat |-> NodeAt(f, r, p)]
ReadsNodes(f, n, rd) ==
    rd = [i \in 0..n |-> IF i = 0 THEN [p \in Nat |-> Crash] ELSE NodesAt(f, rd[i - 1])]

LEMMA ReadsNodesExists ==
    ASSUME NEW f, NEW n \in Nat
    PROVE  \E rd : ReadsNodes(f, n, rd)
<1> DEFINE S == {m \in Nat : \E g : ReadsNodes(f, m, g)}
<1>1. 0 \in S
  <2> DEFINE g == [i \in 0..0 |-> [p \in Nat |-> Crash]]
  <2>1. ReadsNodes(f, 0, g)
    BY DEF ReadsNodes
  <2> QED
    BY <2>1
<1>2. ASSUME NEW m \in S PROVE m + 1 \in S
  <2>1. m \in Nat
    OBVIOUS
  <2>2. PICK g : ReadsNodes(f, m, g)
    OBVIOUS
  <2> DEFINE h == Longer(m, g, NodesAt(f, g[m]))
  <2>3. /\ h = [i \in 0..m + 1 |-> h[i]]
        /\ h[m + 1] = NodesAt(f, g[m])
        /\ \A i \in 0..m : h[i] = g[i]
    BY <2>1, LongerFacts
  <2> HIDE DEF h, S
  <2>4. ASSUME NEW i \in 0..m + 1
        PROVE  h[i] = IF i = 0 THEN [p \in Nat |-> Crash] ELSE NodesAt(f, h[i - 1])
    <3>1. \A k \in 0..m : g[k] = IF k = 0 THEN [p \in Nat |-> Crash] ELSE NodesAt(f, g[k - 1])
      BY <2>2 DEF ReadsNodes
    <3>2. CASE i = m + 1
      <4>1. i - 1 = m /\ m \in 0..m /\ i # 0
        BY <2>1, <3>2
      <4>2. h[i - 1] = g[m]
        BY <2>3, <4>1
      <4> QED
        BY <2>3, <3>2, <4>1, <4>2
    <3>3. CASE i \in 1..m
      <4>1. i \in 0..m /\ i - 1 \in 0..m /\ i # 0
        BY <2>1, <3>3
      <4>2. h[i] = g[i] /\ h[i - 1] = g[i - 1]
        BY <2>3, <4>1
      <4> QED
        BY <3>1, <4>1, <4>2
    <3>4. CASE i = 0
      <4>1. 0 \in 0..m
        BY <2>1
      <4>2. h[0] = g[0]
        BY <2>3, <4>1
      <4> QED
        BY <3>1, <3>4, <4>1, <4>2
    <3> QED
      BY <2>1, <3>2, <3>3, <3>4
  <2>5. ReadsNodes(f, m + 1, h)
    BY <2>3, <2>4 DEF ReadsNodes
  <2> QED
    BY <2>1, <2>5 DEF S
<1> HIDE DEF S
<1>3. S = Nat
  BY <1>1, <1>2, SetInduction DEF S
<1> QED
  BY <1>3 DEF S

\* Where there are so many bytes, what reads a node has its definition.
LEMMA NodeReaderStep ==
    ASSUME NEW f, Len(f) \in Nat, NEW m \in 1..Len(f), NEW p \in Nat
    PROVE  NodeReader(f)[m][p] = NodeAt(f, NodeReader(f)[m - 1], p)
<1> DEFINE rd == CHOOSE rd : ReadsNodes(f, Len(f), rd)
<1>1. ReadsNodes(f, Len(f), rd)
  BY ReadsNodesExists
<1>2. NodeReader(f) = rd
  BY DEF NodeReader, ReadsNodes, NodesAt
<1> HIDE DEF rd
<1>3. NodeReader(f)[m] = NodesAt(f, NodeReader(f)[m - 1])
  BY <1>1, <1>2 DEF ReadsNodes
<1> QED
  BY <1>3 DEF NodesAt


\* rd reads the constants of f that nest up to n deep.
ConstantsAt(f, r) == [p \in Nat |-> ConstantAt(f, r, p)]
ReadsConstants(f, n, rd) ==
    rd = [i \in 0..n |-> IF i = 0 THEN [p \in Nat |-> Crash] ELSE ConstantsAt(f, rd[i - 1])]

LEMMA ReadsConstantsExists ==
    ASSUME NEW f, NEW n \in Nat
    PROVE  \E rd : ReadsConstants(f, n, rd)
<1> DEFINE S == {m \in Nat : \E g : ReadsConstants(f, m, g)}
<1>1. 0 \in S
  <2> DEFINE g == [i \in 0..0 |-> [p \in Nat |-> Crash]]
  <2>1. ReadsConstants(f, 0, g)
    BY DEF ReadsConstants
  <2> QED
    BY <2>1
<1>2. ASSUME NEW m \in S PROVE m + 1 \in S
  <2>1. m \in Nat
    OBVIOUS
  <2>2. PICK g : ReadsConstants(f, m, g)
    OBVIOUS
  <2> DEFINE h == Longer(m, g, ConstantsAt(f, g[m]))
  <2>3. /\ h = [i \in 0..m + 1 |-> h[i]]
        /\ h[m + 1] = ConstantsAt(f, g[m])
        /\ \A i \in 0..m : h[i] = g[i]
    BY <2>1, LongerFacts
  <2> HIDE DEF h, S
  <2>4. ASSUME NEW i \in 0..m + 1
        PROVE  h[i] = IF i = 0 THEN [p \in Nat |-> Crash] ELSE ConstantsAt(f, h[i - 1])
    <3>1. \A k \in 0..m : g[k] = IF k = 0 THEN [p \in Nat |-> Crash] ELSE ConstantsAt(f, g[k - 1])
      BY <2>2 DEF ReadsConstants
    <3>2. CASE i = m + 1
      <4>1. i - 1 = m /\ m \in 0..m /\ i # 0
        BY <2>1, <3>2
      <4>2. h[i - 1] = g[m]
        BY <2>3, <4>1
      <4> QED
        BY <2>3, <3>2, <4>1, <4>2
    <3>3. CASE i \in 1..m
      <4>1. i \in 0..m /\ i - 1 \in 0..m /\ i # 0
        BY <2>1, <3>3
      <4>2. h[i] = g[i] /\ h[i - 1] = g[i - 1]
        BY <2>3, <4>1
      <4> QED
        BY <3>1, <4>1, <4>2
    <3>4. CASE i = 0
      <4>1. 0 \in 0..m
        BY <2>1
      <4>2. h[0] = g[0]
        BY <2>3, <4>1
      <4> QED
        BY <3>1, <3>4, <4>1, <4>2
    <3> QED
      BY <2>1, <3>2, <3>3, <3>4
  <2>5. ReadsConstants(f, m + 1, h)
    BY <2>3, <2>4 DEF ReadsConstants
  <2> QED
    BY <2>1, <2>5 DEF S
<1> HIDE DEF S
<1>3. S = Nat
  BY <1>1, <1>2, SetInduction DEF S
<1> QED
  BY <1>3 DEF S

\* Where there are so many bytes, what reads a constant has its definition.
LEMMA ConstantReaderStep ==
    ASSUME NEW f, Len(f) \in Nat, NEW m \in 1..Len(f), NEW p \in Nat
    PROVE  ConstantReader(f)[m][p] = ConstantAt(f, ConstantReader(f)[m - 1], p)
<1> DEFINE rd == CHOOSE rd : ReadsConstants(f, Len(f), rd)
<1>1. ReadsConstants(f, Len(f), rd)
  BY ReadsConstantsExists
<1>2. ConstantReader(f) = rd
  BY DEF ConstantReader, ReadsConstants, ConstantsAt
<1> HIDE DEF rd
<1>3. ConstantReader(f)[m] = ConstantsAt(f, ConstantReader(f)[m - 1])
  BY <1>1, <1>2 DEF ReadsConstants
<1> QED
  BY <1>3 DEF ConstantsAt


\* s reads n values from p on.
ReadNext(rd, r) ==
    LET v == rd[r.p] IN IF r.p = 0 \/ v.p = 0 THEN Crash ELSE At(v.p, Append(r.x, v.x))
ReadsMany(rd, p, n, s) ==
    s = [i \in 0..n |-> IF i = 0 THEN At(p, <<>>) ELSE ReadNext(rd, s[i - 1])]

LEMMA ReadsManyExists ==
    ASSUME NEW rd, NEW p, NEW n \in Nat
    PROVE  \E s : ReadsMany(rd, p, n, s)
<1> DEFINE S == {m \in Nat : \E g : ReadsMany(rd, p, m, g)}
<1>1. 0 \in S
  <2> DEFINE g == [i \in 0..0 |-> At(p, <<>>)]
  <2>1. ReadsMany(rd, p, 0, g)
    BY DEF ReadsMany
  <2> QED
    BY <2>1
<1>2. ASSUME NEW m \in S PROVE m + 1 \in S
  <2>1. m \in Nat
    OBVIOUS
  <2>2. PICK g : ReadsMany(rd, p, m, g)
    OBVIOUS
  <2> DEFINE h == Longer(m, g, ReadNext(rd, g[m]))
  <2>3. /\ h = [i \in 0..m + 1 |-> h[i]]
        /\ h[m + 1] = ReadNext(rd, g[m])
        /\ \A i \in 0..m : h[i] = g[i]
    BY <2>1, LongerFacts
  <2> HIDE DEF h, S
  <2>4. ASSUME NEW i \in 0..m + 1
        PROVE  h[i] = IF i = 0 THEN At(p, <<>>) ELSE ReadNext(rd, h[i - 1])
    <3>1. \A k \in 0..m : g[k] = IF k = 0 THEN At(p, <<>>) ELSE ReadNext(rd, g[k - 1])
      BY <2>2 DEF ReadsMany
    <3>2. CASE i = m + 1
      <4>1. i - 1 = m /\ m \in 0..m /\ i # 0
        BY <2>1, <3>2
      <4>2. h[i - 1] = g[m]
        BY <2>3, <4>1
      <4> QED
        BY <2>3, <3>2, <4>1, <4>2
    <3>3. CASE i \in 1..m
      <4>1. i \in 0..m /\ i - 1 \in 0..m /\ i # 0
        BY <2>1, <3>3
      <4>2. h[i] = g[i] /\ h[i - 1] = g[i - 1]
        BY <2>3, <4>1
      <4> QED
        BY <3>1, <4>1, <4>2
    <3>4. CASE i = 0
      <4>1. 0 \in 0..m
        BY <2>1
      <4>2. h[0] = g[0]
        BY <2>3, <4>1
      <4> QED
        BY <3>1, <3>4, <4>1, <4>2
    <3> QED
      BY <2>1, <3>2, <3>3, <3>4
  <2>5. ReadsMany(rd, p, m + 1, h)
    BY <2>3, <2>4 DEF ReadsMany
  <2> QED
    BY <2>1, <2>5 DEF S
<1> HIDE DEF S
<1>3. S = Nat
  BY <1>1, <1>2, SetInduction DEF S
<1> QED
  BY <1>3 DEF S

\* Where there are so many bytes, ReadMany is the last of them.
ManyRead(rd, p, n) == CHOOSE s : ReadsMany(rd, p, n, s)

LEMMA ReadManyLoop ==
    ASSUME NEW f, NEW rd, NEW n \in Nat, NEW p, There(f, p, n)
    PROVE  /\ ReadsMany(rd, p, n, ManyRead(rd, p, n))
           /\ ReadMany(f, rd, n, p) = ManyRead(rd, p, n)[n]
<1>1. ReadsMany(rd, p, n, ManyRead(rd, p, n))
  BY ReadsManyExists DEF ManyRead
<1>2. ReadMany(f, rd, n, p) = ManyRead(rd, p, n)[n]
  BY DEF ReadMany, ReadsMany, ReadNext, ManyRead
<1> QED
  BY <1>1, <1>2

\* ps are the parameters with these texts and arities, nested up to n deep.
ParametersOf(texts, arities, ps) ==
    {AnyValue} \cup [t : {TYPE_NUMBER}, number : IntType] \cup [t : {TYPE_ATOM}, atom : texts]
      \cup Tuples(arities, ps)
AreParameters(texts, arities, n, ps) ==
    ps = [i \in 0..n |-> IF i = 0 THEN {} ELSE ParametersOf(texts, arities, ps[i - 1])]

LEMMA AreParametersExists ==
    ASSUME NEW texts, NEW arities, NEW n \in Nat
    PROVE  \E ps : AreParameters(texts, arities, n, ps)
<1> DEFINE S == {m \in Nat : \E g : AreParameters(texts, arities, m, g)}
<1>1. 0 \in S
  <2> DEFINE g == [i \in 0..0 |-> {}]
  <2>1. AreParameters(texts, arities, 0, g)
    BY DEF AreParameters
  <2> QED
    BY <2>1
<1>2. ASSUME NEW m \in S PROVE m + 1 \in S
  <2>1. m \in Nat
    OBVIOUS
  <2>2. PICK g : AreParameters(texts, arities, m, g)
    OBVIOUS
  <2> DEFINE h == Longer(m, g, ParametersOf(texts, arities, g[m]))
  <2>3. /\ h = [i \in 0..m + 1 |-> h[i]]
        /\ h[m + 1] = ParametersOf(texts, arities, g[m])
        /\ \A i \in 0..m : h[i] = g[i]
    BY <2>1, LongerFacts
  <2> HIDE DEF h, S
  <2>4. ASSUME NEW i \in 0..m + 1
        PROVE  h[i] = IF i = 0 THEN {} ELSE ParametersOf(texts, arities, h[i - 1])
    <3>1. \A k \in 0..m : g[k] = IF k = 0 THEN {} ELSE ParametersOf(texts, arities, g[k - 1])
      BY <2>2 DEF AreParameters
    <3>2. CASE i = m + 1
      <4>1. i - 1 = m /\ m \in 0..m /\ i # 0
        BY <2>1, <3>2
      <4>2. h[i - 1] = g[m]
        BY <2>3, <4>1
      <4> QED
        BY <2>3, <3>2, <4>1, <4>2
    <3>3. CASE i \in 1..m
      <4>1. i \in 0..m /\ i - 1 \in 0..m /\ i # 0
        BY <2>1, <3>3
      <4>2. h[i] = g[i] /\ h[i - 1] = g[i - 1]
        BY <2>3, <4>1
      <4> QED
        BY <3>1, <4>1, <4>2
    <3>4. CASE i = 0
      <4>1. 0 \in 0..m
        BY <2>1
      <4>2. h[0] = g[0]
        BY <2>3, <4>1
      <4> QED
        BY <3>1, <3>4, <4>1, <4>2
    <3> QED
      BY <2>1, <3>2, <3>3, <3>4
  <2>5. AreParameters(texts, arities, m + 1, h)
    BY <2>3, <2>4 DEF AreParameters
  <2> QED
    BY <2>1, <2>5 DEF S
<1> HIDE DEF S
<1>3. S = Nat
  BY <1>1, <1>2, SetInduction DEF S
<1> QED
  BY <1>3 DEF S

\* Parameters has its definition.
LEMMA ParametersStep ==
    ASSUME NEW texts, NEW arities
    PROVE  /\ Parameters(texts, arities)[0] = {}
           /\ \A d \in 1..Depth :
                Parameters(texts, arities)[d] = ParametersOf(texts, arities, Parameters(texts, arities)[d - 1])
<1> DEFINE ps == CHOOSE ps : AreParameters(texts, arities, Depth, ps)
<1>1. AreParameters(texts, arities, Depth, ps)
  BY AreParametersExists, DepthAssumption
<1>2. Parameters(texts, arities) = ps
  BY DEF Parameters, AreParameters, ParametersOf
<1> HIDE DEF ps
<1>3. ps[0] = {}
  BY <1>1, DepthAssumption DEF AreParameters
<1>4. ASSUME NEW d \in 1..Depth PROVE ps[d] = ParametersOf(texts, arities, ps[d - 1])
  <2>1. d \in 0..Depth /\ d # 0
    BY DepthAssumption
  <2> QED
    BY <1>1, <2>1 DEF AreParameters
<1> QED
  BY <1>2, <1>3, <1>4


\* vs are the constants with these arities, nested up to n deep.
ValuesOf(arities, vs) ==
    [t : {TYPE_ANY, TYPE_VAR, TYPE_ANY + Q_RANGE, TYPE_VAR + Q_RANGE}, ident : ByteType]
      \cup [t : {TYPE_NUMBER}, number : IntType] \cup [t : {TYPE_ATOM}, atom : Texts]
      \cup [t : {TYPE_PATHID}, module : Texts, path : Texts]
      \cup Tuples(arities, vs)
      \cup {v \in [t : {TYPE_LIST}, items : Seq(vs)] : Len(v.items) < IntMax}
AreValues(arities, n, vs) ==
    vs = [i \in 0..n |-> IF i = 0 THEN {} ELSE ValuesOf(arities, vs[i - 1])]

LEMMA AreValuesExists ==
    ASSUME NEW arities, NEW n \in Nat
    PROVE  \E vs : AreValues(arities, n, vs)
<1> DEFINE S == {m \in Nat : \E g : AreValues(arities, m, g)}
<1>1. 0 \in S
  <2> DEFINE g == [i \in 0..0 |-> {}]
  <2>1. AreValues(arities, 0, g)
    BY DEF AreValues
  <2> QED
    BY <2>1
<1>2. ASSUME NEW m \in S PROVE m + 1 \in S
  <2>1. m \in Nat
    OBVIOUS
  <2>2. PICK g : AreValues(arities, m, g)
    OBVIOUS
  <2> DEFINE h == Longer(m, g, ValuesOf(arities, g[m]))
  <2>3. /\ h = [i \in 0..m + 1 |-> h[i]]
        /\ h[m + 1] = ValuesOf(arities, g[m])
        /\ \A i \in 0..m : h[i] = g[i]
    BY <2>1, LongerFacts
  <2> HIDE DEF h, S
  <2>4. ASSUME NEW i \in 0..m + 1
        PROVE  h[i] = IF i = 0 THEN {} ELSE ValuesOf(arities, h[i - 1])
    <3>1. \A k \in 0..m : g[k] = IF k = 0 THEN {} ELSE ValuesOf(arities, g[k - 1])
      BY <2>2 DEF AreValues
    <3>2. CASE i = m + 1
      <4>1. i - 1 = m /\ m \in 0..m /\ i # 0
        BY <2>1, <3>2
      <4>2. h[i - 1] = g[m]
        BY <2>3, <4>1
      <4> QED
        BY <2>3, <3>2, <4>1, <4>2
    <3>3. CASE i \in 1..m
      <4>1. i \in 0..m /\ i - 1 \in 0..m /\ i # 0
        BY <2>1, <3>3
      <4>2. h[i] = g[i] /\ h[i - 1] = g[i - 1]
        BY <2>3, <4>1
      <4> QED
        BY <3>1, <4>1, <4>2
    <3>4. CASE i = 0
      <4>1. 0 \in 0..m
        BY <2>1
      <4>2. h[0] = g[0]
        BY <2>3, <4>1
      <4> QED
        BY <3>1, <3>4, <4>1, <4>2
    <3> QED
      BY <2>1, <3>2, <3>3, <3>4
  <2>5. AreValues(arities, m + 1, h)
    BY <2>3, <2>4 DEF AreValues
  <2> QED
    BY <2>1, <2>5 DEF S
<1> HIDE DEF S
<1>3. S = Nat
  BY <1>1, <1>2, SetInduction DEF S
<1> QED
  BY <1>3 DEF S

\* Values has its definition.
LEMMA ValuesStep ==
    ASSUME NEW arities
    PROVE  /\ Values(arities)[0] = {}
           /\ \A d \in 1..Depth : Values(arities)[d] = ValuesOf(arities, Values(arities)[d - 1])
<1> DEFINE vs == CHOOSE vs : AreValues(arities, Depth, vs)
<1>1. AreValues(arities, Depth, vs)
  BY AreValuesExists, DepthAssumption
<1>2. Values(arities) = vs
  BY DEF Values, AreValues, ValuesOf
<1> HIDE DEF vs
<1>3. vs[0] = {}
  BY <1>1, DepthAssumption DEF AreValues
<1>4. ASSUME NEW d \in 1..Depth PROVE vs[d] = ValuesOf(arities, vs[d - 1])
  <2>1. d \in 0..Depth /\ d # 0
    BY DepthAssumption
  <2> QED
    BY <1>1, <2>1 DEF AreValues
<1> QED
  BY <1>2, <1>3, <1>4


\* dump writes the parameters nested up to n deep.
NodesDumped(d, dump) == [v \in Parameters(Texts, Nat)[d] |-> NodeBytes(v, dump)]
DumpsNodes(n, dump) ==
    dump = [i \in 0..n |-> IF i = 0 THEN <<>> ELSE NodesDumped(i, dump[i - 1])]

LEMMA DumpsNodesExists ==
    ASSUME NEW n \in Nat
    PROVE  \E dump : DumpsNodes(n, dump)
<1> DEFINE S == {m \in Nat : \E g : DumpsNodes(m, g)}
<1>1. 0 \in S
  <2> DEFINE g == [i \in 0..0 |-> <<>>]
  <2>1. DumpsNodes(0, g)
    BY DEF DumpsNodes
  <2> QED
    BY <2>1
<1>2. ASSUME NEW m \in S PROVE m + 1 \in S
  <2>1. m \in Nat
    OBVIOUS
  <2>2. PICK g : DumpsNodes(m, g)
    OBVIOUS
  <2> DEFINE h == Longer(m, g, NodesDumped(m + 1, g[m]))
  <2>3. /\ h = [i \in 0..m + 1 |-> h[i]]
        /\ h[m + 1] = NodesDumped(m + 1, g[m])
        /\ \A i \in 0..m : h[i] = g[i]
    BY <2>1, LongerFacts
  <2> HIDE DEF h, S
  <2>4. ASSUME NEW i \in 0..m + 1
        PROVE  h[i] = IF i = 0 THEN <<>> ELSE NodesDumped(i, h[i - 1])
    <3>1. \A k \in 0..m : g[k] = IF k = 0 THEN <<>> ELSE NodesDumped(k, g[k - 1])
      BY <2>2 DEF DumpsNodes
    <3>2. CASE i = m + 1
      <4>1. i - 1 = m /\ m \in 0..m /\ i # 0
        BY <2>1, <3>2
      <4>2. h[i - 1] = g[m]
        BY <2>3, <4>1
      <4> QED
        BY <2>3, <3>2, <4>1, <4>2
    <3>3. CASE i \in 1..m
      <4>1. i \in 0..m /\ i - 1 \in 0..m /\ i # 0
        BY <2>1, <3>3
      <4>2. h[i] = g[i] /\ h[i - 1] = g[i - 1]
        BY <2>3, <4>1
      <4> QED
        BY <3>1, <4>1, <4>2
    <3>4. CASE i = 0
      <4>1. 0 \in 0..m
        BY <2>1
      <4>2. h[0] = g[0]
        BY <2>3, <4>1
      <4> QED
        BY <3>1, <3>4, <4>1, <4>2
    <3> QED
      BY <2>1, <3>2, <3>3, <3>4
  <2>5. DumpsNodes(m + 1, h)
    BY <2>3, <2>4 DEF DumpsNodes
  <2> QED
    BY <2>1, <2>5 DEF S
<1> HIDE DEF S
<1>3. S = Nat
  BY <1>1, <1>2, SetInduction DEF S
<1> QED
  BY <1>3 DEF S

\* NodeDump has its definition.
LEMMA NodeDumpStep ==
    ASSUME NEW d \in 1..Depth, NEW v \in Parameters(Texts, Nat)[d]
    PROVE  NodeDump[d][v] = NodeBytes(v, NodeDump[d - 1])
<1> DEFINE dump == CHOOSE dump : DumpsNodes(Depth, dump)
<1>1. DumpsNodes(Depth, dump)
  BY DumpsNodesExists, DepthAssumption
<1>2. NodeDump = dump
  BY DEF NodeDump, DumpsNodes, NodesDumped
<1> HIDE DEF dump
<1>3. NodeDump[d] = NodesDumped(d, NodeDump[d - 1])
  BY <1>1, <1>2, DepthAssumption DEF DumpsNodes
<1> QED
  BY <1>3 DEF NodesDumped


\* dump writes the constants nested up to n deep.
ConstantsDumped(d, dump) == [v \in Values(Nat)[d] |-> ConstantBytes(v, dump)]
DumpsConstants(n, dump) ==
    dump = [i \in 0..n |-> IF i = 0 THEN <<>> ELSE ConstantsDumped(i, dump[i - 1])]

LEMMA DumpsConstantsExists ==
    ASSUME NEW n \in Nat
    PROVE  \E dump : DumpsConstants(n, dump)
<1> DEFINE S == {m \in Nat : \E g : DumpsConstants(m, g)}
<1>1. 0 \in S
  <2> DEFINE g == [i \in 0..0 |-> <<>>]
  <2>1. DumpsConstants(0, g)
    BY DEF DumpsConstants
  <2> QED
    BY <2>1
<1>2. ASSUME NEW m \in S PROVE m + 1 \in S
  <2>1. m \in Nat
    OBVIOUS
  <2>2. PICK g : DumpsConstants(m, g)
    OBVIOUS
  <2> DEFINE h == Longer(m, g, ConstantsDumped(m + 1, g[m]))
  <2>3. /\ h = [i \in 0..m + 1 |-> h[i]]
        /\ h[m + 1] = ConstantsDumped(m + 1, g[m])
        /\ \A i \in 0..m : h[i] = g[i]
    BY <2>1, LongerFacts
  <2> HIDE DEF h, S
  <2>4. ASSUME NEW i \in 0..m + 1
        PROVE  h[i] = IF i = 0 THEN <<>> ELSE ConstantsDumped(i, h[i - 1])
    <3>1. \A k \in 0..m : g[k] = IF k = 0 THEN <<>> ELSE ConstantsDumped(k, g[k - 1])
      BY <2>2 DEF DumpsConstants
    <3>2. CASE i = m + 1
      <4>1. i - 1 = m /\ m \in 0..m /\ i # 0
        BY <2>1, <3>2
      <4>2. h[i - 1] = g[m]
        BY <2>3, <4>1
      <4> QED
        BY <2>3, <3>2, <4>1, <4>2
    <3>3. CASE i \in 1..m
      <4>1. i \in 0..m /\ i - 1 \in 0..m /\ i # 0
        BY <2>1, <3>3
      <4>2. h[i] = g[i] /\ h[i - 1] = g[i - 1]
        BY <2>3, <4>1
      <4> QED
        BY <3>1, <4>1, <4>2
    <3>4. CASE i = 0
      <4>1. 0 \in 0..m
        BY <2>1
      <4>2. h[0] = g[0]
        BY <2>3, <4>1
      <4> QED
        BY <3>1, <3>4, <4>1, <4>2
    <3> QED
      BY <2>1, <3>2, <3>3, <3>4
  <2>5. DumpsConstants(m + 1, h)
    BY <2>3, <2>4 DEF DumpsConstants
  <2> QED
    BY <2>1, <2>5 DEF S
<1> HIDE DEF S
<1>3. S = Nat
  BY <1>1, <1>2, SetInduction DEF S
<1> QED
  BY <1>3 DEF S

\* ConstantDump has its definition.
LEMMA ConstantDumpStep ==
    ASSUME NEW d \in 1..Depth, NEW v \in Values(Nat)[d]
    PROVE  ConstantDump[d][v] = ConstantBytes(v, ConstantDump[d - 1])
<1> DEFINE dump == CHOOSE dump : DumpsConstants(Depth, dump)
<1>1. DumpsConstants(Depth, dump)
  BY DumpsConstantsExists, DepthAssumption
<1>2. ConstantDump = dump
  BY DEF ConstantDump, DumpsConstants, ConstantsDumped
<1> HIDE DEF dump
<1>3. ConstantDump[d] = ConstantsDumped(d, ConstantDump[d - 1])
  BY <1>1, <1>2, DepthAssumption DEF DumpsConstants
<1> QED
  BY <1>3 DEF ConstantsDumped


\* q are the quotients of x by powers of Base.
Divides(x, n, q) ==
    q = [i \in 0..n |-> IF i = 0 THEN x ELSE q[i - 1] \div Base]

LEMMA DividesExists ==
    ASSUME NEW x, NEW n \in Nat
    PROVE  \E q : Divides(x, n, q)
<1> DEFINE S == {m \in Nat : \E g : Divides(x, m, g)}
<1>1. 0 \in S
  <2> DEFINE g == [i \in 0..0 |-> x]
  <2>1. Divides(x, 0, g)
    BY DEF Divides
  <2> QED
    BY <2>1
<1>2. ASSUME NEW m \in S PROVE m + 1 \in S
  <2>1. m \in Nat
    OBVIOUS
  <2>2. PICK g : Divides(x, m, g)
    OBVIOUS
  <2> DEFINE h == Longer(m, g, g[m] \div Base)
  <2>3. /\ h = [i \in 0..m + 1 |-> h[i]]
        /\ h[m + 1] = g[m] \div Base
        /\ \A i \in 0..m : h[i] = g[i]
    BY <2>1, LongerFacts
  <2> HIDE DEF h, S
  <2>4. ASSUME NEW i \in 0..m + 1
        PROVE  h[i] = IF i = 0 THEN x ELSE h[i - 1] \div Base
    <3>1. \A k \in 0..m : g[k] = IF k = 0 THEN x ELSE g[k - 1] \div Base
      BY <2>2 DEF Divides
    <3>2. CASE i = m + 1
      <4>1. i - 1 = m /\ m \in 0..m /\ i # 0
        BY <2>1, <3>2
      <4>2. h[i - 1] = g[m]
        BY <2>3, <4>1
      <4> QED
        BY <2>3, <3>2, <4>1, <4>2
    <3>3. CASE i \in 1..m
      <4>1. i \in 0..m /\ i - 1 \in 0..m /\ i # 0
        BY <2>1, <3>3
      <4>2. h[i] = g[i] /\ h[i - 1] = g[i - 1]
        BY <2>3, <4>1
      <4> QED
        BY <3>1, <4>1, <4>2
    <3>4. CASE i = 0
      <4>1. 0 \in 0..m
        BY <2>1
      <4>2. h[0] = g[0]
        BY <2>3, <4>1
      <4> QED
        BY <3>1, <3>4, <4>1, <4>2
    <3> QED
      BY <2>1, <3>2, <3>3, <3>4
  <2>5. Divides(x, m + 1, h)
    BY <2>3, <2>4 DEF Divides
  <2> QED
    BY <2>1, <2>5 DEF S
<1> HIDE DEF S
<1>3. S = Nat
  BY <1>1, <1>2, SetInduction DEF S
<1> QED
  BY <1>3 DEF S

\* Bytes takes the quotients, one by one.
LEMMA BytesLoop ==
    ASSUME NEW w \in Nat \ {0}, NEW x
    PROVE  \E q : Divides(x, w - 1, q) /\ Bytes(w, x) = [i \in 1..w |-> q[i - 1] % Base]
<1> DEFINE q == CHOOSE q : Divides(x, w - 1, q)
<1>1. Divides(x, w - 1, q)
  BY DividesExists
<1>2. Bytes(w, x) = [i \in 1..w |-> q[i - 1] % Base]
  BY DEF Bytes, Divides
<1> QED
  BY <1>1, <1>2


\* j joins the first n + 1 of the sequences ss.
Joined(ss, i, r) == r \o ss[i + 1]
Joins(ss, n, j) ==
    j = [i \in 0..n |-> IF i = 0 THEN ss[1] ELSE Joined(ss, i, j[i - 1])]

LEMMA JoinsExists ==
    ASSUME NEW ss, NEW n \in Nat
    PROVE  \E j : Joins(ss, n, j)
<1> DEFINE S == {m \in Nat : \E g : Joins(ss, m, g)}
<1>1. 0 \in S
  <2> DEFINE g == [i \in 0..0 |-> ss[1]]
  <2>1. Joins(ss, 0, g)
    BY DEF Joins
  <2> QED
    BY <2>1
<1>2. ASSUME NEW m \in S PROVE m + 1 \in S
  <2>1. m \in Nat
    OBVIOUS
  <2>2. PICK g : Joins(ss, m, g)
    OBVIOUS
  <2> DEFINE h == Longer(m, g, Joined(ss, m + 1, g[m]))
  <2>3. /\ h = [i \in 0..m + 1 |-> h[i]]
        /\ h[m + 1] = Joined(ss, m + 1, g[m])
        /\ \A i \in 0..m : h[i] = g[i]
    BY <2>1, LongerFacts
  <2> HIDE DEF h, S
  <2>4. ASSUME NEW i \in 0..m + 1
        PROVE  h[i] = IF i = 0 THEN ss[1] ELSE Joined(ss, i, h[i - 1])
    <3>1. \A k \in 0..m : g[k] = IF k = 0 THEN ss[1] ELSE Joined(ss, k, g[k - 1])
      BY <2>2 DEF Joins
    <3>2. CASE i = m + 1
      <4>1. i - 1 = m /\ m \in 0..m /\ i # 0
        BY <2>1, <3>2
      <4>2. h[i - 1] = g[m]
        BY <2>3, <4>1
      <4> QED
        BY <2>3, <3>2, <4>1, <4>2
    <3>3. CASE i \in 1..m
      <4>1. i \in 0..m /\ i - 1 \in 0..m /\ i # 0
        BY <2>1, <3>3
      <4>2. h[i] = g[i] /\ h[i - 1] = g[i - 1]
        BY <2>3, <4>1
      <4> QED
        BY <3>1, <4>1, <4>2
    <3>4. CASE i = 0
      <4>1. 0 \in 0..m
        BY <2>1
      <4>2. h[0] = g[0]
        BY <2>3, <4>1
      <4> QED
        BY <3>1, <3>4, <4>1, <4>2
    <3> QED
      BY <2>1, <3>2, <3>3, <3>4
  <2>5. Joins(ss, m + 1, h)
    BY <2>3, <2>4 DEF Joins
  <2> QED
    BY <2>1, <2>5 DEF S
<1> HIDE DEF S
<1>3. S = Nat
  BY <1>1, <1>2, SetInduction DEF S
<1> QED
  BY <1>3 DEF S

\* FlattenSeq joins them all.
LEMMA FlattenLoop ==
    ASSUME NEW ss, Len(ss) \in Nat \ {0}
    PROVE  \E j : Joins(ss, Len(ss) - 1, j) /\ FlattenSeq(ss) = j[Len(ss) - 1]
<1> DEFINE IsFlat(g) == g = [i \in 1..Len(ss) |-> IF i = 1 THEN ss[1] ELSE g[i - 1] \o ss[i]]
           g == CHOOSE g : IsFlat(g)
<1>1. PICK j : Joins(ss, Len(ss) - 1, j)
  <2>1. Len(ss) - 1 \in Nat
    OBVIOUS
  <2> QED
    BY <2>1, JoinsExists
<1> DEFINE h == [i \in 1..Len(ss) |-> j[i - 1]]
<1>2. IsFlat(h)
  <2>1. ASSUME NEW i \in 1..Len(ss) PROVE h[i] = IF i = 1 THEN ss[1] ELSE h[i - 1] \o ss[i]
    <3>1. i - 1 \in 0..Len(ss) - 1 /\ (i - 1) + 1 = i
      OBVIOUS
    <3>2. j[i - 1] = IF i - 1 = 0 THEN ss[1] ELSE j[(i - 1) - 1] \o ss[(i - 1) + 1]
      BY <1>1, <3>1 DEF Joins, Joined
    <3>3. i # 1 => i - 1 \in 1..Len(ss) /\ h[i - 1] = j[(i - 1) - 1]
      BY <3>1
    <3> QED
      BY <3>1, <3>2, <3>3
  <2> QED
    BY <2>1
<1>3. IsFlat(g)
  BY <1>2
<1>4. FlattenSeq(ss) = g[Len(ss)]
  BY DEF FlattenSeq
<1> HIDE DEF g, h
<1>5. g = [i \in 1..Len(ss) |-> g[i]]
  BY <1>3
<1> DEFINE k == [i \in 0..Len(ss) - 1 |-> g[i + 1]]
<1>6. Joins(ss, Len(ss) - 1, k)
  <2>1. ASSUME NEW i \in 0..Len(ss) - 1 PROVE k[i] = IF i = 0 THEN ss[1] ELSE k[i - 1] \o ss[i + 1]
    <3>1. i + 1 \in 1..Len(ss) /\ (i + 1) - 1 = i
      OBVIOUS
    <3>2. g[i + 1] = IF i + 1 = 1 THEN ss[1] ELSE g[(i + 1) - 1] \o ss[i + 1]
      BY <1>3, <3>1
    <3>3. i # 0 => i - 1 \in 0..Len(ss) - 1 /\ k[i - 1] = g[(i - 1) + 1]
      BY <3>1
    <3> QED
      BY <3>1, <3>2, <3>3
  <2> QED
    BY <2>1 DEF Joins, Joined
<1>7. k[Len(ss) - 1] = g[Len(ss)]
  OBVIOUS
<1> QED
  BY <1>4, <1>6, <1>7

-----------------------------------------------------------------------------
\* Joining sequences is joining the first to the joint of the others.
LEMMA FlattenNone == FlattenSeq(<<>>) = <<>>
BY DEF FlattenSeq

LEMMA JoinsType ==
    ASSUME NEW S, NEW ss \in Seq(Seq(S)), NEW n \in Nat, n < Len(ss), NEW j, Joins(ss, n, j)
    PROVE  j \in [0..n -> Seq(S)]
<1> DEFINE T == {k \in Nat : k <= n => j[k] \in Seq(S)}
<1>1. 0 \in T
  <2>1. j[0] = ss[1]
    BY DEF Joins
  <2> QED
    BY <2>1
<1>2. ASSUME NEW k \in T PROVE k + 1 \in T
  <2> SUFFICES ASSUME k + 1 <= n PROVE j[k + 1] \in Seq(S)
    OBVIOUS
  <2>1. k \in Nat /\ j[k] \in Seq(S) /\ k + 1 \in 0..n /\ k + 1 # 0 /\ (k + 1) - 1 = k
    OBVIOUS
  <2>2. ss[(k + 1) + 1] \in Seq(S)
    BY <2>1
  <2>3. j[k + 1] = j[k] \o ss[(k + 1) + 1]
    BY <2>1 DEF Joins, Joined
  <2> QED
    BY <2>1, <2>2, <2>3
<1> HIDE DEF T
<1>3. T = Nat
  BY <1>1, <1>2, SetInduction DEF T
<1>4. \A i \in 0..n : j[i] \in Seq(S)
  BY <1>3 DEF T
<1>5. j = [i \in 0..n |-> j[i]]
  BY DEF Joins
<1> QED
  BY <1>4, <1>5

-----------------------------------------------------------------------------
\* s is in f at p.
Holds(f, p, s) ==
    /\ p \in Nat \ {0} /\ p + Len(s) <= Len(f) + 1
    /\ \A i \in 1..Len(s) : f[p + (i - 1)] = s[i]

LEMMA HoldsBoth ==
    ASSUME NEW S, NEW f \in Seq(S), NEW s \in Seq(S), NEW t \in Seq(S), NEW p
    PROVE  Holds(f, p, s \o t) <=> Holds(f, p, s) /\ Holds(f, p + Len(s), t)
<1>1. Len(s) \in Nat /\ Len(t) \in Nat /\ Len(f) \in Nat /\ Len(s \o t) = Len(s) + Len(t)
  OBVIOUS
<1>2. \A i \in 1..Len(s) : (s \o t)[i] = s[i]
  OBVIOUS
<1>3. \A i \in 1..Len(t) : (s \o t)[Len(s) + i] = t[i]
  OBVIOUS
<1>4. ASSUME Holds(f, p, s \o t) PROVE Holds(f, p, s) /\ Holds(f, p + Len(s), t)
  <2>1. p \in Nat \ {0} /\ p + (Len(s) + Len(t)) <= Len(f) + 1
    BY <1>1, <1>4 DEF Holds
  <2>2. \A i \in 1..Len(s) + Len(t) : f[p + (i - 1)] = (s \o t)[i]
    BY <1>1, <1>4 DEF Holds
  <2>3. ASSUME NEW i \in 1..Len(s) PROVE f[p + (i - 1)] = s[i]
    BY <1>1, <1>2, <2>2
  <2>4. ASSUME NEW i \in 1..Len(t) PROVE f[(p + Len(s)) + (i - 1)] = t[i]
    <3>1. Len(s) + i \in 1..Len(s) + Len(t) /\ p + ((Len(s) + i) - 1) = (p + Len(s)) + (i - 1)
      BY <1>1, <2>1
    <3>2. f[p + ((Len(s) + i) - 1)] = (s \o t)[Len(s) + i]
      BY <2>2, <3>1
    <3> QED
      BY <1>3, <3>1, <3>2
  <2> QED
    BY <1>1, <2>1, <2>3, <2>4 DEF Holds
<1>5. ASSUME Holds(f, p, s), Holds(f, p + Len(s), t) PROVE Holds(f, p, s \o t)
  <2>1. p \in Nat \ {0} /\ p + (Len(s) + Len(t)) <= Len(f) + 1
    BY <1>1, <1>5 DEF Holds
  <2>2. ASSUME NEW i \in 1..Len(s) + Len(t) PROVE f[p + (i - 1)] = (s \o t)[i]
    <3>1. CASE i <= Len(s)
      <4>1. i \in 1..Len(s)
        BY <1>1, <3>1
      <4> QED
        BY <1>2, <1>5, <4>1 DEF Holds
    <3>2. CASE i > Len(s)
      <4>1. i - Len(s) \in 1..Len(t) /\ Len(s) + (i - Len(s)) = i
        BY <1>1, <3>2
      <4>2. (p + Len(s)) + ((i - Len(s)) - 1) = p + (i - 1)
        BY <1>1, <2>1
      <4>3. f[(p + Len(s)) + ((i - Len(s)) - 1)] = t[i - Len(s)]
        BY <1>5, <4>1 DEF Holds
      <4> QED
        BY <1>3, <4>1, <4>2, <4>3
    <3> QED
      BY <1>1, <3>1, <3>2
  <2> QED
    BY <1>1, <2>1, <2>2 DEF Holds
<1> QED
  BY <1>4, <1>5

\* The sequences ss follow each other in f from p on: o[i] is the end of the i-th.
Parted(f, p, ss, o) ==
    /\ o \in [0..Len(ss) -> Nat \ {0}]
    /\ o[0] = p
    /\ \A i \in 1..Len(ss) : Holds(f, o[i - 1], ss[i]) /\ o[i] = o[i - 1] + Len(ss[i])

LEMMA HoldsJoined ==
    ASSUME NEW S, NEW f \in Seq(S), NEW p, NEW ss \in Seq(Seq(S)), NEW n \in Nat, n < Len(ss),
           NEW j, Joins(ss, n, j), Holds(f, p, j[n])
    PROVE  \A i \in 0..n : Holds(f, p, j[i])
<1>1. j \in [0..n -> Seq(S)]
  BY JoinsType
<1> DEFINE T == {k \in Nat : k <= n => Holds(f, p, j[n - k])}
<1>2. 0 \in T
  <2>1. n - 0 = n
    OBVIOUS
  <2> QED
    BY <2>1
<1>3. ASSUME NEW k \in T PROVE k + 1 \in T
  <2> SUFFICES ASSUME k + 1 <= n PROVE Holds(f, p, j[n - (k + 1)])
    OBVIOUS
  <2>1. k \in Nat /\ Holds(f, p, j[n - k])
    OBVIOUS
  <2> HIDE DEF T
  <2>2. PICK i : i = n - k
    OBVIOUS
  <2>3. i \in 0..n /\ i # 0 /\ i - 1 \in 0..n /\ n - (k + 1) = i - 1 /\ i + 1 \in 1..Len(ss)
    BY <2>1, <2>2
  <2>4. j[i] = Joined(ss, i, j[i - 1])
    BY <2>3 DEF Joins
  <2>5. PICK a : a = j[i - 1]
    OBVIOUS
  <2>6. PICK b : b = ss[i + 1]
    OBVIOUS
  <2>7. a \in Seq(S) /\ b \in Seq(S)
    BY <1>1, <2>3, <2>5, <2>6
  <2>8. j[i] = a \o b
    BY <2>4, <2>5, <2>6 DEF Joined
  <2>9. Holds(f, p, a \o b)
    BY <2>1, <2>2, <2>8
  <2> QED
    BY <2>3, <2>5, <2>7, <2>9, HoldsBoth
<1> HIDE DEF T
<1>4. T = Nat
  BY <1>2, <1>3, SetInduction DEF T
<1>5. ASSUME NEW i \in 0..n PROVE Holds(f, p, j[i])
  <2>1. n - i \in Nat /\ n - i <= n /\ n - (n - i) = i
    OBVIOUS
  <2> QED
    BY <1>4, <2>1 DEF T
<1> QED
  BY <1>5

LEMMA HoldsParts ==
    ASSUME NEW S, NEW f \in Seq(S), NEW p, NEW ss \in Seq(Seq(S)), Holds(f, p, FlattenSeq(ss))
    PROVE  /\ FlattenSeq(ss) \in Seq(S)
           /\ \E o : Parted(f, p, ss, o) /\ o[Len(ss)] = p + Len(FlattenSeq(ss))
<1>0. p \in Nat \ {0}
  BY DEF Holds
<1>1. CASE ss = <<>>
  <2> DEFINE o == [i \in 0..0 |-> p]
  <2>1. FlattenSeq(ss) = <<>> /\ Len(ss) = 0
    BY <1>1, FlattenNone
  <2>2. FlattenSeq(ss) \in Seq(S) /\ Len(FlattenSeq(ss)) = 0
    BY <2>1
  <2>3. Parted(f, p, ss, o) /\ o[Len(ss)] = p + Len(FlattenSeq(ss))
    BY <1>0, <2>1, <2>2 DEF Parted
  <2> QED
    BY <2>2, <2>3
<1>2. CASE ss # <<>>
  <2>1. PICK n : n = Len(ss) - 1
    OBVIOUS
  <2>2. n \in Nat /\ n < Len(ss) /\ Len(ss) \in Nat \ {0} /\ Len(ss) = n + 1
    BY <1>2, <2>1
  <2>3. PICK j : Joins(ss, n, j) /\ FlattenSeq(ss) = j[n]
    BY <2>1, <2>2, FlattenLoop
  <2>4. j \in [0..n -> Seq(S)]
    BY <2>2, <2>3, JoinsType
  <2>5. \A i \in 0..n : Holds(f, p, j[i])
    BY <2>2, <2>3, HoldsJoined
  <2>6. FlattenSeq(ss) \in Seq(S)
    BY <2>2, <2>3, <2>4
  <2> DEFINE o == [i \in 0..n + 1 |-> IF i = 0 THEN p ELSE p + Len(j[i - 1])]
  <2>7. ASSUME NEW i \in 1..n + 1
        PROVE  o[i] = p + Len(j[i - 1]) /\ j[i - 1] \in Seq(S) /\ Len(j[i - 1]) \in Nat
    <3>1. i - 1 \in 0..n /\ i \in 0..n + 1 /\ i # 0
      BY <2>2
    <3>2. j[i - 1] \in Seq(S)
      BY <2>4, <3>1
    <3>3. o[i] = p + Len(j[i - 1])
      BY <3>1
    <3> QED
      BY <3>2, <3>3
  <2>8. o[0] = p
    BY <2>2
  <2>9. \A i \in 0..n + 1 : o[i] \in Nat \ {0}
    BY <1>0, <2>2, <2>7, <2>8
  <2>10. o \in [0..n + 1 -> Nat \ {0}]
    BY <2>9
  <2> HIDE DEF o
  <2>11. ASSUME NEW i \in 1..n + 1 PROVE Holds(f, o[i - 1], ss[i]) /\ o[i] = o[i - 1] + Len(ss[i])
    <3>1. CASE i = 1
      <4>1. j[0] = ss[1]
        BY <2>2, <2>3 DEF Joins
      <4>2. i - 1 = 0 /\ 0 \in 0..n
        BY <2>2, <3>1
      <4> QED
        BY <2>5, <2>7, <2>8, <3>1, <4>1, <4>2
    <3>2. CASE i # 1
      <4>1. i - 1 \in 1..n + 1 /\ i - 1 \in 0..n /\ i - 1 # 0 /\ (i - 1) - 1 \in 0..n /\ (i - 1) + 1 = i
            /\ i \in 1..Len(ss)
        BY <2>2, <3>2
      <4>2. PICK a : a = j[(i - 1) - 1]
        OBVIOUS
      <4>3. PICK c : c = ss[i]
        OBVIOUS
      <4>4. a \in Seq(S) /\ c \in Seq(S)
        <5>1. PICK k : k = (i - 1) - 1
          OBVIOUS
        <5>2. k \in 0..n /\ a = j[k]
          BY <4>1, <4>2, <5>1
        <5>3. a \in Seq(S)
          BY <2>4, <5>2
        <5>4. c \in Seq(S)
          BY <4>1, <4>3
        <5> QED
          BY <5>3, <5>4
      <4>5. j[i - 1] = a \o c
        BY <2>3, <4>1, <4>2, <4>3 DEF Joins, Joined
      <4>6. Holds(f, p, a \o c)
        BY <2>5, <4>1, <4>5
      <4>7. Holds(f, p + Len(a), c)
        BY <4>4, <4>6, HoldsBoth
      <4>8. o[i - 1] = p + Len(a)
        BY <2>7, <4>1, <4>2
      <4>9. Len(a \o c) = Len(a) + Len(c) /\ Len(a) \in Nat /\ Len(c) \in Nat
        BY <4>4
      <4>10. o[i] = p + (Len(a) + Len(c))
        BY <2>7, <4>5, <4>9
      <4>11. Holds(f, o[i - 1], ss[i])
        BY <4>3, <4>7, <4>8
      <4>12. o[i] = o[i - 1] + Len(ss[i])
        <5>1. PICK x, y, z, u : x = o[i - 1] /\ y = o[i] /\ z = Len(a) /\ u = Len(c)
          OBVIOUS
        <5>2. z \in Nat /\ u \in Nat /\ x = p + z /\ y = p + (z + u)
          BY <4>8, <4>9, <4>10, <5>1
        <5>3. y = x + u
          BY <1>0, <5>2
        <5> QED
          BY <4>3, <5>1, <5>3
      <4> QED
        BY <4>11, <4>12
    <3> QED
      BY <3>1, <3>2
  <2>12. Parted(f, p, ss, o)
    BY <2>2, <2>8, <2>10, <2>11 DEF Parted
  <2>13. o[Len(ss)] = p + Len(FlattenSeq(ss))
    <3>1. Len(ss) \in 1..n + 1 /\ Len(ss) - 1 = n
      BY <2>2
    <3> QED
      BY <2>3, <2>7, <3>1
  <2> QED
    BY <2>6, <2>12, <2>13
<1> QED
  BY <1>1, <1>2

-----------------------------------------------------------------------------
\* What is joined is of the parts' type.
LEMMA FlattenType ==
    ASSUME NEW S, NEW ss \in Seq(Seq(S))
    PROVE  FlattenSeq(ss) \in Seq(S)
<1>1. CASE ss = <<>>
  <2>1. <<>> \in Seq(S)
    OBVIOUS
  <2>2. FlattenSeq(ss) = <<>>
    BY <1>1, FlattenNone
  <2> QED
    BY <2>1, <2>2
<1>2. CASE ss # <<>>
  <2>1. Len(ss) \in Nat \ {0} /\ Len(ss) - 1 \in Nat /\ Len(ss) - 1 < Len(ss) /\ Len(ss) - 1 \in 0..Len(ss) - 1
    BY <1>2
  <2>2. PICK j : Joins(ss, Len(ss) - 1, j) /\ FlattenSeq(ss) = j[Len(ss) - 1]
    BY <2>1, FlattenLoop
  <2>3. j \in [0..Len(ss) - 1 -> Seq(S)]
    BY <2>1, <2>2, JoinsType
  <2> QED
    BY <2>1, <2>2, <2>3
<1> QED
  BY <1>1, <1>2

\* Parts that are not empty end further and further on, inside of f.
LEMMA PartsEnd ==
    ASSUME NEW S, NEW f \in Seq(S), NEW ss \in Seq(Seq(S)), NEW o, NEW p \in Nat,
           p <= Len(f) + 1, Parted(f, p, ss, o), \A i \in 1..Len(ss) : ss[i] # <<>>
    PROVE  \A i \in 0..Len(ss) : o[i] \in Nat \ {0} /\ p + i <= o[i] /\ o[i] <= Len(f) + 1
<1> DEFINE T == {i \in Nat : i <= Len(ss) => p + i <= o[i] /\ o[i] <= Len(f) + 1}
<1>1. o \in [0..Len(ss) -> Nat \ {0}] /\ Len(ss) \in Nat /\ Len(f) \in Nat
  BY DEF Parted
<1>2. 0 \in T
  <2>1. o[0] = p
    BY DEF Parted
  <2> QED
    BY <2>1
<1>3. ASSUME NEW i \in T PROVE i + 1 \in T
  <2> SUFFICES ASSUME i + 1 <= Len(ss) PROVE p + (i + 1) <= o[i + 1] /\ o[i + 1] <= Len(f) + 1
    OBVIOUS
  <2>1. i \in Nat /\ i <= Len(ss) /\ i + 1 \in 1..Len(ss) /\ (i + 1) - 1 = i /\ i \in 0..Len(ss)
    BY <1>1
  <2>2. p + i <= o[i]
    BY <2>1
  <2> HIDE DEF T
  <2>3. PICK a : a = ss[i + 1]
    OBVIOUS
  <2>4. a \in Seq(S) /\ a # <<>>
    BY <2>1, <2>3
  <2>5. Len(a) \in Nat \ {0}
    BY <2>4
  <2>6. Holds(f, o[i], a) /\ o[i + 1] = o[i] + Len(a)
    BY <2>1, <2>3 DEF Parted
  <2>7. o[i] + Len(a) <= Len(f) + 1
    BY <2>6 DEF Holds
  <2>8. o[i] \in Nat
    BY <1>1, <2>1
  <2> QED
    BY <2>1, <2>2, <2>5, <2>6, <2>7, <2>8
<1> HIDE DEF T
<1>4. T = Nat
  BY <1>2, <1>3, SetInduction DEF T
<1>5. ASSUME NEW i \in 0..Len(ss) PROVE o[i] \in Nat \ {0} /\ p + i <= o[i] /\ o[i] <= Len(f) + 1
  <2>1. i \in Nat /\ i <= Len(ss)
    BY <1>1
  <2> QED
    BY <1>1, <1>4, <2>1 DEF T
<1> QED
  BY <1>5

LEMMA AtParts == \A p, x : At(p, x).p = p /\ At(p, x).x = x
BY DEF At

\* ReadMany reads values that follow each other, if rd reads each of them.
LEMMA ReadManyParts ==
    ASSUME NEW S, NEW f \in Seq(S), NEW ss \in Seq(Seq(S)), NEW o, NEW p \in Nat,
           p <= Len(f) + 1, Parted(f, p, ss, o), \A i \in 1..Len(ss) : ss[i] # <<>>,
           NEW X, NEW xs \in Seq(X), Len(xs) = Len(ss), NEW rd,
           \A i \in 1..Len(ss) : rd[o[i - 1]] = At(o[i], xs[i])
    PROVE  ReadMany(f, rd, Len(ss), p) = At(o[Len(ss)], xs)
<1>1. PICK n : n = Len(ss)
  OBVIOUS
<1>2. n \in Nat /\ Len(xs) = n
  BY <1>1
<1>3. \A i \in 0..n : o[i] \in Nat \ {0} /\ p + i <= o[i] /\ o[i] <= Len(f) + 1
  BY <1>1, PartsEnd
<1>4. n \in 0..n /\ 0 \in 0..n
  BY <1>2
<1>5. o[0] = p /\ p > 0
  BY <1>3, <1>4 DEF Parted
<1>6. There(f, p, n)
  <2>1. p + n <= o[n] /\ o[n] <= Len(f) + 1 /\ o[n] \in Nat
    BY <1>3, <1>4
  <2>2. PICK z : z = o[n]
    OBVIOUS
  <2>3. z \in Nat /\ p + n <= z /\ z <= Len(f) + 1 /\ Len(f) \in Nat
    BY <2>1, <2>2
  <2>4. p + n <= Len(f) + 1
    BY <1>2, <2>3
  <2> QED
    BY <1>5, <2>4 DEF There
<1>7. PICK s : ReadsMany(rd, p, n, s) /\ ReadMany(f, rd, n, p) = s[n]
  <2>1. n \in Nat
    BY <1>2
  <2>2. /\ ReadsMany(rd, p, n, ManyRead(rd, p, n))
        /\ ReadMany(f, rd, n, p) = ManyRead(rd, p, n)[n]
    BY <1>6, <2>1, ReadManyLoop
  <2> QED
    BY <2>2
<1> DEFINE T == {i \in Nat : i <= n => s[i] = At(o[i], SubSeq(xs, 1, i))}
<1>8. 0 \in T
  <2>1. s[0] = At(p, <<>>)
    BY <1>4, <1>7 DEF ReadsMany
  <2>2. SubSeq(xs, 1, 0) = <<>>
    OBVIOUS
  <2>3. s[0] = At(o[0], SubSeq(xs, 1, 0))
    BY <1>5, <2>1, <2>2
  <2> QED
    BY <2>3
<1>9. ASSUME NEW i \in T PROVE i + 1 \in T
  <2> SUFFICES ASSUME i + 1 <= n PROVE s[i + 1] = At(o[i + 1], SubSeq(xs, 1, i + 1))
    OBVIOUS
  <2>1. i \in Nat /\ i <= n /\ i + 1 \in 1..n /\ (i + 1) - 1 = i /\ i \in 0..n /\ i + 1 \in 0..n /\ i + 1 # 0
    BY <1>2
  <2>2. s[i] = At(o[i], SubSeq(xs, 1, i))
    BY <2>1
  <2> HIDE DEF T
  <2>3. s[i + 1] = ReadNext(rd, s[i])
    BY <1>7, <2>1 DEF ReadsMany
  <2>4. s[i].p = o[i] /\ s[i].x = SubSeq(xs, 1, i)
    <3>1. PICK y : y = o[i]
      OBVIOUS
    <3>2. PICK z : z = SubSeq(xs, 1, i)
      OBVIOUS
    <3>3. s[i] = At(y, z)
      BY <2>2, <3>1, <3>2
    <3>4. s[i].p = y /\ s[i].x = z
      BY <3>3, AtParts
    <3> QED
      BY <3>1, <3>2, <3>4
  <2>5. rd[o[i]] = At(o[i + 1], xs[i + 1])
    BY <1>1, <2>1
  <2>6. rd[o[i]].p = o[i + 1] /\ rd[o[i]].x = xs[i + 1]
    BY <2>5, AtParts
  <2>7. o[i] # 0 /\ o[i + 1] # 0
    BY <1>3, <2>1
  <2>8. s[i + 1] = At(o[i + 1], Append(SubSeq(xs, 1, i), xs[i + 1]))
    BY <2>3, <2>4, <2>6, <2>7 DEF ReadNext
  <2>9. Append(SubSeq(xs, 1, i), xs[i + 1]) = SubSeq(xs, 1, i + 1)
    BY <1>2, <2>1
  <2> QED
    BY <2>8, <2>9
<1> HIDE DEF T
<1>10. T = Nat
  BY <1>8, <1>9, SetInduction DEF T
<1>11. s[n] = At(o[n], SubSeq(xs, 1, n))
  <2>1. n \in T
    BY <1>2, <1>10
  <2> QED
    BY <1>2, <2>1 DEF T
<1>12. SubSeq(xs, 1, n) = xs
  BY <1>2
<1> QED
  BY <1>1, <1>7, <1>11, <1>12

-----------------------------------------------------------------------------
\* Numbers by their bytes.
LEMMA BaseFacts ==
    /\ Base \in Nat \ {0} /\ Base > 31
    /\ Base \div 2 \in Nat \ {0} /\ Base = 2 * (Base \div 2)
BY BaseAssumption

LEMMA DivMod ==
    ASSUME NEW n \in Int
    PROVE  n \div Base \in Int /\ n % Base \in 0..Base - 1 /\ n = Base * (n \div Base) + (n % Base)
BY BaseFacts

LEMMA DivBound ==
    ASSUME NEW n \in Int, NEW m \in Nat, n < Base * m
    PROVE  n \div Base < m /\ (n >= 0 => n \div Base >= 0) /\ (-(Base * m) <= n => -m <= n \div Base)
BY BaseFacts

LEMMA ModSmall ==
    ASSUME NEW n \in 0..Base - 1
    PROVE  n % Base = n
BY BaseFacts

LEMMA SignedMod ==
    ASSUME NEW n \in Int, n < Base \div 2, -(Base \div 2) <= n
    PROVE  Signed8(n % Base) = n
<1>1. n % Base \in 0..Base - 1
  BY DivMod
<1>2. (n % Base) % Base = n % Base
  BY <1>1, ModSmall
<1>3. (IF n % Base < Base \div 2 THEN n % Base ELSE (n % Base) - Base) = n
  BY BaseFacts
<1> QED
  BY <1>2, <1>3 DEF Signed8

\* The quotients of n by powers of Base, and the remainders.
Quotient1(n) == n \div Base
Quotient2(n) == Quotient1(n) \div Base
Quotient3(n) == Quotient2(n) \div Base

LEMMA QuotientFacts ==
    ASSUME NEW n \in Int
    PROVE  /\ Quotient1(n) \in Int /\ Quotient2(n) \in Int /\ Quotient3(n) \in Int
           /\ n = (n % Base) + Base * ((Quotient1(n) % Base) + Base * ((Quotient2(n) % Base) + Base * Quotient3(n)))
<1>1. PICK q1, q2, q3 : q1 = Quotient1(n) /\ q2 = Quotient2(n) /\ q3 = Quotient3(n)
  OBVIOUS
<1>2. PICK r0, r1, r2 : r0 = n % Base /\ r1 = q1 % Base /\ r2 = q2 % Base
  OBVIOUS
<1>3. q1 \in Int /\ r0 \in Int /\ n = Base * q1 + r0
  BY <1>1, <1>2, DivMod DEF Quotient1
<1>4. q2 \in Int /\ r1 \in Int /\ q1 = Base * q2 + r1
  BY <1>1, <1>2, <1>3, DivMod DEF Quotient2
<1>5. q3 \in Int /\ r2 \in Int /\ q2 = Base * q3 + r2
  BY <1>1, <1>2, <1>4, DivMod DEF Quotient3
<1>6. n = r0 + Base * (r1 + Base * (r2 + Base * q3))
  BY <1>3, <1>4, <1>5, BaseFacts
<1> QED
  BY <1>1, <1>2, <1>3, <1>4, <1>5, <1>6

LEMMA QuotientBounds ==
    ASSUME NEW n \in IntType
    PROVE  Quotient3(n) < Base \div 2 /\ -(Base \div 2) <= Quotient3(n) /\ (n >= 0 => Quotient3(n) >= 0)
<1>1. PICK h : h = Base \div 2
  OBVIOUS
<1>2. PICK a, c, d : d = Base * h /\ c = Base * d /\ a = Base * c
  OBVIOUS
<1>3. h \in Nat /\ a \in Nat /\ c \in Nat /\ d \in Nat
  BY <1>1, <1>2, BaseFacts
<1>4. n \in Int /\ n < Base * c /\ -(Base * c) <= n
  BY <1>1, <1>2, <1>3 DEF IntType, IntMax
<1>5. PICK q1, q2 : q1 = Quotient1(n) /\ q2 = Quotient2(n)
  OBVIOUS
<1>6. q1 \in Int /\ q1 < Base * d /\ -(Base * d) <= q1 /\ (n >= 0 => q1 >= 0)
  BY <1>2, <1>3, <1>4, <1>5, DivBound, DivMod DEF Quotient1
<1>7. q2 \in Int /\ q2 < Base * h /\ -(Base * h) <= q2 /\ (n >= 0 => q2 >= 0)
  BY <1>2, <1>3, <1>5, <1>6, DivBound, DivMod DEF Quotient2
<1>8. Quotient3(n) < h /\ -h <= Quotient3(n) /\ (n >= 0 => Quotient3(n) >= 0)
  BY <1>3, <1>5, <1>7, DivBound DEF Quotient3
<1> QED
  BY <1>1, <1>8

LEMMA BytesType ==
    ASSUME NEW w \in Nat \ {0}, NEW n \in Int
    PROVE  Bytes(w, n) \in Seq(ByteType) /\ Len(Bytes(w, n)) = w
<1>1. PICK q : Divides(n, w - 1, q) /\ Bytes(w, n) = [i \in 1..w |-> q[i - 1] % Base]
  BY BytesLoop
<1> DEFINE T == {i \in Nat : i <= w - 1 => q[i] \in Int}
<1>2. 0 \in T
  BY <1>1 DEF Divides
<1>3. ASSUME NEW i \in T PROVE i + 1 \in T
  <2> SUFFICES ASSUME i + 1 <= w - 1 PROVE q[i + 1] \in Int
    OBVIOUS
  <2>1. i \in Nat /\ q[i] \in Int /\ i + 1 \in 0..w - 1 /\ i + 1 # 0 /\ (i + 1) - 1 = i
    OBVIOUS
  <2>2. q[i + 1] = q[i] \div Base
    BY <1>1, <2>1 DEF Divides
  <2> QED
    BY <2>1, <2>2, DivMod
<1> HIDE DEF T
<1>4. T = Nat
  BY <1>2, <1>3, SetInduction DEF T
<1>5. ASSUME NEW i \in 1..w PROVE q[i - 1] % Base \in ByteType
  <2>1. i - 1 \in Nat /\ i - 1 <= w - 1
    OBVIOUS
  <2>2. q[i - 1] \in Int
    BY <1>4, <2>1 DEF T
  <2> QED
    BY <2>2, DivMod DEF ByteType
<1> QED
  BY <1>1, <1>5

LEMMA FourBytes ==
    ASSUME NEW n \in Int, NEW w \in Nat, w > 3
    PROVE  /\ Bytes(w, n)[1] = n % Base
           /\ Bytes(w, n)[2] = Quotient1(n) % Base
           /\ Bytes(w, n)[3] = Quotient2(n) % Base
           /\ Bytes(w, n)[4] = Quotient3(n) % Base
           /\ n \in 0..IntMax - 1 => \A i \in 5..w : Bytes(w, n)[i] = 0
<1>1. w \in Nat \ {0} /\ w - 1 \in Nat
  OBVIOUS
<1>2. PICK q : Divides(n, w - 1, q) /\ Bytes(w, n) = [i \in 1..w |-> q[i - 1] % Base]
  BY <1>1, BytesLoop
<1>3. ASSUME NEW i \in 1..w PROVE Bytes(w, n)[i] = q[i - 1] % Base
  BY <1>2
<1>4. 0 \in 0..w - 1 /\ 1 \in 0..w - 1 /\ 2 \in 0..w - 1 /\ 3 \in 0..w - 1 /\ 1 \in 1..w /\ 2 \in 1..w /\ 3 \in 1..w /\ 4 \in 1..w
  OBVIOUS
<1>5. q[0] = n
  BY <1>2, <1>4 DEF Divides
<1>6. \A i \in 1..w - 1 : q[i] = q[i - 1] \div Base
  BY <1>2 DEF Divides
<1>7. q[1] = Quotient1(n)
  BY <1>4, <1>5, <1>6 DEF Quotient1
<1>8. q[2] = Quotient2(n)
  BY <1>4, <1>6, <1>7 DEF Quotient2
<1>9. q[3] = Quotient3(n)
  BY <1>4, <1>6, <1>8 DEF Quotient3
<1>10. ASSUME n \in 0..IntMax - 1, NEW k \in 5..w PROVE Bytes(w, n)[k] = 0
  <2>1. n \in IntType /\ n >= 0
    <3>1. IntMax \in Int
      BY BaseFacts DEF IntMax
    <3> QED
      BY <1>10, <3>1 DEF IntType
  <2>2. Quotient3(n) \in 0..Base - 1
    <3>1. Quotient3(n) < Base \div 2 /\ Quotient3(n) >= 0 /\ Quotient3(n) \in Int
      BY <2>1, QuotientBounds, QuotientFacts
    <3> QED
      BY <3>1, BaseFacts
  <2> DEFINE T == {i \in Nat : i + 4 <= w - 1 => q[i + 4] = 0}
  <2>3. \A x \in 0..Base - 1 : x \div Base = 0
    BY BaseFacts
  <2>4. 0 \in T
    <3>1. q[4] = 0
      BY <1>6, <1>9, <1>10, <2>2, <2>3
    <3> QED
      BY <3>1
  <2>5. ASSUME NEW i \in T PROVE i + 1 \in T
    <3> SUFFICES ASSUME (i + 1) + 4 <= w - 1 PROVE q[(i + 1) + 4] = 0
      OBVIOUS
    <3>1. i \in Nat /\ q[i + 4] = 0 /\ (i + 1) + 4 \in 1..w - 1 /\ ((i + 1) + 4) - 1 = i + 4
      OBVIOUS
    <3>2. q[(i + 1) + 4] = 0 \div Base
      BY <1>6, <3>1
    <3> QED
      BY <2>3, <3>2, BaseFacts
  <2> HIDE DEF T
  <2>6. T = Nat
    BY <2>4, <2>5, SetInduction DEF T
  <2>7. k - 5 \in Nat /\ (k - 5) + 4 = k - 1 /\ k - 1 <= w - 1 /\ k \in 1..w
    BY <1>10
  <2>8. q[k - 1] = 0
    BY <2>6, <2>7 DEF T
  <2> QED
    BY <1>3, <2>7, <2>8, BaseFacts
<1> QED
  BY <1>3, <1>4, <1>5, <1>7, <1>8, <1>9, <1>10

-----------------------------------------------------------------------------
\* What is read where a byte, a number or a text is.
LEMMA ByteFacts ==
    ASSUME NEW n \in Int
    PROVE  Byte(n) \in Seq(ByteType) /\ Len(Byte(n)) = 1 /\ (n \in ByteType => Byte(n) = <<n>>)
<1>1. n % Base \in ByteType
  BY DivMod DEF ByteType
<1>2. n \in ByteType => n % Base = n
  BY ModSmall DEF ByteType
<1> QED
  BY <1>1, <1>2 DEF Byte

LEMMA ReadByteRound ==
    ASSUME NEW f \in Seq(ByteType), NEW n \in ByteType, NEW p, Holds(f, p, Byte(n))
    PROVE  ReadByte(f, p) = At(p + 1, n)
<1>1. n \in Int
  BY BaseFacts DEF ByteType
<1>2. Byte(n) = <<n>>
  BY <1>1, ByteFacts
<1>3. p \in Nat \ {0} /\ p + Len(<<n>>) <= Len(f) + 1 /\ \A i \in 1..Len(<<n>>) : f[p + (i - 1)] = <<n>>[i]
  BY <1>2 DEF Holds
<1>4. Len(<<n>>) = 1 /\ <<n>>[1] = n /\ 1 \in 1..1
  OBVIOUS
<1>5. p \in Nat \ {0} /\ p + 1 <= Len(f) + 1 /\ f[p + (1 - 1)] = n
  BY <1>3, <1>4
<1>6. p + (1 - 1) = p
  BY <1>5
<1> QED
  BY <1>5, <1>6 DEF ReadByte, There

LEMMA ReadIntRound ==
    ASSUME NEW f \in Seq(ByteType), NEW n \in IntType, NEW p, Holds(f, p, Bytes(4, n))
    PROVE  ReadInt(f, p) = At(p + 4, n)
<1>1. n \in Int
  BY DEF IntType
<1>2. PICK s : s = Bytes(4, n)
  OBVIOUS
<1>3. s \in Seq(ByteType) /\ Len(s) = 4
  <2>1. 4 \in Nat \ {0}
    OBVIOUS
  <2>2. Bytes(4, n) \in Seq(ByteType) /\ Len(Bytes(4, n)) = 4
    BY <1>1, <2>1, BytesType
  <2> QED
    BY <1>2, <2>2
<1>4. p \in Nat \ {0} /\ p + 4 <= Len(f) + 1 /\ \A i \in 1..4 : f[p + (i - 1)] = s[i]
  BY <1>2, <1>3 DEF Holds
<1>5. f[p] = s[1] /\ f[p + 1] = s[2] /\ f[p + 2] = s[3] /\ f[p + 3] = s[4]
  <2>1. p + (1 - 1) = p /\ p + (2 - 1) = p + 1 /\ p + (3 - 1) = p + 2 /\ p + (4 - 1) = p + 3
    BY <1>4
  <2>2. 1 \in 1..4 /\ 2 \in 1..4 /\ 3 \in 1..4 /\ 4 \in 1..4
    OBVIOUS
  <2> QED
    BY <1>4, <2>1, <2>2
<1>6. f[p] = n % Base /\ f[p + 1] = Quotient1(n) % Base /\ f[p + 2] = Quotient2(n) % Base /\ f[p + 3] = Quotient3(n) % Base
  BY <1>1, <1>2, <1>5, FourBytes
<1>7. Signed8(f[p + 3]) = Quotient3(n)
  BY <1>1, <1>6, QuotientFacts, QuotientBounds, SignedMod
<1>8. n = f[p] + Base * (f[p + 1] + Base * (f[p + 2] + Base * Signed8(f[p + 3])))
  BY <1>1, <1>6, <1>7, QuotientFacts
<1>9. There(f, p, 4)
  BY <1>4 DEF There
<1> QED
  BY <1>8, <1>9 DEF ReadInt

LEMMA ReadSizeRound ==
    ASSUME NEW f \in Seq(ByteType), NEW n \in 0..IntMax - 1, NEW p, Holds(f, p, Bytes(8, n))
    PROVE  ReadSize(f, p) = At(p + 8, n)
<1>1. n \in Int /\ n \in IntType /\ n >= 0
  <2>1. IntMax \in Int
    BY BaseFacts DEF IntMax
  <2> QED
    BY <2>1 DEF IntType
<1>2. PICK s : s = Bytes(8, n)
  OBVIOUS
<1>3. s \in Seq(ByteType) /\ Len(s) = 8
  <2>1. 8 \in Nat \ {0}
    OBVIOUS
  <2>2. Bytes(8, n) \in Seq(ByteType) /\ Len(Bytes(8, n)) = 8
    BY <1>1, <2>1, BytesType
  <2> QED
    BY <1>2, <2>2
<1>4. p \in Nat \ {0} /\ p + 8 <= Len(f) + 1 /\ \A i \in 1..8 : f[p + (i - 1)] = s[i]
  BY <1>2, <1>3 DEF Holds
<1>5. f[p] = s[1] /\ f[p + 1] = s[2] /\ f[p + 2] = s[3] /\ f[p + 3] = s[4]
  <2>1. p + (1 - 1) = p /\ p + (2 - 1) = p + 1 /\ p + (3 - 1) = p + 2 /\ p + (4 - 1) = p + 3
    BY <1>4
  <2>2. 1 \in 1..8 /\ 2 \in 1..8 /\ 3 \in 1..8 /\ 4 \in 1..8
    OBVIOUS
  <2> QED
    BY <1>4, <2>1, <2>2
<1>6. /\ f[p] = n % Base /\ f[p + 1] = Quotient1(n) % Base
      /\ f[p + 2] = Quotient2(n) % Base /\ f[p + 3] = Quotient3(n) % Base
  BY <1>1, <1>2, <1>5, FourBytes
<1>7. ASSUME NEW i \in 4..7 PROVE f[p + i] = 0
  <2>1. i + 1 \in 1..8 /\ i + 1 \in 5..8 /\ (i + 1) - 1 = i
    OBVIOUS
  <2>2. s[i + 1] = 0
    BY <1>1, <1>2, <2>1, FourBytes
  <2> QED
    BY <1>4, <2>1, <2>2
<1>8. Quotient3(n) % Base = Quotient3(n)
  <2>1. Quotient3(n) \in Int /\ Quotient3(n) < Base \div 2 /\ Quotient3(n) >= 0
    BY <1>1, QuotientFacts, QuotientBounds
  <2>2. Quotient3(n) \in 0..Base - 1
    BY <2>1, BaseFacts
  <2> QED
    BY <2>2, ModSmall
<1>9. n = f[p] + Base * (f[p + 1] + Base * (f[p + 2] + Base * f[p + 3]))
  BY <1>1, <1>6, <1>8, QuotientFacts
<1>10. There(f, p, 8)
  BY <1>4 DEF There
<1> QED
  BY <1>7, <1>9, <1>10 DEF ReadSize

LEMMA SeqGrows ==
    ASSUME NEW S, NEW T, S \subseteq T, NEW s \in Seq(S)
    PROVE  s \in Seq(T)
<1>1. Len(s) \in Nat /\ s \in [1..Len(s) -> S]
  OBVIOUS
<1>2. s \in [1..Len(s) -> T]
  BY <1>1
<1> QED
  BY <1>1, <1>2

LEMMA TextType ==
    ASSUME NEW s \in Texts
    PROVE  Text(s) \in Seq(ByteType) /\ Len(Text(s)) = Len(s) + 1 /\ s \in Seq(ByteType)
<1>1. 1..Base - 1 \subseteq ByteType /\ 0 \in ByteType
  BY BaseFacts DEF ByteType
<1>2. s \in Seq(ByteType)
  BY <1>1, SeqGrows DEF Texts
<1> QED
  BY <1>1, <1>2 DEF Text

LEMMA ReadTextRound ==
    ASSUME NEW f \in Seq(ByteType), NEW s \in Texts, NEW p, Holds(f, p, Text(s))
    PROVE  ReadText(f, p) = At(p + (Len(s) + 1), s)
<1>1. PICK n : n = Len(s)
  OBVIOUS
<1>2. n \in Nat /\ s \in Seq(1..Base - 1) /\ s = [i \in 1..n |-> s[i]]
  BY <1>1 DEF Texts
<1>3. Len(Text(s)) = n + 1 /\ Text(s)[n + 1] = 0 /\ \A i \in 1..n : Text(s)[i] = s[i] /\ s[i] # 0
  BY <1>1, <1>2 DEF Text
<1>4. p \in Nat \ {0} /\ p + (n + 1) <= Len(f) + 1 /\ \A i \in 1..n + 1 : f[p + (i - 1)] = Text(s)[i]
  BY <1>3 DEF Holds
<1>5. PICK q : q = p + n
  OBVIOUS
<1>6. q \in p..Len(f) /\ f[q] = 0
  <2>1. n + 1 \in 1..n + 1 /\ p + ((n + 1) - 1) = q
    BY <1>2, <1>4, <1>5
  <2> QED
    BY <1>2, <1>3, <1>4, <1>5, <2>1
<1>7. \A i \in p..q - 1 : f[i] = s[(i - p) + 1] /\ f[i] # 0
  <2>1. SUFFICES ASSUME NEW i \in p..q - 1 PROVE f[i] = s[(i - p) + 1] /\ f[i] # 0
    OBVIOUS
  <2>2. (i - p) + 1 \in 1..n /\ (i - p) + 1 \in 1..n + 1 /\ p + (((i - p) + 1) - 1) = i
    BY <1>2, <1>4, <1>5
  <2> QED
    BY <1>3, <1>4, <2>2
<1>8. \A r \in p..Len(f) : f[r] = 0 /\ (\A i \in p..r - 1 : f[i] # 0) => r = q
  BY <1>4, <1>6, <1>7
<1> DEFINE c == CHOOSE r \in p..Len(f) : f[r] = 0 /\ \A i \in p..r - 1 : f[i] # 0
<1>9. c = q
  BY <1>6, <1>7, <1>8
<1>10. SubSeq(f, p, q - 1) = s
  <2>1. SubSeq(f, p, q - 1) = [i \in 1..(q - 1) - p + 1 |-> f[i + p - 1]]
    BY <1>2, <1>4, <1>5
  <2>2. (q - 1) - p + 1 = n
    BY <1>2, <1>4, <1>5
  <2>3. \A i \in 1..n : f[i + p - 1] = s[i]
    <3>1. SUFFICES ASSUME NEW i \in 1..n PROVE f[i + p - 1] = s[i]
      OBVIOUS
    <3>2. i + p - 1 \in p..q - 1 /\ ((i + p - 1) - p) + 1 = i
      BY <1>2, <1>4, <1>5
    <3> QED
      BY <1>7, <3>2
  <2> QED
    BY <1>2, <2>1, <2>2, <2>3
<1>11. p > 0 /\ \E r \in p..Len(f) : f[r] = 0
  BY <1>4, <1>6
<1>12. ReadText(f, p) = At(c + 1, SubSeq(f, p, c - 1))
  BY <1>11 DEF ReadText
<1> HIDE DEF c
<1>13. q + 1 = p + (n + 1)
  BY <1>2, <1>4, <1>5
<1> QED
  BY <1>1, <1>9, <1>10, <1>12, <1>13

-----------------------------------------------------------------------------
\* The kinds of parameters, and what is written of each.
LEMMA ParameterKinds ==
    ASSUME NEW texts, NEW arities, NEW ps, NEW v \in ParametersOf(texts, arities, ps)
    PROVE  \/ v.t = TYPE_ANY /\ v = AnyValue
           \/ v.t = TYPE_NUMBER /\ v.number \in IntType /\ v = Number(v.number)
           \/ v.t = TYPE_ATOM /\ v.atom \in texts /\ v = Atom(v.atom)
           \/ /\ v.t = TYPE_TUPLE /\ v.arity \in arities /\ v.members \in Seq(ps)
              /\ Len(v.members) = v.arity /\ v = Tuple(v.arity, v.members)
<1>1. CASE v = AnyValue
  BY <1>1 DEF AnyValue
<1>2. CASE v \in [t : {TYPE_NUMBER}, number : IntType]
  BY <1>2 DEF Number
<1>3. CASE v \in [t : {TYPE_ATOM}, atom : texts]
  BY <1>3 DEF Atom
<1>4. CASE v \in Tuples(arities, ps)
  BY <1>4 DEF Tuples, Tuple
<1> QED
  BY <1>1, <1>2, <1>3, <1>4 DEF ParametersOf

Members(v, dump) == FlattenSeq([i \in 1..v.arity |-> dump[v.members[i]]])

LEMMA JoinType ==
    ASSUME NEW S, NEW a \in Seq(S), NEW b \in Seq(S)
    PROVE  a \o b \in Seq(S) /\ Len(a \o b) = Len(a) + Len(b) /\ Len(a) \in Nat /\ Len(b) \in Nat
OBVIOUS

\* A byte, and what follows it.
Led(n, s) == Byte(n) \o s

LEMMA LedFacts ==
    ASSUME NEW n \in Int, NEW s \in Seq(ByteType)
    PROVE  Led(n, s) \in Seq(ByteType) /\ Len(Led(n, s)) = 1 + Len(s) /\ Led(n, s) # <<>>
<1>1. PICK a : a = Byte(n)
  OBVIOUS
<1>2. a \in Seq(ByteType)
  BY <1>1, ByteFacts
<1>3. Len(a) = 1
  BY <1>1, ByteFacts
<1>4. a \o s \in Seq(ByteType) /\ Len(a \o s) = Len(a) + Len(s)
  BY <1>2, JoinType
<1>5. PICK c : c = a \o s
  OBVIOUS
<1>6. c \in Seq(ByteType)
  BY <1>4, <1>5
<1>7. Len(c) = 1 + Len(s) /\ Len(s) \in Nat
  BY <1>3, <1>4, <1>5
<1>8. c # <<>>
  BY <1>6, <1>7
<1> QED
  BY <1>1, <1>5, <1>6, <1>7, <1>8 DEF Led

OfKind(t, tuple, atom, number, any) ==
    CASE t = TYPE_TUPLE -> tuple [] t = TYPE_ATOM -> atom [] t = TYPE_NUMBER -> number [] t = TYPE_ANY -> any

LEMMA KindFacts ==
    \A tuple, atom, number, any :
      /\ OfKind(TYPE_TUPLE, tuple, atom, number, any) = tuple
      /\ OfKind(TYPE_ATOM, tuple, atom, number, any) = atom
      /\ OfKind(TYPE_NUMBER, tuple, atom, number, any) = number
      /\ OfKind(TYPE_ANY, tuple, atom, number, any) = any
BY DEF OfKind, TYPE_ANY, TYPE_NUMBER, TYPE_ATOM, TYPE_TUPLE

LEMMA NodeBytesKinds ==
    ASSUME NEW v, NEW dump
    PROVE  /\ v.t = TYPE_ANY => NodeBytes(v, dump) = Led(v.t, <<>>)
           /\ v.t = TYPE_NUMBER => NodeBytes(v, dump) = Led(v.t, Bytes(4, v.number))
           /\ v.t = TYPE_ATOM => NodeBytes(v, dump) = Led(v.t, Led(Len(v.atom) + 1, Text(v.atom)))
           /\ v.t = TYPE_TUPLE => NodeBytes(v, dump) = Led(v.t, Led(v.arity, Members(v, dump)))
<1>1. PICK w : w = Led(v.arity, Members(v, dump))
  OBVIOUS
<1>2. PICK x : x = Led(Len(v.atom) + 1, Text(v.atom))
  OBVIOUS
<1>3. PICK y : y = Bytes(4, v.number)
  OBVIOUS
<1>4. PICK z : z = <<>>
  OBVIOUS
<1>5. PICK k : k = OfKind(v.t, w, x, y, z)
  OBVIOUS
<1>6. NodeBytes(v, dump) = Led(v.t, k)
  BY <1>1, <1>2, <1>3, <1>4, <1>5, Zenon DEF NodeBytes, Members, OfKind, Led
<1>7. /\ v.t = TYPE_TUPLE => k = w
      /\ v.t = TYPE_ATOM => k = x
      /\ v.t = TYPE_NUMBER => k = y
      /\ v.t = TYPE_ANY => k = z
  BY <1>5, KindFacts
<1> QED
  BY <1>1, <1>2, <1>3, <1>4, <1>6, <1>7, Zenon

\* dump writes each of the values xs as bytes, one at least.
Written(xs, dump) == \A x \in xs : dump[x] \in Seq(ByteType) /\ dump[x] # <<>>

\* What is written of members is bytes.
LEMMA MembersType ==
    ASSUME NEW ps, NEW dump, Written(ps, dump),
           NEW v, v.arity \in Nat, v.members \in Seq(ps), Len(v.members) = v.arity
    PROVE  Members(v, dump) \in Seq(ByteType)
<1>1. PICK ms : ms = v.members
  OBVIOUS
<1>2. PICK n : n = v.arity
  OBVIOUS
<1>3. ms \in Seq(ps)
  BY <1>1
<1>4. n \in Nat /\ Len(ms) = n
  BY <1>1, <1>2
<1>5. PICK ss : ss = [i \in 1..n |-> dump[ms[i]]]
  OBVIOUS
<1>6. \A i \in 1..n : dump[ms[i]] \in Seq(ByteType)
  BY <1>3, <1>4 DEF Written
<1>7. ss \in Seq(Seq(ByteType))
  BY <1>4, <1>5, <1>6
<1>8. FlattenSeq(ss) \in Seq(ByteType)
  BY <1>7, FlattenType
<1> QED
  BY <1>1, <1>2, <1>5, <1>8 DEF Members

\* A parameter is written as bytes, one at least.
LEMMA NodeBytesType ==
    ASSUME NEW ps, NEW dump, Written(ps, dump),
           NEW v \in ParametersOf(Texts, Nat, ps)
    PROVE  NodeBytes(v, dump) \in Seq(ByteType) /\ NodeBytes(v, dump) # <<>>
<1> SUFFICES \E n \in Int, s \in Seq(ByteType) : NodeBytes(v, dump) = Led(n, s)
  BY LedFacts
<1>1. v.t \in Int
  <2>1. TYPE_ANY \in Int /\ TYPE_NUMBER \in Int /\ TYPE_ATOM \in Int /\ TYPE_TUPLE \in Int
    BY DEF TYPE_ANY, TYPE_NUMBER, TYPE_ATOM, TYPE_TUPLE
  <2> QED
    BY <2>1, ParameterKinds
<1>2. CASE v.t = TYPE_ANY
  <2>1. <<>> \in Seq(ByteType)
    OBVIOUS
  <2>2. NodeBytes(v, dump) = Led(v.t, <<>>)
    BY <1>2, NodeBytesKinds
  <2> QED
    BY <1>1, <2>1, <2>2, Zenon
<1>3. CASE v.t = TYPE_NUMBER /\ v.number \in IntType
  <2>1. v.number \in Int /\ 4 \in Nat \ {0}
    BY <1>3 DEF IntType
  <2>2. Bytes(4, v.number) \in Seq(ByteType)
    BY <2>1, BytesType
  <2>3. NodeBytes(v, dump) = Led(v.t, Bytes(4, v.number))
    BY <1>3, NodeBytesKinds
  <2> QED
    BY <1>1, <2>2, <2>3, Zenon
<1>4. CASE v.t = TYPE_ATOM /\ v.atom \in Texts
  <2>1. Text(v.atom) \in Seq(ByteType)
    BY <1>4, TextType
  <2>2. Len(v.atom) + 1 \in Int
    BY <1>4 DEF Texts
  <2>3. Led(Len(v.atom) + 1, Text(v.atom)) \in Seq(ByteType)
    BY <2>1, <2>2, LedFacts
  <2>4. NodeBytes(v, dump) = Led(v.t, Led(Len(v.atom) + 1, Text(v.atom)))
    BY <1>4, NodeBytesKinds
  <2> QED
    BY <1>1, <2>3, <2>4, Zenon
<1>5. CASE v.t = TYPE_TUPLE /\ v.arity \in Nat /\ v.members \in Seq(ps) /\ Len(v.members) = v.arity
  <2>1. Members(v, dump) \in Seq(ByteType)
    BY <1>5, MembersType
  <2>2. v.arity \in Int
    BY <1>5
  <2>3. Led(v.arity, Members(v, dump)) \in Seq(ByteType)
    BY <2>1, <2>2, LedFacts
  <2>4. NodeBytes(v, dump) = Led(v.t, Led(v.arity, Members(v, dump)))
    BY <1>5, NodeBytesKinds
  <2> QED
    BY <1>1, <2>3, <2>4, Zenon
<1> QED
  BY <1>2, <1>3, <1>4, <1>5, ParameterKinds

LEMMA NodeDumpType ==
    \A d \in 0..Depth : \A v \in Parameters(Texts, Nat)[d] :
      NodeDump[d][v] \in Seq(ByteType) /\ NodeDump[d][v] # <<>>
<1> DEFINE P == Parameters(Texts, Nat)
           T == {d \in Nat : d <= Depth => \A v \in P[d] : NodeDump[d][v] \in Seq(ByteType) /\ NodeDump[d][v] # <<>>}
<1>1. 0 \in T
  BY ParametersStep
<1>2. ASSUME NEW d \in T PROVE d + 1 \in T
  <2> SUFFICES ASSUME d + 1 <= Depth, NEW v \in P[d + 1]
               PROVE  NodeDump[d + 1][v] \in Seq(ByteType) /\ NodeDump[d + 1][v] # <<>>
    OBVIOUS
  <2>1. d \in Nat /\ d <= Depth /\ d + 1 \in 1..Depth /\ (d + 1) - 1 = d
    BY DepthAssumption
  <2>2. Written(P[d], NodeDump[d])
    BY <2>1 DEF Written
  <2> HIDE DEF T
  <2>3. v \in ParametersOf(Texts, Nat, P[d])
    BY <2>1, ParametersStep
  <2>4. NodeDump[d + 1][v] = NodeBytes(v, NodeDump[d])
    BY <2>1, NodeDumpStep
  <2> HIDE DEF P
  <2> QED
    BY <2>2, <2>3, <2>4, NodeBytesType
<1> HIDE DEF T
<1>3. T = Nat
  BY <1>1, <1>2, SetInduction DEF T
<1> QED
  BY <1>3, DepthAssumption DEF T

\* What bin_readnode does, by kinds.
KindOrElse(t, tuple, number, atom, any, other) ==
    CASE t = TYPE_TUPLE -> tuple [] t = TYPE_NUMBER -> number [] t = TYPE_ATOM -> atom [] t = TYPE_ANY -> any
      [] OTHER -> other

LEMMA KindOrElseFacts ==
    \A tuple, number, atom, any, other :
      /\ KindOrElse(TYPE_TUPLE, tuple, number, atom, any, other) = tuple
      /\ KindOrElse(TYPE_NUMBER, tuple, number, atom, any, other) = number
      /\ KindOrElse(TYPE_ATOM, tuple, number, atom, any, other) = atom
      /\ KindOrElse(TYPE_ANY, tuple, number, atom, any, other) = any
BY DEF KindOrElse, TYPE_ANY, TYPE_NUMBER, TYPE_ATOM, TYPE_TUPLE

TupleRead(f, rd, l) ==
    IF l.p = 0 THEN Crash
    ELSE Tagged(ReadMany(f, rd, l.x, l.p), Tuple(Signed8(l.x), ReadMany(f, rd, l.x, l.p).x))
NumberRead(f, q) == Tagged(ReadInt(f, q), Number(ReadInt(f, q).x))
AtomRead(f, l) ==
    IF l.p # 0 /\ There(f, l.p, l.x) THEN At(l.p + l.x, Atom(ReadText(f, l.p).x)) ELSE Crash

LEMMA NodeAtAny ==
    ASSUME NEW f, NEW rd, NEW p, NEW q, q # 0, ReadByte(f, p) = At(q, TYPE_ANY)
    PROVE  NodeAt(f, rd, p) = At(q, AnyValue)
<1>1. ReadByte(f, p).p = q /\ ReadByte(f, p).x = TYPE_ANY
  BY AtParts
<1> QED
  BY <1>1 DEF NodeAt, TYPE_ANY, TYPE_NUMBER, TYPE_ATOM, TYPE_TUPLE

LEMMA NodeAtKinds ==
    ASSUME NEW f, NEW rd, NEW p, NEW q, q # 0, NEW k, ReadByte(f, p) = At(q, k)
    PROVE  /\ k = TYPE_NUMBER => NodeAt(f, rd, p) = NumberRead(f, q)
           /\ k = TYPE_ATOM => NodeAt(f, rd, p) = AtomRead(f, ReadByte(f, q))
           /\ k = TYPE_TUPLE => NodeAt(f, rd, p) = TupleRead(f, rd, ReadByte(f, q))
<1>1. ReadByte(f, p).p = q /\ ReadByte(f, p).x = k
  BY AtParts
<1>2. NodeAt(f, rd, p) = KindOrElse(k, TupleRead(f, rd, ReadByte(f, q)), NumberRead(f, q),
                                    AtomRead(f, ReadByte(f, q)), At(q, AnyValue), Crash)
  BY <1>1 DEF NodeAt, KindOrElse, TupleRead, NumberRead, AtomRead
<1> QED
  BY <1>2, KindOrElseFacts

-----------------------------------------------------------------------------
\* The parameters inside of the format's limits are parameters.
FitTexts == {a \in Texts : Len(a) + 1 < Base}
FitArities == {n \in Nat : 2 * n < Base}

LEMMA TuplesGrow ==
    ASSUME NEW as, NEW bs, as \subseteq bs, NEW ps, NEW qs, ps \subseteq qs
    PROVE  Tuples(as, ps) \subseteq Tuples(bs, qs)
<1> SUFFICES ASSUME NEW v \in Tuples(as, ps) PROVE v \in Tuples(bs, qs)
  OBVIOUS
<1>1. v \in [t : {TYPE_TUPLE}, arity : as, members : Seq(ps)] /\ Len(v.members) = v.arity
  BY DEF Tuples
<1>2. v.members \in Seq(ps) /\ v.arity \in bs /\ v.t = TYPE_TUPLE
  BY <1>1
<1>3. v.members \in Seq(qs)
  BY <1>2, SeqGrows
<1>4. v = [t |-> v.t, arity |-> v.arity, members |-> v.members]
  BY <1>1
<1>5. v \in [t : {TYPE_TUPLE}, arity : bs, members : Seq(qs)]
  BY <1>2, <1>3, <1>4
<1> QED
  BY <1>1, <1>5 DEF Tuples

LEMMA ParametersGrow ==
    \A d \in 0..Depth : Parameters(FitTexts, FitArities)[d] \subseteq Parameters(Texts, Nat)[d]
<1> DEFINE P == Parameters(Texts, Nat)
           Q == Parameters(FitTexts, FitArities)
           T == {d \in Nat : d <= Depth => Q[d] \subseteq P[d]}
<1>1. 0 \in T
  BY ParametersStep
<1>2. ASSUME NEW d \in T PROVE d + 1 \in T
  <2> SUFFICES ASSUME d + 1 <= Depth PROVE Q[d + 1] \subseteq P[d + 1]
    OBVIOUS
  <2>1. d \in Nat /\ d + 1 \in 1..Depth /\ (d + 1) - 1 = d
    BY DepthAssumption
  <2>2. Q[d] \subseteq P[d]
    BY <2>1, DepthAssumption
  <2> HIDE DEF T
  <2>3. P[d + 1] = ParametersOf(Texts, Nat, P[d])
    BY <2>1, ParametersStep
  <2>4. Q[d + 1] = ParametersOf(FitTexts, FitArities, Q[d])
    BY <2>1, ParametersStep
  <2> HIDE DEF P, Q
  <2>5. FitTexts \subseteq Texts
    BY DEF FitTexts
  <2>6. FitArities \subseteq Nat
    BY DEF FitArities
  <2>7. Tuples(FitArities, Q[d]) \subseteq Tuples(Nat, P[d])
    BY <2>2, <2>6, TuplesGrow
  <2>8. [t : {TYPE_ATOM}, atom : FitTexts] \subseteq [t : {TYPE_ATOM}, atom : Texts]
    BY <2>5
  <2> QED
    BY <2>3, <2>4, <2>7, <2>8 DEF ParametersOf
<1> HIDE DEF T
<1>3. T = Nat
  BY <1>1, <1>2, SetInduction DEF T
<1> QED
  BY <1>3, DepthAssumption DEF T

-----------------------------------------------------------------------------
\* A parameter is read as it was written.  First, a byte and what follows it.
LEMMA ReadByteFirst ==
    ASSUME NEW f \in Seq(ByteType), NEW n \in ByteType, NEW s \in Seq(ByteType), NEW p,
           Holds(f, p, Led(n, s))
    PROVE  /\ p \in Nat \ {0} /\ p + 1 \in Nat \ {0}
           /\ ReadByte(f, p) = At(p + 1, n)
           /\ Holds(f, p + 1, s)
           /\ p <= Len(f)
<1>1. n \in Int
  BY BaseFacts DEF ByteType
<1>2. Byte(n) \in Seq(ByteType) /\ Len(Byte(n)) = 1
  BY <1>1, ByteFacts
<1>3. Holds(f, p, Byte(n)) /\ Holds(f, p + 1, s)
  BY <1>2, HoldsBoth DEF Led
<1>4. p \in Nat \ {0} /\ p + 1 <= Len(f) + 1
  BY <1>2, <1>3 DEF Holds
<1>5. ReadByte(f, p) = At(p + 1, n)
  BY <1>3, ReadByteRound
<1>6. p <= Len(f) /\ p + 1 \in Nat \ {0}
  BY <1>4
<1> QED
  BY <1>3, <1>4, <1>5, <1>6

\* From p on, rd reads the values xs where dump's bytes are.
ReadsAll(f, rd, p, xs, dump) ==
    \A x \in xs : \A q \in Nat : q >= p /\ Holds(f, q, dump[x]) => rd[q] = At(q + Len(dump[x]), x)

\* What is written of so many values.
Joint(ms, dump) == FlattenSeq([i \in 1..Len(ms) |-> dump[ms[i]]])

\* So that ReadMany reads them one by one.
LEMMA MembersRound ==
    ASSUME NEW f \in Seq(ByteType), NEW rd, NEW p, NEW xs, NEW dump,
           Written(xs, dump),
           ReadsAll(f, rd, p, xs, dump), NEW ms \in Seq(xs),
           Holds(f, p, Joint(ms, dump))
    PROVE  ReadMany(f, rd, Len(ms), p) = At(p + Len(Joint(ms, dump)), ms)
<1>1. PICK ss : ss = [i \in 1..Len(ms) |-> dump[ms[i]]]
  OBVIOUS
<1>0. Joint(ms, dump) = FlattenSeq(ss)
  BY <1>1 DEF Joint
<1>2. \A i \in 1..Len(ms) : dump[ms[i]] \in Seq(ByteType) /\ dump[ms[i]] # <<>>
  BY DEF Written
<1>3. ss \in Seq(Seq(ByteType)) /\ Len(ss) = Len(ms)
  BY <1>1, <1>2
<1>4. \A i \in 1..Len(ss) : ss[i] = dump[ms[i]] /\ ss[i] # <<>>
  BY <1>1, <1>2, <1>3
<1>5. PICK o : Parted(f, p, ss, o) /\ o[Len(ss)] = p + Len(FlattenSeq(ss))
  <2>1. ss \in Seq(Seq(ByteType)) /\ Holds(f, p, FlattenSeq(ss))
    BY <1>0, <1>3
  <2> QED
    BY <2>1, HoldsParts
<1>6. p \in Nat \ {0} /\ p <= Len(f) + 1
  <2>1. FlattenSeq(ss) \in Seq(ByteType)
    BY <1>3, FlattenType
  <2>2. Len(FlattenSeq(ss)) \in Nat /\ Holds(f, p, FlattenSeq(ss))
    BY <1>0, <2>1
  <2> QED
    BY <2>2 DEF Holds
<1>7. ASSUME NEW i \in 1..Len(ss) PROVE rd[o[i - 1]] = At(o[i], ms[i])
  <2>1. i - 1 \in 0..Len(ss)
    BY <1>3
  <2>2. o[i - 1] \in Nat /\ p + (i - 1) <= o[i - 1]
    BY <1>3, <1>4, <1>5, <1>6, <2>1, PartsEnd
  <2>3. o[i - 1] >= p
    <3>1. PICK z : z = o[i - 1]
      OBVIOUS
    <3>2. z \in Nat /\ p + (i - 1) <= z
      BY <2>2, <3>1
    <3>3. z >= p
      BY <1>6, <2>1, <3>2
    <3> QED
      BY <3>1, <3>3
  <2>4. Holds(f, o[i - 1], ss[i]) /\ o[i] = o[i - 1] + Len(ss[i])
    BY <1>5 DEF Parted
  <2>5. ms[i] \in xs
    BY <1>3
  <2>6. ss[i] = dump[ms[i]]
    BY <1>4
  <2> QED
    BY <2>2, <2>3, <2>4, <2>5, <2>6 DEF ReadsAll
<1>8. ReadMany(f, rd, Len(ss), p) = At(o[Len(ss)], ms)
  <2>1. p \in Nat /\ p <= Len(f) + 1
    BY <1>6
  <2>2. ss \in Seq(Seq(ByteType))
    BY <1>3
  <2>3. Parted(f, p, ss, o)
    BY <1>5
  <2>4. \A i \in 1..Len(ss) : ss[i] # <<>>
    BY <1>4
  <2>5. Len(ms) = Len(ss)
    BY <1>3
  <2>6. \A i \in 1..Len(ss) : rd[o[i - 1]] = At(o[i], ms[i])
    BY <1>7
  <2> QED
    BY <2>1, <2>2, <2>3, <2>4, <2>5, <2>6, ReadManyParts
<1> QED
  BY <1>0, <1>3, <1>5, <1>8

LEMMA TypesAreBytes ==
    /\ TYPE_ANY \in ByteType /\ TYPE_VAR \in ByteType /\ TYPE_ATOM \in ByteType /\ TYPE_TUPLE \in ByteType
    /\ TYPE_NUMBER \in ByteType /\ TYPE_LIST \in ByteType /\ TYPE_PATHID \in ByteType
    /\ TYPE_ANY + Q_RANGE \in ByteType /\ TYPE_VAR + Q_RANGE \in ByteType
BY BaseFacts DEF ByteType, TYPE_ANY, TYPE_VAR, TYPE_ATOM, TYPE_TUPLE, TYPE_NUMBER, TYPE_LIST, TYPE_PATHID, Q_RANGE

LEMMA TaggedAt == ASSUME NEW p, p # 0, NEW x, NEW y PROVE Tagged(At(p, x), y) = At(p, y)
BY AtParts DEF Tagged

\* An arity inside of the limits is read as it was written.
LEMMA FitArity ==
    ASSUME NEW n \in FitArities
    PROVE  n \in Nat /\ n \in Int /\ n \in ByteType /\ Signed8(n) = n
<1>1. n \in Nat /\ 2 * n < Base
  BY DEF FitArities
<1>2. n \in Int /\ n \in 0..Base - 1 /\ n < Base \div 2 /\ -(Base \div 2) <= n
  BY <1>1, BaseFacts
<1>3. n % Base = n
  BY <1>2, ModSmall
<1>4. Signed8(n % Base) = n
  BY <1>2, SignedMod
<1> QED
  BY <1>1, <1>2, <1>3, <1>4 DEF ByteType

LEMMA NodeAtRound ==
    ASSUME NEW f \in Seq(ByteType), NEW rd, NEW p \in Nat, NEW xs, NEW dump,
           Written(xs, dump),
           NEW q, q = p + 1, ReadsAll(f, rd, q, xs, dump),
           NEW v \in ParametersOf(FitTexts, FitArities, xs), Holds(f, p, NodeBytes(v, dump))
    PROVE  NodeAt(f, rd, p) = At(p + Len(NodeBytes(v, dump)), v)
<1>1. CASE v.t = TYPE_ANY /\ v = AnyValue
  <2>1. PICK z : z = <<>>
    OBVIOUS
  <2>2. z \in Seq(ByteType)
    BY <2>1
  <2>3. Len(z) = 0
    BY <2>1
  <2>4. NodeBytes(v, dump) = Led(TYPE_ANY, z)
    BY <1>1, <2>1, NodeBytesKinds
  <2>5. TYPE_ANY \in ByteType /\ TYPE_ANY \in Int
    BY TypesAreBytes DEF TYPE_ANY
  <2>6. p \in Nat \ {0} /\ p + 1 \in Nat \ {0} /\ ReadByte(f, p) = At(p + 1, TYPE_ANY)
    BY <2>2, <2>4, <2>5, ReadByteFirst
  <2>7. Len(NodeBytes(v, dump)) = 1
    <3>1. Len(NodeBytes(v, dump)) = 1 + Len(z)
      BY <2>2, <2>4, <2>5, LedFacts
    <3> QED
      BY <2>3, <3>1
  <2>8. NodeAt(f, rd, p) = At(p + 1, AnyValue)
    <3>1. p + 1 # 0
      BY <2>6
    <3>2. q # 0 /\ ReadByte(f, p) = At(q, TYPE_ANY)
      BY <2>6, <3>1
    <3>3. NodeAt(f, rd, p) = At(q, AnyValue)
      BY <3>2, NodeAtAny
    <3> QED
      BY <3>3
  <2> QED
    BY <1>1, <2>7, <2>8
<1>2. CASE v.t = TYPE_NUMBER /\ v.number \in IntType /\ v = Number(v.number)
  <2>1. PICK n : n = v.number
    OBVIOUS
  <2>2. PICK z : z = Bytes(4, n)
    OBVIOUS
  <2>3. n \in IntType /\ n \in Int /\ 4 \in Nat \ {0}
    BY <1>2, <2>1 DEF IntType
  <2>4. z \in Seq(ByteType)
    BY <2>2, <2>3, BytesType
  <2>5. Len(z) = 4
    BY <2>2, <2>3, BytesType
  <2>6. NodeBytes(v, dump) = Led(TYPE_NUMBER, z)
    BY <1>2, <2>1, <2>2, NodeBytesKinds
  <2>7. TYPE_NUMBER \in ByteType /\ TYPE_NUMBER \in Int
    BY TypesAreBytes DEF TYPE_NUMBER
  <2>8. /\ p \in Nat \ {0} /\ p + 1 \in Nat \ {0}
        /\ ReadByte(f, p) = At(p + 1, TYPE_NUMBER) /\ Holds(f, p + 1, z)
    BY <2>4, <2>6, <2>7, ReadByteFirst
  <2>9. Len(NodeBytes(v, dump)) = 1 + 4
    BY <2>4, <2>5, <2>6, <2>7, LedFacts
  <2>10. ReadInt(f, p + 1) = At((p + 1) + 4, n)
    BY <2>2, <2>3, <2>8, ReadIntRound
  <2>11. NodeAt(f, rd, p) = NumberRead(f, p + 1)
    BY <2>8, NodeAtKinds
  <2>12. NumberRead(f, p + 1) = At((p + 1) + 4, Number(n))
    <3>1. (p + 1) + 4 # 0
      BY <2>8
    <3> QED
      BY <2>10, <3>1, AtParts, TaggedAt DEF NumberRead
  <2>13. (p + 1) + 4 = p + (1 + 4)
    BY <2>8
  <2> QED
    BY <1>2, <2>1, <2>9, <2>11, <2>12, <2>13
<1>3. CASE v.t = TYPE_ATOM /\ v.atom \in FitTexts /\ v = Atom(v.atom)
  <2>1. PICK a : a = v.atom
    OBVIOUS
  <2>2. PICK l : l = Len(a) + 1
    OBVIOUS
  <2>3. a \in Texts
    BY <1>3, <2>1 DEF FitTexts
  <2>4. l \in Nat /\ l \in Int /\ l \in ByteType
    <3>1. Len(a) \in Nat /\ Len(a) + 1 < Base
      BY <1>3, <2>1 DEF FitTexts, Texts
    <3> QED
      BY <2>2, <3>1, BaseFacts DEF ByteType
  <2>5. PICK y : y = Text(a)
    OBVIOUS
  <2>6. y \in Seq(ByteType)
    BY <2>3, <2>5, TextType
  <2>7. Len(y) = l
    BY <2>2, <2>3, <2>5, TextType
  <2>8. PICK z : z = Led(l, y)
    OBVIOUS
  <2>9. z \in Seq(ByteType)
    BY <2>4, <2>6, <2>8, LedFacts
  <2>10. Len(z) = 1 + l
    BY <2>4, <2>6, <2>7, <2>8, LedFacts
  <2>11. NodeBytes(v, dump) = Led(TYPE_ATOM, z)
    BY <1>3, <2>1, <2>2, <2>5, <2>8, NodeBytesKinds
  <2>12. TYPE_ATOM \in ByteType /\ TYPE_ATOM \in Int
    BY TypesAreBytes DEF TYPE_ATOM
  <2>13. /\ p \in Nat \ {0} /\ p + 1 \in Nat \ {0}
         /\ ReadByte(f, p) = At(p + 1, TYPE_ATOM) /\ Holds(f, p + 1, z)
    BY <2>9, <2>11, <2>12, ReadByteFirst
  <2>14. Len(NodeBytes(v, dump)) = 1 + (1 + l)
    BY <2>9, <2>10, <2>11, <2>12, LedFacts
  <2>15. (p + 1) + 1 \in Nat \ {0} /\ ReadByte(f, p + 1) = At((p + 1) + 1, l) /\ Holds(f, (p + 1) + 1, y)
    BY <2>4, <2>6, <2>8, <2>13, ReadByteFirst
  <2>16. ReadText(f, (p + 1) + 1) = At(((p + 1) + 1) + l, a)
    BY <2>2, <2>3, <2>5, <2>15, ReadTextRound
  <2>17. There(f, (p + 1) + 1, l)
    BY <2>7, <2>15 DEF There, Holds
  <2>18. NodeAt(f, rd, p) = AtomRead(f, ReadByte(f, p + 1))
    BY <2>13, NodeAtKinds
  <2>19. AtomRead(f, ReadByte(f, p + 1)) = At(((p + 1) + 1) + l, Atom(a))
    BY <2>15, <2>16, <2>17, AtParts DEF AtomRead
  <2>20. ((p + 1) + 1) + l = p + (1 + (1 + l))
    BY <2>4, <2>13
  <2> QED
    BY <1>3, <2>1, <2>14, <2>18, <2>19, <2>20
<1>4. CASE /\ v.t = TYPE_TUPLE /\ v.arity \in FitArities /\ v.members \in Seq(xs)
           /\ Len(v.members) = v.arity /\ v = Tuple(v.arity, v.members)
  <2>1. PICK ms : ms = v.members
    OBVIOUS
  <2>2. PICK n : n = v.arity
    OBVIOUS
  <2>3. ms \in Seq(xs)
    BY <1>4, <2>1
  <2>4. Len(ms) = n /\ v = Tuple(n, ms)
    BY <1>4, <2>1, <2>2
  <2>5. n \in Nat /\ n \in Int /\ n \in ByteType /\ Signed8(n) = n
    BY <1>4, <2>2, FitArity
  <2>6. PICK y : y = Members(v, dump)
    OBVIOUS
  <2>7. y \in Seq(ByteType)
    BY <1>4, <2>2, <2>5, <2>6, MembersType
  <2>8. PICK z : z = Led(n, y)
    OBVIOUS
  <2>9. z \in Seq(ByteType)
    BY <2>5, <2>7, <2>8, LedFacts
  <2>10. Len(z) = 1 + Len(y) /\ Len(y) \in Nat
    BY <2>5, <2>7, <2>8, LedFacts
  <2>11. NodeBytes(v, dump) = Led(TYPE_TUPLE, z)
    BY <1>4, <2>2, <2>6, <2>8, NodeBytesKinds
  <2>12. TYPE_TUPLE \in ByteType /\ TYPE_TUPLE \in Int
    BY TypesAreBytes DEF TYPE_TUPLE
  <2>13. /\ p \in Nat \ {0} /\ p + 1 \in Nat \ {0}
         /\ ReadByte(f, p) = At(p + 1, TYPE_TUPLE) /\ Holds(f, p + 1, z)
    BY <2>9, <2>11, <2>12, ReadByteFirst
  <2>14. Len(NodeBytes(v, dump)) = 1 + (1 + Len(y))
    BY <2>9, <2>10, <2>11, <2>12, LedFacts
  <2>15. (p + 1) + 1 \in Nat \ {0} /\ ReadByte(f, p + 1) = At((p + 1) + 1, n) /\ Holds(f, (p + 1) + 1, y)
    BY <2>5, <2>7, <2>8, <2>13, ReadByteFirst
  <2>16. ReadsAll(f, rd, (p + 1) + 1, xs, dump)
    BY <2>13 DEF ReadsAll
  <2>17. y = Joint(ms, dump)
    BY <2>1, <2>2, <2>4, <2>6, Zenon DEF Members, Joint
  <2>18. ReadMany(f, rd, n, (p + 1) + 1) = At(((p + 1) + 1) + Len(y), ms)
    <3>1. Holds(f, (p + 1) + 1, Joint(ms, dump))
      BY <2>15, <2>17
    <3>2. ReadMany(f, rd, Len(ms), (p + 1) + 1)
            = At(((p + 1) + 1) + Len(Joint(ms, dump)), ms)
      BY <2>3, <2>16, <3>1, MembersRound
    <3> QED
      BY <2>4, <2>17, <3>2
  <2>19. NodeAt(f, rd, p) = TupleRead(f, rd, ReadByte(f, p + 1))
    BY <2>13, NodeAtKinds
  <2>20. TupleRead(f, rd, ReadByte(f, p + 1)) = At(((p + 1) + 1) + Len(y), Tuple(n, ms))
    <3>1. (p + 1) + 1 # 0 /\ ((p + 1) + 1) + Len(y) # 0
      BY <2>10, <2>13
    <3> QED
      BY <2>5, <2>15, <2>18, <3>1, AtParts, TaggedAt DEF TupleRead
  <2>21. ((p + 1) + 1) + Len(y) = p + (1 + (1 + Len(y)))
    BY <2>10, <2>13
  <2> QED
    BY <2>4, <2>14, <2>19, <2>20, <2>21
<1> QED
  BY <1>1, <1>2, <1>3, <1>4, ParameterKinds

\* So does bin_readnode, however deep a parameter nests.
NodesRound(f, d) ==
    \A v \in Parameters(FitTexts, FitArities)[d] : \A m \in 0..Len(f) : \A p \in Nat :
      Holds(f, p, NodeDump[d][v]) /\ Len(f) + 1 - p <= m
        => NodeReader(f)[m][p] = At(p + Len(NodeDump[d][v]), v)

LEMMA NodesRoundNext ==
    ASSUME NEW f \in Seq(ByteType), NEW d \in Nat, d + 1 \in 1..Depth, NodesRound(f, d)
    PROVE  NodesRound(f, d + 1)
<1> DEFINE xs == Parameters(FitTexts, FitArities)[d]
           dump == NodeDump[d]
<1>1. (d + 1) - 1 = d /\ d \in 0..Depth
  BY DepthAssumption
<1>2. Parameters(FitTexts, FitArities)[d + 1] = ParametersOf(FitTexts, FitArities, xs)
  BY <1>1, ParametersStep
<1>3. Written(xs, dump)
  BY <1>1, NodeDumpType, ParametersGrow DEF Written
<1>4. \A v \in Parameters(FitTexts, FitArities)[d + 1] :
        /\ NodeDump[d + 1][v] = NodeBytes(v, dump)
        /\ NodeDump[d + 1][v] \in Seq(ByteType) /\ NodeDump[d + 1][v] # <<>>
  <2>1. SUFFICES ASSUME NEW v \in Parameters(FitTexts, FitArities)[d + 1]
                 PROVE  /\ NodeDump[d + 1][v] = NodeBytes(v, dump)
                        /\ NodeDump[d + 1][v] \in Seq(ByteType) /\ NodeDump[d + 1][v] # <<>>
    OBVIOUS
  <2>2. d + 1 \in 0..Depth
    BY DepthAssumption
  <2>3. v \in Parameters(Texts, Nat)[d + 1]
    BY <2>1, <2>2, ParametersGrow
  <2>4. NodeDump[d + 1][v] = NodeBytes(v, dump)
    BY <1>1, <2>3, NodeDumpStep
  <2>5. NodeDump[d + 1][v] \in Seq(ByteType) /\ NodeDump[d + 1][v] # <<>>
    BY <2>2, <2>3, NodeDumpType
  <2> QED
    BY <2>4, <2>5
<1>5. ASSUME NEW v \in Parameters(FitTexts, FitArities)[d + 1], NEW m \in 0..Len(f), NEW p \in Nat,
             Holds(f, p, NodeDump[d + 1][v]), Len(f) + 1 - p <= m
      PROVE  NodeReader(f)[m][p] = At(p + Len(NodeDump[d + 1][v]), v)
  <2>1. PICK w : w = NodeDump[d + 1][v]
    OBVIOUS
  <2>2. w \in Seq(ByteType)
    BY <1>4, <2>1
  <2>3. w # <<>>
    BY <1>4, <2>1
  <2>4. p \in Nat \ {0} /\ p + Len(w) <= Len(f) + 1
    BY <1>5, <2>1 DEF Holds
  <2>5. Len(w) \in Nat \ {0} /\ Len(f) \in Nat
    BY <2>2, <2>3
  <2>6. m \in 1..Len(f) /\ m - 1 \in 0..Len(f) /\ p + 1 \in Nat /\ Len(f) + 1 - (p + 1) <= m - 1
    BY <1>5, <2>4, <2>5
  <2>7. PICK rd : rd = NodeReader(f)[m - 1]
    OBVIOUS
  <2>8. NodeReader(f)[m][p] = NodeAt(f, rd, p)
    BY <2>5, <2>6, <2>7, NodeReaderStep
  <2>0. PICK r : r = p + 1
    OBVIOUS
  <2>9. ReadsAll(f, rd, r, xs, dump)
    <3>1. SUFFICES ASSUME NEW x \in xs, NEW q \in Nat, q >= p + 1, Holds(f, q, dump[x])
                   PROVE  rd[q] = At(q + Len(dump[x]), x)
      BY <2>0 DEF ReadsAll
    <3>2. Len(f) + 1 - q <= m - 1
      BY <2>5, <2>6, <3>1
    <3> QED
      BY <2>6, <2>7, <3>1, <3>2 DEF NodesRound
  <2>10. v \in ParametersOf(FitTexts, FitArities, xs)
    BY <1>2, <1>5
  <2>11. Holds(f, p, NodeBytes(v, dump))
    BY <1>4, <1>5
  <2> HIDE DEF xs, dump
  <2>12. NodeAt(f, rd, p) = At(p + Len(NodeBytes(v, dump)), v)
    BY <1>3, <2>0, <2>9, <2>10, <2>11, NodeAtRound
  <2> QED
    BY <1>4, <2>8, <2>12
<1> QED
  BY <1>5 DEF NodesRound

LEMMA ReadNodeRound ==
    ASSUME NEW f \in Seq(ByteType), NEW v \in Parameters(FitTexts, FitArities)[Depth],
           NEW p \in Nat, Holds(f, p, DumpNode(v))
    PROVE  ReadNode(f, p) = At(p + Len(DumpNode(v)), v)
<1> DEFINE T == {d \in Nat : d <= Depth => NodesRound(f, d)}
<1>1. 0 \in T
  BY ParametersStep DEF NodesRound
<1>2. ASSUME NEW d \in T PROVE d + 1 \in T
  <2> SUFFICES ASSUME d + 1 <= Depth PROVE NodesRound(f, d + 1)
    OBVIOUS
  <2>1. d \in Nat /\ d <= Depth /\ d + 1 \in 1..Depth
    BY DepthAssumption
  <2>2. NodesRound(f, d)
    BY <2>1
  <2> HIDE DEF T
  <2> QED
    BY <2>1, <2>2, NodesRoundNext
<1> HIDE DEF T
<1>3. T = Nat
  BY <1>1, <1>2, SetInduction DEF T
<1>4. NodesRound(f, Depth)
  BY <1>3, DepthAssumption DEF T
<1>5. Len(f) \in 0..Len(f) /\ Len(f) + 1 - p <= Len(f)
  <2>1. p # 0 /\ Len(f) \in Nat
    BY DEF Holds
  <2> QED
    BY <2>1
<1>6. Holds(f, p, NodeDump[Depth][v])
  BY DEF DumpNode
<1> QED
  BY <1>4, <1>5, <1>6 DEF NodesRound, ReadNode, DumpNode

-----------------------------------------------------------------------------
\* The kinds of constants, and what is written of each.
IdentTypes == {TYPE_ANY, TYPE_VAR, TYPE_ANY + Q_RANGE, TYPE_VAR + Q_RANGE}

LEMMA ConstantKinds ==
    ASSUME NEW arities, NEW vs, NEW v \in ValuesOf(arities, vs)
    PROVE  \/ v.t \in IdentTypes /\ v.ident \in ByteType /\ v = Ident(v.t, v.ident)
           \/ v.t = TYPE_NUMBER /\ v.number \in IntType /\ v = Number(v.number)
           \/ v.t = TYPE_ATOM /\ v.atom \in Texts /\ v = Atom(v.atom)
           \/ v.t = TYPE_PATHID /\ v.module \in Texts /\ v.path \in Texts /\ v = PathID(v.module, v.path)
           \/ /\ v.t = TYPE_TUPLE /\ v.arity \in arities /\ v.members \in Seq(vs)
              /\ Len(v.members) = v.arity /\ v = Tuple(v.arity, v.members)
           \/ v.t = TYPE_LIST /\ v.items \in Seq(vs) /\ Len(v.items) < IntMax /\ v = List(v.items)
<1>1. CASE v \in [t : IdentTypes, ident : ByteType]
  BY <1>1 DEF Ident
<1>2. CASE v \in [t : {TYPE_NUMBER}, number : IntType]
  BY <1>2 DEF Number
<1>3. CASE v \in [t : {TYPE_ATOM}, atom : Texts]
  BY <1>3 DEF Atom
<1>4. CASE v \in [t : {TYPE_PATHID}, module : Texts, path : Texts]
  BY <1>4 DEF PathID
<1>5. CASE v \in Tuples(arities, vs)
  BY <1>5 DEF Tuples, Tuple
<1>6. CASE v \in {x \in [t : {TYPE_LIST}, items : Seq(vs)] : Len(x.items) < IntMax}
  BY <1>6 DEF List
<1> QED
  BY <1>1, <1>2, <1>3, <1>4, <1>5, <1>6 DEF ValuesOf, IdentTypes

LEMMA MaskedFacts ==
    /\ Masked(TYPE_ATOM) = TYPE_ATOM /\ Masked(TYPE_TUPLE) = TYPE_TUPLE /\ Masked(TYPE_NUMBER) = TYPE_NUMBER
    /\ Masked(TYPE_LIST) = TYPE_LIST /\ Masked(TYPE_PATHID) = TYPE_PATHID
    /\ \A t \in IdentTypes : t \in ByteType /\ t \in Int /\ Masked(t) \in {TYPE_VAR, TYPE_ANY}
<1>1. ASSUME NEW t \in IdentTypes PROVE t \in ByteType
  BY TypesAreBytes DEF IdentTypes
<1> QED
  BY <1>1 DEF IdentTypes, Masked, TYPE_ANY, TYPE_VAR, TYPE_ATOM, TYPE_TUPLE, TYPE_NUMBER, TYPE_LIST, TYPE_PATHID, Q_RANGE

ByMask(m, pathid, tuple, list, atom, number, ident) ==
    CASE m = TYPE_PATHID -> pathid [] m = TYPE_TUPLE -> tuple [] m = TYPE_LIST -> list [] m = TYPE_ATOM -> atom
      [] m = TYPE_NUMBER -> number [] m \in {TYPE_VAR, TYPE_ANY} -> ident

LEMMA ByMaskFacts ==
    \A pathid, tuple, list, atom, number, ident :
      /\ ByMask(TYPE_PATHID, pathid, tuple, list, atom, number, ident) = pathid
      /\ ByMask(TYPE_TUPLE, pathid, tuple, list, atom, number, ident) = tuple
      /\ ByMask(TYPE_LIST, pathid, tuple, list, atom, number, ident) = list
      /\ ByMask(TYPE_ATOM, pathid, tuple, list, atom, number, ident) = atom
      /\ ByMask(TYPE_NUMBER, pathid, tuple, list, atom, number, ident) = number
      /\ \A m \in {TYPE_VAR, TYPE_ANY} : ByMask(m, pathid, tuple, list, atom, number, ident) = ident
BY DEF ByMask, TYPE_ANY, TYPE_VAR, TYPE_ATOM, TYPE_TUPLE, TYPE_NUMBER, TYPE_LIST, TYPE_PATHID

\* One after the other.
Both(a, b) == a \o b

LEMMA BothFacts ==
    ASSUME NEW a \in Seq(ByteType), NEW b \in Seq(ByteType)
    PROVE  /\ Both(a, b) \in Seq(ByteType)
           /\ Len(Both(a, b)) = Len(a) + Len(b) /\ Len(a) \in Nat /\ Len(b) \in Nat
BY DEF Both

LEMMA HoldsEach ==
    ASSUME NEW f \in Seq(ByteType), NEW a \in Seq(ByteType), NEW b \in Seq(ByteType), NEW p,
           Holds(f, p, Both(a, b))
    PROVE  /\ p \in Nat \ {0} /\ p + Len(a) \in Nat \ {0}
           /\ Holds(f, p, a) /\ Holds(f, p + Len(a), b)
<1>1. Holds(f, p, a) /\ Holds(f, p + Len(a), b)
  BY HoldsBoth DEF Both
<1>2. p \in Nat \ {0}
  BY DEF Holds
<1> QED
  BY <1>1, <1>2

\* The arity that is written, which is cut off, and so many of the values ms.
ArityWritten(v) == Signed8(v.arity) % Base
Firsts(n, ms, dump) == FlattenSeq([i \in 1..n |-> dump[ms[i]]])

LEMMA FirstsType ==
    ASSUME NEW xs, NEW dump, Written(xs, dump), NEW ms \in Seq(xs), NEW n \in Nat, n <= Len(ms)
    PROVE  Firsts(n, ms, dump) \in Seq(ByteType)
<1>1. PICK ss : ss = [i \in 1..n |-> dump[ms[i]]]
  OBVIOUS
<1>2. \A i \in 1..n : dump[ms[i]] \in Seq(ByteType)
  BY DEF Written
<1>3. ss \in Seq(Seq(ByteType))
  BY <1>1, <1>2
<1>4. FlattenSeq(ss) \in Seq(ByteType)
  BY <1>3, FlattenType
<1> QED
  BY <1>1, <1>4 DEF Firsts

LEMMA ArityWrittenFacts ==
    ASSUME NEW v, v.arity \in Nat
    PROVE  ArityWritten(v) \in Nat /\ ArityWritten(v) <= v.arity /\ ArityWritten(v) \in Int
<1>1. PICK n : n = v.arity
  OBVIOUS
<1>2. n \in Nat /\ n \in Int
  BY <1>1
<1>3. n % Base \in 0..Base - 1 /\ n = Base * (n \div Base) + (n % Base) /\ n \div Base \in Int
  BY <1>2, DivMod
<1>4. n % Base <= n
  <2>1. n \div Base >= 0
    BY <1>2, BaseFacts
  <2>2. Base * (n \div Base) >= 0
    BY <1>3, <2>1, BaseFacts
  <2> QED
    BY <1>2, BaseFacts
<1>5. Signed8(n) % Base = n % Base
  <2>1. PICK r : r = n % Base
    OBVIOUS
  <2>2. r \in 0..Base - 1 /\ r \in Int
    BY <1>3, <2>1, BaseFacts
  <2>3. r % Base = r
    BY <2>2, ModSmall
  <2>4. (r - Base) % Base = r
    BY <2>2, BaseFacts
  <2>5. Signed8(n) = r \/ Signed8(n) = r - Base
    BY <2>1 DEF Signed8
  <2> QED
    BY <2>1, <2>3, <2>4, <2>5
<1> QED
  BY <1>1, <1>2, <1>3, <1>4, <1>5, BaseFacts DEF ArityWritten

LEMMA ConstantBytesKinds ==
    ASSUME NEW v, NEW dump
    PROVE  /\ v.t \in IdentTypes => ConstantBytes(v, dump) = Led(v.t, Byte(v.ident))
           /\ v.t = TYPE_NUMBER => ConstantBytes(v, dump) = Led(v.t, Bytes(4, v.number))
           /\ v.t = TYPE_ATOM => ConstantBytes(v, dump) = Led(v.t, Text(v.atom))
           /\ v.t = TYPE_PATHID => ConstantBytes(v, dump) = Led(v.t, Both(Text(v.module), Text(v.path)))
           /\ v.t = TYPE_TUPLE =>
                ConstantBytes(v, dump) = Led(v.t, Led(ArityWritten(v), Firsts(ArityWritten(v), v.members, dump)))
           /\ v.t = TYPE_LIST =>
                ConstantBytes(v, dump) = Led(v.t, Both(Bytes(8, Len(Consed(v.items))), Joint(Consed(v.items), dump)))
<1>1. PICK a : a = Both(Text(v.module), Text(v.path))
  OBVIOUS
<1>2. PICK b : b = Led(ArityWritten(v), Firsts(ArityWritten(v), v.members, dump))
  OBVIOUS
<1>3. PICK c : c = Both(Bytes(8, Len(Consed(v.items))), Joint(Consed(v.items), dump))
  OBVIOUS
<1>4. PICK d : d = Text(v.atom)
  OBVIOUS
<1>5. PICK e : e = Bytes(4, v.number)
  OBVIOUS
<1>6. PICK g : g = Byte(v.ident)
  OBVIOUS
<1>7. PICK m : m = Masked(v.t)
  OBVIOUS
<1>8. PICK k : k = ByMask(m, a, b, c, d, e, g)
  OBVIOUS
<1>9. ConstantBytes(v, dump) = Led(v.t, k)
  BY <1>1, <1>2, <1>3, <1>4, <1>5, <1>6, <1>7, <1>8, Zenon
  DEF ConstantBytes, ByMask, Led, Both, ArityWritten, Firsts, Joint
<1>10. /\ m = TYPE_PATHID => k = a
       /\ m = TYPE_TUPLE => k = b
       /\ m = TYPE_LIST => k = c
       /\ m = TYPE_ATOM => k = d
       /\ m = TYPE_NUMBER => k = e
       /\ m \in {TYPE_VAR, TYPE_ANY} => k = g
  BY <1>8, ByMaskFacts
<1>11. /\ v.t = TYPE_PATHID => k = a
       /\ v.t = TYPE_TUPLE => k = b
       /\ v.t = TYPE_LIST => k = c
       /\ v.t = TYPE_ATOM => k = d
       /\ v.t = TYPE_NUMBER => k = e
       /\ v.t \in IdentTypes => k = g
  BY <1>7, <1>10, MaskedFacts
<1> QED
  BY <1>1, <1>2, <1>3, <1>4, <1>5, <1>6, <1>9, <1>11, Zenon

\* Lists of those items.
Lists(vs) == {v \in [t : {TYPE_LIST}, items : Seq(vs)] : Len(v.items) < IntMax}

LEMMA ListsGrow ==
    ASSUME NEW ps, NEW qs, ps \subseteq qs
    PROVE  Lists(ps) \subseteq Lists(qs)
<1> SUFFICES ASSUME NEW v \in Lists(ps) PROVE v \in Lists(qs)
  OBVIOUS
<1>1. v \in [t : {TYPE_LIST}, items : Seq(ps)] /\ Len(v.items) < IntMax
  BY DEF Lists
<1>2. v.items \in Seq(ps) /\ v.t = TYPE_LIST
  BY <1>1
<1>3. v.items \in Seq(qs)
  BY <1>2, SeqGrows
<1>4. v = [t |-> v.t, items |-> v.items]
  BY <1>1
<1>5. v \in [t : {TYPE_LIST}, items : Seq(qs)]
  BY <1>2, <1>3, <1>4
<1> QED
  BY <1>1, <1>5 DEF Lists

\* The items of a list, consed and consed back.
LEMMA ConsedFacts ==
    ASSUME NEW xs, NEW l \in Seq(xs)
    PROVE  Consed(l) \in Seq(xs) /\ Len(Consed(l)) = Len(l) /\ ReadConsed(Consed(l)) = l
<1>1. PICK r : r = Reverse(l)
  OBVIOUS
<1>2. r = [i \in 1..Len(l) |-> l[(Len(l) - i) + 1]]
  BY <1>1 DEF Reverse
<1>3. \A i \in 1..Len(l) : (Len(l) - i) + 1 \in 1..Len(l)
  OBVIOUS
<1>4. r \in Seq(xs)
  BY <1>2, <1>3
<1>5. Len(r) = Len(l)
  BY <1>2
<1>6. Reverse(r) = [i \in 1..Len(l) |-> r[(Len(l) - i) + 1]]
  BY <1>5 DEF Reverse
<1>7. ASSUME NEW i \in 1..Len(l) PROVE r[(Len(l) - i) + 1] = l[i]
  <2>1. (Len(l) - i) + 1 \in 1..Len(l) /\ (Len(l) - ((Len(l) - i) + 1)) + 1 = i
    OBVIOUS
  <2> QED
    BY <1>2, <2>1
<1>8. l = [i \in 1..Len(l) |-> l[i]]
  OBVIOUS
<1>9. Reverse(r) = l
  BY <1>6, <1>7, <1>8
<1> QED
  BY <1>1, <1>4, <1>5, <1>9 DEF Consed, ReadConsed

LEMMA JointType ==
    ASSUME NEW xs, NEW dump, Written(xs, dump), NEW ms \in Seq(xs)
    PROVE  Joint(ms, dump) \in Seq(ByteType) /\ Joint(ms, dump) = Firsts(Len(ms), ms, dump)
<1>1. Len(ms) \in Nat /\ Len(ms) <= Len(ms)
  OBVIOUS
<1>2. Firsts(Len(ms), ms, dump) \in Seq(ByteType)
  BY <1>1, FirstsType
<1> QED
  BY <1>2 DEF Joint, Firsts

\* A constant is written as bytes, one at least.
LEMMA ConstantBytesType ==
    ASSUME NEW vs, NEW dump, Written(vs, dump), NEW v \in ValuesOf(Nat, vs)
    PROVE  ConstantBytes(v, dump) \in Seq(ByteType) /\ ConstantBytes(v, dump) # <<>>
<1> SUFFICES \E n \in Int, s \in Seq(ByteType) : ConstantBytes(v, dump) = Led(n, s)
  BY LedFacts
<1>1. v.t \in Int
  <2>1. TYPE_NUMBER \in Int /\ TYPE_ATOM \in Int /\ TYPE_TUPLE \in Int /\ TYPE_LIST \in Int /\ TYPE_PATHID \in Int
    BY DEF TYPE_NUMBER, TYPE_ATOM, TYPE_TUPLE, TYPE_LIST, TYPE_PATHID
  <2> QED
    BY <2>1, MaskedFacts, ConstantKinds
<1>2. CASE v.t \in IdentTypes /\ v.ident \in ByteType
  <2>1. v.ident \in Int
    BY <1>2, BaseFacts DEF ByteType
  <2>2. Byte(v.ident) \in Seq(ByteType)
    BY <2>1, ByteFacts
  <2>3. ConstantBytes(v, dump) = Led(v.t, Byte(v.ident))
    BY <1>2, ConstantBytesKinds
  <2> QED
    BY <1>1, <2>2, <2>3, Zenon
<1>3. CASE v.t = TYPE_NUMBER /\ v.number \in IntType
  <2>1. v.number \in Int /\ 4 \in Nat \ {0}
    BY <1>3 DEF IntType
  <2>2. Bytes(4, v.number) \in Seq(ByteType)
    BY <2>1, BytesType
  <2>3. ConstantBytes(v, dump) = Led(v.t, Bytes(4, v.number))
    BY <1>3, ConstantBytesKinds
  <2> QED
    BY <1>1, <2>2, <2>3, Zenon
<1>4. CASE v.t = TYPE_ATOM /\ v.atom \in Texts
  <2>1. Text(v.atom) \in Seq(ByteType)
    BY <1>4, TextType
  <2>2. ConstantBytes(v, dump) = Led(v.t, Text(v.atom))
    BY <1>4, ConstantBytesKinds
  <2> QED
    BY <1>1, <2>1, <2>2, Zenon
<1>5. CASE v.t = TYPE_PATHID /\ v.module \in Texts /\ v.path \in Texts
  <2>1. Text(v.module) \in Seq(ByteType)
    BY <1>5, TextType
  <2>2. Text(v.path) \in Seq(ByteType)
    BY <1>5, TextType
  <2>3. Both(Text(v.module), Text(v.path)) \in Seq(ByteType)
    BY <2>1, <2>2, BothFacts
  <2>4. ConstantBytes(v, dump) = Led(v.t, Both(Text(v.module), Text(v.path)))
    BY <1>5, ConstantBytesKinds
  <2> QED
    BY <1>1, <2>3, <2>4, Zenon
<1>6. CASE v.t = TYPE_TUPLE /\ v.arity \in Nat /\ v.members \in Seq(vs) /\ Len(v.members) = v.arity
  <2>1. ArityWritten(v) \in Nat /\ ArityWritten(v) <= Len(v.members) /\ ArityWritten(v) \in Int
    BY <1>6, ArityWrittenFacts
  <2>2. v.members \in Seq(vs)
    BY <1>6
  <2>3. Firsts(ArityWritten(v), v.members, dump) \in Seq(ByteType)
    BY <2>1, <2>2, FirstsType
  <2>4. Led(ArityWritten(v), Firsts(ArityWritten(v), v.members, dump)) \in Seq(ByteType)
    BY <2>1, <2>3, LedFacts
  <2>5. ConstantBytes(v, dump) = Led(v.t, Led(ArityWritten(v), Firsts(ArityWritten(v), v.members, dump)))
    BY <1>6, ConstantBytesKinds
  <2> QED
    BY <1>1, <2>4, <2>5, Zenon
<1>7. CASE v.t = TYPE_LIST /\ v.items \in Seq(vs)
  <2>1. PICK l : l = Consed(v.items)
    OBVIOUS
  <2>2. v.items \in Seq(vs)
    BY <1>7
  <2>3. l \in Seq(vs)
    BY <2>1, <2>2, ConsedFacts
  <2>4. Joint(l, dump) \in Seq(ByteType)
    BY <2>3, JointType
  <2>5. Len(l) \in Int /\ 8 \in Nat \ {0}
    BY <2>3
  <2>6. Bytes(8, Len(l)) \in Seq(ByteType)
    BY <2>5, BytesType
  <2>7. Both(Bytes(8, Len(l)), Joint(l, dump)) \in Seq(ByteType)
    BY <2>4, <2>6, BothFacts
  <2>8. ConstantBytes(v, dump) = Led(v.t, Both(Bytes(8, Len(l)), Joint(l, dump)))
    BY <1>7, <2>1, ConstantBytesKinds
  <2> QED
    BY <1>1, <2>7, <2>8, Zenon
<1> QED
  BY <1>2, <1>3, <1>4, <1>5, <1>6, <1>7, ConstantKinds

LEMMA ConstantDumpType ==
    \A d \in 0..Depth : \A v \in Values(Nat)[d] :
      ConstantDump[d][v] \in Seq(ByteType) /\ ConstantDump[d][v] # <<>>
<1> DEFINE V == Values(Nat)
           T == {d \in Nat : d <= Depth => \A v \in V[d] : ConstantDump[d][v] \in Seq(ByteType) /\ ConstantDump[d][v] # <<>>}
<1>1. 0 \in T
  BY ValuesStep
<1>2. ASSUME NEW d \in T PROVE d + 1 \in T
  <2> SUFFICES ASSUME d + 1 <= Depth, NEW v \in V[d + 1]
               PROVE  ConstantDump[d + 1][v] \in Seq(ByteType) /\ ConstantDump[d + 1][v] # <<>>
    OBVIOUS
  <2>1. d \in Nat /\ d <= Depth /\ d + 1 \in 1..Depth /\ (d + 1) - 1 = d
    BY DepthAssumption
  <2>2. Written(V[d], ConstantDump[d])
    BY <2>1 DEF Written
  <2> HIDE DEF T
  <2>3. v \in ValuesOf(Nat, V[d])
    BY <2>1, ValuesStep
  <2>4. ConstantDump[d + 1][v] = ConstantBytes(v, ConstantDump[d])
    BY <2>1, ConstantDumpStep
  <2> HIDE DEF V
  <2> QED
    BY <2>2, <2>3, <2>4, ConstantBytesType
<1> HIDE DEF T
<1>3. T = Nat
  BY <1>1, <1>2, SetInduction DEF T
<1> QED
  BY <1>3, DepthAssumption DEF T

LEMMA ValuesGrow == \A d \in 0..Depth : Values(FitArities)[d] \subseteq Values(Nat)[d]
<1> DEFINE P == Values(Nat)
           Q == Values(FitArities)
           T == {d \in Nat : d <= Depth => Q[d] \subseteq P[d]}
<1>1. 0 \in T
  BY ValuesStep
<1>2. ASSUME NEW d \in T PROVE d + 1 \in T
  <2> SUFFICES ASSUME d + 1 <= Depth PROVE Q[d + 1] \subseteq P[d + 1]
    OBVIOUS
  <2>1. d \in Nat /\ d + 1 \in 1..Depth /\ (d + 1) - 1 = d
    BY DepthAssumption
  <2>2. Q[d] \subseteq P[d]
    BY <2>1, DepthAssumption
  <2> HIDE DEF T
  <2>3. P[d + 1] = ValuesOf(Nat, P[d])
    BY <2>1, ValuesStep
  <2>4. Q[d + 1] = ValuesOf(FitArities, Q[d])
    BY <2>1, ValuesStep
  <2> HIDE DEF P, Q
  <2>5. FitArities \subseteq Nat
    BY DEF FitArities
  <2>6. Tuples(FitArities, Q[d]) \subseteq Tuples(Nat, P[d])
    BY <2>2, <2>5, TuplesGrow
  <2>7. Lists(Q[d]) \subseteq Lists(P[d])
    BY <2>2, ListsGrow
  <2> QED
    BY <2>3, <2>4, <2>6, <2>7 DEF ValuesOf, Lists
<1> HIDE DEF T
<1>3. T = Nat
  BY <1>1, <1>2, SetInduction DEF T
<1> QED
  BY <1>3, DepthAssumption DEF T

-----------------------------------------------------------------------------
\* What vm_readk does, by kinds.
MaskOrElse(m, pathid, list, atom, number, ident, tuple, other) ==
    CASE m = TYPE_PATHID -> pathid [] m = TYPE_LIST -> list [] m = TYPE_ATOM -> atom [] m = TYPE_NUMBER -> number
      [] m \in {TYPE_ANY, TYPE_VAR} -> ident [] m = TYPE_TUPLE -> tuple [] OTHER -> other

LEMMA MaskOrElseFacts ==
    \A pathid, list, atom, number, ident, tuple, other :
      /\ MaskOrElse(TYPE_PATHID, pathid, list, atom, number, ident, tuple, other) = pathid
      /\ MaskOrElse(TYPE_LIST, pathid, list, atom, number, ident, tuple, other) = list
      /\ MaskOrElse(TYPE_ATOM, pathid, list, atom, number, ident, tuple, other) = atom
      /\ MaskOrElse(TYPE_NUMBER, pathid, list, atom, number, ident, tuple, other) = number
      /\ MaskOrElse(TYPE_TUPLE, pathid, list, atom, number, ident, tuple, other) = tuple
      /\ \A m \in {TYPE_VAR, TYPE_ANY} : MaskOrElse(m, pathid, list, atom, number, ident, tuple, other) = ident
BY DEF MaskOrElse, TYPE_ANY, TYPE_VAR, TYPE_ATOM, TYPE_TUPLE, TYPE_NUMBER, TYPE_LIST, TYPE_PATHID

PathIDConstant(f, m, k) ==
    Tagged(ReadText(f, m.p), [PathID(m.x, ReadText(f, m.p).x) EXCEPT !.t = k])
ListConstant(f, rd, z, k) ==
    IF z.p = 0 THEN Crash
    ELSE Tagged(ReadMany(f, rd, z.x, z.p), [List(ReadConsed(ReadMany(f, rd, z.x, z.p).x)) EXCEPT !.t = k])
AtomConstant(m, k) == Tagged(m, [Atom(m.x) EXCEPT !.t = k])
NumberConstant(n, k) == Tagged(n, [Number(n.x) EXCEPT !.t = k])
IdentConstant(i, k) == Tagged(i, Ident(k, i.x))
TupleConstant(f, rd, i, k) ==
    IF i.p = 0 THEN Crash
    ELSE Tagged(ReadMany(f, rd, i.x, i.p), [Tuple(Signed8(i.x), ReadMany(f, rd, i.x, i.p).x) EXCEPT !.t = k])

\* There is a tag k, and a value behind it.
ReadsTag(f, p, q, k) == q # 0 /\ ReadByte(f, p) = At(q, k)

LEMMA ConstantAtKinds ==
    ASSUME NEW f, NEW rd, NEW p, NEW q, NEW k, ReadsTag(f, p, q, k)
    PROVE  /\ k = TYPE_PATHID => ConstantAt(f, rd, p) = PathIDConstant(f, ReadText(f, q), k)
           /\ k = TYPE_LIST => ConstantAt(f, rd, p) = ListConstant(f, rd, ReadSize(f, q), k)
           /\ k = TYPE_ATOM => ConstantAt(f, rd, p) = AtomConstant(ReadText(f, q), k)
           /\ k = TYPE_NUMBER => ConstantAt(f, rd, p) = NumberConstant(ReadInt(f, q), k)
           /\ k = TYPE_TUPLE => ConstantAt(f, rd, p) = TupleConstant(f, rd, ReadByte(f, q), k)
           /\ k \in IdentTypes => ConstantAt(f, rd, p) = IdentConstant(ReadByte(f, q), k)
<1>1. PICK t : t = ReadByte(f, p)
  OBVIOUS
<1>2. t.p = q /\ t.x = k /\ q # 0
  BY <1>1, AtParts DEF ReadsTag
<1>3. PICK m : m = Masked(k)
  OBVIOUS
<1>4. PICK a : a = PathIDConstant(f, ReadText(f, q), k)
  OBVIOUS
<1>5. PICK b : b = ListConstant(f, rd, ReadSize(f, q), k)
  OBVIOUS
<1>6. PICK c : c = AtomConstant(ReadText(f, q), k)
  OBVIOUS
<1>7. PICK d : d = NumberConstant(ReadInt(f, q), k)
  OBVIOUS
<1>8. PICK e : e = IdentConstant(ReadByte(f, q), k)
  OBVIOUS
<1>9. PICK g : g = TupleConstant(f, rd, ReadByte(f, q), k)
  OBVIOUS
<1>10. PICK r : r = MaskOrElse(m, a, b, c, d, e, g, Crash)
  OBVIOUS
<1>11. ConstantAt(f, rd, p) = r
  BY <1>1, <1>2, <1>3, <1>4, <1>5, <1>6, <1>7, <1>8, <1>9, <1>10, Zenon
  DEF ConstantAt, MaskOrElse, PathIDConstant, ListConstant, AtomConstant, NumberConstant, IdentConstant, TupleConstant
<1>12. /\ m = TYPE_PATHID => r = a
       /\ m = TYPE_LIST => r = b
       /\ m = TYPE_ATOM => r = c
       /\ m = TYPE_NUMBER => r = d
       /\ m = TYPE_TUPLE => r = g
       /\ m \in {TYPE_VAR, TYPE_ANY} => r = e
  BY <1>10, MaskOrElseFacts
<1>13. /\ k = TYPE_PATHID => r = a
       /\ k = TYPE_LIST => r = b
       /\ k = TYPE_ATOM => r = c
       /\ k = TYPE_NUMBER => r = d
       /\ k = TYPE_TUPLE => r = g
       /\ k \in IdentTypes => r = e
  BY <1>3, <1>12, MaskedFacts
<1> QED
  BY <1>4, <1>5, <1>6, <1>7, <1>8, <1>9, <1>11, <1>13, Zenon

LEMMA ConstantAtPathID ==
    ASSUME NEW f, NEW rd, NEW p, NEW q, ReadsTag(f, p, q, TYPE_PATHID)
    PROVE  ConstantAt(f, rd, p) = PathIDConstant(f, ReadText(f, q), TYPE_PATHID)
<1>1. PICK k : k = TYPE_PATHID
  OBVIOUS
<1> QED
  BY <1>1, ConstantAtKinds

LEMMA ConstantAtAtom ==
    ASSUME NEW f, NEW rd, NEW p, NEW q, ReadsTag(f, p, q, TYPE_ATOM)
    PROVE  ConstantAt(f, rd, p) = AtomConstant(ReadText(f, q), TYPE_ATOM)
<1>1. PICK k : k = TYPE_ATOM
  OBVIOUS
<1> QED
  BY <1>1, ConstantAtKinds

LEMMA ConstantAtIdent ==
    ASSUME NEW f, NEW rd, NEW p, NEW q, NEW k, k \in IdentTypes, ReadsTag(f, p, q, k)
    PROVE  ConstantAt(f, rd, p) = IdentConstant(ReadByte(f, q), k)
BY ConstantAtKinds

\* A tag is written over what it already is.
LEMMA TagsStay ==
    /\ \A m, x : [PathID(m, x) EXCEPT !.t = TYPE_PATHID] = PathID(m, x)
    /\ \A x : [List(x) EXCEPT !.t = TYPE_LIST] = List(x)
    /\ \A x : [Atom(x) EXCEPT !.t = TYPE_ATOM] = Atom(x)
    /\ \A x : [Number(x) EXCEPT !.t = TYPE_NUMBER] = Number(x)
    /\ \A m, x : [Tuple(m, x) EXCEPT !.t = TYPE_TUPLE] = Tuple(m, x)
BY DEF PathID, List, Atom, Number, Tuple

-----------------------------------------------------------------------------
\* A constant is read as it was written.
LEMMA ConstantAtRound ==
    ASSUME NEW f \in Seq(ByteType), NEW rd, NEW p \in Nat, NEW xs, NEW dump,
           Written(xs, dump),
           NEW q, q = p + 1, ReadsAll(f, rd, q, xs, dump),
           NEW v \in ValuesOf(FitArities, xs), Holds(f, p, ConstantBytes(v, dump))
    PROVE  ConstantAt(f, rd, p) = At(p + Len(ConstantBytes(v, dump)), v)
<1>0. PICK w : w = ConstantBytes(v, dump)
  OBVIOUS
<1>a. ASSUME NEW n \in ByteType, NEW z \in Seq(ByteType), w = Led(n, z)
      PROVE  /\ q \in Nat \ {0} /\ q # 0 /\ ReadByte(f, p) = At(q, n) /\ Holds(f, q, z)
             /\ Len(w) = 1 + Len(z) /\ Len(z) \in Nat
  <2>1. Holds(f, p, Led(n, z))
    BY <1>0, <1>a
  <2>2. n \in Int
    BY BaseFacts DEF ByteType
  <2>3. Len(w) = 1 + Len(z)
    BY <1>a, <2>2, LedFacts
  <2>4. p + 1 \in Nat \ {0} /\ ReadByte(f, p) = At(p + 1, n) /\ Holds(f, p + 1, z)
    BY <2>1, ReadByteFirst
  <2> QED
    BY <2>3, <2>4
<1>b. /\ TYPE_NUMBER \in ByteType /\ TYPE_ATOM \in ByteType /\ TYPE_TUPLE \in ByteType
      /\ TYPE_LIST \in ByteType /\ TYPE_PATHID \in ByteType
  BY TypesAreBytes
<1> SUFFICES ConstantAt(f, rd, p) = At(p + Len(w), v)
  BY <1>0
<1>1. CASE v.t \in IdentTypes /\ v.ident \in ByteType /\ v = Ident(v.t, v.ident)
  <2>1. PICK k, n : k = v.t /\ n = v.ident
    OBVIOUS
  <2>2. k \in ByteType /\ k \in IdentTypes /\ n \in ByteType /\ n \in Int
    BY <1>1, <2>1, MaskedFacts, BaseFacts DEF ByteType
  <2>3. PICK z : z = Byte(n)
    OBVIOUS
  <2>4. z \in Seq(ByteType)
    BY <2>2, <2>3, ByteFacts
  <2>5. Len(z) = 1
    BY <2>2, <2>3, ByteFacts
  <2>6. w = Led(k, z)
    BY <1>0, <1>1, <2>1, <2>3, ConstantBytesKinds
  <2>7. q \in Nat \ {0} /\ q # 0 /\ ReadByte(f, p) = At(q, k) /\ Holds(f, q, z) /\ Len(w) = 1 + Len(z)
    BY <1>a, <2>2, <2>4, <2>6
  <2>8. ReadByte(f, q) = At(q + 1, n)
    BY <2>2, <2>3, <2>7, ReadByteRound
  <2>9. ConstantAt(f, rd, p) = IdentConstant(ReadByte(f, q), k)
    <3>1. q # 0
      BY <2>7
    <3>2. ReadByte(f, p) = At(q, k)
      BY <2>7
    <3>3. ReadsTag(f, p, q, k)
      BY <3>1, <3>2 DEF ReadsTag
    <3> QED
      BY <2>2, <3>3, ConstantAtIdent
  <2>10. IdentConstant(ReadByte(f, q), k) = At(q + 1, Ident(k, n))
    <3>1. q + 1 # 0
      BY <2>7
    <3> QED
      BY <2>8, <3>1, AtParts, TaggedAt DEF IdentConstant
  <2>11. q + 1 = p + Len(w)
    BY <2>5, <2>7
  <2> QED
    BY <1>1, <2>1, <2>9, <2>10, <2>11
<1>2. CASE v.t = TYPE_NUMBER /\ v.number \in IntType /\ v = Number(v.number)
  <2>1. PICK n : n = v.number
    OBVIOUS
  <2>2. PICK z : z = Bytes(4, n)
    OBVIOUS
  <2>3. n \in IntType /\ n \in Int /\ 4 \in Nat \ {0}
    BY <1>2, <2>1 DEF IntType
  <2>4. z \in Seq(ByteType)
    BY <2>2, <2>3, BytesType
  <2>5. Len(z) = 4
    BY <2>2, <2>3, BytesType
  <2>6. w = Led(TYPE_NUMBER, z)
    BY <1>0, <1>2, <2>1, <2>2, ConstantBytesKinds
  <2>7. /\ q \in Nat \ {0} /\ q # 0 /\ ReadByte(f, p) = At(q, TYPE_NUMBER) /\ Holds(f, q, z)
        /\ Len(w) = 1 + Len(z)
    BY <1>a, <1>b, <2>4, <2>6
  <2>8. ReadInt(f, q) = At(q + 4, n)
    BY <2>2, <2>3, <2>7, ReadIntRound
  <2>9. ConstantAt(f, rd, p) = NumberConstant(ReadInt(f, q), TYPE_NUMBER)
    <3>1. q # 0
      BY <2>7
    <3>2. ReadByte(f, p) = At(q, TYPE_NUMBER)
      BY <2>7
    <3>3. ReadsTag(f, p, q, TYPE_NUMBER)
      BY <3>1, <3>2 DEF ReadsTag
    <3> QED
      BY <3>3, ConstantAtKinds
  <2>10. NumberConstant(ReadInt(f, q), TYPE_NUMBER) = At(q + 4, Number(n))
    <3>1. q + 4 # 0
      BY <2>7
    <3> QED
      BY <2>8, <3>1, AtParts, TaggedAt, TagsStay DEF NumberConstant
  <2>11. q + 4 = p + Len(w)
    BY <2>5, <2>7
  <2> QED
    BY <1>2, <2>1, <2>9, <2>10, <2>11
<1>3. CASE v.t = TYPE_ATOM /\ v.atom \in Texts /\ v = Atom(v.atom)
  <2>1. PICK a : a = v.atom
    OBVIOUS
  <2>2. a \in Texts
    BY <1>3, <2>1
  <2>3. PICK z : z = Text(a)
    OBVIOUS
  <2>4. z \in Seq(ByteType)
    BY <2>2, <2>3, TextType
  <2>5. Len(z) = Len(a) + 1
    BY <2>2, <2>3, TextType
  <2>6. w = Led(TYPE_ATOM, z)
    BY <1>0, <1>3, <2>1, <2>3, ConstantBytesKinds
  <2>7. /\ q \in Nat \ {0} /\ q # 0 /\ ReadByte(f, p) = At(q, TYPE_ATOM) /\ Holds(f, q, z)
        /\ Len(w) = 1 + Len(z) /\ Len(z) \in Nat
    BY <1>a, <1>b, <2>4, <2>6
  <2>8. ReadText(f, q) = At(q + Len(z), a)
    BY <2>2, <2>3, <2>5, <2>7, ReadTextRound
  <2>9. ConstantAt(f, rd, p) = AtomConstant(ReadText(f, q), TYPE_ATOM)
    <3>1. q # 0
      BY <2>7
    <3>2. ReadByte(f, p) = At(q, TYPE_ATOM)
      BY <2>7
    <3>3. ReadsTag(f, p, q, TYPE_ATOM)
      BY <3>1, <3>2 DEF ReadsTag
    <3> QED
      BY <3>3, ConstantAtAtom
  <2>10. AtomConstant(ReadText(f, q), TYPE_ATOM) = At(q + Len(z), Atom(a))
    <3>1. q + Len(z) # 0
      BY <2>7
    <3> QED
      BY <2>8, <3>1, AtParts, TaggedAt, TagsStay DEF AtomConstant
  <2>11. q + Len(z) = p + Len(w)
    BY <2>7
  <2> QED
    BY <1>3, <2>1, <2>9, <2>10, <2>11
<1>4. CASE v.t = TYPE_PATHID /\ v.module \in Texts /\ v.path \in Texts /\ v = PathID(v.module, v.path)
  <2>1. PICK a, c : a = v.module /\ c = v.path
    OBVIOUS
  <2>2. a \in Texts /\ c \in Texts
    BY <1>4, <2>1
  <2>3. PICK x : x = Text(a)
    OBVIOUS
  <2>4. PICK y : y = Text(c)
    OBVIOUS
  <2>5. x \in Seq(ByteType)
    BY <2>2, <2>3, TextType
  <2>6. y \in Seq(ByteType)
    BY <2>2, <2>4, TextType
  <2>7. Len(x) = Len(a) + 1 /\ Len(y) = Len(c) + 1
    BY <2>2, <2>3, <2>4, TextType
  <2>8. PICK z : z = Both(x, y)
    OBVIOUS
  <2>9. z \in Seq(ByteType)
    BY <2>5, <2>6, <2>8, BothFacts
  <2>10. Len(z) = Len(x) + Len(y) /\ Len(x) \in Nat /\ Len(y) \in Nat
    BY <2>5, <2>6, <2>8, BothFacts
  <2>11. w = Led(TYPE_PATHID, z)
    BY <1>0, <1>4, <2>1, <2>3, <2>4, <2>8, ConstantBytesKinds
  <2>12. /\ q \in Nat \ {0} /\ q # 0 /\ ReadByte(f, p) = At(q, TYPE_PATHID) /\ Holds(f, q, z)
         /\ Len(w) = 1 + Len(z)
    BY <1>a, <1>b, <2>9, <2>11
  <2>13. Holds(f, q, x) /\ q + Len(x) \in Nat \ {0} /\ Holds(f, q + Len(x), y)
    BY <2>5, <2>6, <2>8, <2>12, HoldsEach
  <2>14. ReadText(f, q) = At(q + Len(x), a)
    BY <2>2, <2>3, <2>7, <2>13, ReadTextRound
  <2>15. ReadText(f, q + Len(x)) = At((q + Len(x)) + Len(y), c)
    BY <2>2, <2>4, <2>7, <2>13, ReadTextRound
  <2>16. ConstantAt(f, rd, p) = PathIDConstant(f, ReadText(f, q), TYPE_PATHID)
    <3>1. q # 0
      BY <2>12
    <3>2. ReadByte(f, p) = At(q, TYPE_PATHID)
      BY <2>12
    <3>3. ReadsTag(f, p, q, TYPE_PATHID)
      BY <3>1, <3>2 DEF ReadsTag
    <3> QED
      BY <3>3, ConstantAtPathID
  <2>17. PathIDConstant(f, ReadText(f, q), TYPE_PATHID) = At((q + Len(x)) + Len(y), PathID(a, c))
    <3>1. (q + Len(x)) + Len(y) # 0
      BY <2>10, <2>13
    <3> QED
      BY <2>14, <2>15, <3>1, AtParts, TaggedAt, TagsStay DEF PathIDConstant
  <2>18. (q + Len(x)) + Len(y) = p + Len(w)
    BY <2>10, <2>12
  <2> QED
    BY <1>4, <2>1, <2>16, <2>17, <2>18
<1>5. CASE /\ v.t = TYPE_TUPLE /\ v.arity \in FitArities /\ v.members \in Seq(xs)
           /\ Len(v.members) = v.arity /\ v = Tuple(v.arity, v.members)
  <2>1. PICK ms : ms = v.members
    OBVIOUS
  <2>2. PICK n : n = v.arity
    OBVIOUS
  <2>3. ms \in Seq(xs)
    BY <1>5, <2>1
  <2>4. Len(ms) = n /\ v = Tuple(n, ms)
    BY <1>5, <2>1, <2>2
  <2>5. n \in Nat /\ n \in Int /\ n \in ByteType /\ Signed8(n) = n
    BY <1>5, <2>2, FitArity
  <2>6. ArityWritten(v) = n
    <3>1. n % Base = n
      BY <2>5, ModSmall DEF ByteType
    <3> QED
      BY <2>2, <2>5, <3>1 DEF ArityWritten
  <2>7. PICK y : y = Joint(ms, dump)
    OBVIOUS
  <2>8. y \in Seq(ByteType)
    BY <2>3, <2>7, JointType
  <2>9. y = Firsts(n, ms, dump)
    BY <2>3, <2>4, <2>7, JointType
  <2>10. PICK z : z = Led(n, y)
    OBVIOUS
  <2>11. z \in Seq(ByteType)
    BY <2>5, <2>8, <2>10, LedFacts
  <2>12. Len(z) = 1 + Len(y) /\ Len(y) \in Nat
    BY <2>5, <2>8, <2>10, LedFacts
  <2>13. w = Led(TYPE_TUPLE, z)
    BY <1>0, <1>5, <2>1, <2>6, <2>9, <2>10, ConstantBytesKinds
  <2>14. /\ q \in Nat \ {0} /\ q # 0 /\ ReadByte(f, p) = At(q, TYPE_TUPLE) /\ Holds(f, q, z)
         /\ Len(w) = 1 + Len(z)
    BY <1>a, <1>b, <2>11, <2>13
  <2>15. q + 1 \in Nat \ {0} /\ ReadByte(f, q) = At(q + 1, n) /\ Holds(f, q + 1, y)
    BY <2>5, <2>8, <2>10, <2>14, ReadByteFirst
  <2>16. ReadsAll(f, rd, q + 1, xs, dump)
    BY <2>14 DEF ReadsAll
  <2>17. ReadMany(f, rd, n, q + 1) = At((q + 1) + Len(y), ms)
    <3>1. Holds(f, q + 1, Joint(ms, dump))
      BY <2>7, <2>15
    <3>2. ReadMany(f, rd, Len(ms), q + 1) = At((q + 1) + Len(Joint(ms, dump)), ms)
      BY <2>3, <2>16, <3>1, MembersRound
    <3> QED
      BY <2>4, <2>7, <3>2
  <2>18. ConstantAt(f, rd, p) = TupleConstant(f, rd, ReadByte(f, q), TYPE_TUPLE)
    <3>1. q # 0
      BY <2>14
    <3>2. ReadByte(f, p) = At(q, TYPE_TUPLE)
      BY <2>14
    <3>3. ReadsTag(f, p, q, TYPE_TUPLE)
      BY <3>1, <3>2 DEF ReadsTag
    <3> QED
      BY <3>3, ConstantAtKinds
  <2>19. TupleConstant(f, rd, ReadByte(f, q), TYPE_TUPLE) = At((q + 1) + Len(y), Tuple(n, ms))
    <3>1. q + 1 # 0 /\ (q + 1) + Len(y) # 0
      BY <2>12, <2>14
    <3> QED
      BY <2>5, <2>15, <2>17, <3>1, AtParts, TaggedAt, TagsStay DEF TupleConstant
  <2>20. (q + 1) + Len(y) = p + Len(w)
    BY <2>12, <2>14
  <2> QED
    BY <2>4, <2>18, <2>19, <2>20
<1>6. CASE v.t = TYPE_LIST /\ v.items \in Seq(xs) /\ Len(v.items) < IntMax /\ v = List(v.items)
  <2>1. PICK items : items = v.items
    OBVIOUS
  <2>2. items \in Seq(xs)
    BY <1>6, <2>1
  <2>3. PICK l : l = Consed(items)
    OBVIOUS
  <2>4. l \in Seq(xs)
    BY <2>2, <2>3, ConsedFacts
  <2>5. Len(l) = Len(items) /\ ReadConsed(l) = items
    BY <2>2, <2>3, ConsedFacts
  <2>6. PICK n : n = Len(l)
    OBVIOUS
  <2>7. n \in 0..IntMax - 1 /\ n \in Int /\ n \in Nat /\ 8 \in Nat \ {0}
    <3>1. IntMax \in Int
      BY BaseFacts DEF IntMax
    <3>2. Len(items) \in Nat /\ Len(items) < IntMax
      BY <1>6, <2>1, <2>2
    <3> QED
      BY <2>5, <2>6, <3>1, <3>2
  <2>8. PICK x : x = Bytes(8, n)
    OBVIOUS
  <2>9. x \in Seq(ByteType)
    BY <2>7, <2>8, BytesType
  <2>10. Len(x) = 8
    BY <2>7, <2>8, BytesType
  <2>11. PICK y : y = Joint(l, dump)
    OBVIOUS
  <2>12. y \in Seq(ByteType)
    BY <2>4, <2>11, JointType
  <2>13. PICK z : z = Both(x, y)
    OBVIOUS
  <2>14. z \in Seq(ByteType)
    BY <2>9, <2>12, <2>13, BothFacts
  <2>15. Len(z) = Len(x) + Len(y) /\ Len(y) \in Nat
    BY <2>9, <2>12, <2>13, BothFacts
  <2>16. w = Led(TYPE_LIST, z)
    BY <1>0, <1>6, <2>1, <2>3, <2>6, <2>8, <2>11, <2>13, ConstantBytesKinds
  <2>17. /\ q \in Nat \ {0} /\ q # 0 /\ ReadByte(f, p) = At(q, TYPE_LIST) /\ Holds(f, q, z)
         /\ Len(w) = 1 + Len(z)
    BY <1>a, <1>b, <2>14, <2>16
  <2>18. Holds(f, q, x) /\ Holds(f, q + Len(x), y)
    BY <2>9, <2>12, <2>13, <2>17, HoldsEach
  <2>19. ReadSize(f, q) = At(q + 8, n)
    BY <2>7, <2>8, <2>18, ReadSizeRound
  <2>20. ReadsAll(f, rd, q + 8, xs, dump)
    BY <2>17 DEF ReadsAll
  <2>21. ReadMany(f, rd, n, q + 8) = At((q + 8) + Len(y), l)
    <3>1. Holds(f, q + 8, Joint(l, dump))
      BY <2>10, <2>11, <2>18
    <3>2. ReadMany(f, rd, Len(l), q + 8) = At((q + 8) + Len(Joint(l, dump)), l)
      BY <2>4, <2>20, <3>1, MembersRound
    <3> QED
      BY <2>6, <2>11, <3>2
  <2>22. ConstantAt(f, rd, p) = ListConstant(f, rd, ReadSize(f, q), TYPE_LIST)
    <3>1. q # 0
      BY <2>17
    <3>2. ReadByte(f, p) = At(q, TYPE_LIST)
      BY <2>17
    <3>3. ReadsTag(f, p, q, TYPE_LIST)
      BY <3>1, <3>2 DEF ReadsTag
    <3> QED
      BY <3>3, ConstantAtKinds
  <2>23. ListConstant(f, rd, ReadSize(f, q), TYPE_LIST) = At((q + 8) + Len(y), List(items))
    <3>1. q + 8 # 0 /\ (q + 8) + Len(y) # 0
      BY <2>15, <2>17
    <3> QED
      BY <2>5, <2>19, <2>21, <3>1, AtParts, TaggedAt, TagsStay DEF ListConstant
  <2>24. (q + 8) + Len(y) = p + Len(w)
    BY <2>10, <2>15, <2>17
  <2> QED
    BY <1>6, <2>1, <2>22, <2>23, <2>24
<1> QED
  BY <1>1, <1>2, <1>3, <1>4, <1>5, <1>6, ConstantKinds

\* So does vm_readk, however deep a constant nests.
ConstantsRound(f, d) ==
    \A v \in Values(FitArities)[d] : \A m \in 0..Len(f) : \A p \in Nat :
      Holds(f, p, ConstantDump[d][v]) /\ Len(f) + 1 - p <= m
        => ConstantReader(f)[m][p] = At(p + Len(ConstantDump[d][v]), v)

LEMMA ConstantsRoundNext ==
    ASSUME NEW f \in Seq(ByteType), NEW d \in Nat, d + 1 \in 1..Depth, ConstantsRound(f, d)
    PROVE  ConstantsRound(f, d + 1)
<1> DEFINE xs == Values(FitArities)[d]
           dump == ConstantDump[d]
<1>1. (d + 1) - 1 = d /\ d \in 0..Depth
  BY DepthAssumption
<1>2. Values(FitArities)[d + 1] = ValuesOf(FitArities, xs)
  BY <1>1, ValuesStep
<1>3. Written(xs, dump)
  BY <1>1, ConstantDumpType, ValuesGrow DEF Written
<1>4. \A v \in Values(FitArities)[d + 1] :
        /\ ConstantDump[d + 1][v] = ConstantBytes(v, dump)
        /\ ConstantDump[d + 1][v] \in Seq(ByteType) /\ ConstantDump[d + 1][v] # <<>>
  <2>1. SUFFICES ASSUME NEW v \in Values(FitArities)[d + 1]
                 PROVE  /\ ConstantDump[d + 1][v] = ConstantBytes(v, dump)
                        /\ ConstantDump[d + 1][v] \in Seq(ByteType) /\ ConstantDump[d + 1][v] # <<>>
    OBVIOUS
  <2>2. d + 1 \in 0..Depth
    BY DepthAssumption
  <2>3. v \in Values(Nat)[d + 1]
    BY <2>1, <2>2, ValuesGrow
  <2>4. ConstantDump[d + 1][v] = ConstantBytes(v, dump)
    BY <1>1, <2>3, ConstantDumpStep
  <2>5. ConstantDump[d + 1][v] \in Seq(ByteType) /\ ConstantDump[d + 1][v] # <<>>
    BY <2>2, <2>3, ConstantDumpType
  <2> QED
    BY <2>4, <2>5
<1>5. ASSUME NEW v \in Values(FitArities)[d + 1], NEW m \in 0..Len(f), NEW p \in Nat,
             Holds(f, p, ConstantDump[d + 1][v]), Len(f) + 1 - p <= m
      PROVE  ConstantReader(f)[m][p] = At(p + Len(ConstantDump[d + 1][v]), v)
  <2>1. PICK w : w = ConstantDump[d + 1][v]
    OBVIOUS
  <2>2. w \in Seq(ByteType)
    BY <1>4, <2>1
  <2>3. w # <<>>
    BY <1>4, <2>1
  <2>4. p \in Nat \ {0} /\ p + Len(w) <= Len(f) + 1
    BY <1>5, <2>1 DEF Holds
  <2>5. Len(w) \in Nat \ {0} /\ Len(f) \in Nat
    BY <2>2, <2>3
  <2>6. m \in 1..Len(f) /\ m - 1 \in 0..Len(f) /\ p + 1 \in Nat /\ Len(f) + 1 - (p + 1) <= m - 1
    BY <1>5, <2>4, <2>5
  <2>7. PICK rd : rd = ConstantReader(f)[m - 1]
    OBVIOUS
  <2>8. ConstantReader(f)[m][p] = ConstantAt(f, rd, p)
    BY <2>5, <2>6, <2>7, ConstantReaderStep
  <2>0. PICK r : r = p + 1
    OBVIOUS
  <2>9. ReadsAll(f, rd, r, xs, dump)
    <3>1. SUFFICES ASSUME NEW x \in xs, NEW q \in Nat, q >= p + 1, Holds(f, q, dump[x])
                   PROVE  rd[q] = At(q + Len(dump[x]), x)
      BY <2>0 DEF ReadsAll
    <3>2. Len(f) + 1 - q <= m - 1
      BY <2>5, <2>6, <3>1
    <3> QED
      BY <2>6, <2>7, <3>1, <3>2 DEF ConstantsRound
  <2>10. v \in ValuesOf(FitArities, xs)
    BY <1>2, <1>5
  <2>11. Holds(f, p, ConstantBytes(v, dump))
    BY <1>4, <1>5
  <2> HIDE DEF xs, dump
  <2>12. ConstantAt(f, rd, p) = At(p + Len(ConstantBytes(v, dump)), v)
    BY <1>3, <2>0, <2>9, <2>10, <2>11, ConstantAtRound
  <2> QED
    BY <1>4, <2>8, <2>12
<1> QED
  BY <1>5 DEF ConstantsRound

LEMMA ReadConstantsRound ==
    ASSUME NEW f \in Seq(ByteType), NEW p \in Nat \ {0}
    PROVE  ReadsAll(f, ConstantReader(f)[Len(f)], p, Values(FitArities)[Depth], ConstantDump[Depth])
<1> DEFINE T == {d \in Nat : d <= Depth => ConstantsRound(f, d)}
<1>1. 0 \in T
  BY ValuesStep DEF ConstantsRound
<1>2. ASSUME NEW d \in T PROVE d + 1 \in T
  <2> SUFFICES ASSUME d + 1 <= Depth PROVE ConstantsRound(f, d + 1)
    OBVIOUS
  <2>1. d \in Nat /\ d <= Depth /\ d + 1 \in 1..Depth
    BY DepthAssumption
  <2>2. ConstantsRound(f, d)
    BY <2>1
  <2> HIDE DEF T
  <2> QED
    BY <2>1, <2>2, ConstantsRoundNext
<1> HIDE DEF T
<1>3. T = Nat
  BY <1>1, <1>2, SetInduction DEF T
<1>4. ConstantsRound(f, Depth)
  BY <1>3, DepthAssumption DEF T
<1> SUFFICES ASSUME NEW x \in Values(FitArities)[Depth], NEW q \in Nat, q >= p,
                    Holds(f, q, ConstantDump[Depth][x])
             PROVE  ConstantReader(f)[Len(f)][q] = At(q + Len(ConstantDump[Depth][x]), x)
  BY DEF ReadsAll
<1>5. Len(f) \in 0..Len(f) /\ Len(f) + 1 - q <= Len(f)
  <2>1. q # 0 /\ Len(f) \in Nat
    OBVIOUS
  <2> QED
    BY <2>1
<1> QED
  BY <1>4, <1>5 DEF ConstantsRound

-----------------------------------------------------------------------------
\* Instructions are read as they were written.
Instructions(code) == FlattenSeq([i \in 1..Len(code) |-> Bytes(4, code[i])])

LEMMA InstructionsParts ==
    ASSUME NEW code \in Seq(IntType)
    PROVE  \E ss : /\ ss \in Seq(Seq(ByteType)) /\ Len(ss) = Len(code)
                   /\ Instructions(code) = FlattenSeq(ss)
                   /\ \A i \in 1..Len(ss) : ss[i] = Bytes(4, code[i]) /\ Len(ss[i]) = 4
<1>1. PICK ss : ss = [i \in 1..Len(code) |-> Bytes(4, code[i])]
  OBVIOUS
<1>2. ASSUME NEW i \in 1..Len(code) PROVE Bytes(4, code[i]) \in Seq(ByteType) /\ Len(Bytes(4, code[i])) = 4
  <2>1. PICK n : n = code[i]
    OBVIOUS
  <2>2. n \in IntType
    BY <2>1
  <2>3. n \in Int /\ 4 \in Nat \ {0}
    BY <2>2 DEF IntType
  <2>4. Bytes(4, n) \in Seq(ByteType) /\ Len(Bytes(4, n)) = 4
    BY <2>3, BytesType
  <2> QED
    BY <2>1, <2>4
<1>3. ss \in Seq(Seq(ByteType)) /\ Len(ss) = Len(code)
  BY <1>1, <1>2
<1>4. \A i \in 1..Len(ss) : ss[i] = Bytes(4, code[i]) /\ Len(ss[i]) = 4
  BY <1>1, <1>2, <1>3
<1>5. Instructions(code) = FlattenSeq(ss)
  BY <1>1 DEF Instructions
<1> QED
  BY <1>3, <1>4, <1>5

LEMMA InstructionsType ==
    ASSUME NEW code \in Seq(IntType)
    PROVE  Instructions(code) \in Seq(ByteType)
<1>1. PICK ss : ss \in Seq(Seq(ByteType)) /\ Instructions(code) = FlattenSeq(ss)
  BY InstructionsParts
<1> QED
  BY <1>1, FlattenType

LEMMA ReadCodeRound ==
    ASSUME NEW f \in Seq(ByteType), NEW code \in Seq(IntType), NEW p, Holds(f, p, Instructions(code))
    PROVE  ReadCode(f, p, Len(code)) = At(p + Len(Instructions(code)), code)
<1>1. PICK ss : /\ ss \in Seq(Seq(ByteType)) /\ Len(ss) = Len(code)
                /\ Instructions(code) = FlattenSeq(ss)
                /\ \A i \in 1..Len(ss) : ss[i] = Bytes(4, code[i]) /\ Len(ss[i]) = 4
  BY InstructionsParts
<1>2. PICK n : n = Len(ss)
  OBVIOUS
<1>3. n \in Nat /\ Len(code) = n /\ n \in 0..n
  BY <1>1, <1>2
<1>4. ss \in Seq(Seq(ByteType)) /\ Holds(f, p, FlattenSeq(ss))
  BY <1>1
<1>5. PICK o : Parted(f, p, ss, o) /\ o[Len(ss)] = p + Len(FlattenSeq(ss))
  BY <1>4, HoldsParts
<1>6. p \in Nat \ {0}
  BY DEF Holds
<1> DEFINE T == {i \in Nat : i <= n => o[i] = p + 4 * i}
<1>7. 0 \in T
  <2>1. o[0] = p
    BY <1>5 DEF Parted
  <2>2. p + 4 * 0 = p
    BY <1>6
  <2> QED
    BY <2>1, <2>2
<1>8. ASSUME NEW i \in T PROVE i + 1 \in T
  <2> SUFFICES ASSUME i + 1 <= n PROVE o[i + 1] = p + 4 * (i + 1)
    OBVIOUS
  <2>1. i \in Nat /\ o[i] = p + 4 * i /\ i + 1 \in 1..n /\ (i + 1) - 1 = i
    BY <1>3
  <2> HIDE DEF T
  <2>2. o[i + 1] = o[i] + Len(ss[i + 1])
    BY <1>2, <1>5, <2>1 DEF Parted
  <2>3. Len(ss[i + 1]) = 4
    BY <1>1, <1>2, <2>1
  <2>4. p + 4 * (i + 1) = (p + 4 * i) + 4
    BY <1>6, <2>1
  <2> QED
    BY <2>1, <2>2, <2>3, <2>4
<1> HIDE DEF T
<1>9. T = Nat
  BY <1>7, <1>8, SetInduction DEF T
<1>10. \A i \in 0..n : o[i] = p + 4 * i
  BY <1>3, <1>9 DEF T
<1>11. p + 4 * n = p + Len(Instructions(code))
  BY <1>1, <1>2, <1>3, <1>5, <1>10
<1>12. There(f, p, 4 * n)
  <2>1. p + Len(Instructions(code)) <= Len(f) + 1
    BY DEF Holds
  <2> QED
    BY <1>6, <1>11, <2>1 DEF There
<1>13. ASSUME NEW i \in 1..n PROVE ReadInt(f, p + 4 * (i - 1)).x = code[i]
  <2>1. i - 1 \in 0..n
    BY <1>3
  <2>2. Holds(f, o[i - 1], ss[i])
    BY <1>2, <1>5 DEF Parted
  <2>3. ss[i] = Bytes(4, code[i])
    BY <1>1, <1>2
  <2>4. PICK m : m = code[i]
    OBVIOUS
  <2>5. m \in IntType
    BY <1>3, <2>4
  <2>6. PICK q : q = p + 4 * (i - 1)
    OBVIOUS
  <2>7. Holds(f, q, Bytes(4, m))
    BY <1>10, <2>1, <2>2, <2>3, <2>4, <2>6
  <2>8. ReadInt(f, q) = At(q + 4, m)
    BY <2>5, <2>7, ReadIntRound
  <2> QED
    BY <2>4, <2>6, <2>8, AtParts
<1>14. PICK g : g = [i \in 1..n |-> ReadInt(f, p + 4 * (i - 1)).x]
  OBVIOUS
<1>15. g = code
  <2>1. g = [i \in 1..n |-> code[i]]
    BY <1>13, <1>14
  <2> QED
    BY <1>3, <2>1
<1>16. ReadCode(f, p, n) = At(p + 4 * n, g)
  BY <1>12, <1>14 DEF ReadCode
<1> QED
  BY <1>3, <1>11, <1>15, <1>16

-----------------------------------------------------------------------------
\* A clause is written as bytes: what is ahead of its constants, they, and its
\* code.
WideClauses == Clauses(Parameters(Texts, Nat)[Depth], Values(Nat)[Depth])

Ahead(c) == Both(Both(DumpNode(c.pattern), Byte(c.nlocals)), Byte(Len(c.constants)))
Rows(c) == Joint(c.constants, ConstantDump[Depth])
UpToCode(c) == Both(Both(Ahead(c), Rows(c)), Bytes(8, Len(c.code)))

LEMMA DumpClauseParts == \A c : DumpClause(c) = Both(UpToCode(c), Instructions(c.code))
BY DEF DumpClause, UpToCode, Ahead, Rows, Both, Joint, DumpConstant, Instructions

LEMMA ClauseFields ==
    ASSUME NEW ps, NEW vs, NEW c \in Clauses(ps, vs)
    PROVE  /\ c.pattern \in ps /\ c.nlocals \in ByteType
           /\ c.constants \in Seq(vs) /\ c.code \in Seq(IntType)
           /\ c = [pattern |-> c.pattern, nlocals |-> c.nlocals, constants |-> c.constants, code |-> c.code]
BY DEF Clauses

LEMMA ConstantsWritten == Written(Values(Nat)[Depth], ConstantDump[Depth])
<1>1. Depth \in 0..Depth
  BY DepthAssumption
<1> QED
  BY <1>1, ConstantDumpType DEF Written

LEMMA ClauseTypes ==
    ASSUME NEW c \in WideClauses
    PROVE  /\ DumpNode(c.pattern) \in Seq(ByteType)
           /\ Byte(c.nlocals) \in Seq(ByteType) /\ Len(Byte(c.nlocals)) = 1
           /\ Byte(Len(c.constants)) \in Seq(ByteType) /\ Len(Byte(Len(c.constants))) = 1
           /\ Rows(c) \in Seq(ByteType)
           /\ Bytes(8, Len(c.code)) \in Seq(ByteType) /\ Len(Bytes(8, Len(c.code))) = 8
           /\ Instructions(c.code) \in Seq(ByteType)
<1>1. PICK v, n, ks, code : v = c.pattern /\ n = c.nlocals /\ ks = c.constants /\ code = c.code
  OBVIOUS
<1>2. PICK vs : vs = Values(Nat)[Depth]
  OBVIOUS
<1>3. v \in Parameters(Texts, Nat)[Depth] /\ n \in ByteType /\ ks \in Seq(vs) /\ code \in Seq(IntType)
  BY <1>1, <1>2, ClauseFields DEF WideClauses
<1>4. Depth \in 0..Depth
  BY DepthAssumption
<1>5. DumpNode(v) \in Seq(ByteType)
  BY <1>3, <1>4, NodeDumpType DEF DumpNode
<1>6. n \in Int /\ Len(ks) \in Int /\ Len(code) \in Int /\ 8 \in Nat \ {0}
  BY <1>3, BaseFacts DEF ByteType
<1>7. Byte(n) \in Seq(ByteType) /\ Len(Byte(n)) = 1
  BY <1>6, ByteFacts
<1>8. Byte(Len(ks)) \in Seq(ByteType) /\ Len(Byte(Len(ks))) = 1
  BY <1>6, ByteFacts
<1>9. Joint(ks, ConstantDump[Depth]) \in Seq(ByteType)
  BY <1>2, <1>3, ConstantsWritten, JointType
<1>10. Bytes(8, Len(code)) \in Seq(ByteType) /\ Len(Bytes(8, Len(code))) = 8
  BY <1>6, BytesType
<1>11. Instructions(code) \in Seq(ByteType)
  BY <1>3, InstructionsType
<1> QED
  BY <1>1, <1>5, <1>7, <1>8, <1>9, <1>10, <1>11 DEF Rows

LEMMA DumpClauseType ==
    ASSUME NEW c \in WideClauses
    PROVE  DumpClause(c) \in Seq(ByteType)
<1>1. PICK a, b, d, e, g, h : /\ a = DumpNode(c.pattern) /\ b = Byte(c.nlocals) /\ d = Byte(Len(c.constants))
                              /\ e = Rows(c) /\ g = Bytes(8, Len(c.code)) /\ h = Instructions(c.code)
  OBVIOUS
<1>2. a \in Seq(ByteType) /\ b \in Seq(ByteType) /\ d \in Seq(ByteType)
  BY <1>1, ClauseTypes
<1>3. e \in Seq(ByteType) /\ g \in Seq(ByteType) /\ h \in Seq(ByteType)
  BY <1>1, ClauseTypes
<1>4. Both(a, b) \in Seq(ByteType)
  BY <1>2, BothFacts
<1>5. Both(Both(a, b), d) \in Seq(ByteType)
  BY <1>2, <1>4, BothFacts
<1>6. Both(Both(Both(a, b), d), e) \in Seq(ByteType)
  BY <1>3, <1>5, BothFacts
<1>7. Both(Both(Both(Both(a, b), d), e), g) \in Seq(ByteType)
  BY <1>3, <1>6, BothFacts
<1>8. Both(Both(Both(Both(Both(a, b), d), e), g), h) \in Seq(ByteType)
  BY <1>3, <1>7, BothFacts
<1>9. DumpClause(c) = Both(UpToCode(c), Instructions(c.code))
  BY DumpClauseParts
<1> QED
  BY <1>1, <1>8, <1>9, Zenon DEF UpToCode, Ahead

-----------------------------------------------------------------------------
\* A clause within the limits is read as it was written.
FitClauses ==
    {c \in Clauses(Parameters(FitTexts, FitArities)[Depth], Values(FitArities)[Depth]) :
       Len(c.code) < IntMax /\ Len(c.constants) < Base}

LEMMA FitClausesGrow == FitClauses \subseteq WideClauses
<1>1. PICK p1, p2, v1, v2 : /\ p1 = Parameters(FitTexts, FitArities)[Depth] /\ p2 = Parameters(Texts, Nat)[Depth]
                            /\ v1 = Values(FitArities)[Depth] /\ v2 = Values(Nat)[Depth]
  OBVIOUS
<1>2. Depth \in 0..Depth
  BY DepthAssumption
<1>3. p1 \subseteq p2
  BY <1>1, <1>2, ParametersGrow
<1>4. v1 \subseteq v2
  BY <1>1, <1>2, ValuesGrow
<1>5. SUFFICES ASSUME NEW c \in Clauses(p1, v1) PROVE c \in Clauses(p2, v2)
  BY <1>1 DEF FitClauses, WideClauses
<1>6. /\ c.pattern \in p1 /\ c.nlocals \in ByteType /\ c.constants \in Seq(v1) /\ c.code \in Seq(IntType)
      /\ c = [pattern |-> c.pattern, nlocals |-> c.nlocals, constants |-> c.constants, code |-> c.code]
  BY ClauseFields
<1>7. c.constants \in Seq(v2)
  BY <1>4, <1>6, SeqGrows
<1> QED
  BY <1>3, <1>6, <1>7 DEF Clauses

\* vm_readclause gives the clause that dump_clause wrote, and stops where it ended,
\* whatever is behind it: its pattern, its constants, at any depth, and its code.
THEOREM ReadClauseRound ==
    ASSUME NEW f \in Seq(ByteType), NEW c \in FitClauses, NEW p, Holds(f, p, DumpClause(c))
    PROVE  ReadClauseAt(f, p) = At(p + Len(DumpClause(c)), c)
<1>1. PICK v, n, ks, code : v = c.pattern /\ n = c.nlocals /\ ks = c.constants /\ code = c.code
  OBVIOUS
<1>2. PICK vs : vs = Values(FitArities)[Depth]
  OBVIOUS
<1>3. /\ v \in Parameters(FitTexts, FitArities)[Depth] /\ n \in ByteType /\ ks \in Seq(vs) /\ code \in Seq(IntType)
      /\ c = [pattern |-> v, nlocals |-> n, constants |-> ks, code |-> code]
  <2>1. c \in Clauses(Parameters(FitTexts, FitArities)[Depth], vs)
    BY <1>2 DEF FitClauses
  <2> QED
    BY <1>1, <2>1, ClauseFields
<1>4. Len(ks) \in ByteType
  <2>1. Len(ks) \in Nat /\ Len(ks) < Base
    BY <1>1, <1>3 DEF FitClauses
  <2> QED
    BY <2>1, BaseFacts DEF ByteType
<1>5. Len(code) \in 0..IntMax - 1
  <2>1. Len(code) \in Nat /\ Len(code) < IntMax
    BY <1>1, <1>3 DEF FitClauses
  <2>2. IntMax \in Int
    BY BaseFacts DEF IntMax
  <2> QED
    BY <2>1, <2>2
<1>6. PICK a, b, d, e, g, h : /\ a = DumpNode(v) /\ b = Byte(n) /\ d = Byte(Len(ks))
                              /\ e = Joint(ks, ConstantDump[Depth]) /\ g = Bytes(8, Len(code)) /\ h = Instructions(code)
  OBVIOUS
<1>7. c \in WideClauses
  BY FitClausesGrow
<1>8. a \in Seq(ByteType) /\ b \in Seq(ByteType) /\ d \in Seq(ByteType)
  BY <1>1, <1>6, <1>7, ClauseTypes
<1>9. e \in Seq(ByteType) /\ g \in Seq(ByteType) /\ h \in Seq(ByteType)
  BY <1>1, <1>6, <1>7, ClauseTypes DEF Rows
<1>10. Len(b) = 1 /\ Len(d) = 1 /\ Len(g) = 8
  BY <1>1, <1>6, <1>7, ClauseTypes
<1>11. PICK x1 : x1 = Both(a, b)
  OBVIOUS
<1>12. PICK x2 : x2 = Both(x1, d)
  OBVIOUS
<1>13. PICK x3 : x3 = Both(x2, e)
  OBVIOUS
<1>14. PICK x4 : x4 = Both(x3, g)
  OBVIOUS
<1>15. PICK x5 : x5 = Both(x4, h)
  OBVIOUS
<1>16. x1 \in Seq(ByteType) /\ Len(x1) = Len(a) + Len(b) /\ Len(a) \in Nat
  BY <1>8, <1>11, BothFacts
<1>17. x2 \in Seq(ByteType) /\ Len(x2) = Len(x1) + Len(d)
  BY <1>8, <1>12, <1>16, BothFacts
<1>18. x3 \in Seq(ByteType) /\ Len(x3) = Len(x2) + Len(e) /\ Len(e) \in Nat
  BY <1>9, <1>13, <1>17, BothFacts
<1>19. x4 \in Seq(ByteType) /\ Len(x4) = Len(x3) + Len(g)
  BY <1>9, <1>14, <1>18, BothFacts
<1>20. Len(x5) = Len(x4) + Len(h) /\ Len(h) \in Nat
  BY <1>9, <1>15, <1>19, BothFacts
<1>21. DumpClause(c) = x5
  <2>1. DumpClause(c) = Both(UpToCode(c), Instructions(c.code))
    BY DumpClauseParts
  <2> QED
    BY <1>1, <1>6, <1>11, <1>12, <1>13, <1>14, <1>15, <2>1, Zenon DEF UpToCode, Ahead, Rows
<1>22. Holds(f, p, x4) /\ Holds(f, p + Len(x4), h) /\ p \in Nat \ {0}
  BY <1>9, <1>15, <1>19, <1>21, HoldsEach
<1>23. Holds(f, p, x3) /\ Holds(f, p + Len(x3), g)
  BY <1>9, <1>14, <1>18, <1>22, HoldsEach
<1>24. Holds(f, p, x2) /\ Holds(f, p + Len(x2), e)
  BY <1>9, <1>13, <1>17, <1>23, HoldsEach
<1>25. Holds(f, p, x1) /\ Holds(f, p + Len(x1), d)
  BY <1>8, <1>12, <1>16, <1>24, HoldsEach
<1>26. Holds(f, p, a) /\ Holds(f, p + Len(a), b)
  BY <1>8, <1>11, <1>25, HoldsEach
<1>27. PICK q0, q1, q2, q3, q4, q5 :
         /\ q0 = p + Len(a) /\ q1 = p + Len(x1) /\ q2 = p + Len(x2) /\ q3 = p + Len(x3)
         /\ q4 = p + Len(x4) /\ q5 = p + Len(x5)
  OBVIOUS
<1>28. /\ q1 = q0 + 1 /\ q2 = q1 + 1 /\ q3 = q2 + Len(e) /\ q4 = q3 + 8 /\ q5 = q4 + Len(h)
       /\ q0 \in Nat \ {0} /\ q1 \in Nat \ {0} /\ q2 \in Nat \ {0} /\ q3 \in Nat \ {0} /\ q4 \in Nat \ {0}
       /\ q5 \in Nat \ {0}
  <2>1. PICK la, le, lh : la = Len(a) /\ le = Len(e) /\ lh = Len(h)
    OBVIOUS
  <2>2. la \in Nat /\ le \in Nat /\ lh \in Nat /\ p \in Nat \ {0}
    BY <1>16, <1>18, <1>20, <1>22, <2>1
  <2>3. PICK l1, l2, l3, l4, l5 : l1 = Len(x1) /\ l2 = Len(x2) /\ l3 = Len(x3) /\ l4 = Len(x4) /\ l5 = Len(x5)
    OBVIOUS
  <2>4. l1 = la + 1 /\ l2 = l1 + 1 /\ l3 = l2 + le /\ l4 = l3 + 8 /\ l5 = l4 + lh
    BY <1>10, <1>16, <1>17, <1>18, <1>19, <1>20, <2>1, <2>3
  <2>5. /\ q0 = p + la /\ q1 = p + l1 /\ q2 = p + l2 /\ q3 = p + l3
        /\ q4 = p + l4 /\ q5 = p + l5
    BY <1>27, <2>1, <2>3
  <2>6. /\ q1 = q0 + 1 /\ q2 = q1 + 1 /\ q3 = q2 + le /\ q4 = q3 + 8 /\ q5 = q4 + lh
    BY <2>2, <2>4, <2>5
  <2>7. /\ q0 \in Nat \ {0} /\ q1 \in Nat \ {0} /\ q2 \in Nat \ {0} /\ q3 \in Nat \ {0} /\ q4 \in Nat \ {0}
        /\ q5 \in Nat \ {0}
    BY <2>2, <2>4, <2>5
  <2> QED
    BY <2>1, <2>6, <2>7
<1>29. ReadNode(f, p) = At(q0, v)
  <2>1. p \in Nat /\ Holds(f, p, DumpNode(v))
    BY <1>6, <1>22, <1>26
  <2> QED
    BY <1>3, <1>6, <1>27, <2>1, ReadNodeRound
<1>30. ReadByte(f, q0) = At(q1, n)
  BY <1>3, <1>6, <1>26, <1>27, <1>28, ReadByteRound
<1>31. ReadByte(f, q1) = At(q2, Len(ks))
  BY <1>4, <1>6, <1>25, <1>27, <1>28, ReadByteRound
<1>32. ReadMany(f, ConstantReader(f)[Len(f)], Len(ks), q2) = At(q3, ks)
  <2>1. ReadsAll(f, ConstantReader(f)[Len(f)], q2, vs, ConstantDump[Depth])
    BY <1>2, <1>28, ReadConstantsRound
  <2>2. Written(vs, ConstantDump[Depth])
    <3>1. Depth \in 0..Depth
      BY DepthAssumption
    <3> QED
      BY <1>2, <3>1, ConstantsWritten, ValuesGrow DEF Written
  <2>3. Holds(f, q2, Joint(ks, ConstantDump[Depth]))
    BY <1>6, <1>24, <1>27
  <2>4. ReadMany(f, ConstantReader(f)[Len(f)], Len(ks), q2) = At(q2 + Len(Joint(ks, ConstantDump[Depth])), ks)
    BY <1>3, <2>1, <2>2, <2>3, MembersRound
  <2> QED
    BY <1>6, <1>28, <2>4
<1>33. ReadSize(f, q3) = At(q4, Len(code))
  BY <1>5, <1>6, <1>23, <1>27, <1>28, ReadSizeRound
<1>34. ReadCode(f, q4, Len(code)) = At(q5, code)
  <2>1. Holds(f, q4, Instructions(code))
    BY <1>6, <1>22, <1>27
  <2> QED
    BY <1>3, <1>6, <1>28, <2>1, ReadCodeRound
<1>35. ReadClauseAt(f, p) = At(q5, c)
  <2>1. PICK r0 : r0 = ReadNode(f, p)
    OBVIOUS
  <2>2. r0.p = q0 /\ r0.x = v
    BY <1>29, <2>1, AtParts
  <2>3. PICK r1 : r1 = ReadByte(f, r0.p)
    OBVIOUS
  <2>4. r1.p = q1 /\ r1.x = n
    BY <1>30, <2>2, <2>3, AtParts
  <2>5. PICK r2 : r2 = ReadByte(f, r1.p)
    OBVIOUS
  <2>6. r2.p = q2 /\ r2.x = Len(ks)
    BY <1>31, <2>4, <2>5, AtParts
  <2>7. PICK r3 : r3 = ReadMany(f, ConstantReader(f)[Len(f)], r2.x, r2.p)
    OBVIOUS
  <2>8. r3.p = q3 /\ r3.x = ks
    BY <1>32, <2>6, <2>7, AtParts
  <2>9. PICK r4 : r4 = ReadSize(f, r3.p)
    OBVIOUS
  <2>10. r4.p = q4 /\ r4.x = Len(code)
    BY <1>33, <2>8, <2>9, AtParts
  <2>11. PICK r5 : r5 = ReadCode(f, r4.p, r4.x)
    OBVIOUS
  <2>12. r5.p = q5 /\ r5.x = code
    BY <1>34, <2>10, <2>11, AtParts
  <2>13. r2.p # 0 /\ r3.p # 0 /\ r4.p # 0 /\ r5.p # 0
    BY <1>28, <2>6, <2>8, <2>10, <2>12
  <2>14. ReadClauseAt(f, p)
           = At(r5.p, [pattern |-> r0.x, nlocals |-> r1.x, constants |-> r3.x, code |-> r5.x])
    BY <2>1, <2>3, <2>5, <2>7, <2>9, <2>11, <2>13, Zenon DEF ReadClauseAt
  <2> QED
    BY <1>3, <2>2, <2>4, <2>8, <2>12, <2>14
<1> QED
  BY <1>21, <1>27, <1>35

-----------------------------------------------------------------------------
\* What is ahead of a path's clauses, and they.
PathHead(p) == Both(Both(Byte(Base - 1), DumpName(p.name)), Byte(Len(p.clauses)))
ClauseDumps(cs) == [i \in 1..Len(cs) |-> DumpClause(cs[i])]

LEMMA DumpPathParts == \A p : DumpPath(p) = Both(PathHead(p), FlattenSeq(ClauseDumps(p.clauses)))
BY DEF DumpPath, PathHead, ClauseDumps, Both

LEMMA SubSeqType ==
    ASSUME NEW S, NEW s \in Seq(S), NEW n \in Nat, n <= Len(s)
    PROVE  SubSeq(s, 1, n) \in Seq(S) /\ (n = Len(s) => SubSeq(s, 1, n) = s)
<1>1. SubSeq(s, 1, n) = [i \in 1..n |-> s[i]]
  <2>1. SubSeq(s, 1, n) = [i \in 1..n - 1 + 1 |-> s[i + 1 - 1]]
    OBVIOUS
  <2>2. n - 1 + 1 = n /\ \A i \in 1..n : i + 1 - 1 = i
    OBVIOUS
  <2> QED
    BY <2>1, <2>2
<1>2. \A i \in 1..n : s[i] \in S
  OBVIOUS
<1>3. s = [i \in 1..Len(s) |-> s[i]]
  OBVIOUS
<1> QED
  BY <1>1, <1>2, <1>3

LEMMA DumpNameType ==
    ASSUME NEW s \in Texts
    PROVE  /\ DumpName(s) \in Seq(ByteType)
           /\ Len(s) < Base => DumpName(s) = Led(Len(s), s)
<1>1. s \in Seq(ByteType) /\ Len(s) \in Nat
  BY TextType
<1>2. PICK n : n = IF Len(s) < Base - 1 THEN Len(s) ELSE Base - 1
  OBVIOUS
<1>3. n \in Nat /\ n <= Len(s) /\ n \in Int /\ (Len(s) < Base => n = Len(s))
  BY <1>1, <1>2, BaseFacts
<1>4. SubSeq(s, 1, n) \in Seq(ByteType) /\ (n = Len(s) => SubSeq(s, 1, n) = s)
  BY <1>1, <1>3, SubSeqType
<1>5. DumpName(s) = Led(n, SubSeq(s, 1, n))
  BY <1>2 DEF DumpName, Led
<1>6. Led(n, SubSeq(s, 1, n)) \in Seq(ByteType)
  BY <1>3, <1>4, LedFacts
<1>7. Len(s) < Base => DumpName(s) = Led(Len(s), s)
  BY <1>3, <1>4, <1>5
<1> QED
  BY <1>5, <1>6, <1>7

WidePaths == Paths(WideClauses)

LEMMA PathFields ==
    ASSUME NEW cs, NEW p \in Paths(cs)
    PROVE  p.name \in Texts /\ p.clauses \in Seq(cs) /\ p = [name |-> p.name, clauses |-> p.clauses]
BY DEF Paths

LEMMA PathHeadType ==
    ASSUME NEW p \in WidePaths
    PROVE  PathHead(p) \in Seq(ByteType)
<1>1. p.name \in Texts /\ Len(p.clauses) \in Int /\ Base - 1 \in Int
  BY PathFields, BaseFacts DEF WidePaths
<1>2. Byte(Base - 1) \in Seq(ByteType)
  BY <1>1, ByteFacts
<1>3. Byte(Len(p.clauses)) \in Seq(ByteType)
  BY <1>1, ByteFacts
<1>4. DumpName(p.name) \in Seq(ByteType)
  BY <1>1, DumpNameType
<1>5. Both(Byte(Base - 1), DumpName(p.name)) \in Seq(ByteType)
  BY <1>2, <1>4, BothFacts
<1> QED
  BY <1>3, <1>5, BothFacts DEF PathHead

LEMMA ClauseDumpsType ==
    ASSUME NEW cs \in Seq(WideClauses)
    PROVE  /\ ClauseDumps(cs) \in Seq(Seq(ByteType)) /\ Len(ClauseDumps(cs)) = Len(cs)
           /\ \A i \in 1..Len(cs) : ClauseDumps(cs)[i] = DumpClause(cs[i])
<1>1. \A i \in 1..Len(cs) : DumpClause(cs[i]) \in Seq(ByteType)
  BY DumpClauseType
<1> QED
  BY <1>1 DEF ClauseDumps

LEMMA DumpPathType ==
    ASSUME NEW p \in WidePaths
    PROVE  DumpPath(p) \in Seq(ByteType)
<1>1. p.clauses \in Seq(WideClauses)
  BY PathFields DEF WidePaths
<1>2. FlattenSeq(ClauseDumps(p.clauses)) \in Seq(ByteType)
  BY <1>1, ClauseDumpsType, FlattenType
<1>3. PathHead(p) \in Seq(ByteType)
  BY PathHeadType
<1> QED
  BY <1>2, <1>3, BothFacts, DumpPathParts

\* Where s is, it is also as a part of f.
LEMMA SubSeqHeld ==
    ASSUME NEW f \in Seq(ByteType), NEW s \in Seq(ByteType), NEW p, Holds(f, p, s)
    PROVE  SubSeq(f, p, p + Len(s) - 1) = s
<1>1. PICK n, q : n = Len(s) /\ q = p + Len(s) - 1
  OBVIOUS
<1>2. n \in Nat /\ s = [i \in 1..n |-> s[i]]
  BY <1>1
<1>3. p \in Nat \ {0} /\ p + n <= Len(f) + 1 /\ \A i \in 1..n : f[p + (i - 1)] = s[i]
  BY <1>1 DEF Holds
<1>4. q = p + n - 1 /\ q \in Nat /\ q <= Len(f)
  BY <1>1, <1>2, <1>3
<1>5. SubSeq(f, p, q) = [i \in 1..q - p + 1 |-> f[i + p - 1]]
  BY <1>3, <1>4
<1>6. q - p + 1 = n
  BY <1>2, <1>3, <1>4
<1>7. \A i \in 1..n : f[i + p - 1] = s[i]
  <2>1. SUFFICES ASSUME NEW i \in 1..n PROVE f[i + p - 1] = s[i]
    OBVIOUS
  <2>2. i + p - 1 = p + (i - 1)
    BY <1>3
  <2> QED
    BY <1>3, <2>2
<1>8. [i \in 1..q - p + 1 |-> f[i + p - 1]] = [i \in 1..n |-> s[i]]
  BY <1>6, <1>7
<1> QED
  BY <1>1, <1>2, <1>5, <1>8

\* A path's head is read as it was written, if its lengths fit into a byte.
THEOREM ReadPathRound ==
    ASSUME NEW f \in Seq(ByteType), NEW p \in WidePaths, Len(p.name) < Base, Len(p.clauses) < Base,
           NEW q, Holds(f, q, PathHead(p))
    PROVE  ReadPathAt(f, q) = At(q + Len(PathHead(p)), [name |-> p.name, nclauses |-> Len(p.clauses)])
<1>1. PICK s, n, l, k : s = p.name /\ n = Len(p.clauses) /\ l = Len(s) /\ k = Base - 1
  OBVIOUS
<1>2. s \in Texts /\ s \in Seq(ByteType) /\ n \in ByteType /\ l \in ByteType /\ k \in ByteType /\ k # 0
  <2>1. s \in Texts /\ p.clauses \in Seq(WideClauses)
    BY <1>1, PathFields DEF WidePaths
  <2>2. s \in Seq(ByteType)
    BY <2>1, TextType
  <2>3. n \in Nat /\ n < Base /\ l \in Nat /\ l < Base
    BY <1>1, <2>1, <2>2
  <2> QED
    BY <1>1, <2>1, <2>2, <2>3, BaseFacts DEF ByteType
<1>3. n \in Int /\ l \in Int /\ k \in Int
  BY <1>2, BaseFacts DEF ByteType
<1>4. PICK a, b, c : a = Byte(k) /\ b = Led(l, s) /\ c = Byte(n)
  OBVIOUS
<1>5. DumpName(s) = b
  BY <1>1, <1>2, <1>4, DumpNameType
<1>6. a \in Seq(ByteType) /\ Len(a) = 1
  BY <1>3, <1>4, ByteFacts
<1>7. b \in Seq(ByteType) /\ Len(b) = 1 + l
  BY <1>1, <1>2, <1>3, <1>4, LedFacts
<1>8. c \in Seq(ByteType) /\ Len(c) = 1
  BY <1>3, <1>4, ByteFacts
<1>9. PICK x : x = Both(a, b)
  OBVIOUS
<1>10. PICK y : y = Both(x, c)
  OBVIOUS
<1>11. PathHead(p) = y
  BY <1>1, <1>4, <1>5, <1>9, <1>10, Zenon DEF PathHead
<1>12. x \in Seq(ByteType) /\ Len(x) = Len(a) + Len(b)
  BY <1>6, <1>7, <1>9, BothFacts
<1>13. Len(y) = Len(x) + Len(c)
  BY <1>8, <1>10, <1>12, BothFacts
<1>14. Holds(f, q, x) /\ Holds(f, q + Len(x), c) /\ q \in Nat \ {0}
  BY <1>8, <1>10, <1>11, <1>12, HoldsEach
<1>15. Holds(f, q, a) /\ Holds(f, q + Len(a), b)
  BY <1>6, <1>7, <1>9, <1>14, HoldsEach
<1>16. PICK q1, q2, q3, q4 : q1 = q + 1 /\ q2 = q1 + 1 /\ q3 = q2 + l /\ q4 = q3 + 1
  OBVIOUS
<1>17. q1 = q + Len(a) /\ q3 = q + Len(x) /\ q4 = q + Len(y)
  <2>1. PICK la, lb, lc, lx, ly : la = Len(a) /\ lb = Len(b) /\ lc = Len(c) /\ lx = Len(x) /\ ly = Len(y)
    OBVIOUS
  <2>2. la = 1 /\ lb = 1 + l /\ lc = 1 /\ lx = la + lb /\ ly = lx + lc
    BY <1>6, <1>7, <1>8, <1>12, <1>13, <2>1
  <2>3. q1 = q + la /\ q3 = q + lx /\ q4 = q + ly
    BY <1>3, <1>14, <1>16, <2>2
  <2> QED
    BY <2>1, <2>3
<1>18. q1 # 0 /\ q2 # 0 /\ q4 # 0
  BY <1>2, <1>14, <1>16, BaseFacts DEF ByteType
<1>19. ReadByte(f, q) = At(q1, k)
  BY <1>2, <1>4, <1>15, <1>16, ReadByteRound
<1>20. ReadByte(f, q1) = At(q2, l) /\ Holds(f, q2, s)
  <2>1. Holds(f, q1, Led(l, s))
    BY <1>4, <1>15, <1>17
  <2> QED
    BY <1>2, <1>16, <2>1, ReadByteFirst
<1>21. ReadByte(f, q3) = At(q4, n)
  <2>1. Holds(f, q3, Byte(n))
    BY <1>4, <1>14, <1>17
  <2> QED
    BY <1>2, <1>16, <2>1, ReadByteRound
<1>22. SubSeq(f, q2, q2 + l - 1) = s
  BY <1>1, <1>2, <1>20, SubSeqHeld
<1>23. ReadPathAt(f, q) = At(q4, [name |-> s, nclauses |-> n])
  <2>1. PICK r0 : r0 = ReadByte(f, q)
    OBVIOUS
  <2>2. r0.p = q1 /\ r0.x = k
    BY <1>19, <2>1, AtParts
  <2>3. PICK r1 : r1 = ReadByte(f, r0.p)
    OBVIOUS
  <2>4. r1.p = q2 /\ r1.x = l
    BY <1>20, <2>2, <2>3, AtParts
  <2>5. PICK r2 : r2 = ReadByte(f, r1.p + r1.x)
    OBVIOUS
  <2>6. r2.p = q4 /\ r2.x = n
    BY <1>16, <1>21, <2>4, <2>5, AtParts
  <2>7. r0.p # 0 /\ r0.x # 0 /\ r1.p # 0 /\ r2.p # 0
    BY <1>2, <1>18, <2>2, <2>4, <2>6
  <2>8. ReadPathAt(f, q) = At(r2.p, [name |-> SubSeq(f, r1.p, r1.p + r1.x - 1), nclauses |-> r2.x])
    BY <2>1, <2>3, <2>5, <2>7, Zenon DEF ReadPathAt
  <2> QED
    BY <1>22, <2>4, <2>6, <2>8
<1> QED
  BY <1>1, <1>11, <1>17, <1>23

-----------------------------------------------------------------------------
\* A file: its head, and where its paths and their clauses end.
LEMMA BaseIsSmall == IntMax \in Int /\ Base < IntMax
<1>1. PICK h : h = Base \div 2
  OBVIOUS
<1>2. h \in Nat /\ h >= 2 /\ Base \in Nat /\ Base > 31
  BY <1>1, BaseFacts
<1>3. PICK x : x = Base * h
  OBVIOUS
<1>4. x \in Nat /\ x >= Base /\ x >= 2
  <2>1. Base * h >= Base * 2 /\ Base * h \in Nat
    BY <1>2
  <2> QED
    BY <1>2, <1>3, <2>1
<1>5. PICK y : y = Base * x
  OBVIOUS
<1>6. y \in Nat /\ y >= Base /\ y >= 2
  <2>1. Base * x >= Base * 2 /\ Base * x \in Nat
    BY <1>2, <1>4
  <2> QED
    BY <1>2, <1>5, <2>1
<1>7. Base * y >= Base * 2 /\ Base * y \in Nat
  BY <1>2, <1>6
<1>8. IntMax = Base * y
  BY <1>1, <1>3, <1>5 DEF IntMax
<1> QED
  BY <1>2, <1>7, <1>8

PathDumps(ps) == [i \in 1..Len(ps) |-> DumpPath(ps[i])]

LEMMA PathDumpsType ==
    ASSUME NEW ps \in Seq(WidePaths)
    PROVE  /\ PathDumps(ps) \in Seq(Seq(ByteType)) /\ Len(PathDumps(ps)) = Len(ps)
           /\ \A i \in 1..Len(ps) : PathDumps(ps)[i] = DumpPath(ps[i])
<1>1. \A i \in 1..Len(ps) : DumpPath(ps[i]) \in Seq(ByteType)
  BY DumpPathType
<1> QED
  BY <1>1 DEF PathDumps

LEMMA DumpParts ==
    \A ps : Dump(ps) = Both(Both(Both(Byte(Magic), Version), Bytes(4, Len(ps))), FlattenSeq(PathDumps(ps)))
BY DEF Dump, Both, PathDumps

LEMMA HoldsItself ==
    ASSUME NEW f \in Seq(ByteType)
    PROVE  Holds(f, 1, f)
<1>1. Len(f) \in Nat /\ 1 + Len(f) <= Len(f) + 1 /\ \A i \in 1..Len(f) : 1 + (i - 1) = i
  OBVIOUS
<1> QED
  BY <1>1 DEF Holds

LEMMA FileRound ==
    ASSUME NEW ps \in Seq(WidePaths), Len(ps) <= Base, NEW f, f = Dump(ps)
    PROVE  /\ f \in Seq(ByteType) /\ f[1] = Magic /\ ReadInt(f, 5) = At(9, Len(ps))
           /\ \E o : Parted(f, 9, PathDumps(ps), o) /\ o[Len(ps)] = Len(f) + 1
<1>1. PICK a, b, c, n : a = Byte(Magic) /\ b = Version /\ n = Len(ps) /\ c = Bytes(4, n)
  OBVIOUS
<1>2. PICK t : t = FlattenSeq(PathDumps(ps))
  OBVIOUS
<1>3. PICK x : x = Both(a, b)
  OBVIOUS
<1>4. PICK y : y = Both(x, c)
  OBVIOUS
<1>5. f = Both(y, t)
  BY <1>1, <1>2, <1>3, <1>4, DumpParts
<1>6. n \in Nat /\ n <= Base /\ n \in IntType /\ n \in Int /\ 4 \in Nat \ {0}
  <2>1. n \in Nat /\ n <= Base
    BY <1>1
  <2>2. -IntMax <= n /\ n <= IntMax - 1
    BY <2>1, BaseFacts, BaseIsSmall
  <2> QED
    BY <2>1, <2>2, BaseIsSmall DEF IntType
<1>7. Magic \in ByteType /\ Magic \in Int
  <2>1. 167 \in Int
    OBVIOUS
  <2>2. 167 % Base \in 0..Base - 1
    BY <2>1, DivMod
  <2> QED
    BY <2>2, BaseFacts DEF Magic, ByteType
<1>8. a \in Seq(ByteType) /\ Len(a) = 1 /\ a = <<Magic>>
  BY <1>1, <1>7, ByteFacts
<1>9. b \in Seq(ByteType) /\ Len(b) = 3
  <2>1. Base - 1 \in ByteType
    BY BaseFacts DEF ByteType
  <2> QED
    BY <1>1, <2>1 DEF Version
<1>10. c \in Seq(ByteType) /\ Len(c) = 4
  BY <1>1, <1>6, BytesType
<1>11. t \in Seq(ByteType)
  BY <1>2, PathDumpsType, FlattenType
<1>12. x \in Seq(ByteType) /\ Len(x) = Len(a) + Len(b)
  BY <1>3, <1>8, <1>9, BothFacts
<1>13. y \in Seq(ByteType) /\ Len(y) = Len(x) + Len(c)
  BY <1>4, <1>10, <1>12, BothFacts
<1>14. f \in Seq(ByteType) /\ Len(f) = Len(y) + Len(t) /\ Len(t) \in Nat
  BY <1>5, <1>11, <1>13, BothFacts
<1>15. 1 + Len(x) = 5 /\ 1 + Len(y) = 9
  <2>1. Len(x) = 4
    BY <1>8, <1>9, <1>12
  <2>2. Len(y) = 8
    BY <1>10, <1>13, <2>1
  <2> QED
    BY <2>1, <2>2
<1>16. Holds(f, 1, Both(y, t))
  BY <1>5, <1>14, HoldsItself
<1>17. Holds(f, 1, Both(x, c)) /\ Holds(f, 9, t)
  <2>1. Holds(f, 1, y) /\ Holds(f, 1 + Len(y), t)
    BY <1>11, <1>13, <1>14, <1>16, HoldsEach
  <2> QED
    BY <1>4, <1>15, <2>1
<1>18. Holds(f, 1, Both(a, b)) /\ Holds(f, 5, c)
  <2>1. Holds(f, 1, x) /\ Holds(f, 1 + Len(x), c)
    BY <1>10, <1>12, <1>14, <1>17, HoldsEach
  <2> QED
    BY <1>3, <1>15, <2>1
<1>19. Holds(f, 1, a)
  BY <1>8, <1>9, <1>14, <1>18, HoldsEach
<1>20. f[1] = Magic
  <2>1. Holds(f, 1, <<Magic>>)
    BY <1>8, <1>19
  <2>2. Len(<<Magic>>) = 1 /\ <<Magic>>[1] = Magic /\ 1 \in 1..1 /\ 1 + (1 - 1) = 1
    OBVIOUS
  <2> QED
    BY <2>1, <2>2 DEF Holds
<1>21. ReadInt(f, 5) = At(9, n)
  <2>1. ReadInt(f, 5) = At(5 + 4, n)
    BY <1>1, <1>6, <1>14, <1>18, ReadIntRound
  <2> QED
    BY <2>1
<1>22. \E o : Parted(f, 9, PathDumps(ps), o) /\ o[n] = Len(f) + 1
  <2>1. PICK ss : ss = PathDumps(ps)
    OBVIOUS
  <2>2. ss \in Seq(Seq(ByteType)) /\ Len(ss) = n
    BY <1>1, <2>1, PathDumpsType
  <2>3. Holds(f, 9, FlattenSeq(ss))
    BY <1>2, <1>17, <2>1
  <2>4. PICK o : Parted(f, 9, ss, o) /\ o[Len(ss)] = 9 + Len(FlattenSeq(ss))
    <3>1. PICK q : q = 9
      OBVIOUS
    <3>2. f \in Seq(ByteType) /\ ss \in Seq(Seq(ByteType)) /\ Holds(f, q, FlattenSeq(ss))
      BY <1>14, <2>2, <2>3, <3>1
    <3>3. \E o : Parted(f, q, ss, o) /\ o[Len(ss)] = q + Len(FlattenSeq(ss))
      BY <3>2, HoldsParts
    <3> QED
      BY <3>1, <3>3
  <2>5. 9 + Len(t) = Len(f) + 1
    <3>1. PICK l, m, k : l = Len(t) /\ m = Len(f) /\ k = Len(y)
      OBVIOUS
    <3>2. l \in Nat /\ 1 + k = 9 /\ m = k + l /\ k = 8
      BY <1>8, <1>9, <1>10, <1>12, <1>13, <1>14, <1>15, <3>1
    <3>3. 9 + l = m + 1
      BY <3>2
    <3> QED
      BY <3>1, <3>3
  <2> QED
    BY <1>2, <2>1, <2>2, <2>4, <2>5
<1> QED
  BY <1>1, <1>14, <1>20, <1>21, <1>22

LEMMA PathRound ==
    ASSUME NEW f \in Seq(ByteType), NEW p \in WidePaths, NEW q, Holds(f, q, DumpPath(p))
    PROVE  /\ Holds(f, q, PathHead(p))
           /\ \E u : /\ Parted(f, q + Len(PathHead(p)), ClauseDumps(p.clauses), u)
                     /\ u[Len(p.clauses)] = q + Len(DumpPath(p))
<1>1. PICK a, ss, t : a = PathHead(p) /\ ss = ClauseDumps(p.clauses) /\ t = FlattenSeq(ss)
  OBVIOUS
<1>2. p.clauses \in Seq(WideClauses)
  BY PathFields DEF WidePaths
<1>3. ss \in Seq(Seq(ByteType)) /\ Len(ss) = Len(p.clauses)
  BY <1>1, <1>2, ClauseDumpsType
<1>4. a \in Seq(ByteType) /\ t \in Seq(ByteType)
  BY <1>1, <1>3, PathHeadType, FlattenType
<1>5. DumpPath(p) = Both(a, t)
  BY <1>1, DumpPathParts
<1>6. Holds(f, q, a) /\ Holds(f, q + Len(a), t) /\ q \in Nat \ {0}
  BY <1>4, <1>5, HoldsEach
<1>7. Len(Both(a, t)) = Len(a) + Len(t) /\ Len(a) \in Nat /\ Len(t) \in Nat
  BY <1>4, BothFacts
<1>8. Holds(f, q + Len(a), FlattenSeq(ss))
  BY <1>1, <1>6
<1>9. PICK u : Parted(f, q + Len(a), ss, u) /\ u[Len(ss)] = (q + Len(a)) + Len(FlattenSeq(ss))
  BY <1>3, <1>8, HoldsParts
<1>10. (q + Len(a)) + Len(t) = q + Len(DumpPath(p))
  <2>1. PICK l, m, k : l = Len(a) /\ m = Len(t) /\ k = Len(Both(a, t))
    OBVIOUS
  <2>2. l \in Nat /\ m \in Nat /\ k = l + m /\ q \in Nat
    BY <1>6, <1>7, <2>1
  <2>3. (q + l) + m = q + k
    BY <2>2
  <2> QED
    BY <1>5, <2>1, <2>3
<1> QED
  BY <1>1, <1>3, <1>6, <1>9, <1>10
================================================================================
