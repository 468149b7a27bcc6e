-------------------------- MODULE ClauseTablesProofs --------------------------
(***************************************************************************)
(* Proofs about the table of variables and its scopes (SymTab), for any    *)
(* names, any hash function and any number of buckets, registers and       *)
(* scopes; and about the constants of a clause and the operands that name  *)
(* them and its registers (ClauseTables), for any literals.                *)
(*                                                                         *)
(* The argument, for names: since sym_prepend loses what it should         *)
(* prepend, a bucket never holds more than one entry, and that entry is    *)
(* what the generator defined (Recorded); a bucket whose name was defined  *)
(* is taken, be it by another name (Stored); and each definition has a     *)
(* register of its own, as long as nextreg has not wrapped around (Apart): *)
(* until then its counter is the number of registers taken (Counted).  The *)
(* innermost of the scopes that know a name exists because there are       *)
(* finitely many (Greatest).                                               *)
(*                                                                         *)
(* For constants: an entry of ktable is one that some call put there with  *)
(* the index it got (KRecorded), kheader only grows, so what an index held *)
(* it still holds (ConstantSound is its own invariant), and every index    *)
(* was handed out (EachHanded), which makes the limit an exact one.        *)
(***************************************************************************)
EXTENDS ClauseTables, WellFoundedInduction, SequenceTheorems, TLAPS

Entry == [name : Names, val : Nat]
Table == [0..Size - 1 -> Seq(Entry)]

\* What the generator defined in a scope: registers by name.
Scope == UNION {[D -> Nat] : D \in SUBSET Names}

\* The variables' shapes: one table for each open scope.
Shape ==
    /\ nreg \in 0..NRegs - 1
    /\ taken \in 0..MaxTaken
    /\ taken < NRegs => nreg = taken
    /\ symbols \in Seq(Table)
    /\ defined \in Seq(Scope)
    /\ Len(symbols) \in 1..MaxScopes
    /\ Len(defined) = Len(symbols)

\* A bucket holds at most one entry, of a name that was defined in its scope,
\* with the register it was given.
Recorded ==
    \A s \in 1..Len(symbols) : \A h \in 0..Size - 1 :
      symbols[s][h] # <<>> =>
        /\ Len(symbols[s][h]) = 1
        /\ Hash[symbols[s][h][1].name] = h
        /\ symbols[s][h][1].name \in DOMAIN defined[s]
        /\ symbols[s][h][1].val = defined[s][symbols[s][h][1].name]

\* The bucket of a name that was defined is taken.
Stored ==
    \A s \in 1..Len(symbols) : \A k \in DOMAIN defined[s] :
      symbols[s][Hash[k]] # <<>>

\* The registers of the open scopes have been handed out, each only once as
\* long as there were enough of them.
Apart ==
    \A s, t \in 1..Len(symbols) :
      \A k \in DOMAIN defined[s], n \in DOMAIN defined[t] :
        /\ defined[s][k] < taken /\ defined[s][k] < NRegs
        /\ taken <= NRegs /\ defined[s][k] = defined[t][n] => s = t /\ k = n

\* The inductive invariant.
IInv == Shape /\ Recorded /\ Stored /\ Apart

-----------------------------------------------------------------------------
\* A nonempty set of numbers up to n has a greatest one.
LEMMA Greatest ==
    ASSUME NEW n \in Nat, NEW S \in SUBSET (1..n), S # {}
    PROVE  \E m \in S : \A j \in S : j <= m
<1> DEFINE T == {n - j : j \in S}
           Less == {p \in Nat \X Nat : p[1] < p[2]}
<1>1. \A j \in S : j \in Nat /\ n - j \in Nat
  OBVIOUS
<1>2. T \subseteq Nat /\ T # {}
  BY <1>1, Zenon
<1>3. Less = OpToRel(<, Nat)
  BY DEF OpToRel
<1>4. IsWellFoundedOn(Less, Nat)
  BY <1>3, NatLessThanWellFounded
<1> HIDE DEF Less
<1>5. PICK x \in T : \A y \in T : ~ (<<y, x>> \in Less)
  BY <1>2, <1>4, WFMin, Zenon
<1>6. \A y \in T : ~ (y < x)
  BY <1>2, <1>5 DEF Less
<1>7. PICK m \in S : x = n - m
  BY Zenon
<1>8. \A j \in S : ~ (n - j < n - m)
  BY <1>6, <1>7
<1> QED
  BY <1>1, <1>7, <1>8

\* The empty table.
LEMMA EmptyTableIsTable ==
    /\ B!EmptyTable \in Table
    /\ \A h \in 0..Size - 1 : B!EmptyTable[h] = <<>>
BY DEF B!EmptyTable, Table

\* The counter of registers: it is the number of registers taken until that
\* is NRegs.
LEMMA Counted ==
    ASSUME Shape, NextReg
    PROVE  /\ taken \in Nat /\ nreg \in Nat /\ nreg <= taken /\ NRegs \in Nat /\ nreg < NRegs
           /\ taken' = taken + 1 /\ taken' \in 0..MaxTaken
           /\ nreg' \in 0..NRegs - 1
           /\ taken' < NRegs => nreg' = taken'
           /\ taken' <= NRegs => nreg = taken
<1>1. /\ NRegs \in Nat \ {0} /\ MaxTaken \in Nat
      /\ nreg \in 0..NRegs - 1 /\ taken \in 0..MaxTaken
      /\ taken < NRegs => nreg = taken
  BY SymTabAssumption DEF Shape
<1>2. taken < MaxTaken /\ taken' = taken + 1 /\ nreg' = (nreg + 1) % NRegs
  BY DEF NextReg
<1>3. nreg' \in 0..NRegs - 1
  BY <1>1, <1>2
<1>4. nreg + 1 < NRegs => nreg' = nreg + 1
  BY <1>1, <1>2
<1> QED
  BY <1>1, <1>2, <1>3, <1>4

\* Where symtab_insert stores the entry, and where it does not.
LEMMA Inserted ==
    ASSUME NEW t \in Table, NEW e \in Entry
    PROVE  /\ B!Insert(t, e) \in Table
           /\ \A h \in 0..Size - 1 :
                B!Insert(t, e)[h] = IF h = Hash[e.name] /\ t[h] = <<>>
                                    THEN <<e>> ELSE t[h]
<1>1. Hash[e.name] \in 0..Size - 1
  BY SymTabAssumption DEF Entry
<1>2. <<e>> \in Seq(Entry)
  OBVIOUS
<1>3. B!Insert(t, e) = [t EXCEPT ![Hash[e.name]] =
                          IF t[Hash[e.name]] # <<>> THEN t[Hash[e.name]] ELSE <<e>>]
  BY <1>1 DEF B!Insert, B!Prepend, Table
<1> QED
  BY <1>1, <1>2, <1>3 DEF Table

\* The tables and the scopes are what Shape says, one by one.
LEMMA Members ==
    ASSUME Shape, NEW s \in 1..Len(symbols)
    PROVE  /\ symbols[s] \in Table
           /\ defined[s] \in Scope
           /\ DOMAIN defined[s] \subseteq Names
           /\ \A k \in DOMAIN defined[s] :
                defined[s][k] \in Nat /\ Hash[k] \in 0..Size - 1
<1>1. symbols[s] \in Table /\ defined[s] \in Scope
  BY DEF Shape
<1>2. DOMAIN defined[s] \subseteq Names /\ \A k \in DOMAIN defined[s] : defined[s][k] \in Nat
  BY <1>1 DEF Scope
<1> QED
  BY <1>1, <1>2, SymTabAssumption

-----------------------------------------------------------------------------
\* The invariant holds initially.
LEMMA InitIInv == Init => IInv
<1> SUFFICES ASSUME Init PROVE IInv
  OBVIOUS
<1> DEFINE none == [k \in {} |-> 0]
<1>1. none \in Scope /\ DOMAIN none = {}
  BY DEF Scope
<1>2. symbols = <<B!EmptyTable>> /\ defined = <<none>> /\ nreg = 0 /\ taken = 0
  BY DEF Init
<1> HIDE DEF none
<1>3. /\ symbols \in Seq(Table) /\ Len(symbols) = 1 /\ symbols[1] = B!EmptyTable
      /\ defined \in Seq(Scope) /\ Len(defined) = 1 /\ defined[1] = none
  BY <1>1, <1>2, EmptyTableIsTable
<1>4. Shape
  BY <1>2, <1>3, SymTabAssumption DEF Shape
<1>5. Recorded
  BY <1>3, EmptyTableIsTable DEF Recorded
<1>6. Stored /\ Apart
  BY <1>1, <1>3 DEF Stored, Apart
<1> QED
  BY <1>4, <1>5, <1>6 DEF IInv

\* A scope that opens knows nothing.
LEMMA EnterScopeIInv == IInv /\ EnterScope => IInv'
<1> SUFFICES ASSUME IInv, EnterScope PROVE IInv'
  OBVIOUS
<1> DEFINE none == [k \in {} |-> 0]
           n == Len(symbols)
<1>1. none \in Scope /\ DOMAIN none = {}
  BY DEF Scope
<1>2. /\ symbols' = Append(symbols, B!EmptyTable)
      /\ defined' = Append(defined, none)
      /\ nreg' = nreg /\ taken' = taken /\ n < MaxScopes
  BY DEF EnterScope
<1>3. Shape
  BY DEF IInv
<1> HIDE DEF none
<1>4. /\ symbols' \in Seq(Table) /\ Len(symbols') = n + 1 /\ symbols'[n + 1] = B!EmptyTable
      /\ defined' \in Seq(Scope) /\ Len(defined') = n + 1 /\ defined'[n + 1] = none
      /\ \A s \in 1..n : symbols'[s] = symbols[s] /\ defined'[s] = defined[s]
  BY <1>1, <1>2, <1>3, EmptyTableIsTable DEF Shape
<1>5. \A s \in 1..n + 1 : s \in 1..n \/ s = n + 1
  BY <1>3 DEF Shape
<1>6. Shape'
  BY <1>2, <1>3, <1>4, SymTabAssumption DEF Shape
<1>7. Recorded'
  BY <1>4, <1>5, EmptyTableIsTable DEF IInv, Recorded
<1>8. Stored' /\ Apart'
  BY <1>1, <1>2, <1>4, <1>5 DEF IInv, Stored, Apart
<1> QED
  BY <1>6, <1>7, <1>8 DEF IInv

\* A scope that closes takes its names with it.
LEMMA ExitScopeIInv == IInv /\ ExitScope => IInv'
<1> SUFFICES ASSUME IInv, ExitScope PROVE IInv'
  OBVIOUS
<1> DEFINE n == Len(symbols)
<1>1. Shape
  BY DEF IInv
<1>2. /\ symbols' \in Seq(Table) /\ Len(symbols') = n - 1
      /\ defined' \in Seq(Scope) /\ Len(defined') = n - 1
      /\ \A s \in 1..n - 1 : symbols'[s] = symbols[s] /\ defined'[s] = defined[s]
      /\ nreg' = nreg /\ taken' = taken /\ n > 1
  BY <1>1 DEF ExitScope, Shape
<1>3. 1..n - 1 \subseteq 1..n
  BY <1>1 DEF Shape
<1>4. Shape'
  BY <1>1, <1>2, SymTabAssumption DEF Shape
<1>5. Recorded'
  BY <1>2, <1>3 DEF IInv, Recorded
<1>6. Stored'
  BY <1>1, <1>2, <1>3 DEF IInv, Stored
<1>7. Apart'
  <2>1. \A s \in 1..Len(symbols') : s \in 1..Len(symbols) /\ defined'[s] = defined[s]
    BY <1>1, <1>2, <1>3
  <2> SUFFICES ASSUME NEW s \in 1..Len(symbols'), NEW r \in 1..Len(symbols'),
                      NEW k \in DOMAIN defined'[s], NEW m \in DOMAIN defined'[r]
               PROVE  /\ defined'[s][k] < taken' /\ defined'[s][k] < NRegs
                      /\ taken' <= NRegs /\ defined'[s][k] = defined'[r][m] => s = r /\ k = m
    BY DEF Apart
  <2>2. /\ s \in 1..Len(symbols) /\ k \in DOMAIN defined[s] /\ defined'[s] = defined[s]
        /\ r \in 1..Len(symbols) /\ m \in DOMAIN defined[r] /\ defined'[r] = defined[r]
    BY <2>1
  <2>3. /\ defined[s][k] < taken /\ defined[s][k] < NRegs
        /\ taken <= NRegs /\ defined[s][k] = defined[r][m] => s = r /\ k = m
    <3>1. Apart
      BY Zenon DEF IInv
    <3> QED
      BY <2>2, <3>1, SMT DEF Apart
  <2> QED
    BY <1>2, <2>2, <2>3, Zenon
<1> QED
  BY <1>4, <1>5, <1>6, <1>7 DEF IInv

\* A name that no scope knows is defined in the innermost one.  Whether its
\* entry is kept or lost, its register is the next one and so nobody else's.
LEMMA DefineIInv ==
    ASSUME IInv, NEW k \in Names, Define(k)
    PROVE  IInv'
<1> DEFINE n == Len(symbols)
           e == [name |-> k, val |-> nreg]
           t == B!Insert(symbols[n], e)
           d == [m \in DOMAIN defined[n] \cup {k} |-> IF m = k THEN nreg ELSE defined[n][m]]
<1>1. Shape /\ Recorded /\ Stored /\ Apart
  BY DEF IInv
<1>2. /\ n \in Nat \ {0} /\ n \in 1..n /\ n = Len(defined)
      /\ taken \in Nat /\ nreg \in Nat /\ nreg <= taken /\ NRegs \in Nat /\ nreg < NRegs
      /\ taken' = taken + 1 /\ taken' \in 0..MaxTaken
      /\ nreg' \in 0..NRegs - 1
      /\ taken' < NRegs => nreg' = taken'
      /\ taken' <= NRegs => nreg = taken
  <2>1. NextReg
    BY Zenon DEF Define
  <2> QED
    BY <1>1, <2>1, Counted DEF Shape
<1>3. e \in Entry /\ Hash[k] \in 0..Size - 1
  BY <1>2, SymTabAssumption DEF Entry
<1>4. t \in Table /\ \A h \in 0..Size - 1 :
        t[h] = IF h = Hash[k] /\ symbols[n][h] = <<>> THEN <<e>> ELSE symbols[n][h]
  <2>1. symbols[n] \in Table
    BY <1>1, <1>2, Members
  <2> QED
    BY <1>3, <2>1, Inserted
<1>5. /\ d \in Scope
      /\ DOMAIN d = DOMAIN defined[n] \cup {k}
      /\ d[k] = nreg
      /\ \A m \in DOMAIN defined[n] \ {k} : d[m] = defined[n][m]
  <2>1. DOMAIN defined[n] \subseteq Names /\ \A m \in DOMAIN defined[n] : defined[n][m] \in Nat
    BY <1>1, <1>2, Members
  <2>2. d \in [DOMAIN defined[n] \cup {k} -> Nat]
    BY <1>2, <2>1
  <2> QED
    BY <2>1, <2>2 DEF Scope
<1>6. /\ symbols' = [symbols EXCEPT ![n] = t]
      /\ defined' = [defined EXCEPT ![n] = d]
  BY <1>2 DEF Define
\* The name was defined in no open scope, or its bucket there is taken.
<1>7. k \notin DOMAIN defined[n] \/ symbols[n][Hash[k]] # <<>>
  BY <1>1, <1>2 DEF Stored
<1> HIDE DEF t, d
<1>8. /\ symbols' \in Seq(Table) /\ Len(symbols') = n /\ symbols'[n] = t
      /\ defined' \in Seq(Scope) /\ Len(defined') = n /\ defined'[n] = d
      /\ \A s \in 1..n \ {n} : symbols'[s] = symbols[s] /\ defined'[s] = defined[s]
  BY <1>1, <1>2, <1>4, <1>5, <1>6 DEF Shape
<1>9. \A s \in 1..n : s \in 1..n \ {n} \/ s = n
  OBVIOUS
<1>10. Shape'
  BY <1>1, <1>2, <1>6, <1>8 DEF Shape
<1>11. Recorded'
  <2> SUFFICES ASSUME NEW s \in 1..n, NEW h \in 0..Size - 1, symbols'[s][h] # <<>>
               PROVE  /\ Len(symbols'[s][h]) = 1
                      /\ Hash[symbols'[s][h][1].name] = h
                      /\ symbols'[s][h][1].name \in DOMAIN defined'[s]
                      /\ symbols'[s][h][1].val = defined'[s][symbols'[s][h][1].name]
    BY <1>8 DEF Recorded
  <2>1. CASE s # n
    BY <1>1, <1>8, <2>1 DEF Recorded
  <2>2. CASE s = n /\ h = Hash[k] /\ symbols[n][h] = <<>>
    BY <1>3, <1>4, <1>5, <1>8, <2>2
  <2>3. CASE s = n /\ ~ (h = Hash[k] /\ symbols[n][h] = <<>>)
    <3>1. t[h] = symbols[n][h]
      BY <1>4, <2>3
    <3>2. /\ Len(symbols[n][h]) = 1
          /\ Hash[symbols[n][h][1].name] = h
          /\ symbols[n][h][1].name \in DOMAIN defined[n]
          /\ symbols[n][h][1].val = defined[n][symbols[n][h][1].name]
      BY <1>1, <1>2, <1>8, <2>3, <3>1 DEF Recorded
    <3>3. symbols[n][h][1].name # k
      <4>1. ~Known(k)
        BY Zenon DEF Define
      <4>2. Len(symbols[n][Hash[k]]) = 1 => symbols[n][Hash[k]][1].name # k
        BY <1>2, <4>1 DEF Known, Knowing, B!Holds, B!Positions
      <4> QED
        BY <3>2, <4>2
    <3> QED
      BY <1>5, <1>8, <2>3, <3>1, <3>2, <3>3
  <2> QED
    BY <2>1, <2>2, <2>3
<1>12. Stored'
  <2> SUFFICES ASSUME NEW s \in 1..n, NEW m \in DOMAIN defined'[s]
               PROVE  symbols'[s][Hash[m]] # <<>>
    BY <1>8 DEF Stored
  <2>1. CASE s # n
    BY <1>1, <1>8, <2>1 DEF Stored
  <2>2. CASE s = n
    <3>1. m = k \/ m \in DOMAIN defined[n]
      BY <1>5, <1>8, <2>2
    <3>2. Hash[m] \in 0..Size - 1
      BY <1>1, <1>2, <1>3, <3>1, Members
    <3>3. m = k \/ symbols[n][Hash[m]] # <<>>
      BY <1>1, <1>2, <3>1 DEF Stored
    <3>4. t[Hash[m]] # <<>>
      <4>1. CASE Hash[m] = Hash[k] /\ symbols[n][Hash[m]] = <<>>
        <5>1. t[Hash[m]] = <<e>>
          BY <1>4, <3>2, <4>1, Zenon
        <5>2. <<e>> # <<>>
          OBVIOUS
        <5> QED
          BY <5>1, <5>2, Zenon
      <4>2. CASE Hash[m] # Hash[k] /\ symbols[n][Hash[m]] # <<>>
        BY <1>4, <3>2, <4>2
      <4>3. CASE Hash[m] = Hash[k] /\ symbols[n][Hash[m]] # <<>>
        BY <1>4, <3>2, <4>3
      <4> QED
        BY <3>3, <4>1, <4>2, <4>3
    <3> QED
      BY <1>8, <2>2, <3>4
  <2> QED
    BY <2>1, <2>2
<1>13. Apart'
  <2>1. \A s \in 1..n : \A m \in DOMAIN defined'[s] :
          \/ s = n /\ m = k /\ defined'[s][m] = nreg
          \/ m \in DOMAIN defined[s] /\ defined'[s][m] = defined[s][m]
    BY <1>5, <1>8, <1>9
  <2>2. \A s \in 1..n : \A m \in DOMAIN defined[s] :
          defined[s][m] \in Nat /\ defined[s][m] < taken /\ defined[s][m] < NRegs
    BY <1>1, Members DEF Apart
  <2> SUFFICES ASSUME NEW s \in 1..n, NEW r \in 1..n,
                      NEW l \in DOMAIN defined'[s], NEW m \in DOMAIN defined'[r]
               PROVE  /\ defined'[s][l] < taken' /\ defined'[s][l] < NRegs
                      /\ taken' <= NRegs /\ defined'[s][l] = defined'[r][m] => s = r /\ l = m
    BY <1>8 DEF Apart
  <2>3. defined'[s][l] < taken' /\ defined'[s][l] < NRegs
    BY <1>2, <2>1, <2>2
  <2>4. ASSUME taken' <= NRegs, defined'[s][l] = defined'[r][m] PROVE s = r /\ l = m
    BY <1>1, <1>2, <2>1, <2>2, <2>4 DEF Apart
  <2> QED
    BY <2>3, <2>4
<1> QED
  BY <1>10, <1>11, <1>12, <1>13 DEF IInv

\* A register without a name is nobody's.
LEMMA TemporaryIInv == IInv /\ Temporary => IInv'
<1> SUFFICES ASSUME IInv, Temporary PROVE IInv'
  OBVIOUS
<1>1. Shape /\ Recorded /\ Stored /\ Apart
  BY DEF IInv
<1>2. symbols' = symbols /\ defined' = defined /\ NextReg
  BY DEF Temporary
<1>3. /\ taken \in Nat /\ NRegs \in Nat
      /\ taken' = taken + 1 /\ taken' \in 0..MaxTaken
      /\ nreg' \in 0..NRegs - 1
      /\ taken' < NRegs => nreg' = taken'
  BY <1>1, <1>2, Counted
<1>4. Shape'
  BY <1>1, <1>2, <1>3 DEF Shape
<1>5. Recorded' /\ Stored'
  BY <1>1, <1>2 DEF Recorded, Stored
<1>6. \A s \in 1..Len(symbols) : \A k \in DOMAIN defined[s] : defined[s][k] \in Nat
  BY <1>1, Members
<1>7. Apart'
  BY <1>1, <1>2, <1>3, <1>6 DEF Apart
<1> QED
  BY <1>4, <1>5, <1>7 DEF IInv

\* The invariant is inductive.
LEMMA NextIInv == IInv /\ [Next]_vars => IInv'
<1> SUFFICES ASSUME IInv, [Next]_vars PROVE IInv'
  OBVIOUS
<1>1. CASE EnterScope
  BY <1>1, EnterScopeIInv
<1>2. CASE ExitScope
  BY <1>2, ExitScopeIInv
<1>3. ASSUME NEW k \in Names, Define(k) PROVE IInv'
  BY <1>3, DefineIInv
<1>4. CASE UNCHANGED vars
  BY <1>4 DEF vars, IInv, Shape, Recorded, Stored, Apart
<1>5. CASE Temporary
  BY <1>5, TemporaryIInv
<1> QED
  BY <1>1, <1>2, <1>3, <1>4, <1>5 DEF Next

\* Every reachable state satisfies the inductive invariant.
THEOREM Invariance == Spec => []IInv
<1>1. Init => IInv
  BY InitIInv
<1>2. IInv /\ [Next]_vars => IInv'
  BY NextIInv
<1> QED
  BY <1>1, <1>2, PTL DEF Spec
-----------------------------------------------------------------------------
\* A scope holds a name when the name's bucket does, and then the register
\* found there is the one the name was given in that scope.
LEMMA HeldIsRecorded ==
    ASSUME IInv, NEW s \in 1..Len(symbols), NEW k \in Names, B!Holds(symbols[s], k)
    PROVE  /\ k \in DOMAIN defined[s]
           /\ B!ValueOf(symbols[s], k) = defined[s][k]
<1> DEFINE P == B!Positions(symbols[s], k)
<1>1. Hash[k] \in 0..Size - 1
  BY SymTabAssumption
<1>2. P = {i \in 1..Len(symbols[s][Hash[k]]) : symbols[s][Hash[k]][i].name = k} /\ P # {}
  BY Zenon DEF B!Positions, B!Holds
<1>3. symbols[s] \in Table
  BY Members DEF IInv
<1>4. symbols[s][Hash[k]] # <<>>
  <2>1. symbols[s][Hash[k]] \in Seq(Entry)
    BY <1>1, <1>3 DEF Table
  <2> QED
    BY <1>2, <2>1
<1>5. /\ Len(symbols[s][Hash[k]]) = 1
      /\ symbols[s][Hash[k]][1].name \in DOMAIN defined[s]
      /\ symbols[s][Hash[k]][1].val = defined[s][symbols[s][Hash[k]][1].name]
  BY <1>1, <1>4 DEF IInv, Recorded
<1>6. P = {1} /\ symbols[s][Hash[k]][1].name = k
  BY <1>2, <1>5
<1> HIDE DEF P
<1>7. (CHOOSE j \in P : \A l \in P : j <= l) = 1
  BY <1>6
<1> QED
  BY <1>5, <1>6, <1>7 DEF B!ValueOf, P

\* What symtab_lookup returns comes from an open scope that knows the name.
LEMMA LookupIsDefined ==
    ASSUME IInv, NEW k \in Names, Known(k)
    PROVE  \E s \in 1..Len(symbols) :
             k \in DOMAIN defined[s] /\ Lookup(k) = defined[s][k]
<1> DEFINE s == CHOOSE i \in Knowing(k) : \A j \in Knowing(k) : j <= i
<1>1. Len(symbols) \in Nat
  BY DEF IInv, Shape
<1>2. Knowing(k) \in SUBSET (1..Len(symbols)) /\ Knowing(k) # {}
  BY Zenon DEF Known, Knowing
<1>3. s \in Knowing(k)
  BY <1>1, <1>2, Greatest
<1>4. s \in 1..Len(symbols) /\ B!Holds(symbols[s], k)
  BY <1>3, Zenon DEF Knowing
<1>5. Lookup(k) = B!ValueOf(symbols[s], k)
  BY DEF Lookup
<1> HIDE DEF s
<1> QED
  BY <1>4, <1>5, HeldIsRecorded

\* Type correctness: every entry of a table is in its name's bucket, and its
\* register was handed out.
THEOREM TypeCorrect == Spec => []TypeOK
<1>1. IInv => TypeOK
  <2> SUFFICES ASSUME IInv PROVE TypeOK
    OBVIOUS
  <2>1. Shape
    BY DEF IInv
  <2>2. ASSUME NEW s \in 1..Len(symbols), NEW h \in 0..Size - 1,
               NEW i \in 1..Len(symbols[s][h])
        PROVE  /\ symbols[s][h][i].name \in Names
               /\ symbols[s][h][i].val \in 0..NRegs - 1
               /\ symbols[s][h][i].val < taken
               /\ Hash[symbols[s][h][i].name] = h
    <3>1. symbols[s] \in Table /\ DOMAIN defined[s] \subseteq Names
      BY <2>1, Members
    <3>2. symbols[s][h] # <<>>
      BY <3>1 DEF Table
    <3>3. /\ Len(symbols[s][h]) = 1
          /\ Hash[symbols[s][h][1].name] = h
          /\ symbols[s][h][1].name \in DOMAIN defined[s]
          /\ symbols[s][h][1].val = defined[s][symbols[s][h][1].name]
      BY <3>2 DEF IInv, Recorded
    <3>4. /\ defined[s][symbols[s][h][1].name] < taken
          /\ defined[s][symbols[s][h][1].name] < NRegs
      BY <3>3 DEF IInv, Apart
    <3>5. defined[s][symbols[s][h][1].name] \in Nat /\ NRegs \in Nat
      BY <2>1, <3>3, Members, SymTabAssumption DEF Shape
    <3>6. i = 1
      BY <3>3
    <3> QED
      BY <3>1, <3>3, <3>4, <3>5, <3>6
  <2>3. \A s \in 1..Len(symbols) :
          DOMAIN symbols[s] = 0..Size - 1 /\ DOMAIN defined[s] \subseteq Names
    BY <2>1, Members DEF Table
  <2> QED
    BY <2>1, <2>2, <2>3, Zenon DEF TypeOK, Shape
<1> QED
  BY <1>1, Invariance, PTL

\* symtab_lookup never returns the register of another name, or one that a
\* closed scope gave to the name.
THEOREM LookupIsSound == Spec => []LookupSound
<1>1. IInv => LookupSound
  <2> SUFFICES ASSUME IInv, NEW k \in Names, Known(k)
               PROVE  \E s \in 1..Len(defined) :
                        k \in DOMAIN defined[s] /\ defined[s][k] = Lookup(k)
    BY DEF LookupSound
  <2>1. Len(defined) = Len(symbols)
    BY DEF IInv, Shape
  <2> QED
    BY <2>1, LookupIsDefined
<1> QED
  BY <1>1, Invariance, PTL

\* Two names never denote the same register in a clause that takes at most
\* NRegs of them, and the frame holds all exactly while it takes fewer.
THEOREM RegistersAreOwned == Spec => []OwnRegister
<1>1. IInv => OwnRegister
  <2> SUFFICES ASSUME IInv PROVE OwnRegister
    OBVIOUS
  <2>1. ASSUME taken <= NRegs, NEW k \in Names, NEW n \in Names, k # n, Known(k), Known(n)
        PROVE  Lookup(k) # Lookup(n)
    <3>1. PICK s \in 1..Len(symbols) : k \in DOMAIN defined[s] /\ Lookup(k) = defined[s][k]
      BY <2>1, LookupIsDefined
    <3>2. PICK t \in 1..Len(symbols) : n \in DOMAIN defined[t] /\ Lookup(n) = defined[t][n]
      BY <2>1, LookupIsDefined
    <3>3. defined[s][k] = defined[t][n] => k = n
      BY <2>1, <3>1, <3>2 DEF IInv, Apart
    <3> QED
      BY <2>1, <3>1, <3>2, <3>3
  <2>2. FrameHolds <=> taken < NRegs
    <3>1. /\ NRegs \in Nat \ {0} /\ taken \in Nat
          /\ nreg \in 0..NRegs - 1
          /\ taken < NRegs => nreg = taken
      BY SymTabAssumption DEF IInv, Shape
    <3>2. taken < NRegs => FrameHolds
      BY <3>1 DEF FrameHolds, HandedOut
    <3>3. ASSUME FrameHolds PROVE taken < NRegs
      <4>1. taken >= NRegs => NRegs - 1 \in HandedOut
        BY <3>1 DEF HandedOut
      <4>2. ~(NRegs - 1 < nreg)
        BY <3>1
      <4> QED
        BY <3>1, <3>3, <4>1, <4>2 DEF FrameHolds
    <3> QED
      BY <3>2, <3>3
  <2> QED
    BY <2>1, <2>2, Zenon DEF OwnRegister
<1> QED
  BY <1>1, Invariance, PTL

\* A name that was defined is only lost to another name of its bucket.
THEOREM OnlyCollisionsLose == Spec => []LostByCollisionOnly
<1>1. IInv => LostByCollisionOnly
  <2> SUFFICES ASSUME IInv, NEW s \in 1..Len(defined), NEW k \in DOMAIN defined[s],
                      ~ B!Holds(symbols[s], k)
               PROVE  \E n \in Names \ {k} : Hash[n] = Hash[k] /\ B!Holds(symbols[s], n)
    BY Zenon DEF LostByCollisionOnly
  <2> DEFINE n == symbols[s][Hash[k]][1].name
  <2>1. s \in 1..Len(symbols) /\ Shape
    BY DEF IInv, Shape
  <2>2. /\ DOMAIN defined[s] \subseteq Names
        /\ Hash[k] \in 0..Size - 1
    BY <2>1, Members
  <2>3. symbols[s][Hash[k]] # <<>>
    BY <2>1 DEF IInv, Stored
  <2>4. /\ Len(symbols[s][Hash[k]]) = 1
        /\ Hash[n] = Hash[k]
        /\ n \in DOMAIN defined[s]
    BY <2>1, <2>2, <2>3 DEF IInv, Recorded
  <2> HIDE DEF n
  <2>5. B!Holds(symbols[s], n)
    BY <2>4 DEF B!Holds, B!Positions, n
  <2> QED
    BY <2>2, <2>4, <2>5, Zenon
<1> QED
  BY <1>1, Invariance, PTL

-----------------------------------------------------------------------------
(* Constants.                                                              *)

KEntry == [name : Texts, val : Nat]
Values == {l.value : l \in Literals}

\* The variables' shapes.
CTShape ==
    /\ taken \in Nat
    /\ ktable \in [0..KSize - 1 -> Seq(KEntry)]
    /\ kheader \in Seq(Values)
    /\ handed \in SUBSET [lit : Literals, index : Nat]

\* A bucket of ktable holds at most one entry: a text for which an earlier
\* call got that index, to which its value was stored.
KRecorded ==
    \A b \in 0..KSize - 1 : ktable[b] # <<>> =>
      /\ Len(ktable[b]) = 1
      /\ \E f \in handed : /\ f.lit.text = ktable[b][1].name
                           /\ f.index = ktable[b][1].val
                           /\ f.index < Len(kheader)
                           /\ kheader[f.index + 1] = f.lit.value

\* Every constant was asked for.
EachHanded == \A i \in 0..Len(kheader) - 1 : \E h \in handed : h.index = i

\* The inductive invariant.
CTInv == CTShape /\ KRecorded /\ EachHanded /\ ConstantSound

-----------------------------------------------------------------------------
\* The texts of literals, and the fields of a literal.
LEMMA LiteralFields ==
    ASSUME NEW l \in Literals
    PROVE  /\ l.value \in Values
           /\ l.text # NoText => l.text \in Texts /\ KHash[l.text] \in 0..KSize - 1
<1>1. l.value \in Values
  BY DEF Values
<1>2. l.text # NoText => l.text \in Texts
  BY DEF Texts
<1> QED
  BY <1>1, <1>2, ClauseTablesAssumption

\* The invariant holds when a clause begins.
LEMMA InitCTInv == CTInit => CTInv
<1> SUFFICES ASSUME CTInit PROVE CTInv
  OBVIOUS
<1>1. taken = 0 /\ kheader = <<>> /\ handed = {}
  BY DEF CTInit, Init
<1>2. ktable = [b \in 0..KSize - 1 |-> <<>>]
  BY DEF CTInit, K!EmptyTable
<1>3. CTShape
  BY <1>1, <1>2 DEF CTShape
<1> QED
  BY <1>1, <1>2, <1>3 DEF CTInv, KRecorded, EachHanded, ConstantSound

\* A text that is found has the index that an earlier call got for it.
LEMMA FoundIsRecorded ==
    ASSUME CTInv, NEW l \in Literals, Found(l)
    PROVE  \E f \in handed : /\ f.lit.text = l.text
                             /\ f.index = K!ValueOf(ktable, l.text)
                             /\ f.index < Len(kheader)
                             /\ kheader[f.index + 1] = f.lit.value
<1> DEFINE b == KHash[l.text]
           P == K!Positions(ktable, l.text)
<1>1. l.text # NoText /\ P # {}
  BY DEF Found, K!Holds
<1>2. b \in 0..KSize - 1
  BY <1>1, LiteralFields
<1>3. P = {i \in 1..Len(ktable[b]) : ktable[b][i].name = l.text}
  BY DEF K!Positions
<1>4. ktable[b] # <<>>
  BY <1>1, <1>2, <1>3 DEF CTInv, CTShape
<1>5. PICK f \in handed : /\ f.lit.text = ktable[b][1].name
                          /\ f.index = ktable[b][1].val
                          /\ f.index < Len(kheader)
                          /\ kheader[f.index + 1] = f.lit.value
  BY <1>2, <1>4 DEF CTInv, KRecorded
<1>6. Len(ktable[b]) = 1
  BY <1>2, <1>4 DEF CTInv, KRecorded
<1>7. P = {1} /\ ktable[b][1].name = l.text
  BY <1>1, <1>3, <1>6
<1> HIDE DEF P, b
<1>8. (CHOOSE j \in P : \A i \in P : j <= i) = 1
  BY <1>7
<1>9. K!ValueOf(ktable, l.text) = ktable[b][1].val
  BY <1>8 DEF K!ValueOf, P, b
<1> QED
  BY <1>5, <1>7, <1>9

\* A constant that is found again.
LEMMA FoundCTInv ==
    ASSUME CTInv, NEW l \in Literals, ConstantFound(l)
    PROVE  CTInv'
<1> DEFINE n == K!ValueOf(ktable, l.text)
           h == [lit |-> l, index |-> n]
<1>1. /\ taken' = taken /\ ktable' = ktable /\ kheader' = kheader
      /\ handed' = handed \cup {h}
      /\ Found(l)
  BY DEF ConstantFound
<1>2. PICK f \in handed : /\ f.lit.text = l.text /\ f.index = n
                          /\ f.index < Len(kheader)
                          /\ kheader[f.index + 1] = f.lit.value
  BY <1>1, FoundIsRecorded
<1>3. CTShape /\ KRecorded /\ EachHanded /\ ConstantSound
  BY DEF CTInv
<1>4. n \in Nat
  BY <1>2, <1>3 DEF CTShape
<1> HIDE DEF n
<1>5. CTShape'
  BY <1>1, <1>3, <1>4 DEF CTShape
<1>6. KRecorded'
  <2> SUFFICES ASSUME NEW b \in 0..KSize - 1, ktable[b] # <<>>
               PROVE  /\ Len(ktable[b]) = 1
                      /\ \E g \in handed' : /\ g.lit.text = ktable[b][1].name
                                            /\ g.index = ktable[b][1].val
                                            /\ g.index < Len(kheader)
                                            /\ kheader[g.index + 1] = g.lit.value
    BY <1>1 DEF KRecorded
  <2> QED
    BY <1>1, <1>3, Zenon DEF KRecorded
<1>7. EachHanded'
  BY <1>1, <1>3 DEF EachHanded
<1>8. ConstantSound'
  <2> SUFFICES ASSUME NEW g \in handed'
               PROVE  /\ g.index < Len(kheader)
                      /\ \/ kheader[g.index + 1] = g.lit.value
                         \/ /\ g.lit.text # NoText
                            /\ \E e \in handed' : /\ e.index = g.index /\ e.lit.text = g.lit.text
                                                  /\ kheader[g.index + 1] = e.lit.value
    BY <1>1, Zenon DEF ConstantSound
  <2>1. CASE g \in handed
    BY <1>1, <1>3, <2>1, Zenon DEF ConstantSound
  <2>2. CASE g = h
    <3>1. g.index = n /\ g.lit = l
      BY <2>2
    <3>2. l.text # NoText
      BY <1>1 DEF Found
    <3> QED
      BY <1>1, <1>2, <3>1, <3>2
  <2> QED
    BY <1>1, <2>1, <2>2
<1> QED
  BY <1>5, <1>6, <1>7, <1>8 DEF CTInv

\* A constant that is new, whether its entry is kept in ktable or lost.
LEMMA NewCTInv ==
    ASSUME CTInv, NEW l \in Literals, ConstantNew(l)
    PROVE  CTInv'
<1> DEFINE n == Len(kheader)
           h == [lit |-> l, index |-> n]
           e == [name |-> l.text, val |-> n]
<1>1. CTShape /\ KRecorded /\ EachHanded /\ ConstantSound
  BY DEF CTInv
<1>2. /\ taken' = taken /\ kheader' = Append(kheader, l.value)
      /\ handed' = handed \cup {h}
  BY DEF ConstantNew
<1>3. n \in Nat
  BY <1>1 DEF CTShape
<1>4. /\ kheader' \in Seq(Values) /\ Len(kheader') = n + 1
      /\ kheader'[n + 1] = l.value
      /\ \A i \in 0..n - 1 : kheader'[i + 1] = kheader[i + 1]
  BY <1>1, <1>2, LiteralFields DEF CTShape
<1>5. h \in handed' /\ h.index = n /\ h.lit = l
  BY <1>2
<1>6. \A g \in handed : g \in handed' /\ g.index \in Nat
  BY <1>1, <1>2 DEF CTShape
<1>7. \A b \in 0..KSize - 1 :
        \/ ktable'[b] = ktable[b]
        \/ ktable'[b] = <<e>>
  <2>1. CASE l.text = NoText
    BY <2>1 DEF ConstantNew
  <2>2. CASE l.text # NoText
    <3>1. ktable' = K!Insert(ktable, e)
      BY <2>2 DEF ConstantNew
    <3>2. KHash[l.text] \in 0..KSize - 1
      BY <2>2, LiteralFields
    <3>3. ktable' = [ktable EXCEPT ![KHash[l.text]] =
                       IF ktable[KHash[l.text]] # <<>> THEN ktable[KHash[l.text]] ELSE <<e>>]
      BY <1>1, <3>1, <3>2 DEF K!Insert, K!Prepend, CTShape
    <3> QED
      BY <1>1, <3>2, <3>3 DEF CTShape
  <2> QED
    BY <2>1, <2>2
<1>8. ktable' \in [0..KSize - 1 -> Seq(KEntry)]
  <2>1. CASE l.text = NoText
    BY <1>1, <2>1 DEF ConstantNew, CTShape
  <2>2. CASE l.text # NoText
    <3>1. e \in KEntry
      BY <1>3, <2>2, LiteralFields DEF KEntry
    <3>2. <<e>> \in Seq(KEntry)
      BY <3>1
    <3>3. ktable' = [ktable EXCEPT ![KHash[l.text]] =
                       IF ktable[KHash[l.text]] # <<>> THEN ktable[KHash[l.text]] ELSE <<e>>]
      BY <1>1, <2>2, LiteralFields DEF ConstantNew, K!Insert, K!Prepend, CTShape
    <3> HIDE DEF e
    <3> QED
      BY <1>1, <2>2, <3>2, <3>3, LiteralFields DEF CTShape
  <2> QED
    BY <2>1, <2>2
<1>9. CTShape'
  BY <1>1, <1>2, <1>3, <1>4, <1>8 DEF CTShape
<1>10. KRecorded'
  <2> SUFFICES ASSUME NEW b \in 0..KSize - 1, ktable'[b] # <<>>
               PROVE  /\ Len(ktable'[b]) = 1
                      /\ \E g \in handed' : /\ g.lit.text = ktable'[b][1].name
                                            /\ g.index = ktable'[b][1].val
                                            /\ g.index < Len(kheader')
                                            /\ kheader'[g.index + 1] = g.lit.value
    BY DEF KRecorded
  <2>1. CASE ktable'[b] = <<e>>
    <3>1. Len(ktable'[b]) = 1 /\ ktable'[b][1].name = l.text /\ ktable'[b][1].val = n
      BY <2>1
    <3> QED
      BY <1>3, <1>4, <1>5, <3>1
  <2>2. CASE ktable'[b] = ktable[b]
    <3>1. Len(ktable[b]) = 1
      BY <1>1, <2>2 DEF KRecorded
    <3>2. PICK g \in handed : /\ g.lit.text = ktable[b][1].name
                              /\ g.index = ktable[b][1].val
                              /\ g.index < Len(kheader)
                              /\ kheader[g.index + 1] = g.lit.value
      BY <1>1, <2>2 DEF KRecorded
    <3>3. g.index \in 0..n - 1
      BY <1>3, <1>6, <3>2
    <3>4. g \in handed' /\ g.index < Len(kheader') /\ kheader'[g.index + 1] = g.lit.value
      <4>1. g \in handed'
        BY <1>6
      <4>2. kheader'[g.index + 1] = kheader[g.index + 1]
        BY <1>4, <3>3, Zenon
      <4>3. g.index < Len(kheader')
        BY <1>3, <1>4, <3>3
      <4> QED
        BY <3>2, <4>1, <4>2, <4>3, Zenon
    <3> HIDE DEF n, h, e
    <3> QED
      BY <2>2, <3>1, <3>2, <3>4, Zenon
  <2> QED
    BY <1>7, <2>1, <2>2
<1>11. EachHanded'
  BY <1>1, <1>3, <1>4, <1>5, <1>6 DEF EachHanded
<1>12. ConstantSound'
  <2> SUFFICES ASSUME NEW g \in handed'
               PROVE  /\ g.index < n + 1
                      /\ \/ kheader'[g.index + 1] = g.lit.value
                         \/ /\ g.lit.text # NoText
                            /\ \E f \in handed' : /\ f.index = g.index /\ f.lit.text = g.lit.text
                                                  /\ kheader'[g.index + 1] = f.lit.value
    BY <1>4, Zenon DEF ConstantSound
  <2>1. CASE g = h
    BY <1>3, <1>4, <1>5, <2>1
  <2>2. CASE g \in handed
    <3>1. g.index \in 0..n - 1
      BY <1>1, <1>3, <1>6, <2>2 DEF ConstantSound
    <3>2. kheader'[g.index + 1] = kheader[g.index + 1] /\ g.index < n + 1
      BY <1>3, <1>4, <3>1
    <3>3. \/ kheader[g.index + 1] = g.lit.value
          \/ /\ g.lit.text # NoText
             /\ \E f \in handed : /\ f.index = g.index /\ f.lit.text = g.lit.text
                                  /\ kheader[g.index + 1] = f.lit.value
      BY <1>1, <2>2, Zenon DEF ConstantSound
    <3> QED
      BY <1>6, <3>2, <3>3, Zenon
  <2> QED
    BY <1>2, <2>1, <2>2
<1> QED
  BY <1>9, <1>10, <1>11, <1>12 DEF CTInv

\* A step on names and registers leaves the constants alone.
LEMMA NamesCTInv ==
    ASSUME CTInv, taken' \in Nat, UNCHANGED <<ktable, kheader, handed>>
    PROVE  CTInv'
BY DEF CTInv, CTShape, KRecorded, EachHanded, ConstantSound

\* The composition implements SymTab: what is proved of the names and their
\* registers alone holds with the constants beside them.
THEOREM ImplementsSymTab == CTSpec => Spec
<1>1. CTInit => Init
  BY DEF CTInit
<1>2. [CTNext]_ctvars => [Next]_vars
  BY DEF CTNext, ctvars, vars, ConstantFound, ConstantNew
<1> QED
  BY <1>1, <1>2, PTL DEF CTSpec, Spec

\* The invariant holds in every state of a clause.
THEOREM CTInvariance == CTSpec => []CTInv
<1>1. CTInit => CTInv
  BY InitCTInv
<1>2. IInv' /\ CTInv /\ [CTNext]_ctvars => CTInv'
  <2> SUFFICES ASSUME IInv', CTInv, [CTNext]_ctvars PROVE CTInv'
    OBVIOUS
  <2>1. taken' \in Nat
    BY SymTabAssumption DEF IInv, Shape
  <2>2. CASE UNCHANGED <<ktable, kheader, handed>>
    BY <2>1, <2>2, NamesCTInv
  <2>3. ASSUME NEW l \in Literals, ConstantFound(l) PROVE CTInv'
    BY <2>3, FoundCTInv
  <2>4. ASSUME NEW l \in Literals, ConstantNew(l) PROVE CTInv'
    BY <2>4, NewCTInv
  <2> QED
    BY <2>2, <2>3, <2>4 DEF CTNext, ctvars
<1> QED
  BY <1>1, <1>2, ImplementsSymTab, Invariance, PTL DEF CTSpec

\* An operand is read as what it was handed out for exactly within the limits
\* of eight-bit operands.
THEOREM OperandsAreTold == CTSpec => []OperandsTold
<1>1. CTInv => OperandsTold
  <2> SUFFICES ASSUME CTInv PROVE OperandsTold
    OBVIOUS
  <2> DEFINE n == Len(kheader)
             Registers == \A r \in HandedOut : Reads(r) = [kind |-> "register", num |-> r]
             Constants == \A h \in handed :
                            Reads(RKASK(h.index)) = [kind |-> "constant", num |-> h.index]
  <2>1. /\ taken \in Nat /\ n \in Nat /\ BitRK \in Nat \ {0}
        /\ NRegs \in Nat /\ BitRK < NRegs
        /\ \A h \in handed : h.index \in 0..n - 1
    BY SymTabAssumption, ClauseTablesAssumption DEF CTInv, CTShape, ConstantSound
  <2> HIDE DEF n
  <2>2. ASSUME taken <= BitRK, n <= BitRK PROVE Registers /\ Constants
    BY <2>1, <2>2 DEF Reads, RKASK, HandedOut
  <2>3. ASSUME Registers PROVE taken <= BitRK
    <3>1. "register" # "constant"
      OBVIOUS
    <3>2. taken > BitRK => BitRK \in HandedOut
      BY <2>1 DEF HandedOut
    <3>3. Reads(BitRK).kind = "constant"
      BY <2>1 DEF Reads
    <3>4. BitRK \in HandedOut => Reads(BitRK).kind = "register"
      BY <2>3
    <3> QED
      BY <2>1, <3>1, <3>2, <3>3, <3>4
  <2>4. ASSUME Constants PROVE n <= BitRK
    <3>1. n > BitRK => \E h \in handed : h.index = BitRK
      BY <2>1 DEF CTInv, EachHanded, n
    <3>2. Reads(RKASK(BitRK)).num = 0
      BY <2>1 DEF Reads, RKASK
    <3>3. ASSUME NEW h \in handed, h.index = BitRK PROVE FALSE
      <4>1. Reads(RKASK(h.index)) = [kind |-> "constant", num |-> h.index]
        BY <2>4, Zenon
      <4>2. Reads(RKASK(BitRK)) = [kind |-> "constant", num |-> BitRK]
        BY <3>3, <4>1, Zenon
      <4> QED
        BY <2>1, <3>2, <4>2
    <3> QED
      BY <2>1, <3>1, <3>3
  <2> QED
    BY <2>2, <2>3, <2>4 DEF OperandsTold, n
<1> QED
  BY <1>1, CTInvariance, PTL

\* The constant a call gets is the one it asked for, or one that was asked for
\* under the same text.
THEOREM ConstantsAreSound == CTSpec => []ConstantSound
<1>1. CTInv => ConstantSound
  BY DEF CTInv
<1> QED
  BY <1>1, CTInvariance, PTL
==============================================================================
