----------------------------- MODULE LoaderProofs -----------------------------
(***************************************************************************)
(* Proofs about the loader: for any modules, any number of values of a     *)
(* byte, any depth and any room for code, what is inside of the format's   *)
(* limits is loaded as it was generated.                                   *)
(***************************************************************************)
EXTENDS Loader, FormatProofs

-----------------------------------------------------------------------------
\* Prefixes.
LEMMA PrefixFacts ==
    ASSUME NEW S, NEW T, NEW s \in Seq(S), NEW t \in Seq(T)
    PROVE  IsPrefix(s, t) <=> Len(s) <= Len(t) /\ \A i \in 1..Len(s) : s[i] = t[i]
<1>1. PICK n : n = Len(s)
  OBVIOUS
<1>2. n \in Nat /\ Len(t) \in Nat
  BY <1>1
<1>3. SUFFICES ASSUME n <= Len(t)
               PROVE  SubSeq(s, 1, n) = SubSeq(t, 1, n) <=> \A i \in 1..n : s[i] = t[i]
  BY <1>1, <1>2 DEF IsPrefix
<1>4. SubSeq(s, 1, n) = [i \in 1..n |-> s[i]]
  <2>1. SubSeq(s, 1, n) = [i \in 1..n - 1 + 1 |-> s[i + 1 - 1]]
    BY <1>2
  <2>2. n - 1 + 1 = n /\ \A i \in 1..n : i + 1 - 1 = i
    BY <1>2
  <2> QED
    BY <2>1, <2>2
<1>5. SubSeq(t, 1, n) = [i \in 1..n |-> t[i]]
  <2>1. SubSeq(t, 1, n) = [i \in 1..n - 1 + 1 |-> t[i + 1 - 1]]
    BY <1>2
  <2>2. n - 1 + 1 = n /\ \A i \in 1..n : i + 1 - 1 = i
    BY <1>2
  <2> QED
    BY <2>1, <2>2
<1>6. ASSUME [i \in 1..n |-> s[i]] = [i \in 1..n |-> t[i]], NEW i \in 1..n PROVE s[i] = t[i]
  <2>1. [k \in 1..n |-> s[k]][i] = s[i] /\ [k \in 1..n |-> t[k]][i] = t[i]
    OBVIOUS
  <2> QED
    BY <1>6, <2>1
<1> QED
  BY <1>4, <1>5, <1>6

LEMMA PrefixNone ==
    ASSUME NEW T, NEW t \in Seq(T)
    PROVE  IsPrefix(<<>>, t)
<1>1. <<>> \in Seq(T) /\ Len(<<>>) = 0 /\ Len(t) \in Nat
  OBVIOUS
<1>2. 0 <= Len(t) /\ \A i \in 1..0 : <<>>[i] = t[i]
  BY <1>1
<1> QED
  BY <1>1, <1>2, PrefixFacts

LEMMA PrefixNext ==
    ASSUME NEW S, NEW T, NEW s \in Seq(S), NEW t \in Seq(T), NEW e,
           IsPrefix(s, t), Len(s) < Len(t), e = t[Len(s) + 1]
    PROVE  IsPrefix(Append(s, e), t) /\ Len(Append(s, e)) = Len(s) + 1
<1>1. PICK R : R = S \cup {e}
  OBVIOUS
<1>2. s \in Seq(R) /\ e \in R
  BY <1>1, SeqGrows
<1>3. PICK a : a = Append(s, e)
  OBVIOUS
<1>4. a \in Seq(R) /\ Len(a) = Len(s) + 1
  BY <1>2, <1>3
<1>5. \A i \in 1..Len(a) : a[i] = IF i <= Len(s) THEN s[i] ELSE e
  BY <1>2, <1>3
<1>6. Len(s) \in Nat /\ Len(t) \in Nat
  OBVIOUS
<1>7. \A i \in 1..Len(s) : s[i] = t[i]
  BY PrefixFacts
<1>8. Len(a) <= Len(t)
  BY <1>4, <1>6
<1>9. \A i \in 1..Len(a) : a[i] = t[i]
  <2>1. SUFFICES ASSUME NEW i \in 1..Len(a) PROVE a[i] = t[i]
    OBVIOUS
  <2>2. CASE i <= Len(s)
    <3>1. i \in 1..Len(s)
      BY <1>4, <1>6, <2>2
    <3> QED
      BY <1>5, <1>7, <2>2, <3>1
  <2>3. CASE ~ i <= Len(s)
    <3>1. i = Len(s) + 1
      BY <1>4, <1>6, <2>3
    <3> QED
      BY <1>5, <2>3, <3>1
  <2> QED
    BY <2>2, <2>3
<1>10. IsPrefix(a, t)
  BY <1>4, <1>8, <1>9, PrefixFacts
<1> QED
  BY <1>3, <1>4, <1>10

LEMMA PrefixAll ==
    ASSUME NEW S, NEW T, NEW s \in Seq(S), NEW t \in Seq(T), IsPrefix(s, t), Len(s) = Len(t)
    PROVE  s = t
<1>1. \A i \in 1..Len(s) : s[i] = t[i]
  BY PrefixFacts
<1>2. s = [i \in 1..Len(s) |-> s[i]] /\ t = [i \in 1..Len(t) |-> t[i]]
  OBVIOUS
<1> QED
  BY <1>1, <1>2

-----------------------------------------------------------------------------
\* Where the paths of a module end in its file, and the clauses of the i-th.
PathEnds(ps) ==
    CHOOSE o : Parted(Dump(ps), 9, PathDumps(ps), o) /\ o[Len(ps)] = Len(Dump(ps)) + 1

ClausesFrom(ps, i) == PathEnds(ps)[i - 1] + Len(PathHead(ps[i]))

ClauseEnds(ps, i) ==
    CHOOSE u : /\ Parted(Dump(ps), ClausesFrom(ps, i), ClauseDumps(ps[i].clauses), u)
               /\ u[Len(ps[i].clauses)] = PathEnds(ps)[i]

LEMMA MadeIsWide == Made = WidePaths
BY DEF Made, WidePaths, WideClauses

LEMMA PathEndsFacts ==
    ASSUME NEW ps \in Seq(Made), Len(ps) <= Base
    PROVE  /\ PathEnds(ps)[0] = 9 /\ PathEnds(ps)[Len(ps)] = Len(Dump(ps)) + 1
           /\ \A i \in 1..Len(ps) : /\ Holds(Dump(ps), PathEnds(ps)[i - 1], DumpPath(ps[i]))
                                    /\ PathEnds(ps)[i] = PathEnds(ps)[i - 1] + Len(DumpPath(ps[i]))
<1>1. ps \in Seq(WidePaths)
  BY MadeIsWide
<1>2. PICK f : f = Dump(ps)
  OBVIOUS
<1>3. \E o : Parted(f, 9, PathDumps(ps), o) /\ o[Len(ps)] = Len(f) + 1
  BY <1>1, <1>2, FileRound
<1>4. Parted(f, 9, PathDumps(ps), PathEnds(ps)) /\ PathEnds(ps)[Len(ps)] = Len(f) + 1
  BY <1>2, <1>3 DEF PathEnds
<1>5. Len(PathDumps(ps)) = Len(ps) /\ \A i \in 1..Len(ps) : PathDumps(ps)[i] = DumpPath(ps[i])
  BY <1>1, PathDumpsType
<1> QED
  BY <1>2, <1>4, <1>5 DEF Parted

LEMMA ClauseEndsFacts ==
    ASSUME NEW ps \in Seq(Made), Len(ps) <= Base, NEW i \in 1..Len(ps)
    PROVE  /\ Holds(Dump(ps), PathEnds(ps)[i - 1], PathHead(ps[i]))
           /\ ClauseEnds(ps, i)[0] = ClausesFrom(ps, i)
           /\ ClauseEnds(ps, i)[Len(ps[i].clauses)] = PathEnds(ps)[i]
           /\ \A j \in 0..Len(ps[i].clauses) : ClauseEnds(ps, i)[j] \in Nat \ {0}
           /\ \A j \in 1..Len(ps[i].clauses) :
                /\ Holds(Dump(ps), ClauseEnds(ps, i)[j - 1], DumpClause(ps[i].clauses[j]))
                /\ ClauseEnds(ps, i)[j] = ClauseEnds(ps, i)[j - 1] + Len(DumpClause(ps[i].clauses[j]))
<1>1. PICK f : f = Dump(ps)
  OBVIOUS
<1>2. f \in Seq(ByteType)
  BY <1>1, MadeIsWide, FileRound
<1>3. PICK p : p = ps[i]
  OBVIOUS
<1>4. p \in WidePaths
  BY <1>3, MadeIsWide
<1>5. PICK q : q = PathEnds(ps)[i - 1]
  OBVIOUS
<1>6. Holds(f, q, DumpPath(p)) /\ PathEnds(ps)[i] = q + Len(DumpPath(p))
  BY <1>1, <1>3, <1>5, PathEndsFacts
<1>7. Holds(f, q, PathHead(p))
  BY <1>2, <1>4, <1>6, PathRound
<1>8. \E u : Parted(f, q + Len(PathHead(p)), ClauseDumps(p.clauses), u) /\ u[Len(p.clauses)] = q + Len(DumpPath(p))
  BY <1>2, <1>4, <1>6, PathRound
<1>9. PICK r : r = ClausesFrom(ps, i)
  OBVIOUS
<1>10. r = q + Len(PathHead(p))
  BY <1>3, <1>5, <1>9 DEF ClausesFrom
<1>11. \E u : Parted(f, r, ClauseDumps(p.clauses), u) /\ u[Len(p.clauses)] = PathEnds(ps)[i]
  BY <1>6, <1>8, <1>10
<1>12. /\ Parted(f, r, ClauseDumps(p.clauses), ClauseEnds(ps, i))
       /\ ClauseEnds(ps, i)[Len(p.clauses)] = PathEnds(ps)[i]
  BY <1>1, <1>3, <1>9, <1>11 DEF ClauseEnds
<1>13. /\ Len(ClauseDumps(p.clauses)) = Len(p.clauses)
       /\ \A j \in 1..Len(p.clauses) : ClauseDumps(p.clauses)[j] = DumpClause(p.clauses[j])
  <2>1. p.clauses \in Seq(WideClauses)
    BY <1>4, PathFields DEF WidePaths
  <2> QED
    BY <2>1, ClauseDumpsType
<1> QED
  BY <1>1, <1>3, <1>5, <1>7, <1>9, <1>12, <1>13 DEF Parted

-----------------------------------------------------------------------------
\* A path inside of the limits is read as it was written.
LEMMA FittingFields ==
    ASSUME NEW p \in Fitting
    PROVE  /\ Len(p.name) < Base /\ Len(p.clauses) < Base
           /\ \A j \in 1..Len(p.clauses) : p.clauses[j] \in FitClauses
<1>1. PICK cs : cs = Clauses(Parameters(FitTexts, FitArities)[Depth], Values(FitArities)[Depth])
  OBVIOUS
<1>2. p \in Paths(cs) /\ Len(p.name) < Base /\ Len(p.clauses) < Base
  BY <1>1 DEF Fitting, FitTexts, FitArities
<1>3. \A j \in 1..Len(p.clauses) : Len(p.clauses[j].code) < CodeSize /\ Len(p.clauses[j].constants) <= Base \div 2
  BY DEF Fitting
<1>4. p.clauses \in Seq(cs)
  BY <1>2, PathFields
<1>5. ASSUME NEW j \in 1..Len(p.clauses) PROVE p.clauses[j] \in FitClauses
  <2>1. PICK c : c = p.clauses[j]
    OBVIOUS
  <2>2. c \in cs
    BY <1>4, <2>1
  <2>3. c.code \in Seq(IntType) /\ c.constants \in Seq(Values(FitArities)[Depth])
    BY <1>1, <2>2, ClauseFields
  <2>4. Len(c.code) \in Nat /\ Len(c.constants) \in Nat
    BY <2>3
  <2>5. Len(c.code) < CodeSize /\ Len(c.constants) <= Base \div 2
    BY <1>3, <2>1
  <2>6. Len(c.code) < IntMax
    BY <2>4, <2>5, LoaderAssumption, BaseIsSmall
  <2>7. Len(c.constants) < Base
    BY <2>4, <2>5, BaseFacts
  <2> QED
    BY <1>1, <2>1, <2>2, <2>6, <2>7 DEF FitClauses
<1> QED
  BY <1>2, <1>5

LEMMA FittingRead ==
    ASSUME NEW ps \in Seq(Made), Len(ps) <= Base, NEW i \in 1..Len(ps), ps[i] \in Fitting
    PROVE  /\ ReadPathAt(Dump(ps), PathEnds(ps)[i - 1])
                = At(ClauseEnds(ps, i)[0], [name |-> ps[i].name, nclauses |-> Len(ps[i].clauses)])
           /\ \A j \in 1..Len(ps[i].clauses) :
                ReadClauseAt(Dump(ps), ClauseEnds(ps, i)[j - 1]) = At(ClauseEnds(ps, i)[j], ps[i].clauses[j])
           /\ \A j \in 0..Len(ps[i].clauses) : ClauseEnds(ps, i)[j] # 0
<1>1. PICK f : f = Dump(ps)
  OBVIOUS
<1>2. f \in Seq(ByteType)
  BY <1>1, MadeIsWide, FileRound
<1>3. PICK p : p = ps[i]
  OBVIOUS
<1>4. p \in WidePaths /\ Len(p.name) < Base /\ Len(p.clauses) < Base
  BY <1>3, MadeIsWide, FittingFields
<1>5. PICK u : u = ClauseEnds(ps, i)
  OBVIOUS
<1>6. PICK q : q = PathEnds(ps)[i - 1]
  OBVIOUS
<1>7. Holds(f, q, PathHead(p)) /\ u[0] = q + Len(PathHead(p))
  BY <1>1, <1>3, <1>5, <1>6, ClauseEndsFacts DEF ClausesFrom
<1>8. ReadPathAt(f, q) = At(u[0], [name |-> p.name, nclauses |-> Len(p.clauses)])
  BY <1>2, <1>4, <1>7, ReadPathRound
<1>9. ASSUME NEW j \in 1..Len(p.clauses)
      PROVE  ReadClauseAt(f, u[j - 1]) = At(u[j], p.clauses[j])
  <2>1. PICK c : c = p.clauses[j]
    OBVIOUS
  <2>2. c \in FitClauses
    BY <1>3, <2>1, FittingFields
  <2>3. Holds(f, u[j - 1], DumpClause(c)) /\ u[j] = u[j - 1] + Len(DumpClause(c))
    BY <1>1, <1>3, <1>5, <2>1, ClauseEndsFacts
  <2>4. PICK x : x = u[j - 1]
    OBVIOUS
  <2>5. ReadClauseAt(f, x) = At(x + Len(DumpClause(c)), c)
    BY <1>2, <2>2, <2>3, <2>4, ReadClauseRound
  <2> QED
    BY <2>1, <2>3, <2>4, <2>5
<1>10. \A j \in 0..Len(p.clauses) : u[j] # 0
  BY <1>3, <1>5, ClauseEndsFacts
<1> QED
  BY <1>1, <1>3, <1>5, <1>6, <1>8, <1>9, <1>10

\* What is inside of the limits is in the generator's buffers.
LEMMA NoOverrun ==
    ASSUME NEW pc \in Nat, pc + 1 < CodeSize
    PROVE  ~Overruns(pc)
<1>1. CodeSize \in Nat \ {0}
  BY LoaderAssumption
<1>2. (pc + 1) \div CodeSize = 0
  BY <1>1
<1> QED
  BY <1>2 DEF Overruns

LEMMA WithinInBuffers ==
    ASSUME NEW ps \in Seq(Made), Within(ps)
    PROVE  InBuffers(ps)
<1>1. Len(ps) <= Base
  BY DEF Within
<1>2. ASSUME NEW i \in 1..Len(ps)
      PROVE  /\ Len(ps[i].clauses) < Base
             /\ \A j \in 1..Len(ps[i].clauses) :
                  /\ Len(ps[i].clauses[j].constants) <= Base \div 2
                  /\ \A pc \in 0..Len(ps[i].clauses[j].code) - 1 : ~Overruns(pc)
  <2>1. ps[i] \in Fitting
    BY DEF Within
  <2>2. Len(ps[i].clauses) < Base
    BY <2>1, FittingFields
  <2>3. ASSUME NEW j \in 1..Len(ps[i].clauses)
        PROVE  /\ Len(ps[i].clauses[j].constants) <= Base \div 2
               /\ \A pc \in 0..Len(ps[i].clauses[j].code) - 1 : ~Overruns(pc)
    <3>1. PICK c : c = ps[i].clauses[j]
      OBVIOUS
    <3>2. Len(c.code) < CodeSize /\ Len(c.constants) <= Base \div 2
      BY <2>1, <3>1 DEF Fitting
    <3>3. c \in FitClauses
      BY <2>1, <3>1, FittingFields
    <3>4. Len(c.code) \in Nat
      <4>1. c.code \in Seq(IntType)
        BY <3>3, ClauseFields DEF FitClauses
      <4> QED
        BY <4>1
    <3>5. ASSUME NEW pc \in 0..Len(c.code) - 1 PROVE ~Overruns(pc)
      <4>1. PICK n : n = Len(c.code)
        OBVIOUS
      <4>2. n \in Nat /\ n < CodeSize /\ pc \in 0..n - 1
        BY <3>2, <3>4, <4>1
      <4>3. pc \in Nat /\ pc + 1 < CodeSize
        BY <4>2, LoaderAssumption
      <4> QED
        BY <4>3, NoOverrun
    <3> QED
      BY <3>1, <3>2, <3>5
  <2> QED
    BY <2>2, <2>3
<1> QED
  BY <1>1, <1>2 DEF InBuffers

-----------------------------------------------------------------------------
\* A path, or a clause of the last one, is added.
PathsTyped(ps) == \E N, C : ps \in Seq([name : N, clauses : Seq(C)])

WithPath(ps, s, qs) == qs = Append(ps, [name |-> s, clauses |-> <<>>])
WithClause(ps, x, qs) == qs = [ps EXCEPT ![Len(ps)].clauses = Append(@, x)]

LEMMA PathAdded ==
    ASSUME NEW ps, PathsTyped(ps), NEW s, NEW qs, WithPath(ps, s, qs)
    PROVE  /\ PathsTyped(qs) /\ Len(ps) \in Nat /\ Len(qs) = Len(ps) + 1 /\ qs # <<>>
           /\ \A i \in 1..Len(ps) : qs[i] = ps[i]
           /\ qs[Len(qs)].name = s /\ qs[Len(qs)].clauses = <<>>
<1>1. PICK N, C : ps \in Seq([name : N, clauses : Seq(C)])
  BY DEF PathsTyped
<1>2. PICK M : M = N \cup {s}
  OBVIOUS
<1>3. [name : N, clauses : Seq(C)] \subseteq [name : M, clauses : Seq(C)]
  BY <1>2
<1>4. ps \in Seq([name : M, clauses : Seq(C)])
  BY <1>1, <1>3, SeqGrows
<1>5. PICK p : p = [name |-> s, clauses |-> <<>>]
  OBVIOUS
<1>6. p \in [name : M, clauses : Seq(C)] /\ p.name = s /\ p.clauses = <<>>
  BY <1>2, <1>5
<1>7. PICK R : R = [name : M, clauses : Seq(C)]
  OBVIOUS
<1>8. ps \in Seq(R) /\ p \in R /\ qs = Append(ps, p)
  BY <1>4, <1>5, <1>6, <1>7 DEF WithPath
<1>9. qs \in Seq(R) /\ Len(qs) = Len(ps) + 1 /\ Len(ps) \in Nat /\ qs # <<>>
  BY <1>8
<1>10. \A i \in 1..Len(ps) : qs[i] = ps[i]
  BY <1>8
<1>11. qs[Len(qs)] = p
  BY <1>8, <1>9
<1>12. PathsTyped(qs)
  BY <1>7, <1>9 DEF PathsTyped
<1> QED
  BY <1>6, <1>9, <1>10, <1>11, <1>12

LEMMA ClauseAdded ==
    ASSUME NEW ps, PathsTyped(ps), ps # <<>>, NEW x, NEW qs,
           WithClause(ps, x, qs)
    PROVE  /\ PathsTyped(qs) /\ Len(ps) \in Nat \ {0} /\ Len(qs) = Len(ps) /\ qs # <<>>
           /\ \A i \in 1..Len(ps) : i # Len(ps) => qs[i] = ps[i]
           /\ qs[Len(ps)].name = ps[Len(ps)].name
           /\ qs[Len(ps)].clauses = Append(ps[Len(ps)].clauses, x)
<1>1. PICK N, C : ps \in Seq([name : N, clauses : Seq(C)])
  BY DEF PathsTyped
<1>2. PICK D : D = C \cup {x}
  OBVIOUS
<1>3. \A s \in Seq(C) : s \in Seq(D) /\ Append(s, x) \in Seq(D)
  <2>1. SUFFICES ASSUME NEW s \in Seq(C) PROVE s \in Seq(D) /\ Append(s, x) \in Seq(D)
    OBVIOUS
  <2>2. s \in Seq(D) /\ x \in D
    BY <1>2, SeqGrows
  <2> QED
    BY <2>2
<1>4. PICK n : n = Len(ps)
  OBVIOUS
<1>5. n \in Nat \ {0} /\ n \in 1..n /\ n \in 1..Len(ps)
  BY <1>1, <1>4
<1>6. PICK p : p = ps[n]
  OBVIOUS
<1>7. p \in [name : N, clauses : Seq(C)]
  <2>1. PICK S : S = [name : N, clauses : Seq(C)]
    OBVIOUS
  <2>2. ps \in Seq(S)
    BY <1>1, <2>1
  <2>3. p \in S
    BY <1>5, <1>6, <2>2
  <2> QED
    BY <2>1, <2>3
<1>8. PICK t : t = [p EXCEPT !.clauses = Append(@, x)]
  OBVIOUS
<1>9. t = [name |-> p.name, clauses |-> Append(p.clauses, x)]
  BY <1>7, <1>8
<1>10. t \in [name : N, clauses : Seq(D)] /\ t.name = p.name /\ t.clauses = Append(p.clauses, x)
  BY <1>3, <1>7, <1>9
<1>11. qs = [ps EXCEPT ![n] = t]
  BY <1>4, <1>6, <1>8 DEF WithClause
<1>12. [name : N, clauses : Seq(C)] \subseteq [name : N, clauses : Seq(D)]
  BY <1>3
<1>13. ps \in Seq([name : N, clauses : Seq(D)])
  BY <1>1, <1>12, SeqGrows
<1>14. PICK R : R = [name : N, clauses : Seq(D)]
  OBVIOUS
<1>15. ps \in Seq(R) /\ t \in R
  BY <1>10, <1>13, <1>14
<1>16. qs \in Seq(R) /\ Len(qs) = n
  BY <1>4, <1>5, <1>11, <1>15
<1>17. qs[n] = t /\ \A i \in 1..n : i # n => qs[i] = ps[i]
  BY <1>4, <1>5, <1>11, <1>15
<1>18. PathsTyped(qs)
  BY <1>14, <1>16 DEF PathsTyped
<1>19. qs # <<>>
  BY <1>5, <1>16
<1> QED
  BY <1>4, <1>5, <1>6, <1>10, <1>16, <1>17, <1>18, <1>19

LEMMA PathTyped ==
    ASSUME NEW ps, PathsTyped(ps), NEW i \in 1..Len(ps)
    PROVE  /\ \E C : ps[i].clauses \in Seq(C)
           /\ Len(ps[i].clauses) \in Nat
           /\ ps[i] = [name |-> ps[i].name, clauses |-> ps[i].clauses]
<1>1. PICK N, C : ps \in Seq([name : N, clauses : Seq(C)])
  BY DEF PathsTyped
<1>2. PICK p : p = ps[i]
  OBVIOUS
<1>3. p \in [name : N, clauses : Seq(C)]
  <2>1. PICK S : S = [name : N, clauses : Seq(C)]
    OBVIOUS
  <2>2. ps \in Seq(S)
    BY <1>1, <2>1
  <2>3. p \in S
    BY <1>2, <2>2
  <2> QED
    BY <2>1, <2>3
<1> QED
  BY <1>2, <1>3

-----------------------------------------------------------------------------
\* The first n paths are inside of the limits.
AllFit(n) == \A i \in 1..n : module[i] \in Fitting

\* The n-th path is as it was generated, as far as it was read.
Begun(n) == paths[n].name = module[n].name /\ IsPrefix(paths[n].clauses, module[n].clauses)

\* Where the last clause that was read ends, or the head of the last path.
ReadUpTo == IF paths = <<>> THEN 9 ELSE ClauseEnds(module, Len(paths))[Len(paths[Len(paths)].clauses)]

\* Reading starts with an empty list of paths, and with the whole file.
Unread == status \in {"generated", "written"} => paths = <<>>
FileWritten == status \in {"written", "opened", "loaded"} => Len(module) <= Base /\ file = Dump(module)
Counted == status \in {"opened", "loaded"} => pathsn = Len(module) /\ Len(paths) <= Len(module)

\* The paths are as they were generated, all but the last one to the end.
AsGenerated ==
    \A n \in 1..Len(paths) :
      AllFit(n) => Begun(n) /\ (n # Len(paths) => paths[n].clauses = module[n].clauses)

\* The next byte to read is the first one of what was not read yet, and of the
\* last path as many clauses are expected as there are.
InStep ==
    status \in {"opened", "loaded"} /\ AllFit(Len(paths)) =>
      b = ReadUpTo /\ (paths # <<>> => nclauses = Len(module[Len(paths)].clauses))

LoadedWhole == status = "loaded" => Complete /\ Len(paths) = Len(module)
NotCrashed == Within(module) => status # "crashed"

Inv ==
    /\ module \in Seq(Made) /\ PathsTyped(paths)
    /\ Unread /\ FileWritten /\ Counted /\ AsGenerated /\ InStep /\ LoadedWhole /\ NotCrashed

LEMMA NoPaths == PathsTyped(<<>>) /\ Len(<<>>) = 0 /\ \A i \in 1..0 : FALSE
<1>1. <<>> \in Seq([name : {}, clauses : Seq({})])
  OBVIOUS
<1> QED
  BY <1>1 DEF PathsTyped

LEMMA InitInv == Init => Inv
<1> SUFFICES ASSUME Init PROVE Inv
  OBVIOUS
<1>1. module \in Seq(Made) /\ paths = <<>> /\ status = "generated"
  BY LoaderAssumption DEF Init
<1>2. PathsTyped(paths)
  BY <1>1, NoPaths
<1>3. AsGenerated
  BY <1>1, NoPaths DEF AsGenerated
<1> QED
  BY <1>1, <1>2, <1>3 DEF Inv, Unread, FileWritten, Counted, InStep, LoadedWhole, NotCrashed

LEMMA WriteInv == Inv /\ Write => Inv'
<1> SUFFICES ASSUME Inv, Write PROVE Inv'
  OBVIOUS
<1>1. /\ status = "generated" /\ module' = module /\ paths' = paths
      /\ b' = b /\ pathsn' = pathsn /\ nclauses' = nclauses
  BY DEF Write
<1>2. paths = <<>> /\ module \in Seq(Made)
  BY <1>1 DEF Inv, Unread
<1>3. PathsTyped(paths')
  BY <1>1 DEF Inv
<1>4. AsGenerated'
  BY <1>1, <1>2, NoPaths DEF AsGenerated
<1>5. CASE InBuffers(module)
  <2>1. file' = Dump(module) /\ status' = "written"
    BY <1>5 DEF Write
  <2>2. Len(module) <= Base
    BY <1>5 DEF InBuffers
  <2> QED
    BY <1>1, <1>2, <1>3, <1>4, <2>1, <2>2
    DEF Inv, Unread, FileWritten, Counted, InStep, LoadedWhole, NotCrashed
<1>6. CASE ~InBuffers(module)
  <2>1. status' = "crashed"
    BY <1>6 DEF Write
  <2>2. ~Within(module)
    BY <1>2, <1>6, WithinInBuffers
  <2>3. ~Within(module')
    BY <1>1, <2>2
  <2>4. NotCrashed'
    BY <2>3 DEF NotCrashed, Within
  <2> QED
    BY <1>1, <1>2, <1>3, <1>4, <2>1, <2>4
    DEF Inv, Unread, FileWritten, Counted, InStep, LoadedWhole
<1> QED
  BY <1>5, <1>6

LEMMA OpenInv == Inv /\ Open => Inv'
<1> SUFFICES ASSUME Inv, Open PROVE Inv'
  OBVIOUS
<1>1. /\ status = "written" /\ module' = module /\ paths' = paths /\ file' = file
      /\ nclauses' = nclauses
  BY DEF Open
<1>2. module \in Seq(Made) /\ Len(module) <= Base /\ file = Dump(module) /\ paths = <<>>
  BY <1>1 DEF Inv, Unread, FileWritten
<1>3. module \in Seq(WidePaths)
  BY <1>2, MadeIsWide
<1>4. file[1] = Magic /\ ReadInt(file, 5) = At(9, Len(module))
  BY <1>2, <1>3, FileRound
<1>5. ReadInt(file, 5).p = 9 /\ ReadInt(file, 5).x = Len(module)
  BY <1>4, AtParts
<1>6. b' = 9 /\ pathsn' = Len(module) /\ status' = "opened"
  BY <1>4, <1>5 DEF Open
<1>7. PathsTyped(paths')
  BY <1>1 DEF Inv
<1>8. AsGenerated'
  BY <1>1, <1>2, NoPaths DEF AsGenerated
<1>9. Counted'
  <2>1. Len(module) \in Nat
    BY <1>2
  <2> QED
    BY <1>1, <1>2, <1>6, <2>1, NoPaths DEF Counted
<1>10. InStep'
  <2>1. ReadUpTo' = 9
    BY <1>1, <1>2 DEF ReadUpTo
  <2> QED
    BY <1>1, <1>2, <1>6, <2>1 DEF InStep
<1> QED
  BY <1>1, <1>2, <1>6, <1>7, <1>8, <1>9, <1>10 DEF Inv, Unread, FileWritten, LoadedWhole, NotCrashed

LEMMA LoadedInv == Inv /\ Loaded => Inv'
<1> SUFFICES ASSUME Inv, Loaded PROVE Inv'
  OBVIOUS
<1>1. /\ status = "opened" /\ Complete /\ Len(paths) >= pathsn /\ status' = "loaded"
      /\ module' = module /\ paths' = paths /\ file' = file /\ b' = b /\ pathsn' = pathsn
      /\ nclauses' = nclauses
  BY DEF Loaded
<1>2. Len(paths) = Len(module)
  <2>1. pathsn = Len(module) /\ Len(paths) <= Len(module)
    BY <1>1 DEF Inv, Counted
  <2>2. Len(paths) \in Nat /\ Len(module) \in Nat
    BY DEF Inv, PathsTyped
  <2> QED
    BY <1>1, <2>1, <2>2
<1>3. AsGenerated'
  BY <1>1 DEF Inv, AsGenerated, AllFit, Begun
<1>4. InStep'
  BY <1>1 DEF Inv, InStep, AllFit, ReadUpTo
<1>5. LoadedWhole'
  BY <1>1, <1>2 DEF LoadedWhole, Complete
<1> QED
  BY <1>1, <1>3, <1>4, <1>5 DEF Inv, Unread, FileWritten, Counted, NotCrashed

\* Between two paths, what was read ends where the last path does.
LEMMA BetweenPaths ==
    ASSUME Inv, status = "opened", Complete, AllFit(Len(paths))
    PROVE  /\ b = PathEnds(module)[Len(paths)]
           /\ paths # <<>> => paths[Len(paths)].clauses = module[Len(paths)].clauses
<1>1. PICK n : n = Len(paths)
  OBVIOUS
<1>2. /\ PathsTyped(paths) /\ module \in Seq(Made) /\ Len(module) <= Base /\ n <= Len(module)
      /\ b = ReadUpTo /\ (paths # <<>> => nclauses = Len(module[n].clauses))
  BY <1>1 DEF Inv, FileWritten, Counted, InStep
<1>3. CASE paths = <<>>
  <2>1. n = 0
    BY <1>1, <1>3, NoPaths
  <2>2. b = 9
    BY <1>2, <1>3 DEF ReadUpTo
  <2>3. PathEnds(module)[0] = 9
    BY <1>2, PathEndsFacts
  <2> QED
    BY <1>1, <1>3, <2>1, <2>2, <2>3
<1>4. CASE paths # <<>>
  <2>1. n \in 1..Len(paths) /\ n \in 1..Len(module)
    <3>1. n \in Nat \ {0} /\ Len(module) \in Nat
      BY <1>1, <1>2, <1>4 DEF PathsTyped
    <3> QED
      BY <1>1, <1>2, <3>1
  <2>2. PICK p, m : p = paths[n] /\ m = module[n]
    OBVIOUS
  <2>3. IsPrefix(p.clauses, m.clauses)
    BY <1>1, <2>1, <2>2 DEF Inv, AsGenerated, Begun
  <2>4. Len(p.clauses) = Len(m.clauses)
    BY <1>1, <1>2, <1>4, <2>2 DEF Complete
  <2>5. PICK C : p.clauses \in Seq(C)
    BY <1>2, <2>1, <2>2, PathTyped
  <2>6. m.clauses \in Seq(WideClauses)
    <3>1. m \in WidePaths
      BY <1>2, <2>1, <2>2, MadeIsWide
    <3> QED
      BY <3>1, PathFields DEF WidePaths
  <2>7. p.clauses = m.clauses
    BY <2>3, <2>4, <2>5, <2>6, PrefixAll
  <2>8. b = ClauseEnds(module, n)[Len(m.clauses)]
    BY <1>1, <1>2, <1>4, <2>2, <2>4 DEF ReadUpTo
  <2>9. ClauseEnds(module, n)[Len(m.clauses)] = PathEnds(module)[n]
    BY <1>2, <2>1, <2>2, ClauseEndsFacts
  <2> QED
    BY <1>1, <2>2, <2>7, <2>8, <2>9
<1> QED
  BY <1>3, <1>4

LEMMA ReadPathInv == Inv /\ ReadPath => Inv'
<1> SUFFICES ASSUME Inv, ReadPath PROVE Inv'
  OBVIOUS
<1>1. PICK n, r : n = Len(paths) /\ r = ReadPathAt(file, b)
  OBVIOUS
<1>2. /\ status = "opened" /\ Complete /\ n < pathsn /\ module' = module /\ file' = file /\ pathsn' = pathsn
  BY <1>1 DEF ReadPath
<1>3. /\ PathsTyped(paths) /\ module \in Seq(Made) /\ Len(module) <= Base /\ file = Dump(module)
      /\ pathsn = Len(module)
  BY <1>2 DEF Inv, FileWritten, Counted
<1>4. n \in Nat /\ Len(module) \in Nat /\ n + 1 \in 1..Len(module) /\ (n + 1) - 1 = n /\ n + 1 <= Len(module)
  <2>1. n \in Nat /\ Len(module) \in Nat
    BY <1>1, <1>3 DEF PathsTyped
  <2> QED
    BY <1>2, <1>3, <2>1
<1>5. ASSUME AllFit(n + 1)
      PROVE  /\ AllFit(n)
             /\ r.p = ClauseEnds(module, n + 1)[0] /\ r.p # 0
             /\ r.x.name = module[n + 1].name /\ r.x.nclauses = Len(module[n + 1].clauses)
  <2>1. AllFit(n) /\ module[n + 1] \in Fitting
    BY <1>4, <1>5 DEF AllFit
  <2>2. b = PathEnds(module)[n]
    BY <1>1, <1>2, <2>1, BetweenPaths
  <2>3. PICK m : m = n + 1
    OBVIOUS
  <2>4. m \in 1..Len(module) /\ m - 1 = n /\ module[m] \in Fitting
    BY <1>4, <2>1, <2>3
  <2>5. PICK u, x : u = ClauseEnds(module, m) /\ x = [name |-> module[m].name, nclauses |-> Len(module[m].clauses)]
    OBVIOUS
  <2>6. ReadPathAt(Dump(module), PathEnds(module)[m - 1]) = At(u[0], x)
    BY <1>3, <2>4, <2>5, FittingRead
  <2>7. u[0] # 0
    <3>1. module[m].clauses \in Seq(WideClauses)
      <4>1. module[m] \in WidePaths
        BY <1>3, <2>4, MadeIsWide
      <4> QED
        BY <4>1, PathFields DEF WidePaths
    <3>2. 0 \in 0..Len(module[m].clauses)
      BY <3>1
    <3> QED
      BY <1>3, <2>4, <2>5, <3>2, FittingRead
  <2>8. r = At(u[0], x)
    BY <1>1, <1>3, <2>2, <2>4, <2>6
  <2>9. r.p = u[0] /\ r.x = x
    BY <2>8, AtParts
  <2> QED
    BY <2>1, <2>3, <2>5, <2>7, <2>9
<1>6. CASE r.p = 0
  <2>1. status' = "crashed" /\ b' = b /\ paths' = paths /\ nclauses' = nclauses
    BY <1>1, <1>6 DEF ReadPath
  <2>2. ~AllFit(n + 1)
    BY <1>5, <1>6
  <2>3. ~Within(module)
    BY <1>4, <2>2 DEF Within, AllFit
  <2>4. ~Within(module')
    BY <1>2, <2>3
  <2>5. NotCrashed'
    BY <2>4 DEF NotCrashed, Within
  <2>6. AsGenerated'
    BY <1>2, <2>1 DEF Inv, AsGenerated, AllFit, Begun
  <2> QED
    BY <1>2, <1>3, <2>1, <2>5, <2>6 DEF Inv, Unread, FileWritten, Counted, InStep, LoadedWhole
<1>7. CASE r.p # 0
  <2>1. /\ b' = r.p /\ paths' = Append(paths, [name |-> r.x.name, clauses |-> <<>>])
        /\ nclauses' = r.x.nclauses /\ status' = "opened"
    BY <1>1, <1>2, <1>7 DEF ReadPath
  <2>2. /\ PathsTyped(paths') /\ Len(paths') = n + 1 /\ paths' # <<>>
        /\ \A i \in 1..n : paths'[i] = paths[i]
        /\ paths'[n + 1].name = r.x.name /\ paths'[n + 1].clauses = <<>>
    <3>1. PICK qs, s : qs = paths' /\ s = r.x.name
      OBVIOUS
    <3>2. WithPath(paths, s, qs)
      BY <2>1, <3>1 DEF WithPath
    <3>3. /\ PathsTyped(qs) /\ Len(qs) = Len(paths) + 1 /\ qs # <<>>
          /\ \A i \in 1..Len(paths) : qs[i] = paths[i]
          /\ qs[Len(qs)].name = s /\ qs[Len(qs)].clauses = <<>>
      BY <1>3, <3>2, PathAdded
    <3> QED
      BY <1>1, <3>1, <3>3
  <2>3. AsGenerated'
    <3>1. SUFFICES ASSUME NEW k \in 1..Len(paths'), AllFit(k)
                   PROVE  /\ paths'[k].name = module[k].name /\ IsPrefix(paths'[k].clauses, module[k].clauses)
                          /\ k # n + 1 => paths'[k].clauses = module[k].clauses
      BY <1>2, <2>2 DEF AsGenerated, AllFit, Begun
    <3>2. CASE k = n + 1
      <4>1. module[k].name = r.x.name
        BY <1>5, <3>1, <3>2
      <4>2. IsPrefix(<<>>, module[k].clauses)
        <5>1. module[k] \in WidePaths
          BY <1>3, <1>4, <3>2, MadeIsWide
        <5>2. module[k].clauses \in Seq(WideClauses)
          BY <5>1, PathFields DEF WidePaths
        <5> QED
          BY <5>2, PrefixNone
      <4> QED
        BY <2>2, <3>2, <4>1, <4>2
    <3>3. CASE k # n + 1
      <4>1. k \in 1..n
        BY <1>4, <2>2, <3>3
      <4>2. k \in 1..Len(paths)
        BY <1>1, <4>1
      <4>3. Begun(k) /\ (k # n => paths[k].clauses = module[k].clauses)
        BY <1>1, <3>1, <4>2 DEF Inv, AsGenerated
      <4>4. k = n => paths[k].clauses = module[k].clauses
        <5>1. SUFFICES ASSUME k = n PROVE paths[n].clauses = module[n].clauses
          OBVIOUS
        <5>2. AllFit(Len(paths)) /\ paths # <<>>
          BY <1>1, <3>1, <4>2, <5>1, NoPaths
        <5> QED
          BY <1>1, <1>2, <5>2, BetweenPaths
      <4> QED
        BY <2>2, <4>1, <4>3, <4>4 DEF Begun
    <3> QED
      BY <3>2, <3>3
  <2>4. InStep'
    <3>1. SUFFICES ASSUME AllFit(n + 1)
                   PROVE  b' = ReadUpTo' /\ nclauses' = Len(module[n + 1].clauses)
      BY <1>2, <2>1, <2>2 DEF InStep, AllFit
    <3>2. ReadUpTo' = ClauseEnds(module, n + 1)[0]
      <4>1. Len(<<>>) = 0
        OBVIOUS
      <4>2. ReadUpTo' = ClauseEnds(module', n + 1)[Len(<<>>)]
        BY <2>2 DEF ReadUpTo
      <4> QED
        BY <1>2, <4>1, <4>2
    <3> QED
      BY <1>5, <2>1, <3>1, <3>2
  <2>5. Counted'
    BY <1>2, <1>3, <1>4, <2>2 DEF Counted
  <2> QED
    BY <1>2, <1>3, <2>1, <2>2, <2>3, <2>4, <2>5 DEF Inv, Unread, FileWritten, LoadedWhole, NotCrashed
<1> QED
  BY <1>6, <1>7

LEMMA ReadClauseInv == Inv /\ ReadClause => Inv'
<1> SUFFICES ASSUME Inv, ReadClause PROVE Inv'
  OBVIOUS
<1>1. PICK n, r, s : n = Len(paths) /\ r = ReadClauseAt(file, b) /\ s = paths[n].clauses
  OBVIOUS
<1>2. /\ status = "opened" /\ ~Complete /\ module' = module /\ file' = file /\ pathsn' = pathsn
      /\ nclauses' = nclauses
  BY DEF ReadClause
<1>3. /\ PathsTyped(paths) /\ module \in Seq(Made) /\ Len(module) <= Base /\ file = Dump(module)
      /\ pathsn = Len(module) /\ n <= Len(module)
  BY <1>1, <1>2 DEF Inv, FileWritten, Counted
<1>4. paths # <<>> /\ Len(s) # nclauses
  BY <1>1, <1>2 DEF Complete
<1>5. n \in Nat \ {0} /\ n \in 1..Len(paths) /\ n \in 1..Len(module)
  <2>1. n \in Nat \ {0} /\ Len(module) \in Nat
    BY <1>1, <1>3, <1>4 DEF PathsTyped
  <2> QED
    BY <1>1, <1>3, <2>1
<1>6. PICK m : m = module[n].clauses
  OBVIOUS
<1>7. m \in Seq(WideClauses)
  <2>1. module[n] \in WidePaths
    BY <1>3, <1>5, MadeIsWide
  <2> QED
    BY <1>6, <2>1, PathFields DEF WidePaths
<1>8. PICK C : s \in Seq(C)
  BY <1>1, <1>3, <1>5, PathTyped
<1>9. PICK k : k = Len(s)
  OBVIOUS
<1>10. ASSUME AllFit(n)
       PROVE  /\ IsPrefix(s, m) /\ k < Len(m)
              /\ r.p = ClauseEnds(module, n)[k + 1] /\ r.p # 0 /\ r.x = m[k + 1]
  <2>1. IsPrefix(s, m)
    BY <1>1, <1>5, <1>6, <1>10 DEF Inv, AsGenerated, Begun
  <2>2. b = ClauseEnds(module, n)[k] /\ nclauses = Len(m)
    BY <1>1, <1>2, <1>4, <1>6, <1>9, <1>10 DEF Inv, InStep, ReadUpTo
  <2>3. k \in Nat /\ Len(m) \in Nat /\ k <= Len(m)
    <3>1. Len(s) <= Len(m)
      BY <1>7, <1>8, <2>1, PrefixFacts
    <3> QED
      BY <1>7, <1>8, <1>9, <3>1
  <2>4. k < Len(m)
    BY <1>4, <1>9, <2>2, <2>3
  <2>5. PICK j : j = k + 1
    OBVIOUS
  <2>6. j \in 1..Len(m) /\ j - 1 = k /\ j \in 0..Len(m)
    BY <2>3, <2>4, <2>5
  <2>7. module[n] \in Fitting
    BY <1>5, <1>10 DEF AllFit
  <2>8. PICK u : u = ClauseEnds(module, n)
    OBVIOUS
  <2>9. ReadClauseAt(Dump(module), u[j - 1]) = At(u[j], m[j])
    BY <1>3, <1>5, <1>6, <2>6, <2>7, <2>8, FittingRead
  <2>10. u[j] # 0
    BY <1>3, <1>5, <1>6, <2>6, <2>7, <2>8, FittingRead
  <2>11. r = At(u[j], m[j])
    BY <1>1, <1>3, <2>2, <2>6, <2>8, <2>9
  <2>12. r.p = u[j] /\ r.x = m[j]
    BY <2>11, AtParts
  <2> QED
    BY <2>1, <2>4, <2>5, <2>8, <2>10, <2>12
<1>11. CASE r.p = 0
  <2>1. status' = "crashed" /\ b' = b /\ paths' = paths
    BY <1>1, <1>11 DEF ReadClause
  <2>2. ~AllFit(n)
    BY <1>10, <1>11
  <2>3. ~Within(module)
    <3>1. ASSUME Within(module) PROVE AllFit(n)
      <4>1. \A i \in 1..n : i \in 1..Len(module)
        BY <1>5
      <4> QED
        BY <3>1, <4>1 DEF Within, AllFit
    <3> QED
      BY <2>2, <3>1
  <2>4. ~Within(module')
    BY <1>2, <2>3
  <2>5. NotCrashed'
    BY <2>4 DEF NotCrashed, Within
  <2>6. AsGenerated'
    BY <1>2, <2>1 DEF Inv, AsGenerated, AllFit, Begun
  <2> QED
    BY <1>2, <1>3, <2>1, <2>5, <2>6 DEF Inv, Unread, FileWritten, Counted, InStep, LoadedWhole
<1>12. CASE r.p # 0
  <2>1. /\ b' = r.p /\ paths' = [paths EXCEPT ![Len(paths)].clauses = Append(@, r.x)]
        /\ status' = "opened"
    BY <1>1, <1>2, <1>12 DEF ReadClause
  <2>2. /\ PathsTyped(paths') /\ Len(paths') = n /\ paths' # <<>>
        /\ \A i \in 1..n : i # n => paths'[i] = paths[i]
        /\ paths'[n].name = paths[n].name /\ paths'[n].clauses = Append(s, r.x)
    <3>1. PICK qs, x : qs = paths' /\ x = r.x
      OBVIOUS
    <3>2. WithClause(paths, x, qs)
      BY <2>1, <3>1 DEF WithClause
    <3>3. /\ PathsTyped(qs) /\ Len(qs) = Len(paths) /\ qs # <<>>
          /\ \A i \in 1..Len(paths) : i # Len(paths) => qs[i] = paths[i]
          /\ qs[Len(paths)].name = paths[Len(paths)].name
          /\ qs[Len(paths)].clauses = Append(paths[Len(paths)].clauses, x)
      BY <1>3, <1>4, <3>2, ClauseAdded
    <3> QED
      BY <1>1, <3>1, <3>3
  <2>3. ASSUME AllFit(n) PROVE IsPrefix(Append(s, r.x), m) /\ Len(Append(s, r.x)) = k + 1
    <3>1. PICK e : e = r.x
      OBVIOUS
    <3>2. IsPrefix(s, m) /\ Len(s) < Len(m) /\ e = m[Len(s) + 1]
      BY <1>9, <1>10, <2>3, <3>1
    <3>3. IsPrefix(Append(s, e), m) /\ Len(Append(s, e)) = Len(s) + 1
      BY <1>7, <1>8, <3>2, PrefixNext
    <3> QED
      BY <1>9, <3>1, <3>3
  <2>4. AsGenerated'
    <3>1. SUFFICES ASSUME NEW i \in 1..Len(paths'), AllFit(i)
                   PROVE  /\ paths'[i].name = module[i].name /\ IsPrefix(paths'[i].clauses, module[i].clauses)
                          /\ i # n => paths'[i].clauses = module[i].clauses
      BY <1>2, <2>2 DEF AsGenerated, AllFit, Begun
    <3>2. i \in 1..n /\ i \in 1..Len(paths)
      BY <1>1, <2>2
    <3>3. Begun(i) /\ (i # n => paths[i].clauses = module[i].clauses)
      BY <1>1, <3>1, <3>2 DEF Inv, AsGenerated
    <3>4. CASE i = n
      BY <1>6, <2>2, <2>3, <3>1, <3>3, <3>4 DEF Begun
    <3>5. CASE i # n
      BY <2>2, <3>2, <3>3, <3>5 DEF Begun
    <3> QED
      BY <3>4, <3>5
  <2>5. InStep'
    <3>1. SUFFICES ASSUME AllFit(n)
                   PROVE  b' = ReadUpTo' /\ nclauses' = Len(m)
      BY <1>2, <1>6, <2>1, <2>2 DEF InStep, AllFit
    <3>2. ReadUpTo' = ClauseEnds(module, n)[k + 1]
      <4>1. ReadUpTo' = ClauseEnds(module', n)[Len(Append(s, r.x))]
        BY <2>2 DEF ReadUpTo
      <4> QED
        BY <1>2, <2>3, <3>1, <4>1
    <3>3. nclauses = Len(m)
      BY <1>1, <1>2, <1>4, <1>6, <3>1 DEF Inv, InStep
    <3> QED
      BY <1>2, <1>10, <2>1, <3>1, <3>2, <3>3
  <2>6. Counted'
    BY <1>2, <1>3, <2>2 DEF Counted
  <2> QED
    BY <1>2, <1>3, <2>1, <2>2, <2>4, <2>5, <2>6 DEF Inv, Unread, FileWritten, LoadedWhole, NotCrashed
<1> QED
  BY <1>11, <1>12

LEMMA NextInv == Inv /\ [Next]_vars => Inv'
<1> SUFFICES ASSUME Inv, [Next]_vars PROVE Inv'
  OBVIOUS
<1>1. CASE Write
  BY <1>1, WriteInv
<1>2. CASE Open
  BY <1>2, OpenInv
<1>3. CASE ReadPath
  BY <1>3, ReadPathInv
<1>4. CASE ReadClause
  BY <1>4, ReadClauseInv
<1>5. CASE Loaded
  BY <1>5, LoadedInv
<1>6. CASE UNCHANGED vars
  BY <1>6
  DEF vars, Inv, Unread, FileWritten, Counted, AsGenerated, AllFit, Begun, InStep, ReadUpTo,
      LoadedWhole, Complete, NotCrashed, Within
<1> QED
  BY <1>1, <1>2, <1>3, <1>4, <1>5, <1>6 DEF Next

\* The loader reads in step with what was written: the next byte is always the
\* first one of what the generator wrote next, as long as the paths are inside
\* of the limits.
THEOREM Invariance == Spec => []Inv
<1>1. Init => Inv
  BY InitInv
<1>2. Inv /\ [Next]_vars => Inv'
  BY NextInv
<1> QED
  BY <1>1, <1>2, PTL DEF Spec

\* While vm_open reads, the paths it has are the generator's, with as many of
\* their clauses as it has read, as long as they are inside of the limits: no
\* parameter or constant is read as shorter or longer than it was written.
THEOREM StaysInStep == Spec => []ReadsInStep
<1>1. Inv => ReadsInStep
  BY DEF Inv, AsGenerated, AllFit, Begun, ReadsInStep
<1> QED
  BY <1>1, Invariance, PTL

\* What is inside of the limits is written by generate and read by vm_open
\* without a crash, to the last byte, and the machine has what was generated.
THEOREM LoadsWhatFits == Spec => []LoadsWithin
<1>1. Inv => LoadsWithin
  <2> SUFFICES ASSUME Inv, Within(module)
               PROVE  status # "crashed" /\ (status = "loaded" => paths = module /\ b = Len(file) + 1)
    BY DEF LoadsWithin
  <2>1. status # "crashed"
    BY DEF Inv, NotCrashed
  <2>2. ASSUME status = "loaded" PROVE paths = module /\ b = Len(file) + 1
    <3>1. /\ module \in Seq(Made) /\ PathsTyped(paths) /\ Len(module) <= Base /\ file = Dump(module)
          /\ Complete /\ Len(paths) = Len(module)
      BY <2>2 DEF Inv, FileWritten, LoadedWhole
    <3>2. PICK n : n = Len(module)
      OBVIOUS
    <3>3. \A i \in 1..n : AllFit(i) /\ module[i] \in Fitting
      <4>1. n \in Nat
        BY <3>1, <3>2
      <4> QED
        BY <3>2, <4>1 DEF AllFit, Within
    <3>4. AllFit(n)
      BY <3>3 DEF AllFit
    <3>5. b = ReadUpTo /\ (paths # <<>> => nclauses = Len(module[n].clauses))
      BY <2>2, <3>1, <3>2, <3>4 DEF Inv, InStep
    <3>6. ASSUME NEW i \in 1..n PROVE paths[i] = module[i]
      <4>1. i \in 1..Len(paths) /\ i \in 1..Len(module)
        BY <3>1, <3>2
      <4>2. Begun(i) /\ (i # n => paths[i].clauses = module[i].clauses)
        BY <3>1, <3>2, <3>3, <4>1 DEF Inv, AsGenerated
      <4>3. module[i] \in WidePaths
        BY <3>1, <4>1, MadeIsWide
      <4>4. module[i].clauses \in Seq(WideClauses) /\ module[i] = [name |-> module[i].name, clauses |-> module[i].clauses]
        BY <4>3, PathFields DEF WidePaths
      <4>5. paths[i] = [name |-> paths[i].name, clauses |-> paths[i].clauses]
        BY <3>1, <4>1, PathTyped
      <4>6. ASSUME i = n PROVE paths[i].clauses = module[i].clauses
        <5>1. PICK s, m : s = paths[i].clauses /\ m = module[i].clauses
          OBVIOUS
        <5>2. PICK C : s \in Seq(C)
          BY <3>1, <4>1, <5>1, PathTyped
        <5>3. Len(s) = Len(m)
          <6>1. paths # <<>>
            BY <4>1, NoPaths
          <6> QED
            BY <3>1, <3>2, <3>5, <4>6, <5>1, <6>1 DEF Complete
        <5>4. m \in Seq(WideClauses) /\ IsPrefix(s, m)
          BY <4>2, <4>4, <5>1 DEF Begun
        <5> QED
          BY <5>1, <5>2, <5>3, <5>4, PrefixAll
      <4>7. paths[i].clauses = module[i].clauses
        BY <4>2, <4>6
      <4> QED
        BY <4>2, <4>4, <4>5, <4>7 DEF Begun
    <3>7. paths = module
      <4>1. paths = [i \in 1..Len(paths) |-> paths[i]] /\ module = [i \in 1..Len(module) |-> module[i]]
        BY <3>1 DEF PathsTyped
      <4> QED
        BY <3>1, <3>2, <3>6, <4>1
    <3>8. PathEnds(module)[n] = Len(file) + 1 /\ PathEnds(module)[0] = 9
      BY <3>1, <3>2, PathEndsFacts
    <3>9. b = PathEnds(module)[n]
      <4>1. CASE paths = <<>>
        <5>1. n = 0
          BY <3>1, <3>2, <4>1, NoPaths
        <5> QED
          BY <3>5, <3>8, <4>1, <5>1 DEF ReadUpTo
      <4>2. CASE paths # <<>>
        <5>1. n \in 1..n
          <6>1. n \in Nat \ {0}
            BY <3>1, <3>2, <4>2 DEF PathsTyped
          <6> QED
            BY <6>1
        <5>2. ClauseEnds(module, n)[Len(module[n].clauses)] = PathEnds(module)[n]
          BY <3>1, <3>2, <5>1, ClauseEndsFacts
        <5>3. b = ClauseEnds(module, n)[Len(module[n].clauses)]
          BY <3>2, <3>5, <3>7, <4>2 DEF ReadUpTo
        <5> QED
          BY <5>2, <5>3
      <4> QED
        BY <4>1, <4>2
    <3> QED
      BY <3>7, <3>8, <3>9
  <2> QED
    BY <2>1, <2>2
<1> QED
  BY <1>1, Invariance, PTL
================================================================================
