----------------------------- MODULE LayoutProofs -----------------------------
(***************************************************************************)
(* Proofs about arbre's scanner: for all files, T_INDENTs and T_DEDENTs    *)
(* balance, lines of the same indentation stay in the same block, and the  *)
(* line table has the room it claims.                                      *)
(*                                                                         *)
(* The argument: a call of scan returns one token, which changes the depth *)
(* (T_INDENTs minus T_DEDENTs) by as much as the levels and the pending    *)
(* T_DEDENTs change.  A file that ends in a newline is read up to the      *)
(* empty line behind it, the only one whose indentation is certain: it is  *)
(* 0, so that scan_indent leaves no level, and T_EOF is only returned when *)
(* no T_DEDENT is pending.                                                 *)
(*                                                                         *)
(* As for the blocks: scan_indent puts a line at the first level that is   *)
(* not less than its indentation, and a line that is at least as far in    *)
(* cannot make it leave that level.                                        *)
(***************************************************************************)
EXTENDS Layout, FiniteSetTheorems, TLAPS

OutToken == [t : LineKinds \cup LayoutKinds, v : Nat]

\* The tokens of a line are neither T_INDENT nor T_DEDENT, T_LF or T_EOF, and the
\* indentation of a line is a number.
LEMMA LineFacts ==
    ASSUME file \in Files, NEW l \in Nat \ {0}
    PROVE  /\ Toks(l) \in Seq(Tokens)
           /\ Indent(l) \in Nat
           /\ LastLine \in Nat \ {0}
<1>1. /\ file.lines \in Seq([ind : Nat, toks : Seq(Tokens)])
      /\ Len(file.lines) > 0
  BY FilesAssumption
<1>2. LastLine \in Nat \ {0}
  BY <1>1 DEF LastLine
<1>3. CASE l > LastLine
  BY <1>2, <1>3 DEF Toks, Indent
<1>4. CASE ~(l > LastLine)
  <2>1. l \in 1..Len(file.lines)
    BY <1>2, <1>4 DEF LastLine
  <2>2. file.lines[l] \in [ind : Nat, toks : Seq(Tokens)]
    <3> DEFINE R == [ind : Nat, toks : Seq(Tokens)]
    <3>1. file.lines \in Seq(R)
      BY <1>1
    <3> HIDE DEF R
    <3>2. file.lines[l] \in R
      BY <2>1, <3>1
    <3> QED
      BY <3>2 DEF R
  <2>3. file.lines[l].ind \in Nat /\ file.lines[l].toks \in Seq(Tokens)
    BY <2>2
  <2>4. Indent(l) \in Nat
    BY <2>3, <1>4 DEF Indent
  <2>5. CASE ~(AtLast(l) /\ file.lines[l].toks # <<>>)
    BY <2>3, <2>4, <2>5, <1>2, <1>4 DEF Toks
  <2>6. CASE AtLast(l) /\ file.lines[l].toks # <<>>
    <3> DEFINE ts == file.lines[l].toks
    <3>1. Len(ts) \in Nat /\ Len(ts) > 0 /\ ts[Len(ts)] \in Tokens
      BY <2>3, <2>6
    <3>2. ASSUME NEW t \in Tokens PROVE Twice(t) \in Seq(Tokens)
      <4>1. t.v \in Nat /\ 10 * t.v + t.v \in Nat
        BY DEF Tokens
      <4>2. [t EXCEPT !.v = 10 * t.v + t.v] \in Tokens
        BY <4>1 DEF Tokens
      <4> QED
        BY <4>2 DEF Twice
    <3>3. SubSeq(ts, 1, Len(ts) - 1) \in Seq(Tokens)
      BY <2>3, <3>1
    <3>4. SubSeq(ts, 1, Len(ts) - 1) \o Twice(ts[Len(ts)]) \in Seq(Tokens)
      BY <3>1, <3>2, <3>3
    <3>5. Toks(l) = SubSeq(ts, 1, Len(ts) - 1) \o Twice(ts[Len(ts)])
      BY <2>6, <1>4 DEF Toks
    <3> QED
      BY <3>4, <3>5, <2>4, <1>2
  <2> QED
    BY <2>5, <2>6
<1> QED
  BY <1>2, <1>3, <1>4

\* Where a line starts there is a line, and behind the end of a file that ends in
\* a newline it is the empty one.
LEMMA HereFacts ==
    ASSUME IInv
    PROVE  /\ Here \in Nat \ {0}
           /\ Here <= LastLine + 2
           /\ Here = LastLine + 2 => file.ended
           /\ Read \in Nat
<1>1. LastLine \in Nat \ {0} /\ line \in Nat \ {0} /\ col \in Nat
  BY LineFacts DEF IInv, TypeOK
<1>2. CASE lf
  BY <1>1, <1>2 DEF IInv, HasLF, Here, Read
<1>3. CASE ~lf
  BY <1>1, <1>3 DEF IInv, Here, Read
<1> QED
  BY <1>2, <1>3

\* The table of lines after newline(s).
LEMMA NewLineFacts ==
    ASSUME IInv, NewLine
    PROVE  /\ line' = Here
           /\ lineps' \in Seq(Nat) /\ Len(lineps') = line'
           /\ bytes' = IF line' >= TableSize THEN TableSize * 2 ELSE TableSize * PtrSize
           /\ bytes' \in Nat
<1>1. /\ Here \in Nat \ {0}
      /\ line \in Nat \ {0} /\ lineps \in Seq(Nat) /\ Len(lineps) = line
      /\ bytes = IF line >= TableSize THEN TableSize * 2 ELSE TableSize * PtrSize
  BY HereFacts DEF IInv, TypeOK
<1>2. /\ TableSize \in Nat /\ PtrSize \in Nat
      /\ TableSize * 2 \in Nat /\ TableSize * PtrSize \in Nat
  BY TableAssumption
<1>3. CASE lf
  <2>1. /\ line' = line + 1 /\ lineps' = Append(lineps, Here)
        /\ bytes' = IF Len(lineps) + 1 >= TableSize THEN TableSize * 2 ELSE bytes
    BY <1>3 DEF NewLine, AddLine, Here
  <2>2. lineps' \in Seq(Nat) /\ Len(lineps') = line'
    BY <1>1, <2>1
  <2> QED
    BY <1>1, <1>2, <2>1, <2>2, <1>3 DEF Here
<1>4. CASE ~lf
  BY <1>1, <1>2, <1>4 DEF NewLine, Here
<1> QED
  BY <1>3, <1>4

\* The positions of the tokens t of a sequence.
Positions(t, s) == {i \in 1..Len(s) : s[i].t = t}

\* A token at the end of a sequence adds to the number of its kind.
LEMMA CountAppend ==
    ASSUME NEW s \in Seq(OutToken), NEW tok \in OutToken, NEW t \in LayoutKinds
    PROVE  /\ Cardinality(Positions(t, s)) \in Nat
           /\ Cardinality(Positions(t, Append(s, tok)))
                = Cardinality(Positions(t, s)) + (IF tok.t = t THEN 1 ELSE 0)
<1> DEFINE n == Len(s)
<1>1. n \in Nat
  OBVIOUS
<1>2. IsFiniteSet(Positions(t, s)) /\ Cardinality(Positions(t, s)) \in Nat
  <2>1. IsFiniteSet(1..n)
    BY <1>1, FS_Interval
  <2>2. IsFiniteSet(Positions(t, s))
    BY <2>1, FS_Subset DEF Positions
  <2> QED
    BY <2>2, FS_CardinalityType
<1>3. /\ Len(Append(s, tok)) = n + 1
      /\ \A i \in 1..n : Append(s, tok)[i] = s[i]
      /\ Append(s, tok)[n + 1] = tok
  BY <1>1
<1>4. CASE tok.t = t
  <2>1. Positions(t, Append(s, tok)) = Positions(t, s) \cup {n + 1}
    BY <1>1, <1>3, <1>4 DEF Positions
  <2>2. n + 1 \notin Positions(t, s)
    BY <1>1 DEF Positions
  <2>3. Cardinality(Positions(t, Append(s, tok))) = Cardinality(Positions(t, s)) + 1
    BY <1>2, <2>1, <2>2, FS_AddElement
  <2> QED
    BY <1>2, <1>4, <2>3
<1>5. CASE tok.t # t
  <2>1. Positions(t, Append(s, tok)) = Positions(t, s)
    BY <1>1, <1>3, <1>5 DEF Positions
  <2> QED
    BY <1>2, <1>5, <2>1
<1> QED
  BY <1>2, <1>4, <1>5

\* A token changes the depth by what it opens or closes.
LEMMA DepthReturn ==
    ASSUME out \in Seq(OutToken), NEW tok \in OutToken, Return(tok)
    PROVE  /\ out' \in Seq(OutToken)
           /\ Depth(Len(out)) \in Int
           /\ Depth(Len(out))' = Depth(Len(out)) + (IF tok.t = "INDENT" THEN 1
                                                    ELSE IF tok.t = "DEDENT" THEN -1 ELSE 0)
           /\ AtEOF' <=> tok.t = "EOF"
<1>1. out' = Append(out, tok)
  BY DEF Return
<1>0. "INDENT" \in LayoutKinds /\ "DEDENT" \in LayoutKinds
  BY DEF LayoutKinds
<1>2. /\ Cardinality(Positions("INDENT", out)) \in Nat
      /\ Cardinality(Positions("INDENT", Append(out, tok)))
           = Cardinality(Positions("INDENT", out)) + (IF tok.t = "INDENT" THEN 1 ELSE 0)
  BY <1>0, CountAppend
<1>3. /\ Cardinality(Positions("DEDENT", out)) \in Nat
      /\ Cardinality(Positions("DEDENT", Append(out, tok)))
           = Cardinality(Positions("DEDENT", out)) + (IF tok.t = "DEDENT" THEN 1 ELSE 0)
  BY <1>0, CountAppend
<1>4. out' \in Seq(OutToken) /\ Len(out') = Len(out) + 1 /\ out'[Len(out')] = tok /\ out' # <<>>
  BY <1>1
<1>5. AtEOF' <=> tok.t = "EOF"
  BY <1>4 DEF AtEOF
<1>6. Depth(Len(out)) = Cardinality(Positions("INDENT", out)) - Cardinality(Positions("DEDENT", out))
  BY DEF Depth, Count, Positions
<1>7. Depth(Len(out))' = Cardinality(Positions("INDENT", Append(out, tok)))
                           - Cardinality(Positions("DEDENT", Append(out, tok)))
  BY <1>1 DEF Depth, Count, Positions
<1> QED
  BY <1>2, <1>3, <1>4, <1>5, <1>6, <1>7

\* A token with neither a value nor a place in the file.
LEMMA MarkType == \A t \in LayoutKinds : Token(t) \in OutToken /\ Token(t).t = t
  BY DEF Token, OutToken

\* Levels that grow from 0 do so after levels are left.
LEMMA LevelsPrefix ==
    ASSUME TypeOK, NEW n \in 1..Len(lvls)
    PROVE  LET k == SubSeq(lvls, 1, n)
           IN /\ k \in Seq(Nat) /\ Len(k) = n /\ k[1] = 0
              /\ \A i \in 2..n : k[i - 1] < k[i]
<1> DEFINE k == SubSeq(lvls, 1, n)
<1>1. lvls \in Seq(Nat) /\ n \in Nat /\ n > 0 /\ n <= Len(lvls)
  BY DEF TypeOK
<1>2. k \in Seq(Nat) /\ Len(k) = n /\ \A i \in 1..n : k[i] = lvls[i]
  BY <1>1
<1>3. \A i \in 2..n : i \in 2..Len(lvls) /\ i \in 1..n /\ i - 1 \in 1..n
  BY <1>1
<1>4. k[1] = 0
  BY <1>1, <1>2 DEF TypeOK
<1> HIDE DEF k
<1>5. \A i \in 2..n : k[i - 1] < k[i]
  BY <1>2, <1>3 DEF TypeOK
<1> QED
  BY <1>2, <1>4, <1>5 DEF k

\* The empty line behind a file leaves only level 0.
LEMMA EndLeavesNone ==
    ASSUME IInv, NEW n \in 1..Len(lvls), ~Deeper, Keeps(n), Here = LastLine + 2
    PROVE  n = 1
<1>1. LastLine \in Nat \ {0} /\ lvls \in Seq(Nat) /\ n \in Nat
  BY LineFacts DEF IInv, TypeOK
<1>2. Indent(Here) = 0
  BY <1>1 DEF Indent
<1>3. CASE lf
  <2>1. n > 1 => lvls[n - 1] < 0
    BY <1>2, <1>3 DEF Keeps
  <2>2. n > 1 => lvls[n - 1] \in Nat
    BY <1>1
  <2> QED
    BY <1>1, <2>1, <2>2
<1>4. CASE ~lf
  BY <1>4 DEF Keeps, Here, IInv
<1> QED
  BY <1>3, <1>4

\* The initial state satisfies the inductive invariant.
LEMMA InitIInv == Init => IInv
<1> SUFFICES ASSUME Init PROVE IInv
  OBVIOUS
<1>1. file \in Files /\ LastLine \in Nat \ {0}
  BY LineFacts DEF Init
<1>2. TableSize \in Nat \ {0} /\ PtrSize \in Nat \ {0} /\ TableSize * PtrSize \in Nat
  BY TableAssumption
<1>3. TypeOK
  <2>1. lf \in BOOLEAN
    BY DEF Init
  <2>2. lvls \in Seq(Nat) /\ Len(lvls) = 1 /\ lvls[1] = 0 /\ 2..Len(lvls) = {}
    BY DEF Init
  <2>3. lineps \in Seq(Nat) /\ Len(lineps) = line /\ line \in Nat \ {0} /\ col \in Nat /\ dedent \in Nat
    BY DEF Init
  <2>4. bytes \in Nat
    BY <1>2 DEF Init
  <2> QED
    BY <2>1, <2>2, <2>3, <2>4 DEF TypeOK
<1>4. Nests
  <2>1. 1..Len(out) = {}
    BY DEF Init
  <2>2. \A t : {i \in 1..Len(out) : out[i].t = t} = {}
    BY <2>1
  <2>3. Count("INDENT", Len(out)) = 0 /\ Count("DEDENT", Len(out)) = 0
    BY <2>2, FS_EmptySet DEF Count
  <2> QED
    BY <2>3 DEF Init, Nests, Depth
<1>5. bytes = IF line >= TableSize THEN TableSize * 2 ELSE TableSize * PtrSize
  BY <1>2 DEF Init
<1> QED
  BY <1>1, <1>3, <1>4, <1>5 DEF Init, IInv, AtEOF

\* A T_INDENT adds a level.
LEMMA ScanIndentIInv == IInv /\ ScanIndent => IInv'
<1> SUFFICES ASSUME IInv, ScanIndent PROVE IInv'
  OBVIOUS
<1> USE DEF ScanIndent
<1>1. file \in Files /\ LastLine \in Nat \ {0} /\ file' = file /\ LastLine' = LastLine
  BY LineFacts DEF IInv, LastLine
<1>2. Here \in Nat \ {0} /\ Here <= LastLine + 2 /\ (Here = LastLine + 2 => file.ended)
  BY HereFacts
<1>3. Indent(Here) \in Nat /\ Indent(Here) > lvls[Len(lvls)] /\ ~Blank(Here)
  BY <1>1, <1>2, LineFacts DEF Deeper
<1>4. /\ line' = Here /\ lineps' \in Seq(Nat) /\ Len(lineps') = line'
      /\ bytes' = IF line' >= TableSize THEN TableSize * 2 ELSE TableSize * PtrSize
      /\ bytes' \in Nat
  BY NewLineFacts
<1>5. /\ lvls' \in Seq(Nat) /\ Len(lvls') = Len(lvls) + 1 /\ Len(lvls') > 0 /\ lvls'[1] = 0
      /\ \A i \in 2..Len(lvls') : lvls'[i - 1] < lvls'[i]
  <2>1. lvls \in Seq(Nat) /\ Len(lvls) > 0 /\ lvls' = Append(lvls, Indent(Here))
    BY DEF IInv, TypeOK
  <2>2. \A i \in 1..Len(lvls) : lvls'[i] = lvls[i]
    BY <2>1, <1>3
  <2>3. lvls' \in Seq(Nat) /\ Len(lvls') = Len(lvls) + 1 /\ lvls'[Len(lvls) + 1] = Indent(Here)
    BY <2>1, <1>3
  <2>4. lvls'[1] = 0
    BY <2>1, <2>2 DEF IInv, TypeOK
  <2>5. ASSUME NEW i \in 2..Len(lvls') PROVE lvls'[i - 1] < lvls'[i]
    <3>1. CASE i = Len(lvls) + 1
      BY <2>1, <2>2, <2>3, <1>3, <3>1
    <3>2. CASE i # Len(lvls) + 1
      <4>1. i \in 2..Len(lvls) /\ i - 1 \in 1..Len(lvls) /\ i \in 1..Len(lvls)
        BY <2>1, <2>3, <3>2
      <4> QED
        BY <4>1, <2>2 DEF IInv, TypeOK
    <3> QED
      BY <3>1, <3>2
  <2> QED
    BY <2>1, <2>3, <2>4, <2>5
<1>6. TypeOK'
  <2>1. lf' \in BOOLEAN
    OBVIOUS
  <2>2. col' \in Nat /\ dedent' \in Nat
    <3>1. col' = 0 /\ dedent' = dedent
      OBVIOUS
    <3>2. dedent \in Nat
      BY DEF IInv, TypeOK
    <3> QED
      BY <3>1, <3>2
  <2> QED
    BY <2>1, <2>2, <1>2, <1>4, <1>5 DEF TypeOK
<1>7. Here # LastLine + 2
  <2>1. Here = LastLine + 2 => Indent(Here) = 0
    BY <1>1 DEF Indent
  <2>2. lvls[Len(lvls)] \in Nat
    BY DEF IInv, TypeOK
  <2> QED
    BY <1>3, <2>1, <2>2
<1>8. /\ out' \in Seq(OutToken) /\ ~AtEOF'
      /\ Depth(Len(out)) \in Int /\ Depth(Len(out))' = Depth(Len(out)) + 1
  BY MarkType, DepthReturn DEF IInv, OutToken, LayoutKinds
<1>9. Nests'
  BY <1>5, <1>8 DEF IInv, TypeOK, Nests
<1> QED
  BY <1>1, <1>2, <1>4, <1>6, <1>7, <1>8, <1>9 DEF IInv, OutToken

\* A T_DEDENT takes one of the levels that were left, or are pending.
LEMMA ScanDedentIInv == ASSUME NEW n \in 1..Len(lvls) PROVE IInv /\ ScanDedent(n) => IInv'
<1> SUFFICES ASSUME IInv, ScanDedent(n) PROVE IInv'
  OBVIOUS
<1> USE DEF ScanDedent
<1>1. file \in Files /\ LastLine \in Nat \ {0} /\ file' = file /\ LastLine' = LastLine
  BY LineFacts DEF IInv, LastLine
<1>2. /\ Here \in Nat \ {0} /\ Here <= LastLine + 2 /\ (Here = LastLine + 2 => file.ended)
      /\ Read \in Nat
  BY HereFacts
<1>3. Here = LastLine + 2 => n = 1
  BY EndLeavesNone
<1>4. /\ line' = Here /\ lineps' \in Seq(Nat) /\ Len(lineps') = line'
      /\ bytes' = IF line' >= TableSize THEN TableSize * 2 ELSE TableSize * PtrSize
      /\ bytes' \in Nat
  BY NewLineFacts
<1>5. /\ lvls' \in Seq(Nat) /\ Len(lvls') = n /\ lvls'[1] = 0
      /\ \A i \in 2..n : lvls'[i - 1] < lvls'[i]
  BY LevelsPrefix DEF IInv
<1>6. n \in Nat /\ n > 0 /\ Len(lvls) \in Nat /\ dedent \in Nat
  BY DEF IInv, TypeOK
<1>7. TypeOK'
  <2>1. lf' \in BOOLEAN
    OBVIOUS
  <2> QED
    BY <2>1, <1>2, <1>4, <1>5, <1>6 DEF TypeOK
<1>8. /\ out' \in Seq(OutToken) /\ ~AtEOF'
      /\ Depth(Len(out)) \in Int /\ Depth(Len(out))' = Depth(Len(out)) - 1
  BY MarkType, DepthReturn DEF IInv, OutToken, LayoutKinds
<1>9. Nests'
  BY <1>5, <1>6, <1>8 DEF IInv, Nests
<1> QED
  BY <1>1, <1>2, <1>3, <1>4, <1>5, <1>7, <1>8, <1>9 DEF IInv, OutToken

\* A token of the line changes no level.
LEMMA ScanTextIInv == ASSUME NEW n \in 1..Len(lvls) PROVE IInv /\ ScanText(n) => IInv'
<1> SUFFICES ASSUME IInv, ScanText(n) PROVE IInv'
  OBVIOUS
<1> USE DEF ScanText
<1>1. file \in Files /\ LastLine \in Nat \ {0} /\ file' = file /\ LastLine' = LastLine
  BY LineFacts DEF IInv, LastLine
<1>2. /\ Here \in Nat \ {0} /\ Here <= LastLine + 2 /\ (Here = LastLine + 2 => file.ended)
      /\ Read \in Nat
  BY HereFacts
<1>3. n \in Nat /\ n > 0 /\ Len(lvls) \in Nat /\ dedent \in Nat /\ n <= Len(lvls)
  BY DEF IInv, TypeOK
<1>4. n = Len(lvls) /\ dedent = 0
  BY <1>3
<1>5. Here = LastLine + 2 => Len(lvls) = 1
  BY <1>4, EndLeavesNone
<1>6. /\ line' = Here /\ lineps' \in Seq(Nat) /\ Len(lineps') = line'
      /\ bytes' = IF line' >= TableSize THEN TableSize * 2 ELSE TableSize * PtrSize
      /\ bytes' \in Nat
  BY NewLineFacts
<1>7. TypeOK'
  <2>1. lf' \in BOOLEAN
    OBVIOUS
  <2> QED
    BY <2>1, <1>2, <1>6 DEF IInv, TypeOK
<1> DEFINE tok == Toks(Here)[Read + 1]
<1>8. tok \in Tokens
  <2>1. Toks(Here) \in Seq(Tokens)
    BY <1>1, <1>2, LineFacts
  <2>2. Read + 1 \in 1..Len(Toks(Here))
    BY <2>1, <1>2
  <2> QED
    BY <2>1, <2>2
<1>9. tok \in OutToken /\ tok.t \notin {"INDENT", "DEDENT", "LF", "EOF"}
  BY <1>8 DEF Tokens, OutToken, LineKinds, LayoutKinds
<1>10. Return(tok)
  OBVIOUS
<1> HIDE DEF tok
<1>11. /\ out' \in Seq(OutToken) /\ ~AtEOF'
       /\ Depth(Len(out)) \in Int /\ Depth(Len(out))' = Depth(Len(out))
  <2>1. out \in Seq(OutToken)
    BY DEF IInv, OutToken
  <2>2. /\ out' \in Seq(OutToken)
        /\ Depth(Len(out)) \in Int
        /\ Depth(Len(out))' = Depth(Len(out)) + (IF tok.t = "INDENT" THEN 1
                                                ELSE IF tok.t = "DEDENT" THEN -1 ELSE 0)
        /\ AtEOF' <=> tok.t = "EOF"
    BY <2>1, <1>9, <1>10, DepthReturn
  <2> QED
    BY <2>2, <1>9 DEF LayoutKinds
<1>12. Nests'
  BY <1>11 DEF IInv, Nests
<1> QED
  BY <1>1, <1>2, <1>5, <1>6, <1>7, <1>11, <1>12 DEF IInv, OutToken

\* Neither does the end of a line, and a T_EOF comes when nothing is pending.
LEMMA ScanEndIInv == ASSUME NEW n \in 1..Len(lvls) PROVE IInv /\ ScanEnd(n) => IInv'
<1> SUFFICES ASSUME IInv, ScanEnd(n) PROVE IInv'
  OBVIOUS
<1> USE DEF ScanEnd
<1>1. /\ file \in Files /\ LastLine \in Nat \ {0} /\ file' = file /\ LastLine' = LastLine
      /\ file.ended \in BOOLEAN
  BY LineFacts, FilesAssumption DEF IInv, LastLine
<1>2. /\ Here \in Nat \ {0} /\ Here <= LastLine + 2 /\ (Here = LastLine + 2 => file.ended)
      /\ Read \in Nat
  BY HereFacts
<1>3. n \in Nat /\ n > 0 /\ Len(lvls) \in Nat /\ dedent \in Nat /\ n <= Len(lvls)
  BY DEF IInv, TypeOK
<1>4. n = Len(lvls) /\ dedent = 0
  BY <1>3
<1>5. Here = LastLine + 2 => Len(lvls) = 1
  BY <1>4, EndLeavesNone
<1>6. /\ line' = Here /\ lineps' \in Seq(Nat) /\ Len(lineps') = line'
      /\ bytes' = IF line' >= TableSize THEN TableSize * 2 ELSE TableSize * PtrSize
      /\ bytes' \in Nat
  BY NewLineFacts
<1>7. HasLF(Here) \in BOOLEAN /\ (lf' => HasLF(line)')
  BY <1>1, <1>6 DEF HasLF
<1>8. TypeOK'
  BY <1>2, <1>6, <1>7 DEF IInv, TypeOK
<1> DEFINE tok == Token(IF HasLF(Here) THEN "LF" ELSE "EOF")
<1>9. tok \in OutToken /\ tok.t = IF HasLF(Here) THEN "LF" ELSE "EOF"
  BY MarkType DEF LayoutKinds
<1>10. Return(tok)
  OBVIOUS
<1> HIDE DEF tok
<1>11. /\ out' \in Seq(OutToken) /\ (AtEOF' <=> ~HasLF(Here))
       /\ Depth(Len(out)) \in Int /\ Depth(Len(out))' = Depth(Len(out))
  <2>1. out \in Seq(OutToken)
    BY DEF IInv, OutToken
  <2>2. /\ out' \in Seq(OutToken)
        /\ Depth(Len(out)) \in Int
        /\ Depth(Len(out))' = Depth(Len(out)) + (IF tok.t = "INDENT" THEN 1
                                                ELSE IF tok.t = "DEDENT" THEN -1 ELSE 0)
        /\ AtEOF' <=> tok.t = "EOF"
    BY <2>1, <1>9, <1>10, DepthReturn
  <2> QED
    BY <2>2, <1>9 DEF LayoutKinds
<1>12. Nests'
  BY <1>11 DEF IInv, Nests
<1>13. ~HasLF(Here) /\ file.ended => Here = LastLine + 2
  BY <1>1, <1>2 DEF HasLF
<1> QED
  BY <1>1, <1>2, <1>4, <1>5, <1>6, <1>7, <1>8, <1>11, <1>12, <1>13 DEF IInv, OutToken

\* Every step keeps the inductive invariant.
LEMMA NextIInv == IInv /\ [Next]_vars => IInv'
<1> SUFFICES ASSUME IInv, [Next]_vars PROVE IInv'
  OBVIOUS
<1>1. CASE ScanIndent
  BY <1>1, ScanIndentIInv
<1>2. ASSUME NEW n \in 1..Len(lvls), ScanDedent(n) PROVE IInv'
  BY <1>2, ScanDedentIInv
<1>3. ASSUME NEW n \in 1..Len(lvls), ScanText(n) PROVE IInv'
  BY <1>3, ScanTextIInv
<1>4. ASSUME NEW n \in 1..Len(lvls), ScanEnd(n) PROVE IInv'
  BY <1>4, ScanEndIInv
<1>5. CASE UNCHANGED vars
  BY <1>5 DEF vars, IInv, TypeOK, Nests, Depth, Count, HasLF, LastLine, AtEOF
<1> QED
  BY <1>1, <1>2, <1>3, <1>4, <1>5 DEF Next

\* The inductive invariant of the scanner (scan, scan_indent, newline and
\* source_addline) holds in every reachable state, for any set of files.
THEOREM Invariance == Spec => []IInv
<1>1. Init => IInv
  BY InitIInv
<1>2. IInv /\ [Next]_vars => IInv'
  BY NextIInv
<1> QED
  BY <1>1, <1>2, PTL DEF Spec

\* The levels of indentation are those of s->lvls: 0, and each further in.
THEOREM TypeCorrect == Spec => []TypeOK
<1>1. IInv => TypeOK
  BY DEF IInv
<1> QED
  BY <1>1, Invariance, PTL

\* The T_INDENTs without their T_DEDENT are the levels of s->lvls and those whose
\* T_DEDENT is pending in s->dedent.
THEOREM TokensNest == Spec => []Nests
<1>1. IInv => Nests
  BY DEF IInv
<1> QED
  BY <1>1, Invariance, PTL

\* When scan has returned T_EOF for a file that ends in a newline, each T_INDENT
\* had its T_DEDENT.
THEOREM AllClosed == Spec => []ClosesAll
<1>1. IInv => ClosesAll
  BY DEF IInv, ClosesAll, Nests
<1> QED
  BY <1>1, Invariance, PTL

\* source->lineps has room for the lines of every file of fewer lines than
\* TableSize, less the two that scan sees at the end.
THEOREM TableHasRoom == Spec => []TableFits
<1>1. IInv => TableFits
  <2> SUFFICES ASSUME IInv, LastLine + 2 < TableSize PROVE Len(lineps) * PtrSize <= bytes
    BY DEF TableFits
  <2>1. LastLine \in Nat /\ line \in Nat /\ Len(lineps) = line /\ line <= LastLine + 2
    BY LineFacts DEF IInv, TypeOK
  <2>2. TableSize \in Nat /\ PtrSize \in Nat
    BY TableAssumption
  <2>3. line < TableSize /\ bytes = TableSize * PtrSize
    BY <2>1, <2>2 DEF IInv
  <2>4. line * PtrSize <= TableSize * PtrSize
    BY <2>1, <2>2, <2>3
  <2> QED
    BY <2>1, <2>3, <2>4
<1> QED
  BY <1>1, Invariance, PTL

-----------------------------------------------------------------------------
\* The tokens of line l in the output, T_EOF included.
Texts(l) ==
    {n \in 1..Len(out) : out[n].t \notin {"INDENT", "DEDENT", "LF"} /\ Count("LF", n) = l - 1}

\* The lines k to l are at least as far in as k, and none is empty.
Runs(k, l) == \A i \in k..l : Indent(i) >= Indent(k) /\ ~Blank(i)

\* The level d is where scan_indent puts line l: the first that is not less.
Fits(l, d) == lvls[d] >= Indent(l) /\ (d > 1 => lvls[d - 1] < Indent(l))

\* The level of line k, of which m is a token, is still there.
Stays(k, m) ==
    /\ Depth(m) + 1 \in 1..Len(lvls)
    /\ Fits(k, Depth(m) + 1)
    /\ \A i \in m..Len(out) : Depth(i) >= Depth(m)

\* Siblings, with any two tokens of the lines.
Paired(k, l) ==
    Indent(l) = Indent(k) /\ Runs(k, l) =>
      \A m \in Texts(k), n \in Texts(l) :
        Depth(m) = Depth(n) /\ \A i \in m..n : Depth(i) >= Depth(m)

\* What Siblings rests on, besides IInv.
SInv ==
    /\ Count("LF", Len(out)) = Here - 1
    /\ \A j \in 1..Len(lvls) : \A i \in 1..j - 1 : lvls[i] < lvls[j]
    /\ ~lf /\ line > 1 /\ ~Blank(line) => Fits(line, Len(lvls))
    /\ \A k \in 2..LastLine : Runs(k, line) => \A m \in Texts(k) : Stays(k, m)
    /\ \A k \in 2..LastLine : \A l \in k + 1..LastLine : Paired(k, l)

\* There are no fewer tokens of a kind among more.
LEMMA CountGrows ==
    ASSUME NEW t, NEW i \in Nat, NEW j \in Nat, i <= j
    PROVE  Count(t, i) \in Nat /\ Count(t, j) \in Nat /\ Count(t, i) <= Count(t, j)
<1> DEFINE A == {n \in 1..i : out[n].t = t}
           B == {n \in 1..j : out[n].t = t}
<1>1. IsFiniteSet(1..j)
  BY FS_Interval
<1>2. IsFiniteSet(B)
  BY <1>1, FS_Subset
<1>3. A \in SUBSET B
  OBVIOUS
<1>4. IsFiniteSet(A) /\ Cardinality(A) <= Cardinality(B)
  BY <1>2, <1>3, FS_Subset
<1>5. Cardinality(A) \in Nat /\ Cardinality(B) \in Nat
  BY <1>2, <1>4, FS_CardinalityType
<1> QED
  BY <1>4, <1>5 DEF Count

\* What was counted stays, and T_LFs are counted on.
LEMMA ReturnKeeps ==
    ASSUME out \in Seq(OutToken), NEW tok \in OutToken, Return(tok)
    PROVE  /\ \A i \in 1..Len(out) : out'[i] = out[i]
           /\ Len(out) \in Nat /\ Len(out') = Len(out) + 1 /\ out'[Len(out) + 1] = tok
           /\ \A t : \A i \in 0..Len(out) : Count(t, i)' = Count(t, i)
           /\ \A i \in 0..Len(out) : Depth(i)' = Depth(i) /\ Depth(i) \in Int
           /\ Count("LF", Len(out)) \in Nat
           /\ Count("LF", Len(out))' = Count("LF", Len(out)) + (IF tok.t = "LF" THEN 1 ELSE 0)
<1>1. out' = Append(out, tok)
  BY DEF Return
<1>2. /\ \A i \in 1..Len(out) : out'[i] = out[i]
      /\ Len(out) \in Nat /\ Len(out') = Len(out) + 1 /\ out'[Len(out) + 1] = tok
  BY <1>1
<1>3. ASSUME NEW t, NEW i \in 0..Len(out) PROVE Count(t, i)' = Count(t, i)
  <2>1. {n \in 1..i : out'[n].t = t} = {n \in 1..i : out[n].t = t}
    BY <1>2
  <2> QED
    BY <2>1 DEF Count
<1>4. ASSUME NEW i \in 0..Len(out) PROVE Depth(i)' = Depth(i) /\ Depth(i) \in Int
  <2>1. Count("INDENT", i) \in Nat /\ Count("DEDENT", i) \in Nat
    BY CountGrows
  <2> QED
    BY <1>3, <2>1 DEF Depth
<1>5. /\ Count("LF", Len(out)) \in Nat
      /\ Count("LF", Len(out))' = Count("LF", Len(out)) + (IF tok.t = "LF" THEN 1 ELSE 0)
  <2>1. "LF" \in LayoutKinds
    BY DEF LayoutKinds
  <2>2. Count("LF", Len(out)) = Cardinality(Positions("LF", out))
    BY DEF Count, Positions
  <2>3. Count("LF", Len(out))' = Cardinality(Positions("LF", Append(out, tok)))
    BY <1>1 DEF Count, Positions
  <2> QED
    BY <2>1, <2>2, <2>3, CountAppend
<1> QED
  BY <1>2, <1>3, <1>4, <1>5

\* The lines of a file do not change.
LEMMA SameFile ==
    ASSUME file' = file
    PROVE  /\ LastLine' = LastLine
           /\ \A l : Indent(l)' = Indent(l) /\ (Blank(l)' <=> Blank(l))
           /\ \A k, l : Runs(k, l)' <=> Runs(k, l)
<1>1. LastLine' = LastLine
  BY DEF LastLine
<1>2. ASSUME NEW l
      PROVE  /\ Toks(l)' = Toks(l) /\ (AtLast(l)' <=> AtLast(l)) /\ (HasLF(l)' <=> HasLF(l))
             /\ Indent(l)' = Indent(l)
  BY <1>1 DEF Toks, AtLast, HasLF, Indent
<1>3. ASSUME NEW l PROVE Blank(l)' <=> Blank(l)
  BY <1>2 DEF Blank
<1>4. ASSUME NEW k, NEW l PROVE Runs(k, l)' <=> Runs(k, l)
  BY <1>2, <1>3 DEF Runs
<1> QED
  BY <1>1, <1>2, <1>3, <1>4

\* A call of scan that returns tok, as far as the levels are concerned.
Scans(tok) ==
    /\ tok \in OutToken /\ Return(tok)
    /\ file' = file /\ line' = Here
    /\ lf' <=> tok.t = "LF"
    /\ tok.t \notin {"INDENT", "DEDENT"} => dedent' = 0
    /\ \A j \in 1..Len(lvls') : \A i \in 1..j - 1 : lvls'[i] < lvls'[j]
    /\ Here > 1 /\ ~Blank(Here) => Fits(line, Len(lvls))'
    /\ \A k \in 2..LastLine : \A d \in 1..Len(lvls) :
         Fits(k, d) /\ Indent(Here) >= Indent(k) /\ ~Blank(Here) => d \in 1..Len(lvls') /\ Fits(k, d)'

\* A line that is further in opens a level, and leaves the others.
LEMMA IndentScans ==
    ASSUME IInv, SInv, ScanIndent
    PROVE  \E tok : Scans(tok)
<1> USE DEF ScanIndent
<1> DEFINE tok == Token("INDENT")
           n == Len(lvls)
           b == Indent(Here)
<1>1. /\ tok \in OutToken /\ tok.t = "INDENT" /\ Return(tok) /\ file' = file /\ line' = Here
      /\ lf' = FALSE /\ lvls' = Append(lvls, b) /\ lf
  BY MarkType DEF LayoutKinds, NewLine, Deeper
<1>2. lvls \in Seq(Nat) /\ n \in Nat /\ n > 0
  BY DEF IInv, TypeOK
<1>3. file \in Files /\ Here \in Nat \ {0} /\ b \in Nat /\ b > lvls[n]
  BY HereFacts, LineFacts DEF IInv, Deeper
<1> HIDE DEF tok, b
<1>4. /\ Len(lvls') = n + 1 /\ lvls'[n + 1] = b
      /\ \A i \in 1..n : lvls'[i] = lvls[i] /\ lvls[i] \in Nat
  BY <1>1, <1>2, <1>3
<1> HIDE DEF n, ScanIndent
<1>5. \A j \in 1..n : \A i \in 1..j - 1 : lvls[i] < lvls[j]
  BY DEF SInv, n
<1>6. ASSUME NEW j \in 1..Len(lvls'), NEW i \in 1..j - 1 PROVE lvls'[i] < lvls'[j]
  <2>1. CASE j \in 1..n
    <3>1. i \in 1..n
      BY <1>2, <2>1
    <3> QED
      BY <1>4, <1>5, <2>1, <3>1
  <2>2. CASE j = n + 1
    <3>1. i \in 1..n /\ n \in 1..n
      BY <1>2, <2>2
    <3>2. lvls[i] \in Nat /\ lvls[n] \in Nat /\ lvls[i] <= lvls[n]
      <4>1. CASE i = n
        BY <1>4, <3>1, <4>1
      <4>2. CASE i # n
        <5>1. i \in 1..n - 1
          BY <1>2, <3>1, <4>2
        <5> QED
          BY <1>4, <1>5, <3>1, <5>1
      <4> QED
        BY <4>1, <4>2
    <3> QED
      BY <1>3, <1>4, <2>2, <3>1, <3>2
  <2> QED
    BY <1>2, <1>4, <2>1, <2>2
<1>7. Fits(line, Len(lvls))'
  <2>1. Indent(line)' = b
    <3>1. \A l : Indent(l)' = Indent(l)
      BY <1>1, SameFile
    <3> QED
      BY <1>1, <3>1 DEF b
  <2>2. n \in 1..n
    BY <1>2
  <2>3. lvls'[n + 1] >= b /\ lvls'[n] < b
    BY <1>3, <1>4, <2>2
  <2> QED
    BY <1>2, <1>4, <2>1, <2>3 DEF Fits
<1>8. ASSUME NEW k \in 2..LastLine, NEW d \in 1..n, Fits(k, d)
      PROVE  d \in 1..Len(lvls') /\ Fits(k, d)'
  <2>1. d \in 1..n + 1 /\ (d > 1 => d - 1 \in 1..n)
    BY <1>2
  <2>2. Indent(k)' = Indent(k)
    BY <1>1, SameFile
  <2> QED
    BY <1>4, <1>8, <2>1, <2>2 DEF Fits
<1> QED
  BY <1>1, <1>6, <1>7, <1>8 DEF Scans, n

\* Any other line leaves the levels that are less than its indentation, and the
\* next one.
LEMMA KeepsScans ==
    ASSUME IInv, SInv, NEW tok \in OutToken, Return(tok), file' = file, line' = Here,
           lf' <=> tok.t = "LF", tok.t \notin {"INDENT", "DEDENT"} => dedent' = 0,
           NEW n \in 1..Len(lvls), ~Deeper, Keeps(n), lvls' = SubSeq(lvls, 1, n)
    PROVE  Scans(tok)
<1> DEFINE b == Indent(Here)
<1>1. /\ lvls \in Seq(Nat) /\ Len(lvls) \in Nat /\ n \in Nat /\ n > 0 /\ n <= Len(lvls)
      /\ file \in Files /\ Here \in Nat \ {0} /\ b \in Nat
  <2>1. lvls \in Seq(Nat) /\ file \in Files
    BY DEF IInv, TypeOK
  <2>2. Here \in Nat \ {0}
    BY HereFacts
  <2>3. b \in Nat
    BY <2>1, <2>2, LineFacts
  <2> QED
    BY <2>1, <2>2, <2>3
<1>2. /\ Len(lvls') = n /\ \A i \in 1..n : lvls'[i] = lvls[i]
      /\ \A i \in 1..Len(lvls) : lvls[i] \in Nat
  BY <1>1
<1> HIDE DEF b
<1>3. ASSUME NEW j \in 1..Len(lvls'), NEW i \in 1..j - 1 PROVE lvls'[i] < lvls'[j]
  <2>1. j \in 1..Len(lvls) /\ j \in 1..n /\ i \in 1..n
    BY <1>1, <1>2
  <2>2. lvls[i] < lvls[j]
    BY <2>1 DEF SInv
  <2> QED
    BY <1>2, <2>1, <2>2
<1>4. ASSUME Here > 1, ~Blank(Here) PROVE Fits(line, Len(lvls))'
  <2>1. Indent(line)' = b
    <3>1. \A l : Indent(l)' = Indent(l)
      BY SameFile
    <3> QED
      BY <3>1 DEF b
  <2>2. lvls[n] >= b /\ (n > 1 => lvls[n - 1] < b)
    <3>1. CASE ~lf
      <4>1. n = Len(lvls) /\ Here = line
        BY <3>1 DEF Keeps, Here
      <4>2. Fits(line, Len(lvls))
        BY <1>4, <3>1, <4>1 DEF SInv
      <4> QED
        BY <4>1, <4>2 DEF Fits, b
    <3>2. CASE lf
      <4>1. /\ \A i \in n + 1..Len(lvls) : b <= lvls[i - 1]
            /\ n > 1 => lvls[n - 1] < b
        BY <3>2 DEF Keeps, b
      <4>2. ~(b > lvls[Len(lvls)])
        BY <1>4, <3>2 DEF Deeper, b
      <4>3. CASE n = Len(lvls)
        <5>1. n \in 1..Len(lvls)
          BY <1>1
        <5> QED
          BY <1>1, <1>2, <4>1, <4>2, <4>3, <5>1
      <4>4. CASE n # Len(lvls)
        <5>1. n + 1 \in n + 1..Len(lvls) /\ n + 1 - 1 = n
          BY <1>1, <4>4
        <5>2. b <= lvls[n]
          BY <4>1, <5>1
        <5> QED
          BY <1>1, <1>2, <4>1, <5>2
      <4> QED
        BY <4>3, <4>4
    <3> QED
      BY <3>1, <3>2
  <2>3. n \in 1..n /\ (n > 1 => n - 1 \in 1..n)
    BY <1>1
  <2> QED
    BY <1>2, <2>1, <2>2, <2>3 DEF Fits
<1>5. ASSUME NEW k \in 2..LastLine, NEW d \in 1..Len(lvls), Fits(k, d), b >= Indent(k)
      PROVE  d \in 1..Len(lvls') /\ Fits(k, d)'
  <2>1. Indent(k) \in Nat
    BY <1>1, LineFacts
  <2>2. d <= n
    <3> SUFFICES ASSUME d > n PROVE FALSE
      BY <1>1
    <3>1. lf /\ d > 1 /\ d \in n + 1..Len(lvls) /\ d - 1 \in 1..Len(lvls)
      BY <1>1 DEF Keeps
    <3>2. b <= lvls[d - 1]
      BY <3>1 DEF Keeps, b
    <3>3. lvls[d - 1] < Indent(k) /\ lvls[d - 1] \in Nat
      BY <1>2, <1>5, <3>1 DEF Fits
    <3> QED
      BY <1>1, <1>5, <2>1, <3>2, <3>3
  <2>3. d \in 1..n /\ (d > 1 => d - 1 \in 1..n)
    BY <1>1, <2>2
  <2>4. Indent(k)' = Indent(k)
    BY SameFile
  <2> QED
    BY <1>2, <1>5, <2>3, <2>4 DEF Fits
<1> QED
  BY <1>3, <1>4, <1>5 DEF Scans, b

\* Every call of scan that returns does so.
LEMMA NextScans ==
    ASSUME IInv, SInv, Next
    PROVE  \E tok : Scans(tok)
<1>1. CASE ScanIndent
  BY <1>1, IndentScans
<1>2. ASSUME NEW n \in 1..Len(lvls), ScanDedent(n) PROVE \E tok : Scans(tok)
  <2>1. Token("DEDENT") \in OutToken /\ Token("DEDENT").t = "DEDENT"
    BY MarkType DEF LayoutKinds
  <2>2. /\ ~Deeper /\ Keeps(n) /\ lvls' = SubSeq(lvls, 1, n) /\ file' = file /\ line' = Here
        /\ lf' = FALSE /\ Return(Token("DEDENT"))
    BY <1>2 DEF ScanDedent, NewLine
  <2> QED
    BY <2>1, <2>2, KeepsScans
<1>3. ASSUME NEW n \in 1..Len(lvls), n = Len(lvls) PROVE SubSeq(lvls, 1, n) = lvls
  <2>1. lvls \in Seq(Nat)
    BY DEF IInv, TypeOK
  <2> QED
    BY <1>3, <2>1
<1>4. ASSUME NEW n \in 1..Len(lvls), dedent + Len(lvls) - n = 0 PROVE n = Len(lvls) /\ dedent = 0
  <2>1. dedent \in Nat /\ Len(lvls) \in Nat
    BY DEF IInv, TypeOK
  <2> QED
    BY <1>4, <2>1
<1>5. ASSUME NEW n \in 1..Len(lvls), ScanText(n) PROVE \E tok : Scans(tok)
  <2> DEFINE tok == Toks(Here)[Read + 1]
  <2>1. /\ ~Deeper /\ Keeps(n) /\ dedent + Len(lvls) - n = 0 /\ Read < Len(Toks(Here))
        /\ file' = file /\ line' = Here /\ lf' = FALSE /\ lvls' = lvls /\ dedent' = dedent /\ Return(tok)
    BY <1>5 DEF ScanText, NewLine
  <2>2. tok \in Tokens
    <3>1. Toks(Here) \in Seq(Tokens) /\ Read \in Nat
      BY HereFacts, LineFacts DEF IInv
    <3> QED
      BY <2>1, <3>1
  <2>3. tok \in OutToken /\ tok.t \notin LayoutKinds
    BY <2>2 DEF Tokens, OutToken, LineKinds, LayoutKinds
  <2>4. tok.t # "LF"
    BY <2>3 DEF LayoutKinds
  <2> HIDE DEF tok
  <2>5. n = Len(lvls) /\ dedent = 0
    BY <1>4, <2>1
  <2>6. lvls' = SubSeq(lvls, 1, n)
    BY <1>3, <2>1, <2>5
  <2> QED
    BY <2>1, <2>3, <2>4, <2>5, <2>6, KeepsScans
<1>6. ASSUME NEW n \in 1..Len(lvls), ScanEnd(n) PROVE \E tok : Scans(tok)
  <2> DEFINE tok == Token(IF HasLF(Here) THEN "LF" ELSE "EOF")
  <2>1. /\ ~Deeper /\ Keeps(n) /\ dedent + Len(lvls) - n = 0
        /\ file' = file /\ line' = Here /\ lf' = HasLF(Here) /\ lvls' = lvls /\ dedent' = dedent /\ Return(tok)
    BY <1>6 DEF ScanEnd, NewLine
  <2>2. tok \in OutToken /\ tok.t = IF HasLF(Here) THEN "LF" ELSE "EOF"
    BY MarkType DEF LayoutKinds
  <2> HIDE DEF tok
  <2>3. n = Len(lvls) /\ dedent = 0
    BY <1>4, <2>1
  <2>4. lvls' = SubSeq(lvls, 1, n)
    BY <1>3, <2>1, <2>3
  <2>5. lf' <=> tok.t = "LF"
    BY <2>1, <2>2
  <2> QED
    BY <2>1, <2>2, <2>3, <2>4, <2>5, KeepsScans
<1> QED
  BY <1>1, <1>2, <1>5, <1>6 DEF Next

\* A new token of a line is at the depth of the line's level, and the level of an
\* earlier line is not left as long as the lines are as far in.
LEMMA ScansSInv ==
    ASSUME IInv, IInv', SInv, NEW tok, Scans(tok)
    PROVE  SInv'
<1> DEFINE Text == {"INDENT", "DEDENT", "LF"}
<1>1. /\ tok \in OutToken /\ Return(tok) /\ file' = file /\ line' = Here /\ (lf' <=> tok.t = "LF")
      /\ out \in Seq(OutToken) /\ lf' \in BOOLEAN
      /\ file \in Files /\ LastLine \in Nat \ {0} /\ line \in Nat \ {0} /\ Here \in Nat \ {0}
      /\ Here \in {line, line + 1}
  <2>1. out \in Seq(OutToken) /\ lf' \in BOOLEAN /\ file \in Files /\ line \in Nat \ {0}
    BY DEF IInv, TypeOK, OutToken
  <2>2. LastLine \in Nat \ {0} /\ Here \in Nat \ {0}
    BY <2>1, HereFacts, LineFacts
  <2> QED
    BY <2>1, <2>2 DEF Scans, Here
<1> PICK n : n = Len(out)
  OBVIOUS
<1> PICK h : h = Here
  OBVIOUS
<1>2. /\ \A i \in 1..n : out'[i] = out[i]
      /\ n \in Nat /\ Len(out') = n + 1 /\ out'[n + 1] = tok
      /\ \A t : \A i \in 0..n : Count(t, i)' = Count(t, i)
      /\ \A i \in 0..n : Depth(i)' = Depth(i) /\ Depth(i) \in Int
      /\ Count("LF", n) \in Nat
  BY <1>1, ReturnKeeps, Zenon
<1>3. /\ LastLine' = LastLine
      /\ \A l : Indent(l)' = Indent(l) /\ (Blank(l)' <=> Blank(l))
      /\ \A k, l : Runs(k, l)' <=> Runs(k, l)
  BY <1>1, SameFile
<1>4. /\ Depth(n + 1)' = Len(lvls') - 1 + dedent'
      /\ Len(lvls') \in Nat /\ Len(lvls') > 0 /\ dedent' \in Nat
  <2>1. Len(lvls') \in Nat /\ Len(lvls') > 0 /\ dedent' \in Nat
    BY DEF IInv, TypeOK
  <2>2. Depth(Len(out))' = Len(lvls') - 1 + dedent'
    BY DEF IInv, Nests
  <2>3. Depth(Len(out))' = Depth(n + 1)'
    BY <1>2 DEF Depth, Count
  <2> QED
    BY <2>1, <2>2, <2>3
<1>5. Count("LF", n) = h - 1 /\ h \in Nat \ {0}
  BY <1>1 DEF SInv
<1>6. /\ Count("LF", n + 1)' = IF tok.t = "LF" THEN h ELSE h - 1
      /\ Here' = IF tok.t = "LF" THEN h + 1 ELSE h
      /\ (Count("LF", Len(out)) = Here - 1)'
  <2>1. Here' = IF tok.t = "LF" THEN h + 1 ELSE h
    BY <1>1 DEF Here
  <2>2. Count("LF", Len(out))' = Count("LF", n) + (IF tok.t = "LF" THEN 1 ELSE 0)
    BY <1>1, ReturnKeeps, Zenon
  <2>3. Count("LF", Len(out))' = Count("LF", n + 1)'
    BY <1>2 DEF Count
  <2> QED
    BY <1>5, <2>1, <2>2, <2>3
\* The tokens of a line are those it had, and maybe the new one.
<1>7. ASSUME NEW k \in Nat
      PROVE  /\ \A m \in Texts(k) : m \in 1..n /\ k <= h
             /\ \A m \in Texts(k)' : m \in Texts(k) \/ (m = n + 1 /\ k = h /\ tok.t \notin Text)
  <2>1. ASSUME NEW m \in Texts(k) PROVE m \in 1..n /\ k <= h
    <3>1. m \in 1..n /\ Count("LF", m) = k - 1
      BY DEF Texts
    <3>2. Count("LF", m) <= Count("LF", n)
      BY <1>2, <3>1, CountGrows
    <3> QED
      BY <1>5, <3>1, <3>2
  <2>2. ASSUME NEW m \in Texts(k)'
        PROVE  m \in Texts(k) \/ (m = n + 1 /\ k = h /\ tok.t \notin Text)
    <3>1. m \in 1..n + 1 /\ out'[m].t \notin Text /\ Count("LF", m)' = k - 1
      BY <1>2 DEF Texts
    <3>2. CASE m = n + 1
      BY <1>2, <1>5, <1>6, <3>1, <3>2
    <3>3. CASE m # n + 1
      <4>1. m \in 1..n /\ m \in 0..n
        BY <1>2, <3>1, <3>3
      <4>2. out[m].t \notin Text /\ Count("LF", m) = k - 1
        BY <1>2, <3>1, <4>1
      <4> QED
        BY <4>1, <4>2 DEF Texts
    <3> QED
      BY <3>2, <3>3
  <2> QED
    BY <2>1, <2>2
<1>8. ASSUME tok.t \notin Text, h > 1, ~Blank(h)
      PROVE  Fits(h, Len(lvls))' /\ Depth(n + 1)' + 1 = Len(lvls')
  <2>1. dedent' = 0
    BY <1>8 DEF Scans
  <2>2. Fits(line, Len(lvls))'
    BY <1>8 DEF Scans
  <2>3. Fits(h, Len(lvls))'
    BY <1>1, <2>2 DEF Fits
  <2> QED
    BY <1>4, <2>1, <2>3
<1>9. ASSUME NEW k \in 2..LastLine, Runs(k, h), NEW m \in Texts(k)' PROVE Stays(k, m)'
  <2>1. k \in Nat /\ k > 1
    BY <1>1
  <2>2. CASE m \in Texts(k)
    <3>1. m \in 1..n /\ k <= h
      BY <1>7, <2>1, <2>2
    <3>2. Runs(k, line) /\ Indent(h) >= Indent(k) /\ ~Blank(h)
      BY <1>1, <1>9, <2>1, <3>1 DEF Runs
    <3>3. Stays(k, m)
      BY <2>2, <3>2 DEF SInv
    <3>4. Depth(m)' = Depth(m) /\ Depth(m) \in Int
      BY <1>2, <3>1
    <3>5. Depth(m) + 1 \in 1..Len(lvls) /\ Fits(k, Depth(m) + 1)
      BY <3>3 DEF Stays
    <3>6. Depth(m) + 1 \in 1..Len(lvls') /\ Fits(k, Depth(m) + 1)'
      BY <3>2, <3>4, <3>5 DEF Scans, Fits
    <3>7. ASSUME NEW i \in m..n + 1 PROVE Depth(i)' >= Depth(m)
      <4>1. CASE i = n + 1
        BY <1>4, <3>4, <3>6, <4>1
      <4>2. CASE i # n + 1
        <5>1. i \in m..n /\ i \in 0..n
          BY <1>2, <3>1, <4>2
        <5> QED
          BY <1>2, <3>3, <5>1 DEF Stays
      <4> QED
        BY <4>1, <4>2
    <3> QED
      BY <1>2, <3>4, <3>6, <3>7 DEF Stays
  <2>3. CASE m = n + 1 /\ k = h /\ tok.t \notin Text
    <3>1. ~Blank(h)
      BY <1>9, <2>1, <2>3 DEF Runs
    <3>2. Fits(h, Len(lvls))' /\ Depth(n + 1)' + 1 = Len(lvls')
      BY <1>8, <2>1, <2>3, <3>1
    <3>3. Fits(k, Depth(m) + 1)'
      BY <2>3, <3>2 DEF Fits
    <3>4. \A i \in m..Len(out') : i = m
      BY <1>2, <2>3
    <3>5. Depth(m)' + 1 \in 1..Len(lvls') /\ Depth(m)' >= Depth(m)'
      BY <1>4, <2>3, <3>2
    <3> QED
      BY <3>3, <3>4, <3>5 DEF Stays
  <2> QED
    BY <1>7, <2>1, <2>2, <2>3
\* A pair of lines whose second one has a new token.
<1>10. ASSUME NEW k \in 2..LastLine, NEW l \in k + 1..LastLine, Indent(l) = Indent(k), Runs(k, l),
              NEW m \in Texts(k)', NEW j \in Texts(l)'
       PROVE  Depth(m)' = Depth(j)' /\ \A i \in m..j : Depth(i)' >= Depth(m)'
  <2>1. k \in Nat /\ l \in Nat /\ k > 1 /\ k < l
    BY <1>1
  <2>2. m \in Texts(k) \/ (m = n + 1 /\ k = h)
    BY <1>7, <2>1
  <2>3. (j \in Texts(l) /\ j \in 1..n /\ l <= h) \/ (j = n + 1 /\ l = h /\ tok.t \notin Text)
    BY <1>7, <2>1
  <2>4. m \in Texts(k) /\ m \in 1..n
    BY <1>5, <1>7, <2>1, <2>2, <2>3
  <2>5. CASE j \in Texts(l) /\ j \in 1..n
    <3>1. Depth(m) = Depth(j) /\ \A i \in m..j : Depth(i) >= Depth(m)
      BY <1>10, <2>4, <2>5 DEF SInv, Paired
    <3>2. \A i \in m..j : i \in 0..n
      BY <1>2, <2>4, <2>5
    <3>3. m \in 0..n /\ j \in 0..n
      BY <2>4, <2>5
    <3> QED
      BY <1>2, <3>1, <3>2, <3>3
  <2>6. CASE j = n + 1 /\ l = h /\ tok.t \notin Text
    <3>1. h > 1 /\ ~Blank(h) /\ Runs(k, h)
      BY <1>10, <2>1, <2>6 DEF Runs
    <3>2. Stays(k, m)'
      BY <1>9, <3>1
    <3>3. Fits(h, Len(lvls))' /\ Depth(j)' + 1 = Len(lvls')
      BY <1>8, <2>6, <3>1
    <3>4. Depth(m)' + 1 = Len(lvls')
      <4> PICK d : d = Depth(m)' + 1
        OBVIOUS
      <4> PICK e : e = Len(lvls')
        OBVIOUS
      <4>1. d \in 1..e /\ lvls'[d] >= Indent(k)
        BY <1>3, <3>2 DEF Stays, Fits
      <4>2. e \in Nat /\ (e > 1 => lvls'[e - 1] < Indent(k))
        BY <1>3, <1>4, <1>10, <2>6, <3>3 DEF Fits
      <4>3. \A x \in 1..e : \A i \in 1..x - 1 : lvls'[i] < lvls'[x]
        BY DEF Scans
      <4>4. \A i \in 1..e : lvls'[i] \in Nat
        <5>1. lvls' \in Seq(Nat)
          BY DEF IInv, TypeOK
        <5> QED
          BY <5>1
      <4>5. Indent(k) \in Nat
        BY <1>1, <2>1, LineFacts
      <4> SUFFICES ASSUME d # e PROVE FALSE
        OBVIOUS
      <4>6. e - 1 \in 1..e /\ d \in 1..e - 1 /\ d \in 1..e /\ e > 1
        BY <4>1, <4>2
      <4>7. lvls'[d] <= lvls'[e - 1]
        <5>1. CASE d = e - 1
          BY <4>4, <4>6, <5>1
        <5>2. CASE d # e - 1
          <6>1. d \in 1..(e - 1) - 1
            BY <4>2, <4>6, <5>2
          <6>2. lvls'[d] < lvls'[e - 1]
            BY <4>3, <4>6, <6>1
          <6> QED
            BY <4>4, <4>6, <6>2
        <5> QED
          BY <5>1, <5>2
      <4> QED
        BY <4>1, <4>2, <4>4, <4>5, <4>6, <4>7
    <3>5. \A i \in m..n + 1 : Depth(i)' >= Depth(m)'
      BY <1>2, <3>2 DEF Stays
    <3>6. Depth(m)' \in Int /\ Depth(j)' \in Int
      BY <1>2, <1>4, <2>4, <2>6
    <3> QED
      BY <2>6, <3>3, <3>4, <3>5, <3>6
  <2> QED
    BY <2>3, <2>5, <2>6
<1>11. (\A k \in 2..LastLine : \A l \in k + 1..LastLine : Paired(k, l))'
  BY <1>3, <1>10 DEF Paired
<1>12. (\A k \in 2..LastLine : Runs(k, line) => \A m \in Texts(k) : Stays(k, m))'
  <2> SUFFICES ASSUME NEW k \in 2..LastLine, Runs(k, h), NEW m \in Texts(k)' PROVE Stays(k, m)'
    BY <1>1, <1>3 DEF Runs
  <2> QED
    BY <1>9
<1>13. (~lf /\ line > 1 /\ ~Blank(line) => Fits(line, Len(lvls)))'
  BY <1>1, <1>3 DEF Scans
<1>14. (\A j \in 1..Len(lvls) : \A i \in 1..j - 1 : lvls[i] < lvls[j])'
  BY DEF Scans
<1> QED
  BY <1>6, <1>11, <1>12, <1>13, <1>14 DEF SInv

\* Nothing has been returned yet.
LEMMA InitSInv == Init => SInv
<1> SUFFICES ASSUME Init PROVE SInv
  OBVIOUS
<1>1. out = <<>> /\ Len(out) = 0 /\ line = 1 /\ lvls = <<0>> /\ lf = FALSE
  BY DEF Init
<1>2. Count("LF", Len(out)) = 0
  <2>1. {i \in 1..0 : out[i].t = "LF"} = {}
    OBVIOUS
  <2> QED
    BY <1>1, <2>1, FS_EmptySet DEF Count
<1>3. Here = 1
  BY <1>1 DEF Here
<1>4. \A l : Texts(l) = {}
  BY <1>1 DEF Texts
<1>5. \A j \in 1..Len(lvls) : \A i \in 1..j - 1 : lvls[i] < lvls[j]
  BY <1>1
<1>6. \A k \in 2..LastLine : \A l \in k + 1..LastLine : Paired(k, l)
  BY <1>4 DEF Paired
<1> QED
  BY <1>1, <1>2, <1>3, <1>4, <1>5, <1>6 DEF SInv

\* Whatever a file has between two lines of the same indentation, none of it
\* further out and none empty, scan leaves the second in the block of the first:
\* each T_INDENT between them has its T_DEDENT, and no T_DEDENT is too many.
THEOREM SiblingsStay == Spec => []Siblings
<1>1. Init => SInv
  BY InitSInv
<1>2. IInv /\ SInv /\ [Next]_vars => SInv'
  <2> SUFFICES ASSUME IInv, SInv, [Next]_vars PROVE SInv'
    OBVIOUS
  <2>1. IInv'
    BY NextIInv
  <2>2. CASE Next
    BY <2>1, <2>2, NextScans, ScansSInv
  <2>3. CASE UNCHANGED vars
    <3>1. /\ out' = out /\ line' = line /\ lvls' = lvls /\ lf' = lf /\ file' = file
          /\ LastLine' = LastLine /\ Here' = Here
          /\ \A l : Indent(l)' = Indent(l) /\ (Blank(l)' <=> Blank(l))
          /\ \A k, l : Runs(k, l)' <=> Runs(k, l)
      BY <2>3, SameFile DEF vars, Here
    <3>2. \A t, i : Count(t, i)' = Count(t, i)
      BY <3>1 DEF Count
    <3>3. Count("LF", Len(out))' = Count("LF", Len(out))
      BY <3>1 DEF Count
    <3>4. \A i : Depth(i)' = Depth(i)
      BY <3>2 DEF Depth
    <3>5. \A l : Texts(l)' = Texts(l)
      BY <3>1, <3>2 DEF Texts
    <3>6. \A k, m : Stays(k, m)' <=> Stays(k, m)
      BY <3>1, <3>4 DEF Stays, Fits
    <3>7. \A k, l : Paired(k, l)' <=> Paired(k, l)
      BY <3>1, <3>4, <3>5 DEF Paired
    <3>8. Fits(line, Len(lvls))' <=> Fits(line, Len(lvls))
      BY <3>1 DEF Fits
    <3>9. Blank(line)' <=> Blank(line)
      BY <3>1 DEF Blank
    <3>10. \A k : Runs(k, line)' <=> Runs(k, line)
      BY <3>1 DEF Runs
    <3> QED
      BY <3>1, <3>3, <3>5, <3>6, <3>7, <3>8, <3>9, <3>10 DEF SInv
  <2> QED
    BY <2>2, <2>3
<1>3. IInv /\ SInv => Siblings
  <2> SUFFICES ASSUME IInv, SInv, NEW k \in 2..LastLine, NEW l \in k + 1..LastLine,
                      Indent(l) = Indent(k), \A i \in k..l : Indent(i) >= Indent(k) /\ ~Blank(i),
                      NEW m \in Starts(k), NEW n \in Starts(l)
               PROVE  Depth(m) = Depth(n) /\ \A i \in m..n : Depth(i) >= Depth(m)
    BY DEF Siblings
  <2>1. m \in Texts(k) /\ n \in Texts(l)
    BY DEF Starts, Texts
  <2>2. Paired(k, l)
    BY DEF SInv
  <2> QED
    BY <2>1, <2>2 DEF Paired, Runs
<1> QED
  BY <1>1, <1>2, <1>3, Invariance, PTL DEF Spec
=============================================================================
