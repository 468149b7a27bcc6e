-------------------------------- MODULE Blocks --------------------------------
(***************************************************************************)
(* The parser (src/parser.c) on the tokens of a file: a function for each  *)
(* construct, which consumes its tokens, those for the layout of lines     *)
(* (T_LF, T_INDENT, T_DEDENT) included.                                    *)
(*                                                                         *)
(* A parse function takes the position of the current token and returns    *)
(* [p, n]: the position behind, and a node.  Position 0 stands for a parse *)
(* error, for the exit of nextline at the end of the file, and for the     *)
(* crash in parse_tuple: the parser may go on with the next line to find   *)
(* more errors, but command_build then discards the tree.                  *)
(*                                                                         *)
(* Nodes have operands l and r, or a sequence ns; those of paths, selects  *)
(* and clauses have fields of their own, leaves a value v.                 *)
(*                                                                         *)
(* Files have one more field: tree is <<>>, or the program that the file   *)
(* is a layout of.                                                         *)
(***************************************************************************)
EXTENDS Layout, SequencesExt

At(p, n) == [p |-> p, n |-> n]

\* NULL instead of a node: what parse_map returns for {}, without an error.
Absent == [k |-> "NULL"]
Failed == At(0, Absent)

\* p->tok
Tok(ts, p) == IF p = 0 THEN "ERROR" ELSE ts[p].t

\* next(p): at the end scan returns T_EOF again.
NextTok(ts, p) == IF p = 0 \/ p = Len(ts) THEN p ELSE p + 1

\* expect, isnext
Expect(ts, p, t) == IF Tok(ts, p) = t THEN NextTok(ts, p) ELSE 0
IsNext(ts, p, t) == IF Tok(ts, p) = t THEN NextTok(ts, p) ELSE p

\* nextline
NextLine(ts, p) ==
    LET lfs == {q \in p..Len(ts) : ts[q].t = "LF"}
        q   == IF p = 0 \/ lfs = {} THEN 0
               ELSE NextTok(ts, CHOOSE i \in lfs : \A j \in lfs : i <= j)
    IN IF Tok(ts, q) = "EOF" THEN 0 ELSE q

Leaves == Words \cup {"STRING", "CHAR"}

\* parse_atom, parse_string, parse_char, parse_number and parse_ident, each of which
\* takes whatever token there is.
Taken(ts, p, k) == At(NextTok(ts, p), [k |-> k, v |-> ts[p].v])
Leaf(ts, p)     == Taken(ts, p, ts[p].t)
Ident(ts, p)    == Taken(ts, p, "IDENT")

\* parse_comments
Comments(ts, p) ==
    LET f[q \in 0..Len(ts)] ==
          IF Tok(ts, q) = "COMMENT" THEN f[IsNext(ts, NextTok(ts, q), "LF")] ELSE q
    IN f[p]

\* The parse functions call each other: g["block", p] is parse_block at p.

\* A node of two operands, when the token between them has been consumed.
Binary(g, k, l, p) ==
    LET r == g["expression", p] IN At(r.p, [k |-> k, l |-> l, r |-> r.n])

Unary(k, e) == At(e.p, [k |-> k, ns |-> <<e.n>>])

\* parse_seq's items, by the token that closes them.  An item that is NULL ends
\* the sequence, without its closing token: it is kept here as the last member.
Items(g, ts, p, close) ==
    LET e == g[CASE close = "RPAREN" -> "expression"
                 [] close = "RBRACK" -> "item"
                 [] close = "RBRACE" -> "clause", p]
        r == g[close, NextTok(ts, e.p)]
    IN IF e.n = Absent THEN At(e.p, <<Absent>>)
       ELSE IF Tok(ts, e.p) = "COMMA" THEN At(r.p, <<e.n>> \o r.n)
       ELSE At(Expect(ts, e.p, close), <<e.n>>)

\* parse_seq, at its opening token.
Delimited(g, ts, p, close) ==
    LET q == NextTok(ts, p)
    IN IF Tok(ts, q) = close THEN At(NextTok(ts, q), <<>>) ELSE g[close, q]

EndsNull(ns) == ns # <<>> /\ ns[Len(ns)] = Absent

\* Mutated form: the parentheses of a tuple of one member are kept.
TupleOfOne(g, ts, p) ==
    LET s == Delimited(g, ts, p, "RPAREN") IN At(s.p, [k |-> "tuple", ns |-> s.n])

\* parse_tuple.  It is its member if that is the only one; then that a NULL
\* followed makes members NULL, too.
Tuple(g, ts, p) ==
    LET s == Delimited(g, ts, p, "RPAREN")
    IN IF EndsNull(s.n)
         THEN IF Len(s.n) = 2 THEN Failed ELSE At(s.p, [k |-> "tuple", ns |-> <<>>])
       ELSE IF Len(s.n) = 1 THEN At(s.p, s.n[1])
       ELSE At(s.p, [k |-> "tuple", ns |-> s.n])

\* parse_list
List(g, ts, p) ==
    LET s == Delimited(g, ts, p, "RBRACK")
    IN At(s.p, [k |-> "list", ns |-> IF EndsNull(s.n) THEN <<>> ELSE s.n])

\* parse_list_exp
Item(g, ts, p) ==
    LET e    == g["expression", p]
        q    == NextTok(ts, e.p)
        open == Tok(ts, q) \in {"RBRACK", "COMMA"}
    IN IF Tok(ts, e.p) # "ELLIPSIS" \/ e.n = Absent THEN e
       ELSE IF open THEN At(q, [k |-> "range", l |-> e.n, r |-> Absent])
       ELSE Binary(g, "range", e.n, q)

\* parse_map
Map(g, ts, p) ==
    LET s == Delimited(g, ts, p, "RBRACE")
    IN At(s.p, IF s.n = <<>> \/ EndsNull(s.n) THEN Absent ELSE [k |-> "map", ns |-> s.n])

\* parse_pattern.  The members of its tuples and lists are any expressions.
Pattern(g, ts, p) ==
    CASE Tok(ts, p) \in {"UNDER", "IDENT"}         -> Ident(ts, p)
      [] Tok(ts, p) \in {"ATOM", "STRING", "INT"}  -> Leaf(ts, p)
      [] Tok(ts, p) = "LPAREN"                     -> g["tuple", p]
      [] Tok(ts, p) = "LBRACE"                     -> Map(g, ts, p)
      [] Tok(ts, p) = "LBRACK"                     -> List(g, ts, p)
      [] OTHER                                     -> Failed

\* parse_clause
Clause(g, ts, p) ==
    LET pat == g["pattern", p]
        bare == Tok(ts, p) = "COLON"
        b   == g["block", IF bare THEN NextTok(ts, p) ELSE Expect(ts, pat.p, "COLON")]
    IN IF ~bare /\ pat.n = Absent THEN Failed
       ELSE At(b.p, [k |-> "clause", pat |-> IF bare THEN <<>> ELSE <<pat.n>>,
                     guards |-> <<>>, body |-> b.n])

\* parse_access, with parse_module for a T_PERIOD.
Access(g, ts, p) ==
    LET l == CASE Tok(ts, p) = "IDENT"  -> Ident(ts, p)
               [] Tok(ts, p) = "INT"    -> Leaf(ts, p)
               [] Tok(ts, p) = "PERIOD" -> At(NextTok(ts, p), [k |-> "module", ns |-> <<>>])
               [] OTHER                 -> At(p, Absent)
        r == g["access", NextTok(ts, l.p)]
    IN IF l.n = Absent \/ Tok(ts, l.p) # "SLASH" THEN l
       ELSE At(r.p, IF r.n = Absent THEN l.n ELSE [k |-> "access", l |-> l.n, r |-> r.n])

\* parse_pipe, the right operands: behind an arrow there may be none.
Pipes(g, ts, p) ==
    LET q == NextTok(ts, p)
        e == CASE Tok(ts, q) = "IDENT"  -> Ident(ts, q)
               [] Tok(ts, q) = "BSLASH" -> g["clause", NextTok(ts, q)]
               [] Tok(ts, q) = "LPAREN" -> g["tuple", q]
               [] OTHER                 -> At(q, Absent)
        r == g["pipes", e.p]
    IN IF Tok(ts, p) \notin {"RARROW", "RDARROW", "REQARROW"} THEN At(p, <<>>)
       ELSE IF e.n = Absent THEN At(e.p, <<Absent>>)
       ELSE At(r.p, <<e.n>> \o r.n)

Pipe(g, ts, l, p) ==
    LET rs == g["pipes", p]
    IN At(rs.p, FoldLeft(LAMBDA n, r : [k |-> "pipe", l |-> n, r |-> r], l, rs.n))

\* parse_wait
Wait(ts, p) == Unary("wait", Ident(ts, NextTok(ts, p)))

\* parse_spawn
Spawn(g, ts, p) ==
    LET q == NextTok(ts, p)
        a == IF Tok(ts, q) \in {"PERIOD", "IDENT", "ATOM"} THEN g["access", q] ELSE Failed
    IN Unary("spawn", Binary(g, "apply", a.n, a.p))

\* parse_select and the start of _parse_select.  A select whose clauses start on
\* a line of their own takes the T_INDENT and T_DEDENT around them.
Select(g, ts, p, arg) ==
    LET q == Expect(ts, p, "QUESTION")
        c == g[IF arg = <<>> THEN "conditions" ELSE "clauses",
               IsNext(ts, IF Tok(ts, q) = "LF" THEN Expect(ts, NextTok(ts, q), "INDENT") ELSE q,
                      "PIPE")]
    IN At(IF Tok(ts, q) = "LF" THEN Expect(ts, c.p, "DEDENT") ELSE c.p,
          [k |-> "select", arg |-> arg, clauses |-> c.n])

\* What parse_expression finds between two operands.
Infix == [DEFINE |-> "bind", EQ |-> "match", PLUS |-> "add", MINUS |-> "sub", GT |-> "gt",
          LT |-> "lt", LARROW |-> "send"]

\* No argument.
Arg(n) == IF n = Absent THEN <<>> ELSE <<n>>

\* parse_expression, its first switch.
Operand(g, ts, p) ==
    CASE Tok(ts, p) \in {"IDENT", "PERIOD"}               -> g["access", p]
      [] Tok(ts, p) \in {"ATOM", "STRING", "CHAR", "INT"} -> Leaf(ts, p)
      [] Tok(ts, p) = "BSLASH"                            -> g["clause", NextTok(ts, p)]
      [] Tok(ts, p) = "LPAREN"                            -> g["tuple", p]
      [] Tok(ts, p) = "LBRACK"                            -> List(g, ts, p)
      [] Tok(ts, p) = "LBRACE"                            -> Map(g, ts, p)
      [] Tok(ts, p) = "LARROW"                            -> Wait(ts, p)
      [] Tok(ts, p) = "QUESTION"                          -> Select(g, ts, p, <<>>)
      [] OTHER                                            -> Failed

\* parse_expression: an operand, what follows it, and a select of the result.
\* A T_LDARROW is left to the expression that should follow it.
Expression(g, ts, p) ==
    LET l == g["operand", p]
        t == Tok(ts, l.p)
        e == CASE Tok(ts, p) = "PLUS"   -> Spawn(g, ts, p)
               [] OTHER ->
                  CASE t = "QUESTION"   -> Select(g, ts, l.p, Arg(l.n))
                    [] t \in {"IDENT", "LPAREN", "STRING", "INT", "LBRACK", "ATOM"}
                                        -> Binary(g, "apply", l.n, l.p)
                    [] t \in DOMAIN Infix -> Binary(g, Infix[t], l.n, NextTok(ts, l.p))
                    [] t = "LDARROW"    -> Failed
                    [] t \in {"RARROW", "RDARROW"} -> Pipe(g, ts, l.n, l.p)
                    [] OTHER            -> l
    IN IF Tok(ts, e.p) = "QUESTION" THEN Select(g, ts, e.p, Arg(e.n)) ELSE e

\* Mutated form: whatever ends a statement is consumed.
PrimaryTakesAny(g, ts, p) ==
    LET e == g["expression", p] IN At(NextTok(ts, e.p), e.n)

\* parse_primary and end.  Behind NULL the rest of the line is skipped.
Primary(g, ts, p) ==
    LET e == g["expression", p]
    IN IF e.n = Absent THEN At(NextLine(ts, e.p), Absent)
       ELSE At(IsNext(ts, IsNext(ts, e.p, "SEMICOLON"), "COMMENT"), e.n)

\* The list that appending ns makes of an empty one: NULL is no first member.
Appended(ns) ==
    FoldLeft(LAMBDA l, n : IF l = <<>> /\ n = Absent THEN l ELSE Append(l, n), <<>>, ns)

\* parse_guards
Guards(g, ts, p) ==
    LET e == g["expression", p]
        r == g["guards", NextTok(ts, e.p)]
    IN IF Tok(ts, e.p) = "COMMA" THEN At(r.p, <<e.n>> \o r.n) ELSE At(e.p, <<e.n>>)

\* _parse_select's loop, for clauses with or without patterns.  Behind a clause a
\* T_LF is skipped, and a T_INDENT whose T_DEDENT nobody here takes.
Clauses(g, ts, p, rule) ==
    LET pat == IF rule = "clauses" THEN g["pattern", p] ELSE At(p, Absent)
        gs  == IF rule = "conditions" THEN g["guards", p]
               ELSE IF Tok(ts, pat.p) = "AND" THEN g["guards", NextTok(ts, pat.p)]
               ELSE At(pat.p, <<>>)
        b   == g["block", Expect(ts, gs.p, "COLON")]
        q   == IsNext(ts, IsNext(ts, b.p, "LF"), "INDENT")
        c   == [k |-> "clause", pat |-> Arg(pat.n), guards |-> Appended(gs.n), body |-> b.n]
        r   == g[rule, NextTok(ts, q)]
    IN IF Tok(ts, q) = "PIPE" THEN At(r.p, <<c>> \o r.n) ELSE At(q, <<c>>)

\* parse_block's loop
Statements(g, ts, p) ==
    LET s == Primary(g, ts, p)
        r == g["statements", s.p]
    IN IF Tok(ts, p) = "DEDENT" THEN At(p, <<>>)
       ELSE IF Tok(ts, p) \in {"LF", "COMMENT"} THEN g["statements", NextTok(ts, p)]
       ELSE IF s.p = 0 THEN At(0, <<>>)
       ELSE At(r.p, <<s.n>> \o r.n)

\* Mutated form: comments before the first statement are not skipped.
BlockNoComments(g, ts, p) ==
    IF Tok(ts, p) = "LF"
      THEN LET b == g["statements", Expect(ts, NextTok(ts, p), "INDENT")]
           IN At(Expect(ts, b.p, "DEDENT"), Appended(b.n))
    ELSE LET s == Primary(g, ts, p) IN At(s.p, Arg(s.n))

\* parse_block: several lines between T_INDENT and T_DEDENT, or one statement.
Block(g, ts, p) ==
    IF Tok(ts, p) = "LF"
      THEN LET b == g["statements", Expect(ts, Comments(ts, NextTok(ts, p)), "INDENT")]
           IN At(Expect(ts, b.p, "DEDENT"), Appended(b.n))
    ELSE LET s == Primary(g, ts, p) IN At(s.p, Arg(s.n))

\* parse_path
Path(g, ts, p) ==
    LET n == IF Tok(ts, p) = "PERIOD" THEN Expect(ts, NextTok(ts, p), "SLASH") ELSE p
        q == Expect(ts, n, "IDENT")
        x == IF Tok(ts, q) = "EQ" THEN At(q, Absent) ELSE g["pattern", q]
        b == g["block", Expect(ts, x.p, "EQ")]
    IN IF q = 0 \/ (Tok(ts, q) # "EQ" /\ x.n = Absent) THEN Failed
       ELSE At(b.p, [k |-> "path", name |-> ts[n].v, pat |-> Arg(x.n), body |-> b.n])

\* parse_msgpath
MsgPath(g, ts, p) == Unary("mpath", g["clause", NextTok(ts, p)])

\* parse_decl.  Of a parameter that is a name the token behind it is taken.
Decl(g, ts, p) ==
    LET a == g["access", NextTok(ts, p)]
        x == CASE Tok(ts, a.p) = "IDENT"               -> Ident(ts, NextTok(ts, a.p))
               [] Tok(ts, a.p) \in {"SLASH", "PERIOD"} -> At(NextTok(ts, a.p), Absent)
               [] OTHER                                -> At(a.p, Absent)
        y == IF Tok(ts, x.p) = "AT" THEN Taken(ts, NextTok(ts, x.p), "ATOM") ELSE At(x.p, Absent)
    IN At(y.p, [k |-> "decl", ns |-> <<a.n, x.n, y.n>>])

\* parse_toplevel
TopLevel(g, ts, p) ==
    CASE Tok(ts, p) \in {"PERIOD", "IDENT"} -> Path(g, ts, p)
      [] Tok(ts, p) = "PLUS"                -> MsgPath(g, ts, p)
      [] Tok(ts, p) = "SLASH"               -> Decl(g, ts, p)
      [] OTHER                              -> Failed

\* parse's loop.  The token behind a top-level expression is skipped, whatever
\* it is.
TopLevels(g, ts, p) ==
    LET x == g["toplevel", p]
        r == g["toplevels", NextTok(ts, x.p)]
    IN IF Tok(ts, p) = "EOF" THEN At(p, <<>>)
       ELSE IF Tok(ts, p) \in {"LF", "COMMENT"} THEN g["toplevels", NextTok(ts, p)]
       ELSE IF x.p = 0 THEN At(0, <<>>)
       ELSE At(r.p, <<x.n>> \o r.n)

Rules == {"toplevels", "toplevel", "block", "statements", "clauses", "conditions", "guards",
          "expression", "operand", "access", "clause", "pattern", "tuple", "item", "pipes",
          "RPAREN", "RBRACK", "RBRACE"}

\* parse
Parse(ts) ==
    LET g[r \in Rules, p \in 0..Len(ts)] ==
          CASE r = "toplevels"  -> TopLevels(g, ts, p)
            [] r = "toplevel"   -> TopLevel(g, ts, p)
            [] r = "block"      -> Block(g, ts, p)
            [] r = "statements" -> Statements(g, ts, p)
            [] r = "guards"     -> Guards(g, ts, p)
            [] r = "expression" -> Expression(g, ts, p)
            [] r = "operand"    -> Operand(g, ts, p)
            [] r = "pattern"    -> Pattern(g, ts, p)
            [] r = "tuple"      -> Tuple(g, ts, p)
            [] r = "access"     -> Access(g, ts, p)
            [] r = "clause"     -> Clause(g, ts, p)
            [] r = "item"       -> Item(g, ts, p)
            [] r = "pipes"      -> Pipes(g, ts, p)
            [] r \in {"clauses", "conditions"} -> Clauses(g, ts, p, r)
            [] OTHER            -> Items(g, ts, p, r)
    IN g["toplevels", 1]

Result == Parse(out)

-----------------------------------------------------------------------------
\* The parser gives back the program that a file is a layout of: blocks end
\* where their lines end, and every clause is its select's, in all the layouts
\* that the tests use.
ParsesBack == (AtEOF /\ file.tree # <<>>) => Result.p # 0 /\ <<Result.n>> = file.tree

\* The words of nodes, in the order of the source.
RECURSIVE WordsOf(_)
WordsOf(ns) ==
    IF ns = <<>> THEN <<>>
    ELSE LET n == Head(ns)
         IN (CASE n.k \in Leaves \cup {"IDENT"} -> IF n.v = 0 THEN <<>> ELSE <<n.v>>
               [] n.k = "NULL"   -> <<>>
               [] n.k = "select" -> WordsOf(n.arg) \o WordsOf(n.clauses)
               [] n.k = "clause" -> WordsOf(n.pat) \o WordsOf(n.guards) \o WordsOf(n.body)
               [] n.k = "path"   -> <<n.name>> \o WordsOf(n.pat) \o WordsOf(n.body)
               [] "ns" \in DOMAIN n -> WordsOf(n.ns)
               [] OTHER          -> WordsOf(<<n.l, n.r>>)) \o WordsOf(Tail(ns))

\* s is what is left of t when some of its members are taken out.
RECURSIVE Within(_, _)
Within(s, t) ==
    \/ s = <<>>
    \/ t # <<>> /\ Within(IF Head(s) = Head(t) THEN Tail(s) ELSE s, Tail(t))

\* The words among the tokens at positions ns; other tokens have the value 0.
WordsAt(ns) == FoldLeftDomain(LAMBDA s, i : IF i \in ns /\ out[i].v # 0 THEN Append(s, out[i].v) ELSE s,
                              <<>>, out)

\* The tokens of a line on which there is an empty map: parse_primary skips what
\* follows one, and parse_seq forgets what it has if one is a member.
WithEmptyMap(i) ==
    \E j \in 2..Len(out) :
      /\ out[j - 1].t = "LBRACE" /\ out[j].t = "RBRACE"
      /\ \A k \in (i..j) \cup (j..i) : out[k].t # "LF"

\* What the parser accepts it keeps: the tree has the words of the file, in their
\* order, and all those that are indented.  (Of the others, one behind each path
\* is skipped.)
NothingLost ==
    (AtEOF /\ Result.p # 0) =>
      LET got == WordsOf(Result.n)
      IN /\ Within(got, WordsAt(1..Len(out)))
         /\ Within(WordsAt({i \in 1..Len(out) : Depth(i) > 0 /\ ~WithEmptyMap(i)}), got)
=============================================================================
