------------------------------- MODULE MCLayout -------------------------------
(***************************************************************************)
(* Files for Layout and Blocks: all small sequences of lines, all short    *)
(* paths made of lines that look like parts of blocks and selects, and     *)
(* programs with the layouts that the tests in src/test use.               *)
(***************************************************************************)
EXTENDS Blocks

MCWords == {"INT", "IDENT", "ATOM"}

T(t, v) == [t |-> t, v |-> v]
Mark(t) == T(t, 0)
L(ind, toks) == [ind |-> ind, toks |-> toks]
File(lines, ended, tree) == [lines |-> lines, ended |-> ended, tree |-> tree]

SeqsUpTo(S, n) == UNION {[1..m -> S] : m \in 1..n}

-----------------------------------------------------------------------------
\* Lines of a number, of a comment, or empty, with any indentation.
PlainLines ==
    {L(i, <<t>>) : i \in 0..3, t \in {T("INT", 1), Mark("COMMENT")}} \cup {L(0, <<>>), L(2, <<>>)}

PlainFiles ==
    {f \in {File(ls, e, <<>>) : ls \in SeqsUpTo(PlainLines, 3), e \in BOOLEAN} :
       f.ended \/ f.lines[Len(f.lines)] # L(0, <<>>)}

\* A path with lines of all kinds.
Kinds ==
    { <<T("INT", 1)>>,
      <<T("INT", 2), Mark("QUESTION")>>,
      <<Mark("PIPE"), T("INT", 3), Mark("COLON"), T("INT", 4)>>,
      <<T("INT", 5), Mark("QUESTION"), T("INT", 6), Mark("COLON"), T("INT", 7)>>,
      <<T("IDENT", 8), T("IDENT", 9), Mark("EQ"), T("INT", 1)>> }

PathFiles ==
    LET Line == {L(i, k) : i \in {0, 2, 4}, k \in Kinds} \cup {L(0, <<>>)}
    IN {File(<<L(0, <<T("IDENT", 5), Mark("EQ")>>)>> \o ls, TRUE, <<>>) : ls \in [1..3 -> Line]}

-----------------------------------------------------------------------------
\* What follows builds programs together with their layouts.
Num(v) == [k |-> "INT", v |-> v]
Name(v) == [k |-> "IDENT", v |-> v]

CaseNode(pat, gs, body) == [k |-> "clause", pat |-> pat, guards |-> gs, body |-> body]
SelectNode(arg, cs) == [k |-> "select", arg |-> arg, clauses |-> cs]

\* Expressions on one line.
Inline ==
    { [toks |-> <<T("INT", 1)>>, node |-> Num(1)],
      [toks |-> <<T("IDENT", 2), Mark("DEFINE"), T("INT", 3)>>,
       node |-> [k |-> "bind", l |-> Name(2), r |-> Num(3)]],
      [toks |-> <<T("IDENT", 2), Mark("QUESTION"), T("INT", 4), Mark("COLON"), T("INT", 5),
                  Mark("PIPE"), Mark("UNDER"), Mark("COLON"), T("INT", 6)>>,
       node |-> SelectNode(<<Name(2)>>,
                           <<CaseNode(<<Num(4)>>, <<>>, <<Num(5)>>),
                             CaseNode(<<Name(0)>>, <<>>, <<Num(6)>>)>>)] }

\* The part of a clause up to its colon.
Heads ==
    { [toks |-> <<T("INT", 7)>>, pat |-> <<Num(7)>>, guards |-> <<>>],
      [toks |-> <<T("IDENT", 8), Mark("AND"), T("IDENT", 8), Mark("COMMA"), T("INT", 9)>>,
       pat |-> <<Name(8)>>, guards |-> <<Name(8), Num(9)>>] }

\* Statements and blocks have lines and nodes.
Simple(d) == {[lines |-> <<L(d, e.toks)>>, node |-> e.node] : e \in Inline}

Commented(d) ==
    {[lines |-> <<L(d, <<Mark("COMMENT")>>), L(d, <<T("INT", 1), Mark("COMMENT")>>)>>,
      node |-> Num(1)]}

\* Clauses with a statement on their line, or a block on the lines below.
ClauseOnLine(d, mark) ==
    {[lines |-> <<L(d, mark \o h.toks \o <<Mark("COLON")>> \o e.toks)>>,
      node |-> CaseNode(h.pat, h.guards, <<e.node>>)] :
       h \in Heads, e \in {i \in Inline : i.node.k # "select"}}

ClauseOnLines(d, mark, blocks) ==
    {[lines |-> <<L(d, mark \o h.toks \o <<Mark("COLON")>>)>> \o b.lines,
      node |-> CaseNode(h.pat, h.guards, b.nodes)] : h \in Heads, b \in blocks}

Bar == <<Mark("PIPE")>>

\* x ?
\*   | 7 : 1
\*   | 8 : 1
OnOwnLines(d, blocks) ==
    LET cs == ClauseOnLine(d + 2, Bar) \cup ClauseOnLines(d + 2, Bar, blocks)
    IN {[lines |-> <<L(d, <<T("IDENT", 2), Mark("QUESTION")>>)>> \o a.lines \o b.lines,
         node |-> SelectNode(<<Name(2)>>, <<a.node, b.node>>)] :
          a \in cs, b \in cs}

\* x ? 7 : 1
\*   | 8 : 1
Hanging(d) ==
    {[lines |-> a.lines \o b.lines \o b.lines,
      node |-> SelectNode(<<Name(2)>>, <<a.node, b.node, b.node>>)] :
       a \in ClauseOnLine(d, <<T("IDENT", 2), Mark("QUESTION")>>), b \in ClauseOnLine(d + 2, Bar)}

\* ? 8, 9 : 1
\* | 8, 9 : 1
Conditions(d, blocks) ==
    LET Cond(mark, toks, lines, body) ==
          [lines |-> <<L(d, mark \o <<T("IDENT", 8), Mark("COMMA"), T("INT", 9), Mark("COLON")>> \o toks)>> \o lines,
           node |-> CaseNode(<<>>, <<Name(8), Num(9)>>, body)]
        Cs(mark) == {Cond(mark, e.toks, <<>>, <<e.node>>) : e \in {i \in Inline : i.node.k # "select"}}
                    \cup {Cond(mark, <<>>, b.lines, b.nodes) : b \in blocks}
    IN {[lines |-> a.lines \o b.lines, node |-> SelectNode(<<>>, <<a.node, b.node>>)] :
          a \in Cs(<<Mark("QUESTION")>>), b \in Cs(Bar)}

\* Blocks of one or two statements.
BlocksOf(stmts) ==
    {[lines |-> a.lines, nodes |-> <<a.node>>] : a \in stmts} \cup
    {[lines |-> a.lines \o b.lines, nodes |-> <<a.node, b.node>>] : a \in stmts, b \in stmts}

InnerBlocks(d) == {[lines |-> s.lines, nodes |-> <<s.node>>] : s \in Simple(d) \cup Commented(d)}

\* A select without an argument comes last, since what follows is taken for its
\* argument, and does not follow a select, whose argument it would be.  One
\* whose clauses hang comes last, since nobody takes its T_DEDENT.
Bodies ==
    LET onOwn == OnOwnLines(2, InnerBlocks(6))
        conds == Conditions(2, InnerBlocks(4))
        Block1(s)    == [lines |-> s.lines, nodes |-> <<s.node>>]
        Block2(s, t) == [lines |-> s.lines \o t.lines, nodes |-> <<s.node, t.node>>]
    IN BlocksOf(Simple(2) \cup Commented(2)) \cup
       {Block1(s) : s \in onOwn \cup conds \cup Hanging(2)} \cup
       {Block2(s, t) : s \in onOwn, t \in Simple(2)} \cup
       {Block2(s, t) : s \in Simple(2), t \in Hanging(2)} \cup
       {Block2(s, t) : s \in {i \in Simple(2) : i.node.k # "select"}, t \in conds}

\* A path f x = ... with a body on lines of its own, maybe below a comment, and
\* behind it, after an empty line, ./g = 1.
Programs ==
    {File(<<L(0, <<T("IDENT", 3), T("IDENT", 4), Mark("EQ")>>)>> \o c \o b.lines \o
            <<L(0, <<>>), L(0, <<Mark("PERIOD"), Mark("SLASH"), T("IDENT", 5), Mark("EQ"), T("INT", 1)>>)>>,
          TRUE,
          << << [k |-> "path", name |-> 3, pat |-> <<Name(4)>>, body |-> b.nodes],
                [k |-> "path", name |-> 5, pat |-> <<>>, body |-> <<Num(1)>>] >> >>) :
       b \in Bodies, c \in {<<>>, <<L(0, <<Mark("COMMENT")>>)>>}}

-----------------------------------------------------------------------------
\* The other expressions: tokens, and the node they should be parsed to.
Ex(toks, node) == [toks |-> toks, node |-> node]

Node(k, l, r)  == [k |-> k, l |-> l, r |-> r]
NodeOf(k, ns)  == [k |-> k, ns |-> ns]

Between(open, es, close) ==
    <<Mark(open)>> \o
    FoldLeftDomain(LAMBDA s, i : s \o (IF i = 1 THEN <<>> ELSE <<Mark("COMMA")>>) \o es[i].toks, <<>>, es) \o
    <<Mark(close)>>

Nodes(es) == [i \in DOMAIN es |-> es[i].node]

Tupled(es) ==
    Ex(Between("LPAREN", es, "RPAREN"), IF Len(es) = 1 THEN es[1].node ELSE NodeOf("tuple", Nodes(es)))
Listed(es) == Ex(Between("LBRACK", es, "RBRACK"), NodeOf("list", Nodes(es)))
Mapped(es)  == Ex(Between("LBRACE", es, "RBRACE"), NodeOf("map", Nodes(es)))
Ranged(l, r) == Ex(l.toks \o <<Mark("ELLIPSIS")>> \o r.toks, Node("range", l.node, r.node))
Case(pat, e) == Ex(pat.toks \o <<Mark("COLON")>> \o e.toks, CaseNode(Arg(pat.node), <<>>, <<e.node>>))
Lambda(pat, e) == Ex(<<Mark("BSLASH")>> \o Case(pat, e).toks, Case(pat, e).node)
Infixed(t, l, r) == Ex(l.toks \o <<Mark(t)>> \o r.toks, Node(Infix[t], l.node, r.node))
Piped(t, l, r)   == Ex(l.toks \o <<Mark(t)>> \o r.toks, Node("pipe", l.node, r.node))
Applied(l, r)    == Ex(l.toks \o r.toks, Node("apply", l.node, r.node))
Spawned(l, r)    == Ex(<<Mark("PLUS")>> \o Applied(l, r).toks, NodeOf("spawn", <<Applied(l, r).node>>))

One     == Ex(<<T("INT", 1)>>, Num(1))
X       == Ex(<<T("IDENT", 2)>>, Name(2))
Nothing == Ex(<<>>, Absent)
Wild     == Ex(<<Mark("UNDER")>>, Name(0))
Waiting == Ex(<<Mark("LARROW"), T("IDENT", 3)>>, NodeOf("wait", <<Name(3)>>))
Own     == Ex(<<Mark("PERIOD"), Mark("SLASH"), T("IDENT", 4)>>, Node("access", NodeOf("module", <<>>), Name(4)))
Chain   == Ex(<<T("IDENT", 4), Mark("SLASH"), T("IDENT", 5), Mark("SLASH"), T("INT", 6)>>,
              Node("access", Name(4), Node("access", Name(5), Num(6))))
Literal(t) == Ex(<<T(t, 7)>>, [k |-> t, v |-> 7])

\* Operands, those that can be applied to, and those that are also patterns.
Patterns ==
    {One, X, Literal("STRING"), Literal("ATOM"), Tupled(<<>>), Tupled(<<X>>), Tupled(<<One, X>>),
     Listed(<<>>), Listed(<<X>>), Listed(<<One, Ranged(X, Nothing)>>), Listed(<<Ranged(One, One), X>>),
     Mapped(<<Case(X, One)>>), Mapped(<<Case(X, One), Case(One, X)>>)}
Operands == Patterns \cup {Own, Chain, Waiting, Literal("CHAR")}
Arguments == {e \in Operands : e.toks[1].t \in {"IDENT", "LPAREN", "STRING", "INT", "LBRACK", "ATOM"}}

Simples ==
    Operands \cup
    {Infixed(t, l, r) : t \in DOMAIN Infix, l \in {X, Own, Tupled(<<One>>)}, r \in {X, Waiting, Tupled(<<One, X>>)}} \cup
    {Applied(l, r) : l \in {X, Own, Chain, Listed(<<One>>)}, r \in Arguments} \cup
    {Piped(t, l, r) : t \in {"RARROW", "RDARROW"}, l \in {X, Own, Piped("RARROW", One, X)},
                      r \in {X, Nothing, Tupled(<<X>>), Tupled(<<One, X>>), Lambda(X, One)}} \cup
    {Spawned(l, r) : l \in {X, Own, Chain}, r \in {One, X, Tupled(<<One, X>>)}} \cup
    {Lambda(pat, X) : pat \in Patterns \cup {Wild, Nothing}}

\* With a simple expression in each place.
Expressions ==
    Simples \cup
    UNION {{Tupled(<<e>>), Tupled(<<e, One>>), Listed(<<X, e>>), Listed(<<Ranged(e, Nothing)>>),
            Listed(<<Ranged(X, e)>>), Mapped(<<Case(X, e)>>), Lambda(X, e), Infixed("PLUS", X, e),
            Infixed("MINUS", Tupled(<<e>>), X), Applied(X, Tupled(<<e>>)), Spawned(Own, Tupled(<<e>>)),
            Piped("RDARROW", Piped("RARROW", X, Tupled(<<e>>)), X)} : e \in Simples}

\* Files of one path, and of other top-level expressions.
Definition(name, pat, b) == [k |-> "path", name |-> name, pat |-> Arg(pat.node), body |-> b]

ExpressionFiles ==
    {File(<<L(0, <<T("IDENT", 8), Mark("EQ")>>), L(2, e.toks), L(2, <<T("INT", 9)>>)>>, TRUE,
          << <<Definition(8, Nothing, <<e.node, Num(9)>>)>> >>) : e \in Expressions} \cup
    {File(<<L(0, <<T("IDENT", 8), Mark("EQ")>>), L(2, <<Mark("LBRACE"), Mark("RBRACE")>>), L(2, e.toks)>>, TRUE,
          << <<Definition(8, Nothing, <<e.node>>)>> >>) : e \in Simples} \cup
    {File(<<L(0, <<Mark("PERIOD"), Mark("SLASH"), T("IDENT", 8)>> \o pat.toks \o <<Mark("EQ")>> \o e.toks)>>, TRUE,
          << <<Definition(8, pat, <<e.node>>)>> >>) : pat \in Patterns \cup {Wild, Nothing}, e \in Operands} \cup
    {File(<<L(0, <<Mark("PLUS")>> \o Case(pat, One).toks)>>, TRUE, << <<NodeOf("mpath", <<Case(pat, One).node>>)>> >>) :
       pat \in Patterns \cup {Wild, Nothing}} \cup
    {File(<<L(0, <<Mark("SLASH")>> \o Chain.toks \o p \o a)>>, TRUE,
          << <<NodeOf("decl", <<Chain.node, Absent, IF a = <<>> THEN Absent ELSE Literal("ATOM").node>>)>> >>) :
       p \in {<<>>, <<Mark("SLASH")>>, <<Mark("PERIOD")>>}, a \in {<<>>, <<Mark("AT"), T("ATOM", 7)>>}}

\* A statement of any three tokens.
TokenFiles ==
    LET Kind == {"INT", "IDENT", "PERIOD", "SLASH", "LPAREN", "RPAREN", "LBRACK", "RBRACK", "LBRACE",
                 "RBRACE", "COLON", "COMMA", "PLUS", "LARROW", "RARROW", "BSLASH", "ELLIPSIS"}
        Tok3(t, v) == IF t \in {"INT", "IDENT"} THEN T(t, v) ELSE Mark(t)
    IN {File(<<L(0, <<T("IDENT", 5), Mark("EQ")>>), L(2, <<Tok3(a, 1), Tok3(b, 2), Tok3(c, 3)>>)>>, TRUE, <<>>) :
          a \in Kind, b \in Kind, c \in Kind}

MCFiles == PlainFiles \cup PathFiles \cup Programs \cup ExpressionFiles \cup TokenFiles
=============================================================================
