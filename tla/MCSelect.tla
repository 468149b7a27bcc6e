------------------------------- MODULE MCSelect -------------------------------
(***************************************************************************)
(* Selects of one and two clauses over patterns with repeated, outer and   *)
(* range variables, nested tuples and lists, and values that match all, a  *)
(* part or none of each.                                                   *)
(***************************************************************************)
EXTENDS Select

CONSTANTS x, y, a

Id(n)   == [k |-> "ident", x |-> n]
Rest(n) == [k |-> "rest", x |-> n]

MCPatterns ==
    {Num(0), Atom(a), Id(x), Id(y),
     Tuple(<<Id(x), Id(y)>>), Tuple(<<Id(x), Id(x)>>), Tuple(<<Num(0), Id(y)>>),
     Tuple(<<Id(y), List(<<Id(x), Rest(y)>>)>>),
     Tuple(<<List(<<Id(x), Id(y)>>), Id(x)>>),
     List(<<>>), List(<<Id(x)>>), List(<<Rest(x)>>), List(<<Id(x), Id(y)>>),
     List(<<Id(x), Id(x)>>), List(<<Id(x), Rest(y)>>), List(<<Id(x), Rest(x)>>),
     List(<<Num(0), Id(x), Rest(y)>>), List(<<Id(x), List(<<Id(y)>>)>>)}

MCValues ==
    {Num(0), Num(1), Atom(a),
     Tuple(<<Num(0), Num(1)>>), Tuple(<<Num(0), Num(0)>>),
     Tuple(<<Num(1), List(<<Num(0)>>)>>),
     Tuple(<<List(<<Num(0), Num(1)>>), Num(0)>>),
     List(<<>>), List(<<Num(0)>>), List(<<Num(0), Num(1)>>),
     List(<<Num(1), Num(1)>>), List(<<Num(0), Num(1), Num(1)>>),
     List(<<Num(0), List(<<Num(1)>>)>>)}

MCScopes ==
    {[n \in {} |-> Num(0)], [n \in {x} |-> Num(1)], [n \in {x} |-> Num(0)],
     [n \in {y} |-> List(<<Num(1)>>)],
     [n \in {x, y} |-> IF n = x THEN Num(0) ELSE Num(1)]}
=============================================================================
