------------------------------- MODULE MCLoader -------------------------------
(***************************************************************************)
(* Modules for Loader: every kind of parameter and constant, alone and     *)
(* within others, and texts, tuples, codes, tables of constants and        *)
(* numbers of paths around each limit of the format and of the generator.  *)
(***************************************************************************)
EXTENDS Loader

Half == Base \div 2

\* A text of n letters, and a tuple of n members.
Word(n) == [i \in 1..n |-> 7]
Many(n, x) == Tuple(n, [i \in 1..n |-> x])

Numbers == {Number(0), Number(-1), Number(Base - 1), Number(-70000)}

SomeParameters ==
    LET leaves == {AnyValue, Atom(Word(2))} \cup Numbers
        limits == {Atom(Word(n)) : n \in {Base - 3, Base - 2, Base - 1, Base}} \cup
                  {Many(n, AnyValue) : n \in {Half - 1, Half, Base - 1, Base, Base + 1}}
    IN leaves \cup {Tuple(0, <<>>)} \cup {Tuple(2, <<x, y>>) : x \in leaves, y \in leaves}
         \cup limits \cup {Tuple(2, <<x, Number(1)>>) : x \in limits}

ManyConstants ==
    LET leaves == {Number(7), Number(-1), Atom(Word(2)), Atom(Word(Base)), PathID(Word(3), Word(1)),
                   Ident(TYPE_ANY, 1), Ident(TYPE_VAR, 2), Ident(TYPE_ANY + Q_RANGE, Base - 1)}
        lists == {List(<<>>)} \cup {List(<<x, y>>) : x \in leaves, y \in leaves}
        limits == {Many(n, Number(1)) : n \in {Half - 1, Half, Base - 1}} \cup
                  {List([i \in 1..n |-> Ident(TYPE_ANY, i % Base)]) : n \in {Base - 1, Base}}
    IN leaves \cup lists \cup limits
         \cup {Tuple(3, <<x, Number(1), Atom(Word(1))>>) : x \in leaves \cup limits}
         \cup {List(<<Number(2), x, Number(3)>>) : x \in lists \cup limits}

Clause(p, ks, code) == [pattern |-> p, nlocals |-> 3, constants |-> ks, code |-> code]

SomeConstants == <<List(<<Number(1), Number(2)>>), PathID(Word(3), Word(1)), Number(-1)>>

SomeClauses ==
    {Clause(p, SomeConstants, <<1, 0, 70000>>) : p \in SomeParameters} \cup
    {Clause(Tuple(0, <<>>), <<k>>, <<1, 0>>) : k \in ManyConstants} \cup
    {Clause(AnyValue, <<Number(1), k, Atom(Word(1))>>, <<5>>) : k \in ManyConstants}

Small == Clause(AnyValue, <<Atom(Word(1)), Number(4)>>, [i \in 1..Base + 5 |-> i])

\* Around the room for code, for constants and for paths.
Rows(n) == [i \in 1..n |-> Number(i)]

BufferLimits ==
    {<<[name |-> Word(1), clauses |-> <<Clause(AnyValue, <<>>, [i \in 1..n |-> i])>>]>> :
       n \in {CodeSize - 2, CodeSize - 1, CodeSize, CodeSize + 1, 2 * CodeSize + 1}} \cup
    {<<[name |-> Word(1), clauses |-> <<Clause(AnyValue, Rows(n), <<>>)>>]>> :
       n \in {Half - 1, Half, Half + 1}} \cup
    {[i \in 1..n |-> [name |-> Word(i % Base), clauses |-> <<Clause(AnyValue, <<>>, <<>>)>>]] :
       n \in {Base - 1, Base, Base + 1}}

MCModules ==
    {<<>>} \cup BufferLimits \cup
    {<<[name |-> Word(n), clauses |-> <<c>>]>> : n \in {1, Base - 1, Base}, c \in SomeClauses} \cup
    {<<[name |-> Word(n), clauses |-> <<Small>>], [name |-> Word(2), clauses |-> <<c, Small>>],
       [name |-> Word(m), clauses |-> <<Small>>]>> :
       n \in {3, Base - 2, Base + 1}, m \in {4, Base - 1, Base}, c \in {Clause(p, <<>>, <<>>) : p \in SomeParameters}}
=============================================================================
