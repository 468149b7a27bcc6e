------------------------------- MODULE MCProgram -------------------------------
(***************************************************************************)
(* The programs of the Program runs: recursive paths put together from all *)
(* combinations of a base case, a recursive case and a way to go on after  *)
(* the select, called by different mains; and the programs of test/gen and *)
(* of the README, with smaller numbers.                                    *)
(***************************************************************************)
EXTENDS Program

N(i)      == [op |-> "num", n |-> i]
At(a)     == [op |-> "atom", a |-> a]
V(x)      == [op |-> "var", x |-> x]
T(ms)     == [op |-> "tuple", ms |-> ms]
L(ms)     == [op |-> "list", ms |-> ms]
Add(l, r) == [op |-> "add", l |-> l, r |-> r]
Sub(l, r) == [op |-> "sub", l |-> l, r |-> r]
Gt(l, r)  == [op |-> "gt", l |-> l, r |-> r]
Lt(l, r)  == [op |-> "lt", l |-> l, r |-> r]
Def(x, e) == [op |-> "bind", x |-> x, e |-> e]
Ap(f, e)  == [op |-> "apply", f |-> f, e |-> e]

Guarded(pat, guards, body) == [pat |-> pat, guards |-> guards, body |-> body]
Cl(pat, body) == Guarded(<<pat>>, <<>>, body)
Sel(e, clauses) == [op |-> "select", arg |-> <<e>>, clauses |-> clauses]
If(clauses) == [op |-> "select", arg |-> <<>>, clauses |-> clauses]

Id(x)   == [k |-> "ident", x |-> x]
Rest(x) == [k |-> "rest", x |-> x]

Def1(f, param, body) == [name |-> f, param |-> param, body |-> body]
Main(body) == Def1("main", Tuple(<<>>), body)

-----------------------------------------------------------------------------
\* f n = n ? 0 : base | m : step, with what comes before and after it.  Only
\* the steps that pass on what f returns are taken with a tuple to return.
Passing ==
    LET less == Sub(V("m"), N(1))
    IN {<<Ap("f", less)>>,
        <<Def("r", less), Ap("f", V("r"))>>,
        <<Sel(less, <<Cl(Num(0), <<V("m")>>),
                      Cl(Id("k"), <<Ap("f", V("k"))>>)>>)>>}

Adding ==
    LET less == Sub(V("m"), N(1))
    IN {<<Add(V("m"), Ap("f", less))>>,
        <<Def("r", Ap("f", less)), Add(V("r"), V("m"))>>,
        <<Sel(Ap("f", less), <<Cl(Id("n"), <<N(1)>>),
                               Cl(Id("k"), <<Add(V("k"), V("n"))>>)>>)>>}

Select(base, step) == Sel(V("n"), <<Cl(Num(0), base), Cl(Id("m"), step)>>)

Selections ==
    {Select(<<V("n")>>, step) : step \in Passing \cup Adding} \cup
    {Select(<<T(<<V("n"), At("z")>>)>>, step) : step \in Passing}

Bodies ==
    UNION {{<<s>>,
            <<Def("p", Add(V("n"), N(1))), s>>,
            <<Def("s", s), Add(V("s"), V("n"))>>,
            <<Def("s", s), T(<<V("s"), V("n")>>)>>,
            <<Def("s", s), Sel(V("s"), <<Cl(Num(0), <<N(7)>>),
                                         Cl(Id("k"), <<T(<<V("k")>>)>>)>>)>>} :
             s \in Selections}

Mains ==
    {Main(<<Ap("f", N(2))>>),
     Main(<<Def("x", Ap("f", N(1))), Add(V("x"), Ap("f", N(2)))>>),
     Main(<<Sel(Ap("f", N(2)), <<Cl(Tuple(<<Id("x"), Id("y")>>), <<V("x")>>),
                                 Cl(Id("x"), <<V("x")>>)>>)>>)}

Recursive == {<<Def1("f", Id("n"), body), main>> : body \in Bodies, main \in Mains}

-----------------------------------------------------------------------------
\* test/gen/lists.arb: recursion over lists, by tail calls and without.
SumTco ==
    Def1("sum'tco", Tuple(<<Id("l"), Id("s")>>),
         <<Sel(V("l"), <<Cl(List(<<Id("x"), Rest("xs")>>),
                            <<Ap("sum'tco", T(<<V("xs"), Add(V("x"), V("s"))>>))>>),
                         Cl(List(<<>>), <<V("s")>>)>>)>>)
Sum ==
    Def1("sum", Id("l"),
         <<Sel(V("l"), <<Cl(List(<<Id("x"), Rest("xs")>>),
                            <<Add(V("x"), Ap("sum", V("xs")))>>),
                         Cl(List(<<>>), <<N(0)>>)>>)>>)
Fib ==
    Def1("fib", Id("x"),
         <<Sel(V("x"), <<Cl(Num(0), <<N(0)>>),
                         Cl(Num(1), <<N(1)>>),
                         Cl(Id("n"), <<Add(Ap("fib", Sub(V("n"), N(1))),
                                           Ap("fib", Sub(V("n"), N(2))))>>)>>)>>)

Lists ==
    {<<SumTco, Sum, Main(<<Def("l", L(ms)),
                           Sub(Ap("sum", V("l")), Ap("sum'tco", T(<<V("l"), N(0)>>)))>>)>> :
       ms \in {<<>>, <<N(4)>>, <<N(1), Add(N(1), N(2))>>, <<At("a"), N(1)>>}}
    \cup {<<Fib, Main(<<Ap("fib", N(3))>>)>>}

\* test/gen/select-conditions.arb, select-guards.arb and select.arb: guards,
\* with and without a pattern; no clause; the wrong type; no such path.
Guards ==
    {<<Def1("f", Tuple(<<Id("x"), Id("y")>>),
            <<If(<<Guarded(<<>>, <<Gt(V("x"), V("y")), Lt(V("x"), N(5))>>, <<V("x")>>),
                   Guarded(<<>>, <<Lt(V("x"), V("y"))>>, <<Sub(V("y"), V("x"))>>),
                   Guarded(<<>>, <<Gt(N(1), N(0))>>, <<At("same")>>)>>)>>),
       Main(<<Ap("f", arg)>>)>> :
       arg \in {T(<<N(i), N(j)>>) : i \in {2, 9}, j \in {2, 5, 9}}
               \cup {T(<<At("a"), N(1)>>), N(1), T(<<N(1)>>)}}
    \cup
    {<<Def1("f", Id("x"),
            <<Sel(V("x"), <<Cl(Tuple(<<Num(0), Id("z")>>), <<V("z")>>),
                            Cl(Atom("zero"), <<N(1)>>),
                            Guarded(<<Id("y")>>, <<Lt(V("y"), N(0))>>, <<N(2)>>),
                            Guarded(<<Id("y")>>, <<Gt(V("y"), N(0)), Lt(V("y"), N(9))>>,
                                    <<V("y")>>)>>)>>),
       Main(<<Def("a", Ap("f", arg)), V("a")>>)>> :
       arg \in {N(3), N(9), Sub(N(0), N(1)), At("zero"), At("one"),
                T(<<N(0), N(5)>>), T(<<N(0), T(<<N(1), N(2)>>)>>)}}
    \cup
    {<<Def1("g", Id("x"), <<V("x")>>), Main(<<Def("a", Ap(f, N(1))), V("a")>>)>> :
       f \in {"g", "h"}}

\* Names bound around and in selects, and numbers against other values.
Selects ==
    {<<Def1("g", Tuple(<<Id("x"), Tuple(<<Id("y"), Num(1)>>)>>),
            <<Def("r", Sel(V("x"), <<Cl(pat, <<V("y")>>), Cl(Id("z"), <<V("z")>>)>>)),
              Add(V("r"), V("y"))>>),
       Main(<<Ap("g", T(<<arg, T(<<N(3), N(1)>>)>>))>>)>> :
       pat \in {Id("y"), Num(2), Tuple(<<>>)}, arg \in {N(2), N(3)}}
    \cup
    {<<Main(<<Def("l", L(<<N(1), N(2)>>)), Def("x", N(1)),
              Sel(V("l"), <<Cl(pat, <<V("x")>>), Cl(Id("q"), <<N(0)>>)>>)>>)>> :
       pat \in {List(<<Id("x"), Id("y")>>), List(<<Id("y"), Id("x")>>), Num(1),
                List(<<Id("x")>>), List(<<Id("x"), Rest("ys")>>), List(<<Rest("ys")>>)}}

\* A loop that does not end, and one that ends when no argument matches.
Endless ==
    {<<Def1("f", Id("n"), <<Sel(V("n"), <<Cl(Num(0), <<N(1)>>),
                                          Cl(Id("m"), <<Ap("f", V("m"))>>)>>)>>),
       Main(<<Ap("f", N(1))>>)>>,
     <<Def1("f", Tuple(<<Id("x"), Id("y")>>), <<Ap("f", V("x"))>>),
       Main(<<Ap("f", T(<<T(<<N(1), N(2)>>), N(3)>>))>>)>>}

\* A select of which no clause matches leaves its register unwritten: what comes
\* of it as the operand of a select, an argument, a sum or a result.
NoClause ==
    {<<Def1("f", Id("x"), <<Def("r", Sel(V("x"), <<Cl(Num(0), <<N(1)>>)>>)), use>>),
       Main(<<Def("a", Ap("f", N(i))), V("a")>>)>> :
       i \in {0, 1},
       use \in {Sel(V("r"), <<Cl(Atom("a"), <<N(1)>>), Cl(Id("k"), <<V("k")>>)>>),
                Ap("f", V("r")), Add(V("r"), N(1)), V("r")}}
    \cup
    {<<Def1("g", Id("x"), <<V("x")>>),
       Main(<<Def("r", Sel(N(i), <<Cl(Num(0), <<N(1)>>)>>)), Def("a", Ap("g", V("r"))),
              V("a")>>)>> :
       i \in {0, 1}}

\* Constructs that Supported excludes.
Unsupported ==
    {<<Main(<<Ap("f", N(1))>>), Def1("f", Id("n"), <<V("n")>>)>>,
     <<Def1("f", Id("n"), <<L(<<V("n"), N(1)>>)>>), Main(<<Ap("f", N(1))>>)>>,
     <<Def1("f", Id("n"), <<T(<<L(<<V("n")>>)>>)>>), Main(<<Ap("f", N(1))>>)>>}

\* A self call in a clause of a select that is not the last statement.
CallInClause == {p \in Recursive : \E i \in DOMAIN p : DropsRest(p[i])}

\* f x = x ? 0 : 1 | y : ./f 0
ConstantArgument ==
    {<<Def1("f", Id("x"), <<Sel(V("x"), <<Cl(Num(0), <<N(1)>>),
                                          Cl(Id("y"), <<Ap("f", N(0))>>)>>)>>),
       Main(<<Ap("f", N(1))>>)>>}

MCPrograms == Recursive \cup Lists \cup Guards \cup Selects
              \cup NoClause \cup Endless \cup ConstantArgument \cup Unsupported
=============================================================================
