-------------------------------- MODULE Match --------------------------------
(***************************************************************************)
(* Pattern matching at run time: match, match_tuple, match_list and        *)
(* match_atom of src/vm.c.                                                 *)
(*                                                                         *)
(* A value is a record: [k |-> "num", n |-> i], [k |-> "atom", a |-> name],*)
(* [k |-> "tuple", ms |-> s] or [k |-> "list", ms |-> s], where s is the   *)
(* sequence of its members.  A list is built of pointers to its members:   *)
(* one that OP_CONS took from a register is [k |-> "ref", slot |-> i], the *)
(* i-th slot of the process's stack.  A pattern is built like a value and  *)
(* may also contain [k |-> "any", reg |-> r, range |-> b] (TYPE_ANY, binds)*)
(* and [k |-> "var", reg |-> r, range |-> b] (TYPE_VAR, compares with      *)
(* register r); range is the Q_RANGE qualifier of `xs..`.                  *)
(***************************************************************************)
EXTENDS Integers, Sequences

List(s)  == [k |-> "list", ms |-> s]
Tuple(s) == [k |-> "tuple", ms |-> s]
Num(i)   == [k |-> "num", n |-> i]
Atom(a)  == [k |-> "atom", a |-> a]

\* What a slot holds that nobody has written in the current call.
Unset == [k |-> "unset"]

\* The contents of slot i of the stack M, and of a list's member.
Slot(M, i) == IF i \in DOMAIN M THEN M[i] ELSE Unset
Member(M, m) == IF m.k = "ref" THEN Slot(M, m.slot) ELSE m

Store(M, i, v) == [j \in DOMAIN M \cup {i} |-> IF j = i THEN v ELSE M[j]]

\* pattern->t & Q_RANGE: only variables carry the qualifier.
IsRange(p) == p.k \in {"any", "var"} /\ p.range

\* The result of a match: the number n of registers bound, or -1, and the
\* stack, whose slots a failing match may have written to as well.
Matched(n, M) == [n |-> n, mem |-> M]
Mismatch(M) == Matched(-1, M)

\* Mutated form: without the test for a value shorter than the pattern.
EndsTogetherNot(ps, vs) == Len(vs) <= Len(ps)

\* Pattern and value reach their ends together.
EndsTogether(ps, vs) == Len(vs) = Len(ps)

\* The members of a list's pattern before the first range.
Plain(ps) ==
    CHOOSE q \in 0..Len(ps) : /\ q = Len(ps) \/ IsRange(ps[q + 1])
                             /\ \A i \in 1..q : ~IsRange(ps[i])

-----------------------------------------------------------------------------
\* These take what the recursion gives for a member of the pattern, a member
\* of the value and the slot it binds from.

\* The loop of match_tuple and of match_list, for the first n members: each
\* binds from the first slot that the members before it left free.
MatchMembers(M, ps, vs, n, at, Inner(_, _, _, _)) ==
    LET s[i \in 0..n] ==
          IF i = 0 THEN Matched(0, M)
          ELSE LET r == s[i - 1]
                   m == Inner(r.mem, Member(r.mem, ps[i]), Member(r.mem, vs[i]), at + r.n)
               IN IF r.n = -1 THEN r
                  ELSE Matched(IF m.n = -1 THEN -1 ELSE r.n + m.n, m.mem)
    IN s[n]

\* match_tuple
MatchTuple(M, ps, vs, at, Inner(_, _, _, _)) ==
    IF Len(ps) # Len(vs) THEN Mismatch(M) ELSE MatchMembers(M, ps, vs, Len(ps), at, Inner)

\* match_list.  A range is matched against the list of all members that
\* remain, and the count is returned with no test for a mismatch.
MatchList(M, ps, vs, at, Inner(_, _, _, _)) ==
    LET q == Plain(ps)
        n == IF q <= Len(vs) THEN q ELSE Len(vs)
        r == MatchMembers(M, ps, vs, n, at, Inner)
        m == Inner(r.mem, ps[q + 1], List(SubSeq(vs, q + 1, Len(vs))), at + r.n)
    IN IF r.n = -1 THEN r
       ELSE IF q < Len(ps) /\ q <= Len(vs) THEN Matched(r.n + m.n, m.mem)
       ELSE IF EndsTogether(ps, vs) THEN r ELSE Mismatch(r.mem)

\* match(locals, pattern, v, local): locals is slot R of the stack M, and
\* local is slot `at`.
MatchTerm(M, R, p, v, at, Inner(_, _, _, _)) ==
    CASE p.k = "any" -> Matched(1, Store(M, at, v))
      [] p.k = "var" -> Inner(M, Slot(M, R + p.reg), v, at)
      [] p.k \notin {"any", "var"} /\ p.k # v.k -> Mismatch(M)
      [] p.k = "tuple" /\ v.k = "tuple" -> MatchTuple(M, p.ms, v.ms, at, Inner)
      [] p.k = "list" /\ v.k = "list" -> MatchList(M, p.ms, v.ms, at, Inner)
      [] OTHER -> IF p = v THEN Matched(0, M) ELSE Mismatch(M)
=============================================================================
