------------------------------- MODULE Patterns -------------------------------
(***************************************************************************)
(* The compilation of patterns: gen_pattern of src/generator.c.            *)
(*                                                                         *)
(* Source patterns are records like the values of Match, with names in     *)
(* place of registers: [k |-> "ident", x |-> name], also for `_`, which    *)
(* the parser makes an identifier; [k |-> "rest", x |-> name] for `xs..`;  *)
(* and numbers, atoms, tuples and lists.  Compiled patterns are those of   *)
(* Match.  The symbol table is a function from the names in scope to their *)
(* registers; module SymTab is about how it is stored, and about nextreg,  *)
(* whose byte wraps around at 256: here registers are counted on, and what *)
(* is said of them is said of those that a frame has.                      *)
(***************************************************************************)
EXTENDS Naturals, Sequences

\* define(g, ident, reg): x is in the current scope, in register r.
Bind(sc, x, r) == [y \in DOMAIN sc \cup {x} |-> IF y = x THEN r ELSE sc[y]]

\* gen_pattern for an identifier: a bound one compares, a new one is defined
\* in the current scope and gets the next register.
GenPatternIdent(x, range, sc, next) ==
    IF x \in DOMAIN sc
      THEN [pat |-> [k |-> "var", reg |-> sc[x], range |-> range],
            sc |-> sc, next |-> next]
      ELSE [pat |-> [k |-> "any", reg |-> next, range |-> range],
            sc |-> Bind(sc, x, next), next |-> next + 1]

\* These take what the recursion gives for a member in a scope.

\* The members of a tuple or a list, first to last, each in the scope that
\* the ones before it extended.
GenPatternMembers(ps, sc, next, Inner(_, _, _)) ==
    LET s[i \in 0..Len(ps)] ==
          IF i = 0 THEN [pats |-> <<>>, sc |-> sc, next |-> next]
          ELSE LET r == s[i - 1]
                   g == Inner(ps[i], r.sc, r.next)
               IN [pats |-> Append(r.pats, g.pat), sc |-> g.sc, next |-> g.next]
    IN s[Len(ps)]

\* gen_pattern(g, n): the compiled pattern, and the scope and the next free
\* register after it.
GenPatternTerm(p, sc, next, Inner(_, _, _)) ==
    CASE p.k = "ident" -> GenPatternIdent(p.x, FALSE, sc, next)
      [] p.k = "rest"  -> GenPatternIdent(p.x, TRUE, sc, next)
      [] p.k \in {"tuple", "list"} ->
           LET g == GenPatternMembers(p.ms, sc, next, Inner)
           IN [pat |-> [k |-> p.k, ms |-> g.pats], sc |-> g.sc, next |-> g.next]
      [] OTHER -> [pat |-> p, sc |-> sc, next |-> next]
=============================================================================
