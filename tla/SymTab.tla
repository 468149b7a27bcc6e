-------------------------------- MODULE SymTab --------------------------------
(***************************************************************************)
(* The compiler's table of variables (src/symtab.c) and its lexical scopes *)
(* (enterscope and exitscope of src/tree.c), as src/generator.c uses them: *)
(* a name that no open scope knows is defined in the innermost one, with   *)
(* the next register; a name that is known denotes the register it was     *)
(* given.                                                                  *)
(*                                                                         *)
(* The counter of registers is a byte and wraps around: nextreg does not   *)
(* look at it.  Two history variables tell what happened: `defined` has,   *)
(* for each open scope, the names the generator defined in it and their    *)
(* registers; `taken` counts the calls of nextreg.                         *)
(***************************************************************************)
EXTENDS Naturals, Sequences, FiniteSets

CONSTANTS
    Names,        \* identifiers of the program
    Size,         \* buckets of a table (1024 in enterscope)
    Hash,         \* Hash[k]: hash(k) % Size
    NRegs,        \* the values of a uint8_t, ClauseEntry.nreg's type: 256
    MaxTaken,     \* bound on the calls of nextreg in a clause
    MaxScopes     \* bound on the nesting of scopes

ASSUME SymTabAssumption ==
    /\ Size \in Nat \ {0}
    /\ Hash \in [Names -> 0..Size - 1]
    /\ NRegs \in Nat \ {0}
    /\ MaxTaken \in Nat
    /\ MaxScopes \in Nat \ {0}

VARIABLES
    symbols,      \* tree->symbols and its parents, innermost last
    nreg,         \* ClauseEntry.nreg
    defined,      \* history: what each open scope should know
    taken         \* history: how often nextreg was called

vars == <<symbols, nreg, defined, taken>>

B == INSTANCE Buckets

\* The scopes that know k; symtab_lookup walks from the innermost to the root
\* through the parent links.
Knowing(k) == {s \in 1..Len(symbols) : B!Holds(symbols[s], k)}

Known(k) == Knowing(k) # {}

\* symtab_lookup(tree->symbols, k), when it is not NULL.
Lookup(k) ==
    LET s == CHOOSE i \in Knowing(k) : \A j \in Knowing(k) : j <= i
    IN B!ValueOf(symbols[s], k)

\* gen_clause's enterscope.  The tree's own table below it stays empty: nothing
\* is defined outside the clause of a path.
Init ==
    /\ symbols = <<B!EmptyTable>>
    /\ nreg = 0
    /\ defined = << [k \in {} |-> 0] >>
    /\ taken = 0

\* enterscope
EnterScope ==
    /\ Len(symbols) < MaxScopes
    /\ symbols' = Append(symbols, B!EmptyTable)
    /\ defined' = Append(defined, [k \in {} |-> 0])
    /\ UNCHANGED <<nreg, taken>>

\* exitscope: a clause's inner scopes; registers are not given back.
ExitScope ==
    /\ Len(symbols) > 1
    /\ symbols' = SubSeq(symbols, 1, Len(symbols) - 1)
    /\ defined' = SubSeq(defined, 1, Len(defined) - 1)
    /\ UNCHANGED <<nreg, taken>>

\* nextreg: the register is nreg, and nobody looks whether it was handed out
\* before.
NextReg ==
    /\ taken < MaxTaken
    /\ nreg' = (nreg + 1) % NRegs
    /\ taken' = taken + 1

\* Mutated form: the register is not taken.
DefineNoReg(k) ==
    /\ ~Known(k)
    /\ taken < MaxTaken
    /\ symbols' = [symbols EXCEPT ![Len(symbols)] =
                     B!Insert(@, [name |-> k, val |-> nreg])]
    /\ defined' = [defined EXCEPT ![Len(defined)] =
                     [n \in DOMAIN @ \cup {k} |-> IF n = k THEN nreg ELSE @[n]]]
    /\ UNCHANGED <<nreg, taken>>

\* Mutated form: inserts into the outermost table.
DefineInRoot(k) ==
    /\ ~Known(k)
    /\ symbols' = [symbols EXCEPT ![1] =
                     B!Insert(@, [name |-> k, val |-> nreg])]
    /\ defined' = [defined EXCEPT ![Len(defined)] =
                     [n \in DOMAIN @ \cup {k} |-> IF n = k THEN nreg ELSE @[n]]]
    /\ NextReg

\* gen_locals, gen_pattern and gen_bind: for a name that is not known,
\* define(g, k, nextreg(g)).
Define(k) ==
    /\ ~Known(k)
    /\ symbols' = [symbols EXCEPT ![Len(symbols)] =
                     B!Insert(@, [name |-> k, val |-> nreg])]
    /\ defined' = [defined EXCEPT ![Len(defined)] =
                     [n \in DOMAIN @ \cup {k} |-> IF n = k THEN nreg ELSE @[n]]]
    /\ NextReg

\* nextreg alone: the register of a value that has no name.
Temporary ==
    /\ NextReg
    /\ UNCHANGED <<symbols, defined>>

Next ==
    \/ EnterScope
    \/ ExitScope
    \/ \E k \in Names : Define(k)
    \/ Temporary

Spec == Init /\ [][Next]_vars

-----------------------------------------------------------------------------
\* The tables keep their shape and every entry sits in its name's bucket.
TypeOK ==
    /\ nreg \in 0..NRegs - 1
    /\ taken \in 0..MaxTaken
    /\ Len(symbols) \in 1..MaxScopes
    /\ Len(defined) = Len(symbols)
    /\ \A s \in 1..Len(symbols) :
          /\ DOMAIN symbols[s] = 0..Size - 1
          /\ \A h \in 0..Size - 1 :
               \A i \in 1..Len(symbols[s][h]) :
                 /\ symbols[s][h][i].name \in Names
                 /\ symbols[s][h][i].val \in 0..NRegs - 1
                 /\ symbols[s][h][i].val < taken
                 /\ Hash[symbols[s][h][i].name] = h
          /\ DOMAIN defined[s] \subseteq Names

\* What symtab_lookup returns for a name is a register that the generator gave
\* to that very name in a scope that is still open: neither another name of
\* the same bucket nor a name of a closed scope is ever taken for it.
LookupSound ==
    \A k \in Names : Known(k) =>
      \E s \in 1..Len(defined) : k \in DOMAIN defined[s] /\ defined[s][k] = Lookup(k)

\* The registers that nextreg has returned.
HandedOut == {r \in 0..NRegs - 1 : r < taken}

\* They are in the frame that a call of the clause gets, of as many registers as
\* dump_clause writes: vm.c:516 asserts it of OP_LOADK's in a debug build.
FrameHolds == \A r \in HandedOut : r < nreg

\* As long as a clause takes no more registers than a byte has values, two names
\* never denote the same one; and exactly as long as it takes fewer, all of them
\* are in its frame: with the last one there is the frame is an empty one, and
\* whatever is taken after that, it is too small.
OwnRegister ==
    /\ taken <= NRegs =>
         \A k, n \in Names : (k # n /\ Known(k) /\ Known(n)) => Lookup(k) # Lookup(n)
    /\ FrameHolds <=> taken < NRegs

\* A name that was defined in an open scope can only be unknown because some
\* other name is in the bucket of its scope's table.
LostByCollisionOnly ==
    \A s \in 1..Len(defined) : \A k \in DOMAIN defined[s] :
      \/ B!Holds(symbols[s], k)
      \/ \E n \in Names \ {k} : Hash[n] = Hash[k] /\ B!Holds(symbols[s], n)

\* symtab.c:68-73: insert sets a value for a key, and a list takes it if there
\* is a value at that index already; so a name that was defined in an open
\* scope is known.
DefinedIsKnown ==
    \A s \in 1..Len(defined) : \A k \in DOMAIN defined[s] : Known(k)
=============================================================================
