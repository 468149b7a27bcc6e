----------------------------- MODULE ClauseTables -----------------------------
(***************************************************************************)
(* What a ClauseEntry (src/tree.c) collects while its clause is generated: *)
(* its variables and registers (SymTab) and its constants, with the table  *)
(* of src/generator.c that finds a constant of the same source text again. *)
(* Both end up in the operands of instructions, where src/op.h tells them  *)
(* apart by one bit.                                                       *)
(***************************************************************************)
EXTENDS SymTab

CONSTANTS
    Literals,     \* what gen_constant is called with: [text, value]
    NoText,       \* the text of a call with src = NULL
    KSize,        \* buckets of ktable (128 in clauseentry)
    KHash,        \* KHash[t]: hash(t) % KSize
    BitRK,        \* BITRK, and the entries of kheader: both are 128
    MaxConsts     \* bound on the constants of a clause

Texts == {l.text : l \in Literals} \ {NoText}

ASSUME ClauseTablesAssumption ==
    /\ KSize \in Nat \ {0}
    /\ \A l \in Literals : l = [text |-> l.text, value |-> l.value]
    /\ KHash \in [Texts -> 0..KSize - 1]
    /\ BitRK \in Nat \ {0}
    /\ BitRK < NRegs /\ NRegs <= 2 * BitRK
    /\ MaxConsts \in 0..2 * BitRK

VARIABLES
    ktable,       \* ClauseEntry.ktable
    kheader,      \* the constants, in the order of their indices
    handed        \* history: the calls of gen_constant and what they returned

ctvars == <<symbols, nreg, defined, taken, ktable, kheader, handed>>

K == INSTANCE Buckets WITH Size <- KSize, Hash <- KHash

\* Mutated form: the operand is the bare index.
RKASKBare(x) == x

\* RKASK: the operand for constant x, within eight bits.
RKASK(x) == IF x >= BitRK THEN x ELSE x + BitRK

\* ISK and INDEXK: what the interpreter reads for an operand.
Reads(op) ==
    IF op >= BitRK THEN [kind |-> "constant", num |-> op - BitRK]
    ELSE [kind |-> "register", num |-> op]

CTInit ==
    /\ Init
    /\ ktable = K!EmptyTable
    /\ kheader = <<>>
    /\ handed = {}

\* symtab_lookup(ktable, src): ktable has no parent.
Found(l) == l.text # NoText /\ K!Holds(ktable, l.text)

\* Mutated form: a text that is found gives the index after its own.
ConstantNext(l) ==
    /\ Found(l)
    /\ handed' = handed \cup
         {[lit |-> l, index |-> (K!ValueOf(ktable, l.text) + 1) % Len(kheader)]}
    /\ UNCHANGED <<symbols, nreg, defined, taken, ktable, kheader>>

\* gen_constant when the text is found: the index it has.
ConstantFound(l) ==
    /\ Found(l)
    /\ handed' = handed \cup {[lit |-> l, index |-> K!ValueOf(ktable, l.text)]}
    /\ UNCHANGED <<symbols, nreg, defined, taken, ktable, kheader>>

\* gen_constant otherwise: the next index, without a look at kheader's size.
ConstantNew(l) ==
    /\ Len(kheader) < MaxConsts
    /\ ~Found(l)
    /\ kheader' = Append(kheader, l.value)
    /\ ktable' = IF l.text = NoText THEN ktable
                 ELSE K!Insert(ktable, [name |-> l.text, val |-> Len(kheader)])
    /\ handed' = handed \cup {[lit |-> l, index |-> Len(kheader)]}
    /\ UNCHANGED <<symbols, nreg, defined, taken>>

CTNext ==
    \/ Next /\ UNCHANGED <<ktable, kheader, handed>>
    \/ \E l \in Literals : ConstantFound(l) \/ ConstantNew(l)

CTSpec == CTInit /\ [][CTNext]_ctvars

-----------------------------------------------------------------------------
\* The interpreter reads every operand of the clause as what it was handed out
\* for (a register or a constant) exactly as long as the clause has no more
\* registers and no more constants than BITRK leaves numbers for each: neither
\* nextreg nor gen_constant looks at that.
OperandsTold ==
    (/\ \A r \in HandedOut : Reads(r) = [kind |-> "register", num |-> r]
     /\ \A h \in handed : Reads(RKASK(h.index)) = [kind |-> "constant", num |-> h.index])
    <=> taken <= BitRK /\ Len(kheader) <= BitRK

\* The constant a call gets is the value it asked for; or else the value
\* that an earlier call asked for under the same text.
ConstantSound ==
    \A h \in handed :
      /\ h.index < Len(kheader)
      /\ \/ kheader[h.index + 1] = h.lit.value
         \/ /\ h.lit.text # NoText
            /\ \E f \in handed : /\ f.index = h.index /\ f.lit.text = h.lit.text
                                 /\ kheader[h.index + 1] = f.lit.value
=============================================================================
