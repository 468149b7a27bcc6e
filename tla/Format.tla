-------------------------------- MODULE Format --------------------------------
(***************************************************************************)
(* The format of a module file, by its two programs: dump_* of             *)
(* src/generator.c writes, vm_read* of src/vm.c and bin_read* of src/bin.c *)
(* read.  They share no description of it.                                 *)
(*                                                                         *)
(* A file is a sequence of bytes; texts are sequences of bytes but 0.  A   *)
(* read behind the end, which in C gets whatever is there, and a failed    *)
(* assertion count as a crash.                                             *)
(***************************************************************************)
EXTENDS Integers, Sequences, SequencesExt

CONSTANTS
    Base,         \* 256: the number of values of a byte
    Depth         \* how deep values may nest

\* A byte holds a type with its qualifier.
ASSUME BaseAssumption == Base \in Nat /\ Base % 2 = 0 /\ Base >= 32

ASSUME DepthAssumption == Depth \in Nat

-----------------------------------------------------------------------------
TYPE_ANY == 2
TYPE_VAR == 3
TYPE_ATOM == 4
TYPE_TUPLE == 6
TYPE_NUMBER == 8
TYPE_LIST == 9
TYPE_PATHID == 11
Q_RANGE == 16

Masked(t) == t % Q_RANGE

\* Parameters, patterns, and what else a table of constants contains.
AnyValue == [t |-> TYPE_ANY]
Ident(t, reg) == [t |-> t, ident |-> reg]
Atom(a) == [t |-> TYPE_ATOM, atom |-> a]
Number(n) == [t |-> TYPE_NUMBER, number |-> n]
Tuple(arity, members) == [t |-> TYPE_TUPLE, arity |-> arity, members |-> members]
List(items) == [t |-> TYPE_LIST, items |-> items]
PathID(m, p) == [t |-> TYPE_PATHID, module |-> m, path |-> p]

\* `int arity : 8`
Signed8(n) == IF n % Base < Base \div 2 THEN n % Base ELSE (n % Base) - Base

\* Bytes, texts, and the values of an int.
ByteType == 0..Base - 1
Texts == Seq(1..Base - 1)
IntMax == Base * (Base * (Base * (Base \div 2)))
IntType == -IntMax..IntMax - 1

\* Tuples of so many of these.
Tuples(arities, members) ==
    {v \in [t : {TYPE_TUPLE}, arity : arities, members : Seq(members)] : Len(v.members) = v.arity}

\* Parameters with such atoms and tuples, by how deep they nest.
Parameters(texts, arities) ==
    LET ps[d \in 0..Depth] ==
          IF d = 0 THEN {}
          ELSE {AnyValue} \cup [t : {TYPE_NUMBER}, number : IntType] \cup [t : {TYPE_ATOM}, atom : texts]
                 \cup Tuples(arities, ps[d - 1])
    IN ps

\* Constants likewise.  An int counts the items of a list.
Values(arities) ==
    LET vs[d \in 0..Depth] ==
          IF d = 0 THEN {}
          ELSE [t : {TYPE_ANY, TYPE_VAR, TYPE_ANY + Q_RANGE, TYPE_VAR + Q_RANGE}, ident : ByteType]
                 \cup [t : {TYPE_NUMBER}, number : IntType] \cup [t : {TYPE_ATOM}, atom : Texts]
                 \cup [t : {TYPE_PATHID}, module : Texts, path : Texts]
                 \cup Tuples(arities, vs[d - 1])
                 \cup {v \in [t : {TYPE_LIST}, items : Seq(vs[d - 1])] : Len(v.items) < IntMax}
    IN vs

\* Clauses and paths of those parameters and constants.
Clauses(parameters, values) ==
    [pattern : parameters, nlocals : ByteType, constants : Seq(values), code : Seq(IntType)]
Paths(clauses) == [name : Texts, clauses : Seq(clauses)]

-----------------------------------------------------------------------------
\* Writing.  w bytes of a number, the lowest first.
Bytes(w, n) ==
    LET q[i \in 0..w - 1] == IF i = 0 THEN n ELSE q[i - 1] \div Base
    IN [i \in 1..w |-> q[i - 1] % Base]

\* fputc
Byte(n) == <<n % Base>>

\* A text with the 0 behind it.
Text(s) == Append(s, 0)

\* dump_node, for a parameter, with what it writes for the members; dump_atom
\* and dump_number.
NodeBytes(n, dump) ==
    Byte(n.t) \o
    (CASE n.t = TYPE_TUPLE  -> Byte(n.arity) \o FlattenSeq([i \in 1..n.arity |-> dump[n.members[i]]])
       [] n.t = TYPE_ATOM   -> Byte(Len(n.atom) + 1) \o Text(n.atom)
       [] n.t = TYPE_NUMBER -> Bytes(4, n.number)
       [] n.t = TYPE_ANY    -> <<>>)

NodeDump[d \in 0..Depth] ==
    IF d = 0 THEN <<>> ELSE [n \in Parameters(Texts, Nat)[d] |-> NodeBytes(n, NodeDump[d - 1])]

DumpNode(n) == NodeDump[Depth][n]

\* gen_pattern conses the items of a list, the first first.
Consed(items) == Reverse(items)

\* dump_constant, with what it writes for members and items.
ConstantBytes(k, dump) ==
    Byte(k.t) \o
    (CASE Masked(k.t) = TYPE_PATHID -> Text(k.module) \o Text(k.path)
       [] Masked(k.t) = TYPE_TUPLE  ->
            LET arity == Signed8(k.arity) % Base
            IN Byte(arity) \o FlattenSeq([i \in 1..arity |-> dump[k.members[i]]])
       [] Masked(k.t) = TYPE_LIST   ->
            LET l == Consed(k.items)
            IN Bytes(8, Len(l)) \o FlattenSeq([i \in 1..Len(l) |-> dump[l[i]]])
       [] Masked(k.t) = TYPE_ATOM   -> Text(k.atom)
       [] Masked(k.t) = TYPE_NUMBER -> Bytes(4, k.number)
       [] Masked(k.t) \in {TYPE_VAR, TYPE_ANY} -> Byte(k.ident))

ConstantDump[d \in 0..Depth] ==
    IF d = 0 THEN <<>> ELSE [k \in Values(Nat)[d] |-> ConstantBytes(k, ConstantDump[d - 1])]

DumpConstant(k) == ConstantDump[Depth][k]

\* dump_clause
DumpClause(c) ==
    DumpNode(c.pattern) \o Byte(c.nlocals) \o Byte(Len(c.constants)) \o
    FlattenSeq([i \in 1..Len(c.constants) |-> DumpConstant(c.constants[i])]) \o
    Bytes(8, Len(c.code)) \o FlattenSeq([i \in 1..Len(c.code) |-> Bytes(4, c.code[i])])

\* Mutated form: the longest name is one byte shorter.
DumpNameShort(name) ==
    LET len == IF Len(name) < Base - 1 THEN Len(name) ELSE Base - 2
    IN Byte(len) \o SubSeq(name, 1, len)

\* A path's name, as much as its length can tell.
DumpName(name) ==
    LET len == IF Len(name) < Base - 1 THEN Len(name) ELSE Base - 1
    IN Byte(len) \o SubSeq(name, 1, len)

\* dump_path
DumpPath(p) ==
    Byte(Base - 1) \o DumpName(p.name) \o Byte(Len(p.clauses)) \o
    FlattenSeq([i \in 1..Len(p.clauses) |-> DumpClause(p.clauses[i])])

Magic == 167 % Base
Version == <<Base - 1, Base - 1, Base - 1>>

\* The end of generate.
Dump(ps) ==
    Byte(Magic) \o Version \o Bytes(4, Len(ps)) \o FlattenSeq([i \in 1..Len(ps) |-> DumpPath(ps[i])])

-----------------------------------------------------------------------------
\* Reading.  What is read at p, and where to read on; 0 after a crash.
At(p, x) == [p |-> p, x |-> x]
Crash == At(0, <<>>)

\* There are n bytes at p.
There(f, p, n) == p > 0 /\ p + n <= Len(f) + 1

\* Larger than any file.
Huge == 2 * IntMax

ReadByte(f, p) == IF There(f, p, 1) THEN At(p + 1, f[p]) ELSE Crash

\* *(int *)b
ReadInt(f, p) ==
    IF There(f, p, 4)
      THEN At(p + 4, f[p] + Base * (f[p + 1] + Base * (f[p + 2] + Base * Signed8(f[p + 3]))))
    ELSE Crash

\* *(size_t *)b
ReadSize(f, p) ==
    IF ~There(f, p, 8) THEN Crash
    ELSE At(p + 8, IF \E i \in 4..7 : f[p + i] # 0 THEN Huge
                   ELSE f[p] + Base * (f[p + 1] + Base * (f[p + 2] + Base * f[p + 3])))

\* A text, up to its 0.
ReadText(f, p) ==
    IF p > 0 /\ \E q \in p..Len(f) : f[q] = 0
      THEN LET q == CHOOSE q \in p..Len(f) : f[q] = 0 /\ \A i \in p..q - 1 : f[i] # 0
           IN At(q + 1, SubSeq(f, p, q - 1))
    ELSE Crash

\* A value with the tag t, of which r is what was read.
Tagged(r, x) == IF r.p = 0 THEN Crash ELSE At(r.p, x)

\* n values from p on, each a byte at least; rd[q] is the one at q.
ReadMany(f, rd, n, p) ==
    LET s[i \in 0..n] ==
          IF i = 0 THEN At(p, <<>>)
          ELSE LET r == s[i - 1]
                   v == rd[r.p]
               IN IF r.p = 0 \/ v.p = 0 THEN Crash ELSE At(v.p, Append(r.x, v.x))
    IN IF There(f, p, n) THEN s[n] ELSE Crash

\* bin_readnode and bin_readtuple, whose members rd reads.
NodeAt(f, rd, p) ==
    LET t == ReadByte(f, p)
        l == ReadByte(f, t.p)
        n == ReadInt(f, t.p)
        s == ReadMany(f, rd, l.x, l.p)
    IN IF t.p = 0 THEN Crash
       ELSE CASE t.x = TYPE_TUPLE  -> IF l.p = 0 THEN Crash ELSE Tagged(s, Tuple(Signed8(l.x), s.x))
              [] t.x = TYPE_NUMBER -> Tagged(n, Number(n.x))
              [] t.x = TYPE_ATOM   ->
                   IF l.p # 0 /\ There(f, l.p, l.x) THEN At(l.p + l.x, Atom(ReadText(f, l.p).x)) ELSE Crash
              [] t.x = TYPE_ANY    -> At(t.p, AnyValue)
              [] OTHER             -> Crash

\* A value has a byte at least, so that no more than Len(f) are in each other.
NodeReader(f) ==
    LET rd[m \in 0..Len(f)] ==
          IF m = 0 THEN [p \in Nat |-> Crash] ELSE [p \in Nat |-> NodeAt(f, rd[m - 1], p)]
    IN rd

ReadNode(f, p) == NodeReader(f)[Len(f)][p]

\* Mutated form: the items of a list stay as they were written.
ConsedAsWritten(items) == items

\* vm_readlist conses the items as it reads them.
ReadConsed(items) == Reverse(items)

\* vm_readk and vm_readlist, whose members and items rd reads.
ConstantAt(f, rd, p) ==
    LET t == ReadByte(f, p)
        m == ReadText(f, t.p)
        q == ReadText(f, m.p)
        n == ReadInt(f, t.p)
        i == ReadByte(f, t.p)
        s == ReadMany(f, rd, i.x, i.p)
        z == ReadSize(f, t.p)
        l == ReadMany(f, rd, z.x, z.p)
    IN IF t.p = 0 THEN Crash
       ELSE CASE Masked(t.x) = TYPE_PATHID -> Tagged(q, [PathID(m.x, q.x) EXCEPT !.t = t.x])
              [] Masked(t.x) = TYPE_LIST   ->
                   IF z.p = 0 THEN Crash ELSE Tagged(l, [List(ReadConsed(l.x)) EXCEPT !.t = t.x])
              [] Masked(t.x) = TYPE_ATOM   -> Tagged(m, [Atom(m.x) EXCEPT !.t = t.x])
              [] Masked(t.x) = TYPE_NUMBER -> Tagged(n, [Number(n.x) EXCEPT !.t = t.x])
              [] Masked(t.x) \in {TYPE_ANY, TYPE_VAR} -> Tagged(i, Ident(t.x, i.x))
              [] Masked(t.x) = TYPE_TUPLE  ->
                   IF i.p = 0 THEN Crash ELSE Tagged(s, [Tuple(Signed8(i.x), s.x) EXCEPT !.t = t.x])
              [] OTHER                     -> Crash

ConstantReader(f) ==
    LET rd[m \in 0..Len(f)] ==
          IF m = 0 THEN [p \in Nat |-> Crash] ELSE [p \in Nat |-> ConstantAt(f, rd[m - 1], p)]
    IN rd

ReadConstant(f, p) == ConstantReader(f)[Len(f)][p]

\* The instructions, which stay where they are.
ReadCode(f, p, n) ==
    IF There(f, p, 4 * n) THEN At(p + 4 * n, [i \in 1..n |-> ReadInt(f, p + 4 * (i - 1)).x])
    ELSE Crash

\* vm_readclause
ReadClauseAt(f, p) ==
    LET pattern == ReadNode(f, p)
        nlocals == ReadByte(f, pattern.p)
        ksize   == ReadByte(f, nlocals.p)
        ks      == ReadMany(f, ConstantReader(f)[Len(f)], ksize.x, ksize.p)
        codelen == ReadSize(f, ks.p)
        code    == ReadCode(f, codelen.p, codelen.x)
    IN IF ksize.p = 0 \/ ks.p = 0 \/ codelen.p = 0 \/ code.p = 0 THEN Crash
       ELSE At(code.p, [pattern |-> pattern.x, nlocals |-> nlocals.x, constants |-> ks.x, code |-> code.x])

\* vm_readpath, up to the clauses: the name and the number of clauses.
ReadPathAt(f, p) ==
    LET attrs == ReadByte(f, p)
        len   == ReadByte(f, attrs.p)
        count == ReadByte(f, len.p + len.x)
    IN IF attrs.p = 0 \/ attrs.x = 0 \/ len.p = 0 \/ count.p = 0 THEN Crash
       ELSE At(count.p, [name |-> SubSeq(f, len.p, len.p + len.x - 1), nclauses |-> count.x])
=============================================================================
