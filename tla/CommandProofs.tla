----------------------------- MODULE CommandProofs -----------------------------
(***************************************************************************)
(* Proofs about invocations of arbre that share files: for any number of   *)
(* invocations, any command lines and sources and any size of the streams' *)
(* buffers, a run executes its own build, outputs are whole, and the exit  *)
(* status tells of failures.                                               *)
(*                                                                         *)
(* The argument: a file that is not in `shared` has at most one stream,    *)
(* that of the invocation that opened it last (Owned).  So what is in the  *)
(* file and what the stream still keeps make up the beginning of one build *)
(* (Written), all of it once the source counts as built; and streams go    *)
(* only when they are flushed, or with a crash.                            *)
(***************************************************************************)
EXTENDS Command, WellFoundedInduction, SequenceTheorems, TLAPS

Byte == (Sources \X (Nat \ {0})) \cup {Hole}

Stream == [file : Paths, off : Nat, buf : Seq(Byte)]

Working == {"compile", "open", "generate", "dump", "seek", "read", "execute"}

Invocation ==
    [pc : Working \cup {"exec", "exiting", "exited", "crashed"}, line : Lines,
     inputs : Seq(Sources), syntax : BOOLEAN, output : Paths \cup {NULL}, i : Nat \ {0},
     streams : Seq(Stream), built : SUBSET Sources, size : Nat, code : Seq(Byte) \cup {NULL},
     status : Nat]

Opening == [p : Procs, s : Sources]

\* The shapes of the variables.
Shape ==
    /\ st \in [Procs -> Invocation]
    /\ DOMAIN disk \subseteq Paths /\ disk \in [DOMAIN disk -> Seq(Byte)]
    /\ last \in [DOMAIN disk -> Opening]
    /\ shared \subseteq DOMAIN disk

\* The file a source's build goes to.
OutFile(p, s) == IF st[p].output # NULL THEN st[p].output ELSE Out(s)

Holds(p, f) == \E k \in 1..Len(st[p].streams) : st[p].streams[k].file = f

-----------------------------------------------------------------------------
\* How far an invocation has got.
Begins(p) ==
    st[p].pc = "exec" =>
      /\ st[p].streams = <<>> /\ st[p].built = {} /\ st[p].inputs = <<>>
      /\ st[p].i = 1 /\ st[p].status = 0 /\ ~st[p].syntax

Proceeds(p) ==
    st[p].pc \in Working =>
      /\ st[p].line.cmd \in {"build", "run"}
      /\ st[p].inputs = Parsed(st[p].line.args).inputs
      /\ st[p].i <= Len(st[p].inputs)
      /\ st[p].line.cmd = "run" => st[p].output = Tmp /\ Len(st[p].inputs) = 1
      /\ st[p].syntax => st[p].pc = "compile" /\ st[p].i = 1
      /\ st[p].status = 0

\* The inputs before the one at hand have been built, each into its stream.
Loops(p) ==
    /\ st[p].pc \in {"compile", "open", "generate", "dump"} =>
         /\ st[p].built = {st[p].inputs[k] : k \in 1..st[p].i - 1}
         /\ Len(st[p].streams) = IF st[p].pc \in {"compile", "open"} THEN st[p].i - 1 ELSE st[p].i
    /\ st[p].pc \in {"open", "generate", "dump"} => Source[Input(p)].parse = "ok"
    /\ st[p].pc \in {"generate", "dump"} => st[p].output # NULL \/ Source[Input(p)].place
    /\ st[p].pc = "dump" => Source[Input(p)].generate = "ok"

\* A run without a stream cannot read one.
Reads(p) ==
    /\ st[p].pc \in {"seek", "read", "execute"} =>
         /\ st[p].line.cmd = "run"
         /\ Len(st[p].streams) <= 1
         /\ st[p].streams # <<>> => Input(p) \in st[p].built
    /\ st[p].pc \in {"read", "execute"} => st[p].streams # <<>>
    /\ st[p].code # NULL => st[p].pc \in {"execute", "exiting", "exited", "crashed"}
    /\ st[p].code # NULL \/ st[p].pc = "read" =>
         \A k \in 1..Len(st[p].streams) : st[p].streams[k].buf = <<>>
    /\ st[p].pc = "exited" => st[p].streams = <<>>

\* Only sources that can be built are.
BuiltGood(p) ==
    \A s \in st[p].built :
      /\ Source[s].parse = "ok" /\ Source[s].generate = "ok"
      /\ st[p].output # NULL \/ Source[s].place

\* StatusTold, from where the status is decided.
Tells(p) ==
    st[p].pc \in {"exiting", "exited"} =>
      /\ st[p].line.cmd = "build" =>
           (st[p].status = 0 <=> IF st[p].syntax THEN Source[st[p].inputs[1]].parse = "ok"
                                 ELSE Named(p) \subseteq st[p].built)
      /\ st[p].line.cmd = "run" /\ st[p].status = 0 => st[p].syntax \/ Named(p) \subseteq st[p].built

Sound(p) == Begins(p) /\ Proceeds(p) /\ Loops(p) /\ Reads(p) /\ BuiltGood(p) /\ Tells(p)

Progress == \A p \in Procs : Sound(p)

-----------------------------------------------------------------------------
\* A file exists as long as it has streams, of which it has one if it is not
\* in shared: that of the invocation which opened it last.
Owned ==
    \A p \in Procs : \A k \in 1..Len(st[p].streams) :
      LET f == st[p].streams[k].file
      IN /\ f \in DOMAIN disk
         /\ f \notin shared =>
              /\ last[f].p = p
              /\ \A q \in Procs : \A j \in 1..Len(st[q].streams) :
                   st[q].streams[j].file = f => q = p /\ j = k

\* c, and behind it b, is a beginning of the build of s.
IsBeginning(c, b, s) ==
    /\ Len(c) + Len(b) <= Source[s].size
    /\ \A j \in 1..Len(c) : c[j] = <<s, j>>
    /\ \A j \in 1..Len(b) : b[j] = <<s, Len(c) + j>>

\* A file with contents c and its stream x are a beginning of the build of s, or
\* all of it once that is done.
Agrees(x, c, s, done) ==
    /\ IsBeginning(c, x.buf, s)
    /\ x.buf # <<>> => x.off = Len(c)
    /\ done => Len(c) + Len(x.buf) = Source[s].size

Written ==
    \A p \in Procs : \A k \in 1..Len(st[p].streams) :
      LET x == st[p].streams[k]
          s == last[x.file].s
      IN x.file \notin shared => Agrees(x, disk[x.file], s, s \in st[p].built)

\* The latest stream is the one for the input at hand.
Current ==
    \A p \in Procs :
      st[p].pc \in Working \ {"compile", "open"} /\ st[p].streams # <<>> =>
        /\ Fp(p).file = OutFile(p, Input(p))
        /\ Fp(p).file \notin shared =>
             /\ last[Fp(p).file].s = Input(p)
             /\ st[p].pc \in {"generate", "dump"} => Fp(p).off = Len(disk[Fp(p).file])

\* As long as an invocation works, it holds what it opened.
Opener ==
    /\ \A f \in DOMAIN disk :
         /\ st[last[f].p].pc # "exec"
         /\ f = OutFile(last[f].p, last[f].s)
         /\ st[last[f].p].pc \in Working => Holds(last[f].p, f)
    /\ \A p \in Procs : st[p].pc \in Working => \A s \in st[p].built : Holds(p, OutFile(p, s))

\* OutputsWhole, from where the streams are closed.
Closed ==
    \A f \in DOMAIN disk :
      LET l == last[f]
      IN (/\ ~Held(f) /\ f \notin shared
          /\ l.s \in st[l.p].built
          /\ st[l.p].pc \in {"exiting", "exited"} \/ st[l.p].code # NULL)
         => disk[f] = Build(l.s)

\* What a run knows of the file it reads.
Reading ==
    \A p \in Procs : Tmp \notin shared =>
      /\ st[p].pc = "read" => st[p].size = Source[Input(p)].size
      /\ st[p].pc = "execute" => st[p].code = Build(Input(p))

Contents == Owned /\ Written /\ Current /\ Opener /\ Closed /\ Reading

IInv == Shape /\ Progress /\ Contents

-----------------------------------------------------------------------------
\* Induction over the natural numbers, for what can be said as a set of them.
LEMMA SetInduction ==
    ASSUME NEW S \in SUBSET Nat, 0 \in S, \A n \in S : n + 1 \in S
    PROVE  S = Nat
<1> DEFINE T == Nat \ S
           Less == {p \in Nat \X Nat : p[1] < p[2]}
<1> SUFFICES ASSUME T # {} PROVE FALSE
  OBVIOUS
<1>1. Less = OpToRel(<, Nat)
  BY DEF OpToRel
<1>2. IsWellFoundedOn(Less, Nat)
  BY <1>1, NatLessThanWellFounded
<1> HIDE DEF Less
<1>3. PICK x \in T : \A y \in T : ~ (<<y, x>> \in Less)
  BY <1>2, WFMin, Zenon
<1>4. x \in Nat /\ x # 0
  OBVIOUS
<1>5. x - 1 \in Nat /\ x - 1 \notin T
  <2>1. x - 1 \in Nat /\ <<x - 1, x>> \in Less
    BY <1>4 DEF Less
  <2> QED
    BY <1>3, <2>1
<1> QED
  BY <1>4, <1>5

NothingParsed == [inputs |-> <<>>, syntax |-> FALSE, output |-> NULL, taken |-> FALSE]

\* c is what the loop over the first m arguments makes of them.
ParsesAs(args, m, c) ==
    c = [i \in 0..m |-> IF i = 0 THEN NothingParsed ELSE ParseArg(args, i, c[i - 1])]

\* The loop over the arguments has a result, however many there are.
LEMMA LoopExists ==
    ASSUME NEW args, NEW n \in Nat
    PROVE  \E c : ParsesAs(args, n, c)
<1> DEFINE S == {m \in Nat : \E c : ParsesAs(args, m, c)}
<1>1. 0 \in S
  <2> DEFINE c == [i \in 0..0 |-> NothingParsed]
  <2>1. ParsesAs(args, 0, c)
    BY DEF ParsesAs
  <2> QED
    BY <2>1
<1>2. ASSUME NEW m \in S PROVE m + 1 \in S
  <2>1. PICK g : ParsesAs(args, m, g)
    OBVIOUS
  <2> DEFINE h == [i \in 0..m + 1 |-> IF i <= m THEN g[i] ELSE ParseArg(args, i, g[m])]
  <2>2. m \in Nat
    OBVIOUS
  <2>3. ASSUME NEW i \in 0..m + 1
        PROVE  h[i] = IF i = 0 THEN NothingParsed ELSE ParseArg(args, i, h[i - 1])
    <3>1. CASE i = m + 1
      <4>1. h[i - 1] = g[m]
        BY <2>2, <3>1
      <4> QED
        BY <2>2, <3>1, <4>1
    <3>2. CASE i <= m
      <4>1. h[i] = g[i]
        BY <2>2, <3>2
      <4>2. g[i] = IF i = 0 THEN NothingParsed ELSE ParseArg(args, i, g[i - 1])
        BY <2>1, <2>2, <3>2 DEF ParsesAs
      <4>3. i # 0 => h[i - 1] = g[i - 1]
        BY <2>2, <3>2
      <4> QED
        BY <4>1, <4>2, <4>3
    <3> QED
      BY <2>2, <3>1, <3>2
  <2>4. ParsesAs(args, m + 1, h)
    <3> DEFINE k == [i \in 0..m + 1 |-> IF i = 0 THEN NothingParsed ELSE ParseArg(args, i, h[i - 1])]
    <3> HIDE DEF h
    <3>1. h = k
      <4>1. \A i \in 0..m + 1 : h[i] = k[i]
        BY <2>3
      <4>2. h = [i \in 0..m + 1 |-> h[i]]
        BY DEF h
      <4> QED
        BY <4>1, <4>2
    <3> QED
      BY <3>1 DEF ParsesAs
  <2> QED
    BY <2>2, <2>4
<1> HIDE DEF S
<1>3. S = Nat
  BY <1>1, <1>2, SetInduction DEF S
<1> QED
  BY <1>3 DEF S

\* Parsed is what that loop ends with.
LEMMA ParsedLoop ==
    ASSUME NEW args, Len(args) \in Nat
    PROVE  \E c : ParsesAs(args, Len(args), c) /\ Parsed(args) = c[Len(args)]
<1> DEFINE c == CHOOSE c : ParsesAs(args, Len(args), c)
<1>1. ParsesAs(args, Len(args), c)
  BY LoopExists
<1>2. Parsed(args) = c[Len(args)]
  BY DEF Parsed, ParsesAs, NothingParsed
<1> QED
  BY <1>1, <1>2

\* The sources among the first m arguments.
NamedUpTo(args, m) ==
    {args[i].name : i \in {j \in 1..m : args[j].kind = "file" /\ (j > 1 => args[j - 1].kind # "short")}}

Parse == [inputs : Seq(Sources), syntax : BOOLEAN, output : Paths \cup {NULL}, taken : BOOLEAN]

Elements(s) == {s[k] : k \in 1..Len(s)}

ParsedUpTo(args, m, d) ==
    /\ d \in Parse
    /\ Elements(d.inputs) = NamedUpTo(args, m)
    /\ d.taken <=> m > 0 /\ args[m].kind = "short" /\ m < Len(args) /\ args[m + 1].kind = "file"

\* An element that is added.
LEMMA RangeAppend ==
    ASSUME NEW S, NEW s \in Seq(S), NEW e \in S
    PROVE  Elements(Append(s, e)) = Elements(s) \cup {e}
<1>1. /\ Len(Append(s, e)) = Len(s) + 1 /\ Len(s) \in Nat
      /\ \A k \in 1..Len(s) : Append(s, e)[k] = s[k]
      /\ Append(s, e)[Len(s) + 1] = e
  OBVIOUS
<1>2. 1..Len(s) + 1 = 1..Len(s) \cup {Len(s) + 1}
  BY <1>1
<1> HIDE DEF Elements
<1>3. ASSUME NEW x PROVE x \in Elements(Append(s, e)) <=> x \in Elements(s) \/ x = e
  <2>1. x \in Elements(Append(s, e)) <=> \E k \in 1..Len(s) + 1 : x = Append(s, e)[k]
    BY <1>1 DEF Elements
  <2>2. x \in Elements(s) <=> \E k \in 1..Len(s) : x = s[k]
    BY DEF Elements
  <2> QED
    BY <1>1, <1>2, <2>1, <2>2
<1> QED
  BY <1>3

\* One more argument: its source is among the inputs if no short option takes it.
LEMMA ParseArgStep ==
    ASSUME NEW line \in Lines, NEW m \in Nat, m < Len(line.args),
           NEW d, ParsedUpTo(line.args, m, d)
    PROVE  ParsedUpTo(line.args, m + 1, ParseArg(line.args, m + 1, d))
<1> DEFINE args == line.args
           a == args[m + 1]
           takes == m + 1 < Len(args) /\ args[m + 1 + 1].kind = "file"
<1>1. /\ args \in Seq(Arguments) /\ Len(args) \in Nat
      /\ \A i \in 1..Len(args) : args[i] \in Arguments
      /\ \A i \in 1..Len(args) :
           args[i].kind = "file" /\ (i > 1 => args[i - 1].kind # "short") => args[i].name \in Sources
  BY LinesAssumption
<1>2. a \in Arguments /\ a.kind \in {"file", "short", "long", "dash"}
  <2>1. m + 1 \in 1..Len(args)
    BY <1>1
  <2>2. a \in Arguments
    BY <1>1, <2>1
  <2> HIDE DEF a
  <2> QED
    BY <2>2 DEF Arguments
<1>3. d \in Parse /\ Elements(d.inputs) = NamedUpTo(args, m)
  BY DEF ParsedUpTo
<1>4. d.taken <=> m > 0 /\ args[m].kind = "short" /\ a.kind = "file"
  BY DEF ParsedUpTo
<1>5. takes => args[m + 1 + 1].name \in Paths
  <2>1. takes => args[m + 1 + 1] \in Arguments
    BY <1>1
  <2> QED
    BY <2>1 DEF Arguments
<1>6. ASSUME NEW x
      PROVE  x \in NamedUpTo(args, m + 1) <=>
               \/ x \in NamedUpTo(args, m)
               \/ x = a.name /\ a.kind = "file" /\ (m > 0 => args[m].kind # "short")
  <2> DEFINE N(j) == args[j].kind = "file" /\ (j > 1 => args[j - 1].kind # "short")
  <2>1. x \in NamedUpTo(args, m + 1) <=> \E j \in 1..m + 1 : N(j) /\ x = args[j].name
    BY DEF NamedUpTo
  <2>2. x \in NamedUpTo(args, m) <=> \E j \in 1..m : N(j) /\ x = args[j].name
    BY DEF NamedUpTo
  <2>3. N(m + 1) <=> a.kind = "file" /\ (m > 0 => args[m].kind # "short")
    OBVIOUS
  <2>4. \A j : j \in 1..m + 1 <=> j \in 1..m \/ j = m + 1
    OBVIOUS
  <2> HIDE DEF N
  <2> QED
    BY <2>1, <2>2, <2>3, <2>4
<1> DEFINE r == ParseArg(args, m + 1, d)
<1>7. CASE d.taken
  <2>1. r = [d EXCEPT !.taken = FALSE]
    BY <1>7 DEF ParseArg
  <2>2. r \in Parse /\ r.inputs = d.inputs /\ r.taken = FALSE
    BY <2>1, <1>3 DEF Parse
  <2>3. NamedUpTo(args, m + 1) = NamedUpTo(args, m)
    BY <1>4, <1>6, <1>7
  <2> HIDE DEF r
  <2> QED
    BY <1>3, <1>4, <1>7, <2>2, <2>3 DEF ParsedUpTo, r
<1>8. CASE ~d.taken /\ a.kind = "file"
  <2>1. r = [d EXCEPT !.inputs = Append(@, a.name)]
    BY <1>8 DEF ParseArg
  <2>2. a.name \in Sources
    BY <1>1, <1>4, <1>8
  <2> DEFINE ins == Append(d.inputs, a.name)
  <2>3. d.inputs \in Seq(Sources) /\ ins \in Seq(Sources)
    BY <2>2, <1>3 DEF Parse
  <2>4. Elements(ins) = Elements(d.inputs) \cup {a.name}
    BY <2>2, <2>3, RangeAppend
  <2>6. r = [d EXCEPT !.inputs = ins]
    BY <2>1
  <2> HIDE DEF r, ins
  <2>7. r \in Parse /\ r.inputs = ins /\ r.taken = d.taken
    BY <2>3, <2>6, <1>3 DEF Parse
  <2>5. NamedUpTo(args, m + 1) = NamedUpTo(args, m) \cup {a.name}
    BY <1>4, <1>6, <1>8
  <2> HIDE DEF r
  <2> QED
    BY <1>3, <1>8, <2>4, <2>5, <2>7 DEF ParsedUpTo, r
<1>9. CASE ~d.taken /\ a.kind # "file"
  <2>1. NamedUpTo(args, m + 1) = NamedUpTo(args, m)
    BY <1>6, <1>9
  <2>2. r \in Parse /\ r.inputs = d.inputs /\ (r.taken <=> a.kind = "short" /\ takes)
    <3>1. CASE a.kind = "long"
      <4>1. r = [d EXCEPT !.syntax = @ \/ a.name = "syntax"]
        BY <1>9, <3>1 DEF ParseArg
      <4>2. (d.syntax \/ a.name = "syntax") \in BOOLEAN
        BY <1>3
      <4> QED
        BY <4>1, <4>2, <1>3, <1>9, <3>1 DEF Parse
    <3>2. CASE a.kind = "dash"
      BY <1>3, <1>9, <3>2 DEF ParseArg, Parse
    <3>3. CASE a.kind = "short"
      <4> DEFINE o == IF a.name # "o" THEN d.output ELSE IF takes THEN args[m + 1 + 1].name ELSE NULL
      <4>1. r = [d EXCEPT !.taken = takes, !.output = o]
        BY <1>9, <3>3 DEF ParseArg
      <4>2. o \in Paths \cup {NULL} /\ takes \in BOOLEAN
        BY <1>3, <1>5 DEF Parse
      <4> HIDE DEF o, takes
      <4> QED
        BY <4>1, <4>2, <1>3, <3>3 DEF Parse
    <3> QED
      BY <1>2, <1>9, <3>1, <3>2, <3>3
  <2> HIDE DEF r
  <2> QED
    BY <1>3, <2>1, <2>2 DEF ParsedUpTo, r
<1> QED
  BY <1>7, <1>8, <1>9

\* The inputs are the sources that the user named.
LEMMA ParsedFacts ==
    ASSUME NEW line \in Lines
    PROVE  /\ Parsed(line.args) \in Parse
           /\ Elements(Parsed(line.args).inputs) = NamedUpTo(line.args, Len(line.args))
<1> DEFINE n == Len(line.args)
<1>1. n \in Nat
  BY LinesAssumption
<1>2. PICK c : ParsesAs(line.args, n, c) /\ Parsed(line.args) = c[n]
  BY <1>1, ParsedLoop
<1> DEFINE S == {m \in Nat : m <= n => ParsedUpTo(line.args, m, c[m])}
<1>3. 0 \in S
  <2>1. c[0] = NothingParsed
    BY <1>1, <1>2 DEF ParsesAs
  <2>2. NothingParsed \in Parse /\ Elements(NothingParsed.inputs) = {} /\ ~NothingParsed.taken
    BY DEF NothingParsed, Parse, Elements
  <2>3. NamedUpTo(line.args, 0) = {}
    BY DEF NamedUpTo
  <2>4. ParsedUpTo(line.args, 0, NothingParsed)
    BY <2>2, <2>3 DEF ParsedUpTo
  <2> QED
    BY <2>1, <2>4
<1>4. ASSUME NEW m \in S PROVE m + 1 \in S
  <2>1. SUFFICES ASSUME m + 1 <= n PROVE ParsedUpTo(line.args, m + 1, c[m + 1])
    OBVIOUS
  <2>2. c[m + 1] = ParseArg(line.args, m + 1, c[m])
    BY <1>1, <1>2, <2>1 DEF ParsesAs
  <2>3. ParsedUpTo(line.args, m, c[m])
    BY <1>1, <2>1
  <2> QED
    BY <1>1, <2>1, <2>2, <2>3, ParseArgStep
<1> HIDE DEF S
<1>5. S = Nat
  BY <1>3, <1>4, SetInduction DEF S
<1> QED
  BY <1>1, <1>2, <1>5 DEF S, ParsedUpTo

-----------------------------------------------------------------------------
\* What may become of a source.
LEMMA SourceFacts ==
    ASSUME NEW s \in Sources
    PROVE  /\ Source[s].parse \in {"missing", "ok", "errors", "eof"}
           /\ Source[s].generate \in {"ok", "exits", "crashes"}
           /\ Source[s].size \in Nat \ {0} /\ Source[s].value \in Nat
           /\ Source[s].ends \in {"number", "other", "error"}
BY CommandAssumption DEF SourceType

\* A beginning of a build that is as long as the build is the build.
LEMMA WholeIsBuild ==
    ASSUME NEW c \in Seq(Byte), NEW s \in Sources, IsBeginning(c, <<>>, s), Len(c) = Source[s].size
    PROVE  c = Build(s)
<1> DEFINE n == Source[s].size
<1>1. c = [j \in 1..n |-> c[j]]
  <2>1. PICK k \in Nat : c \in [1..k -> Byte]
    BY SeqDef
  <2>2. k = n
    BY <2>1, LenProperties
  <2> QED
    BY <2>1, <2>2
<1>2. \A j \in 1..n : c[j] = <<s, j>>
  BY DEF IsBeginning
<1> HIDE DEF n
<1>3. [j \in 1..n |-> c[j]] = [j \in 1..n |-> <<s, j>>]
  BY <1>2
<1> QED
  BY <1>1, <1>3 DEF Build, n

\* A file consists of bytes, whatever is written to it.
LEMMA WriteAtType ==
    ASSUME NEW c \in Seq(Byte), NEW off \in Nat, NEW b \in Seq(Byte)
    PROVE  WriteAt(c, off, b) \in Seq(Byte)
<1> DEFINE n == IF off + Len(b) > Len(c) THEN off + Len(b) ELSE Len(c)
           e(j) == IF j > off /\ j <= off + Len(b) THEN b[j - off]
                   ELSE IF j <= Len(c) THEN c[j] ELSE Hole
<1>1. n \in Nat
  OBVIOUS
<1>2. ASSUME NEW j \in 1..n PROVE e(j) \in Byte
  <2>1. CASE j > off /\ j <= off + Len(b)
    BY <2>1, ElementOfSeq
  <2>2. CASE ~(j > off /\ j <= off + Len(b))
    BY <2>2, ElementOfSeq DEF Byte
  <2> QED
    BY <2>1, <2>2
<1> HIDE DEF n, e
<1>3. [j \in 1..n |-> e(j)] \in Seq(Byte)
  BY <1>1, <1>2, IsASeq
<1>4. b # <<>> => WriteAt(c, off, b) = [j \in 1..n |-> e(j)]
  BY DEF WriteAt, n, e
<1>5. b = <<>> => WriteAt(c, off, b) = c
  BY DEF WriteAt
<1> QED
  BY <1>3, <1>4, <1>5

\* What a stream writes at the end of a file comes behind what was there.
LEMMA WriteAtEnd ==
    ASSUME NEW c \in Seq(Byte), NEW b \in Seq(Byte)
    PROVE  LET w == WriteAt(c, Len(c), b)
           IN /\ Len(w) = Len(c) + Len(b)
              /\ \A j \in 1..Len(c) : w[j] = c[j]
              /\ \A j \in 1..Len(b) : w[Len(c) + j] = b[j]
<1>1. CASE b = <<>>
  BY <1>1 DEF WriteAt
<1>2. CASE b # <<>>
  <2> DEFINE n == Len(c) + Len(b)
             w == [j \in 1..n |-> IF j > Len(c) /\ j <= n THEN b[j - Len(c)]
                                   ELSE IF j <= Len(c) THEN c[j] ELSE Hole]
  <2>1. n \in Nat /\ Len(c) \in Nat /\ Len(b) \in Nat /\ n > Len(c)
    BY <1>2
  <2>2. WriteAt(c, Len(c), b) = w
    <3>1. (IF n > Len(c) THEN n ELSE Len(c)) = n
      BY <2>1
    <3> QED
      BY <1>2, <3>1 DEF WriteAt
  <2>3. Len(w) = n
    BY <2>1
  <2>4. \A j \in 1..Len(c) : w[j] = c[j]
    BY <2>1
  <2>5. \A j \in 1..Len(b) : w[Len(c) + j] = b[j]
    BY <2>1
  <2> HIDE DEF w
  <2> QED
    BY <2>2, <2>3, <2>4, <2>5
<1> QED
  BY <1>1, <1>2

\* Flushing a stream makes the file what the two of them were.
LEMMA FlushedBeginning ==
    ASSUME NEW x \in Stream, NEW c \in Seq(Byte), NEW s \in Sources, NEW done \in BOOLEAN,
           Agrees(x, c, s, done)
    PROVE  LET w == WriteAt(c, x.off, x.buf)
           IN /\ w \in Seq(Byte) /\ Len(w) = Len(c) + Len(x.buf)
              /\ IsBeginning(w, <<>>, s)
              /\ done => w = Build(s)
<1> DEFINE w == WriteAt(c, x.off, x.buf)
<1>1. x.off \in Nat /\ x.buf \in Seq(Byte) /\ Len(c) \in Nat /\ Len(x.buf) \in Nat
  BY DEF Stream
<1>2. w \in Seq(Byte) /\ Len(w) \in Nat
  BY <1>1, WriteAtType
<1>3. /\ Len(w) = Len(c) + Len(x.buf)
      /\ \A j \in 1..Len(c) : w[j] = c[j]
      /\ \A j \in 1..Len(x.buf) : w[Len(c) + j] = x.buf[j]
  <2>1. CASE x.buf = <<>>
    BY <1>1, <2>1 DEF WriteAt
  <2>2. CASE x.buf # <<>>
    <3>1. x.off = Len(c)
      BY <2>2 DEF Agrees
    <3> QED
      BY <1>1, <3>1, WriteAtEnd
  <2> QED
    BY <2>1, <2>2
<1> HIDE DEF w
<1>4. IsBeginning(w, <<>>, s)
  <2>1. ASSUME NEW j \in 1..Len(w) PROVE w[j] = <<s, j>>
    <3>1. CASE j <= Len(c)
      BY <1>1, <1>3, <3>1 DEF Agrees, IsBeginning
    <3>2. CASE j > Len(c)
      <4>1. j - Len(c) \in 1..Len(x.buf) /\ Len(c) + (j - Len(c)) = j
        BY <1>1, <1>3, <3>2
      <4>2. w[Len(c) + (j - Len(c))] = x.buf[j - Len(c)]
        BY <1>3, <4>1
      <4>3. x.buf[j - Len(c)] = <<s, Len(c) + (j - Len(c))>>
        BY <4>1 DEF Agrees, IsBeginning
      <4> QED
        BY <4>1, <4>2, <4>3
    <3> QED
      BY <1>1, <1>2, <3>1, <3>2
  <2>2. Len(w) + Len(<<>>) <= Source[s].size
    BY <1>1, <1>3 DEF Agrees, IsBeginning
  <2> QED
    BY <2>1, <2>2 DEF IsBeginning
<1>5. done => w = Build(s)
  BY <1>2, <1>3, <1>4, WholeIsBuild DEF Agrees
<1> QED
  BY <1>2, <1>3, <1>4, <1>5 DEF w

-----------------------------------------------------------------------------
\* A step of p leaves the others where they are.
Others(p) == \A q \in Procs \ {p} : st'[q] = st[q]

\* What a step of p leaves as it is if it only moves p along.
SameWork(p) ==
    /\ st'[p].line = st[p].line /\ st'[p].inputs = st[p].inputs /\ st'[p].syntax = st[p].syntax
    /\ st'[p].output = st[p].output /\ st'[p].i = st[p].i /\ st'[p].built = st[p].built

\* An exit changes the status, and nothing that was built or is open.
LEMMA ExitsFacts ==
    ASSUME st \in [Procs -> Invocation], NEW p \in Procs, NEW status \in Nat, Exits(p, status)
    PROVE  /\ st' \in [Procs -> Invocation] /\ Others(p) /\ SameWork(p)
           /\ st'[p].pc = "exiting" /\ st'[p].status = status
           /\ st'[p].streams = st[p].streams /\ st'[p].size = st[p].size /\ st'[p].code = st[p].code
<1> DEFINE r == [st[p] EXCEPT !.pc = "exiting", !.status = status]
<1>1. st' = [st EXCEPT ![p] = r]
  BY DEF Exits
<1>2. st[p] \in Invocation
  OBVIOUS
<1>3. /\ r \in Invocation /\ r.pc = "exiting" /\ r.status = status
      /\ r.line = st[p].line /\ r.inputs = st[p].inputs /\ r.syntax = st[p].syntax
      /\ r.output = st[p].output /\ r.i = st[p].i /\ r.built = st[p].built
      /\ r.streams = st[p].streams /\ r.size = st[p].size /\ r.code = st[p].code
  BY <1>2 DEF Invocation
<1> HIDE DEF r
<1>4. st' \in [Procs -> Invocation] /\ st'[p] = r /\ Others(p)
  BY <1>1, <1>3 DEF Others
<1> QED
  BY <1>3, <1>4 DEF SameWork

\* A crash takes the streams.
LEMMA CrashesFacts ==
    ASSUME st \in [Procs -> Invocation], NEW p \in Procs, Crashes(p)
    PROVE  /\ st' \in [Procs -> Invocation] /\ Others(p) /\ SameWork(p)
           /\ st'[p].pc = "crashed" /\ st'[p].streams = <<>>
           /\ st'[p].status = st[p].status /\ st'[p].size = st[p].size /\ st'[p].code = st[p].code
<1> DEFINE r == [st[p] EXCEPT !.pc = "crashed", !.streams = <<>>]
<1>1. st' = [st EXCEPT ![p] = r]
  BY DEF Crashes
<1>2. st[p] \in Invocation
  OBVIOUS
<1>3. /\ r \in Invocation /\ r.pc = "crashed" /\ r.streams = <<>>
      /\ r.line = st[p].line /\ r.inputs = st[p].inputs /\ r.syntax = st[p].syntax
      /\ r.output = st[p].output /\ r.i = st[p].i /\ r.built = st[p].built
      /\ r.status = st[p].status /\ r.size = st[p].size /\ r.code = st[p].code
  <2>1. <<>> \in Seq(Stream)
    OBVIOUS
  <2> QED
    BY <1>2, <2>1 DEF Invocation
<1> HIDE DEF r
<1>4. st' \in [Procs -> Invocation] /\ st'[p] = r /\ Others(p)
  BY <1>1, <1>3 DEF Others
<1> QED
  BY <1>3, <1>4 DEF SameWork

\* What others know of themselves does not depend on p.
LEMMA OthersSound ==
    ASSUME Progress, NEW p \in Procs, Others(p), Sound(p)'
    PROVE  Progress'
<1>1. ASSUME NEW q \in Procs, q # p PROVE Sound(q)'
  <2>1. st'[q] = st[q] /\ Sound(q)
    BY <1>1 DEF Others, Progress
  <2> QED
    BY <2>1 DEF Sound, Begins, Proceeds, Loops, Reads, BuiltGood, Tells, Input, Named
<1> QED
  BY <1>1 DEF Progress

\* A step of p that leaves the files and its streams alone keeps what is said
\* of them, if p goes on with what it had.
LEMMA QuietContents ==
    ASSUME Shape, Contents, Files, NEW p \in Procs, Others(p),
           st'[p].streams = st[p].streams, st'[p].built = st[p].built,
           st[p].pc \in Working \cup {"exec", "exiting"}, st'[p].pc # "exec",
           st[p].pc = "exec" => st[p].streams = <<>> /\ st[p].built = {},
           st[p].pc # "exec" => st'[p].output = st[p].output,
           st[p].pc = "exiting" => st'[p].pc = "exited" /\ st'[p].code = st[p].code,
           st'[p].pc \in Working \ {"compile", "open"} /\ st[p].streams # <<>> =>
             /\ st[p].pc \in Working \ {"compile", "open"} /\ Input(p)' = Input(p)
             /\ st'[p].pc \in {"generate", "dump"} => st[p].pc \in {"generate", "dump"},
           Tmp \notin shared => /\ st'[p].pc # "read"
                                /\ st'[p].pc = "execute" => st'[p].code = Build(Input(p)')
    PROVE  Contents'
<1>1. disk' = disk /\ last' = last /\ shared' = shared
  BY DEF Files
<1>2. \A q \in Procs : st'[q].streams = st[q].streams /\ st'[q].built = st[q].built
  BY DEF Others
<1>3. Owned'
  BY <1>1, <1>2 DEF Contents, Owned
<1>4. Written'
  <2> SUFFICES ASSUME NEW q \in Procs, NEW k \in 1..Len(st'[q].streams),
                      st'[q].streams[k].file \notin shared
               PROVE  LET x == st'[q].streams[k]
                          s == last[x.file].s
                      IN Agrees(x, disk[x.file], s, s \in st'[q].built)
    BY <1>1 DEF Written, Agrees, IsBeginning
  <2> QED
    BY <1>2 DEF Contents, Written
<1>5. Current'
  <2>1. ASSUME NEW q \in Procs, q # p, st'[q].pc \in Working \ {"compile", "open"}, st'[q].streams # <<>>
        PROVE  /\ Fp(q)'.file = OutFile(q, Input(q))'
               /\ Fp(q)'.file \notin shared =>
                    /\ last[Fp(q)'.file].s = Input(q)'
                    /\ st'[q].pc \in {"generate", "dump"} => Fp(q)'.off = Len(disk[Fp(q)'.file])
    <3>1. st'[q] = st[q]
      BY <2>1 DEF Others
    <3> QED
      BY <2>1, <3>1 DEF Contents, Current, Fp, OutFile, Input, Out
  <2>2. ASSUME st'[p].pc \in Working \ {"compile", "open"}, st'[p].streams # <<>>
        PROVE  /\ Fp(p)'.file = OutFile(p, Input(p))'
               /\ Fp(p)'.file \notin shared =>
                    /\ last[Fp(p)'.file].s = Input(p)'
                    /\ st'[p].pc \in {"generate", "dump"} => Fp(p)'.off = Len(disk[Fp(p)'.file])
    <3>1. st[p].pc \in Working \ {"compile", "open"} /\ Input(p)' = Input(p) /\ st'[p].output = st[p].output
      BY <2>2 DEF Working
    <3>2. Fp(p)' = Fp(p)
      BY DEF Fp
    <3>3. OutFile(p, Input(p))' = OutFile(p, Input(p))
      BY <3>1 DEF OutFile, Out
    <3> QED
      BY <2>2, <3>1, <3>2, <3>3 DEF Contents, Current
  <2> QED
    BY <1>1, <2>1, <2>2 DEF Current
<1>6. \A q \in Procs : \A f : Holds(q, f)' <=> Holds(q, f)
  BY <1>2 DEF Holds
<1>7. Opener'
  <2>1. ASSUME NEW f \in DOMAIN disk
        PROVE  /\ st'[last[f].p].pc # "exec"
               /\ f = OutFile(last[f].p, last[f].s)'
               /\ st'[last[f].p].pc \in Working => Holds(last[f].p, f)'
    <3> DEFINE l == last[f]
    <3>1. l \in Opening /\ l.p \in Procs
      BY DEF Shape, Opening
    <3>2. /\ st[l.p].pc # "exec" /\ f = OutFile(l.p, l.s)
          /\ st[l.p].pc \in Working => Holds(l.p, f)
      BY DEF Contents, Opener
    <3>3. CASE l.p # p
      <4>1. st'[l.p] = st[l.p]
        BY <3>1, <3>3 DEF Others
      <4> QED
        BY <1>1, <1>6, <3>1, <3>2, <4>1 DEF OutFile, Out
    <3>4. CASE l.p = p
      <4>1. st'[p].output = st[p].output /\ (st'[p].pc \in Working => st[p].pc \in Working)
        BY <3>2, <3>4 DEF Working
      <4> QED
        BY <1>1, <1>6, <3>1, <3>2, <3>4, <4>1 DEF OutFile, Out
    <3> QED
      BY <3>3, <3>4
  <2>2. ASSUME NEW q \in Procs, st'[q].pc \in Working, NEW s \in st'[q].built
        PROVE  Holds(q, OutFile(q, s))'
    <3>1. s \in st[q].built
      BY <1>2
    <3>2. st[q].pc \in Working /\ st'[q].output = st[q].output
      BY <2>2, <3>1 DEF Others, Working
    <3>3. Holds(q, OutFile(q, s))
      BY <3>1, <3>2 DEF Contents, Opener
    <3>4. OutFile(q, s)' = OutFile(q, s)
      BY <3>2 DEF OutFile, Out
    <3>5. \E k \in 1..Len(st'[q].streams) : st'[q].streams[k].file = OutFile(q, s)
      BY <1>2, <3>3 DEF Holds
    <3> QED
      BY <3>4, <3>5 DEF Holds
  <2> QED
    BY <1>1, <2>1, <2>2 DEF Opener
<1>8. Closed'
  <2> SUFFICES ASSUME NEW f \in DOMAIN disk, ~Held(f)', f \notin shared,
                      last[f].s \in st'[last[f].p].built,
                      st'[last[f].p].pc \in {"exiting", "exited"} \/ st'[last[f].p].code # NULL
               PROVE  disk[f] = Build(last[f].s)
    BY <1>1 DEF Closed
  <2> DEFINE l == last[f]
  <2>1. l.p \in Procs
    BY DEF Shape, Opening
  <2>2. ~Held(f) /\ ~Holds(l.p, f)
    BY <1>2, <2>1 DEF Held, Holds
  <2>3. l.s \in st[l.p].built
    BY <1>2, <2>1
  <2>4. st[l.p].pc \notin Working \cup {"exec"}
    BY <2>2 DEF Contents, Opener
  <2>5. st[l.p].pc \in {"exiting", "exited"} \/ st[l.p].code # NULL
    <3>1. CASE l.p = p
      BY <2>4, <3>1
    <3>2. CASE l.p # p
      BY <2>1, <3>2 DEF Others
    <3> QED
      BY <3>1, <3>2
  <2> QED
    BY <2>2, <2>3, <2>5 DEF Contents, Closed
<1>9. Reading'
  <2> SUFFICES ASSUME NEW q \in Procs, Tmp \notin shared
               PROVE  /\ st'[q].pc = "read" => st'[q].size = Source[Input(q)'].size
                      /\ st'[q].pc = "execute" => st'[q].code = Build(Input(q)')
    BY <1>1 DEF Reading, Build
  <2>1. CASE q = p
    BY <2>1
  <2>2. CASE q # p
    <3>1. st'[q] = st[q]
      BY <2>2 DEF Others
    <3>2. Input(q)' = Input(q)
      BY <3>1 DEF Input
    <3> QED
      BY <3>1, <3>2 DEF Contents, Reading
  <2> QED
    BY <2>1, <2>2
<1> QED
  BY <1>3, <1>4, <1>5, <1>7, <1>8, <1>9 DEF Contents

\* The sources that the user named are the inputs.
LEMMA NamedFacts ==
    ASSUME Shape, NEW p \in Procs
    PROVE  LET c == Parsed(st[p].line.args)
           IN /\ c \in Parse /\ Named(p) = Elements(c.inputs)
              /\ c.inputs = <<>> => Named(p) = {}
<1>1. st[p].line \in Lines
  BY DEF Shape, Invocation
<1> DEFINE c == Parsed(st[p].line.args)
<1>2. c \in Parse /\ Elements(c.inputs) = NamedUpTo(st[p].line.args, Len(st[p].line.args))
  BY <1>1, ParsedFacts
<1>3. Named(p) = NamedUpTo(st[p].line.args, Len(st[p].line.args))
  BY DEF Named, NamedUpTo
<1> HIDE DEF c
<1>4. c.inputs = <<>> => Elements(c.inputs) = {}
  BY DEF Elements
<1> QED
  BY <1>2, <1>3, <1>4 DEF c

\* An invocation that comes to its exit or its crash has nothing more to keep.
LEMMA EndsSound ==
    ASSUME Shape, NEW p \in Procs, Sound(p), SameWork(p), st'[p].code = st[p].code,
           st'[p].pc \in {"exiting", "crashed"},
           st'[p].streams = st[p].streams \/ st'[p].streams = <<>>,
           st'[p].pc = "exiting" =>
             /\ st[p].line.cmd = "build" =>
                  (st'[p].status = 0 <=> IF st[p].syntax THEN Source[st[p].inputs[1]].parse = "ok"
                                         ELSE Named(p) \subseteq st[p].built)
             /\ st[p].line.cmd = "run" /\ st'[p].status = 0 =>
                  st[p].syntax \/ Named(p) \subseteq st[p].built
    PROVE  Sound(p)'
<1>1. Begins(p)' /\ Proceeds(p)' /\ Loops(p)'
  BY DEF Begins, Proceeds, Loops, Working
<1>2. Reads(p)'
  BY DEF Sound, Reads
<1>3. BuiltGood(p)'
  BY DEF Sound, BuiltGood, SameWork
<1>4. Named(p)' = Named(p)
  BY DEF Named, SameWork
<1>5. Tells(p)'
  BY <1>4 DEF Tells, SameWork
<1> QED
  BY <1>1, <1>2, <1>3, <1>5 DEF Sound

\* command_exec either ends at once or goes on with the inputs.
LEMMA ExecIInv == ASSUME IInv, NEW p \in Procs, Exec(p) PROVE IInv'
<1> DEFINE cmd == st[p].line.cmd
           c   == Parsed(st[p].line.args)
<1>1. st \in [Procs -> Invocation] /\ st[p] \in Invocation /\ Shape /\ Contents /\ Progress
  BY DEF IInv, Shape
<1>2. st[p].pc = "exec" /\ Files
  BY DEF Exec
<1>3. /\ Sound(p) /\ st[p].streams = <<>> /\ st[p].built = {} /\ st[p].inputs = <<>>
      /\ st[p].i = 1 /\ st[p].status = 0 /\ ~st[p].syntax /\ st[p].code = NULL
  BY <1>1, <1>2 DEF Progress, Sound, Begins, Reads
<1>4. /\ c \in Parse /\ Named(p) = Elements(c.inputs)
      /\ c.inputs = <<>> => Named(p) = {}
  BY <1>1, NamedFacts
<1>5. cmd \in {"none", "test", "unknown", "build", "run"}
  BY <1>1, LinesAssumption DEF Invocation
<1>6. ASSUME NEW status \in {0, 1}, Exits(p, status),
             status = 0 => cmd \in {"none", "test"} \/ c.inputs = <<>>,
             cmd = "build" => status = 0 /\ c.inputs = <<>>
      PROVE  IInv'
  <2>1. /\ st' \in [Procs -> Invocation] /\ Others(p) /\ SameWork(p)
        /\ st'[p].pc = "exiting" /\ st'[p].status = status
        /\ st'[p].streams = st[p].streams /\ st'[p].code = st[p].code
    BY <1>1, <1>6, ExitsFacts
  <2>2. Sound(p)'
    BY <1>1, <1>3, <1>4, <1>6, <2>1, EndsSound
  <2>3. Progress'
    BY <1>1, <2>1, <2>2, OthersSound
  <2>4. Contents'
    BY <1>1, <1>2, <1>3, <2>1, QuietContents DEF SameWork, Working
  <2>5. Shape'
    BY <1>1, <1>2, <2>1 DEF Shape, Files
  <2> QED
    BY <2>3, <2>4, <2>5 DEF IInv
<1>7. ASSUME cmd \in {"build", "run"}, c.inputs # <<>>, cmd = "run" => Len(c.inputs) <= 1,
             st' = [st EXCEPT ![p].pc = "compile", ![p].inputs = c.inputs, ![p].syntax = c.syntax,
                              ![p].output = IF cmd = "run" THEN Tmp ELSE c.output]
      PROVE  IInv'
  <2> DEFINE o == IF cmd = "run" THEN Tmp ELSE c.output
             r == [st[p] EXCEPT !.pc = "compile", !.inputs = c.inputs, !.syntax = c.syntax, !.output = o]
  <2>1. /\ c.inputs \in Seq(Sources) /\ c.syntax \in BOOLEAN /\ c.output \in Paths \cup {NULL}
        /\ Len(c.inputs) \in Nat \ {0} /\ (cmd = "run" => Len(c.inputs) = 1)
    <3>1. c.inputs \in Seq(Sources) /\ c.syntax \in BOOLEAN /\ c.output \in Paths \cup {NULL}
      BY <1>4 DEF Parse
    <3>2. c.inputs # <<>> /\ (cmd = "run" => Len(c.inputs) <= 1)
      BY <1>7
    <3> HIDE DEF c, cmd
    <3>3. Len(c.inputs) \in Nat \ {0}
      BY <3>1, <3>2
    <3>5. \A n \in Nat \ {0} : n <= 1 => n = 1
      OBVIOUS
    <3>4. cmd = "run" => Len(c.inputs) = 1
      BY <3>2, <3>3, <3>5, Zenon
    <3> QED
      BY <3>1, <3>3, <3>4
  <2>2. Tmp \in Paths /\ o \in Paths \cup {NULL}
    BY <2>1, CommandAssumption
  <2>10. cmd \in {"build", "run"}
    BY <1>7
  <2>3. st' = [st EXCEPT ![p] = r]
    BY <1>7
  <2> HIDE DEF o, c
  <2>4. /\ r \in Invocation /\ r.pc = "compile" /\ r.line = st[p].line /\ r.inputs = c.inputs
        /\ r.syntax = c.syntax /\ r.output = o /\ r.i = 1 /\ r.built = {} /\ r.streams = <<>>
        /\ r.code = NULL /\ r.status = 0
    BY <1>1, <1>3, <2>1, <2>2 DEF Invocation, Working
  <2> HIDE DEF r
  <2>5. st' \in [Procs -> Invocation] /\ st'[p] = r /\ Others(p)
    BY <1>1, <2>3, <2>4 DEF Others
  <2>6. Sound(p)'
    <3>1. Begins(p)' /\ Tells(p)' /\ BuiltGood(p)'
      BY <2>4, <2>5 DEF Begins, Tells, BuiltGood
    <3>2. Proceeds(p)'
      BY <2>1, <2>4, <2>5, <2>10 DEF Proceeds, c, o
    <3>3. Loops(p)'
      <4>1. 1..r.i - 1 = {} /\ Len(r.streams) = r.i - 1
        BY <2>4
      <4>2. {r.inputs[k] : k \in 1..r.i - 1} = {}
        BY <4>1
      <4> QED
        BY <2>4, <2>5, <4>1, <4>2 DEF Loops
    <3>4. Reads(p)'
      BY <2>4, <2>5 DEF Reads
    <3> QED
      BY <3>1, <3>2, <3>3, <3>4 DEF Sound
  <2>7. Progress'
    BY <1>1, <2>5, <2>6, OthersSound
  <2>8. Contents'
    BY <1>1, <1>2, <1>3, <2>4, <2>5, QuietContents DEF Working
  <2>9. Shape'
    BY <1>1, <1>2, <2>5 DEF Shape, Files
  <2> QED
    BY <2>7, <2>8, <2>9 DEF IInv
<1> QED
  <2>1. CASE cmd \in {"none", "test"}
    <3>1. Exits(p, 0)
      BY <2>1 DEF Exec
    <3> QED
      BY <1>6, <2>1, <3>1
  <2>2. CASE cmd = "unknown"
    <3>1. Exits(p, 1)
      BY <2>2 DEF Exec
    <3> QED
      BY <1>6, <2>2, <3>1
  <2>3. CASE cmd = "run" /\ Len(c.inputs) > 1
    <3>1. Exits(p, 1)
      <4>1. c.inputs # <<>>
        BY <2>3
      <4> QED
        BY <2>3, <4>1 DEF Exec
    <3> QED
      BY <1>6, <2>3, <3>1
  <2>4. CASE cmd \in {"build", "run"} /\ c.inputs = <<>>
    <3>1. Exits(p, 0)
      <4>1. ~(Len(c.inputs) > 1)
        BY <2>4
      <4> QED
        BY <2>4, <4>1 DEF Exec
    <3> QED
      BY <1>6, <2>4, <3>1
  <2>5. CASE cmd \in {"build", "run"} /\ c.inputs # <<>> /\ ~(cmd = "run" /\ Len(c.inputs) > 1)
    <3>1. st' = [st EXCEPT ![p].pc = "compile", ![p].inputs = c.inputs, ![p].syntax = c.syntax,
                           ![p].output = IF cmd = "run" THEN Tmp ELSE c.output]
      BY <2>5 DEF Exec
    <3>2. Len(c.inputs) \in Nat
      BY <1>4 DEF Parse
    <3> QED
      BY <1>7, <2>5, <3>1, <3>2
  <2> QED
    BY <1>5, <2>1, <2>2, <2>3, <2>4, <2>5

\* exit, error or the return from main, while the invocation works.
LEMMA ExitsIInv ==
    ASSUME IInv, NEW p \in Procs, st[p].pc \in Working, NEW status \in Nat, Exits(p, status), Files,
           st[p].line.cmd = "build" =>
             (status = 0 <=> IF st[p].syntax THEN Source[st[p].inputs[1]].parse = "ok"
                             ELSE Named(p) \subseteq st[p].built),
           st[p].line.cmd = "run" /\ status = 0 => st[p].syntax \/ Named(p) \subseteq st[p].built
    PROVE  IInv'
<1>1. st \in [Procs -> Invocation] /\ Shape /\ Contents /\ Progress /\ Sound(p)
  BY DEF IInv, Shape, Progress
<1>2. /\ st' \in [Procs -> Invocation] /\ Others(p) /\ SameWork(p)
      /\ st'[p].pc = "exiting" /\ st'[p].status = status
      /\ st'[p].streams = st[p].streams /\ st'[p].code = st[p].code
  BY <1>1, ExitsFacts
<1>3. Sound(p)'
  BY <1>1, <1>2, EndsSound
<1>4. Progress'
  BY <1>1, <1>2, <1>3, OthersSound
<1>5. Contents'
  BY <1>1, <1>2, QuietContents DEF SameWork, Working
<1>6. Shape'
  BY <1>1, <1>2 DEF Shape, Files
<1> QED
  BY <1>4, <1>5, <1>6 DEF IInv

\* A signal or a failed assertion loses what the streams keep, but a build that
\* was read back had been flushed.
LEMMA CrashesIInv ==
    ASSUME IInv, NEW p \in Procs, st[p].pc \notin {"exited", "crashed"}, Crashes(p), Files
    PROVE  IInv'
<1>1. st \in [Procs -> Invocation] /\ Shape /\ Contents /\ Progress /\ Sound(p)
  BY DEF IInv, Shape, Progress
<1>2. /\ st' \in [Procs -> Invocation] /\ Others(p) /\ SameWork(p)
      /\ st'[p].pc = "crashed" /\ st'[p].streams = <<>> /\ st'[p].code = st[p].code
  BY <1>1, CrashesFacts
<1>3. disk' = disk /\ last' = last /\ shared' = shared
  BY DEF Files
<1>4. Progress'
  BY <1>1, <1>2, EndsSound, OthersSound
<1>5. Shape'
  BY <1>1, <1>2, <1>3 DEF Shape
<1>6. 1..Len(st'[p].streams) = {} /\ \A f : ~Holds(p, f)'
  BY <1>2 DEF Holds
<1>7. Owned'
  BY <1>1, <1>2, <1>3, <1>6 DEF Contents, Owned, Others
<1>8. Written'
  <2> SUFFICES ASSUME NEW q \in Procs, NEW k \in 1..Len(st'[q].streams),
                      st'[q].streams[k].file \notin shared
               PROVE  LET x == st'[q].streams[k]
                          s == last[x.file].s
                      IN Agrees(x, disk[x.file], s, s \in st'[q].built)
    BY <1>3 DEF Written, Agrees, IsBeginning
  <2>1. st'[q] = st[q]
    BY <1>2, <1>6 DEF Others
  <2> QED
    BY <2>1, <1>1 DEF Contents, Written
<1>9. Current'
  <2> SUFFICES ASSUME NEW q \in Procs, st'[q].pc \in Working \ {"compile", "open"}, st'[q].streams # <<>>
               PROVE  /\ Fp(q)'.file = OutFile(q, Input(q))'
                      /\ Fp(q)'.file \notin shared =>
                           /\ last[Fp(q)'.file].s = Input(q)'
                           /\ st'[q].pc \in {"generate", "dump"} => Fp(q)'.off = Len(disk[Fp(q)'.file])
    BY <1>3 DEF Current
  <2>1. st'[q] = st[q]
    BY <1>2 DEF Others, Working
  <2>2. Fp(q)' = Fp(q) /\ Input(q)' = Input(q) /\ OutFile(q, Input(q))' = OutFile(q, Input(q))
    BY <2>1 DEF Fp, Input, OutFile, Out
  <2> QED
    BY <2>1, <2>2, <1>1 DEF Contents, Current
<1>10. Opener'
  <2>1. ASSUME NEW f \in DOMAIN disk
        PROVE  /\ st'[last[f].p].pc # "exec"
               /\ f = OutFile(last[f].p, last[f].s)'
               /\ st'[last[f].p].pc \in Working => Holds(last[f].p, f)'
    <3> DEFINE l == last[f]
    <3>1. l \in Opening /\ l.p \in Procs
      BY <1>1 DEF Shape, Opening
    <3>2. /\ st[l.p].pc # "exec" /\ f = OutFile(l.p, l.s)
          /\ st[l.p].pc \in Working => Holds(l.p, f)
      BY <1>1 DEF Contents, Opener
    <3>3. CASE l.p # p
      <4>1. st'[l.p] = st[l.p]
        BY <1>2, <3>1, <3>3 DEF Others
      <4> QED
        BY <1>3, <3>2, <4>1 DEF OutFile, Out, Holds
    <3>4. CASE l.p = p
      BY <1>2, <1>3, <3>2, <3>4 DEF OutFile, Out, SameWork, Working
    <3> QED
      BY <3>3, <3>4
  <2>2. ASSUME NEW q \in Procs, st'[q].pc \in Working, NEW s \in st'[q].built
        PROVE  Holds(q, OutFile(q, s))'
    <3>1. st'[q] = st[q]
      BY <1>2, <2>2 DEF Others, Working
    <3>2. Holds(q, OutFile(q, s))
      BY <1>1, <2>2, <3>1 DEF Contents, Opener
    <3> QED
      BY <3>1, <3>2 DEF Holds, OutFile, Out
  <2> QED
    BY <1>3, <2>1, <2>2 DEF Opener
<1>11. Closed'
  <2> SUFFICES ASSUME NEW f \in DOMAIN disk, ~Held(f)', f \notin shared,
                      last[f].s \in st'[last[f].p].built,
                      st'[last[f].p].pc \in {"exiting", "exited"} \/ st'[last[f].p].code # NULL
               PROVE  disk[f] = Build(last[f].s)
    BY <1>3 DEF Closed
  <2> DEFINE l == last[f]
  <2>1. l.p \in Procs
    BY <1>1 DEF Shape, Opening
  <2>2. /\ l.s \in st[l.p].built
        /\ st[l.p].pc \in {"exiting", "exited"} \/ st[l.p].code # NULL
        /\ l.p = p => st[p].code # NULL
    <3>1. CASE l.p = p
      BY <1>2, <3>1 DEF SameWork
    <3>2. CASE l.p # p
      BY <1>2, <2>1, <3>2 DEF Others
    <3> QED
      BY <3>1, <3>2
  <2>3. CASE ~Held(f)
    BY <1>1, <2>2, <2>3 DEF Contents, Closed
  <2>4. CASE Held(f)
    <3>1. PICK q \in Procs : \E k \in 1..Len(st[q].streams) : st[q].streams[k].file = f
      BY <2>4 DEF Held
    <3>2. q = p
      <4>1. SUFFICES ASSUME q # p PROVE FALSE
        OBVIOUS
      <4>2. st'[q] = st[q]
        BY <1>2, <4>1 DEF Others
      <4> QED
        BY <3>1, <4>2 DEF Held
    <3>3. PICK k \in 1..Len(st[p].streams) : st[p].streams[k].file = f
      BY <3>1, <3>2
    <3>4. l.p = p
      BY <1>1, <3>3 DEF Contents, Owned
    <3>5. st[p].streams[k].buf = <<>>
      BY <1>1, <2>2, <3>4 DEF Sound, Reads
    <3>6. Agrees(st[p].streams[k], disk[f], l.s, TRUE)
      BY <1>1, <2>2, <3>3, <3>4 DEF Contents, Written
    <3>7. disk[f] \in Seq(Byte) /\ st[p].streams[k] \in Stream /\ l.s \in Sources
      <4>1. st[p] \in Invocation /\ l \in Opening
        BY <1>1 DEF Shape
      <4>2. st[p].streams \in Seq(Stream) /\ l.s \in Sources
        BY <4>1 DEF Invocation, Opening
      <4> QED
        BY <1>1, <3>3, <4>2, ElementOfSeq DEF Shape
    <3>8. WriteAt(disk[f], st[p].streams[k].off, st[p].streams[k].buf) = Build(l.s)
      BY <3>6, <3>7, FlushedBeginning
    <3> QED
      BY <3>5, <3>8 DEF WriteAt
  <2> QED
    BY <2>3, <2>4
<1>12. Reading'
  <2> SUFFICES ASSUME NEW q \in Procs, Tmp \notin shared
               PROVE  /\ st'[q].pc = "read" => st'[q].size = Source[Input(q)'].size
                      /\ st'[q].pc = "execute" => st'[q].code = Build(Input(q)')
    BY <1>3 DEF Reading, Build
  <2>1. CASE q = p
    BY <1>2, <2>1
  <2>2. CASE q # p
    <3>1. st'[q] = st[q] /\ Input(q)' = Input(q)
      BY <1>2, <2>2 DEF Others, Input
    <3> QED
      BY <1>1, <3>1 DEF Contents, Reading
  <2> QED
    BY <2>1, <2>2
<1> QED
  BY <1>4, <1>5, <1>7, <1>8, <1>9, <1>10, <1>11, <1>12 DEF IInv, Contents

-----------------------------------------------------------------------------
\* While an invocation works on an input, that is one the user named.
LEMMA WorkingFacts ==
    ASSUME IInv, NEW p \in Procs, st[p].pc \in Working
    PROVE  /\ Shape /\ Contents /\ Progress /\ Sound(p)
           /\ st \in [Procs -> Invocation] /\ st[p] \in Invocation
           /\ st[p].i \in 1..Len(st[p].inputs) /\ Len(st[p].inputs) \in Nat
           /\ Input(p) \in Sources /\ Input(p) \in Named(p)
           /\ st[p].line.cmd \in {"build", "run"}
           /\ st[p].line.cmd = "run" => /\ st[p].output = Tmp /\ st[p].i = 1
                                        /\ Len(st[p].inputs) = 1 /\ Named(p) = {Input(p)}
<1>1. Shape /\ Contents /\ Progress /\ Sound(p) /\ st \in [Procs -> Invocation] /\ st[p] \in Invocation
  BY DEF IInv, Shape, Progress
<1>2. st[p].inputs \in Seq(Sources) /\ st[p].i \in Nat \ {0}
  BY <1>1 DEF Invocation
<1>3. /\ st[p].line.cmd \in {"build", "run"} /\ st[p].i <= Len(st[p].inputs)
      /\ st[p].inputs = Parsed(st[p].line.args).inputs
      /\ st[p].line.cmd = "run" => st[p].output = Tmp /\ Len(st[p].inputs) = 1
  BY <1>1 DEF Sound, Proceeds
<1>4. st[p].i \in 1..Len(st[p].inputs) /\ Len(st[p].inputs) \in Nat /\ Input(p) \in Sources
  BY <1>2, <1>3 DEF Input
<1>5. Named(p) = {st[p].inputs[k] : k \in 1..Len(st[p].inputs)}
  BY <1>1, <1>3, NamedFacts DEF Elements
<1>6. Input(p) \in Named(p)
  BY <1>4, <1>5 DEF Input
<1>7. ASSUME st[p].line.cmd = "run" PROVE st[p].i = 1 /\ Named(p) = {Input(p)}
  <2>1. 1..Len(st[p].inputs) = {1}
    <3>1. Len(st[p].inputs) = 1 /\ 1..1 = {1}
      BY <1>3, <1>7
    <3> QED
      BY <3>1, Zenon
  <2>2. st[p].i = 1
    BY <1>4, <2>1
  <2> QED
    BY <1>5, <2>1, <2>2 DEF Input
<1> QED
  BY <1>1, <1>3, <1>4, <1>6, <1>7

\* The next stage of the work changes nothing else.
LEMMA MovesFacts ==
    ASSUME st \in [Procs -> Invocation], NEW p \in Procs, NEW pc \in Working, st' = [st EXCEPT ![p].pc = pc]
    PROVE  /\ st' \in [Procs -> Invocation] /\ Others(p) /\ SameWork(p) /\ st'[p].pc = pc
           /\ st'[p].streams = st[p].streams /\ st'[p].size = st[p].size /\ st'[p].code = st[p].code
           /\ st'[p].status = st[p].status
<1> DEFINE r == [st[p] EXCEPT !.pc = pc]
<1>1. st' = [st EXCEPT ![p] = r] /\ st[p] \in Invocation
  OBVIOUS
<1>3. /\ r \in Invocation /\ r.pc = pc /\ r.status = st[p].status
      /\ r.line = st[p].line /\ r.inputs = st[p].inputs /\ r.syntax = st[p].syntax
      /\ r.output = st[p].output /\ r.i = st[p].i /\ r.built = st[p].built
      /\ r.streams = st[p].streams /\ r.size = st[p].size /\ r.code = st[p].code
  BY <1>1 DEF Invocation
<1> HIDE DEF r
<1>4. st' \in [Procs -> Invocation] /\ st'[p] = r /\ Others(p)
  BY <1>1, <1>3 DEF Others
<1> QED
  BY <1>3, <1>4 DEF SameWork

\* What does not change when an invocation only moves on.
LEMMA MovesSound ==
    ASSUME NEW p \in Procs, Sound(p), SameWork(p), st[p].pc \in Working, st'[p].pc \in Working,
           st'[p].status = st[p].status, ~st[p].syntax
    PROVE  Begins(p)' /\ Proceeds(p)' /\ BuiltGood(p)' /\ Tells(p)'
<1>1. Proceeds(p)'
  BY DEF Sound, Proceeds, SameWork
<1>2. BuiltGood(p)'
  BY DEF Sound, BuiltGood, SameWork
<1> QED
  BY <1>1, <1>2 DEF Begins, Tells, Working

\* command_build's way to the generator.
LEMMA CompileIInv == ASSUME IInv, NEW p \in Procs, Compile(p) PROVE IInv'
<1>1. st[p].pc = "compile" /\ st[p].pc \in Working /\ Files
  BY DEF Compile, Working
<1>2. /\ Shape /\ Contents /\ Progress /\ Sound(p)
      /\ st \in [Procs -> Invocation] /\ st[p] \in Invocation
      /\ st[p].i \in 1..Len(st[p].inputs) /\ Len(st[p].inputs) \in Nat
      /\ Input(p) \in Sources /\ Input(p) \in Named(p)
      /\ st[p].line.cmd \in {"build", "run"}
      /\ st[p].line.cmd = "run" => /\ st[p].output = Tmp /\ st[p].i = 1
                                   /\ Len(st[p].inputs) = 1 /\ Named(p) = {Input(p)}
  BY <1>1, WorkingFacts
<1> DEFINE parse == Source[Input(p)].parse
<1>3. parse # "ok" => Input(p) \notin st[p].built
  BY <1>2 DEF Sound, BuiltGood
<1>4. st[p].syntax => parse = Source[st[p].inputs[1]].parse
  BY <1>2, <1>1 DEF Sound, Proceeds, Input
<1>5. /\ st[p].built = {st[p].inputs[k] : k \in 1..st[p].i - 1}
      /\ Len(st[p].streams) = st[p].i - 1 /\ st[p].streams \in Seq(Stream)
      /\ st[p].code = NULL
  BY <1>1, <1>2 DEF Sound, Loops, Reads, Invocation
<1>6. ASSUME Exits(p, 1), parse # "ok" PROVE IInv'
  BY <1>1, <1>2, <1>3, <1>4, <1>6, ExitsIInv
<1>7. ASSUME Exits(p, 0), st[p].syntax, st[p].line.cmd = "run" \/ parse = "ok" PROVE IInv'
  BY <1>1, <1>2, <1>4, <1>7, ExitsIInv
<1>8. ASSUME NEW pc \in {"seek", "open"}, st' = [st EXCEPT ![p].pc = pc], ~st[p].syntax,
             pc = "seek" => st[p].line.cmd = "run",
             pc = "open" => parse = "ok"
      PROVE  IInv'
  <2>1. /\ st' \in [Procs -> Invocation] /\ Others(p) /\ SameWork(p) /\ st'[p].pc = pc
        /\ st'[p].streams = st[p].streams /\ st'[p].code = st[p].code /\ st'[p].status = st[p].status
    BY <1>2, <1>8, MovesFacts DEF Working
  <2>2. Input(p)' = Input(p)
    BY <2>1 DEF Input, SameWork
  <2>3. pc = "seek" => st[p].streams = <<>>
    BY <1>2, <1>5, <1>8
  <2>4. Loops(p)'
    <3>1. CASE pc = "open"
      BY <1>5, <1>8, <2>1, <2>2, <3>1 DEF Loops, SameWork
    <3>2. CASE pc = "seek"
      BY <2>1, <3>2 DEF Loops
    <3> QED
      BY <3>1, <3>2
  <2>5. Reads(p)'
    <3>1. pc = "seek" => Len(st[p].streams) = 0
      BY <2>3
    <3> QED
      BY <1>5, <1>8, <2>1, <2>3, <3>1 DEF Reads, SameWork
  <2>6. Sound(p)'
    BY <1>1, <1>2, <1>8, <2>1, <2>4, <2>5, MovesSound DEF Sound, Working
  <2>7. Progress'
    BY <1>2, <2>1, <2>6, OthersSound
  <2>8. Contents'
    BY <1>1, <1>2, <1>8, <2>1, <2>3, QuietContents DEF SameWork
  <2>9. Shape'
    BY <1>1, <1>2, <2>1 DEF Shape, Files
  <2> QED
    BY <2>7, <2>8, <2>9 DEF IInv
<1>9. CASE parse \in {"missing", "eof"}
  BY <1>6, <1>9 DEF Compile
<1>10. CASE parse = "errors"
  <2>1. BuildReturns(p, 1)
    BY <1>10 DEF Compile
  <2> QED
    BY <1>2, <1>6, <1>7, <1>8, <1>10, <2>1 DEF BuildReturns
<1>11. CASE parse = "ok" /\ st[p].syntax
  <2>1. BuildReturns(p, 0)
    BY <1>11 DEF Compile
  <2> QED
    BY <1>2, <1>7, <1>11, <2>1 DEF BuildReturns
<1>12. CASE parse = "ok" /\ ~st[p].syntax
  <2>1. st' = [st EXCEPT ![p].pc = "open"]
    BY <1>12 DEF Compile
  <2> QED
    BY <1>8, <1>12, <2>1
<1> QED
  BY <1>2, <1>9, <1>10, <1>11, <1>12, SourceFacts

\* The latest stream is one that is held.
LEMMA HoldsFp ==
    ASSUME Shape, NEW q \in Procs, st[q].streams # <<>>
    PROVE  /\ Len(st[q].streams) \in 1..Len(st[q].streams)
           /\ Fp(q) \in Stream /\ Holds(q, Fp(q).file) /\ Held(Fp(q).file)
<1>1. st[q].streams \in Seq(Stream)
  BY DEF Shape, Invocation
<1>2. Len(st[q].streams) \in 1..Len(st[q].streams)
  BY <1>1
<1>3. Fp(q) = st[q].streams[Len(st[q].streams)]
  BY DEF Fp
<1> QED
  BY <1>1, <1>2, <1>3, ElementOfSeq DEF Holds, Held

\* p opens the file f for the build of s: x is the new stream.
Opens(p, s, f, x) ==
    /\ st[p].pc = "open" /\ s = Input(p) /\ f = OutFile(p, s)
    /\ st[p].output # NULL \/ Source[s].place
    /\ f \in Paths /\ x \in Stream /\ x.file = f /\ x.off = 0 /\ x.buf = <<>>
    /\ st' \in [Procs -> Invocation] /\ Others(p) /\ SameWork(p)
    /\ st'[p].pc = "generate" /\ st'[p].streams = Append(st[p].streams, x)
    /\ st'[p].status = st[p].status /\ st'[p].code = st[p].code
    /\ DOMAIN disk' = DOMAIN disk \cup {f} /\ disk' \in [DOMAIN disk' -> Seq(Byte)]
    /\ last' \in [DOMAIN disk' -> Opening]
    /\ disk'[f] = <<>> /\ last'[f].p = p /\ last'[f].s = s
    /\ \A g \in DOMAIN disk : g # f => disk'[g] = disk[g] /\ last'[g] = last[g]
    /\ shared' \subseteq shared \cup {f} /\ shared \ {f} \subseteq shared'
    /\ Held(f) => f \in shared'

\* fopen empties the file; if someone had it open, it counts as shared.
LEMMA OpensIInv ==
    ASSUME IInv, NEW p \in Procs, NEW s, NEW f, NEW x, Opens(p, s, f, x)
    PROVE  IInv'
<1> USE DEF Opens
<1>1. st[p].pc = "open" /\ st[p].pc \in Working
  BY DEF Working
<1>2. /\ Shape /\ Contents /\ Progress /\ Sound(p)
      /\ st \in [Procs -> Invocation] /\ st[p] \in Invocation
      /\ s \in Sources /\ s \in Named(p)
  BY <1>1, WorkingFacts
<1> DEFINE n == Len(st[p].streams)
<1>3. /\ ~st[p].syntax /\ Source[s].parse = "ok" /\ n = st[p].i - 1
      /\ st[p].built = {st[p].inputs[k] : k \in 1..st[p].i - 1}
      /\ st[p].code = NULL /\ st[p].i \in Nat
  BY <1>1, <1>2 DEF Sound, Proceeds, Loops, Reads, Invocation
<1>4. /\ n \in Nat /\ Len(st'[p].streams) = n + 1 /\ st'[p].streams[n + 1] = x
      /\ \A k \in 1..n : st'[p].streams[k] = st[p].streams[k]
      /\ \A k : k \in 1..n + 1 <=> k \in 1..n \/ k = n + 1
  BY <1>2 DEF Invocation
<1>5. Input(p)' = s /\ OutFile(p, s)' = f /\ Fp(p)' = x
  <2>1. Input(p)' = s
    BY DEF Input, SameWork
  <2>2. OutFile(p, s)' = f
    BY DEF OutFile, Out, SameWork
  <2>3. Fp(p)' = x
    BY <1>4 DEF Fp
  <2> QED
    BY <2>1, <2>2, <2>3
<1> HIDE DEF n
<1>6. \A q \in Procs : \A k : k \in 1..Len(st'[q].streams) =>
        \/ k \in 1..Len(st[q].streams) /\ st'[q].streams[k] = st[q].streams[k]
        \/ q = p /\ k = n + 1 /\ st'[q].streams[k] = x
  BY <1>4 DEF Others, n
<1>7. ASSUME NEW q \in Procs, NEW g PROVE Holds(q, g) => Holds(q, g)' /\ Held(g)
  <2>1. \A k \in 1..Len(st[q].streams) :
          k \in 1..Len(st'[q].streams) /\ st'[q].streams[k] = st[q].streams[k]
    BY <1>4 DEF Others, n
  <2> QED
    BY <2>1 DEF Holds, Held
<1>8. Holds(p, f)' /\ Held(f)'
  BY <1>4 DEF Holds, Held
\* A file that is held, and not shared now, is another one.
<1>9. \A g : Held(g) /\ g \notin shared' => g # f /\ g \notin shared
  OBVIOUS
<1>10. \A g : g \notin shared' /\ g # f => g \notin shared
  OBVIOUS
<1>11. f \notin shared' => ~Held(f)
  OBVIOUS
<1>12. Shape'
  BY <1>2 DEF Shape
<1>13. Progress'
  <2>1. Loops(p)'
    <3>1. st'[p].built = {st'[p].inputs[k] : k \in 1..st'[p].i - 1}
      BY <1>3 DEF SameWork
    <3>2. Len(st'[p].streams) = st'[p].i
      BY <1>3, <1>4 DEF SameWork
    <3>3. st'[p].output # NULL \/ Source[s].place
      BY DEF SameWork
    <3> QED
      BY <1>3, <1>5, <3>1, <3>2, <3>3 DEF Loops
  <2>2. Reads(p)'
    BY <1>3 DEF Reads
  <2>3. Sound(p)'
    BY <1>1, <1>2, <1>3, <2>1, <2>2, MovesSound DEF Sound, Working
  <2> QED
    BY <1>2, <2>3, OthersSound
<1>14. Owned'
  <2> SUFFICES ASSUME NEW q \in Procs, NEW k \in 1..Len(st'[q].streams)
               PROVE  LET g == st'[q].streams[k].file
                      IN /\ g \in DOMAIN disk'
                         /\ g \notin shared' =>
                              /\ last'[g].p = q
                              /\ \A q2 \in Procs : \A j \in 1..Len(st'[q2].streams) :
                                   st'[q2].streams[j].file = g => q2 = q /\ j = k
    BY DEF Owned
  <2>1. CASE k \in 1..Len(st[q].streams) /\ st'[q].streams[k] = st[q].streams[k]
    <3> DEFINE g == st[q].streams[k].file
    <3>1. g \in DOMAIN disk /\ Held(g)
      BY <1>2, <2>1 DEF Contents, Owned, Held
    <3>2. ASSUME g \notin shared' PROVE last'[g].p = q
      BY <1>2, <1>9, <2>1, <3>1, <3>2 DEF Contents, Owned
    <3>3. ASSUME g \notin shared', NEW q2 \in Procs, NEW j \in 1..Len(st'[q2].streams),
                 st'[q2].streams[j].file = g
          PROVE  q2 = q /\ j = k
      <4>1. g # f
        BY <1>9, <3>1, <3>3
      <4>2. j \in 1..Len(st[q2].streams) /\ st'[q2].streams[j] = st[q2].streams[j]
        <5>1. \/ j \in 1..Len(st[q2].streams) /\ st'[q2].streams[j] = st[q2].streams[j]
              \/ st'[q2].streams[j] = x
          BY <1>6, <3>3, Zenon
        <5>2. st'[q2].streams[j] # x
          BY <3>3, <4>1
        <5> QED
          BY <5>1, <5>2
      <4> QED
        BY <1>2, <1>9, <2>1, <3>1, <3>3, <4>2 DEF Contents, Owned
    <3> QED
      BY <2>1, <3>1, <3>2, <3>3
  <2>2. CASE q = p /\ k = n + 1 /\ st'[q].streams[k] = x
    <3>1. ASSUME f \notin shared', NEW q2 \in Procs, NEW j \in 1..Len(st'[q2].streams),
                 st'[q2].streams[j].file = f
          PROVE  q2 = p /\ j = n + 1
      <4>1. ~(j \in 1..Len(st[q2].streams) /\ st'[q2].streams[j] = st[q2].streams[j])
        BY <1>11, <3>1 DEF Held
      <4> QED
        BY <1>6, <4>1
    <3> QED
      BY <2>2, <3>1
  <2> QED
    BY <1>6, <2>1, <2>2
<1>15. Written'
  <2> SUFFICES ASSUME NEW q \in Procs, NEW k \in 1..Len(st'[q].streams),
                      st'[q].streams[k].file \notin shared'
               PROVE  LET y == st'[q].streams[k]
                          t == last'[y.file].s
                      IN Agrees(y, disk'[y.file], t, t \in st'[q].built)
    BY DEF Written, Agrees, IsBeginning
  <2>1. CASE k \in 1..Len(st[q].streams) /\ st'[q].streams[k] = st[q].streams[k]
    <3> DEFINE g == st[q].streams[k].file
    <3>1. g \in DOMAIN disk /\ Held(g)
      BY <1>2, <2>1 DEF Contents, Owned, Held
    <3>2. g \notin shared /\ disk'[g] = disk[g] /\ last'[g] = last[g]
      BY <1>9, <2>1, <3>1
    <3>3. st'[q].built = st[q].built
      BY DEF Others, SameWork
    <3> QED
      BY <1>2, <2>1, <3>2, <3>3 DEF Contents, Written
  <2>2. CASE q = p /\ k = n + 1 /\ st'[q].streams[k] = x
    <3>1. ~Held(f)
      BY <1>11, <2>2
    <3>2. s \notin st[p].built
      <4>1. s \in st[p].built => Holds(p, f)
        BY <1>1, <1>2 DEF Contents, Opener
      <4> QED
        BY <1>7, <3>1, <4>1
    <3>3. Agrees(x, <<>>, s, FALSE)
      BY <1>2, SourceFacts DEF Agrees, IsBeginning
    <3>4. /\ disk'[st'[q].streams[k].file] = <<>> /\ last'[st'[q].streams[k].file].s = s
          /\ (s \in st'[q].built) = FALSE
      BY <2>2, <3>2 DEF SameWork
    <3> QED
      BY <2>2, <3>3, <3>4
  <2> QED
    BY <1>6, <2>1, <2>2
<1>16. Current'
  <2> SUFFICES ASSUME NEW q \in Procs, st'[q].pc \in Working \ {"compile", "open"}, st'[q].streams # <<>>
               PROVE  /\ Fp(q)'.file = OutFile(q, Input(q))'
                      /\ Fp(q)'.file \notin shared' =>
                           /\ last'[Fp(q)'.file].s = Input(q)'
                           /\ st'[q].pc \in {"generate", "dump"} => Fp(q)'.off = Len(disk'[Fp(q)'.file])
    BY DEF Current
  <2>1. CASE q # p
    <3>1. st'[q] = st[q]
      BY <2>1 DEF Others
    <3>2. Fp(q)' = Fp(q) /\ Input(q)' = Input(q) /\ OutFile(q, Input(q))' = OutFile(q, Input(q))
      BY <3>1 DEF Fp, Input, OutFile, Out
    <3>3. Held(Fp(q).file) /\ Fp(q).file \in DOMAIN disk
      <4>1. st[q].streams # <<>>
        BY <3>1
      <4>2. Len(st[q].streams) \in 1..Len(st[q].streams) /\ Held(Fp(q).file)
        BY <1>2, <4>1, HoldsFp
      <4> QED
        BY <1>2, <4>2 DEF Contents, Owned, Fp
    <3>4. Fp(q).file \notin shared' =>
            /\ Fp(q).file \notin shared
            /\ disk'[Fp(q).file] = disk[Fp(q).file] /\ last'[Fp(q).file] = last[Fp(q).file]
      BY <1>9, <3>3
    <3> QED
      BY <1>2, <3>1, <3>2, <3>4 DEF Contents, Current
  <2>2. CASE q = p
    <3>1. OutFile(p, Input(p))' = f
      BY <1>5 DEF OutFile, Out
    <3> QED
      BY <1>5, <2>2, <3>1
  <2> QED
    BY <2>1, <2>2
<1>17. Opener'
  <2>1. ASSUME NEW g \in DOMAIN disk'
        PROVE  /\ st'[last'[g].p].pc # "exec"
               /\ g = OutFile(last[g].p, last[g].s)'
               /\ st'[last'[g].p].pc \in Working => Holds(last[g].p, g)'
    <3>1. CASE g = f
      <4>1. last'[g].p = p /\ last'[g].s = s
        BY <3>1
      <4>2. OutFile(last[g].p, last[g].s)' = f
        BY <1>5, <4>1 DEF OutFile, Out
      <4>3. Holds(last[g].p, g)'
        BY <1>8, <3>1, <4>1 DEF Holds
      <4> QED
        BY <3>1, <4>1, <4>2, <4>3
    <3>2. CASE g # f
      <4>0. PICK l : l = last[g]
        OBVIOUS
      <4>1. g \in DOMAIN disk /\ last'[g] = l
        BY <3>2, <4>0
      <4>2. l.p \in Procs
        BY <1>2, <4>0, <4>1 DEF Shape, Opening
      <4>3. /\ st[l.p].pc # "exec" /\ g = OutFile(l.p, l.s)
            /\ st[l.p].pc \in Working => Holds(l.p, g)
        BY <1>2, <4>0, <4>1 DEF Contents, Opener
      <4>4. /\ st'[l.p].pc # "exec" /\ st'[l.p].output = st[l.p].output
            /\ st'[l.p].pc \in Working => st[l.p].pc \in Working
        <5>1. CASE l.p = p
          BY <1>1, <5>1 DEF SameWork
        <5>2. CASE l.p # p
          BY <4>2, <4>3, <5>2 DEF Others
        <5> QED
          BY <5>1, <5>2
      <4>5. st[l.p].pc \in Working => Holds(l.p, g)'
        BY <1>7, <4>2, <4>3
      <4>6. OutFile(last[g].p, last[g].s)' = OutFile(l.p, l.s)
        BY <4>1, <4>4 DEF OutFile, Out
      <4>7. st[l.p].pc \in Working => Holds(last[g].p, g)'
        BY <4>1, <4>5 DEF Holds
      <4> QED
        BY <4>1, <4>3, <4>4, <4>6, <4>7
    <3> QED
      BY <3>1, <3>2
  <2>2. ASSUME NEW q \in Procs, st'[q].pc \in Working, NEW t \in st'[q].built
        PROVE  Holds(q, OutFile(q, t))'
    <3>1. /\ st'[q].built = st[q].built /\ st'[q].output = st[q].output
          /\ st[q].pc \in Working
      BY <1>1, <2>2 DEF Others, SameWork
    <3>2. Holds(q, OutFile(q, t))
      BY <1>2, <2>2, <3>1 DEF Contents, Opener
    <3>3. OutFile(q, t)' = OutFile(q, t)
      BY <3>1 DEF OutFile, Out
    <3>5. PICK o : o = OutFile(q, t)
      OBVIOUS
    <3>4. Holds(q, o) => Holds(q, o)'
      BY <1>7
    <3> QED
      BY <3>2, <3>3, <3>4, <3>5 DEF Holds
  <2> QED
    BY <2>1, <2>2 DEF Opener
<1>18. Closed'
  <2> SUFFICES ASSUME NEW g \in DOMAIN disk', ~Held(g)', g \notin shared',
                      last'[g].s \in st'[last'[g].p].built,
                      st'[last'[g].p].pc \in {"exiting", "exited"} \/ st'[last'[g].p].code # NULL
               PROVE  disk'[g] = Build(last'[g].s)
    BY DEF Closed, Build
  <2>1. g # f /\ g \in DOMAIN disk /\ g \notin shared
    BY <1>8, <1>10
  <2>2. last'[g] = last[g] /\ disk'[g] = disk[g] /\ last[g].p \in Procs
    BY <1>2, <2>1 DEF Shape, Opening
  <2>3. ~Held(g)
    <3>1. ASSUME NEW q \in Procs, Holds(q, g) PROVE FALSE
      <4>1. Holds(q, g)'
        BY <1>7, <3>1
      <4> QED
        BY <4>1 DEF Held, Holds
    <3> QED
      BY <3>1 DEF Held, Holds
  <2>4. st'[last[g].p] = st[last[g].p]
    <3>1. last[g].p # p
      BY <1>3, <2>2
    <3> QED
      BY <2>2, <3>1 DEF Others
  <2> QED
    BY <1>2, <2>1, <2>2, <2>3, <2>4 DEF Contents, Closed
<1>19. Reading'
  <2> SUFFICES ASSUME NEW q \in Procs, Tmp \notin shared', st'[q].pc \in {"read", "execute"}
               PROVE  /\ st'[q].pc = "read" => st'[q].size = Source[Input(q)'].size
                      /\ st'[q].pc = "execute" => st'[q].code = Build(Input(q)')
    BY DEF Reading, Build
  <2>1. st'[q] = st[q] /\ Input(q)' = Input(q)
    BY DEF Others, Input
  <2>2. Held(Tmp)
    <3>1. st[q].pc \in Working /\ st[q].pc \in Working \ {"compile", "open"} /\ Sound(q)
      BY <1>2, <2>1 DEF Working, Progress
    <3>2. st[q].streams # <<>> /\ st[q].line.cmd = "run"
      BY <2>1, <3>1 DEF Sound, Reads
    <3>3. st[q].output = Tmp
      BY <3>1, <3>2 DEF Sound, Proceeds
    <3>4. Fp(q).file = Tmp
      BY <1>2, <3>1, <3>2, <3>3, CommandAssumption DEF Contents, Current, OutFile
    <3> QED
      BY <1>2, <3>2, <3>4, HoldsFp
  <2> QED
    BY <1>2, <1>9, <2>1, <2>2 DEF Contents, Reading
<1> QED
  BY <1>12, <1>13, <1>14, <1>15, <1>16, <1>17, <1>18, <1>19 DEF IInv, Contents

\* The output is opened, or has no place to be.
LEMMA OpenIInv == ASSUME IInv, NEW p \in Procs, Open(p) PROVE IInv'
<1>1. st[p].pc = "open" /\ st[p].pc \in Working
  BY DEF Open, Working
<1>2. /\ Shape /\ Sound(p) /\ st \in [Procs -> Invocation] /\ st[p] \in Invocation
      /\ Input(p) \in Sources /\ Input(p) \in Named(p) /\ ~st[p].syntax
  BY <1>1, WorkingFacts DEF Sound, Proceeds
<1>3. CASE st[p].output = NULL /\ ~Source[Input(p)].place
  <2>1. Exits(p, 1) /\ Files
    BY <1>3 DEF Open
  <2>2. Input(p) \notin st[p].built
    BY <1>2, <1>3 DEF Sound, BuiltGood
  <2> QED
    BY <1>1, <1>2, <2>1, <2>2, ExitsIInv
<1>4. CASE st[p].output # NULL \/ Source[Input(p)].place
  <2>1. PICK s, f : s = Input(p) /\ f = OutFile(p, s)
    OBVIOUS
  <2>2. PICK x : x = [file |-> f, off |-> 0, buf |-> <<>>]
    OBVIOUS
  <2>3. /\ disk' = Opened(f)
        /\ st' = [st EXCEPT ![p].pc = "generate", ![p].streams = Append(@, x)]
        /\ last' = [g \in DOMAIN last \cup {f} |-> IF g = f THEN [p |-> p, s |-> s] ELSE last[g]]
        /\ shared' = IF Held(f) THEN shared \cup {f} ELSE shared \ {f}
    BY <1>4, <2>1, <2>2 DEF Open, OutFile, Held
  <2>4. f \in Paths /\ x \in Stream /\ x.file = f /\ x.off = 0 /\ x.buf = <<>>
    <3>1. f \in Paths
      BY <1>2, <2>1, CommandAssumption DEF OutFile, Invocation
    <3> QED
      BY <2>2, <3>1 DEF Stream
  <2>5. /\ DOMAIN disk' = DOMAIN disk \cup {f} /\ disk' \in [DOMAIN disk' -> Seq(Byte)]
        /\ disk'[f] = <<>> /\ \A g \in DOMAIN disk : g # f => disk'[g] = disk[g]
    <3>1. /\ DOMAIN disk' = DOMAIN disk \cup {f} /\ disk'[f] = <<>>
          /\ \A g \in DOMAIN disk : g # f => disk'[g] = disk[g]
          /\ disk' = [g \in DOMAIN disk' |-> disk'[g]]
      BY <2>3 DEF Opened
    <3>2. <<>> \in Seq(Byte) /\ \A g \in DOMAIN disk : disk[g] \in Seq(Byte)
      BY <1>2 DEF Shape
    <3>3. \A g \in DOMAIN disk' : disk'[g] \in Seq(Byte)
      BY <3>1, <3>2
    <3> QED
      BY <3>1, <3>3
  <2>6. /\ last' \in [DOMAIN disk' -> Opening] /\ last'[f].p = p /\ last'[f].s = s
        /\ \A g \in DOMAIN disk : g # f => last'[g] = last[g]
    <3>1. DOMAIN last = DOMAIN disk /\ \A g \in DOMAIN disk : last[g] \in Opening
      BY <1>2 DEF Shape
    <3>2. [p |-> p, s |-> s] \in Opening
      BY <1>2, <2>1 DEF Opening
    <3>3. /\ last'[f] = [p |-> p, s |-> s] /\ \A g \in DOMAIN disk : g # f => last'[g] = last[g]
          /\ last' = [g \in DOMAIN disk' |-> last'[g]]
      BY <2>3, <2>5, <3>1
    <3>4. \A g \in DOMAIN disk' : last'[g] \in Opening
      BY <2>5, <3>1, <3>2, <3>3
    <3> QED
      BY <3>3, <3>4
  <2>7. /\ shared' \subseteq shared \cup {f} /\ shared \ {f} \subseteq shared'
        /\ Held(f) => f \in shared'
    BY <2>3
  <2>8. /\ st' \in [Procs -> Invocation] /\ Others(p) /\ SameWork(p)
        /\ st'[p].pc = "generate" /\ st'[p].streams = Append(st[p].streams, x)
        /\ st'[p].status = st[p].status /\ st'[p].code = st[p].code
    <3> DEFINE ss == Append(st[p].streams, x)
               r == [st[p] EXCEPT !.pc = "generate", !.streams = ss]
    <3>1. st' = [st EXCEPT ![p] = r]
      BY <2>3
    <3>2. ss \in Seq(Stream)
      BY <1>2, <2>4 DEF Invocation
    <3> HIDE DEF ss
    <3>3. /\ r \in Invocation /\ r.pc = "generate" /\ r.status = st[p].status
          /\ r.line = st[p].line /\ r.inputs = st[p].inputs /\ r.syntax = st[p].syntax
          /\ r.output = st[p].output /\ r.i = st[p].i /\ r.built = st[p].built
          /\ r.streams = ss /\ r.code = st[p].code
      BY <1>2, <3>2 DEF Invocation, Working
    <3> HIDE DEF r
    <3>4. st' \in [Procs -> Invocation] /\ st'[p] = r /\ Others(p)
      BY <1>2, <3>1, <3>3 DEF Others
    <3> QED
      BY <3>3, <3>4 DEF SameWork, ss
  <2> QED
    <3>1. \A g \in DOMAIN disk : g # f => disk'[g] = disk[g] /\ last'[g] = last[g]
      BY <2>5, <2>6
    <3>2. st[p].output # NULL \/ Source[s].place
      BY <1>4, <2>1
    <3>3. Opens(p, s, f, x)
      BY <1>1, <2>1, <2>4, <2>5, <2>6, <2>7, <2>8, <3>1, <3>2 DEF Opens
    <3> QED
      BY <3>3, OpensIInv
<1> QED
  BY <1>3, <1>4

\* generate fails, or is about to write.
LEMMA GenerateIInv == ASSUME IInv, NEW p \in Procs, Generate(p) PROVE IInv'
<1>1. st[p].pc = "generate" /\ st[p].pc \in Working /\ Files
  BY DEF Generate, Working
<1>2. /\ Shape /\ Contents /\ Progress /\ Sound(p)
      /\ st \in [Procs -> Invocation] /\ st[p] \in Invocation
      /\ Input(p) \in Sources /\ Input(p) \in Named(p) /\ ~st[p].syntax
      /\ Source[Input(p)].generate \in {"ok", "exits", "crashes"}
  BY <1>1, WorkingFacts, SourceFacts DEF Sound, Proceeds
<1>3. CASE Source[Input(p)].generate = "ok"
  <2>1. st' = [st EXCEPT ![p].pc = "dump"] /\ "dump" \in Working
    BY <1>3 DEF Generate, Working
  <2>2. /\ st' \in [Procs -> Invocation] /\ Others(p) /\ SameWork(p) /\ st'[p].pc = "dump"
        /\ st'[p].streams = st[p].streams /\ st'[p].code = st[p].code /\ st'[p].status = st[p].status
    BY <1>2, <2>1, MovesFacts
  <2>3. Input(p)' = Input(p)
    BY <2>2 DEF Input, SameWork
  <2>4. Loops(p)'
    BY <1>1, <1>2, <1>3, <2>2, <2>3 DEF Sound, Loops, SameWork
  <2>5. Reads(p)'
    BY <1>1, <1>2, <2>2 DEF Sound, Reads
  <2>6. Sound(p)'
    BY <1>1, <1>2, <2>2, <2>4, <2>5, MovesSound DEF Sound, Working
  <2>7. Progress'
    BY <1>2, <2>2, <2>6, OthersSound
  <2>8. Contents'
    BY <1>1, <1>2, <2>2, <2>3, QuietContents DEF SameWork
  <2>9. Shape'
    BY <1>1, <1>2, <2>2 DEF Shape, Files
  <2> QED
    BY <2>7, <2>8, <2>9 DEF IInv
<1>4. CASE Source[Input(p)].generate = "exits"
  <2>1. Exits(p, 1)
    BY <1>4 DEF Generate
  <2>2. Input(p) \notin st[p].built
    BY <1>2, <1>4 DEF Sound, BuiltGood
  <2> QED
    BY <1>1, <1>2, <2>1, <2>2, ExitsIInv
<1>5. CASE Source[Input(p)].generate = "crashes"
  <2>1. Crashes(p)
    BY <1>5 DEF Generate
  <2> QED
    BY <1>1, <2>1, CrashesIInv
<1> QED
  BY <1>2, <1>3, <1>4, <1>5

-----------------------------------------------------------------------------
\* A file that is not shared has one stream, that of its last opener.
LEMMA OneStream ==
    ASSUME Owned, NEW p \in Procs, NEW k \in 1..Len(st[p].streams),
           NEW f, f = st[p].streams[k].file
    PROVE  /\ f \in DOMAIN disk
           /\ f \notin shared => last[f].p = p
           /\ f \notin shared =>
                \A q \in Procs : \A j \in 1..Len(st[q].streams) :
                  st[q].streams[j].file = f => q = p /\ j = k
<1>1. st[p].streams[k].file \notin shared =>
        \A q \in Procs : \A j \in 1..Len(st[q].streams) :
          st[q].streams[j].file = st[p].streams[k].file => q = p /\ j = k
  BY DEF Owned
<1> QED
  BY <1>1 DEF Owned

\* Two streams of such a file are the same.
LEMMA SameStream ==
    ASSUME Owned, NEW p \in Procs, NEW k \in 1..Len(st[p].streams),
           NEW q \in Procs, NEW j \in 1..Len(st[q].streams),
           st[q].streams[j].file = st[p].streams[k].file, st[p].streams[k].file \notin shared
    PROVE  q = p /\ j = k
BY OneStream

\* p's latest stream x becomes y, and its file's contents c.
Writes(p, x, y, c) ==
    /\ st[p].pc \in Working \ {"compile", "open"} /\ st'[p].pc \in Working \ {"compile", "open"}
    /\ st[p].streams # <<>> /\ x = Fp(p)
    /\ y \in Stream /\ y.file = x.file /\ c \in Seq(Byte)
    /\ st' \in [Procs -> Invocation] /\ Others(p) /\ SameWork(p) /\ Sound(p)'
    /\ Len(st'[p].streams) = Len(st[p].streams) /\ st'[p].streams[Len(st[p].streams)] = y
    /\ \A k \in 1..Len(st[p].streams) - 1 : st'[p].streams[k] = st[p].streams[k]
    /\ st'[p].code = NULL
    /\ disk' \in [DOMAIN disk -> Seq(Byte)] /\ disk'[x.file] = c
    /\ \A g \in DOMAIN disk : g # x.file => disk'[g] = disk[g]
    /\ UNCHANGED <<last, shared>>
    /\ x.file \notin shared => Agrees(y, c, last[x.file].s, last[x.file].s \in st[p].built)
    /\ st'[p].pc \in {"generate", "dump"} /\ x.file \notin shared => y.off = Len(c)
    /\ Tmp \notin shared => /\ st'[p].pc = "read" => st'[p].size = Source[Input(p)].size
                            /\ st'[p].pc # "execute"

\* A stream that moves on in its file is the only one there.
LEMMA WritesIInv ==
    ASSUME IInv, NEW p \in Procs, NEW x, NEW y, NEW c, Writes(p, x, y, c)
    PROVE  IInv'
<1> USE DEF Writes
<1>1. /\ Shape /\ Contents /\ Progress /\ Sound(p)
      /\ st \in [Procs -> Invocation] /\ st[p] \in Invocation
  BY DEF IInv, Shape, Progress
<1> DEFINE n == Len(st[p].streams)
<1>2. n \in 1..n /\ n \in Nat /\ x \in Stream /\ Held(x.file) /\ st[p].streams[n] = x
  BY <1>1, HoldsFp DEF Fp
<1>3. x.file \in DOMAIN disk
  BY <1>1, <1>2 DEF Contents, Owned
<1>4. \A q \in Procs : \A k :
        /\ k \in 1..Len(st'[q].streams) <=> k \in 1..Len(st[q].streams)
        /\ k \in 1..Len(st[q].streams) => st'[q].streams[k].file = st[q].streams[k].file
        /\ k \in 1..Len(st[q].streams) /\ (q # p \/ k # n) => st'[q].streams[k] = st[q].streams[k]
  <2>1. ASSUME NEW q \in Procs, NEW k, q # p
        PROVE  st'[q] = st[q]
    BY <2>1 DEF Others
  <2>2. \A k : k \in 1..n <=> k \in 1..n - 1 \/ k = n
    BY <1>2
  <2> QED
    BY <1>2, <2>1, <2>2
\* The file is another stream's only if it is shared.
<1>5. ASSUME x.file \notin shared, NEW q \in Procs, NEW k \in 1..Len(st[q].streams),
             st[q].streams[k].file = x.file
      PROVE  q = p /\ k = n
  <2>1. PICK f : f = x.file
    OBVIOUS
  <2>2. \A r \in Procs : \A j \in 1..Len(st[r].streams) : st[r].streams[j].file = f => r = p /\ j = n
    BY <1>1, <1>2, <1>5, <2>1, OneStream DEF Contents
  <2> QED
    BY <1>5, <2>1, <2>2
<1>6. Input(p)' = Input(p) /\ Fp(p)' = y
  BY DEF Input, Fp, SameWork
<1> HIDE DEF n
<1>7. Shape'
  BY <1>1 DEF Shape
<1>8. Progress'
  BY <1>1, OthersSound
<1>9. Owned'
  <2> SUFFICES ASSUME NEW q \in Procs, NEW k \in 1..Len(st'[q].streams)
               PROVE  LET f == st'[q].streams[k].file
                      IN /\ f \in DOMAIN disk
                         /\ f \notin shared =>
                              /\ last[f].p = q
                              /\ \A q2 \in Procs : \A j \in 1..Len(st'[q2].streams) :
                                   st'[q2].streams[j].file = f => q2 = q /\ j = k
    BY DEF Owned
  <2>1. k \in 1..Len(st[q].streams) /\ st'[q].streams[k].file = st[q].streams[k].file
    BY <1>4
  <2>2. PICK f : f = st[q].streams[k].file
    OBVIOUS
  <2>3. /\ f \in DOMAIN disk
        /\ f \notin shared =>
             /\ last[f].p = q
             /\ \A q2 \in Procs : \A j \in 1..Len(st[q2].streams) :
                  st[q2].streams[j].file = f => q2 = q /\ j = k
    BY <1>1, <2>1, <2>2, OneStream DEF Contents
  <2>4. ASSUME f \notin shared, NEW q2 \in Procs, NEW j \in 1..Len(st'[q2].streams),
               st'[q2].streams[j].file = f
        PROVE  q2 = q /\ j = k
    BY <1>4, <2>3, <2>4
  <2> QED
    BY <2>1, <2>2, <2>3, <2>4
<1>10. Written'
  <2> SUFFICES ASSUME NEW q \in Procs, NEW k \in 1..Len(st'[q].streams),
                      st'[q].streams[k].file \notin shared
               PROVE  LET z == st'[q].streams[k]
                          t == last[z.file].s
                      IN Agrees(z, disk'[z.file], t, t \in st'[q].built)
    BY DEF Written, Agrees, IsBeginning
  <2>1. st'[q].built = st[q].built
    BY DEF Others, SameWork
  <2>2. CASE q = p /\ k = n
    BY <2>1, <2>2 DEF n
  <2>3. CASE q # p \/ k # n
    <3>1. k \in 1..Len(st[q].streams) /\ st'[q].streams[k] = st[q].streams[k]
      BY <1>4, <2>3
    <3>2. st[q].streams[k].file \in DOMAIN disk /\ st[q].streams[k].file # x.file
      BY <1>1, <1>5, <2>3, <3>1 DEF Contents, Owned
    <3>3. disk'[st[q].streams[k].file] = disk[st[q].streams[k].file]
      BY <3>2
    <3> QED
      BY <1>1, <2>1, <3>1, <3>3 DEF Contents, Written
  <2> QED
    BY <2>2, <2>3
<1>11. Current'
  <2> SUFFICES ASSUME NEW q \in Procs, st'[q].pc \in Working \ {"compile", "open"}, st'[q].streams # <<>>
               PROVE  /\ Fp(q)'.file = OutFile(q, Input(q))'
                      /\ Fp(q)'.file \notin shared =>
                           /\ last[Fp(q)'.file].s = Input(q)'
                           /\ st'[q].pc \in {"generate", "dump"} => Fp(q)'.off = Len(disk'[Fp(q)'.file])
    BY DEF Current
  <2>1. CASE q # p
    <3>1. st'[q] = st[q]
      BY <2>1 DEF Others
    <3>2. Fp(q)' = Fp(q) /\ Input(q)' = Input(q) /\ OutFile(q, Input(q))' = OutFile(q, Input(q))
      BY <3>1 DEF Fp, Input, OutFile, Out
    <3>3. /\ Fp(q).file \in DOMAIN disk
          /\ Fp(q).file \notin shared => Fp(q).file # x.file
      <4>1. st[q].streams # <<>>
        BY <3>1
      <4>2. Len(st[q].streams) \in 1..Len(st[q].streams)
        BY <1>1, <4>1, HoldsFp
      <4> QED
        BY <1>1, <1>5, <2>1, <4>2 DEF Contents, Owned, Fp
    <3>4. Fp(q).file \notin shared => disk'[Fp(q).file] = disk[Fp(q).file]
      BY <3>3
    <3> QED
      BY <1>1, <3>1, <3>2, <3>4 DEF Contents, Current
  <2>2. CASE q = p
    <3>1. OutFile(p, Input(p))' = OutFile(p, Input(p))
      BY <1>6 DEF OutFile, Out, SameWork
    <3>2. x.file = OutFile(p, Input(p)) /\ (x.file \notin shared => last[x.file].s = Input(p))
      BY <1>1 DEF Contents, Current
    <3> QED
      BY <1>6, <2>2, <3>1, <3>2
  <2> QED
    BY <2>1, <2>2
<1>12. \A q \in Procs : \A g : Holds(q, g)' <=> Holds(q, g)
  BY <1>4 DEF Holds
<1>13. \A q \in Procs : /\ st'[q].pc # "exec" <=> st[q].pc # "exec"
                        /\ st'[q].pc \in Working <=> st[q].pc \in Working
                        /\ st'[q].output = st[q].output /\ st'[q].built = st[q].built
  <2> SUFFICES ASSUME NEW q \in Procs
               PROVE  /\ st'[q].pc # "exec" <=> st[q].pc # "exec"
                      /\ st'[q].pc \in Working <=> st[q].pc \in Working
                      /\ st'[q].output = st[q].output /\ st'[q].built = st[q].built
    OBVIOUS
  <2>1. CASE q = p
    BY <2>1 DEF SameWork, Working
  <2>2. CASE q # p
    BY <2>2 DEF Others
  <2> QED
    BY <2>1, <2>2
<1>14. Opener'
  <2>1. ASSUME NEW g \in DOMAIN disk
        PROVE  /\ st'[last[g].p].pc # "exec"
               /\ g = OutFile(last[g].p, last[g].s)'
               /\ st'[last[g].p].pc \in Working => Holds(last[g].p, g)'
    <3>1. PICK l : l = last[g]
      OBVIOUS
    <3>2. l.p \in Procs
      BY <1>1, <3>1 DEF Shape, Opening
    <3>3. OutFile(l.p, l.s)' = OutFile(l.p, l.s)
      BY <1>13, <3>2 DEF OutFile, Out
    <3>4. Holds(l.p, g)' <=> Holds(l.p, g)
      BY <1>12, <3>2
    <3>5. /\ st[l.p].pc # "exec" /\ g = OutFile(l.p, l.s)
          /\ st[l.p].pc \in Working => Holds(l.p, g)
      BY <1>1, <3>1 DEF Contents, Opener
    <3>6. last'[g] = l
      BY <3>1
    <3>7. /\ st'[l.p].pc # "exec" /\ g = OutFile(l.p, l.s)'
          /\ st'[l.p].pc \in Working => Holds(l.p, g)'
      BY <1>13, <3>2, <3>3, <3>4, <3>5
    <3> QED
      BY <3>1, <3>6, <3>7 DEF OutFile, Out, Holds
  <2>2. ASSUME NEW q \in Procs, st'[q].pc \in Working, NEW t \in st'[q].built
        PROVE  Holds(q, OutFile(q, t))'
    <3>1. PICK o : o = OutFile(q, t)
      OBVIOUS
    <3>2. OutFile(q, t)' = o
      BY <1>13, <3>1 DEF OutFile, Out
    <3>3. Holds(q, o)
      BY <1>1, <1>13, <2>2, <3>1 DEF Contents, Opener
    <3>4. Holds(q, o)'
      BY <1>12, <3>3
    <3> QED
      BY <3>2, <3>4 DEF Holds
  <2> QED
    BY <2>1, <2>2 DEF Opener
<1>15. Closed'
  <2> SUFFICES ASSUME NEW g \in DOMAIN disk, ~Held(g)', g \notin shared,
                      last[g].s \in st'[last[g].p].built,
                      st'[last[g].p].pc \in {"exiting", "exited"} \/ st'[last[g].p].code # NULL
               PROVE  disk'[g] = Build(last[g].s)
    BY DEF Closed
  <2>1. ~Held(g)
    <3>1. Held(g) <=> \E q \in Procs : Holds(q, g)
      BY DEF Held, Holds
    <3>2. Held(g)' <=> \E q \in Procs : Holds(q, g)'
      BY DEF Held, Holds
    <3> QED
      BY <1>12, <3>1, <3>2
  <2>2. g # x.file /\ disk'[g] = disk[g]
    BY <1>2, <2>1
  <2>3. last[g].p \in Procs
    BY <1>1 DEF Shape, Opening
  <2>4. last[g].p # p
    BY DEF Working
  <2>5. st'[last[g].p] = st[last[g].p]
    BY <2>3, <2>4 DEF Others
  <2> QED
    BY <1>1, <2>1, <2>2, <2>5 DEF Contents, Closed
<1>16. Reading'
  <2> SUFFICES ASSUME NEW q \in Procs, Tmp \notin shared
               PROVE  /\ st'[q].pc = "read" => st'[q].size = Source[Input(q)'].size
                      /\ st'[q].pc = "execute" => st'[q].code = Build(Input(q)')
    BY DEF Reading, Build
  <2>1. CASE q = p
    BY <1>6, <2>1
  <2>2. CASE q # p
    <3>1. st'[q] = st[q] /\ Input(q)' = Input(q)
      BY <2>2 DEF Others, Input
    <3> QED
      BY <1>1, <3>1 DEF Contents, Reading
  <2> QED
    BY <2>1, <2>2
<1> QED
  BY <1>7, <1>8, <1>9, <1>10, <1>11, <1>14, <1>15, <1>16 DEF IInv, Contents

\* The next byte makes a longer beginning.
LEMMA BeginningGrows ==
    ASSUME NEW c \in Seq(Byte), NEW b \in Seq(Byte), NEW s \in Sources, IsBeginning(c, b, s),
           Len(c) + Len(b) + 1 <= Source[s].size
    PROVE  IsBeginning(c, Append(b, <<s, Len(c) + Len(b) + 1>>), s)
<1> DEFINE e == <<s, Len(c) + Len(b) + 1>>
           d == Append(b, e)
<1>1. Len(c) \in Nat /\ Len(b) \in Nat /\ Len(d) = Len(b) + 1
  OBVIOUS
<1>2. d[Len(b) + 1] = e /\ \A j \in 1..Len(b) : d[j] = b[j]
  OBVIOUS
<1> HIDE DEF d
<1>3. ASSUME NEW j \in 1..Len(d) PROVE d[j] = <<s, Len(c) + j>>
  <2>1. CASE j = Len(b) + 1
    <3>1. Len(c) + j = Len(c) + Len(b) + 1
      BY <1>1, <2>1
    <3> QED
      BY <1>2, <2>1, <3>1
  <2>2. CASE j # Len(b) + 1
    <3>1. j \in 1..Len(b)
      BY <1>1, <2>2
    <3> QED
      BY <1>2, <3>1 DEF IsBeginning
  <2> QED
    BY <2>1, <2>2
<1>4. Len(c) + Len(d) <= Source[s].size
  BY <1>1
<1> QED
  BY <1>3, <1>4 DEF IsBeginning, d

\* The next byte goes behind what is there already.
LEMMA DumpIInv == ASSUME IInv, NEW p \in Procs, Dump(p) PROVE IInv'
<1>1. st[p].pc = "dump" /\ st[p].pc \in Working
  BY DEF Dump, Working
<1>2. /\ Shape /\ Contents /\ Progress /\ Sound(p)
      /\ st \in [Procs -> Invocation] /\ st[p] \in Invocation
      /\ Input(p) \in Sources /\ st[p].i \in Nat \ {0} /\ st[p].streams \in Seq(Stream)
  BY <1>1, WorkingFacts DEF Invocation
<1>3. Len(st[p].streams) = st[p].i /\ st[p].code = NULL
  BY <1>1, <1>2 DEF Sound, Loops, Reads
<1>4. st[p].streams # <<>>
  BY <1>2, <1>3
<1>5. PICK x : x = Fp(p)
  OBVIOUS
<1> DEFINE n == Len(st[p].streams)
           s == Input(p)
<1>6. /\ n \in 1..n /\ x \in Stream /\ st[p].streams[n] = x /\ x.file \in DOMAIN disk
      /\ x.off \in Nat /\ x.buf \in Seq(Byte) /\ Len(x.buf) \in Nat
      /\ disk[x.file] \in Seq(Byte) /\ Buf \in Nat \ {0}
  <2>1. n \in 1..n /\ x \in Stream /\ st[p].streams[n] = x
    BY <1>2, <1>4, <1>5, HoldsFp DEF Fp
  <2>2. x.file \in DOMAIN disk
    BY <1>2, <2>1 DEF Contents, Owned
  <2> QED
    BY <1>2, <2>1, <2>2, CommandAssumption DEF Shape, Stream
<1> DEFINE next == x.off + Len(x.buf) + 1
           full == Len(x.buf) = Buf
           b == IF full THEN <<>> ELSE x.buf
           off == IF full THEN x.off + Buf ELSE x.off
           e == <<s, next>>
           c == IF full THEN WriteAt(disk[x.file], x.off, x.buf) ELSE disk[x.file]
<1>7. /\ next <= Source[s].size /\ next \in Nat \ {0}
      /\ disk' = IF full THEN Flushed(x) ELSE disk
      /\ st' = [st EXCEPT ![p].streams[n] =
                  [x EXCEPT !.off = IF full THEN @ + Buf ELSE @,
                            !.buf = Append(IF full THEN <<>> ELSE @, Build(s)[next])]]
      /\ UNCHANGED <<last, shared>>
  BY <1>5, <1>6 DEF Dump
<1>8. Build(s)[next] = e /\ e \in Byte
  BY <1>2, <1>7, SourceFacts DEF Build, Byte
<1>9. c \in Seq(Byte) /\ b \in Seq(Byte) /\ off \in Nat
  BY <1>6, WriteAtType
<1>10. PICK y : y = [x EXCEPT !.off = off, !.buf = Append(b, e)]
  OBVIOUS
<1>11. y \in Stream /\ y.file = x.file /\ y.off = off /\ y.buf = Append(b, e)
  <2>1. Append(b, e) \in Seq(Byte)
    BY <1>8, <1>9
  <2> HIDE DEF b, e, off
  <2> QED
    BY <1>6, <1>9, <1>10, <2>1 DEF Stream
<1>12. /\ st' \in [Procs -> Invocation] /\ Others(p) /\ SameWork(p)
       /\ st'[p].pc = "dump" /\ st'[p].code = NULL /\ st'[p].status = st[p].status
       /\ st'[p].streams = [st[p].streams EXCEPT ![n] = y]
  <2> DEFINE ss == [st[p].streams EXCEPT ![n] = y]
             r == [st[p] EXCEPT !.streams = ss]
  <2>1. st' = [st EXCEPT ![p] = r]
    <3>1. y = [x EXCEPT !.off = IF full THEN @ + Buf ELSE @,
                        !.buf = Append(IF full THEN <<>> ELSE @, Build(s)[next])]
      BY <1>8, <1>10
    <3> QED
      BY <1>7, <3>1
  <2>2. ss \in Seq(Stream)
    BY <1>2, <1>6, <1>11
  <2> HIDE DEF ss
  <2>3. /\ r \in Invocation /\ r.pc = "dump" /\ r.status = st[p].status
        /\ r.line = st[p].line /\ r.inputs = st[p].inputs /\ r.syntax = st[p].syntax
        /\ r.output = st[p].output /\ r.i = st[p].i /\ r.built = st[p].built
        /\ r.streams = ss /\ r.code = NULL
    BY <1>1, <1>2, <1>3, <2>2 DEF Invocation
  <2> HIDE DEF r
  <2>4. st' \in [Procs -> Invocation] /\ st'[p] = r /\ Others(p)
    BY <1>2, <2>1, <2>3 DEF Others
  <2> QED
    BY <2>3, <2>4 DEF SameWork, ss
<1>13. /\ Len(st'[p].streams) = n /\ st'[p].streams[n] = y
       /\ \A k \in 1..n - 1 : st'[p].streams[k] = st[p].streams[k]
  BY <1>2, <1>6, <1>12
<1>14. /\ disk' \in [DOMAIN disk -> Seq(Byte)] /\ disk'[x.file] = c
       /\ \A g \in DOMAIN disk : g # x.file => disk'[g] = disk[g]
  <2>1. CASE full
    <3>1. disk' = [disk EXCEPT ![x.file] = c]
      BY <1>7, <2>1 DEF Flushed
    <3> HIDE DEF c
    <3> QED
      BY <1>2, <1>6, <1>9, <3>1 DEF Shape
  <2>2. CASE ~full
    BY <1>2, <1>6, <1>7, <2>2 DEF Shape
  <2> QED
    BY <2>1, <2>2
<1>15. ASSUME x.file \notin shared
       PROVE  /\ last[x.file].s = s /\ s \notin st[p].built
              /\ Agrees(y, c, s, FALSE) /\ y.off = Len(c)
  <2>1. last[x.file].s = s /\ x.off = Len(disk[x.file])
    BY <1>1, <1>2, <1>4, <1>5, <1>15 DEF Contents, Current, Working
  <2>2. Agrees(x, disk[x.file], s, s \in st[p].built)
    BY <1>2, <1>6, <1>15, <2>1 DEF Contents, Written
  <2>3. s \notin st[p].built
    <3>1. s \in st[p].built => Len(disk[x.file]) + Len(x.buf) = Source[s].size
      BY <2>2 DEF Agrees
    <3>2. Source[s].size \in Nat
      BY <1>2, SourceFacts
    <3>3. Len(disk[x.file]) + Len(x.buf) + 1 <= Source[s].size
      BY <1>7, <2>1
    <3>4. Len(disk[x.file]) \in Nat /\ Len(x.buf) \in Nat
      BY <1>6
    <3>5. \A i, j, m \in Nat : i + j + 1 <= m => i + j # m
      OBVIOUS
    <3> QED
      BY <3>1, <3>2, <3>3, <3>4, <3>5, Zenon
  <2>4. IsBeginning(c, b, s) /\ Len(c) = off /\ Len(c) + Len(b) + 1 = next
    <3>1. CASE full
      <4>1. Agrees(x, disk[x.file], s, FALSE)
        BY <2>2 DEF Agrees
      <4>2. IsBeginning(c, <<>>, s) /\ Len(c) = Len(disk[x.file]) + Len(x.buf)
        BY <1>2, <1>6, <3>1, <4>1, FlushedBeginning
      <4> QED
        BY <1>6, <2>1, <3>1, <4>2
    <3>2. CASE ~full
      <4>1. IsBeginning(disk[x.file], x.buf, s)
        BY <2>2 DEF Agrees
      <4> QED
        BY <1>6, <2>1, <3>2, <4>1
    <3> QED
      BY <3>1, <3>2
  <2> HIDE DEF b, c, next, off
  <2>5. IsBeginning(c, Append(b, e), s)
    BY <1>2, <1>7, <1>9, <2>4, BeginningGrows
  <2>6. Agrees(y, c, s, FALSE) /\ y.off = Len(c)
    BY <1>11, <2>4, <2>5 DEF Agrees
  <2> QED
    BY <2>1, <2>3, <2>6
<1>16. Sound(p)'
  <2>1. Input(p)' = s /\ ~st[p].syntax
    BY <1>1, <1>2, <1>12 DEF Input, SameWork, Sound, Proceeds
  <2>2. Loops(p)'
    BY <1>1, <1>2, <1>12, <1>13, <2>1 DEF Sound, Loops, SameWork
  <2>3. Reads(p)'
    BY <1>12 DEF Reads
  <2> QED
    BY <1>1, <1>2, <1>12, <2>1, <2>2, <2>3, MovesSound DEF Sound, Working
<1>17. x.file \notin shared => Agrees(y, c, last[x.file].s, last[x.file].s \in st[p].built)
  BY <1>15 DEF Agrees
<1> HIDE DEF c
<1>18. Writes(p, x, y, c)
  BY <1>1, <1>4, <1>5, <1>7, <1>9, <1>11, <1>12, <1>13, <1>14, <1>15, <1>16, <1>17 DEF Writes, Working
<1> QED
  BY <1>18, WritesIInv

\* An input that is done has been built; the last one ends the loop.
LEMMA NextInputIInv == ASSUME IInv, NEW p \in Procs, NextInput(p) PROVE IInv'
<1>1. st[p].pc = "dump" /\ st[p].pc \in Working
  BY DEF NextInput, Working
<1>2. /\ Shape /\ Contents /\ Progress /\ Sound(p)
      /\ st \in [Procs -> Invocation] /\ st[p] \in Invocation
      /\ st[p].i \in 1..Len(st[p].inputs) /\ Len(st[p].inputs) \in Nat
      /\ Input(p) \in Sources /\ st[p].line.cmd \in {"build", "run"}
      /\ st[p].line.cmd = "run" => st[p].output = Tmp /\ st[p].i = 1 /\ Len(st[p].inputs) = 1
      /\ st[p].streams \in Seq(Stream) /\ st[p].built \in SUBSET Sources
      /\ st[p].status = 0 /\ ~st[p].syntax
  BY <1>1, WorkingFacts DEF Invocation, Sound, Proceeds
<1>3. PICK x, s : x = Fp(p) /\ s = Input(p)
  OBVIOUS
<1> DEFINE n == Len(st[p].streams)
<1>4. /\ n = st[p].i /\ st[p].code = NULL /\ st[p].built = {st[p].inputs[k] : k \in 1..st[p].i - 1}
      /\ Source[s].parse = "ok" /\ Source[s].generate = "ok"
      /\ st[p].output # NULL \/ Source[s].place
  BY <1>1, <1>2, <1>3 DEF Sound, Loops, Reads
<1>5. st[p].streams # <<>> /\ n \in 1..n /\ x \in Stream /\ st[p].streams[n] = x /\ Holds(p, x.file)
  <2>1. st[p].streams # <<>>
    BY <1>2, <1>4
  <2> QED
    BY <1>2, <1>3, <2>1, HoldsFp DEF Fp
<1>6. x.file = OutFile(p, s) /\ (x.file \notin shared => x.off = Len(disk[x.file]))
  BY <1>1, <1>2, <1>3, <1>5 DEF Contents, Current, Working
<1>7. x.off + Len(x.buf) = Source[s].size
  BY <1>3 DEF NextInput
<1>8. disk' = disk /\ last' = last /\ shared' = shared
  BY DEF NextInput, Files
<1> DEFINE built == st[p].built \cup {s}
<1>9. PICK r : /\ st' = [st EXCEPT ![p] = r] /\ r \in Invocation
               /\ r.line = st[p].line /\ r.inputs = st[p].inputs /\ r.syntax = st[p].syntax
               /\ r.output = st[p].output /\ r.streams = st[p].streams /\ r.built = built
               /\ r.code = NULL /\ r.status = 0
               /\ IF st[p].i < Len(st[p].inputs) THEN r.pc = "compile" /\ r.i = st[p].i + 1
                  ELSE /\ r.i = st[p].i
                       /\ r.pc = IF st[p].line.cmd = "build" THEN "exiting" ELSE "seek"
  <2> DEFINE i == IF st[p].i < Len(st[p].inputs) THEN st[p].i + 1 ELSE st[p].i
             pc == IF st[p].i < Len(st[p].inputs) THEN "compile"
                   ELSE IF st[p].line.cmd = "build" THEN "exiting" ELSE "seek"
             r == [st[p] EXCEPT !.built = built, !.i = i, !.pc = pc]
  <2>1. built \in SUBSET Sources
    BY <1>2, <1>3
  <2>2. i \in Nat \ {0}
    BY <1>2
  <2> HIDE DEF built
  <2>3. st' = [st EXCEPT ![p] = r]
    <3>1. CASE st[p].i < Len(st[p].inputs)
      <4>1. PICK u : u = [st[p] EXCEPT !.built = built]
        OBVIOUS
      <4>2. PICK d : d = [st EXCEPT ![p] = u]
        OBVIOUS
      <4>3. u.i = st[p].i
        BY <1>2, <4>1 DEF Invocation
      <4>4. r = [u EXCEPT !.i = u.i + 1, !.pc = "compile"]
        BY <3>1, <4>1, <4>3
      <4>5. d[p] = u
        BY <1>2, <4>2
      <4>6. st' = [d EXCEPT ![p].i = @ + 1, ![p].pc = "compile"]
        BY <1>3, <3>1, <4>1, <4>2 DEF NextInput, built
      <4> HIDE DEF r
      <4>7. st' = [d EXCEPT ![p] = [u EXCEPT !.i = u.i + 1, !.pc = "compile"]]
        <5>1. st' = [d EXCEPT ![p] = [d[p] EXCEPT !.i = d[p].i + 1, !.pc = "compile"]]
          BY <1>2, <4>2, <4>6
        <5> QED
          BY <4>5, <5>1
      <4> QED
        BY <1>2, <4>2, <4>4, <4>7
    <3>2. CASE ~(st[p].i < Len(st[p].inputs))
      <4>1. st' = [st EXCEPT ![p].built = built, ![p].pc = pc]
        BY <1>3, <3>2 DEF NextInput, built
      <4>2. r = [st[p] EXCEPT !.built = built, !.pc = pc]
        BY <1>2, <3>2 DEF Invocation
      <4> HIDE DEF r, pc
      <4> QED
        BY <1>2, <4>1, <4>2
    <3> QED
      BY <3>1, <3>2
  <2>4. /\ r \in Invocation /\ r.i = i /\ r.pc = pc
        /\ r.line = st[p].line /\ r.inputs = st[p].inputs /\ r.syntax = st[p].syntax
        /\ r.output = st[p].output /\ r.streams = st[p].streams /\ r.built = built
        /\ r.code = NULL /\ r.status = 0
    <3>1. pc \in {"compile", "exiting", "seek"}
      OBVIOUS
    <3> HIDE DEF i, pc
    <3> QED
      BY <1>2, <1>4, <2>1, <2>2, <3>1 DEF Invocation, Working
  <2> HIDE DEF r
  <2> QED
    BY <2>3, <2>4
<1>10. st' \in [Procs -> Invocation] /\ st'[p] = r /\ Others(p)
  BY <1>2, <1>9 DEF Others
<1>11. built = {st[p].inputs[k] : k \in 1..st[p].i}
  <2>1. 1..st[p].i = 1..st[p].i - 1 \cup {st[p].i}
    BY <1>2
  <2>2. s = st[p].inputs[st[p].i]
    BY <1>3 DEF Input
  <2> QED
    BY <1>4, <2>1, <2>2
<1> HIDE DEF built, n
<1>12. Sound(p)'
  <2>1. BuiltGood(p)'
    BY <1>2, <1>4, <1>9, <1>10 DEF BuiltGood, Sound, built
  <2>2. CASE st[p].i < Len(st[p].inputs)
    <3>1. r.pc = "compile" /\ r.i = st[p].i + 1 /\ r.i - 1 = st[p].i /\ r.i <= Len(r.inputs)
      BY <1>2, <1>9, <2>2
    <3>2. Begins(p)' /\ Reads(p)' /\ Tells(p)'
      BY <1>9, <1>10, <3>1 DEF Begins, Reads, Tells
    <3>3. Proceeds(p)'
      BY <1>1, <1>2, <1>9, <1>10, <3>1 DEF Sound, Proceeds
    <3>4. Loops(p)'
      <4>1. Len(r.streams) = r.i - 1 /\ r.built = {r.inputs[k] : k \in 1..r.i - 1}
        BY <1>4, <1>9, <1>11, <3>1 DEF n
      <4> QED
        BY <1>10, <3>1, <4>1 DEF Loops
    <3> QED
      BY <2>1, <3>2, <3>3, <3>4 DEF Sound
  <2>3. CASE ~(st[p].i < Len(st[p].inputs)) /\ st[p].line.cmd = "build"
    <3>1. r.pc = "exiting" /\ st[p].i = Len(st[p].inputs)
      BY <1>2, <1>9, <2>3
    <3>2. Begins(p)' /\ Reads(p)' /\ Proceeds(p)' /\ Loops(p)'
      BY <1>9, <1>10, <3>1 DEF Begins, Reads, Proceeds, Loops, Working
    <3>3. Named(p) \subseteq built /\ Named(p)' = Named(p)
      <4>1. st[p].inputs = Parsed(st[p].line.args).inputs
        BY <1>1, <1>2 DEF Sound, Proceeds
      <4>2. Named(p) = {st[p].inputs[k] : k \in 1..Len(st[p].inputs)}
        BY <1>2, <4>1, NamedFacts DEF Elements
      <4>3. Named(p)' = Named(p)
        BY <1>9, <1>10 DEF Named
      <4> QED
        BY <1>11, <3>1, <4>2, <4>3
    <3>4. Tells(p)'
      BY <1>2, <1>9, <1>10, <2>3, <3>3 DEF Tells
    <3> QED
      BY <2>1, <3>2, <3>3, <3>4 DEF Sound
  <2>4. CASE ~(st[p].i < Len(st[p].inputs)) /\ st[p].line.cmd = "run"
    <3>1. r.pc = "seek" /\ r.i = 1 /\ Len(r.streams) = 1 /\ Len(r.inputs) = 1
      BY <1>2, <1>4, <1>9, <2>4 DEF n
    <3>2. Begins(p)' /\ Tells(p)' /\ Loops(p)'
      BY <1>9, <1>10, <3>1 DEF Begins, Tells, Loops
    <3>3. Proceeds(p)'
      BY <1>1, <1>2, <1>9, <1>10, <2>4, <3>1 DEF Sound, Proceeds
    <3>4. Input(p)' = s /\ s \in r.built
      BY <1>2, <1>3, <1>9, <1>10, <2>4 DEF Input, built
    <3>5. Reads(p)'
      <4>1. /\ st'[p].pc = "seek" /\ st'[p].line.cmd = "run" /\ st'[p].code = NULL
            /\ Len(st'[p].streams) <= 1 /\ Input(p)' \in st'[p].built
        <5>1. st'[p] = r
          BY <1>10
        <5>2. r.line.cmd = "run" /\ r.code = NULL /\ r.pc = "seek" /\ Len(r.streams) <= 1
          BY <1>9, <2>4, <3>1
        <5> QED
          BY <3>4, <5>1, <5>2, Zenon
      <4> QED
        BY <4>1 DEF Reads
    <3> QED
      BY <2>1, <3>2, <3>3, <3>5 DEF Sound
  <2> QED
    BY <1>2, <2>2, <2>3, <2>4
<1>13. Progress'
  BY <1>2, <1>10, <1>12, OthersSound
<1>14. Shape'
  BY <1>2, <1>8, <1>10 DEF Shape
<1>15. \A q \in Procs : st'[q].streams = st[q].streams /\ st'[q].output = st[q].output
  BY <1>9, <1>10 DEF Others
<1>16. \A q \in Procs : \A f : Holds(q, f)' <=> Holds(q, f)
  BY <1>15 DEF Holds
<1>17. Owned'
  BY <1>2, <1>8, <1>15 DEF Contents, Owned
<1>18. Written'
  <2> SUFFICES ASSUME NEW q \in Procs, NEW k \in 1..Len(st'[q].streams),
                      st'[q].streams[k].file \notin shared
               PROVE  LET z == st'[q].streams[k]
                          t == last[z.file].s
                      IN Agrees(z, disk[z.file], t, t \in st'[q].built)
    BY <1>8 DEF Written, Agrees, IsBeginning
  <2>1. PICK z, t : z = st[q].streams[k] /\ t = last[z.file].s
    OBVIOUS
  <2>2. st'[q].streams[k] = z /\ k \in 1..Len(st[q].streams) /\ z.file \notin shared
    BY <1>15, <2>1
  <2>3. Agrees(z, disk[z.file], t, t \in st[q].built)
    BY <1>2, <2>1, <2>2 DEF Contents, Written
  <2>4. CASE t \in st'[q].built <=> t \in st[q].built
    BY <2>1, <2>2, <2>3, <2>4 DEF Agrees
  <2>5. CASE ~(t \in st'[q].built <=> t \in st[q].built)
    <3>1. q = p /\ t = s
      BY <1>9, <1>10, <2>5 DEF Others, built
    <3>2. z.file \in DOMAIN disk /\ last[z.file].p = p
      BY <1>2, <2>1, <2>2, <3>1, OneStream DEF Contents
    <3>3. z.file = OutFile(p, s)
      BY <1>2, <2>1, <3>1, <3>2 DEF Contents, Opener
    <3>4. k = n
      <4>1. k \in 1..Len(st[p].streams) /\ st[p].streams[k].file = st[p].streams[n].file
        BY <1>5, <1>6, <2>1, <2>2, <3>1, <3>3
      <4>2. st[p].streams[n].file \notin shared
        BY <2>1, <2>2, <3>1, <4>1
      <4> QED
        BY <1>2, <1>5, <4>1, <4>2, SameStream DEF Contents, n
    <3>5. z = x
      BY <1>5, <2>1, <3>1, <3>4
    <3>6. Len(disk[z.file]) + Len(z.buf) = Source[t].size
      BY <1>6, <1>7, <2>2, <3>1, <3>5
    <3> QED
      BY <2>1, <2>2, <2>3, <3>6 DEF Agrees
  <2> QED
    BY <2>4, <2>5
<1>19. Current'
  <2> SUFFICES ASSUME NEW q \in Procs, st'[q].pc \in Working \ {"compile", "open"}, st'[q].streams # <<>>
               PROVE  /\ Fp(q)'.file = OutFile(q, Input(q))'
                      /\ Fp(q)'.file \notin shared =>
                           /\ last[Fp(q)'.file].s = Input(q)'
                           /\ st'[q].pc \in {"generate", "dump"} => Fp(q)'.off = Len(disk[Fp(q)'.file])
    BY <1>8 DEF Current
  <2>1. st[q].pc \in Working \ {"compile", "open"} /\ Input(q)' = Input(q) /\ st[q].streams # <<>>
        /\ (st'[q].pc \in {"generate", "dump"} => st[q].pc \in {"generate", "dump"})
    <3>1. CASE q = p
      <4>1. r.pc \in Working \ {"compile", "open"}
        BY <1>10, <3>1
      <4>2. r.i = st[p].i /\ r.pc = "seek"
        BY <1>9, <4>1 DEF Working
      <4> QED
        BY <1>1, <1>9, <1>10, <1>5, <3>1, <4>2 DEF Input, Working
    <3>2. CASE q # p
      BY <1>10, <3>2 DEF Others, Input
    <3> QED
      BY <3>1, <3>2
  <2>2. Fp(q)' = Fp(q) /\ OutFile(q, Input(q))' = OutFile(q, Input(q))
    BY <1>15, <2>1 DEF Fp, OutFile, Out
  <2> QED
    BY <1>2, <2>1, <2>2 DEF Contents, Current
<1>20. Opener'
  <2>1. ASSUME NEW g \in DOMAIN disk
        PROVE  /\ st'[last[g].p].pc # "exec"
               /\ g = OutFile(last[g].p, last[g].s)'
               /\ st'[last[g].p].pc \in Working => Holds(last[g].p, g)'
    <3>1. PICK l : l = last[g]
      OBVIOUS
    <3>2. l.p \in Procs
      BY <1>2, <3>1 DEF Shape, Opening
    <3>3. OutFile(l.p, l.s)' = OutFile(l.p, l.s) /\ (Holds(l.p, g)' <=> Holds(l.p, g))
      BY <1>15, <1>16, <3>2 DEF OutFile, Out
    <3>4. /\ st[l.p].pc # "exec" /\ g = OutFile(l.p, l.s)
          /\ st[l.p].pc \in Working => Holds(l.p, g)
      BY <1>2, <3>1 DEF Contents, Opener
    <3>5. st'[l.p].pc # "exec" /\ (st'[l.p].pc \in Working => st[l.p].pc \in Working)
      BY <1>1, <1>9, <1>10, <3>2, <3>4 DEF Others
    <3>6. last'[g] = l
      BY <1>8, <3>1
    <3>7. /\ st'[l.p].pc # "exec" /\ g = OutFile(l.p, l.s)'
          /\ st'[l.p].pc \in Working => Holds(l.p, g)'
      BY <3>3, <3>4, <3>5
    <3> QED
      BY <3>1, <3>6, <3>7 DEF OutFile, Out, Holds
  <2>2. ASSUME NEW q \in Procs, st'[q].pc \in Working, NEW t \in st'[q].built
        PROVE  Holds(q, OutFile(q, t))'
    <3>1. PICK o : o = OutFile(q, t)
      OBVIOUS
    <3>2. OutFile(q, t)' = o
      BY <1>15, <3>1 DEF OutFile, Out
    <3>3. Holds(q, o)
      <4>1. CASE q = p /\ t = s
        BY <1>5, <1>6, <3>1, <4>1
      <4>2. CASE ~(q = p /\ t = s)
        <5>1. t \in st[q].built /\ st[q].pc \in Working
          BY <1>1, <1>9, <1>10, <2>2, <4>2 DEF Others, built
        <5> QED
          BY <1>2, <3>1, <5>1 DEF Contents, Opener
      <4> QED
        BY <4>1, <4>2
    <3>4. Holds(q, o)'
      BY <1>16, <3>3
    <3> QED
      BY <3>2, <3>4 DEF Holds
  <2> QED
    BY <1>8, <2>1, <2>2 DEF Opener
<1>21. Closed'
  <2> SUFFICES ASSUME NEW g \in DOMAIN disk, ~Held(g)', g \notin shared,
                      last[g].s \in st'[last[g].p].built,
                      st'[last[g].p].pc \in {"exiting", "exited"} \/ st'[last[g].p].code # NULL
               PROVE  disk[g] = Build(last[g].s)
    BY <1>8 DEF Closed
  <2>1. ~Held(g)
    <3>1. Held(g) <=> \E q \in Procs : Holds(q, g)
      BY DEF Held, Holds
    <3>2. Held(g)' <=> \E q \in Procs : Holds(q, g)'
      BY DEF Held, Holds
    <3> QED
      BY <1>16, <3>1, <3>2
  <2>2. last[g].p \in Procs
    BY <1>2 DEF Shape, Opening
  <2>3. last[g].p # p
    <3>1. st[last[g].p].pc \in Working => Holds(last[g].p, g)
      BY <1>2 DEF Contents, Opener
    <3> QED
      BY <1>1, <2>1, <2>2, <3>1 DEF Held, Holds
  <2>4. st'[last[g].p] = st[last[g].p]
    BY <1>10, <2>2, <2>3 DEF Others
  <2> QED
    BY <1>2, <2>1, <2>4 DEF Contents, Closed
<1>22. Reading'
  <2> SUFFICES ASSUME NEW q \in Procs, Tmp \notin shared
               PROVE  /\ st'[q].pc = "read" => st'[q].size = Source[Input(q)'].size
                      /\ st'[q].pc = "execute" => st'[q].code = Build(Input(q)')
    BY <1>8 DEF Reading, Build
  <2>1. CASE q = p
    BY <1>9, <1>10, <2>1
  <2>2. CASE q # p
    <3>1. st'[q] = st[q] /\ Input(q)' = Input(q)
      BY <1>10, <2>2 DEF Others, Input
    <3> QED
      BY <1>2, <3>1 DEF Contents, Reading
  <2> QED
    BY <2>1, <2>2
<1> QED
  BY <1>13, <1>14, <1>17, <1>18, <1>19, <1>20, <1>21, <1>22 DEF IInv, Contents

\* A run, at its end or back in command_run.
LEMMA RunFacts ==
    ASSUME IInv, NEW p \in Procs, st[p].pc \in {"seek", "read", "execute"}, st[p].streams # <<>>
    PROVE  /\ st[p].pc \in Working \ {"compile", "open"} /\ st[p].pc \in Working
           /\ st[p].line.cmd = "run" /\ ~st[p].syntax /\ Len(st[p].streams) = 1
           /\ Input(p) \in Sources /\ Input(p) \in st[p].built
           /\ Named(p) \subseteq st[p].built
           /\ Fp(p) \in Stream /\ Fp(p).file = Tmp /\ Tmp \in DOMAIN disk
           /\ disk[Tmp] \in Seq(Byte) /\ st[p].streams[1] = Fp(p)
           /\ Tmp \notin shared => Agrees(Fp(p), disk[Tmp], Input(p), TRUE)
<1>1. st[p].pc \in Working \ {"compile", "open"} /\ st[p].pc \in Working
  BY DEF Working
<1>2. /\ Shape /\ Contents /\ Progress /\ Sound(p) /\ st[p].streams \in Seq(Stream)
      /\ Input(p) \in Sources
      /\ st[p].line.cmd = "run" => st[p].output = Tmp /\ Named(p) = {Input(p)}
  BY <1>1, WorkingFacts DEF Invocation
<1>3. /\ st[p].line.cmd = "run" /\ Len(st[p].streams) <= 1 /\ Input(p) \in st[p].built
      /\ ~st[p].syntax
  BY <1>1, <1>2 DEF Sound, Reads, Proceeds
<1>4. /\ Len(st[p].streams) \in 1..Len(st[p].streams)
      /\ Fp(p) \in Stream /\ Fp(p) = st[p].streams[Len(st[p].streams)]
  BY <1>2, HoldsFp DEF Fp
<1>5. Len(st[p].streams) = 1
  <2>1. Len(st[p].streams) \in Nat \ {0}
    BY <1>4
  <2>2. \A n \in Nat \ {0} : n <= 1 => n = 1
    OBVIOUS
  <2> QED
    BY <1>3, <2>1, <2>2, Zenon
<1>6. Fp(p).file = Tmp /\ (Tmp \notin shared => last[Tmp].s = Input(p))
  <2>1. OutFile(p, Input(p)) = Tmp
    BY <1>2, <1>3, CommandAssumption DEF OutFile
  <2> QED
    BY <1>1, <1>2, <2>1 DEF Contents, Current
<1>7. Tmp \in DOMAIN disk /\ disk[Tmp] \in Seq(Byte)
  <2>1. PICK k : k = Len(st[p].streams)
    OBVIOUS
  <2>2. k \in 1..Len(st[p].streams) /\ st[p].streams[k].file = Tmp
    BY <1>4, <1>6, <2>1
  <2>3. Tmp \in DOMAIN disk
    BY <1>2, <2>2, OneStream DEF Contents
  <2> QED
    BY <1>2, <2>3 DEF Shape
<1>8. ASSUME Tmp \notin shared PROVE Agrees(Fp(p), disk[Tmp], Input(p), TRUE)
  <2>1. PICK x, s : x = Fp(p) /\ s = Input(p)
    OBVIOUS
  <2>2. x.file = Tmp /\ last[x.file].s = s /\ x = st[p].streams[Len(st[p].streams)]
    BY <1>4, <1>6, <1>8, <2>1
  <2>3. Agrees(x, disk[x.file], s, s \in st[p].built)
    BY <1>2, <1>4, <1>8, <2>2 DEF Contents, Written
  <2>4. Agrees(x, disk[Tmp], s, TRUE)
    BY <1>3, <2>1, <2>2, <2>3 DEF Agrees
  <2> QED
    BY <2>1, <2>4
<1> QED
  BY <1>1, <1>2, <1>3, <1>4, <1>5, <1>6, <1>7, <1>8

\* Before it is read, the build is flushed; its length is that of the file.
LEMMA SeekIInv == ASSUME IInv, NEW p \in Procs, Seek(p) PROVE IInv'
<1>1. st[p].pc = "seek" /\ st[p].pc \in Working
  BY DEF Seek, Working
<1>2. CASE st[p].streams = <<>>
  <2>1. Crashes(p) /\ Files
    BY <1>2 DEF Seek
  <2> QED
    BY <1>1, <2>1, CrashesIInv
<1>3. CASE st[p].streams # <<>>
  <2>1. /\ Shape /\ Contents /\ Progress /\ Sound(p)
        /\ st \in [Procs -> Invocation] /\ st[p] \in Invocation /\ st[p].streams \in Seq(Stream)
        /\ st[p].code = NULL
    BY <1>1, WorkingFacts DEF Invocation, Sound, Reads
  <2>2. PICK x : x = Fp(p)
    OBVIOUS
  <2>3. /\ st[p].pc \in Working \ {"compile", "open"}
        /\ st[p].line.cmd = "run" /\ ~st[p].syntax /\ Len(st[p].streams) = 1
        /\ Input(p) \in Sources /\ Input(p) \in st[p].built
        /\ x \in Stream /\ x.file = Tmp /\ Tmp \in DOMAIN disk
        /\ disk[Tmp] \in Seq(Byte) /\ st[p].streams[1] = x
        /\ Tmp \notin shared => Agrees(x, disk[Tmp], Input(p), TRUE)
    BY <1>1, <1>3, <2>2, RunFacts
  <2>4. PICK c : c = WriteAt(disk[Tmp], x.off, x.buf)
    OBVIOUS
  <2>5. c \in Seq(Byte) /\ x.off \in Nat /\ x.buf \in Seq(Byte)
    BY <2>3, <2>4, WriteAtType DEF Stream
  <2>6. /\ disk' = [disk EXCEPT ![Tmp] = c]
        /\ st' = [st EXCEPT ![p].pc = "read", ![p].size = Len(disk'[Tmp]),
                            ![p].streams[1].buf = <<>>]
        /\ UNCHANGED <<last, shared>>
    BY <1>3, <2>2, <2>3, <2>4 DEF Seek, Flushed
  <2>7. /\ disk' \in [DOMAIN disk -> Seq(Byte)] /\ disk'[Tmp] = c
        /\ \A g \in DOMAIN disk : g # Tmp => disk'[g] = disk[g]
    BY <2>1, <2>3, <2>5, <2>6 DEF Shape
  <2>8. PICK y : y = [x EXCEPT !.buf = <<>>]
    OBVIOUS
  <2>9. y \in Stream /\ y.file = x.file /\ y.off = x.off /\ y.buf = <<>>
    <3>1. <<>> \in Seq(Byte) /\ x \in Stream
      BY <2>3
    <3> QED
      BY <2>8, <3>1 DEF Stream
  <2>10. /\ st' \in [Procs -> Invocation] /\ Others(p) /\ SameWork(p)
         /\ st'[p].pc = "read" /\ st'[p].size = Len(c) /\ st'[p].code = NULL
         /\ st'[p].status = st[p].status
         /\ st'[p].streams = [st[p].streams EXCEPT ![1] = y]
    <3> DEFINE ss == [st[p].streams EXCEPT ![1] = y]
               r == [st[p] EXCEPT !.pc = "read", !.size = Len(c), !.streams = ss]
    <3>1. st' = [st EXCEPT ![p] = r]
      <4>1. st' = [st EXCEPT ![p].pc = "read", ![p].size = Len(c), ![p].streams[1].buf = <<>>]
        BY <2>6, <2>7
      <4>2. PICK u : u = [st[p] EXCEPT !.pc = "read", !.size = Len(c)]
        OBVIOUS
      <4>3. u.streams = st[p].streams
        BY <2>1, <4>2 DEF Invocation
      <4>4. PICK d : d = [st EXCEPT ![p] = u]
        OBVIOUS
      <4>5. d[p] = u
        BY <2>1, <4>4
      <4>6. st' = [d EXCEPT ![p].streams[1].buf = <<>>]
        BY <2>1, <4>1, <4>2, <4>4
      <4>7. st' = [d EXCEPT ![p] = [u EXCEPT !.streams = [st[p].streams EXCEPT ![1] = [x EXCEPT !.buf = <<>>]]]]
        BY <2>3, <4>3, <4>5, <4>6
      <4>8. st' = [d EXCEPT ![p] = [u EXCEPT !.streams = ss]]
        BY <2>8, <4>7
      <4> HIDE DEF ss
      <4>9. r = [u EXCEPT !.streams = ss]
        BY <4>2
      <4> HIDE DEF r
      <4> QED
        BY <4>4, <4>8, <4>9
    <3>2. ss \in Seq(Stream) /\ Len(c) \in Nat
      BY <2>1, <2>3, <2>5, <2>9
    <3> HIDE DEF ss
    <3>3. /\ r \in Invocation /\ r.pc = "read" /\ r.size = Len(c) /\ r.status = st[p].status
          /\ r.line = st[p].line /\ r.inputs = st[p].inputs /\ r.syntax = st[p].syntax
          /\ r.output = st[p].output /\ r.i = st[p].i /\ r.built = st[p].built
          /\ r.streams = ss /\ r.code = NULL
      BY <2>1, <3>2 DEF Invocation, Working
    <3> HIDE DEF r
    <3>4. st' \in [Procs -> Invocation] /\ st'[p] = r /\ Others(p)
      BY <2>1, <3>1, <3>3 DEF Others
    <3> QED
      BY <3>3, <3>4 DEF SameWork, ss
  <2>11. /\ Len(st'[p].streams) = Len(st[p].streams) /\ st'[p].streams[Len(st[p].streams)] = y
         /\ \A k \in 1..Len(st[p].streams) - 1 : st'[p].streams[k] = st[p].streams[k]
         /\ st'[p].streams # <<>>
    BY <2>1, <2>3, <2>10
  <2>12. ASSUME Tmp \notin shared
         PROVE  Len(c) = Source[Input(p)].size /\ Agrees(y, c, Input(p), TRUE)
    <3>1. IsBeginning(c, <<>>, Input(p)) /\ Len(c) = Len(disk[Tmp]) + Len(x.buf)
      BY <2>3, <2>4, <2>12, FlushedBeginning
    <3>2. Len(c) = Source[Input(p)].size
      BY <2>3, <2>12, <3>1 DEF Agrees
    <3>3. Len(c) + Len(y.buf) = Source[Input(p)].size
      <4>1. Len(c) \in Nat /\ Len(<<>>) = 0
        BY <2>5
      <4>2. Len(c) + Len(<<>>) = Source[Input(p)].size
        BY <3>2, <4>1
      <4> QED
        BY <2>9, <4>2
    <3> QED
      BY <2>9, <3>1, <3>2, <3>3 DEF Agrees
  <2>13. Sound(p)'
    <3>1. Input(p)' = Input(p)
      BY <2>10 DEF Input, SameWork
    <3>2. Loops(p)'
      BY <2>10 DEF Loops
    <3>3. \A k \in 1..Len(st'[p].streams) : st'[p].streams[k].buf = <<>>
      <4>1. Len(st'[p].streams) = 1 /\ st'[p].streams[1] = y
        BY <2>3, <2>11
      <4> QED
        BY <2>9, <4>1
    <3>4. Reads(p)'
      <4>1. /\ st'[p].pc = "read" /\ st'[p].line.cmd = "run" /\ st'[p].code = NULL
            /\ Len(st'[p].streams) <= 1 /\ Input(p)' \in st'[p].built /\ st'[p].streams # <<>>
        <5>1. Len(st'[p].streams) <= 1
          BY <2>3, <2>11
        <5> QED
          BY <2>3, <2>10, <2>11, <3>1, <5>1, Zenon DEF SameWork
      <4> QED
        BY <3>3, <4>1 DEF Reads
    <3> QED
      BY <1>1, <2>1, <2>3, <2>10, <3>2, <3>4, MovesSound DEF Sound, Working
  <2>14. Tmp \notin shared => Agrees(y, c, last[Tmp].s, last[Tmp].s \in st[p].built)
    <3>1. Tmp \notin shared => last[Tmp].s = Input(p)
      BY <1>3, <2>1, <2>2, <2>3 DEF Contents, Current
    <3> QED
      BY <2>3, <2>12, <3>1 DEF Agrees
  <2>15. Writes(p, x, y, c)
    BY <1>3, <2>2, <2>3, <2>5, <2>6, <2>7, <2>9, <2>10, <2>11, <2>12, <2>13, <2>14 DEF Writes, Working
  <2> QED
    BY <2>15, WritesIInv
<1> QED
  BY <1>2, <1>3

\* What is read is what was flushed, if nobody else opened the file.
LEMMA ReadIInv == ASSUME IInv, NEW p \in Procs, Read(p) PROVE IInv'
<1>1. st[p].pc = "read" /\ st[p].pc \in Working /\ Files
  BY DEF Read, Working
<1>2. /\ Shape /\ Contents /\ Progress /\ Sound(p)
      /\ st \in [Procs -> Invocation] /\ st[p] \in Invocation /\ st[p].size \in Nat
  BY <1>1, WorkingFacts DEF Invocation
<1>3. /\ st[p].streams # <<>>
      /\ \A k \in 1..Len(st[p].streams) : st[p].streams[k].buf = <<>>
  BY <1>1, <1>2 DEF Sound, Reads
<1>4. /\ st[p].pc \in Working \ {"compile", "open"}
      /\ st[p].line.cmd = "run" /\ ~st[p].syntax /\ Len(st[p].streams) = 1
      /\ Input(p) \in Sources /\ Input(p) \in st[p].built
      /\ Fp(p) \in Stream /\ Fp(p).file = Tmp
      /\ disk[Tmp] \in Seq(Byte) /\ st[p].streams[1] = Fp(p)
      /\ Tmp \notin shared => Agrees(Fp(p), disk[Tmp], Input(p), TRUE)
  BY <1>1, <1>3, RunFacts
<1> DEFINE c == disk[Tmp]
           b == [j \in 1..st[p].size |-> IF j <= Len(c) THEN c[j] ELSE Hole]
<1>5. b \in Seq(Byte)
  <2>1. \A j \in 1..st[p].size : (IF j <= Len(c) THEN c[j] ELSE Hole) \in Byte
    BY <1>2, <1>4 DEF Byte
  <2> QED
    BY <1>2, <2>1, IsASeq
<1>6. ASSUME Tmp \notin shared PROVE b = Build(Input(p))
  <2>1. Fp(p).buf = <<>>
    BY <1>3, <1>4
  <2>2. WriteAt(disk[Tmp], Fp(p).off, Fp(p).buf) = Build(Input(p))
    BY <1>4, <1>6, FlushedBeginning
  <2>3. c = Build(Input(p))
    BY <2>1, <2>2 DEF WriteAt
  <2>4. st[p].size = Source[Input(p)].size
    BY <1>1, <1>2, <1>6 DEF Contents, Reading
  <2> DEFINE n == Source[Input(p)].size
  <2>5. n \in Nat /\ Len(c) = n /\ \A j \in 1..n : c[j] = <<Input(p), j>>
    BY <1>4, <2>3, SourceFacts DEF Build
  <2> HIDE DEF c, n
  <2>6. \A j \in 1..n : (IF j <= Len(c) THEN c[j] ELSE Hole) = <<Input(p), j>>
    BY <2>5
  <2>7. b = [j \in 1..n |-> <<Input(p), j>>]
    BY <2>4, <2>6 DEF n
  <2> QED
    BY <2>7 DEF Build, n
<1>7. /\ st' \in [Procs -> Invocation] /\ Others(p) /\ SameWork(p)
      /\ st'[p].pc = "execute" /\ st'[p].code = b /\ st'[p].streams = st[p].streams
      /\ st'[p].status = st[p].status
  <2> DEFINE r == [st[p] EXCEPT !.pc = "execute", !.code = b]
  <2>1. st' = [st EXCEPT ![p] = r]
    BY <1>4 DEF Read
  <2> HIDE DEF b
  <2>2. /\ r \in Invocation /\ r.pc = "execute" /\ r.code = b /\ r.status = st[p].status
        /\ r.line = st[p].line /\ r.inputs = st[p].inputs /\ r.syntax = st[p].syntax
        /\ r.output = st[p].output /\ r.i = st[p].i /\ r.built = st[p].built
        /\ r.streams = st[p].streams
    BY <1>2, <1>5 DEF Invocation, Working
  <2> HIDE DEF r
  <2>3. st' \in [Procs -> Invocation] /\ st'[p] = r /\ Others(p)
    BY <1>2, <2>1, <2>2 DEF Others
  <2> QED
    BY <2>2, <2>3 DEF SameWork
<1> HIDE DEF b
<1>8. Input(p)' = Input(p)
  BY <1>7 DEF Input, SameWork
<1>9. Sound(p)'
  <2>1. Loops(p)'
    BY <1>7 DEF Loops
  <2>2. Reads(p)'
    <3>1. /\ st'[p].pc = "execute" /\ st'[p].line.cmd = "run"
          /\ Len(st'[p].streams) <= 1 /\ Input(p)' \in st'[p].built /\ st'[p].streams # <<>>
          /\ \A k \in 1..Len(st'[p].streams) : st'[p].streams[k].buf = <<>>
      <4>1. Len(st'[p].streams) <= 1
        <5>1. Len(st'[p].streams) = 1 /\ 1 <= 1
          BY <1>4, <1>7
        <5> QED
          BY <5>1, Zenon
      <4> QED
        BY <1>3, <1>4, <1>7, <1>8, <4>1, Zenon DEF SameWork
    <3> QED
      BY <3>1 DEF Reads
  <2> QED
    BY <1>1, <1>2, <1>4, <1>7, <2>1, <2>2, MovesSound DEF Sound, Working
<1>10. Progress'
  BY <1>2, <1>7, <1>9, OthersSound
<1>11. Contents'
  BY <1>1, <1>2, <1>4, <1>6, <1>7, <1>8, QuietContents DEF SameWork
<1>12. Shape'
  BY <1>1, <1>2, <1>7 DEF Shape, Files
<1> QED
  BY <1>10, <1>11, <1>12 DEF IInv

\* Whatever the program ends with, its source has been built.
LEMMA ExecuteIInv == ASSUME IInv, NEW p \in Procs, Execute(p) PROVE IInv'
<1>1. st[p].pc = "execute" /\ st[p].pc \in Working /\ Files
  BY DEF Execute, Working
<1>2. st[p].streams # <<>>
  BY <1>1, WorkingFacts DEF Sound, Reads
<1>3. st[p].line.cmd = "run" /\ Named(p) \subseteq st[p].built
  BY <1>1, <1>2, RunFacts
<1>4. ASSUME NEW status \in Nat, Exits(p, status) PROVE IInv'
  BY <1>1, <1>3, <1>4, ExitsIInv
<1>5. ASSUME Crashes(p) PROVE IInv'
  BY <1>1, <1>5, CrashesIInv
<1>6. CASE \E t \in Sources : IsPrefix(Build(t), st[p].code)
  <2>1. PICK t \in Sources : Executes(p, t)
    BY <1>6 DEF Execute
  <2>2. Source[t].value \in Nat /\ Source[t].value % 256 \in Nat
    BY SourceFacts
  <2> QED
    BY <1>4, <1>5, <2>1, <2>2 DEF Executes
<1>7. CASE ~ \E t \in Sources : IsPrefix(Build(t), st[p].code)
  <2>1. Crashes(p) \/ \E status \in 0..2 : Exits(p, status)
    BY <1>7 DEF Execute
  <2> QED
    BY <1>4, <1>5, <2>1
<1> QED
  BY <1>6, <1>7

\* A stream that is closed has been flushed.
LEMMA CloseIInv == ASSUME IInv, NEW p \in Procs, Close(p) PROVE IInv'
<1>1. st[p].pc = "exiting" /\ last' = last /\ shared' = shared
  BY DEF Close
<1>2. /\ Shape /\ Contents /\ Progress /\ Sound(p)
      /\ st \in [Procs -> Invocation] /\ st[p] \in Invocation /\ st[p].streams \in Seq(Stream)
  BY DEF IInv, Shape, Progress, Invocation
<1>3. CASE st[p].streams = <<>>
  <2> DEFINE r == [st[p] EXCEPT !.pc = "exited"]
  <2>1. st' = [st EXCEPT ![p] = r] /\ disk' = disk
    BY <1>3 DEF Close
  <2>2. /\ r \in Invocation /\ r.pc = "exited" /\ r.status = st[p].status
        /\ r.line = st[p].line /\ r.inputs = st[p].inputs /\ r.syntax = st[p].syntax
        /\ r.output = st[p].output /\ r.i = st[p].i /\ r.built = st[p].built
        /\ r.streams = <<>> /\ r.code = st[p].code
    BY <1>2, <1>3 DEF Invocation
  <2> HIDE DEF r
  <2>3. st' \in [Procs -> Invocation] /\ st'[p] = r /\ Others(p)
    BY <1>2, <2>1, <2>2 DEF Others
  <2>4. Sound(p)'
    <3>1. Begins(p)' /\ Proceeds(p)' /\ Loops(p)'
      BY <2>2, <2>3 DEF Begins, Proceeds, Loops, Working
    <3>2. Reads(p)' /\ BuiltGood(p)'
      BY <1>2, <2>2, <2>3 DEF Sound, Reads, BuiltGood
    <3>3. Named(p)' = Named(p)
      BY <2>2, <2>3 DEF Named
    <3>4. Tells(p)'
      BY <1>1, <1>2, <2>2, <2>3, <3>3 DEF Sound, Tells
    <3> QED
      BY <3>1, <3>2, <3>4 DEF Sound
  <2>5. Progress'
    BY <1>2, <2>3, <2>4, OthersSound
  <2>6. Contents'
    BY <1>1, <1>2, <1>3, <2>1, <2>2, <2>3, QuietContents DEF Files, Working
  <2>7. Shape'
    BY <1>1, <1>2, <2>1, <2>3 DEF Shape
  <2> QED
    BY <2>5, <2>6, <2>7 DEF IInv
<1>4. CASE st[p].streams # <<>>
  <2> DEFINE n == Len(st[p].streams)
  <2>1. PICK x : x = Fp(p)
    OBVIOUS
  <2>2. /\ n \in Nat /\ n \in 1..n /\ x \in Stream /\ st[p].streams[n] = x /\ x.file \in DOMAIN disk
        /\ x.off \in Nat /\ x.buf \in Seq(Byte) /\ disk[x.file] \in Seq(Byte)
    <3>1. n \in 1..n /\ x \in Stream /\ st[p].streams[n] = x
      BY <1>2, <1>4, <2>1, HoldsFp DEF Fp
    <3>2. x.file \in DOMAIN disk
      BY <1>2, <3>1, OneStream DEF Contents
    <3> QED
      BY <1>2, <3>1, <3>2 DEF Shape, Stream
  <2>3. PICK c : c = WriteAt(disk[x.file], x.off, x.buf)
    OBVIOUS
  <2>4. c \in Seq(Byte)
    BY <2>2, <2>3, WriteAtType
  <2>5. /\ disk' \in [DOMAIN disk -> Seq(Byte)] /\ disk'[x.file] = c
        /\ \A g \in DOMAIN disk : g # x.file => disk'[g] = disk[g]
    <3>1. disk' = [disk EXCEPT ![x.file] = c]
      BY <1>4, <2>1, <2>3 DEF Close, Flushed
    <3> QED
      BY <1>2, <2>2, <2>4, <3>1 DEF Shape
  <2>6. /\ st' \in [Procs -> Invocation] /\ Others(p) /\ SameWork(p)
        /\ st'[p].pc = "exiting" /\ st'[p].code = st[p].code /\ st'[p].status = st[p].status
        /\ st'[p].streams = SubSeq(st[p].streams, 1, n - 1)
    <3> DEFINE ss == SubSeq(st[p].streams, 1, n - 1)
               r == [st[p] EXCEPT !.streams = ss]
    <3>1. st' = [st EXCEPT ![p] = r]
      BY <1>4 DEF Close
    <3>2. ss \in Seq(Stream)
      BY <1>2, <2>2
    <3> HIDE DEF ss
    <3>3. /\ r \in Invocation /\ r.pc = "exiting" /\ r.status = st[p].status
          /\ r.line = st[p].line /\ r.inputs = st[p].inputs /\ r.syntax = st[p].syntax
          /\ r.output = st[p].output /\ r.i = st[p].i /\ r.built = st[p].built
          /\ r.streams = ss /\ r.code = st[p].code
      BY <1>1, <1>2, <3>2 DEF Invocation
    <3> HIDE DEF r
    <3>4. st' \in [Procs -> Invocation] /\ st'[p] = r /\ Others(p)
      BY <1>2, <3>1, <3>3 DEF Others
    <3> QED
      BY <3>3, <3>4 DEF SameWork, ss
  <2>7. /\ Len(st'[p].streams) = n - 1 /\ 1..n - 1 \subseteq 1..n /\ n \notin 1..n - 1
        /\ \A k \in 1..n - 1 : st'[p].streams[k] = st[p].streams[k]
        /\ \A k \in 1..n : k # n => k \in 1..n - 1
    BY <1>2, <2>2, <2>6
  \* The streams that are left are others than x.
  <2>8. \A q \in Procs : \A k : k \in 1..Len(st'[q].streams) <=>
                              k \in 1..Len(st[q].streams) /\ ~(q = p /\ k = n)
    <3> SUFFICES ASSUME NEW q \in Procs, NEW k
                 PROVE  k \in 1..Len(st'[q].streams) <=>
                          k \in 1..Len(st[q].streams) /\ ~(q = p /\ k = n)
      OBVIOUS
    <3>1. CASE q = p
      BY <2>7, <3>1
    <3>2. CASE q # p
      BY <2>6, <3>2 DEF Others
    <3> QED
      BY <3>1, <3>2
  <2>9. \A q \in Procs : \A k : k \in 1..Len(st'[q].streams) => st'[q].streams[k] = st[q].streams[k]
    BY <2>6, <2>7 DEF Others
  <2> HIDE DEF n
  <2>10. ASSUME NEW q \in Procs, NEW k \in 1..Len(st'[q].streams),
                st'[q].streams[k].file \notin shared
         PROVE  st[q].streams[k].file # x.file
    <3>1. /\ k \in 1..Len(st[q].streams) /\ ~(q = p /\ k = n)
          /\ st'[q].streams[k] = st[q].streams[k]
      BY <2>8, <2>9, <2>10
    <3>2. SUFFICES ASSUME st[q].streams[k].file = st[p].streams[n].file PROVE FALSE
      BY <2>2
    <3>3. st[p].streams[n].file \notin shared /\ n \in 1..Len(st[p].streams) /\ Owned
      BY <1>2, <2>2, <2>10, <3>1, <3>2 DEF Contents, n
    <3> QED
      BY <3>1, <3>2, <3>3, SameStream
  <2>11. Shape'
    BY <1>1, <1>2, <2>5, <2>6 DEF Shape
  <2>12. Progress'
    <3>1. Begins(p)' /\ Proceeds(p)' /\ Loops(p)'
      BY <2>6 DEF Begins, Proceeds, Loops, Working
    <3>2. BuiltGood(p)'
      BY <1>2, <2>6 DEF Sound, BuiltGood, SameWork
    <3>3. Named(p)' = Named(p)
      BY <2>6 DEF Named, SameWork
    <3>4. Tells(p)'
      BY <1>1, <1>2, <2>6, <3>3 DEF Sound, Tells, SameWork
    <3>5. Reads(p)'
      <4>1. st[p].code # NULL => \A k \in 1..Len(st'[p].streams) : st'[p].streams[k].buf = <<>>
        BY <1>2, <2>8, <2>9 DEF Sound, Reads
      <4> QED
        BY <2>6, <4>1 DEF Reads
    <3> QED
      BY <1>2, <2>6, <3>1, <3>2, <3>4, <3>5, OthersSound DEF Sound
  <2>13. Owned'
    <3> SUFFICES ASSUME NEW q \in Procs, NEW k \in 1..Len(st'[q].streams)
                 PROVE  LET f == st'[q].streams[k].file
                        IN /\ f \in DOMAIN disk'
                           /\ f \notin shared =>
                                /\ last[f].p = q
                                /\ \A q2 \in Procs : \A j \in 1..Len(st'[q2].streams) :
                                     st'[q2].streams[j].file = f => q2 = q /\ j = k
      BY <1>1 DEF Owned
    <3>1. PICK f : f = st[q].streams[k].file
      OBVIOUS
    <3>2. k \in 1..Len(st[q].streams) /\ st'[q].streams[k].file = f
      BY <2>8, <2>9, <3>1
    <3>3. f \in DOMAIN disk /\ (f \notin shared => last[f].p = q)
      BY <1>2, <3>1, <3>2, OneStream DEF Contents
    <3>4. ASSUME f \notin shared, NEW q2 \in Procs, NEW j \in 1..Len(st'[q2].streams),
                 st'[q2].streams[j].file = f
          PROVE  q2 = q /\ j = k
      <4>1. j \in 1..Len(st[q2].streams) /\ st[q2].streams[j].file = st[q].streams[k].file
        BY <2>8, <2>9, <3>1, <3>4
      <4>2. Owned /\ st[q].streams[k].file \notin shared
        BY <1>2, <3>1, <3>4 DEF Contents
      <4> QED
        BY <3>2, <4>1, <4>2, SameStream
    <3> QED
      BY <2>5, <3>2, <3>3, <3>4
  <2>14. Written'
    <3> SUFFICES ASSUME NEW q \in Procs, NEW k \in 1..Len(st'[q].streams),
                        st'[q].streams[k].file \notin shared
                 PROVE  LET z == st'[q].streams[k]
                            t == last[z.file].s
                        IN Agrees(z, disk'[z.file], t, t \in st'[q].built)
      BY <1>1 DEF Written, Agrees, IsBeginning
    <3>1. k \in 1..Len(st[q].streams) /\ st'[q].streams[k] = st[q].streams[k]
      BY <2>8, <2>9
    <3>2. st'[q].built = st[q].built
      BY <2>6 DEF Others, SameWork
    <3>3. st[q].streams[k].file # x.file /\ st[q].streams[k].file \in DOMAIN disk
      BY <1>2, <2>10, <3>1, OneStream DEF Contents
    <3>4. disk'[st[q].streams[k].file] = disk[st[q].streams[k].file]
      BY <2>5, <3>3
    <3> QED
      BY <1>2, <3>1, <3>2, <3>4 DEF Contents, Written
  <2>15. Current'
    <3> SUFFICES ASSUME NEW q \in Procs, st'[q].pc \in Working \ {"compile", "open"}, st'[q].streams # <<>>
                 PROVE  /\ Fp(q)'.file = OutFile(q, Input(q))'
                        /\ Fp(q)'.file \notin shared =>
                             /\ last[Fp(q)'.file].s = Input(q)'
                             /\ st'[q].pc \in {"generate", "dump"} => Fp(q)'.off = Len(disk'[Fp(q)'.file])
      BY <1>1 DEF Current
    <3>1. q # p /\ st'[q] = st[q]
      BY <2>6 DEF Others, Working
    <3>2. Fp(q)' = Fp(q) /\ Input(q)' = Input(q) /\ OutFile(q, Input(q))' = OutFile(q, Input(q))
      BY <3>1 DEF Fp, Input, OutFile, Out
    <3>3. PICK k : k = Len(st[q].streams)
      OBVIOUS
    <3>4. k \in 1..Len(st[q].streams) /\ k \in 1..Len(st'[q].streams) /\ Fp(q) = st[q].streams[k]
      <4>1. st[q].streams # <<>>
        BY <3>1
      <4> QED
        BY <1>2, <3>1, <3>3, <4>1, HoldsFp DEF Fp
    <3>5. Fp(q).file \in DOMAIN disk /\ (Fp(q).file \notin shared => Fp(q).file # x.file)
      BY <1>2, <2>10, <3>1, <3>4, OneStream DEF Contents
    <3>6. Fp(q).file \notin shared => disk'[Fp(q).file] = disk[Fp(q).file]
      BY <2>5, <3>5
    <3> QED
      BY <1>2, <3>1, <3>2, <3>6 DEF Contents, Current
  <2>16. Opener'
    <3>1. ASSUME NEW g \in DOMAIN disk
          PROVE  /\ st'[last[g].p].pc # "exec"
                 /\ g = OutFile(last[g].p, last[g].s)'
                 /\ st'[last[g].p].pc \in Working => Holds(last[g].p, g)'
      <4>1. PICK l : l = last[g]
        OBVIOUS
      <4>2. l.p \in Procs
        BY <1>2, <4>1 DEF Shape, Opening
      <4>3. /\ st[l.p].pc # "exec" /\ g = OutFile(l.p, l.s)
            /\ st[l.p].pc \in Working => Holds(l.p, g)
        BY <1>2, <4>1 DEF Contents, Opener
      <4>4. /\ st'[l.p].pc # "exec" /\ g = OutFile(l.p, l.s)'
            /\ st'[l.p].pc \in Working => Holds(l.p, g)'
        <5>1. CASE l.p = p
          BY <2>6, <4>3, <5>1 DEF OutFile, Out, SameWork, Working
        <5>2. CASE l.p # p
          <6>1. st'[l.p] = st[l.p]
            BY <2>6, <4>2, <5>2 DEF Others
          <6> QED
            BY <4>3, <6>1 DEF OutFile, Out, Holds
        <5> QED
          BY <5>1, <5>2
      <4>5. last'[g] = l
        BY <1>1, <4>1
      <4> QED
        BY <4>1, <4>4, <4>5 DEF OutFile, Out, Holds
    <3>2. ASSUME NEW q \in Procs, st'[q].pc \in Working, NEW t \in st'[q].built
          PROVE  Holds(q, OutFile(q, t))'
      <4>1. st'[q] = st[q]
        BY <2>6, <3>2 DEF Others, Working
      <4>2. Holds(q, OutFile(q, t))
        BY <1>2, <3>2, <4>1 DEF Contents, Opener
      <4> QED
        BY <4>1, <4>2 DEF Holds, OutFile, Out
    <3> QED
      BY <1>1, <2>5, <3>1, <3>2 DEF Opener
  <2>17. Closed'
    <3> SUFFICES ASSUME NEW g \in DOMAIN disk, ~Held(g)', g \notin shared,
                        last[g].s \in st'[last[g].p].built,
                        st'[last[g].p].pc \in {"exiting", "exited"} \/ st'[last[g].p].code # NULL
                 PROVE  disk'[g] = Build(last[g].s)
      BY <1>1, <2>5 DEF Closed
    <3>1. PICK l : l = last[g]
      OBVIOUS
    <3>2. l.p \in Procs /\ l.s \in Sources
      BY <1>2, <3>1 DEF Shape, Opening
    <3>3. l.s \in st[l.p].built /\ (st[l.p].pc \in {"exiting", "exited"} \/ st[l.p].code # NULL)
      <4>1. CASE l.p = p
        BY <2>6, <1>1, <3>1, <4>1 DEF SameWork
      <4>2. CASE l.p # p
        BY <2>6, <3>1, <3>2, <4>2 DEF Others
      <4> QED
        BY <4>1, <4>2
    <3>4. CASE g = x.file
      <4>1. l.p = p
        BY <1>2, <2>2, <3>1, <3>4, OneStream DEF Contents, n
      <4>2. Agrees(x, disk[x.file], l.s, l.s \in st[p].built)
        BY <1>2, <2>2, <3>1, <3>4 DEF Contents, Written, n
      <4>3. Agrees(x, disk[x.file], l.s, TRUE)
        BY <3>3, <4>1, <4>2 DEF Agrees
      <4>4. c = Build(l.s)
        BY <2>2, <2>3, <3>2, <4>3, FlushedBeginning
      <4> QED
        BY <2>5, <3>1, <3>4, <4>4
    <3>5. CASE g # x.file
      <4>1. ~Held(g)
        <5>1. ASSUME NEW q \in Procs, NEW k \in 1..Len(st[q].streams), st[q].streams[k].file = g
              PROVE  FALSE
          <6>1. ~(q = p /\ k = n)
            BY <2>2, <3>5, <5>1
          <6>2. k \in 1..Len(st'[q].streams) /\ st'[q].streams[k].file = g
            BY <2>8, <2>9, <5>1, <6>1
          <6> QED
            BY <6>2 DEF Held
        <5> QED
          BY <5>1 DEF Held
      <4>2. disk[g] = Build(l.s)
        BY <1>2, <3>1, <3>3, <4>1 DEF Contents, Closed
      <4> QED
        BY <2>5, <3>1, <3>5, <4>2
    <3> QED
      BY <3>4, <3>5
  <2>18. Reading'
    <3> SUFFICES ASSUME NEW q \in Procs, Tmp \notin shared
                 PROVE  /\ st'[q].pc = "read" => st'[q].size = Source[Input(q)'].size
                        /\ st'[q].pc = "execute" => st'[q].code = Build(Input(q)')
      BY <1>1 DEF Reading, Build
    <3>1. CASE q = p
      BY <2>6, <3>1
    <3>2. CASE q # p
      <4>1. st'[q] = st[q] /\ Input(q)' = Input(q)
        BY <2>6, <3>2 DEF Others, Input
      <4> QED
        BY <1>2, <4>1 DEF Contents, Reading
    <3> QED
      BY <3>1, <3>2
  <2> QED
    BY <2>11, <2>12, <2>13, <2>14, <2>15, <2>16, <2>17, <2>18 DEF IInv, Contents
<1> QED
  BY <1>3, <1>4

\* An interrupt can come at any time.
LEMMA KillIInv == ASSUME IInv, NEW p \in Procs, Kill(p) PROVE IInv'
  BY CrashesIInv DEF Kill

-----------------------------------------------------------------------------
\* No command has begun, and there are no files.
LEMMA InitIInv == Init => IInv
<1> SUFFICES ASSUME Init PROVE IInv
  OBVIOUS
<1>1. /\ DOMAIN disk = {} /\ disk = [f \in {} |-> <<>>] /\ last = [f \in {} |-> <<>>] /\ shared = {}
  BY DEF Init
<1>2. PICK line \in [Procs -> Lines] :
        st = [p \in Procs |->
                [pc |-> "exec", line |-> line[p], inputs |-> <<>>, syntax |-> FALSE, output |-> NULL,
                 i |-> 1, streams |-> <<>>, built |-> {}, size |-> 0, code |-> NULL, status |-> 0]]
  BY DEF Init
<1>3. ASSUME NEW p \in Procs
      PROVE  /\ st[p] \in Invocation
             /\ st[p].pc = "exec" /\ st[p].streams = <<>> /\ st[p].built = {} /\ st[p].inputs = <<>>
             /\ st[p].i = 1 /\ st[p].status = 0 /\ ~st[p].syntax /\ st[p].code = NULL
  BY <1>2 DEF Invocation
<1>4. Shape
  <2>1. st \in [Procs -> Invocation]
    BY <1>2, <1>3
  <2> QED
    BY <1>1, <2>1 DEF Shape
<1>5. Progress
  <2> SUFFICES ASSUME NEW p \in Procs PROVE Sound(p)
    BY DEF Progress
  <2> QED
    BY <1>3 DEF Sound, Begins, Proceeds, Loops, Reads, BuiltGood, Tells, Working
<1>6. Contents
  <2>1. \A p \in Procs : st[p].pc = "exec" /\ Len(st[p].streams) = 0
    BY <1>3
  <2>2. Owned /\ Written
    BY <2>1 DEF Owned, Written
  <2>3. Current /\ Reading
    BY <2>1 DEF Current, Reading, Working
  <2>4. Opener /\ Closed
    BY <1>1, <2>1 DEF Opener, Closed, Working
  <2> QED
    BY <2>2, <2>3, <2>4 DEF Contents
<1> QED
  BY <1>4, <1>5, <1>6 DEF IInv

\* Every step keeps the inductive invariant.
LEMMA NextIInv == IInv /\ [Next]_vars => IInv'
<1> SUFFICES ASSUME IInv, [Next]_vars PROVE IInv'
  OBVIOUS
<1>1. ASSUME NEW p \in Procs, Exec(p) PROVE IInv'
  BY <1>1, ExecIInv
<1>2. ASSUME NEW p \in Procs, Compile(p) PROVE IInv'
  BY <1>2, CompileIInv
<1>3. ASSUME NEW p \in Procs, Open(p) PROVE IInv'
  BY <1>3, OpenIInv
<1>4. ASSUME NEW p \in Procs, Generate(p) PROVE IInv'
  BY <1>4, GenerateIInv
<1>5. ASSUME NEW p \in Procs, Dump(p) PROVE IInv'
  BY <1>5, DumpIInv
<1>6. ASSUME NEW p \in Procs, NextInput(p) PROVE IInv'
  BY <1>6, NextInputIInv
<1>7. ASSUME NEW p \in Procs, Seek(p) PROVE IInv'
  BY <1>7, SeekIInv
<1>8. ASSUME NEW p \in Procs, Read(p) PROVE IInv'
  BY <1>8, ReadIInv
<1>9. ASSUME NEW p \in Procs, Execute(p) PROVE IInv'
  BY <1>9, ExecuteIInv
<1>10. ASSUME NEW p \in Procs, Close(p) PROVE IInv'
  BY <1>10, CloseIInv
<1>11. ASSUME NEW p \in Procs, Kill(p) PROVE IInv'
  BY <1>11, KillIInv
<1>12. CASE UNCHANGED vars
  <2>1. disk' = disk /\ st' = st /\ last' = last /\ shared' = shared
    BY <1>12 DEF vars
  <2>2. Shape'
    BY <2>1 DEF IInv, Shape
  <2>3. Progress'
    BY <2>1 DEF IInv, Progress, Sound, Begins, Proceeds, Loops, Reads, BuiltGood, Tells, Input, Named
  <2>4. Owned' /\ Written'
    BY <2>1 DEF IInv, Contents, Owned, Written
  <2>5. Current' /\ Opener'
    BY <2>1 DEF IInv, Contents, Current, Opener, Fp, Input, OutFile, Holds
  <2>6. Closed' /\ Reading'
    BY <2>1 DEF IInv, Contents, Closed, Reading, Held, Input
  <2> QED
    BY <2>2, <2>3, <2>4, <2>5, <2>6 DEF IInv, Contents
<1> QED
  BY <1>1, <1>2, <1>3, <1>4, <1>5, <1>6, <1>7, <1>8, <1>9, <1>10, <1>11, <1>12 DEF Next, Step

\* The inductive invariant holds in every state of command_exec, command_build and
\* command_run, for any number of invocations that share files.
THEOREM Invariance == Spec => []IInv
<1>1. Init => IInv
  BY InitIInv
<1>2. IInv /\ [Next]_vars => IInv'
  BY NextIInv
<1> QED
  BY <1>1, <1>2, PTL DEF Spec

\* command_run executes the whole build of its own input, whatever was in
\* /tmp/arbre-build.bin before and whatever others build meanwhile, unless a
\* second stream had that file open.
THEOREM RunsItsOwnBuild == Spec => []RunsOwnBuild
<1>1. ASSUME IInv PROVE RunsOwnBuild
  <2> SUFFICES ASSUME NEW p \in Procs, st[p].pc = "execute", Tmp \notin shared
               PROVE  st[p].code = Build(st[p].inputs[1])
    BY DEF RunsOwnBuild
  <2>1. st[p].pc \in Working
    BY DEF Working
  <2>2. Sound(p) /\ Contents /\ (st[p].line.cmd = "run" => st[p].i = 1)
    BY <1>1, <2>1, WorkingFacts
  <2>3. st[p].i = 1
    BY <2>2 DEF Sound, Reads
  <2>4. st[p].code = Build(Input(p))
    BY <2>2 DEF Contents, Reading
  <2> QED
    BY <2>3, <2>4 DEF Input
<1> QED
  BY <1>1, Invariance, PTL

\* Once command_build's streams are closed, by command_free or at the exit, what
\* generate wrote is in the output file, all of it and nothing else: a crash, an
\* error in another input or another invocation cannot leave a part of it.
THEOREM OutputsAreWhole == Spec => []OutputsWhole
<1>1. ASSUME IInv PROVE OutputsWhole
  <2>1. Closed
    BY <1>1 DEF IInv, Contents
  <2> QED
    BY <2>1 DEF OutputsWhole, Closed
<1> QED
  BY <1>1, Invariance, PTL

\* What main returns tells of the sources the user named: 0 from a build means
\* that all of them were built, and any other number that one was not; 0 from a
\* run, without --syntax, that its source was.
THEOREM StatusIsTold == Spec => []StatusTold
<1>1. ASSUME IInv PROVE StatusTold
  <2> SUFFICES ASSUME NEW p \in Procs, st[p].pc = "exited"
               PROVE  /\ st[p].line.cmd = "build" =>
                           (st[p].status = 0 <=> IF st[p].syntax THEN Source[st[p].inputs[1]].parse = "ok"
                                                 ELSE Named(p) \subseteq st[p].built)
                      /\ st[p].line.cmd = "run" /\ st[p].status = 0
                           => st[p].syntax \/ Named(p) \subseteq st[p].built
    BY DEF StatusTold
  <2>1. Tells(p)
    BY <1>1 DEF IInv, Progress, Sound
  <2> QED
    BY <2>1 DEF Tells
<1> QED
  BY <1>1, Invariance, PTL
================================================================================
