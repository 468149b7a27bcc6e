-------------------------------- MODULE Command --------------------------------
(***************************************************************************)
(* The command line (src/command.c, src/arbre.c): invocations of `arbre    *)
(* build` and `arbre run` that share a file system.  What the parser, the  *)
(* generator and the interpreter do with a source is a constant here; this *)
(* module is about the order in which they are called, what happens when   *)
(* one of them fails, and about the output files, which are written        *)
(* through stdio: a stream keeps up to Buf bytes until it is flushed, and  *)
(* writes where it has got to, whatever others did to the file since.      *)
(***************************************************************************)
EXTENDS Integers, Sequences, SequencesExt

CONSTANTS
    Procs,        \* invocations
    Paths,        \* paths of files: sequences of names and dots
    Lines,        \* command lines: [cmd, args], an argument being [kind, name]
    Sources,      \* paths of source files
    Source,       \* Source[s]: what becomes of s, see SourceType
    NULL,         \* no output file was named
    Buf           \* BUFSIZ of the C library

SourceType ==
    [parse : {"missing", "ok", "errors", "eof"},   \* errors: p->errors > 0; eof: nextline met T_EOF
     place : BOOLEAN,                              \* the directory of its default output exists
     generate : {"ok", "exits", "crashes"},
     size : Nat \ {0},                             \* bytes of its output
     main : BOOLEAN,                               \* there is a path main
     calls : BOOLEAN,                              \* it calls a path of its module
     ends : {"number", "other", "error"},          \* how main ends
     value : Nat]

\* Where `run` builds, and where `build` does unless it is told.
Tmp == <<"/tmp/arbre-build.bin">>
Out(s) == <<".arbre/bin/">> \o s \o <<".bin">>

\* The arguments of a command.
Arguments ==
    [kind : {"file"}, name : Paths] \cup [kind : {"short", "long"}, name : STRING]
      \cup [kind : {"dash"}, name : {""}]

ASSUME CommandAssumption ==
    /\ Source \in [Sources -> SourceType]
    /\ Sources \subseteq Paths /\ Tmp \in Paths /\ \A s \in Sources : Out(s) \in Paths
    /\ NULL \notin Paths
    /\ Buf \in Nat \ {0}

\* A file that no short option takes is a source, be it one that is missing.
ASSUME LinesAssumption ==
    \A line \in Lines :
      /\ line.cmd \in {"none", "test", "unknown", "build", "run"}
      /\ line.args \in Seq(Arguments)
      /\ \A i \in 1..Len(line.args) :
           line.args[i].kind = "file" /\ (i > 1 => line.args[i - 1].kind # "short")
             => line.args[i].name \in Sources

VARIABLES
    disk,         \* contents of the output files that exist: sequences of bytes
    st,           \* st[p]: where p has got to, and its Command
    last,         \* history: who opened a file last, and for which source
    shared        \* history: files that were opened while a stream had them open

vars == <<disk, st, last, shared>>

-----------------------------------------------------------------------------
\* The bytes that generate writes for s; what is in a file where nobody wrote,
\* and in memory that nobody filled.
Build(s) == [j \in 1..Source[s].size |-> <<s, j>>]
Hole == <<>>

\* A stream's bytes are written where it has got to.
WriteAt(c, off, bytes) ==
    LET end == off + Len(bytes)
    IN IF bytes = <<>> THEN c
       ELSE [j \in 1..(IF end > Len(c) THEN end ELSE Len(c)) |->
               IF j > off /\ j <= end THEN bytes[j - off]
               ELSE IF j <= Len(c) THEN c[j] ELSE Hole]

\* Mutated form: a file that exists keeps what it has, as with "r+".
OpenedKeep(f) == [g \in DOMAIN disk \cup {f} |-> IF g \in DOMAIN disk THEN disk[g] ELSE <<>>]

\* fopen(f, "w+")
Opened(f) == [g \in DOMAIN disk \cup {f} |-> IF g = f THEN <<>> ELSE disk[g]]

\* fflush
Flushed(x) == [disk EXCEPT ![x.file] = WriteAt(@, x.off, x.buf)]

\* source_module cuts a path at its last dot, command_run at its first one.
Dots(path) == {i \in 1..Len(path) : path[i] = "."}
GenName(path) ==
    IF Dots(path) = {} THEN path
    ELSE SubSeq(path, 1, (CHOOSE i \in Dots(path) : \A j \in Dots(path) : j <= i) - 1)
RunName(path) ==
    IF Dots(path) = {} THEN path
    ELSE SubSeq(path, 1, (CHOOSE i \in Dots(path) : \A j \in Dots(path) : i <= j) - 1)

\* What command_parseopt and command_parselopt make of argument i, when d is
\* what the arguments before it were.  Any short option takes the next argument
\* unless that begins with a dash.
ParseArg(args, i, d) ==
    LET a     == args[i]
        takes == i < Len(args) /\ args[i + 1].kind = "file"
    IN IF d.taken THEN [d EXCEPT !.taken = FALSE]
       ELSE CASE a.kind = "file"  -> [d EXCEPT !.inputs = Append(@, a.name)]
              [] a.kind = "long"  -> [d EXCEPT !.syntax = @ \/ a.name = "syntax"]
              [] a.kind = "dash"  -> d
              [] a.kind = "short" ->
                   [d EXCEPT !.taken = takes,
                             !.output = IF a.name # "o" THEN @
                                        ELSE IF takes THEN args[i + 1].name ELSE NULL]

\* The loop over the arguments.
Parsed(args) ==
    LET c[i \in 0..Len(args)] ==
          IF i = 0 THEN [inputs |-> <<>>, syntax |-> FALSE, output |-> NULL, taken |-> FALSE]
          ELSE ParseArg(args, i, c[i - 1])
    IN c[Len(args)]

-----------------------------------------------------------------------------
Init ==
    /\ disk = [f \in {} |-> <<>>]
    /\ \E line \in [Procs -> Lines] :
         st = [p \in Procs |->
                 [pc |-> "exec", line |-> line[p], inputs |-> <<>>, syntax |-> FALSE, output |-> NULL,
                  i |-> 1, streams |-> <<>>, built |-> {}, size |-> 0, code |-> NULL, status |-> 0]]
    /\ last = [f \in {} |-> <<>>]
    /\ shared = {}

Input(p) == st[p].inputs[st[p].i]

\* c->fp
Fp(p) == st[p].streams[Len(st[p].streams)]

Files == UNCHANGED <<disk, last, shared>>

\* exit, error, or the return from main.
Exits(p, status) == st' = [st EXCEPT ![p].pc = "exiting", ![p].status = status]

\* A signal or a failed assertion: what the streams have not written is lost.
Crashes(p) == st' = [st EXCEPT ![p].pc = "crashed", ![p].streams = <<>>]

\* Mutated form: a build that failed ends like one that did not.
BuildReturnsOk(p, status) ==
    IF st[p].line.cmd = "build" \/ st[p].syntax THEN Exits(p, 0)
    ELSE st' = [st EXCEPT ![p].pc = "seek"]

\* The return from command_build, whose value command_run does not look at.
BuildReturns(p, status) ==
    IF st[p].line.cmd = "build" THEN Exits(p, status)
    ELSE IF st[p].syntax THEN Exits(p, 0)
    ELSE st' = [st EXCEPT ![p].pc = "seek"]

\* command_exec, and the checks at the start of each command.
Exec(p) ==
    /\ st[p].pc = "exec"
    /\ LET cmd == st[p].line.cmd
           c   == Parsed(st[p].line.args)
       IN CASE cmd \in {"none", "test"}                   -> Exits(p, 0)
            [] cmd = "unknown"                            -> Exits(p, 1)
            [] cmd = "run" /\ Len(c.inputs) > 1           -> Exits(p, 1)
            [] cmd \in {"build", "run"} /\ c.inputs = <<>> -> Exits(p, 0)
            [] OTHER -> st' = [st EXCEPT ![p].pc = "compile",
                                         ![p].inputs = c.inputs,
                                         ![p].syntax = c.syntax,
                                         ![p].output = IF cmd = "run" THEN Tmp ELSE c.output]
    /\ Files

\* command_build for one input, up to the generator: source, parse, reduce.
Compile(p) ==
    /\ st[p].pc = "compile"
    /\ LET parse == Source[Input(p)].parse
       IN CASE parse \in {"missing", "eof"} -> Exits(p, 1)
            [] parse = "errors"             -> BuildReturns(p, 1)
            [] parse = "ok" /\ st[p].syntax -> BuildReturns(p, 0)
            [] OTHER                        -> st' = [st EXCEPT ![p].pc = "open"]
    /\ Files

\* The output file is opened, which empties it.
Open(p) ==
    /\ st[p].pc = "open"
    /\ LET s == Input(p)
           f == IF st[p].output # NULL THEN st[p].output ELSE Out(s)
       IN IF st[p].output = NULL /\ ~Source[s].place THEN Exits(p, 1) /\ Files
          ELSE /\ disk' = Opened(f)
               /\ st' = [st EXCEPT ![p].pc = "generate",
                                   ![p].streams = Append(@, [file |-> f, off |-> 0, buf |-> <<>>])]
               /\ last' = [g \in DOMAIN last \cup {f} |-> IF g = f THEN [p |-> p, s |-> s] ELSE last[g]]
               /\ shared' = IF \E q \in Procs : \E k \in 1..Len(st[q].streams) : st[q].streams[k].file = f
                              THEN shared \cup {f} ELSE shared \ {f}

\* generate, before it writes: gen_block.  After an error that it only reports, an
\* undefined name (gen_defined), it goes on: that counts as "ok", too.
Generate(p) ==
    /\ st[p].pc = "generate"
    /\ CASE Source[Input(p)].generate = "ok"      -> st' = [st EXCEPT ![p].pc = "dump"]
         [] Source[Input(p)].generate = "exits"   -> Exits(p, 1)
         [] Source[Input(p)].generate = "crashes" -> Crashes(p)
    /\ Files

\* generate writes the next byte; a full buffer is written first.
Dump(p) ==
    /\ st[p].pc = "dump"
    /\ LET x    == Fp(p)
           next == x.off + Len(x.buf) + 1
           full == Len(x.buf) = Buf
       IN /\ next <= Source[Input(p)].size
          /\ disk' = IF full THEN Flushed(x) ELSE disk
          /\ st' = [st EXCEPT ![p].streams[Len(st[p].streams)] =
                      [x EXCEPT !.off = IF full THEN @ + Buf ELSE @,
                                !.buf = Append(IF full THEN <<>> ELSE @, Build(Input(p))[next])]]
    /\ UNCHANGED <<last, shared>>

\* generate is done: the next input, if there is one.
NextInput(p) ==
    /\ st[p].pc = "dump"
    /\ Fp(p).off + Len(Fp(p).buf) = Source[Input(p)].size
    /\ LET done == [st EXCEPT ![p].built = @ \cup {Input(p)}]
       IN IF st[p].i < Len(st[p].inputs)
            THEN st' = [done EXCEPT ![p].i = @ + 1, ![p].pc = "compile"]
          ELSE IF st[p].line.cmd = "build" THEN st' = [done EXCEPT ![p].pc = "exiting"]
          ELSE st' = [done EXCEPT ![p].pc = "seek"]
    /\ Files

\* freadbin, up to ftell: the end of the file is sought, which flushes.  There
\* is no stream if the build failed.
Seek(p) ==
    /\ st[p].pc = "seek"
    /\ IF st[p].streams = <<>> THEN Crashes(p) /\ Files
       ELSE /\ disk' = Flushed(Fp(p))
            /\ st' = [st EXCEPT ![p].pc = "read", ![p].size = Len(disk'[Fp(p).file]),
                                ![p].streams[Len(st[p].streams)].buf = <<>>]
            /\ UNCHANGED <<last, shared>>

\* freadbin's fread: as many bytes of that size as there still are.
Read(p) ==
    /\ st[p].pc = "read"
    /\ LET c == disk[Fp(p).file]
       IN st' = [st EXCEPT ![p].pc = "execute",
                           ![p].code = [j \in 1..st[p].size |-> IF j <= Len(c) THEN c[j] ELSE Hole]]
    /\ Files

\* The end of command_run, when what was read is the build of t.
Executes(p, t) ==
    CASE ~Source[t].main                                           -> Exits(p, 2)
      [] Source[t].calls /\ GenName(t) # RunName(st[p].inputs[1])  -> Exits(p, 1)
      [] Source[t].ends = "error"                                  -> Exits(p, 1)
      [] Source[t].ends = "other"                                  -> Crashes(p)
      [] OTHER                                                     -> Exits(p, Source[t].value % 256)

\* vm_open and vm_run on what was read, whatever it is; vm_open does not look
\* at what is behind the last path.
Execute(p) ==
    /\ st[p].pc = "execute"
    /\ IF \E t \in Sources : IsPrefix(Build(t), st[p].code)
         THEN Executes(p, CHOOSE t \in Sources : IsPrefix(Build(t), st[p].code))
       ELSE Crashes(p) \/ \E status \in 0..2 : Exits(p, status)
    /\ Files

\* Mutated form: only c->fp is closed.
CloseFp(p) ==
    /\ st[p].pc = "exiting"
    /\ IF st[p].streams = <<>> THEN st' = [st EXCEPT ![p].pc = "exited"] /\ UNCHANGED disk
       ELSE /\ disk' = Flushed(Fp(p))
            /\ st' = [st EXCEPT ![p].streams = <<>>]
    /\ UNCHANGED <<last, shared>>

\* command_free and exit: the streams are flushed, the latest first.
Close(p) ==
    /\ st[p].pc = "exiting"
    /\ IF st[p].streams = <<>> THEN st' = [st EXCEPT ![p].pc = "exited"] /\ UNCHANGED disk
       ELSE /\ disk' = Flushed(Fp(p))
            /\ st' = [st EXCEPT ![p].streams = SubSeq(@, 1, Len(@) - 1)]
    /\ UNCHANGED <<last, shared>>

\* The user interrupts the command.
Kill(p) ==
    /\ st[p].pc \notin {"exited", "crashed"}
    /\ Crashes(p)
    /\ Files

Step(p) ==
    \/ Exec(p) \/ Compile(p) \/ Open(p) \/ Generate(p) \/ Dump(p) \/ NextInput(p)
    \/ Seek(p) \/ Read(p) \/ Execute(p) \/ Close(p)

Next == \E p \in Procs : Step(p) \/ Kill(p)

Spec == Init /\ [][Next]_vars

-----------------------------------------------------------------------------
\* What `arbre run` executes is its own input's build, all of it, whatever
\* earlier invocations left in the file they share: unless a second stream had
\* the file open at the same time.
RunsOwnBuild ==
    \A p \in Procs :
      st[p].pc = "execute" /\ Tmp \notin shared => st[p].code = Build(st[p].inputs[1])

\* Some stream still has f open.
Held(f) == \E p \in Procs : \E k \in 1..Len(st[p].streams) : st[p].streams[k].file = f

\* A file that nobody has open is the whole build of the source for which it
\* was opened last, if that was generated and its command came to its exit or
\* to the reading of it, and no second stream had the file open meanwhile.
OutputsWhole ==
    \A f \in DOMAIN disk :
      LET l == last[f]
      IN (/\ ~Held(f) /\ f \notin shared
          /\ l.s \in st[l.p].built
          /\ st[l.p].pc = "exited" \/ st[l.p].code # NULL)
         => disk[f] = Build(l.s)

\* The sources that the user named: those behind a short option are its.
Named(p) ==
    LET args == st[p].line.args
    IN {args[i].name : i \in {j \in 1..Len(args) :
          args[j].kind = "file" /\ (j > 1 => args[j - 1].kind # "short")}}

\* A build ends with 0 exactly if every source that was named has been built,
\* with --syntax if the first one has no errors; a run never ends with 0
\* unless its source was built, but with --syntax, whatever the errors are.
StatusTold ==
    \A p \in Procs : st[p].pc = "exited" =>
      /\ st[p].line.cmd = "build" =>
           (st[p].status = 0 <=> IF st[p].syntax THEN Source[st[p].inputs[1]].parse = "ok"
                                 ELSE Named(p) \subseteq st[p].built)
      /\ st[p].line.cmd = "run" /\ st[p].status = 0 => st[p].syntax \/ Named(p) \subseteq st[p].built
=============================================================================
