# A verification development for arbre

arbre is a small functional language with a compiler to byte-code and a
register machine, in about 6500 lines of C.  This directory models the parts
of it that decide what a program computes, checks them with TLC and proves some
of their properties with TLAPS.

`tlc -config X.cfg M` checks a run, `tlapm M.tla` the proofs of a module.
`PROJECT.json` lists components, runs, hazards, findings and theorems; its "map"
gives for each definition the source lines it stands for.

## 1. Inventory: the system

    source.c -> scanner.c -> parser.c -> tree (tree.c, node.c)
             -> reduce.h -> generator.c (with symtab.c) -> module file (bin.c)
             -> vm_open (vm.c) -> vm_run / vm_execute (vm.c, runtime.c)

| Component | State | Operations | Correct when |
|---|---|---|---|
| source (source.c) | text, table of line starts | read a character, start a line | each line starts where the table says |
| scanner (scanner.c) | position, indentation levels, pending dedents | `scan` | INDENT and DEDENT balance and nest |
| parser (parser.c) | one token of lookahead, error count | recursive descent | each block belongs to its clause |
| tree and scopes (tree.c, symtab.c) | `tree->symbols`, linked to the enclosing tables | `enterscope`, `exitscope`, `symtab_insert`, `symtab_lookup` | a name denotes its innermost definition in an open scope |
| reducer (reduce.h) | the tree | rewrites lists and pipes | meaning is kept |
| generator (generator.c) | `ClauseEntry`: code, constants, registers; `g->block` | `gen_*` per kind of node | the code does what the tree means |
| module file (generator.c, bin.c, vm.c) | bytes | `dump_*`, `vm_read*`, `bin_read*` | what is read is what was written |
| call stack (runtime.c) | one block of frames linked by address | `stack_push`, `stack_pop`, `stack_correct` | frames do not overlap, links stay valid when the block moves |
| interpreter (vm.c) | frame, registers, `pc` | one case of `vm_execute` per op-code | one step of the source's meaning |
| pattern matching (vm.c) | registers being bound | `match`, `match_tuple`, `match_list`, `match_atom` | first matching clause, right bindings |
| processes (vm.c) | `credits`, list of processes | `vm_spawn`, `vm_select` | each process runs until it ends |
| values (value.c) | tagged unions; lists point to their members | constructors | a value does not change once built |
| modules (vm.c) | hash table of modules | `vm_open`, `vm_module` | a module opened is found |
| commands (command.c, arbre.c) | `Command`: inputs, options, output, one stream; files on disk | `build`, `run` | a run executes its own source, files are whole, the exit status tells of failures |
| reports and errors (report.c, error.c) | the parser's count of errors | messages, `exit` | a syntax error fails the build; errors that the generator reports do not, unless it exits |
| printing and helpers (io.c, util.c, token*.c, color.h, op.c) | none that others read | | |

Interactions.  Everything is a direct call in one thread.  What couples the
components is (a) registers, whose numbers the generator hands out and `match`
finds again by counting at run time; (b) addresses: frames and list members are
pointers into a block that `realloc` moves; (c) jumps, whose offsets are patched
once their targets are known; (d) `g->block`, the generator's only idea of where
in the path it is; and (e) the constants, which all frames of a clause share and
OP_CALL overwrites.  Separate invocations of `arbre` share files: the outputs under
`.arbre/bin`, those named by `-o`, and for `run` always `/tmp/arbre-build.bin`.

Hard behaviours.  Within an invocation there is no concurrency to speak of:
`vm_select` switches processes, but no op-code creates one.  Between invocations
there is (Command): they open, write and read the same files in any order, and
may be interrupted.  Apart from that, what a unit test hardly reaches are
sequences: long series of calls of different sizes with the allocator moving the
block or not (ProcStack), all ways in which scopes, constants and equal hashes combine
(SymTab, ClauseTables), constructs of the language in each other (Blocks), patterns
that fail half way (Select), and the combinations of selects, tail calls, bindings
and recursion (Program).  The hazards, each at its line, are in `PROJECT.json`.

## 2. Modules

| Module | Models | Uses |
|---|---|---|
| CallStack | abstract: calls nest, a return goes to the caller's register | |
| ProcStack | runtime.c and its use by OP_CALL, OP_RETURN, vm_run, with addresses | CallStack (refines) |
| ProcStackProofs | the proofs about ProcStack, that it implements CallStack included | ProcStack |
| Buckets | a hash table of lists (symtab.c) | |
| SymTab | tables of variables with scopes | Buckets |
| ClauseTables | SymTab with the constants of a clause (`gen_constant`) and the operands that name either | SymTab, Buckets |
| ClauseTablesProofs | the proofs about SymTab and ClauseTables | ClauseTables |
| Patterns | `gen_pattern`, but for its calls of itself | |
| Match | `match` and its helpers, but for their calls of each other | |
| Terms | values and patterns up to a depth, `gen_pattern` and `match` on them, and what a pattern means | Patterns, Match |
| TermsProofs | the proofs about Terms: what a compiled pattern binds, writes and matches | Terms |
| Select | a select's clauses, compiled and run, against what a pattern means | Terms |
| SelectProofs | the proofs about Select | Select, TermsProofs |
| Generator | reduce.h and the `gen_*` functions: program to code | Patterns |
| Machine | `vm_execute` and what it calls, one action per op-code | Generator, Match |
| Meaning | abstract: the value of a program, without registers or jumps | |
| Program | compiler and interpreter against Meaning | Machine, Meaning |
| Format | the bytes of the module file: `dump_*` on one side, `vm_read*` and `bin_read*` on the other | |
| FormatProofs | the proofs about Format: what is read is what was written | Format |
| Loader | a module's way through its file: `generate`, then `vm_open` | Format |
| LoaderProofs | the proofs about Loader | Loader, FormatProofs |
| Layout | the scanner's lines, indentation and end of file; the line table | |
| LayoutProofs | the proofs about Layout | Layout |
| Blocks | the parser, all of its grammar, on the tokens Layout returns | Layout |
| Command | the command line: `build` and `run`, their files and exit status | |
| CommandProofs | the proofs about Command | Command |
| MC* | constants of the runs | |

### How state and actions correspond to the code

**ProcStack.** `base`, `size`, `capacity`, `depth`, `frame` are the fields of
`struct stack`; `mem` is the frame headers in the block, by offset.  A pointer
is a block and an offset.  `realloc` may return any block, the old one included,
and gives NULL for size 0.  Relocating a pointer (`p - old + new`) that is not in
the old block yields an address in no block.  `Run`, `Call` and `Return` are
vm_run, OP_CALL and OP_RETURN, each with the whole of `stack_push` or `stack_pop`,
`stack_correct` included.  `stack_pop`'s test is on `size_t`, and so wraps.  Once
`s->frame` is stale the code reads freed memory: the specification stops there
(`FrameLive`), and the properties that follow the frames are about the states
before.

**SymTab.** `symbols` is the chain of tables from the root to the innermost;
`nreg` is the clause's register counter, a byte that wraps around at `NRegs` (256):
`nextreg` has no test, only a `TODO: Check limits`.  Two history variables: `defined` is what
the generator was asked to define, `taken` the number of calls of `nextreg`.  `Define` is `define` as the generator uses it:
only for names that `symtab_lookup` does not find.  `Prepend` keeps the old list,
because `sym_prepend` keeps its new head in a local variable only.  `Temporary`
is a `nextreg` for a value without a name.

**ClauseTables.** `ktable` is the clause's table of constants by source text,
`kheader` the constants by index, `handed` a history of `gen_constant`'s calls and
what they returned.  The text of a call may be absent (then nothing is looked up);
different constants may have one text, as an atom and a module of that name have.
`BitRK` is BITRK, 128; neither `nextreg` nor `gen_constant` compares with it.

**Patterns, Match, Terms.** `gen_pattern` and `match` call themselves.  Their bodies,
`GenPatternTerm` and `MatchTerm`, take what such a call returns as a parameter.  Generator
and Machine pass themselves (RECURSIVE operators, for trees and lists of references of any
form).  Terms passes the function one depth, or one call, below: `Gens[d]` compiles the
patterns that nest at most `d` deep, `Matches[f]` is `match` with at most `f` calls in
each other below.  `Calls`, the number for `Match`, is 2 * Depth + 1: down the pattern to a
variable, once to what its register holds, and down that; so no match ever needs
more, which is part of what is proved.  A frame is a function from `Registers` to values or `Unset`.
The map names the definitions that pass themselves: `Match` and `GenPattern` of Machine and
Generator, and those of Terms, stand for all of `match*` and of `gen_pattern`.
`Instance` says when a value is an instance of a pattern under bindings by name, with
no registers; `Parts` are the values a variable can come to hold.

**Select.** `Gen` is a turn of `gen_select`'s loop, `TryMatch` and `TryEq` are
OP_MATCH and OP_EQ.  OP_EQ on a value that is no number compares part of a
pointer: either outcome is possible.

**Generator.** A pure function, `Compile`, from a program to the module that
vm_open reads.  The generator's state is a record passed along: code, constants,
`nreg`, the names in scope, and `g->block` with the flaw that `gen_block` does not
put the enclosing block back.  Jumps are the number 0 until they are patched.
`code` before `code[0]` reads as 0, as in the heap.

**Machine.** `frames`, `mem` (the slots of the block), `ret`, `status`, `credits`,
`module` (its constants change: OP_CALL resolves a path's name in place) and
`lapses`, which notes that a program reached a construct whose contents are not
followed: a list that points into a frame that is gone (OP_CONS stores addresses
of registers), or a comparison of pointers as numbers.  A register that nobody wrote
is `Unset`; where it decides something the run stops as "undefined".

**Program.** `Supported` says about which programs `Correct` speaks; each of its
parts names a construct that the code treats in its own way (section 6).

**Format, Loader.** `file` is a sequence of bytes, `b` the reader's pointer into it.
A value that contains others is written and read by functions of the depth
(`NodeDump`, `ConstantDump`) and of the bytes that are left (`NodeReader`,
`ConstantReader`: no value is shorter than a byte, so that no more than `Len(f)` are
in each other); they stand for the recursion of `dump_node`, `dump_constant`,
`bin_readnode` and `vm_readk`.  `Depth`, how deep the generator's values nest, is any
number.
`Write` is the end of `generate` with every `dump_*`; `Open` is the start of
`vm_open`, `ReadPath` and `ReadClause` a turn of the loops in `vm_open` and
`vm_readpath`, `Loaded` the end.  What `fputc` does to a number above a byte, and
the signed 8 bits of a tuple's arity, are modelled as they are; a text is read up
to its 0.  `Overruns` is the code buffer of `gen`: allocated as instructions, grown
by a number of bytes.  A module whose generation writes outside of its buffers is
not written (in C the heap is damaged).  Reading behind the end, which in C gets
whatever is there, and a failed assertion are the status "crashed".

**Layout.** An action is a call of `scan`, by what it returns: `ScanIndent`,
`ScanDedent`, `ScanText`, `ScanEnd` (T_LF or T_EOF).  Each does what precedes it in
the same call: `newline` with `source_addline`, and `scan_indent`.  `lvls` is the
stack of levels, `dedent` the T_DEDENTs still due, `lf` that the last token was a
T_LF, `lineps` and `bytes` the line table and what is allocated for it, `out` the
tokens so far.  A file is its lines with the width of their white space and their
tokens; the characters of a token are left out, but for the last character of a
file, which `next` leaves in `s->ch` so that it is read twice.

**Blocks.** `Parse` is a recursive function from a rule and a position to the node
and the position behind: one rule for each `parse_*` that is called from several
places or calls itself.  Position 0 is a parse error, after which
`command_build` discards the tree.  `Absent` is the NULL that `parse_map` returns for
`{}` without reporting an error; what each caller makes of a NULL is followed
(`parse_primary` takes it for an error and skips the line, `parse_seq` stops at it,
`append` drops it as a first member, `parse_tuple` dereferences it).
`parse_decl` passes the results of two calls as arguments: the order is the one of
clang, with which the Makefile builds.

**Command.** `disk` is the contents of the files that exist, `st[p]` where
invocation `p` has got to, with the fields of `struct command` (`inputs`, `output`,
`options`), the streams it has opened (c->fp is the last one; the earlier ones are
only flushed at exit), and the bytes it read back.  A stream is the C library's: a
position and up to `Buf` bytes not written yet.  `Exec` parses the arguments;
`Compile`, `Open`, `Generate`, `Dump` and `NextInput` are a turn of `command_build`'s
loop, cut where another invocation can come between; `Seek` and `Read` are
`freadbin`, `Execute` is vm_open and vm_run on what was read, `Close` is
`command_free` and `exit`.  `Kill` may happen at any point.  What the other parts do
with a source is a record (`SourceType`).  `last` and `shared` are histories: for
whom a file was last opened, and whether it was opened while another stream had it.

## 3. Runs

| Run | Asks | States |
|---|---|---|
| stack | do frames in a moving block implement an abstract call stack | 118102 |
| stack_current_frame | is `s->frame` always a frame: violated | |
| select | first matching clause, right bindings, nothing else written | 129578 |
| select_bound_rest | does a bound `xs..` match only equal lists: violated | |
| symtab | is a lookup ever wrong, two names in one register before the counter wraps, a constant another's, an operand misread | 204336 |
| symtab_insert | is a defined name known: violated | |
| program | 186 programs compiled and run: right value, end, frames, registers, jumps | 8152 |
| program_rest_dropped | do only last selects return from their clauses: violated | |
| program_constant_argument | is a tail call's argument a register: violated | |
| layout | do tokens nest as lines are indented, and does the parser give back what was laid out | 288383 |
| loader | is what is read what was written, and which are the limits | 12793 |
| command | do runs execute their own source, are outputs whole, does the status tell of failures | 125743 |

**stack.** Three clauses with frames of 48, 560 and 1648 bytes, the sizes of a
64-bit build with STACK_MAXDIFF 4096, two blocks, five nested calls.  Every
branch of `stack_push` (fits, doubles, exact) and `stack_pop` (keeps, shrinks,
frees, and grows by the wrapped test) occurs.  `Tiled`: frames do not overlap.
`Chained`: the links lead through all frames, after any number of moves.
`Proportionate`: the block stays within twice the use plus STACK_MAXDIFF.
`TargetInCaller`: a result is written into the caller.  `ImplementsCallStack`: the
whole refines CallStack under the mapping `Calls`, `Delivered`.  Two blocks are
enough: a move only needs the new block to differ from the old.

**select.** 18 patterns with repeated, outer and rest variables, nested both
ways, one or two clauses, 13 values, 5 enclosing scopes in every numbering.
`ChoosesFirst` and `BindsSolution` compare with `Instance`, a definition of
matching without registers (module Terms).  `Depth` is 2, which the patterns and values
here reach, and `LastReg` 9: enough registers for two clauses with two names each, as
RegistersAssumption asks.  `KeepsOthers` says that a clause that fails leaves
everything else alone.  Two clauses are enough for a failed one to precede a
chosen one; more add only repetitions.  All three are proved for any number of clauses, names
and registers and any depth (section 5).

**symtab.** Three names, two in one bucket, three scopes; a register counter of four
values (`NRegs`) and up to five registers (`MaxTaken`), so that it wraps around; four
literals, of which two share a text (a number and an atom), two a bucket, and one
has no text; `BitRK` is 2, half of `NRegs` as in the code, so that registers and constants both pass it.
`LookupSound`: no name is taken for another or survives its scope.  `OwnRegister`:
in a clause that takes at most `NRegs` registers two names never share one; and exactly as
long as it takes fewer, the frame that `dump_clause` asks for (`nreg`) holds them all: with the
last one `nreg` is 0, and after that the first ones are handed out again.
`LostByCollisionOnly`: a name that was defined is lost only to a name of its
bucket.  `OperandsTold`: the interpreter reads every operand as what it was handed
out for, exactly as long as there are at most `BitRK` registers and constants.
`ConstantSound`: a call of `gen_constant` gets its constant, or that of an earlier
call with the same text: `gen_access` looks up a module by its name, and an atom's
text is the same word.  All are proved for every value of the constants
(section 5).

**program.** Recursive paths from all combinations of seven ways to take the
recursive step, two base cases and five ways to go on, called by three mains;
and programs of `test/gen` and of the repository's README, with smaller numbers,
and ones that end in each error.  A program takes at most a few hundred steps.
`Correct`: the returned value is `MeaningOf(program)`.  `StaysInCode`: the next
instruction is one of the clause's.  `LoopsInOneFrame`: loops by tail calls do not
use stack.  `InFrame`: no instruction writes outside its frame's registers, except
the result.  `BoundOnce`: within a call a register is written once.  `Ends`: a
program that means something ends.  `Fuel` (6) bounds the calls Meaning follows
and `MaxFrames` (6) the frames; the programs that mean something nest fewer.
`CreditMod` (32 for 65536) makes the counter wrap within a run.

**layout.** 15470 files: every way to indent a few lines of words, with blank lines and
comments, ended by a newline or not; and layouts of programs in the styles that
`test/` uses (blocks on their own lines, selects inline and indented, clauses
with guards, comments between statements); each kind of expression as an operand
or member of each other; declarations and message paths; and all statements of three
tokens out of 17 kinds, most of which are errors.  `TableSize` is 8 so that files reach the
reallocation, `PtrSize` is 8.  `Nests`: the blocks the tokens have open are the
levels on the stack and the dedents that are due.  `ClosesAll`: a file that ends in a
newline has no block open at its end.  `Siblings`: two lines of one indentation
are in one block if nothing between them is further out or blank, also where lines
hang between two levels.  `TableFits`: the line table has room as long as a file
has fewer lines than the table; `source_addline` reallocates in bytes, to less
than there was, so that this is also where it ends.  `ReachesEnd`: T_EOF comes, unless a
comment is not ended by a newline (or, outside of these files, a string by its quote).  `ParsesBack`: parsing the tokens of a layout of a
program yields the program.  `NothingLost`: whatever is accepted, the tree has
all indented words of the file in their order, but for lines with an empty map.  The layouts for which `ParsesBack`
is claimed leave out the following, where the code does something else:
a select without an argument that another statement follows (`_parse_select`
takes the T_LF, so that the next line becomes the argument of an application of
the select), and an inline select before a line that starts with `?` (it becomes
the select's own argument, likewise);
a select whose first clause is on the line of the `?`
and the next on lines of their own, unless it ends its block (its T_INDENT is
skipped, its T_DEDENT is not); a blank line within a block (it closes all levels);
a path directly behind one whose block has several lines (`parse` skips the token
behind a path); and a file without a newline at its end (its last character is
read twice).

**loader.** A byte has 32 values in place of 256 (a type and its qualifier need
32), so that names of 31, atoms of 30 and tuples of 15 and 16 members are at the
limits.  About 1700 modules: each kind of parameter and of constant, alone,
in tuples, in lists and in lists of lists, with names, atoms, lists, tuples, numbers
of constants and lengths of code one below, at and above each limit (`CodeSize`, 48
for 4096), in modules of one path or of three.  `ReadsInStep`: while paths are read,
those that were read are those the generator made, as far as they are within the
limits, so that no clause makes the next be looked for in the wrong place.
`LoadsWithin`: a module within the limits is loaded as it was generated, to the
last byte of the file; `FailsBeyond`: one beyond them is not.  The limits are paths of
up to 255 characters and fewer than 256 clauses, atoms of up to 254 in parameters,
tuples of up to 127 members, clauses of up to 128
constants and 4095 instructions (the buffer's first growth leaves it with room for
2048), and 256 paths; the items of a list are only counted by an int.  The two
reversals of a list's items (consed by `gen_pattern`, written from
the head, consed again by `vm_readlist`) cancel out at any depth.
The first two are proved (section 5).  `FailsBeyond` is for these modules only: an
atom beyond its limit is read as a shorter one and the rest of it as what follows, and
there are texts that would make up for it by chance.

**command.** Two invocations with any two of 27 command lines: each command, with
options in every position, several inputs, `-o`, `--syntax`; `run` on each of 11
sources: good, missing, with errors, ended early, refused by the generator with and
without a message, without a directory for its output, without `main`, ending in an
error or in no number.  Two invocations are enough for every conflict over a file:
a third could only repeat one.  `Buf` is 2 and the builds have 1 to 5 bytes, so that a
build is written in several parts, of which the last waits for the exit.
`RunsOwnBuild`: what `run` executes is its own input's build, all of it, whatever was
in the file before, unless a second stream had the file open meanwhile.
`OutputsWhole`: a file nobody has open is the build of the source it was last opened
for, once that was generated and its command came to its end.  `StatusTold`: a
`build` ends with 0 exactly if every source the user named was built (with
`--syntax`, if the first has no errors), and a `run` never does otherwise.
Both conditions on `shared` are needed: with `-o` and two inputs one invocation
writes two builds into one file, and two runs share theirs.  `Paths` is all sequences of
strings here.  The three are proved for any number of invocations (section 5).

`CHECK_DEADLOCK FALSE` is set in the runs where the system stops by design: a
process that has returned or failed, a select that was decided, a stack whose
`s->frame` is stale, a file that is scanned or loaded, a command that has ended.

**Fairness.** `Ends` and `ReachesEnd` need it.  Machine's specification has weak fairness of
Next.  `vm_execute` is a loop that goes on as long as it has an instruction; with
one process, nothing else can keep it from the next one.  Layout has it, too:
`parse` goes on calling `scan` until it has T_EOF, also after errors (`nextline`
ends the program only there), and `scan` returns, except in a comment that is not ended,
where Layout has no step.

## 4. Abstract specifications

CallStack is what the interpreter expects of runtime.c; ProcStack implements it
(`ImplementsCallStack`), checked by TLC and proved.  SymTab is what ClauseTables
implements where variables are concerned (`ImplementsSymTab`, proved).  Meaning is what the language
promises; Program compares the outcome of every execution with it.  `Instance` in
Terms is what a pattern means: that `match` computes it, on what `gen_pattern` made of the
pattern, is the theorem `MatchIsInstance`.

## 5. Proofs

The eight proof modules hold for every value of the constants that satisfies the
named assumptions.

**ProcStackProofs**, from ClauseAssumption (operands are registers of their
clause), SizeAssumption (positive sizes; the first block, a header and a register,
is within STACK_MAXDIFF) and BlockAssumption (NULL is no block).  `Invariance`:
`Spec => []IInv`, with

    IInv == TypeOK /\ Tiled /\ Chained /\ Proportionate /\ TargetInCaller
            /\ ResultsNamed /\ Phases /\ SpawnedClean

The properties alone are not inductive.  A pop needs that the frame on top ends at
`size` (Tiled, Chained) to leave a tiling; the value it delivers is in the caller
only if every frame's result is a register of the clause below (ResultsNamed); and
`Phases` ties `status` to `depth`, so that a return always has a frame.  From it
`TypeCorrect`, `FramesTile`, `LinksIntact`, `MemoryProportionate` and
`ReturnsToCaller` follow.  `FrameLiveIfPopsInPlace` shows that the move in
`stack_pop` is the only cause of a stale `s->frame`, and `ValueLiveIfPopsKeepBlock`
that OP_RETURN, which takes the address of its register before the pop and reads it
after, reads the process's memory as long as the pop neither moves nor shrinks the
block.  Both premises are about what a pop may do; the code guarantees neither.

The last part is the refinement: `RefinesCallStack`, `Spec => ImplementsCallStack`.  Call i is the frame with i frames at or below it (`RankOf`).
`RankGrows`, `FrameAtRank` and `AddGreatest` are about such numbers in any finite
set: they are 1 to the cardinality, each is taken once (an injection into as many
numbers is onto them), and a new greatest member changes none of the others.  From
that `OneMoreCall`: headers with one more above them all stand for the same calls
and one more.  A push is that forwards (`PushIsEnter`) and a pop backwards
(`PopIsLeave`), relocated or not, because relocation keeps clauses and results.
`DeliveredToCaller`: the address a RETURN writes to lies in exactly one frame, since
frames tile, and the register it is in is the popped call's result.

**ClauseTablesProofs**.  The first part is about SymTab, from SymTabAssumption (at least one bucket, every name hashes
to one, a register counter with some number of values).  `Invariance` with

    IInv == Shape /\ Recorded /\ Stored /\ Apart

`Recorded`: a bucket holds at most one entry, which is what the generator defined.
This is so only because `sym_prepend` loses entries, and it is what makes a lookup
sound when a name is defined again after it was lost: were the old entry still
somewhere in the list, two entries would compete.  `Stored`: the bucket of a
defined name is taken.  `Apart`: registers are handed out once,
as long as `taken` is at most `NRegs`; `Shape` has that `nreg` is `taken` below that, which is
what makes the next register a new one and the frame large enough.  From it
`TypeCorrect`, `LookupIsSound`, `RegistersAreOwned` and `OnlyCollisionsLose`
follow; the innermost scope that knows a name exists by the lemma `Greatest`, from
well-foundedness of `<`.

The second part is about ClauseTables, from SymTab's assumption and ClauseTablesAssumption (buckets,
hashes; `NRegs` more than BitRK and at most 2 * BitRK, and at most that many constants: the operands are bytes).
`ImplementsSymTab` carries SymTab's theorems over.  `CTInvariance`: an entry of
`ktable` is the index of a constant that was asked for under its text, and a bucket
has at most one, by the same loss as in SymTab.  `ConstantsAreSound` follows, and
`OperandsAreTold`, which counts the registers handed out and not `nreg`, from the ranges of indices and the arithmetic of the bit.

**LayoutProofs**, from FilesAssumption (files have lines of tokens, at least one)
and TableAssumption (positive sizes).  `Invariance` with

    IInv == TypeOK /\ file \in Files /\ out \in Seq(...) /\ (lf => HasLF(line)) /\ ... /\ Nests

What it adds to the properties: a T_LF is only returned where the file has another
line; the last line that can be reached is the empty one behind the final newline, on
which only level 0 is left; at T_EOF of such a file no dedent is due; and `bytes` is a
function of the number of lines.  `TokensNest`, `AllClosed`, `TypeCorrect` and
`TableHasRoom` follow.  `Nests` counts tokens by the cardinality of a set of
positions; the lemmas on it say what one more token adds.

`SiblingsStay` has a second invariant, on top of IInv:

    SInv == Count("LF") = Here - 1 /\ levels increase /\ (~lf => Fits(line, Len(lvls)))
            /\ Stays /\ Paired

`scan_indent` puts a line on the first level that is not less than its indentation
(`Fits`), which need not be equal to it.  So a line that is at least as far in as an
earlier one cannot make the scanner leave the earlier one's level (`Stays`), and if it
is exactly as far in, the first level not less than its indentation is that level
(`Paired`).  All actions of Layout return one token and
keep the levels up to some position, or add one; `NextScans` says so once, and the
preservation of SInv needs no more than that.

**CommandProofs**, from CommandAssumption (what becomes of each source is known;
paths of outputs are paths; NULL is none; `Buf` is positive) and LinesAssumption (command
lines are lists of arguments, and each file a user names as a source is one of
Sources, which may be missing ones).  `Paths` is any set of sequences; invocations, lines and
sources are any sets, and streams have buffers of any size.  `Invariance` with

    IInv == Shape /\ Progress /\ Contents

`Contents` is about the files.  A file that is not in `shared` has at most one stream,
that of the invocation that opened it last (`Owned`); therefore its bytes
and, behind them, those the stream still keeps are the beginning of one build, and all of it once the source
counts as built (`Written`).  Neither half would be inductive without the other: a flush
leaves a beginning only if the stream's position is the file's end, which another
stream could have moved.  A stream goes only when it has been flushed, or with a
crash (`Closed`), and as long as an invocation works it holds what it opened
(`Opener`), so that a file nobody has open is whole.  `Current` and `Reading` follow the last stream to
what `freadbin` reads.  `Progress` ties the position in the loop, the streams, the sources built
and the exit status to `pc`.  `RunsItsOwnBuild`, `OutputsAreWhole` and
`StatusIsTold` follow.  The status is about the sources the user named, and `Exec`
about those that the loop over the arguments finds: `NamedUpTo` relates the two after each argument.
The loop is a recursive function; that it is what its definition says is
obtained from an induction over the sets of numbers (`SetInduction`, from the well-foundedness
of `<`), because the library's induction theorem cannot be instantiated here.

**FormatProofs**, from BaseAssumption (a byte has an even number of values, at least
the 32 of a type with its qualifier) and DepthAssumption.  A reader is right when it
gives back a value wherever that value's bytes are in a file (`Holds`), and stops at
their end, whatever is behind them.  This is proved of bytes, of numbers (`QuotientFacts`: an int is its
four bytes, the last one signed), of lengths, of texts, of values one after the
other (`HoldsParts`, `ReadManyParts`), and by induction on the depth of parameters
(`ReadNodeRound`) and constants (`ReadConstantsRound`).  The induction step needs more
than the reader of the values inside: it is one with fewer bytes left, and that enough
are left is part of what the induction says (`NodesRound`, `ConstantsRound`).
`ReadClauseRound`, `ReadPathRound` and `FileRound` put the parts together.  The
functions of depths and bytes, and the loops, are recursive; that they are
what their definitions say (`...Exists`, `...Step`, `...Loop`) is obtained
from the same induction over sets of numbers as in CommandProofs.

**LoaderProofs**, moreover from LoaderAssumption (the modules are made of names,
clauses, parameters and constants; an int holds the size of the code buffer).
`Invariance` with

    Inv == module \in Seq(Made) /\ PathsTyped(paths) /\ Unread /\ FileWritten /\ Counted
           /\ AsGenerated /\ InStep /\ LoadedWhole /\ NotCrashed

`InStep` is what makes the properties inductive: while all paths so far are inside of the
limits, `b` is exactly where the next one, or the next clause of the last one, was
written (`PathEnds`, `ClauseEnds`), and `nclauses` is the number the last one has.
`AsGenerated` alone would allow a reader that is off by a byte and has not met the
consequences.  Of what is read behind a path that is not inside of the limits nothing
is said; the paths before it stay.  `StaysInStep` and `LoadsWhatFits` follow, for
modules of any size and values of any depth.

**TermsProofs**, from TermsAssumption (finitely many names, a depth, registers
whose numbers are bytes).  Three theorems, for patterns of any depth, in any scope:

- `PatternCompiles`: the scope after a pattern is the one before, with the pattern's new names,
  one register each, out of those counted, as many as are counted.  (As long as they are in
  a frame, of 256 registers at most: Patterns counts on where `nextreg` wraps around.)
- `MatchWritesOwn`: a match, also one that fails after binding some names, changes no
  register outside of the ones counted for its pattern.
- `MatchIsInstance`: if the frame holds a value for each name in scope, a match
  succeeds exactly when the value is an instance of the source pattern under some bindings that
  agree with the frame; then it returns the number of registers that `gen_pattern`
  counted, and the frame it leaves is the only such bindings.

The third needs the second inside of its induction: the members of a tuple are matched
one after the other in one frame, and the bindings of the first survive the second only because
that one writes to registers of its own.  And it is the counts that
make this so: a member starts at the register behind those `match` counted for the members before it
(`at + r.n`), which is the one `gen_pattern` gave it only because each member returned what was
counted for it.  The inductive steps are `MembersExact` (tuples and lists
with no rest) and `RestListExact`, on top of `Chain`, the scopes and registers between
members that `gen_pattern` passes through; `BoundExact` is the case of a name in scope, where
`match` goes down a value as if it were a pattern.  The induction over the depth is again one over a set of
numbers (`SetInduction`), and the recursive functions are shown to be what their definitions say
(`...Exists`, `...Def`).

Two restrictions.  `~BoundRest`: no `xs..` names a variable in scope; there the theorem is false
(section 6).  RestLast, in `PatternType`: a rest is the last member of its list; the
parser takes `[x.., y]` too, and `match_list` ignores what is behind the rest.

**SelectProofs**, moreover from SelectAssumption (patterns, values and scopes are Terms' types)
and RegistersAssumption (a frame has registers for the outer names, the
argument, the result, and for each clause its own register and one per name).  `Invariance` with

    IInv == Setting /\ Progress /\ Compiled /\ Frame /\ Verdicts /\ BindsSolution

`Compiled`: each clause is what `GenClause` makes of its source at its register `a`, and the
registers from `a` on are behind the outer ones and within the frame (`Room`).
`Frame`: the outer names and the argument are in their registers.  It is inductive by
`Compiled` and `MatchWritesOwn`, and it is what `MatchIsInstance` asks of the frame
for the next clause, whatever the earlier ones left in theirs.  `Verdicts`: a clause that was
tried was chosen if it has a solution.  `ChoosesFirst` follows from the last two; it is not
inductive by itself, because it says nothing when any clause tried is one of the exceptions.  `FirstIsChosen`,
`SolutionIsBound` and `OthersAreKept` are the three properties of the run.

Checked by TLC only: liveness (`Ends`, `ReachesEnd`), which the prover does not treat;
Blocks, which computes on trees by recursion; `FailsBeyond`, which is not true of
every module (section 3);
everything in Program, which is about trees and code of any form and relates three
recursive computations (compiler, machine, meaning; these modules use RECURSIVE
operators).

## 6. Findings

Each is a violation run; `PROJECT.json` quotes the code.

- `stack_pop` (runtime.c:105) moves the block and leaves `s->frame` in the freed
  one.
- `match_list` (vm.c:315) does not look at the outcome of a rest that is bound.
- `sym_prepend` (symtab.c:143) does not store a symbol whose bucket is taken.
- `gen_apply` (generator.c:247) takes a call at the end of a clause of any select
  for a tail call; what follows the select is dropped.
- `gen_apply` (generator.c:255) passes a constant where OP_TAILCALL reads a
  register.

Program's `Supported` excludes these, and moreover: a parameter with a name twice
(the loader forgets the names), lists that `reduce_node` does not reach (gen_list
makes them empty), and a first path that ends in a call of another path (gen_apply
follows a NULL parent).

Met on the way, without a run of their own:

- OP_RETURN (vm.c:665) hands out the address of a register in memory that the last
  pop has freed if the block was above STACK_MAXDIFF: `ValueLiveIfPopsKeepBlock`
  names what it would need.
- Commands: `-v` takes the next argument with it, so that `run -v a.arb` does
  nothing and ends with 0 (`Named` leaves such arguments out).  `run` looks for its
  module under the path up to its first dot, the generator names it up to the last:
  calls within `./x.arb` fail.  `build --syntax a b` checks only `a`; `run --syntax`
  ends with 0 despite errors.  `--pre`, `--help`, `--version` and `clean` of the usage
  are not implemented; the status is the program's value modulo 256.
- `nextreg` (generator.c:171) wraps around at 256: after that names share registers, and the frame
  has `nreg` of them, fewer than the code uses, where OP_LOADK's assertion (vm.c:516, in
  debug builds only) wants them in it.  `OwnRegister` has the limits.
- An undefined or redefined name is reported by the generator (generator.c:314, 678), which then
  goes on with the operand -1, writes the file and leaves the status at 0: only the
  parser's errors are counted.  `StatusTold` counts such a file as built.
- A string without its closing quote is scanned forever (`scan_string`, scanner.c:151); Layout's
  files have none.
- A rest that is not the last member, `[x.., y]`, is accepted; `match_list` binds all
  that remains to `x` and does not look at `y`, whose register is never written.
- Parser: `{}` makes the rest of its line vanish without an error, ends the program
  with status 1 and no message where no line follows, and crashes it in `(1, {})`; `_`
  is a pattern but not a member of one, although the comment at parser.c:746 has
  `(ok, _)`; a `/` behind a name without an accessor is dropped; the named parameter of
  a module declaration takes the token behind the name.

## 7. Not modelled

- Characters of tokens; what the parser goes on to report after an error, since the
  tree is then discarded.
- Strings, `gen_match` (the op-code it emits has a jump nobody patches), pipes,
  modules other than the running one, selects as values: the generator refuses
  them or the interpreter has no case for them.
- More than one process: no op-code creates one, so `vm_select` has no choice.
  `SpendAndSelect` models the credits of the one there is.
- What a list contains once its members' frame is gone, and what is read from
  memory that was freed: Machine and ProcStack stop there.
- Printing, the text of reports, help, freeing of memory at exit.

## 8. Plan

1. Done: CallStack, ProcStack; Match, Patterns, Select; Buckets, SymTab;
   Generator, Machine, Meaning, Program; proofs of ProcStack and SymTab.
2. Done: Loader (the file format); Layout, Blocks (scanner, line table, parser);
   proofs of Layout.
3. Done: ClauseTables and its proofs; the code buffer in Loader; the whole grammar
   in Blocks; Command; the proof that ProcStack implements CallStack; proofs of Command,
   of Layout's `Siblings` and of Loader's round trip.
4. Lists as chains of pointers (OP_CONS): when a list outlives the frame its
   members are in.
5. Done: Terms and its proofs; the proofs of Select.
6. Proofs: the abstract nesting of lines as a specification that Layout implements; OP_MATCH in
   Machine as an instance of Terms' `Match`.
