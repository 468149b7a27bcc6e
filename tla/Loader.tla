-------------------------------- MODULE Loader --------------------------------
(***************************************************************************)
(* A module's way through its file: generate (src/generator.c) writes what *)
(* the generator made of the paths, vm_open (src/vm.c, src/bin.c) reads it *)
(* for the machine, path by path and clause by clause.  The two share no   *)
(* description of the format.                                              *)
(*                                                                         *)
(* A file is a sequence of bytes; texts are sequences of bytes but 0.  A   *)
(* read behind the end, which in C gets whatever is there, a write behind  *)
(* the end of a buffer, and a failed assertion all count as a crash.       *)
(***************************************************************************)
EXTENDS Format

CONSTANTS
    Modules,      \* what the generator has made of some programs
    CodeSize      \* 4096: the instructions a clause has room for at first

\* Parameters and constants of all kinds.
Made == Paths(Clauses(Parameters(Texts, Nat)[Depth], Values(Nat)[Depth]))

ASSUME LoaderAssumption ==
    /\ Modules \subseteq Seq(Made)
    /\ CodeSize \in Nat \ {0} /\ CodeSize < IntMax

VARIABLES
    module,       \* g->paths: [name, clauses] each
    file,         \* the file's contents
    b,            \* the byte to read next
    paths,        \* m->paths, as far as read
    pathsn,       \* their number, according to the file
    nclauses,     \* the number of clauses of the last path
    status        \* "generated", "written", "opened", "loaded" or "crashed"

vars == <<module, file, b, paths, pathsn, nclauses, status>>

-----------------------------------------------------------------------------
\* Mutated form: gen grows the buffer by CodeSize instructions.
OverrunsNever(pc) == pc < 0

\* gen grows the buffer by CodeSize whenever pc = codesize - 1, but to codesize
\* bytes: is instruction pc, of four bytes, written behind its end?
Overruns(pc) ==
    LET grown == (pc + 1) \div CodeSize
    IN grown > 0 /\ 4 * (pc + 1) > (grown + 1) * CodeSize

\* The generator's buffers hold what it made: g->paths, p->clauses, kheader, the
\* code.
InBuffers(ps) ==
    /\ Len(ps) <= Base
    /\ \A i \in 1..Len(ps) :
         /\ Len(ps[i].clauses) < Base
         /\ \A j \in 1..Len(ps[i].clauses) :
              /\ Len(ps[i].clauses[j].constants) <= Base \div 2
              /\ \A pc \in 0..Len(ps[i].clauses[j].code) - 1 : ~Overruns(pc)

-----------------------------------------------------------------------------
Init ==
    /\ module \in Modules
    /\ file = <<>> /\ b = 1
    /\ paths = <<>> /\ pathsn = 0 /\ nclauses = 0
    /\ status = "generated"

\* generate, and io_readfile in command_run.
Write ==
    /\ status = "generated"
    /\ IF InBuffers(module)
         THEN file' = Dump(module) /\ status' = "written"
       ELSE file' = file /\ status' = "crashed"
    /\ UNCHANGED <<module, b, paths, pathsn, nclauses>>

\* vm_open, up to the paths.
Open ==
    /\ status = "written"
    /\ LET n == ReadInt(file, 5)
       IN /\ b' = n.p
          /\ pathsn' = n.x
          /\ status' = IF file[1] = Magic /\ n.p # 0 THEN "opened" ELSE "crashed"
    /\ UNCHANGED <<module, file, paths, nclauses>>

\* The last path is complete.
Complete == paths # <<>> => Len(paths[Len(paths)].clauses) = nclauses

\* vm_readpath, with the clauses still to be read.
ReadPath ==
    /\ status = "opened"
    /\ Complete /\ Len(paths) < pathsn
    /\ LET r == ReadPathAt(file, b)
       IN IF r.p = 0 THEN status' = "crashed" /\ UNCHANGED <<b, paths, nclauses>>
          ELSE /\ b' = r.p
               /\ paths' = Append(paths, [name |-> r.x.name, clauses |-> <<>>])
               /\ nclauses' = r.x.nclauses
               /\ UNCHANGED status
    /\ UNCHANGED <<module, file, pathsn>>

\* vm_readclause, called by vm_readpath.
ReadClause ==
    /\ status = "opened"
    /\ ~Complete
    /\ LET r == ReadClauseAt(file, b)
       IN IF r.p = 0 THEN status' = "crashed" /\ UNCHANGED <<b, paths>>
          ELSE /\ b' = r.p
               /\ paths' = [paths EXCEPT ![Len(paths)].clauses = Append(@, r.x)]
               /\ UNCHANGED status
    /\ UNCHANGED <<module, file, pathsn, nclauses>>

\* The end of vm_open.
Loaded ==
    /\ status = "opened"
    /\ Complete /\ Len(paths) >= pathsn
    /\ status' = "loaded"
    /\ UNCHANGED <<module, file, b, paths, pathsn, nclauses>>

Next == Write \/ Open \/ ReadPath \/ ReadClause \/ Loaded

Spec == Init /\ [][Next]_vars

-----------------------------------------------------------------------------
\* The limits of the format (of names, atoms of parameters, and tuples) and of
\* the generator's buffers: codesize - 1 instructions, 128 constants, 256 paths.
Fitting ==
    {p \in Paths(Clauses(Parameters({a \in Texts : Len(a) + 1 < Base}, {n \in Nat : 2 * n < Base})[Depth],
                         Values({n \in Nat : 2 * n < Base})[Depth])) :
       /\ Len(p.name) < Base /\ Len(p.clauses) < Base
       /\ \A i \in 1..Len(p.clauses) :
            Len(p.clauses[i].code) < CodeSize /\ Len(p.clauses[i].constants) <= Base \div 2}

\* While paths are read, those that were read are the first ones the generator
\* made, clause by clause, as long as they are inside of the limits: whatever a
\* clause contains, the next one is found where it is.
ReadsInStep ==
    \A n \in 1..Len(paths) :
      (\A i \in 1..n : module[i] \in Fitting) =>
        /\ paths[n].name = module[n].name
        /\ IsPrefix(paths[n].clauses, module[n].clauses)

\* A module inside of all limits.
Within(ps) == Len(ps) <= Base /\ \A i \in 1..Len(ps) : ps[i] \in Fitting

\* Inside the limits, what is loaded is what was generated, and the file is read
\* to its end.
LoadsWithin ==
    Within(module) =>
      /\ status # "crashed"
      /\ status = "loaded" => paths = module /\ b = Len(file) + 1

\* The limits are no wider than they need be: outside, nothing is loaded as it was
\* generated.
FailsBeyond == status = "loaded" /\ paths = module /\ b = Len(file) + 1 => Within(module)
=============================================================================
