------------------------------ MODULE ProcStack ------------------------------
(***************************************************************************)
(* The stack of an arbre process (struct stack, src/runtime.c) in memory,  *)
(* driven by the interpreter (src/vm.c): vm_run and OP_CALL push a frame,  *)
(* OP_RETURN pops one and writes the value into the caller's frame.        *)
(*                                                                         *)
(* All frames live in one malloc'd block that realloc grows or shrinks and *)
(* may move; a frame refers to its caller by address.  An address is a     *)
(* block and an offset in bytes, so an address taken before a move does    *)
(* not denote the same byte after it.                                      *)
(*                                                                         *)
(* The contents of registers are left to the modules about instructions.   *)
(* OP_TAILCALL keeps the frame it runs in: compiled code only ever         *)
(* re-enters the clause it is in, so size, prev and clause do not change.  *)
(***************************************************************************)
EXTENDS Integers, FiniteSets

CONSTANTS
    Clauses,      \* the clauses that are ever called
    NLocals,      \* NLocals[c]: number of registers of clause c
    ResultRegs,   \* ResultRegs[c]: the A operands of the CALLs in c's code
    ReturnRegs,   \* ReturnRegs[c]: the A operands of the RETURNs in c's code
    FrameSize,    \* sizeof(struct frame)
    ValueSize,    \* sizeof(struct tvalue)
    MaxDiff,      \* STACK_MAXDIFF
    Blocks,       \* the addresses malloc and realloc can return
    NoBlock,      \* NULL
    NoDelivery,   \* no value was delivered yet (of CallStack)
    MaxDepth      \* bound on the number of nested calls

ASSUME ClauseAssumption ==
    /\ NLocals \in [Clauses -> Nat]
    /\ ResultRegs \in [Clauses -> SUBSET Nat]
    /\ ReturnRegs \in [Clauses -> SUBSET Nat]
    \* the operands name registers of the clause they are in
    /\ \A c \in Clauses : \A r \in ResultRegs[c] \cup ReturnRegs[c] :
          r < NLocals[c]

ASSUME SizeAssumption ==
    /\ FrameSize \in Nat \ {0}
    /\ ValueSize \in Nat \ {0}
    /\ MaxDiff \in Nat
    /\ FrameSize + ValueSize <= MaxDiff
    /\ MaxDepth \in Nat

ASSUME BlockAssumption == NoBlock \notin Blocks

VARIABLES
    base,         \* s->base
    size,         \* s->size
    capacity,     \* s->capacity
    depth,        \* s->depth
    frame,        \* s->frame
    mem,          \* the frame headers in the block, by offset
    status,       \* where vm_run is: "spawned", "running", "returned"
    value,        \* address of the register the last RETURN returned
    target        \* address the last RETURN wrote that value to

stack == <<base, size, capacity, depth, frame, mem>>
vars == <<stack, status, value, target>>

Pointer == [blk : Blocks \cup {NoBlock}, off : Nat]
Ptr(b, o) == [blk |-> b, off |-> o]
NULL == Ptr(NoBlock, 0)

Header == [prev : Pointer, clause : Clauses, result : Nat]

\* Bytes a frame of clause c takes: the header and its locals.
Bytes(c) == FrameSize + ValueSize * NLocals[c]

\* &f->locals[r], for the frame at address f.
Local(f, r) == Ptr(f.blk, f.off + FrameSize + ValueSize * r)

Max2(m, n) == IF m < n THEN n ELSE m

\* The address p, recomputed after the block at `old` moved to `new`:
\* p - old + new.  For an address that is not in the old block the result
\* is an address of no block at all.
Relocate(p, old, new) ==
    IF p = NULL THEN NULL
    ELSE IF p.blk = old THEN Ptr(new, p.off) ELSE Ptr(NoBlock, p.off)

\* Mutated form: the links are not relocated.
StackCorrectNone(m, walked, old, new) == m

\* stack_correct: walk the frames from s->frame along prev and relocate each
\* prev.  `walked` is the set of offsets of the headers of the block that the
\* walk reaches.
StackCorrect(m, walked, old, new) ==
    [o \in DOMAIN m |->
        IF o \in walked THEN [m[o] EXCEPT !.prev = Relocate(@, old, new)]
                        ELSE m[o]]

Init ==
    /\ base \in Blocks
    /\ size = 0
    /\ capacity = FrameSize + ValueSize
    /\ depth = 0
    /\ frame = NULL
    /\ mem = [o \in {} |-> NULL]
    /\ status = "spawned"
    /\ value = NULL
    /\ target = NULL

\* Every instruction reads through s->frame.  Once that is a stale address
\* the behaviour is undefined, and the specification says nothing of it.
FrameLive == frame = NULL \/ frame.blk = base

\* stack_push(s, c), and the result register the caller then writes into the
\* new frame.
StackPush(c, r) ==
    LET nsize == size + Bytes(c)
        grow  == capacity < nsize
    IN \E b \in Blocks :
         /\ grow \/ b = base
         /\ base' = b
         /\ capacity' = IF grow THEN Max2(2 * capacity, nsize) ELSE capacity
         /\ frame' = Ptr(b, size)
         /\ size' = nsize
         /\ mem' =
              LET m == [o \in DOMAIN mem \cup {size} |->
                          IF o = size
                            THEN [prev |-> frame, clause |-> c, result |-> r]
                            ELSE mem[o]]
              IN IF depth > 0 /\ grow
                   THEN StackCorrect(m, DOMAIN m, base, b)
                   ELSE m
         /\ depth' = depth + 1

\* Mutated form: memory is never given back.
OutOfProportionNever(cap, sz) == cap < 2 * sz

\* The test of stack_pop for giving memory back.  Both sides are size_t: when
\* more than half of the block is in use the difference wraps around to a
\* huge number, and the block is made larger instead.
OutOfProportion(cap, sz) == cap < 2 * sz \/ cap - 2 * sz > MaxDiff

\* Mutated form: the locals of the caller's clause are subtracted.
StackPopCallersSize ==
    LET f       == mem[frame.off]
        c       == IF f.prev = NULL THEN f.clause ELSE mem[f.prev.off].clause
        nsize   == size - Bytes(c)
        resize  == OutOfProportion(capacity, nsize)
        rest    == [o \in DOMAIN mem \ {frame.off} |-> mem[o]]
    IN \E b \in IF resize THEN (IF nsize = 0 THEN {NoBlock} ELSE Blocks)
                          ELSE {base} :
         /\ base' = b
         /\ capacity' = IF resize THEN 2 * nsize ELSE capacity
         /\ size' = nsize
         /\ depth' = depth - 1
         /\ frame' = f.prev
         /\ mem' = IF b # base
                     THEN StackCorrect(rest, DOMAIN rest \ {f.prev.off}, base, b)
                     ELSE rest

\* Mutated form: the locals are not subtracted.
StackPopKeepsSize ==
    LET f       == mem[frame.off]
        nsize   == size - FrameSize
        resize  == OutOfProportion(capacity, nsize)
        rest    == [o \in DOMAIN mem \ {frame.off} |-> mem[o]]
    IN \E b \in IF resize THEN (IF nsize = 0 THEN {NoBlock} ELSE Blocks)
                          ELSE {base} :
         /\ base' = b
         /\ capacity' = IF resize THEN 2 * nsize ELSE capacity
         /\ size' = nsize
         /\ depth' = depth - 1
         /\ frame' = f.prev
         /\ mem' = IF b # base
                     THEN StackCorrect(rest, DOMAIN rest \ {f.prev.off}, base, b)
                     ELSE rest

\* stack_pop(s).  When realloc moves the block, s->frame keeps the address of
\* the caller's frame in the freed block, and so stack_correct walks from the
\* freed copy of that frame: the caller's header in the new block is the one
\* it does not reach.
StackPop ==
    LET f       == mem[frame.off]
        nsize   == size - Bytes(f.clause)
        resize  == OutOfProportion(capacity, nsize)
        rest    == [o \in DOMAIN mem \ {frame.off} |-> mem[o]]
    IN \E b \in IF resize THEN (IF nsize = 0 THEN {NoBlock} ELSE Blocks)
                          ELSE {base} :
         /\ base' = b
         /\ capacity' = IF resize THEN 2 * nsize ELSE capacity
         /\ size' = nsize
         /\ depth' = depth - 1
         /\ frame' = f.prev
         /\ mem' = IF b # base
                     THEN StackCorrect(rest, DOMAIN rest \ {f.prev.off}, base, b)
                     ELSE rest

-----------------------------------------------------------------------------
\* vm_run: the process's first frame.  Its result field is never written, so
\* it holds whatever malloc returned.
Run(c) ==
    /\ status = "spawned"
    /\ \E r \in ResultRegs[c] \cup {0} : StackPush(c, r)
    /\ status' = "running"
    /\ UNCHANGED <<value, target>>

\* Mutated form: A is not stored in the frame.
CallNoResult(c, r) ==
    /\ status = "running" /\ FrameLive
    /\ depth < MaxDepth
    /\ r \in ResultRegs[mem[frame.off].clause]
    /\ StackPush(c, 0)
    /\ value' = NULL
    /\ target' = NULL
    /\ UNCHANGED status

\* OP_CALL A B C: push the callee's frame and store A in it.
Call(c, r) ==
    /\ status = "running" /\ FrameLive
    /\ depth < MaxDepth
    /\ r \in ResultRegs[mem[frame.off].clause]
    /\ StackPush(c, r)
    /\ value' = NULL
    /\ target' = NULL
    /\ UNCHANGED status

\* Mutated form: the value is written to the frame that was popped.
ReturnToSelf(a) ==
    /\ status = "running" /\ FrameLive
    /\ a \in ReturnRegs[mem[frame.off].clause]
    /\ StackPop
    /\ value' = Local(frame, a)
    /\ IF depth' = 0
         THEN status' = "returned" /\ target' = NULL
         ELSE /\ target' = Local(frame, mem[frame.off].result)
              /\ UNCHANGED status

\* OP_RETURN A: pop, then either leave the interpreter with &R[A] or copy
\* R[A] to the caller's result register.  R and the popped frame's result
\* are read at the addresses they had before the pop.
Return(a) ==
    /\ status = "running" /\ FrameLive
    /\ a \in ReturnRegs[mem[frame.off].clause]
    /\ StackPop
    /\ value' = Local(frame, a)
    /\ IF depth' = 0
         THEN status' = "returned" /\ target' = NULL
         ELSE /\ target' = Local(frame', mem[frame.off].result)
              /\ UNCHANGED status

Next ==
    \/ \E c \in Clauses : Run(c)
    \/ \E c \in Clauses, r \in UNION {ResultRegs[d] : d \in Clauses} : Call(c, r)
    \/ \E a \in UNION {ReturnRegs[d] : d \in Clauses} : Return(a)

Spec == Init /\ [][Next]_vars

-----------------------------------------------------------------------------
\* The state of runtime.h's struct stack and of the interpreter's two
\* addresses stays within the types the code gives them.
TypeOK ==
    /\ base \in Blocks \cup {NoBlock}
    /\ size \in Nat
    /\ capacity \in Nat
    /\ depth \in Nat
    /\ frame \in Pointer
    /\ mem = [o \in DOMAIN mem |-> mem[o]]
    /\ DOMAIN mem \subseteq Nat
    /\ \A o \in DOMAIN mem : mem[o] \in Header
    /\ status \in {"spawned", "running", "returned"}
    /\ value \in Pointer
    /\ target \in Pointer

\* The end of the frame at offset o.
EndOf(o) == o + Bytes(mem[o].clause)

\* The frames tile the used part of the block: each starts where another ends
\* or at the base, ends at or before size, and s->depth counts them.  This
\* keeps the registers of two calls from sharing memory.
Tiled ==
    /\ IsFiniteSet(DOMAIN mem)
    /\ Cardinality(DOMAIN mem) = depth
    /\ \A o \in DOMAIN mem :
          /\ EndOf(o) <= size
          /\ o = 0 \/ \E p \in DOMAIN mem : EndOf(p) = o
    /\ \A o, p \in DOMAIN mem : o < p => EndOf(o) <= p
    /\ size = 0 <=> DOMAIN mem = {}

\* As long as s->frame is good, it is the address of the topmost frame and the
\* prev links lead through every frame below it, in order, to the outermost
\* one: what stack_push's and stack_pop's relocations must preserve, and what
\* lets stack_correct's walk reach every frame.
Chained ==
    FrameLive =>
      /\ frame = NULL <=> depth = 0
      /\ frame # NULL => frame.off \in DOMAIN mem /\ EndOf(frame.off) = size
      /\ \A o \in DOMAIN mem :
            LET prev == mem[o].prev
            IN IF o = 0 THEN prev = NULL
               ELSE /\ prev.blk = base
                    /\ prev.off \in DOMAIN mem
                    /\ EndOf(prev.off) = o

\* No frame lies outside the block, and the block is at most twice the part
\* in use plus STACK_MAXDIFF: what stack_push's doubling and stack_pop's
\* (unsigned) test for shrinking bound together, at any point of any run.
Proportionate == size <= capacity /\ capacity <= 2 * size + MaxDiff

\* The value a RETURN delivers is written to a register of the frame that is
\* then current, inside the block, never over a header or another frame.
TargetInCaller ==
    (FrameLive /\ target # NULL) =>
      /\ target.blk = base
      /\ \E r \in ResultRegs[mem[frame.off].clause] : target = Local(frame, r)
      /\ target.off + ValueSize <= size

\* The result register of a frame names a register of the caller's clause
\* (the outermost frame has no caller).
ResultsNamed ==
    FrameLive =>
      \A o \in DOMAIN mem :
        o # 0 => mem[o].result \in ResultRegs[mem[mem[o].prev.off].clause]

\* vm_execute runs exactly while there is a frame, and only the last pop of a
\* process frees its block.
Phases ==
    /\ status = "running" <=> depth > 0
    /\ status = "running" <=> frame # NULL
    /\ base = NoBlock => status = "returned"

\* Nothing has been returned before the first call.
SpawnedClean == status = "spawned" => value = NULL /\ target = NULL

\* The inductive invariant the proofs use.
IInv ==
    /\ TypeOK
    /\ Tiled
    /\ Chained
    /\ Proportionate
    /\ TargetInCaller
    /\ ResultsNamed
    /\ Phases
    /\ SpawnedClean

\* vm.c:497 calls s->frame the "Current stack-frame": it should always be the
\* address of a frame of the stack's block.
CurrentFrame == frame # NULL => frame.blk = base

-----------------------------------------------------------------------------
\* The abstract call stack this implements: the frames of the block in the
\* order of their addresses, and the register that contains the address the
\* last RETURN wrote to.
RankOf(o) == Cardinality({p \in DOMAIN mem : p <= o})

Calls ==
    [i \in 1..depth |->
        LET o == CHOOSE p \in DOMAIN mem : RankOf(p) = i
        IN [clause |-> mem[o].clause, result |-> mem[o].result]]

Delivered ==
    IF target = NULL THEN NoDelivery
    ELSE LET o == CHOOSE p \in DOMAIN mem :
                    p + FrameSize <= target.off /\ target.off < EndOf(p)
         IN [call |-> RankOf(o),
             reg  |-> (target.off - o - FrameSize) \div ValueSize]

CS == INSTANCE CallStack WITH calls <- Calls, delivered <- Delivered

\* The frames in memory behave as the abstract call stack.
ImplementsCallStack == CS!Spec
=============================================================================
