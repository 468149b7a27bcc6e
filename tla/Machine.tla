-------------------------------- MODULE Machine --------------------------------
(***************************************************************************)
(* The interpreter (vm_call, vm_tailcall, vm_select and vm_execute of      *)
(* src/vm.c) running the code that Generator makes of a program.  One      *)
(* action per op-code that the generator emits.                            *)
(*                                                                         *)
(* The frames lie one behind the other in the stack's block, as ProcStack  *)
(* shows; an address in the block is a slot, the size of a tvalue, and a   *)
(* header takes HeaderSlots of them.  The block is taken to stay where it  *)
(* is when it is reallocated: what happens when it moves is the subject of *)
(* ProcStack.                                                              *)
(***************************************************************************)
EXTENDS Generator, Match

CONSTANTS
    Programs,       \* the programs to compile and run
    HeaderSlots,    \* sizeof(struct frame) / sizeof(struct tvalue)
    Junk,           \* the numbers that the bits of a pointer may add up to
    CreditMod,      \* 2^16, for Process.credits
    MaxFrames       \* bound on the number of nested calls

VARIABLES
    program,        \* the source
    module,         \* the clauses of the loaded module, by path
    konst,          \* their tables of constants, which OP_CALL writes to
    frames,         \* the frames, outermost first: [path, pc, base, result]
    mem,            \* the slots of the stack written so far
    credits,        \* proc->credits
    status,         \* "loaded", "running", or how the run ended
    ret,            \* the register vm_run returned
    lapses          \* history: what the run did that the language does not know

vars == <<program, module, konst, frames, mem, credits, status, ret, lapses>>

Init ==
    /\ program \in Programs
    /\ module = Compile(program)
    /\ konst = [f \in DOMAIN module |-> module[f].k]
    /\ frames = <<>>
    /\ mem = [i \in {} |-> Unset]
    /\ credits = 0
    /\ status = IF \E f \in DOMAIN module : module[f].crash THEN "crashed" ELSE "loaded"
    /\ ret = Unset
    /\ lapses = {}

Top == frames[Len(frames)]
Code == module[Top.path].code

\* The instruction f->pc points to; pc counts from 0.
Fetch == Code[Top.pc + 1]

Register(i) == Top.base + i
R(i) == Slot(mem, Register(i))
K(x) == konst[Top.path][x - BitRK + 1]

\* RK(x)
RK(x) == IF ISK(x) THEN K(x) ELSE R(x)

\* The slots of a frame at base that runs path f.
Slots(f, base) == base..base + module[f].nlocals - 1

\* The members of v that lie in the given slots.
RECURSIVE RefersTo(_, _)
RefersTo(v, slots) ==
    v.k \in {"tuple", "list"} /\
      \E i \in DOMAIN v.ms : \/ v.ms[i].k = "ref" /\ v.ms[i].slot \in slots
                             \/ RefersTo(v.ms[i], slots)

\* A list leaves the call whose registers hold its members.
Escapes(v, slots) == IF RefersTo(v, slots) THEN {"escaped"} ELSE {}

-----------------------------------------------------------------------------
\* proc->credits --, and, after any instruction but a call, a tail call or a
\* return, the test that lets vm_select choose a process.  There is only ever
\* one, whose credits it resets to 16.
Spend == credits' = (credits - 1) % CreditMod

\* Mutated form: a signed counter.
SpendSigned == credits' = IF credits - 1 = 0 THEN 16 ELSE credits - 1

SpendAndSelect ==
    LET c == (credits - 1) % CreditMod IN credits' = IF c = 0 THEN 16 ELSE c

Fixed == UNCHANGED <<program, module>>

\* Continue with the instruction at pc.
Goto(pc) == frames' = [frames EXCEPT ![Len(frames)].pc = pc]

Executing(op) == status = "running" /\ Fetch.op = op

\* An instruction that writes registers and goes on at pc.
Advance(m, pc) ==
    /\ mem' = m
    /\ Goto(pc)
    /\ SpendAndSelect
    /\ Fixed /\ UNCHANGED <<konst, status, ret>>

After == Top.pc + 1

Step(m, pc) == Advance(m, pc) /\ UNCHANGED lapses

\* The run ends: error() exits; or an instruction decides by the contents of a
\* register that nobody has written, and the run is not followed any further.
Stop(s) ==
    /\ status' = s
    /\ Spend
    /\ Fixed /\ UNCHANGED <<konst, frames, mem, ret, lapses>>

Numbers2(b, c) == b.k = "num" /\ c.k = "num"

-----------------------------------------------------------------------------
RECURSIVE Match(_, _, _, _, _)

\* match, which calls itself.
Match(M, base, p, v, at) ==
    MatchTerm(M, base, p, v, at, LAMBDA m, q, w, i : Match(m, base, q, w, i))

\* stack_push, and the match of the argument in vm_call.
Pushed(f, result, m) ==
    LET base == IF frames = <<>> THEN HeaderSlots
                ELSE Top.base + module[Top.path].nlocals + HeaderSlots
    IN [frame |-> [path |-> f, pc |-> 0, base |-> base, result |-> result],
        mem   |-> [i \in DOMAIN m \cup Slots(f, base) |->
                     IF i \in Slots(f, base) THEN Unset ELSE m[i]]]

Bound(m, f, base, arg) == Match(m, base, module[f].pattern, arg, base)

\* vm_run: main is called with no argument, whether its pattern wants one or
\* not.
Run ==
    /\ status = "loaded"
    /\ LET p == Pushed("main", 0, mem)
       IN frames' = <<p.frame>> /\ mem' = p.mem
    /\ status' = "running"
    /\ Fixed /\ UNCHANGED <<konst, credits, ret, lapses>>

Move == Executing("MOVE") /\ Step(Store(mem, Register(Fetch.a), R(Fetch.b)), After)

Loadk == Executing("LOADK") /\ Step(Store(mem, Register(Fetch.a), K(Fetch.b)), After)

\* ADD and SUB.  The types are only asserted in a debug build: of another type,
\* bits of a pointer are added, and the sum is taken for a number.
Arith ==
    /\ Executing("ADD") \/ Executing("SUB")
    /\ LET b == RK(Fetch.b)
           c == RK(Fetch.c)
           Result(n) == Advance(Store(mem, Register(Fetch.a), Num(n)), After)
       IN IF Numbers2(b, c)
            THEN /\ Result(IF Fetch.op = "ADD" THEN b.n + c.n ELSE b.n - c.n)
                 /\ UNCHANGED lapses
          ELSE /\ \E n \in Junk : Result(n)
               /\ lapses' = lapses \cup {"untyped"}

JumpTo == Executing("JUMP") /\ Step(mem, After + Fetch.b)

\* Skip the jump that follows, or take it.
Branch(taken, m, lapse) ==
    /\ Advance(m, IF taken THEN After + 1 ELSE After + Code[After + 1].b + 1)
    /\ lapses' = lapses \cup lapse

TryMatch ==
    /\ Executing("MATCH")
    /\ IF RK(Fetch.c) = Unset THEN Stop("undefined")
       ELSE LET m == Match(mem, Top.base, RK(Fetch.b), RK(Fetch.c), Register(Fetch.a + 1))
            IN Branch(m.n >= 0, m.mem, {})

\* GT and EQ.  Of another type than a number, bits of a pointer are compared.
Holds(op, m, n) == IF op = "GT" THEN m > n ELSE m = n
Compared(op) ==
    /\ Executing(op)
    /\ LET b == RK(Fetch.b)
           c == RK(Fetch.c)
       IN IF Numbers2(b, c) THEN Branch(Holds(op, b.n, c.n), mem, {})
          ELSE \E yes \in BOOLEAN : Branch(yes, mem, {"untyped"})

Greater == Compared("GT")

Equal == Compared("EQ")

NewTuple ==
    /\ Executing("TUPLE")
    /\ Step(Store(mem, Register(Fetch.a), Tuple([i \in 1..Fetch.b |-> Unset])), After)

SetTuple ==
    /\ Executing("SETTUPLE")
    /\ LET t == R(Fetch.a)
       IN Step(Store(mem, Register(Fetch.a), [t EXCEPT !.ms[Fetch.b + 1] = RK(Fetch.c)]),
               After)

NewList == Executing("LIST") /\ Step(Store(mem, Register(Fetch.a), List(<<>>)), After)

\* The new head is a pointer to the register or to the constant.
Prepend ==
    /\ Executing("CONS")
    /\ LET head == IF ISK(Fetch.c) THEN K(Fetch.c)
                   ELSE [k |-> "ref", slot |-> Register(Fetch.c)]
       IN Step(Store(mem, Register(Fetch.a), List(<<head>> \o R(Fetch.b).ms)), After)

\* OP_CALL.  A path that is called by its name for the first time is looked
\* up, and replaces the name in the table of constants.  The argument is
\* matched before the frame's result is set.
Call ==
    /\ Executing("CALL")
    /\ Len(frames) < MaxFrames
    /\ LET f   == K(Fetch.b).path
           arg == RK(Fetch.c)
           p   == Pushed(f, Fetch.a, mem)
           m   == Bound(p.mem, f, p.frame.base, arg)
       IN IF f \notin DOMAIN module THEN Stop("nopath")
          ELSE IF arg = Unset THEN Stop("undefined")
          ELSE IF m.n < 0 THEN Stop("nomatch")
          ELSE /\ frames' = Append([frames EXCEPT ![Len(frames)].pc = After], p.frame)
               /\ mem' = m.mem
               /\ konst' = [konst EXCEPT ![Top.path][Fetch.b - BitRK + 1] =
                              [k |-> "path", path |-> f]]
               /\ Spend
               /\ Fixed /\ UNCHANGED <<status, ret, lapses>>

\* Mutated form: the argument of a tail call is not matched.
RebindNot(f, base, arg) == Matched(0, mem)

\* vm_tailcall: the registers of the frame are cleared and bound again.
Rebind(f, base, arg) ==
    LET slots == Slots(f, base)
    IN Bound([i \in DOMAIN mem |-> IF i \in slots THEN Unset ELSE mem[i]], f, base, arg)

\* OP_TAILCALL: the argument is copied from a register.
TailCall ==
    /\ Executing("TAILCALL")
    /\ LET arg == R(Fetch.c)
           m   == Rebind(Top.path, Top.base, arg)
       IN IF arg = Unset THEN Stop("undefined")
          ELSE IF m.n < 0 THEN Stop("nomatch")
          ELSE /\ mem' = m.mem
               /\ Goto(0)
               /\ lapses' = lapses \cup Escapes(arg, Slots(Top.path, Top.base))
               /\ Spend
               /\ Fixed /\ UNCHANGED <<konst, status, ret>>

\* Mutated form: the result register of the frame that is gone.
ResultSlotOfPopped(n) == Top.base + Top.result

\* s->frame->locals[old->result], after the pop of the n-th frame.
ResultSlot(n) == frames[n - 1].base + Top.result

\* OP_RETURN: pop the frame and copy its register to the caller's register, or
\* leave the interpreter.
Return ==
    /\ Executing("RETURN")
    /\ LET v == R(Fetch.a)
           n == Len(frames)
       IN /\ frames' = SubSeq(frames, 1, n - 1)
          /\ lapses' = lapses \cup Escapes(v, Slots(Top.path, Top.base))
          /\ IF n = 1
               THEN status' = "returned" /\ ret' = v /\ UNCHANGED mem
               ELSE /\ mem' = Store(mem, ResultSlot(n), v)
                    /\ UNCHANGED <<status, ret>>
    /\ Spend
    /\ Fixed /\ UNCHANGED konst

Next ==
    \/ Run
    \/ Move \/ Loadk \/ Arith \/ JumpTo
    \/ TryMatch \/ Greater \/ Equal
    \/ NewTuple \/ SetTuple \/ NewList \/ Prepend
    \/ Call \/ TailCall \/ Return

\* vm_execute goes on as long as it can.
Spec == Init /\ [][Next]_vars /\ WF_vars(Next)
=============================================================================
