------------------------------ MODULE CallStack ------------------------------
(***************************************************************************)
(* What the call stack of an arbre process promises to the interpreter,    *)
(* whatever the memory its frames live in: calls nest, a RETURN leaves the *)
(* innermost call and hands its value to the register the innermost        *)
(* caller named in its CALL, and the return of the outermost call ends the *)
(* process.  ProcStack (runtime.c) is shown to implement this.             *)
(***************************************************************************)
EXTENDS Naturals, Sequences

CONSTANTS
    Clauses,      \* the clauses that are ever called
    ResultRegs,   \* ResultRegs[c]: the A operands of the CALLs in c's code
    MaxDepth,     \* bound on the number of nested calls
    NoDelivery    \* no value has been delivered since the last call

VARIABLES
    calls,        \* the nested calls, outermost first
    delivered,    \* the register the last RETURN wrote: [call, reg]
    status        \* "spawned", "running" or "returned"

vars == <<calls, delivered, status>>

Innermost == calls[Len(calls)]

Init ==
    /\ calls = <<>>
    /\ delivered = NoDelivery
    /\ status = "spawned"

\* vm_run: the first call of the process.  Nobody sets its result register.
Run(c) ==
    /\ status = "spawned"
    /\ \E r \in ResultRegs[c] \cup {0} :
          calls' = << [clause |-> c, result |-> r] >>
    /\ status' = "running"
    /\ UNCHANGED delivered

\* OP_CALL: the callee becomes the innermost call; the value it returns is
\* meant for register r of its caller.
Enter(c, r) ==
    /\ status = "running"
    /\ Len(calls) < MaxDepth
    /\ r \in ResultRegs[Innermost.clause]
    /\ calls' = Append(calls, [clause |-> c, result |-> r])
    /\ delivered' = NoDelivery
    /\ UNCHANGED status

\* OP_RETURN: the innermost call ends; its value goes to its caller, if any.
Leave ==
    /\ status = "running"
    /\ calls' = SubSeq(calls, 1, Len(calls) - 1)
    /\ IF Len(calls) = 1
         THEN status' = "returned" /\ delivered' = NoDelivery
         ELSE /\ delivered' = [call |-> Len(calls) - 1,
                               reg  |-> Innermost.result]
              /\ UNCHANGED status

Next ==
    \/ \E c \in Clauses : Run(c)
    \/ \E c \in Clauses : \E r \in ResultRegs[Innermost.clause] : Enter(c, r)
    \/ Leave

Spec == Init /\ [][Next]_vars
=============================================================================
