----------------------------- MODULE MCProcStack -----------------------------
(***************************************************************************)
(* Three clauses with the sizes of a 64-bit build: frames of 48, 560 and   *)
(* 1648 bytes.  Five nested calls reach the growth by doubling, the growth  *)
(* to the exact need, the shrinking and the freeing pop of stack_pop, and  *)
(* the pop whose unsigned test enlarges the block.                         *)
(***************************************************************************)
EXTENDS ProcStack, TLC

CONSTANTS small, medium, large

MCClauses == {small, medium, large}
MCNLocals == small :> 1 @@ medium :> 33 @@ large :> 101
MCResultRegs == small :> {0} @@ medium :> {0, 32} @@ large :> {100}
MCReturnRegs == small :> {0} @@ medium :> {32} @@ large :> {3}
=============================================================================
