------------------------------- MODULE MCSymTab -------------------------------
(***************************************************************************)
(* Three names, two of which share a bucket, in up to three scopes; and    *)
(* four literals: two numbers that share a bucket, a pattern, which has no *)
(* text, and the name "1" of a module 1.arb beside the number 1.           *)
(***************************************************************************)
EXTENDS ClauseTables, TLC

CONSTANTS x, y, z, none

MCHash == x :> 1 @@ y :> 1 @@ z :> 0

MCLiterals ==
    {[text |-> "1", value |-> <<"number", "1">>],
     [text |-> "1", value |-> <<"atom", "1">>],
     [text |-> "2", value |-> <<"number", "2">>],
     [text |-> none, value |-> <<"number", "1">>]}

MCKHash == "1" :> 0 @@ "2" :> 0
=============================================================================
