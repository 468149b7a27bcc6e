------------------------------- MODULE Buckets -------------------------------
(***************************************************************************)
(* A chained hash table as src/symtab.c (SymTable) and src/vm.c            *)
(* (vm->modules) build it: an array of lists of entries [name, val].  A    *)
(* list is the sequence of its entries from the head; a bucket that is     *)
(* still NULL is the empty sequence.                                       *)
(***************************************************************************)
EXTENDS Naturals, Sequences

CONSTANTS
    Size,       \* number of buckets
    Hash        \* Hash[k]: the bucket of name k

EmptyTable == [h \in 0..Size - 1 |-> <<>>]

\* Mutated form: the entry replaces whatever the list held.
ReplaceList(list, e) == <<e>>

\* sym_prepend, module_prepend: on a list that has a head already, the new
\* first node is only stored in a local variable of the function, and the
\* bucket keeps pointing to the old list.
Prepend(list, e) == IF list # <<>> THEN list ELSE <<e>>

\* symtab_insert, and the end of vm_open.
Insert(t, e) ==
    LET h == Hash[e.name]
    IN [t EXCEPT ![h] = IF @ # <<>> THEN Prepend(@, e) ELSE <<e>>]

\* The positions in k's bucket at which k is found.
Positions(t, k) ==
    {i \in 1..Len(t[Hash[k]]) : t[Hash[k]][i].name = k}

\* symtab_lookup in one table, vm_module: k's first entry.
Holds(t, k) == Positions(t, k) # {}

ValueOf(t, k) ==
    LET i == CHOOSE j \in Positions(t, k) : \A l \in Positions(t, k) : j <= l
    IN t[Hash[k]][i].val
=============================================================================
