------------------------------- MODULE Tables -------------------------------
(***************************************************************************)
(* A database table, and any other map that grows and shrinks: a partial   *)
(* function from ids to rows.                                              *)
(***************************************************************************)
EXTENDS Functions

\* A table over the ids S with rows in R.
IsTable(table, S, R) ==
    /\ DOMAIN table \subseteq S
    /\ table \in [DOMAIN table -> R]

EmptyTable == [id \in {} |-> id]

\* The row inserted or replaced.
Put(table, id, row) ==
    [k \in DOMAIN table \cup {id} |-> IF k = id THEN row ELSE table[k]]

\* The row deleted.
Without(table, id) == Restrict(table, DOMAIN table \ {id})

=============================================================================
