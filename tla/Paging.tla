-------------------------------- MODULE Paging --------------------------------
(***************************************************************************)
(* Rows in the order a query or a list asks for, and a page of them. The   *)
(* order is SetToSortSeq's, in a form that says at which place a row is:   *)
(* nothing else can be concluded of a sort whose algorithm is not known.   *)
(***************************************************************************)
EXTENDS Integers, Sequences, FiniteSets

\* ORDER BY: at the i-th place is the row with i - 1 rows before it.
InOrder(rows, Before(_, _)) ==
    [i \in 1..Cardinality(rows) |->
        CHOOSE r \in rows : Cardinality({s \in rows : Before(s, r)}) = i - 1]

\* LIMIT limit + 1, of which the last only tells that there is more.
PageOf(rows, limit) == SubSeq(rows, 1, IF Len(rows) > limit THEN limit ELSE Len(rows))

=============================================================================
