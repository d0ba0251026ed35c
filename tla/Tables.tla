------------------------------- MODULE Tables -------------------------------
(***************************************************************************)
(* A database table as a partial function from its keys to the columns the *)
(* handlers read or write.                                                 *)
(***************************************************************************)
EXTENDS Naturals, FiniteSets

Table(f, K, Row) == DOMAIN f \subseteq K /\ \A k \in DOMAIN f : f[k] \in Row

NoRecords == [k \in {} |-> {}]

\* INSERT, or UPDATE of a whole row.
Upsert(f, k, row) == [x \in DOMAIN f \cup {k} |-> IF x = k THEN row ELSE f[x]]

Without(f, ks) == [x \in DOMAIN f \ ks |-> f[x]]

\* ORDER BY: the rows of S, where Before puts any two of them in order.
InOrder(S, Before(_, _)) ==
    CHOOSE f \in [1..Cardinality(S) -> S] : \A i, j \in DOMAIN f : i < j => Before(f[i], f[j])

\* A nullable column.
Optional(S) == S \cup {"null"}
=============================================================================
