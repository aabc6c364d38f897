------------------------- MODULE MCPostgresRuntime -------------------------
(* Small instances of PostgresRuntime for TLC. *)
EXTENDS PostgresRuntime
CONSTANTS t1, t2, v

OneRow(t, r) == [NoRows EXCEPT ![t][r] = 1]
Fill(d) == [c \in Columns |-> d]

\* An empty database, and one row in the first table.
SmallSnapshots == {NoRows} \cup {OneRow(t1, Fill(d)) : d \in Datums \ {Null}}
=============================================================================
