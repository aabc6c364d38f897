---------------------------- MODULE MCArrangement ----------------------------
(* Small instances of Arrangement for TLC. *)
EXTENDS Arrangement
CONSTANTS a1, a2

One(r) == [k \in Keys |-> IF k = 1 THEN r ELSE 0]
All(r) == [k \in Keys |-> r]

\* A record for every key, or one taken away.
Some == {All(1), One(-1)}
=============================================================================
