----------------------------- MODULE MCWalIngest -----------------------------
(* Small instances of WalIngest for TLC. *)
EXTENDS WalIngest
CONSTANTS r1

Ins == [kind |-> "insert", row |-> r1]
Del == [kind |-> "delete", row |-> r1]
Trunc == [kind |-> "truncate"]
Other == [kind |-> "other"]

\* Transactions in which a TRUNCATE comes before the row changes.
TruncateFirst == {<<Ins>>, <<Del>>, <<Trunc, Other>>}

\* One that inserts before it truncates.
InsertThenTruncate == {<<Ins>>, <<Ins, Trunc>>}
=============================================================================
