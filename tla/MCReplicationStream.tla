------------------------ MODULE MCReplicationStream ------------------------
(* Logs for the replication stream: a transaction that begins before and   *)
(* commits after another, and one that aborts around a schema change.       *)
EXTENDS ReplicationStream

R(t) == [txn |-> t, op |-> "row"]
C(t) == [txn |-> t, op |-> "commit"]
A(t) == [txn |-> t, op |-> "abort"]
Alter == [txn |-> 0, op |-> "alter"]

Overlap == <<R(1), R(2), C(2), R(1), C(1)>>
Abort == <<R(1), Alter, R(2), A(1), C(2)>>

MCCases == { [log |-> Overlap, temporary |-> FALSE],
             [log |-> Abort, temporary |-> FALSE],
             [log |-> Abort, temporary |-> TRUE] }
=============================================================================
