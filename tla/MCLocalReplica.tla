---------------------------- MODULE MCLocalReplica ----------------------------
(* Small instances of LocalReplica for TLC. *)
EXTENDS LocalReplica
CONSTANTS a, b

Full(v) == [c \in Columns |-> v]

\* Full-row inserts, one-column updates and a delete.
SomeKinds ==
  {[op |-> "insert", cols |-> Columns, row |-> Full(a)],
   [op |-> "delete", cols |-> {}, row |-> Full(a)]}
  \cup {[op |-> "update", cols |-> {c}, row |-> Full(b)] : c \in Columns}

\* Inserts, which the server either rejects or streams back as a change.
Inserts == [op : {"insert"}, cols : {Columns}, row : Row]

\* Every disturbance.
Everything == {"commit", "resync", "error", "reconnect", "stop", "db"}
=============================================================================
