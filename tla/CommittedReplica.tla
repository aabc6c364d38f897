-------------------------- MODULE CommittedReplica --------------------------
(***************************************************************************)
(* What the ingest side promises its readers: while a replica is open it   *)
(* shows the database as it was after some commit, and it never shows an   *)
(* older database than one it has shown before, even if it was closed and  *)
(* opened again in between.                                                *)
(***************************************************************************)
EXTENDS Integers

VARIABLES
  committed,  \* number of commits of the database
  best,       \* the latest commit ever shown
  view        \* the commit that is shown now, if the replica is open

vars == <<committed, best, view>>

Init == committed = 0 /\ best = 0 /\ view = {}

Commit ==
  /\ committed' = committed + 1
  /\ UNCHANGED <<best, view>>

Show(n) ==
  /\ n \in best .. committed
  /\ view' = {n}
  /\ best' = n
  /\ UNCHANGED committed

Close ==
  /\ view' = {}
  /\ UNCHANGED <<committed, best>>

Next == Commit \/ (\E n \in best .. committed : Show(n)) \/ Close

Spec == Init /\ [][Next]_vars
=============================================================================
