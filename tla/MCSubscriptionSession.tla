----------------------- MODULE MCSubscriptionSession -----------------------
(* A small table, with a row the second set of rules hides.                *)
EXTENDS SubscriptionSession

MCKeys == {1, 2}
MCSecret == {2}
=============================================================================
