--------------------------- MODULE MCQueryDataflow ---------------------------
(* Small tables: a key with two rows, a NULL key on each side, a NULL value, *)
(* and two partners for one key.                                             *)
EXTENDS QueryDataflow

MCNames == {"where", "inner", "left", "semi", "anti", "group", "global", "topk", "distinct_on",
            "union_all", "union", "except", "except_all", "intersect", "intersect_all",
            "join_group", "self_join"}
TwoTables == {q \in MCNames : Inputs(q) = {a, b}}
MCARows ==
  [q \in MCNames |->
     CASE q = "left" -> {<<1, 1, 1>>}
       [] q \in TwoTables \ {"left"} -> {<<1, 1, 1>>, <<2, 1, 2>>, <<3, Null, 2>>}
       [] OTHER -> {<<1, 1, 1>>, <<2, 1, 2>>, <<3, Null, 2>>, <<4, 2, Null>>}]
MCBRows ==
  [q \in MCNames |->
     IF q \in {"inner", "semi", "anti"} THEN {<<1, 1>>, <<1, 2>>, <<Null, 1>>}
     ELSE IF q \in {"left", "intersect_all"} THEN {<<1, 1>>, <<1, 2>>}
     ELSE {<<1, 1>>, <<Null, 1>>}]
MCKeyless == {"union"}
=============================================================================
