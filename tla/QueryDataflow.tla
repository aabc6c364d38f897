---------------------------- MODULE QueryDataflow ----------------------------
(***************************************************************************)
(* One compiled query in the persistent host: the differential dataflow    *)
(* that install_plan wires from joins, reductions and linear maps, the     *)
(* worker thread that drives it one commit at a time, the host's cached    *)
(* output, the pairing of output differences into row changes, and a       *)
(* subscriber that replays them.                                           *)
(*                                                                         *)
(* A collection is a set of updates <<record, diff>>, one per record and   *)
(* with a diff that is not zero.  The worker flushes all inputs up to the  *)
(* next LSN before it steps and steps until the probe has passed, so one   *)
(* LSN is in flight at a time and its number does not matter; which        *)
(* operator is scheduled next is free.                                     *)
(***************************************************************************)
EXTENDS Integers, FiniteSets, FiniteSetsExt, SequencesExt

CONSTANTS ARows,       \* per query: the rows <<id, k, v>> table a may have
          BRows,       \* and the rows <<k, w>> of table b
          Names,       \* the queries to run, of those Plan knows
          Keyless,     \* the ones whose first column is of a type that
                       \* datum_to_key_bytes has no bytes for
          MaxChanges,  \* changes of one transaction
          Null

Least == 1   \* WHERE v > Least
Limit == 1
Offset == 1
Unit == 0    \* the value of a record that has only a key
\* The sources of a dataflow, numbered apart from its nodes: the input
\* sessions of the tables and the one record of a global aggregate.
a == -1
b == -2
unit == -3

VARIABLES query,        \* the plan that is registered
          tables,       \* the rows of a and b
          phase,        \* new, seed, seeded, apply, idle
          pend,         \* per port: what its batcher holds of the LSN
          trace,        \* per port: the arranged collection
          batch,        \* per port: the batch sealed for the LSN
          sealed,       \* the ports whose arrangement has passed the LSN
          accepted,     \* the ports whose batch the operator has taken
          todo,         \* per port of a join: the deferred work
          issued,       \* per node: the output trace of a reduction
          alive,        \* the worker thread runs
          last_output,  \* PlanState: the cached rows
          view,         \* the rows a subscriber has by replaying its events,
                        \* followed until a change is coarse
          cache,        \* and its cache by primary key, followed until
                        \* rows clash
          output,       \* everything the dataflow has put out (history)
          flat,         \* a duplicate was dropped from the seed (history)
          coarse,       \* a change stood for several copies (history)
          clash         \* rows shared their key bytes (history)

flowVars == <<pend, trace, batch, sealed, accepted, todo, issued>>
hostVars == <<alive, last_output>>
clientVars == <<view, cache>>
historyVars == <<output, flat, coarse, clash>>
vars == <<query, tables, phase, flowVars, hostVars, clientVars, historyVars>>

-----------------------------------------------------------------------------
(* Collections.                                                            *)

Total(updates) == MapThenSumSet(LAMBDA u : u[2], updates)
\* consolidate: the updates of one record become one.  Each comes with its
\* origin, <<record, diff, origin>>, so that equal ones count.
Consolidate(updates) ==
  UNION {{<<r, n>> \in {<<u[1], Total({v \in S : v[1] = u[1]})>> : u \in S} : n # 0}
         : S \in {updates}}
Tag(x, origin) == {<<u[1], u[2], origin>> : u \in x}
Collect(S, f(_)) == Consolidate({<<f(s), 1, s>> : s \in S})
Negate(x) == {<<u[1], -u[2]>> : u \in x}
Plus(x, y) == Consolidate(Tag(x, 1) \cup Tag(y, 2))
Minus(x, y) == Plus(x, Negate(y))
Records(x) == {u[1] : u \in x}
DiffOf(x, r) == Total({u \in x : u[1] = r})

\* Of a keyed collection: the updates of some keys, and the values of one.
At(x, keys) == {u \in x : u[1][1] \in keys}
ValuesAt(x, k) == {<<u[1][2], u[2]>> : u \in At(x, {k})}

-----------------------------------------------------------------------------
(* Datums and rows.                                                        *)

\* compare_datums_sort: NULL is the greatest.
DatumLess(d, e) == d # Null /\ (e = Null \/ d < e)
\* The natural order of rows of one query.
RowLess(r, s) ==
  \E i \in DOMAIN r : DatumLess(r[i], s[i]) /\ \A j \in 1 .. i - 1 : r[j] = s[j]
\* sort_key_comparator for one sort key: <<sort key, row>>, ties by row.
SortLess(x, y, descending) ==
  \/ IF descending THEN DatumLess(y[1], x[1]) ELSE DatumLess(x[1], y[1])
  \/ x[1] = y[1] /\ RowLess(x[2], y[2])

Sorted(S, less(_, _)) ==
  [i \in 1 .. Cardinality(S) |-> CHOOSE x \in S : Cardinality({y \in S : less(y, x)}) = i - 1]

-----------------------------------------------------------------------------
(* compile_mir and install_op: what the nodes of a plan compute.           *)

\* The filter on the right side of a join: a NULL key never matches.
NullFree(key, record) == IF key = <<Null>> THEN {} ELSE {record}

\* One value per aggregate; count(*) reads a placeholder.
Funcs == <<"count", "sum", "min", "max", "distinct">>
Values(v) == <<Unit, v, v, v, v>>
DefaultRow == [i \in DOMAIN Funcs |-> IF Funcs[i] \in {"count", "distinct"} THEN 0 ELSE Null]

\* The linear maps between tables, nodes and ports: filter, project, key_of.
\* A join puts out <<key, left, right>>, a reduction <<key, value>>.
Extract(via, r) ==
  CASE via = "row" -> {r}
    [] via = "where" -> IF r[3] # Null /\ r[3] > Least THEN {<<r[2]>>} ELSE {}
    [] via = "left keyed" -> {<<<<r[2]>>, r>>}
    [] via = "right keyed" -> NullFree(<<r[1]>>, <<<<r[1]>>, r>>)
    [] via = "right keys" -> NullFree(<<r[1]>>, <<<<r[1]>>, Unit>>)
    [] via = "kept" -> {r}
    [] via = "concat" -> {r[2] \o r[3]}
    [] via = "extend" -> {r \o <<Null, Null>>}
    [] via = "extend left" -> {r[2] \o <<Null, Null>>}
    [] via = "left row" -> {r[2]}
    [] via = "group" -> {<<<<r[2]>>, Values(r[3])>>}
    [] via = "whole" -> {<<<<>>, Values(r[3])>>}
    [] via = "unit key" -> {<<<<>>, Unit>>}
    [] via = "flat" -> {r[1] \o r[2]}
    [] via = "default" -> {DefaultRow}
    [] via = "sort" -> {<<<<>>, <<r[3], <<r[2], r[3]>>>>>>}
    [] via = "on" -> {<<<<r[2]>>, <<r[3], r>>>>}
    [] via = "sorted row" -> {r[2][2]}
    [] via = "a.k" -> {<<r[2]>>}
    [] via = "b.k" -> {<<r[1]>>}
    [] via = "a.k left" -> {<<<<r[2]>>, FALSE>>}
    [] via = "b.k right" -> {<<<<r[1]>>, TRUE>>}
    [] via = "a.k self" -> {<<<<r[2]>>, Unit>>}
    [] via = "b.k self" -> {<<<<r[1]>>, Unit>>}
    [] via = "key" -> {r[1]}
    [] via = "by w" -> {<<<<r[3][2]>>, Values(r[2][3])>>}
    [] via = "by count" -> {<<<<r[2][1]>>, r[1]>>}

From(src, via) == [src |-> src, via |-> via, sign |-> 1]
Less(src, via) == [src |-> src, via |-> via, sign |-> -1]
Join(left, right) == [op |-> "join", ports |-> <<left, right>>]
Reduce(op, in) == [op |-> op, ports |-> <<in>>]

\* The distinct right keys of a semijoin or antijoin.
RightKeys == Reduce("distinct", {From(b, "right keys")})
LeftRight == Join({From(a, "left keyed")}, {From(b, "right keyed")})
LeftKept(n) == Join({From(a, "left keyed")}, {From(n, "kept")})
SetOp(op) == [nodes |-> <<Reduce(op, {From(a, "a.k left"), From(b, "b.k right")})>>,
              out |-> {From(1, "key")}]

\* The plan of a query: the nodes that keep state, sources first, and what
\* flows into the output.  antijoin is its input less the semijoin.
Plan ==
  [where |-> [nodes |-> <<>>, out |-> {From(a, "where")}],
   inner |-> [nodes |-> <<LeftRight>>, out |-> {From(1, "concat")}],
   left |-> [nodes |-> <<LeftRight, RightKeys, LeftKept(2)>>,
             out |-> {From(1, "concat"), From(a, "extend"), Less(3, "extend left")}],
   semi |-> [nodes |-> <<RightKeys, LeftKept(1)>>, out |-> {From(2, "left row")}],
   anti |-> [nodes |-> <<RightKeys, LeftKept(1)>>, out |-> {From(a, "row"), Less(2, "left row")}],
   group |-> [nodes |-> <<Reduce("aggregate", {From(a, "group")})>>, out |-> {From(1, "flat")}],
   global |->
     [nodes |-> <<Reduce("aggregate", {From(a, "whole")}), Reduce("distinct", {From(a, "unit key")}),
                  Join({From(unit, "unit key")}, {From(2, "kept")})>>,
      out |-> {From(1, "flat"), From(unit, "default"), Less(3, "default")}],
   topk |-> [nodes |-> <<Reduce("topk", {From(a, "sort")})>>, out |-> {From(1, "sorted row")}],
   distinct_on |-> [nodes |-> <<Reduce("first", {From(a, "on")})>>, out |-> {From(1, "sorted row")}],
   union_all |-> [nodes |-> <<>>, out |-> {From(a, "a.k"), From(b, "b.k")}],
   union |-> [nodes |-> <<Reduce("distinct", {From(a, "a.k self"), From(b, "b.k self")})>>,
              out |-> {From(1, "key")}],
   except |-> SetOp("except"),
   except_all |-> SetOp("except_all"),
   intersect |-> SetOp("intersect"),
   intersect_all |-> SetOp("intersect_all"),
   join_group |-> [nodes |-> <<LeftRight, Reduce("aggregate", {From(1, "by w")})>>,
                   out |-> {From(2, "flat")}],
   self_join |-> [nodes |-> <<Reduce("aggregate", {From(a, "group")}),
                              Join({From(1, "by count")}, {From(1, "by count")})>>,
                  out |-> {From(2, "concat")}]]

\* distinct: any record that is present, once.
Threshold(count) == 1

\* evaluate_datum_aggregate over the datums of one column with their counts.
Evaluate(func, column) ==
  LET nonNull == Records(column) \ {Null}
      present == {u \in column : u[1] # Null}
  IN CASE func = "count" -> Total(present)
       [] func = "distinct" -> Cardinality(nonNull)
       [] nonNull = {} -> Null
       [] func = "sum" -> MapThenSumSet(LAMBDA u : u[1] * u[2], present)
       [] func = "min" -> CHOOSE d \in nonNull : \A e \in nonNull : ~DatumLess(e, d)
       [] func = "max" -> CHOOSE d \in nonNull : \A e \in nonNull : ~DatumLess(d, e)
\* aggregate_datums merges the vectors by one column and keeps what is positive.
Column(vals, i) ==
  {u \in Consolidate({<<v[1][i], v[2], v[1]>> : v \in vals}) : u[2] > 0}

\* topk_by: the copies in order, and the slice of them.
Sliced(vals) ==
  LET copies == UNION {{u[1]} \X (1 .. u[2]) : u \in vals}
      less(c, d) == SortLess(c[1], d[1], TRUE) \/ (c[1] = d[1] /\ c[2] < d[2])
      expanded == Sorted(copies, less)
  IN Collect({expanded[i] : i \in (Offset + 1 .. Offset + Limit) \cap DOMAIN expanded},
             LAMBDA c : c[1])
\* distinct_on_first
First(vals) ==
  LET present == {u[1] : u \in {w \in vals : w[2] > 0}}
  IN {<<v, 1>> : v \in {w \in present : \A x \in present : ~SortLess(x, w, FALSE)}}
\* bag_set_op with the combine function of the set operation.
Combine(op, l, r) ==
  CASE op = "except" -> IF l > 0 /\ r <= 0 THEN 1 ELSE 0
    [] op = "except_all" -> Max({l - r, 0})
    [] op = "intersect" -> IF l > 0 /\ r > 0 THEN 1 ELSE 0
    [] op = "intersect_all" -> Min({l, r})
Combined(op, vals) ==
  {<<Unit, n>> : n \in {Combine(op, DiffOf(vals, FALSE), DiffOf(vals, TRUE))} \ {0}}

\* The logic of a reduction on the values of one key, which are never none.
Logic(op, vals) ==
  CASE op = "distinct" -> {<<Unit, Threshold(DiffOf(vals, Unit))>>}
    [] op = "aggregate" -> {<<[i \in DOMAIN Funcs |-> Evaluate(Funcs[i], Column(vals, i))], 1>>}
    [] op = "topk" -> Sliced(vals)
    [] op = "first" -> First(vals)
    [] OTHER -> Combined(op, vals)

-----------------------------------------------------------------------------
(* The dataflow at work on one LSN.                                        *)

Out == <<0, 1>>
Nodes == Plan[query].nodes
JoinPorts == {<<n, p>> \in (DOMAIN Nodes) \X {1, 2} : Nodes[n].op = "join"}
NodePorts(q) ==
  UNION {{<<n, p>> : p \in DOMAIN Plan[q].nodes[n].ports} : n \in DOMAIN Plan[q].nodes}
Ports(q) == NodePorts(q) \cup {Out}
Feeds(pt) == IF pt = Out THEN Plan[query].out ELSE Nodes[pt[1]].ports[pt[2]]
Other(pt) == <<pt[1], 3 - pt[2]>>
\* The tables a query reads.
Inputs(q) ==
  {f.src : f \in Plan[q].out \cup UNION {UNION Range(node.ports) : node \in Range(Plan[q].nodes)}}
    \cap {a, b}

\* What a collection becomes on its way through a feed.
Through(x, f) ==
  UNION {{<<o, f.sign * u[2], <<f, u[1]>>>> : o \in Extract(f.via, u[1])} : u \in x}
\* Every port with what the sources in upd send it.
Sent(upd) ==
  [pt \in DOMAIN pend |->
     Consolidate(Tag(pend[pt], <<>>) \cup
                 UNION {Through(upd[f.src], f) : f \in {g \in Feeds(pt) : g.src \in DOMAIN upd}})]
SentBy(n, x) == Sent([m \in {n} |-> x])

\* A node has nothing more to send at the LSN: a join keeps a capability
\* while it has deferred work.
NodeDone(n) ==
  \A p \in DOMAIN Nodes[n].ports : <<n, p>> \in accepted /\ todo[<<n, p>>] = {}
\* Mutant of SourcesDone: a port without data does not see its frontier move.
SourcesDoneWaits(pt) ==
  pend[pt] # {} /\ \A f \in Feeds(pt) : f.src \in DOMAIN Nodes => NodeDone(f.src)
\* The frontier of a port has passed the LSN.
SourcesDone(pt) == \A f \in Feeds(pt) : f.src \in DOMAIN Nodes => NodeDone(f.src)

Working == phase \in {"seed", "apply"} /\ alive

\* arrange_core: when the port's frontier has passed the LSN its batcher
\* seals a batch, which goes into the trace and on to the operator.
Seal(pt) ==
  /\ Working
  /\ pt \notin sealed
  /\ SourcesDone(pt)
  /\ sealed' = sealed \cup {pt}
  /\ trace' = [trace EXCEPT ![pt] = Plus(@, pend[pt])]
  /\ batch' = [batch EXCEPT ![pt] = pend[pt]]
  /\ pend' = [pend EXCEPT ![pt] = {}]
  /\ UNCHANGED <<query, tables, phase, accepted, todo, issued, hostVars, clientVars, historyVars>>

\* Mutant of Acknowledged: the other trace as it is.
AcknowledgedAll(pt) == trace[pt]
\* cursor_through(acknowledged): the trace without a batch not yet taken.
Acknowledged(pt) ==
  IF pt \in sealed \ accepted THEN Minus(trace[pt], batch[pt]) ELSE trace[pt]

\* The records of port pt with their matches of the other port.
Matched(pt, x, y) ==
  LET pairs == {<<u, v>> \in x \X y : u[1][1] = v[1][1]}
      record(u, v) == IF pt[2] = 1 THEN <<u[1][1], u[1][2], v[1][2]>>
                                   ELSE <<u[1][1], v[1][2], u[1][2]>>
  IN Consolidate({<<record(p[1], p[2]), p[1][2] * p[2][2], p>> : p \in pairs})

\* join_traces takes a batch and defers its match with what it has
\* acknowledged of the other side.
Accept(pt) ==
  /\ Working
  /\ pt \in sealed \ accepted
  /\ accepted' = accepted \cup {pt}
  /\ todo' = [todo EXCEPT ![pt] = Matched(pt, batch[pt], Acknowledged(Other(pt)))]
  /\ UNCHANGED <<query, tables, phase, pend, trace, batch, sealed, issued, hostVars, clientVars,
                 historyVars>>

\* Deferred::work: key by key, until the fuel is gone.
Work(pt) ==
  /\ Working
  /\ todo[pt] # {}
  /\ LET key == CHOOSE k \in {r[1] : r \in Records(todo[pt])} : TRUE
         now == At(todo[pt], {key})
     IN /\ pend' = SentBy(pt[1], now)
        /\ todo' = [todo EXCEPT ![pt] = @ \ now]
  /\ UNCHANGED <<query, tables, phase, trace, batch, sealed, accepted, issued, hostVars,
                 clientVars, historyVars>>

\* What a reduction has put out for the keys so far.
Corrections(n, keys) == At(issued[n], keys)

\* reduce_trace: the new output of every key in the batch less the old.
ReduceBatch(pt) ==
  LET n == pt[1]
      keys == {r[1] : r \in Records(batch[pt])}
      live == {k \in keys : ValuesAt(trace[pt], k) # {}}
      fresh == UNION {{<<<<k, u[1]>>, u[2]>> : u \in Logic(Nodes[n].op, ValuesAt(trace[pt], k))}
                      : k \in live}
      delta == Minus(fresh, Corrections(n, keys))
  IN /\ Working
     /\ pt \in sealed \ accepted
     /\ accepted' = accepted \cup {pt}
     /\ issued' = [issued EXCEPT ![n] = Plus(@, delta)]
     /\ pend' = SentBy(n, delta)
     /\ UNCHANGED <<query, tables, phase, trace, batch, sealed, todo, hostVars, clientVars,
                    historyVars>>

-----------------------------------------------------------------------------
(* The host's cache, the pairing and the subscriber.                       *)

\* Once each, whatever the diff.
Asserted(deltas) == {<<u[1], 1>> : u \in {w \in deltas : w[2] > 0}}
\* apply_deltas_to_cache: a retraction of a row that is not there does nothing.
ApplyDeltas(rows, deltas) == {u \in Plus(rows, deltas) : u[2] > 0}

\* primary_key_bytes: the primary key of a query is its first column.
KeyBytes(r) == IF query \in Keyless \/ r[1] = Null THEN <<>> ELSE <<r[1]>>

\* Mutant of PairBin: the two sides of an update change places.
PairBinSwapped(ins, outs) ==
  IF ins # <<>> /\ outs # <<>>
    THEN <<[old |-> {Last(ins)}, new |-> {Last(outs)}]>>
    ELSE [i \in DOMAIN ins |-> [old |-> {}, new |-> {ins[i]}]]
           \o [i \in DOMAIN outs |-> [old |-> {outs[i]}, new |-> {}]]
\* The changes of the rows with one key: an update of the last two, then
\* inserts, then deletes.
PairBin(ins, outs) ==
  LET paired == ins # <<>> /\ outs # <<>>
      rest(s) == IF paired THEN Front(s) ELSE s
  IN (IF paired THEN <<[old |-> {Last(outs)}, new |-> {Last(ins)}]>> ELSE <<>>)
       \o [i \in DOMAIN rest(ins) |-> [old |-> {}, new |-> {rest(ins)[i]}]]
       \o [i \in DOMAIN rest(outs) |-> [old |-> {rest(outs)[i]}, new |-> {}]]
\* pair_changes: one change per diff, whatever its size.  The deltas come in
\* row order; keys share no rows, so the order of the keys does not matter.
PairChanges(deltas) ==
  LET ins(key) == Records({u \in deltas : KeyBytes(u[1]) = key /\ u[2] > 0})
      outs(key) == Records({u \in deltas : KeyBytes(u[1]) = key /\ u[2] < 0})
  IN FoldSet(LAMBDA key, changes :
               changes \o PairBin(Sorted(ins(key), RowLess), Sorted(outs(key), RowLess)),
             <<>>, {KeyBytes(u[1]) : u \in deltas})

\* Mutant of CacheChange: an update leaves the old row where the key changes.
CacheChangeKeeps(rows, change) ==
  LET gone == IF change.new = {} THEN change.old ELSE change.new
  IN {r \in rows : r[1] \notin {s[1] : s \in gone}} \cup change.new
\* ClientCache::apply_transaction, one change: by the first column.
CacheChange(rows, change) ==
  {r \in rows : r[1] \notin {s[1] : s \in change.old \cup change.new}} \cup change.new
\* The replay of an application that keeps the rows themselves.
ViewAfter(rows, changes) ==
  Consolidate(Tag(rows, <<>>)
    \cup UNION {{<<r, 1, <<i, "new">>>> : r \in changes[i].new} : i \in DOMAIN changes}
    \cup UNION {{<<r, -1, <<i, "old">>>> : r \in changes[i].old} : i \in DOMAIN changes})

\* Rows that the key of the subscriber does not tell apart.
Clashing(rows) ==
  \E u \in rows : u[2] > 1 \/ \E w \in rows \ {u} : KeyBytes(w[1]) = KeyBytes(u[1])

Joined(rows) ==
  /\ view' = rows
  /\ coarse' = FALSE
  /\ clash' = Clashing(rows)
  /\ cache' = IF clash' THEN {} ELSE Records(rows)

\* The worker's reply to Seed and the registration of the plan.
AnswerSeed ==
  LET deltas == pend[Out]
  IN /\ phase = "seed"
     /\ alive
     /\ SourcesDone(Out)
     /\ phase' = "seeded"
     /\ output' = deltas
     /\ last_output' = Asserted(deltas)
     /\ Joined(Asserted(deltas))
     /\ flat' = (Asserted(deltas) # deltas)
     /\ pend' = [pend EXCEPT ![Out] = {}]
     /\ UNCHANGED <<query, tables, trace, batch, sealed, accepted, todo, issued, alive>>

\* The worker's reply to Apply, the host's cache, and the event to the subscriber.
AnswerApply ==
  LET deltas == pend[Out]
      changes == PairChanges(deltas)
  IN /\ phase = "apply"
     /\ alive
     /\ SourcesDone(Out)
     /\ phase' = "idle"
     /\ output' = Plus(output, deltas)
     /\ last_output' = ApplyDeltas(last_output, deltas)
     /\ coarse' = (coarse \/ \E u \in deltas : u[2] \notin {-1, 1})
     /\ clash' = (clash \/ Clashing(output'))
     /\ view' = IF coarse' THEN {} ELSE ViewAfter(view, changes)
     /\ cache' = IF clash' THEN {} ELSE FoldLeft(CacheChange, cache, changes)
     /\ pend' = [pend EXCEPT ![Out] = {}]
     /\ UNCHANGED <<query, tables, trace, batch, sealed, accepted, todo, issued, alive, flat>>

Quiet == phase \in {"seeded", "idle"}

\* cached_view: another subscriber starts from the host's cache.
LateJoin ==
  /\ Quiet
  /\ Joined(last_output)
  /\ UNCHANGED <<query, tables, phase, flowVars, hostVars, output, flat>>

-----------------------------------------------------------------------------
(* The commands.                                                           *)

Rows(t) == IF t = a THEN ARows[query] ELSE BRows[query]
\* The transactions: some rows of the query's tables come or go.
Transactions ==
  {T \in SUBSET UNION {{t} \X Rows(t) : t \in Inputs(query)} :
     T # {} /\ Cardinality(T) <= MaxChanges}
After(T) ==
  [t \in {a, b} |-> LET rows == {e[2] : e \in {f \in T : f[1] = t}}
                    IN (tables[t] \ rows) \cup (rows \ tables[t])]
Diff(T) ==
  [t \in {a, b} |-> {<<e[2], IF e[2] \in tables[t] THEN -1 ELSE 1>> : e \in {f \in T : f[1] = t}}]

\* register_or_seed: the worker gets the tables at LSN 0.
Seed ==
  /\ phase = "new"
  /\ phase' = "seed"
  /\ pend' = Sent([s \in {a, b, unit} |->
                     IF s = unit THEN {<<<<>>, 1>>} ELSE tables[s] \X {1}])
  /\ UNCHANGED <<query, tables, trace, batch, sealed, accepted, todo, issued, hostVars,
                 clientVars, historyVars>>

\* apply_and_fanout at a later LSN: the sessions take the diffs and advance.
Apply(T) ==
  /\ Quiet
  /\ alive
  /\ phase' = "apply"
  /\ tables' = After(T)
  /\ pend' = Sent(Diff(T))
  /\ sealed' = {}
  /\ accepted' = {}
  /\ UNCHANGED <<query, trace, batch, todo, issued, hostVars, clientVars, historyVars>>

\* A second batch of the last LSN: update_at asserts that the session is not
\* past it, and the worker thread dies.  This and every later commit is
\* answered with no deltas; the tables are not followed any further.
ApplyPast ==
  /\ phase = "idle"
  /\ alive
  /\ alive' = FALSE
  /\ UNCHANGED <<query, tables, phase, flowVars, last_output, clientVars, historyVars>>

Init ==
  /\ query \in Names
  /\ tables \in {x \in [{a, b} -> SUBSET (Rows(a) \cup Rows(b))] :
                   \A t \in {a, b} : x[t] \subseteq IF t \in Inputs(query) THEN Rows(t) ELSE {}}
  /\ phase = "new"
  /\ pend = [pt \in Ports(query) |-> {}]
  /\ trace = [pt \in NodePorts(query) |-> {}]
  /\ batch = [pt \in NodePorts(query) |-> {}]
  /\ sealed = {}
  /\ accepted = {}
  /\ todo = [pt \in NodePorts(query) |-> {}]
  /\ issued = [n \in DOMAIN Plan[query].nodes |-> {}]
  /\ alive = TRUE
  /\ last_output = {}
  /\ view = {}
  /\ cache = {}
  /\ output = {}
  /\ flat = FALSE
  /\ coarse = FALSE
  /\ clash = FALSE

Step ==
  \/ \E pt \in NodePorts(query) : Seal(pt)
  \/ \E pt \in JoinPorts : Accept(pt)
  \/ \E pt \in JoinPorts : Work(pt)
  \/ \E pt \in NodePorts(query) \ JoinPorts : ReduceBatch(pt)
  \/ AnswerSeed
  \/ AnswerApply

Next ==
  \/ Seed
  \/ \E T \in Transactions : Apply(T)
  \/ ApplyPast
  \/ Step
  \/ LateJoin

Spec == Init /\ [][Next]_vars /\ WF_vars(Step)

-----------------------------------------------------------------------------
(* What SQL says the queries return.                                       *)

Matches == {p \in tables[a] \X tables[b] : p[1][2] = p[2][1] /\ p[1][2] # Null}
HasMatch(r) == \E p \in Matches : p[1] = r
Nulled(r) == r \o <<Null, Null>>
ColumnK(t) == Collect(tables[t], LAMBDA r : <<r[IF t = a THEN 2 ELSE 1]>>)
\* A set operation on column k: how often it returns a row that the tables
\* have l and r times.
PerRow(times(_, _)) ==
  LET rows == Records(ColumnK(a)) \cup Records(ColumnK(b))
      diff(r) == times(DiffOf(ColumnK(a), r), DiffOf(ColumnK(b), r))
  IN {u \in {<<r, diff(r)>> : r \in rows} : u[2] # 0}
\* The aggregates of a set of things with a value each.
Summary(S, value(_)) ==
  LET valued == {s \in S : value(s) # Null}
      values == {value(s) : s \in valued}
  IN <<Cardinality(S)>>
       \o (IF values = {} THEN <<Null, Null, Null>>
           ELSE <<MapThenSumSet(value, valued), Min(values), Max(values)>>)
       \o <<Cardinality(values)>>
Ks == {r[2] : r \in tables[a]}
OfK(k) == {r \in tables[a] : r[2] = k}
\* How many rows come before r by v, descending, then k and id.
Rank(r) ==
  Cardinality({s \in tables[a] :
     \/ DatumLess(r[3], s[3])
     \/ s[3] = r[3] /\ (DatumLess(s[2], r[2]) \/ (s[2] = r[2] /\ s[1] < r[1]))})

Result ==
  CASE query = "where" ->
         Collect({r \in tables[a] : r[3] # Null /\ r[3] > Least}, LAMBDA r : <<r[2]>>)
    [] query = "inner" -> Collect(Matches, LAMBDA p : p[1] \o p[2])
    [] query = "left" -> Plus(Collect(Matches, LAMBDA p : p[1] \o p[2]),
                              Collect({r \in tables[a] : ~HasMatch(r)}, Nulled))
    [] query = "semi" -> Collect({r \in tables[a] : HasMatch(r)}, LAMBDA r : r)
    [] query = "anti" -> Collect({r \in tables[a] : ~HasMatch(r)}, LAMBDA r : r)
    [] query = "group" -> Collect(Ks, LAMBDA k : <<k>> \o Summary(OfK(k), LAMBDA r : r[3]))
    [] query = "global" -> Collect({tables[a]}, LAMBDA S : Summary(S, LAMBDA r : r[3]))
    [] query = "topk" ->
         Collect({r \in tables[a] : Rank(r) \in Offset .. Offset + Limit - 1},
               LAMBDA r : <<r[2], r[3]>>)
    [] query = "distinct_on" ->
         Collect({r \in tables[a] : ~\E s \in OfK(r[2]) :
                  DatumLess(s[3], r[3]) \/ (s[3] = r[3] /\ s[1] < r[1])}, LAMBDA r : r)
    [] query = "union_all" -> PerRow(LAMBDA l, r : l + r)
    [] query = "union" -> PerRow(LAMBDA l, r : 1)
    [] query = "except" -> PerRow(LAMBDA l, r : IF r = 0 THEN 1 ELSE 0)
    [] query = "except_all" -> PerRow(LAMBDA l, r : Max({l - r, 0}))
    [] query = "intersect" -> PerRow(LAMBDA l, r : Min({l, r, 1}))
    [] query = "intersect_all" -> PerRow(LAMBDA l, r : Min({l, r}))
    [] query = "join_group" ->
         Collect({p[2][2] : p \in Matches}, LAMBDA w :
            <<w>> \o Summary({p \in Matches : p[2][2] = w}, LAMBDA p : p[1][3]))
    [] query = "self_join" ->
         Collect({<<k, l>> \in Ks \X Ks : Cardinality(OfK(k)) = Cardinality(OfK(l))}, LAMBDA r : r)

-----------------------------------------------------------------------------
(* Properties.                                                             *)

\* Whatever order the worker schedules arrangements, joins, deferred work and
\* reductions in, and whatever commits came before, the differences the
\* dataflow has put out since its seed add up to what the query returns on the
\* tables: a join whose two sides change in one commit counts no pair twice and
\* loses none, and a key that comes or goes takes its old output back
\* (join_traces, reduce_trace, install_op).
OutputExact == Quiet /\ alive => output = Result

\* The host's cached rows, which a late subscriber starts from, are the result,
\* and so are the rows of a subscriber that replays its events, unless the seed
\* had dropped duplicates or a change stood for several copies
\* (register_or_seed, apply_deltas_to_cache, pair_changes).
SubscriberExact ==
  Quiet /\ alive /\ ~flat => last_output = Result /\ (~coarse => view = Result)

\* The client's cache by primary key holds the result as long as the key bytes
\* have told the rows of every result apart: pairing an insertion with a
\* deletion loses and keeps no row (pair_changes, ClientCache::apply_transaction).
CacheExact ==
  Quiet /\ alive /\ ~flat /\ ~clash =>
     cache = Records(Result)

\* The worker answers every command: advance_and_step's loop ends, since no
\* operator waits for another for ever.
Answered == phase \in {"seed", "apply"} ~> Quiet
=============================================================================
