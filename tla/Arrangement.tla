----------------------------- MODULE Arrangement -----------------------------
(***************************************************************************)
(* A shared arrangement of the dataflow engine: the arrange operator with  *)
(* its batcher, the Spine that keeps and merges the batches, the agents    *)
(* that hold compaction back, and a dataflow that imports the trace.       *)
(*                                                                         *)
(* Times are totally ordered, as Palimpsest's are, so a frontier is one    *)
(* time, or Top for the empty frontier.  A collection of updates is a set  *)
(* of <<key, time, difference>>, which is what consolidation leaves.  The  *)
(* layers of the Spine, their fuel and their merges are as in the code;    *)
(* layer i is element i + 1 of "merging".                                  *)
(***************************************************************************)
EXTENDS Integers, Sequences, FiniteSets, SequencesExt

CONSTANTS
  MaxKey,        \* keys are 1 .. MaxKey, in the order in which a merge visits them
  Contents,      \* what a message may change: functions key -> difference
  Agents,        \* names for trace handles
  Efforts,       \* idle_merge_effort: 0 stands for None
  MaxTime,       \* bound: times are below MaxTime
  MaxMessages,   \* bound: messages to the operator
  MaxReads       \* bound: changes of a handle's compaction frontiers, clones, drops

Keys == 1 .. MaxKey
Times == 0 .. MaxTime - 1
Top == MaxTime
Frontiers == 0 .. Top

ASSUME ArrangementAssumption ==
  /\ MaxKey \in Nat \ {0} /\ MaxTime \in Nat \ {0}
  /\ Contents \subseteq [Keys -> Int]
  /\ IsFiniteSet(Agents) /\ Agents # {}
  /\ Efforts \subseteq Nat
  /\ MaxMessages \in Nat /\ MaxReads \in Nat

VARIABLES
  effort,     \* the exertion logic the worker was configured with
  held,       \* MergeBatcher: updates received and not sealed
  capability, \* the operator's capability: lower bound of held; Top: none
  frontier,   \* prev_frontier of the operator
  spine,      \* Spine [merging, pending, upper, logical, physical, panicked]
  holds,      \* TraceAgent -> [live, logical, physical]
  active,     \* the operator's activator was pressed
  import,     \* the importing operator [on, queue, frontier, got, since]
  total,      \* history: the updates sealed so far
  bounds,     \* history: the upper bounds of the batches inserted
  messages,   \* messages so far
  reads       \* handle operations so far

vars == <<effort, held, capability, frontier, spine, holds, active, import, total, bounds,
          messages, reads>>

-----------------------------------------------------------------------------
(* Updates and batches.                                                    *)

\* An update is <<key, time, difference>>; consolidated, there is one for a key
\* and a time, and none without a difference.
DiffAt(u, k, t) ==
  LET here == {x \in u : x[1] = k /\ x[2] = t}
  IN IF here = {} THEN 0 ELSE (CHOOSE x \in here : TRUE)[3]
Plus(u, v) ==
  LET sum(k, t) == <<k, t, DiffAt(u, k, t) + DiffAt(v, k, t)>>
  IN {x \in {sum(y[1], y[2]) : y \in u \cup v} : x[3] # 0}

\* The difference that has accumulated at key k by time t.
Acc(u, k, t) == MapThenSumSet(LAMBDA x : x[3], {x \in u : x[1] = k /\ x[2] <= t})

\* Lattice::advance_by and consolidation; an empty frontier leaves times alone.
AdvanceBy(u, since) ==
  IF since \in {0, Top} THEN u
  ELSE {x \in u : x[2] > since}
         \cup {x \in {<<k, since, Acc(u, k, since)>> : k \in {y[1] : y \in u}} : x[3] # 0}

UpdatesOf(u, k) == Cardinality({x \in u : x[1] = k})
Size(u) == Cardinality(u)

Later(a, b) == IF a >= b THEN a ELSE b

\* F(x), in a form in which TLC evaluates x once.
Once(F(_), x) == CHOOSE y \in {F(z) : z \in {x}} : TRUE

\* An optional batch is a set of at most one batch.
The(o) == CHOOSE b \in o : TRUE
Batch(lower, upper, u) == [lower |-> lower, upper |-> upper, since |-> 0, updates |-> u]

-----------------------------------------------------------------------------
(* MergeState and the fueled merger.                                       *)

Vacant == [kind |-> "vacant"]
Single(o) == [kind |-> "single", batch |-> o]
Complete(o) == [kind |-> "complete", batch |-> o]
IsDouble(l) == l.kind \in {"merge", "complete"}

\* OrdValMerger::new: since is the join of both batches' and the trace's.
BeginMerge(old, new, logical) ==
  IF old # {} /\ new # {}
  THEN [kind |-> "merge", old |-> The(old), new |-> The(new), cursor |-> 0,
        since |-> Later(logical, Later(The(old).since, The(new).since))]
  ELSE Complete(old \cup new)

\* The batch that a merge produces.
Merged(l) ==
  [lower |-> l.old.lower, upper |-> l.new.upper, since |-> l.since,
   updates |-> AdvanceBy(Plus(l.old.updates, l.new.updates), l.since)]

LayerSize(l) ==
  CASE l.kind = "vacant" -> 0
    [] l.kind = "merge" -> Size(l.old.updates) + Size(l.new.updates)
    [] OTHER -> IF l.batch = {} THEN 0 ELSE Size(The(l.batch).updates)

\* OrdValMerger::work merges key by key while it has written fewer updates
\* than the fuel allows; MergeVariant::work calls the merge complete only if
\* fuel is left.
Work(l, fuel) ==
  IF l.kind # "merge" THEN l
  ELSE LET merged == Merged(l)
           made[c \in 0 .. MaxKey] ==
             IF c <= l.cursor THEN 0 ELSE made[c - 1] + UpdatesOf(merged.updates, c)
           stops == {c \in l.cursor .. MaxKey : made[c] >= fuel} \cup {MaxKey}
           stop == CHOOSE c \in stops : \A d \in stops : c <= d
       IN IF made[stop] < fuel THEN Complete({merged}) ELSE [l EXCEPT !.cursor = stop]

\* MergeState::complete: what a layer holds once its merge is finished.
Finished(l) ==
  CASE l.kind = "vacant" -> {}
    [] l.kind = "merge" -> {Merged(l)}
    [] OTHER -> l.batch

-----------------------------------------------------------------------------
(* Spine.                                                                  *)

Layer(s, i) == s.merging[i + 1]
Padded(m, i) == [j \in 1 .. Later(Len(m), i + 1) |-> IF j <= Len(m) THEN m[j] ELSE Vacant]
SetLayer(s, i, l) == [s EXCEPT !.merging = [Padded(@, i) EXCEPT ![i + 1] = l]]

\* insert_at: panics on a layer that is still merging, and begin_merge on two
\* batches that do not meet.
InsertAtLayer(s, o, i) ==
  LET l == Padded(s.merging, i)[i + 1]
      apart == l.kind = "single" /\ l.batch # {} /\ o # {} /\ The(l.batch).upper # The(o).lower
  IN CASE l.kind = "vacant" -> SetLayer(s, i, Single(o))
       [] IsDouble(l) \/ apart -> [s EXCEPT !.panicked = TRUE]
       [] OTHER -> SetLayer(s, i, BeginMerge(l.batch, o, s.logical))

\* complete_at followed by insert_at one layer up.
Promote(s, i) ==
  Once(LAMBDA t : InsertAtLayer(t, Finished(Layer(s, i)), i + 1), SetLayer(s, i, Vacant))

\* apply_fuel: each layer has the fuel to itself; a merge that completes moves
\* up before the layer above is worked on.
RECURSIVE Fueled(_, _, _, _)
Fueled(s, fuel, i, n) ==
  LET moved(t) == IF Layer(t, i).kind = "complete" THEN Promote(t, i) ELSE t
      worked == SetLayer(s, i, Work(Layer(s, i), fuel))
  IN IF i = n \/ s.panicked THEN s
     ELSE Once(LAMBDA t : Fueled(t, fuel, i + 1, n), Once(moved, worked))
ApplyFuel(s, fuel) == Fueled(s, fuel, 0, Len(s.merging))

\* The batches of layers i and above, up to n, merged from the bottom.
RECURSIVE Rolled(_, _, _, _)
Rolled(s, carry, i, n) ==
  LET above(t) == Rolled(SetLayer(t, i, Vacant), Finished(Layer(t, i)), i + 1, n)
  IN Once(LAMBDA t : IF i = n \/ t.panicked THEN t ELSE above(t), InsertAtLayer(s, carry, i))

\* roll_up: everything below layer n becomes one batch in layer n.
RollUp(s, n) ==
  LET ready == [s EXCEPT !.merging = Padded(@, n)]
      raised(t) == IF ~t.panicked /\ IsDouble(Layer(t, n)) THEN Promote(t, n) ELSE t
  IN IF \A i \in 0 .. n - 1 : Layer(ready, i).kind = "vacant" THEN ready
     ELSE Once(raised, Rolled(ready, {}, 0, n))

\* Mutant of Level: the exponent is rounded down.
LevelDown(n) == CHOOSE e \in 0 .. n : 2^e <= Later(n, 1) /\ 2^(e + 1) > n

\* The layer for n updates: the exponent of the next power of two.
Level(n) == CHOOSE e \in 0 .. n : 2^e >= n /\ \A d \in 0 .. e - 1 : 2^d < n

\* The virtual records in the layers below layer n.
Virtual(m, n) ==
  LET sum[i \in 0 .. n] ==
        IF i = 0 THEN 0
        ELSE sum[i - 1] + CASE m[i].kind = "vacant" -> 0
                            [] m[i].kind = "single" -> 2^(i - 1)
                            [] OTHER -> 2^i
  IN sum[n]

\* tidy_layers: a small largest batch is drawn down through empty layers, and
\* merges with the next batch if few enough records could invade the merge.
RECURSIVE Drawn(_, _)
Drawn(s, level) ==
  LET n == Len(s.merging)
      below == s.merging[n - 1]
      drawn == [s EXCEPT !.merging = RemoveAt(@, n - 1)]
  IN CASE level >= n - 1 -> s
       [] IsDouble(below) -> s
       [] below.kind = "vacant" \/ below.batch = {} -> Drawn(drawn, level)
       [] Virtual(s.merging, n - 2) <= 2^n \div 8 -> InsertAtLayer(drawn, below.batch, n - 2)
       [] OTHER -> s

TidyLayers(s) ==
  IF ~s.panicked /\ s.merging # <<>> /\ Last(s.merging).kind = "single"
  THEN Drawn(s, Level(LayerSize(Last(s.merging))))
  ELSE s

\* Mutant of Fuel: fuel for the records, none for the virtual ones.
FuelThin(n) == 2 * 2^n

\* The fuel that a batch of layer n brings, at the effort every trace is built with.
Fuel(n) == 8 * 2^n

\* introduce_batch
IntroduceBatch(s, o, n) ==
  LET placed(t) == IF t.panicked THEN t ELSE InsertAtLayer(t, o, n)
      rolled == Once(LAMBDA t : RollUp(t, n), ApplyFuel(s, Fuel(n)))
  IN Once(TidyLayers, Once(placed, rolled))

\* A batch with nothing in it is fused with an empty newest layer.
Introduced(s, b) ==
  LET used == {i \in 1 .. Len(s.merging) : s.merging[i].kind # "vacant"}
      p == CHOOSE i \in used : \A j \in used : i <= j
  IN IF Size(b.updates) = 0 /\ used # {} /\ s.merging[p].kind = "single"
        /\ LayerSize(s.merging[p]) = 0
     THEN LET t == InsertAtLayer(s, {b}, p - 1)
          IN IF t.panicked THEN t ELSE SetLayer(t, p - 1, Single(Finished(Layer(t, p - 1))))
     ELSE IntroduceBatch(s, {b}, Level(Size(b.updates)))

\* consider_merges: batches that no reader needs to tell apart any more.
RECURSIVE ConsiderMerges(_)
ConsiderMerges(s) ==
  IF s.panicked \/ s.pending = <<>> \/ Head(s.pending).upper > s.physical THEN s
  ELSE Once(ConsiderMerges, Introduced([s EXCEPT !.pending = Tail(@)], Head(s.pending)))

\* exert_effort with the logic of configure: a merge is under way, or there is
\* more than one batch with updates.
Wanted(s) ==
  /\ effort > 0
  /\ \/ \E i \in 1 .. Len(s.merging) : IsDouble(s.merging[i])
     \/ Cardinality({i \in 1 .. Len(s.merging) : LayerSize(s.merging[i]) > 0}) > 1

\* Mutant of Woken: only the operator's own exertion reschedules it.
WokenNever(s) == active

\* The end of consider_merges: the operator is rescheduled for more work.
Woken(s) == active \/ Wanted(s)

\* Spine::insert
Insert(s, b) ==
  IF b.lower = b.upper \/ b.lower # s.upper THEN [s EXCEPT !.panicked = TRUE]
  ELSE ConsiderMerges([s EXCEPT !.upper = b.upper, !.pending = Append(@, b)])

\* exert
Exerted(s) ==
  LET exert(t) == IF t.panicked \/ ~Wanted(t) THEN t
                  ELSE IF \E i \in 1 .. Len(t.merging) : IsDouble(t.merging[i])
                       THEN ApplyFuel(t, effort)
                  ELSE IntroduceBatch(t, {}, Level(effort))
  IN Once(exert, TidyLayers(s))

-----------------------------------------------------------------------------
(* The arrange operator.                                                   *)

Alive == \E a \in Agents : holds[a].live

At(c, t) == {x \in {<<k, t, c[k]>> : k \in Keys} : x[3] # 0}
Before(u, f) == {x \in u : x[2] < f}
From(u, f) == {x \in u : x[2] >= f}

\* MergeBatcher::frontier: the earliest time that is kept.
Earliest(u) ==
  LET ts == {x[2] : x \in u}
  IN IF ts = {} THEN Top ELSE CHOOSE t \in ts : \A s \in ts : t <= s

\* TraceWriter::insert, the listener's part.
Told(i, b, hint) ==
  IF i.on
  THEN [i EXCEPT !.queue = @ \o <<[kind |-> "batch", batch |-> b, hint |-> hint],
                                  [kind |-> "frontier", at |-> b.upper]>>]
  ELSE i

\* The body of the operator: what was received, up to input frontier f, is
\* sealed into a batch for the listener and the trace; then the trace exerts.
Scheduled(received, cap, f) ==
  LET ready == cap < f
      b == Batch(frontier, f, IF ready THEN Before(received, f) ELSE {})
      sealed == f # frontier
  IN /\ held' = IF sealed THEN From(received, f) ELSE received
     /\ capability' = IF sealed /\ ready THEN Earliest(From(received, f)) ELSE cap
     /\ frontier' = f
     /\ import' = IF sealed THEN Told(import, b, IF ready THEN {cap} ELSE {}) ELSE import
     /\ total' = IF sealed THEN Plus(total, b.updates) ELSE total
     /\ bounds' = bounds \cup {f}
     /\ IF Alive
        THEN \E grown \in {IF sealed THEN Insert(spine, b) ELSE spine} :
               /\ spine' = IF grown.panicked THEN grown ELSE Exerted(grown)
               /\ active' = ((sealed /\ Wanted(grown)) \/ Wanted(TidyLayers(grown)))
        ELSE UNCHANGED spine /\ active' = FALSE
     /\ UNCHANGED <<effort, holds, reads>>

\* A message at time t, not before the input frontier; then the frontier is f.
Receive(c, t, f) ==
  /\ messages < MaxMessages
  /\ t >= frontier /\ f >= frontier
  /\ Scheduled(Plus(held, At(c, t)), IF t < capability THEN t ELSE capability, f)
  /\ messages' = messages + 1

\* The input frontier moves, with nothing received.
Advance(f) ==
  /\ f > frontier
  /\ Scheduled(held, capability, f)
  /\ UNCHANGED messages

\* The operator activated itself.  An operator whose input is complete is gone.
Idle ==
  /\ active /\ frontier # Top
  /\ Scheduled(held, capability, frontier)
  /\ UNCHANGED messages

-----------------------------------------------------------------------------
(* TraceAgent and TraceBox.                                                *)

operatorVars == <<effort, held, capability, frontier, total, bounds, messages>>


\* MutableAntichain::frontier over the holds of all agents.
Least(h, field) ==
  LET ts == {h[a][field] : a \in {b \in Agents : h[b].live}}
  IN IF ts = {} THEN Top ELSE CHOOSE t \in ts : \A u \in ts : t <= u

\* set_logical_compaction: the join with what the agent had given up already.
SetLogical(a, t) ==
  /\ holds[a].live /\ reads < MaxReads /\ t > holds[a].logical
  /\ holds' = [holds EXCEPT ![a].logical = t]
  /\ spine' = [spine EXCEPT !.logical = Least(holds', "logical")]
  /\ reads' = reads + 1
  /\ UNCHANGED <<operatorVars, active, import>>

\* set_physical_compaction, which lets the trace merge.
SetPhysical(a, t) ==
  /\ holds[a].live /\ reads < MaxReads /\ t > holds[a].physical
  /\ holds' = [holds EXCEPT ![a].physical = t]
  /\ spine' = ConsiderMerges([spine EXCEPT !.physical = Least(holds', "physical")])
  /\ active' = Woken(spine')
  /\ reads' = reads + 1
  /\ UNCHANGED <<operatorVars, import>>

NoHold == [live |-> FALSE, logical |-> 0, physical |-> 0]
NoImport == [on |-> FALSE, queue |-> <<>>, frontier |-> 0, got |-> {}, since |-> 0,
             panicked |-> FALSE]
NewSpine == [merging |-> <<>>, pending |-> <<>>, upper |-> 0, logical |-> 0, physical |-> 0,
             panicked |-> FALSE]

\* map_batches, oldest first.
LayerBatches(l) ==
  CASE l.kind = "vacant" -> <<>>
    [] l.kind = "merge" -> <<l.old, l.new>>
    [] OTHER -> IF l.batch = {} THEN <<>> ELSE <<The(l.batch)>>

Batches(s) == FoldLeft(LAMBDA a, l : LayerBatches(l) \o a, <<>>, s.merging) \o s.pending

\* Mutant of History: only the batches that are not merging.
HistoryPending(s) ==
  [j \in 1 .. Len(s.pending) |-> [kind |-> "batch", batch |-> s.pending[j], hint |-> {0}]]

\* new_listener: the queue starts with the batches of the trace.
History(s) ==
  LET bs == Batches(s)
  IN [j \in 1 .. Len(bs) |-> [kind |-> "batch", batch |-> bs[j], hint |-> {0}]]
       \o IF bs = <<>> THEN <<>> ELSE <<[kind |-> "frontier", at |-> Last(bs).upper]>>

\* TraceAgent::clone, alone or as part of import_core.
Clone(a, b, importing) ==
  /\ holds[a].live /\ ~holds[b].live /\ reads < MaxReads
  /\ importing => ~import.on
  /\ holds' = [holds EXCEPT ![b] = holds[a]]
  /\ spine' = ConsiderMerges(spine)
  /\ active' = Woken(spine')
  /\ import' = IF importing
               THEN [NoImport EXCEPT !.on = TRUE, !.queue = History(spine'),
                                     !.since = holds[a].logical]
               ELSE import
  /\ reads' = reads + 1
  /\ UNCHANGED operatorVars

\* Drop of an agent; the trace goes with the last one.
Drop(a) ==
  /\ holds[a].live /\ reads < MaxReads
  /\ holds' = [holds EXCEPT ![a] = NoHold]
  /\ spine' = IF \E b \in Agents : holds'[b].live
              THEN ConsiderMerges([spine EXCEPT !.logical = Least(holds', "logical"),
                                                !.physical = Least(holds', "physical")])
              ELSE NewSpine
  /\ active' = Woken(spine')
  /\ reads' = reads + 1
  /\ UNCHANGED <<operatorVars, import>>

\* The importing source drains its queue: frontiers downgrade its capability,
\* batches with updates are sent at the delayed capability, if it allows that.
RunImport ==
  /\ import.on /\ import.queue # <<>> /\ ~import.panicked
  /\ LET step(i, m) ==
           IF m.kind = "frontier" THEN [i EXCEPT !.frontier = m.at]
           ELSE IF m.hint = {} \/ Size(m.batch.updates) = 0 THEN i
           ELSE [i EXCEPT !.got = Plus(@, m.batch.updates),
                          !.panicked = @ \/ The(m.hint) < i.frontier]
     IN import' = [FoldLeft(step, import, import.queue) EXCEPT !.queue = <<>>]
  /\ UNCHANGED <<operatorVars, spine, holds, active, reads>>

-----------------------------------------------------------------------------
Init ==
  /\ effort \in Efforts
  /\ held = {} /\ capability = Top /\ frontier = 0
  /\ spine = NewSpine
  /\ holds = LET a == CHOOSE b \in Agents : TRUE
             IN [b \in Agents |-> [NoHold EXCEPT !.live = (b = a)]]
  /\ active = FALSE
  /\ import = NoImport
  /\ total = {} /\ bounds = {0}
  /\ messages = 0 /\ reads = 0

Next ==
  \/ \E c \in Contents, t \in Times, f \in Frontiers : Receive(c, t, f)
  \/ \E f \in Frontiers : Advance(f)
  \/ Idle
  \/ \E a \in Agents, t \in Frontiers : SetLogical(a, t) \/ SetPhysical(a, t)
  \/ \E a, b \in Agents, importing \in BOOLEAN : Clone(a, b, importing)
  \/ \E a \in Agents : Drop(a)
  \/ RunImport

\* A worker schedules an operator whose activator was pressed.
Spec == Init /\ [][Next]_vars
FairSpec == Spec /\ WF_vars(Idle) /\ WF_vars(RunImport)

-----------------------------------------------------------------------------
(* Properties.                                                             *)

Consolidated(u) ==
  /\ \A x \in u : x \in Keys \X Times \X (Int \ {0})
  /\ \A x, y \in u : x[1] = y[1] /\ x[2] = y[2] => x = y

\* Every variable keeps its type, the trace has the batches of its interval,
\* one after the other, and never more than its capability allows are held.
TypeOK ==
  /\ effort \in Efforts /\ Consolidated(held) /\ Consolidated(total)
  /\ capability \in Frontiers /\ frontier \in Frontiers /\ \A x \in held : capability <= x[2]
  /\ holds \in [Agents -> [live : BOOLEAN, logical : Frontiers, physical : Frontiers]]
  /\ active \in BOOLEAN /\ bounds \subseteq Frontiers
  /\ LET bs == Batches(spine)
     IN /\ \A j \in DOMAIN bs : Consolidated(bs[j].updates)
        /\ Alive => (IF bs = <<>> THEN 0 ELSE Last(bs).upper) = frontier
        /\ \A j \in DOMAIN bs : bs[j].lower = IF j = 1 THEN 0 ELSE bs[j - 1].upper

\* "the merge completes before lower levels invade": no batch is ever inserted
\* into a layer that is still merging, no two batches that do not meet are
\* merged (Spine::insert_at, begin_merge), and the importer's capability
\* always allows the time of a batch it sends.
NeverPanics == ~spine.panicked /\ ~import.panicked

\* "Each of the batches at layer i contains at most 2^i elements", and below a
\* merge in progress there is less than one batch of its layer.
LayersFit ==
  \A i \in 1 .. Len(spine.merging) :
    LET l == spine.merging[i]
    IN /\ \A j \in DOMAIN LayerBatches(l) : Size(LayerBatches(l)[j].updates) <= 2^(i - 1)
       /\ l.kind = "merge" => Virtual(spine.merging, i - 1) < 2^(i - 1)

\* The two collections agree at every time from f on and before g.
Agree(f, g, u, v) ==
  \A k \in Keys, t \in f .. g - 1 : Acc(u, k, t) = Acc(v, k, t)

\* cursor_through: what a cursor shows at bound u.
Shown(u) ==
  LET taken == SelectSeq(spine.pending, LAMBDA b : b.upper <= u)
      bs == Batches([spine EXCEPT !.pending = taken])
  IN IF u = 0 THEN {} ELSE FoldLeft(LAMBDA x, b : Plus(x, b.updates), {}, bs)

Straddled(u) ==
  \E j \in DOMAIN spine.pending :
    LET b == spine.pending[j] IN Size(b.updates) > 0 /\ b.lower < u /\ u < b.upper


\* import_core: the importing dataflow, which starts with the batches the trace
\* has at that moment, has at every time its handle could distinguish exactly
\* the updates of the source, once its frontier has passed that time.
ImportExact ==
  import.on => Agree(import.since, import.frontier, import.got, total)

\* Left alone, an operator with idle effort stops rescheduling itself: what may
\* be merged is one batch in the end (exert, exert_effort, apply_fuel).
Compacts == <>[](frontier = Top \/ ~Alive \/ ~Wanted(spine))
=============================================================================
