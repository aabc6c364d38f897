--------------------------- MODULE LiveQueryProofs ---------------------------
(***************************************************************************)
(* The per-connection limiter counts exactly, and a label names one        *)
(* subscription, for any number of connections, labels, requests, commits, *)
(* failures and departures, in every interleaving of the handlers.         *)
(***************************************************************************)
EXTENDS LiveQuery, FiniteSetTheorems, TLAPS

Steps == {"idle", "admitted", "cold", "ready", "failed"} \cup Routed

\* The limiter's part of the state.
LimiterType ==
  /\ setup \in Setups
  /\ conn \in [Connections -> {"open", "closing", "closed"}]
  /\ active \in [Connections -> Int]
  /\ task = [s \in Subs |-> [pc |-> task[s].pc, conn |-> task[s].conn, label |-> task[s].label,
                             at |-> task[s].at, rows |-> task[s].rows, warm |-> task[s].warm]]
  /\ \A s \in Subs : task[s].pc \in Steps /\ task[s].conn \in Connections /\ task[s].label \in Labels
  /\ by_client_id \in [Connections -> [Labels -> Subs \cup {NoSub}]]
  /\ registry \subseteq Subs

\* The count is exact only because labels are: a second record under a label
\* would replace the first without giving its admission back.
LimiterInv == LimiterType /\ OneSubscription /\ LimiterExact

-----------------------------------------------------------------------------
(* Counting.                                                               *)

LEMMA SubsFinite == \A c : IsFiniteSet(InFlightOn(c)) /\ IsFiniteSet(RecordedOn(c))
<1> TAKE c
<1>1. IsFiniteSet(Subs) BY FS_Interval, LiveQueryAssumption DEF Subs
<1>2. IsFiniteSet(Labels) BY LiveQueryAssumption
<1>3. InFlightOn(c) \subseteq Subs /\ RecordedOn(c) \subseteq Labels
  BY DEF InFlightOn, RecordedOn
<1> QED BY <1>1, <1>2, <1>3, FS_Subset

\* One element more, one element less.
LEMMA OneMore ==
  ASSUME NEW S, IsFiniteSet(S), NEW x, x \notin S
  PROVE  Cardinality(S \cup {x}) = Cardinality(S) + 1 /\ Cardinality(S) \in Nat
  BY FS_AddElement, FS_CardinalityType

LEMMA OneLess ==
  ASSUME NEW S, IsFiniteSet(S), NEW x \in S
  PROVE  Cardinality(S \ {x}) = Cardinality(S) - 1 /\ Cardinality(S) \in Nat
  BY FS_RemoveElement, FS_CardinalityType

-----------------------------------------------------------------------------
(* Steps of one handler.                                                   *)

\* The request s is at step pc now, on connection c under label l; the other
\* requests are where they were.
Became(s, pc, c, l) ==
  /\ task' = [task EXCEPT ![s] = task'[s]]
  /\ task'[s].pc = pc /\ task'[s].conn = c /\ task'[s].label = l
  /\ task'[s] = [pc |-> pc, conn |-> c, label |-> l,
                 at |-> task'[s].at, rows |-> task'[s].rows, warm |-> task'[s].warm]

\* The handler of s moves to another step of its request.
Moved(s, pc) == Became(s, pc, task[s].conn, task[s].label)

LEMMA BecameType ==
  ASSUME LimiterType, NEW s \in Subs, NEW pc \in Steps, NEW c \in Connections, NEW l \in Labels,
         Became(s, pc, c, l),
         UNCHANGED <<setup, conn>>,
         active' \in [Connections -> Int],
         by_client_id' \in [Connections -> [Labels -> Subs \cup {NoSub}]],
         registry' \subseteq Subs
  PROVE  LimiterType' /\ \A r \in Subs : r # s => task'[r] = task[r]
<1>1. \A r \in Subs : r # s => task'[r] = task[r] BY DEF Became, LimiterType
<1>2. task' = [r \in Subs |-> IF r = s THEN task'[s] ELSE task[r]] BY DEF Became, LimiterType
<1>3. \A r \in Subs : task[r] = [pc |-> task[r].pc, conn |-> task[r].conn,
        label |-> task[r].label, at |-> task[r].at, rows |-> task[r].rows, warm |-> task[r].warm]
  BY DEF LimiterType
<1>4. \A r \in Subs : task'[r] = [pc |-> task'[r].pc, conn |-> task'[r].conn,
        label |-> task'[r].label, at |-> task'[r].at, rows |-> task'[r].rows,
        warm |-> task'[r].warm]
  BY <1>1, <1>3 DEF Became
<1>5. task' = [r \in Subs |-> [pc |-> task'[r].pc, conn |-> task'[r].conn,
        label |-> task'[r].label, at |-> task'[r].at, rows |-> task'[r].rows,
        warm |-> task'[r].warm]]
  BY <1>2, <1>4
<1>6. \A r \in Subs : task'[r].pc \in Steps /\ task'[r].conn \in Connections
                       /\ task'[r].label \in Labels
  BY <1>1 DEF Became, LimiterType
<1> QED BY <1>1, <1>5, <1>6 DEF LimiterType

LEMMA MovedType ==
  ASSUME LimiterType, NEW s \in Subs, NEW pc \in Steps, Moved(s, pc),
         UNCHANGED <<setup, conn>>,
         active' \in [Connections -> Int],
         by_client_id' \in [Connections -> [Labels -> Subs \cup {NoSub}]],
         registry' \subseteq Subs
  PROVE  LimiterType' /\ \A r \in Subs : r # s => task'[r] = task[r]
<1>1. task[s].conn \in Connections /\ task[s].label \in Labels BY DEF LimiterType
<1> QED BY <1>1, BecameType DEF Moved

LEMMA GotoMoves ==
  ASSUME LimiterType, NEW s \in Subs, NEW pc, Goto(s, pc)
  PROVE  Moved(s, pc)
  BY DEF Goto, Moved, Became, LimiterType

\* Only s may join or leave the handlers in flight.
LEMMA InFlightStep ==
  ASSUME NEW s \in Subs, \A r \in Subs : r # s => task'[r] = task[r], NEW c
  PROVE  InFlightOn(c)' = IF task'[s].conn = c /\ InFlight(s)' THEN InFlightOn(c) \cup {s}
                          ELSE InFlightOn(c) \ {s}
  BY DEF InFlightOn, InFlight

\* A step from one stage of a request to the next, in which it stays in flight
\* or stays out of it.
LEMMA Stays ==
  ASSUME LimiterInv, NEW s \in Subs, NEW pc \in Steps, Moved(s, pc),
         UNCHANGED <<setup, conn, active, by_client_id, registry>>,
         s \in registry => pc \in Routed,
         pc \in {"routed", "seeded"} => task[s].pc \in {"routed", "seeded"},
         InFlight(s)' <=> InFlight(s)
  PROVE  LimiterInv'
<1>1. LimiterType' /\ \A r \in Subs : r # s => task'[r] = task[r]
  BY MovedType DEF LimiterInv, LimiterType
<1>2. task'[s].conn = task[s].conn /\ task'[s].label = task[s].label /\ task'[s].pc = pc
  BY DEF Moved, Became
<1>3. registry \subseteq Subs /\ OneSubscription BY DEF LimiterInv, LimiterType
<1>4. \A r \in Subs : /\ task'[r].conn = task[r].conn /\ task'[r].label = task[r].label
                       /\ (InFlight(r)' <=> InFlight(r))
  BY <1>1, <1>2 DEF InFlight
<1>5. \A c \in Connections : InFlightOn(c)' = InFlightOn(c) BY <1>4 DEF InFlightOn, InFlight
<1>6. \A c \in Connections : RecordedOn(c)' = RecordedOn(c) BY DEF RecordedOn
<1>7. LimiterExact' BY <1>5, <1>6 DEF LimiterInv, LimiterExact, Open
<1>8. OneSubscription'
  <2>1. \A r \in registry : task'[r].pc \in Routed
    BY <1>1, <1>2, <1>3 DEF OneSubscription
  <2>2. \A r \in Subs : task'[r].pc \in {"routed", "seeded"} /\ Open(task'[r].conn)
                        => r \in registry
    BY <1>1, <1>2, <1>3 DEF OneSubscription
  <2>3. ASSUME NEW c \in Connections, NEW l \in Labels, NEW r, r = by_client_id[c][l],
               Open(c), r # NoSub
        PROVE  r \in registry /\ ~InFlight(r)' /\ task'[r].conn = c /\ task'[r].label = l
    <3>1. r \in registry /\ ~InFlight(r) /\ task[r].conn = c /\ task[r].label = l
      BY <1>3, <2>3 DEF OneSubscription
    <3> QED BY <1>3, <1>4, <3>1
  <2>4. \A r, q \in registry :
          task'[r].conn = task'[q].conn /\ task'[r].label = task'[q].label => r = q
    BY <1>3, <1>4 DEF OneSubscription
  <2> QED BY <2>1, <2>2, <2>3, <2>4 DEF OneSubscription, Open, InFlight
<1> QED BY <1>1, <1>7, <1>8 DEF LimiterInv

\* A request that fails gives its admission back.
LEMMA Fails ==
  ASSUME LimiterInv, NEW s \in Subs, Moved(s, "failed"), DropAdmission(s), InFlight(s),
         s \notin registry,
         UNCHANGED <<setup, conn, by_client_id, registry>>
  PROVE  LimiterInv'
<1>1. "failed" \in Steps /\ active' \in [Connections -> Int]
  BY DEF Steps, DropAdmission, LimiterInv, LimiterType
<1>2. LimiterType' /\ \A r \in Subs : r # s => task'[r] = task[r]
  BY <1>1, MovedType DEF LimiterInv, LimiterType
<1>3. task'[s].pc = "failed" /\ ~InFlight(s)' BY DEF Moved, Became, InFlight
<1>4. registry \subseteq Subs /\ OneSubscription /\ task[s].conn \in Connections
  BY DEF LimiterInv, LimiterType
<1>5. LimiterExact'
  <2> SUFFICES ASSUME NEW c \in Connections, Open(c)'
               PROVE  active'[c] = Cardinality(InFlightOn(c)') + Cardinality(RecordedOn(c)')
    BY DEF LimiterExact
  <2>1. active[c] = Cardinality(InFlightOn(c)) + Cardinality(RecordedOn(c))
    BY DEF LimiterInv, LimiterExact, Open
  <2>2. RecordedOn(c)' = RecordedOn(c) BY DEF RecordedOn
  <2>3. InFlightOn(c)' = InFlightOn(c) \ {s} BY <1>2, <1>3, InFlightStep
  <2>4. IsFiniteSet(InFlightOn(c)) /\ IsFiniteSet(RecordedOn(c)) BY SubsFinite
  <2>5. Cardinality(RecordedOn(c)) \in Nat /\ Cardinality(InFlightOn(c)) \in Nat
    BY <2>4, FS_CardinalityType
  <2>6. CASE task[s].conn = c
    <3>1. s \in InFlightOn(c) BY <2>6 DEF InFlightOn
    <3>2. Cardinality(InFlightOn(c) \ {s}) = Cardinality(InFlightOn(c)) - 1
      BY <2>4, <3>1, OneLess
    <3>3. active'[c] = active[c] - 1 BY <2>6 DEF DropAdmission, LimiterInv, LimiterType
    <3> QED BY <2>1, <2>2, <2>3, <2>5, <3>2, <3>3
  <2>7. CASE task[s].conn # c
    <3>1. InFlightOn(c) \ {s} = InFlightOn(c) BY <2>7 DEF InFlightOn
    <3>2. active'[c] = active[c] BY <2>7 DEF DropAdmission, LimiterInv, LimiterType
    <3> QED BY <2>1, <2>2, <2>3, <3>1, <3>2
  <2> QED BY <2>6, <2>7
<1>6. OneSubscription'
  <2>1. \A r \in registry : r # s /\ task'[r] = task[r] BY <1>2, <1>4
  <2>2. \A r \in Subs : task'[r].pc \in {"routed", "seeded"} => task'[r] = task[r]
    BY <1>2, <1>3
  <2> QED BY <1>4, <2>1, <2>2 DEF OneSubscription, Open, InFlight
<1> QED BY <1>2, <1>5, <1>6 DEF LimiterInv

\* A request is admitted: one more in flight, one more counted.
LEMMA Admits ==
  ASSUME LimiterInv, NEW s \in Subs, NEW c \in Connections, NEW l \in Labels, Admit(s, c, l)
  PROVE  LimiterInv'
<1>1. Became(s, "admitted", c, l) /\ "admitted" \in Steps
  BY DEF Admit, Became, LimiterInv, LimiterType, Steps
<1>2. UNCHANGED <<setup, conn, by_client_id, registry>> BY DEF Admit, walVars, connVars, serverVars
<1>3. active' \in [Connections -> Int] BY DEF Admit, LimiterInv, LimiterType
<1>4. LimiterType' /\ \A r \in Subs : r # s => task'[r] = task[r]
  BY <1>1, <1>2, <1>3, BecameType DEF LimiterInv, LimiterType
<1>5. task'[s].pc = "admitted" /\ task'[s].conn = c /\ InFlight(s)' BY <1>1 DEF Became, InFlight
<1>6. registry \subseteq Subs /\ OneSubscription BY DEF LimiterInv, LimiterType
<1>7. s \notin registry /\ ~InFlight(s)
  BY <1>6 DEF Admit, At, OneSubscription, Routed, InFlight
<1>8. LimiterExact'
  <2> SUFFICES ASSUME NEW d \in Connections, Open(d)'
               PROVE  active'[d] = Cardinality(InFlightOn(d)') + Cardinality(RecordedOn(d)')
    BY DEF LimiterExact
  <2>1. active[d] = Cardinality(InFlightOn(d)) + Cardinality(RecordedOn(d))
    BY <1>2 DEF LimiterInv, LimiterExact, Open
  <2>2. RecordedOn(d)' = RecordedOn(d) BY <1>2 DEF RecordedOn
  <2>3. IsFiniteSet(InFlightOn(d)) /\ Cardinality(RecordedOn(d)) \in Nat
    BY SubsFinite, FS_CardinalityType
  <2>4. s \notin InFlightOn(d) BY <1>7 DEF InFlightOn
  <2>5. CASE d = c
    <3>1. InFlightOn(d)' = InFlightOn(d) \cup {s} BY <1>4, <1>5, <2>5, InFlightStep
    <3>2. Cardinality(InFlightOn(d) \cup {s}) = Cardinality(InFlightOn(d)) + 1
          /\ Cardinality(InFlightOn(d)) \in Nat
      BY <2>3, <2>4, OneMore
    <3>3. active'[d] = active[d] + 1 BY <2>5 DEF Admit, LimiterInv, LimiterType
    <3> QED BY <2>1, <2>2, <2>3, <3>1, <3>2, <3>3
  <2>6. CASE d # c
    <3>1. InFlightOn(d)' = InFlightOn(d) BY <1>4, <1>5, <2>4, <2>6, InFlightStep
    <3>2. active'[d] = active[d] BY <2>6 DEF Admit, LimiterInv, LimiterType
    <3> QED BY <2>1, <2>2, <3>1, <3>2
  <2> QED BY <2>5, <2>6
<1>9. OneSubscription'
  <2>1. \A r \in registry : r # s /\ task'[r] = task[r] BY <1>4, <1>6, <1>7
  <2>2. \A r \in Subs : task'[r].pc \in {"routed", "seeded"} => task'[r] = task[r]
    BY <1>4, <1>5
  <2> QED BY <1>2, <1>6, <2>1, <2>2 DEF OneSubscription, Open, InFlight
<1> QED BY <1>4, <1>8, <1>9 DEF LimiterInv

\* The router takes a record under a label no other record has.
LEMMA Routes ==
  ASSUME LimiterInv, NEW s \in Subs, Route(s), ~Taken(s)
  PROVE  LimiterInv'
<1>1. Moved(s, "routed") /\ "routed" \in Steps
  BY GotoMoves DEF Route, LimiterInv, Steps, Routed
<1>2. UNCHANGED <<setup, conn, active, by_client_id>> /\ registry' = registry \cup {s}
  BY DEF Route, walVars, connVars
<1>3. registry \subseteq Subs /\ OneSubscription BY DEF LimiterInv, LimiterType
<1>4. LimiterType' /\ \A r \in Subs : r # s => task'[r] = task[r]
  BY <1>1, <1>2, <1>3, MovedType DEF LimiterInv, LimiterType
<1>5. /\ task'[s].conn = task[s].conn /\ task'[s].label = task[s].label /\ task'[s].pc = "routed"
      /\ InFlight(s)' /\ InFlight(s)
  BY <1>1 DEF Moved, Became, Route, At, InFlight
<1>6. \A r \in Subs : /\ task'[r].conn = task[r].conn /\ task'[r].label = task[r].label
                       /\ (InFlight(r)' <=> InFlight(r))
  BY <1>4, <1>5 DEF InFlight
<1>7. \A c \in Connections : InFlightOn(c)' = InFlightOn(c) BY <1>6 DEF InFlightOn, InFlight
<1>8. \A c \in Connections : RecordedOn(c)' = RecordedOn(c) BY <1>2 DEF RecordedOn
<1>9. LimiterExact' BY <1>2, <1>7, <1>8 DEF LimiterInv, LimiterExact, Open
<1>10. OneSubscription'
  <2>1. \A r \in registry \cup {s} : task'[r].pc \in Routed
    BY <1>3, <1>4, <1>5 DEF OneSubscription, Routed
  <2>2. \A r \in Subs : task'[r].pc \in {"routed", "seeded"} /\ Open(task'[r].conn)
                        => r \in registry \cup {s}
    BY <1>3, <1>4 DEF OneSubscription
  <2>3. ASSUME NEW c \in Connections, NEW l \in Labels, NEW r, r = by_client_id[c][l],
               Open(c), r # NoSub
        PROVE  r \in registry /\ ~InFlight(r)' /\ task'[r].conn = c /\ task'[r].label = l
    <3>1. r \in registry /\ ~InFlight(r) /\ task[r].conn = c /\ task[r].label = l
      BY <1>3, <2>3 DEF OneSubscription
    <3> QED BY <1>3, <1>6, <3>1
  <2>4. \A r \in registry : ~(task[r].conn = task[s].conn /\ task[r].label = task[s].label)
    BY DEF Taken
  <2>5. \A r, q \in registry \cup {s} :
          task'[r].conn = task'[q].conn /\ task'[r].label = task'[q].label => r = q
    BY <1>3, <1>6, <2>4 DEF OneSubscription
  <2> QED BY <1>2, <2>1, <2>2, <2>3, <2>5 DEF OneSubscription, Open, InFlight
<1> QED BY <1>4, <1>9, <1>10 DEF LimiterInv

\* The admission passes from the handler to the connection's table, where no
\* other subscription holds the label.
LEMMA Records ==
  ASSUME LimiterInv, NEW s \in Subs, Record(s)
  PROVE  LimiterInv'
<1> DEFINE c0 == task[s].conn
           l0 == task[s].label
<1>1. Moved(s, "recorded") /\ "recorded" \in Steps
  BY GotoMoves DEF Record, LimiterInv, Steps, Routed
<1>2. /\ UNCHANGED <<setup, conn, active, registry>>
      /\ by_client_id' = [by_client_id EXCEPT ![c0][l0] = s]
  BY DEF Record, walVars, serverVars
<1>3. /\ registry \subseteq Subs /\ OneSubscription /\ c0 \in Connections /\ l0 \in Labels
      /\ by_client_id \in [Connections -> [Labels -> Subs \cup {NoSub}]]
      /\ active \in [Connections -> Int]
  BY DEF LimiterInv, LimiterType
<1>4. by_client_id' \in [Connections -> [Labels -> Subs \cup {NoSub}]] BY <1>2, <1>3
<1>5. LimiterType' /\ \A r \in Subs : r # s => task'[r] = task[r]
  BY <1>1, <1>2, <1>3, <1>4, MovedType DEF LimiterInv
<1>6. /\ task'[s].conn = c0 /\ task'[s].label = l0 /\ task'[s].pc = "recorded"
      /\ ~InFlight(s)' /\ InFlight(s) /\ task[s].pc = "seeded"
  BY <1>1 DEF Moved, Became, Record, At, InFlight
<1>7. \A r \in Subs : task'[r].conn = task[r].conn /\ task'[r].label = task[r].label
  BY <1>5, <1>6
<1>8. \A c \in Connections, l \in Labels :
        by_client_id'[c][l] = IF c = c0 /\ l = l0 THEN s ELSE by_client_id[c][l]
  BY <1>2, <1>3
<1>9. ASSUME Open(c0) PROVE s \in registry /\ by_client_id[c0][l0] = NoSub
  <2>1. s \in registry BY <1>3, <1>6, <1>9 DEF OneSubscription
  <2>2. ASSUME NEW r, r = by_client_id[c0][l0], r # NoSub PROVE FALSE
    <3>1. r \in registry /\ ~InFlight(r) /\ task[r].conn = c0 /\ task[r].label = l0
      BY <1>3, <1>9, <2>2 DEF OneSubscription
    <3>2. r = s BY <1>3, <2>1, <3>1 DEF OneSubscription
    <3> QED BY <1>6, <3>1, <3>2
  <2> QED BY <2>1, <2>2
<1> HIDE DEF c0, l0
<1>10. LimiterExact'
  <2> SUFFICES ASSUME NEW d \in Connections, Open(d)'
               PROVE  active'[d] = Cardinality(InFlightOn(d)') + Cardinality(RecordedOn(d)')
    BY DEF LimiterExact
  <2>1. Open(d) BY <1>2 DEF Open
  <2>2. active[d] = Cardinality(InFlightOn(d)) + Cardinality(RecordedOn(d))
    BY <2>1 DEF LimiterInv, LimiterExact
  <2>3. InFlightOn(d)' = InFlightOn(d) \ {s} BY <1>5, <1>6, InFlightStep
  <2>4. IsFiniteSet(InFlightOn(d)) /\ IsFiniteSet(RecordedOn(d)) BY SubsFinite
  <2>5. CASE d = c0
    <3>1. s \in InFlightOn(d) BY <1>6, <2>5 DEF InFlightOn, c0
    <3>2. l0 \notin RecordedOn(d) BY <1>9, <2>1, <2>5 DEF RecordedOn
    <3>3. RecordedOn(d)' = RecordedOn(d) \cup {l0}
      <4>1. s # NoSub BY DEF Subs, NoSub
      <4>2. \A l \in Labels : by_client_id'[d][l] # NoSub
                              <=> (by_client_id[d][l] # NoSub \/ l = l0)
        BY <1>8, <2>5, <4>1
      <4> QED BY <1>3, <4>2 DEF RecordedOn
    <3>4. /\ Cardinality(InFlightOn(d) \ {s}) = Cardinality(InFlightOn(d)) - 1
          /\ Cardinality(InFlightOn(d)) \in Nat
      BY <2>4, <3>1, OneLess
    <3>5. /\ Cardinality(RecordedOn(d) \cup {l0}) = Cardinality(RecordedOn(d)) + 1
          /\ Cardinality(RecordedOn(d)) \in Nat
      BY <2>4, <3>2, OneMore
    <3> QED BY <1>2, <2>2, <2>3, <3>3, <3>4, <3>5
  <2>6. CASE d # c0
    <3>1. InFlightOn(d) \ {s} = InFlightOn(d) BY <2>6 DEF InFlightOn, c0
    <3>2. RecordedOn(d)' = RecordedOn(d) BY <1>8, <2>6 DEF RecordedOn
    <3> QED BY <1>2, <2>2, <2>3, <3>1, <3>2
  <2> QED BY <2>5, <2>6
<1>11. OneSubscription'
  <2>1. \A r \in registry : task'[r].pc \in Routed
    BY <1>3, <1>5, <1>6 DEF OneSubscription, Routed
  <2>2. \A r \in Subs : task'[r].pc \in {"routed", "seeded"} /\ Open(task'[r].conn)
                        => r \in registry
    BY <1>3, <1>5, <1>6 DEF OneSubscription
  <2>3. ASSUME NEW c \in Connections, NEW l \in Labels, NEW r, r = by_client_id'[c][l],
               Open(c), r # NoSub
        PROVE  r \in registry /\ ~InFlight(r)' /\ task'[r].conn = c /\ task'[r].label = l
    <3>1. CASE c = c0 /\ l = l0
      <4>1. r = s BY <1>8, <2>3, <3>1
      <4> QED BY <1>6, <1>9, <2>3, <3>1, <4>1
    <3>2. CASE ~(c = c0 /\ l = l0)
      <4>1. r = by_client_id[c][l] BY <1>8, <2>3, <3>2
      <4>2. r \in registry /\ ~InFlight(r) /\ task[r].conn = c /\ task[r].label = l
        BY <1>3, <2>3, <4>1 DEF OneSubscription
      <4>3. r \in Subs /\ r # s BY <1>3, <1>6, <4>2
      <4>4. task'[r] = task[r] BY <1>5, <4>3
      <4> QED BY <4>2, <4>4 DEF InFlight
    <3> QED BY <3>1, <3>2
  <2>4. \A r, q \in registry :
          task'[r].conn = task'[q].conn /\ task'[r].label = task'[q].label => r = q
    BY <1>3, <1>7 DEF OneSubscription
  <2> QED BY <1>2, <2>1, <2>2, <2>3, <2>4 DEF OneSubscription, Open, InFlight
<1> QED BY <1>5, <1>10, <1>11 DEF LimiterInv

\* Unsubscribe gives back the admission its record held.
LEMMA Unsubscribes ==
  ASSUME LimiterInv, NEW c \in Connections, NEW l \in Labels, Unsubscribe(c, l)
  PROVE  LimiterInv'
<1>1. PICK s : s = by_client_id[c][l] OBVIOUS
<1>2. /\ UNCHANGED <<setup, conn, task>> /\ registry' = registry \ {s}
      /\ by_client_id' = [by_client_id EXCEPT ![c][l] = NoSub]
      /\ active' = [active EXCEPT ![c] = @ - 1]
      /\ Open(c) /\ s # NoSub
  BY <1>1 DEF Unsubscribe, walVars
<1>3. /\ registry \subseteq Subs /\ OneSubscription
      /\ by_client_id \in [Connections -> [Labels -> Subs \cup {NoSub}]]
      /\ active \in [Connections -> Int]
  BY DEF LimiterInv, LimiterType
<1>4. LimiterType' BY <1>2, <1>3 DEF LimiterInv, LimiterType
<1>5. s \in registry /\ ~InFlight(s) /\ task[s].conn = c /\ task[s].label = l
  BY <1>1, <1>2, <1>3 DEF OneSubscription
<1>6. \A d \in Connections, m \in Labels :
        by_client_id'[d][m] = IF d = c /\ m = l THEN NoSub ELSE by_client_id[d][m]
  BY <1>2, <1>3
<1>7. LimiterExact'
  <2> SUFFICES ASSUME NEW d \in Connections, Open(d)'
               PROVE  active'[d] = Cardinality(InFlightOn(d)') + Cardinality(RecordedOn(d)')
    BY DEF LimiterExact
  <2>1. active[d] = Cardinality(InFlightOn(d)) + Cardinality(RecordedOn(d))
    BY <1>2 DEF LimiterInv, LimiterExact, Open
  <2>2. InFlightOn(d)' = InFlightOn(d) BY <1>2 DEF InFlightOn, InFlight
  <2>3. IsFiniteSet(RecordedOn(d)) /\ Cardinality(InFlightOn(d)) \in Nat
    BY SubsFinite, FS_CardinalityType
  <2>4. CASE d = c
    <3>1. l \in RecordedOn(d) BY <1>1, <1>2, <2>4 DEF RecordedOn
    <3>2. RecordedOn(d)' = RecordedOn(d) \ {l} BY <1>6, <2>4 DEF RecordedOn
    <3>3. /\ Cardinality(RecordedOn(d) \ {l}) = Cardinality(RecordedOn(d)) - 1
          /\ Cardinality(RecordedOn(d)) \in Nat
      BY <2>3, <3>1, OneLess
    <3>4. active'[d] = active[d] - 1 BY <1>2, <1>3, <2>4
    <3> QED BY <2>1, <2>2, <2>3, <3>2, <3>3, <3>4
  <2>5. CASE d # c
    <3>1. RecordedOn(d)' = RecordedOn(d) BY <1>6, <2>5 DEF RecordedOn
    <3>2. active'[d] = active[d] BY <1>2, <1>3, <2>5
    <3> QED BY <2>1, <2>2, <3>1, <3>2
  <2> QED BY <2>4, <2>5
<1>8. OneSubscription'
  <2>1. \A r \in Subs : task[r].pc \in {"routed", "seeded"} /\ Open(task[r].conn)
                        => r \in registry \ {s}
    BY <1>3, <1>5 DEF OneSubscription, InFlight
  <2>2. ASSUME NEW d \in Connections, NEW m \in Labels, NEW r, r = by_client_id'[d][m],
               Open(d), r # NoSub
        PROVE  r \in registry \ {s} /\ ~InFlight(r) /\ task[r].conn = d /\ task[r].label = m
    <3>1. r = by_client_id[d][m] /\ ~(d = c /\ m = l) BY <1>6, <2>2
    <3>2. r \in registry /\ ~InFlight(r) /\ task[r].conn = d /\ task[r].label = m
      BY <1>3, <2>2, <3>1 DEF OneSubscription
    <3> QED BY <1>5, <3>1, <3>2
  <2> QED BY <1>2, <1>3, <2>1, <2>2 DEF OneSubscription, Open, InFlight
<1> QED BY <1>4, <1>7, <1>8 DEF LimiterInv

\* A connection that ends is no longer counted, and the router drops only its
\* records.
LEMMA Ends ==
  ASSUME LimiterInv, NEW c \in Connections, CloseConnection(c) \/ RouterDisconnect(c)
  PROVE  LimiterInv'
<1>1. /\ UNCHANGED <<setup, active, task, by_client_id>>
      /\ conn' \in [Connections -> {"open", "closing", "closed"}]
      /\ \A d \in Connections : Open(d)' => Open(d) /\ d # c
      /\ registry' \subseteq registry
      /\ \A r \in registry : task[r].conn # c => r \in registry'
  BY DEF CloseConnection, RouterDisconnect, walVars, serverVars, Open, LimiterInv, LimiterType
<1>2. /\ registry \subseteq Subs /\ OneSubscription
      /\ \A r \in Subs : task[r].conn \in Connections
  BY DEF LimiterInv, LimiterType
<1>3. LimiterType' BY <1>1, <1>2 DEF LimiterInv, LimiterType
<1>4. LimiterExact'
  <2>1. \A d \in Connections : InFlightOn(d)' = InFlightOn(d) /\ RecordedOn(d)' = RecordedOn(d)
    BY <1>1 DEF InFlightOn, InFlight, RecordedOn
  <2> QED BY <1>1, <2>1 DEF LimiterInv, LimiterExact
<1>5. OneSubscription'
  <2>1. \A r \in Subs : task[r].pc \in {"routed", "seeded"} /\ Open(task[r].conn)'
                        => r \in registry'
    BY <1>1, <1>2 DEF OneSubscription
  <2>2. ASSUME NEW d \in Connections, NEW m \in Labels, NEW r, r = by_client_id[d][m],
               Open(d)', r # NoSub
        PROVE  r \in registry' /\ ~InFlight(r) /\ task[r].conn = d /\ task[r].label = m
    <3>1. r \in registry /\ ~InFlight(r) /\ task[r].conn = d /\ task[r].label = m
      BY <1>1, <1>2, <2>2 DEF OneSubscription
    <3> QED BY <1>1, <2>2, <3>1
  <2> QED BY <1>1, <1>2, <2>1, <2>2 DEF OneSubscription, InFlight
<1> QED BY <1>3, <1>4, <1>5 DEF LimiterInv

\* A step that touches nothing of the limiter's.
LEMMA Quiet ==
  ASSUME LimiterInv, UNCHANGED <<setup, conn, active, task, by_client_id, registry>>
  PROVE  LimiterInv'
<1>1. LimiterType' BY DEF LimiterInv, LimiterType
<1>2. OneSubscription' BY DEF LimiterInv, OneSubscription, InFlight, Open
<1>3. \A c \in Connections : InFlightOn(c)' = InFlightOn(c) /\ RecordedOn(c)' = RecordedOn(c)
  BY DEF InFlightOn, InFlight, RecordedOn
<1>4. LimiterExact' BY <1>3 DEF LimiterInv, LimiterExact, Open
<1> QED BY <1>1, <1>2, <1>4 DEF LimiterInv

-----------------------------------------------------------------------------
(* The whole.                                                              *)

LEMMA LimiterInit == Init => LimiterInv
<1> SUFFICES ASSUME Init PROVE LimiterInv OBVIOUS
<1>1. LimiterType
  <2>1. /\ NoTask.pc \in Steps /\ NoTask.conn \in Connections /\ NoTask.label \in Labels
    BY LiveQueryAssumption DEF NoTask, Steps
  <2>2. \A s \in Subs : task[s] = NoTask BY DEF Init
  <2>3. task = [s \in Subs |-> [pc |-> task[s].pc, conn |-> task[s].conn, label |-> task[s].label,
                                at |-> task[s].at, rows |-> task[s].rows, warm |-> task[s].warm]]
    BY <2>2 DEF Init, NoTask
  <2>4. /\ setup \in Setups /\ registry \subseteq Subs
        /\ conn \in [Connections -> {"open", "closing", "closed"}]
        /\ active \in [Connections -> Int]
    BY DEF Init
  <2>5. by_client_id \in [Connections -> [Labels -> Subs \cup {NoSub}]] BY DEF Init
  <2>6. \A s \in Subs : /\ task[s].pc \in Steps /\ task[s].conn \in Connections
                         /\ task[s].label \in Labels
    BY <2>1, <2>2
  <2> QED BY <2>3, <2>4, <2>5, <2>6 DEF LimiterType
<1>2. OneSubscription BY DEF Init, OneSubscription, NoTask
<1>3. LimiterExact
  <2>1. \A c \in Connections : InFlightOn(c) = {} /\ RecordedOn(c) = {}
    BY DEF Init, InFlightOn, InFlight, NoTask, RecordedOn
  <2>2. Cardinality({}) = 0 BY FS_EmptySet
  <2>3. \A c \in Connections : active[c] = 0 BY DEF Init
  <2> QED BY <2>1, <2>2, <2>3 DEF LimiterExact
<1> QED BY <1>1, <1>2, <1>3 DEF LimiterInv

LEMMA LimiterNext == LimiterInv /\ [Next]_vars => LimiterInv'
<1> SUFFICES ASSUME LimiterInv, [Next]_vars PROVE LimiterInv' OBVIOUS
<1> USE DEF walVars, connVars, serverVars
<1>1. CASE Commit BY <1>1, Quiet DEF Commit
<1>2. ASSUME NEW s \in Subs, NEW caller \in setup.callers[s], Admit(s, caller[1], caller[2])
      PROVE  LimiterInv'
  <2>1. setup \in Setups BY DEF LimiterInv, LimiterType
  <2>2. setup.callers[s] \subseteq Connections \X Labels BY <2>1, LiveQueryAssumption DEF Subs
  <2>3. caller[1] \in Connections /\ caller[2] \in Labels BY <2>2
  <2> QED BY <1>2, <2>3, Admits
<1>3. ASSUME NEW s \in Subs, Refuse(s) PROVE LimiterInv'
  <2>1. Moved(s, "failed") BY <1>3, GotoMoves DEF Refuse, LimiterInv
  <2>2. InFlight(s) /\ s \notin registry
    BY <1>3 DEF Refuse, At, InFlight, LimiterInv, OneSubscription, Routed
  <2> QED BY <1>3, <2>1, <2>2, Fails DEF Refuse
<1>4. ASSUME NEW s \in Subs, Handle(s) PROVE LimiterInv'
  <2> USE DEF Steps, Routed
  <2>0. LimiterType /\ (s \in registry => task[s].pc \in Routed)
    BY DEF LimiterInv, OneSubscription
  <2>1. CASE CachedView(s)
    <3>1. UNCHANGED <<setup, conn, active, by_client_id, registry>> BY <2>1 DEF CachedView
    <3>2. task[s].pc = "admitted" BY <2>1 DEF CachedView, At
    <3>3. PICK pc \in {"ready", "cold"} : Moved(s, pc)
      BY <2>0, <2>1, GotoMoves DEF CachedView, Moved, Became, LimiterType
    <3>4. InFlight(s) /\ InFlight(s)' BY <3>2, <3>3 DEF InFlight, Moved, Became
    <3> QED BY <2>0, <3>1, <3>2, <3>3, <3>4, Stays
  <2>2. CASE FetchSnapshot(s)
    <3>1. UNCHANGED <<setup, conn, active, by_client_id, registry>> BY <2>2 DEF FetchSnapshot
    <3>2. task[s].pc = "cold" BY <2>2 DEF FetchSnapshot, At
    <3>3. Moved(s, "ready")
      <4>1. task[s] = [pc |-> task[s].pc, conn |-> task[s].conn, label |-> task[s].label,
                       at |-> task[s].at, rows |-> task[s].rows, warm |-> task[s].warm]
        BY <2>0 DEF LimiterType
      <4>2. task'[s] = [task[s] EXCEPT !.pc = "ready", !.at = lsn, !.rows = Exact(lsn)]
        BY <2>0, <2>2 DEF FetchSnapshot, LimiterType
      <4>3. task'[s] = [pc |-> "ready", conn |-> task[s].conn, label |-> task[s].label,
                        at |-> lsn, rows |-> Exact(lsn), warm |-> task[s].warm]
        BY <4>1, <4>2
      <4>4. task' = [task EXCEPT ![s] = task'[s]] BY <2>0, <2>2 DEF FetchSnapshot, LimiterType
      <4> QED BY <4>3, <4>4 DEF Moved, Became
    <3>4. InFlight(s) /\ InFlight(s)' BY <3>2, <3>3 DEF InFlight, Moved, Became
    <3> QED BY <2>0, <3>1, <3>2, <3>3, <3>4, Stays
  <2>3. CASE Route(s)
    <3>1. CASE Taken(s)
      <4>1. Moved(s, "failed") BY <2>0, <2>3, <3>1, GotoMoves DEF Route
      <4>2. InFlight(s) /\ s \notin registry BY <2>0, <2>3 DEF Route, At, InFlight
      <4> QED BY <2>3, <3>1, <4>1, <4>2, Fails DEF Route
    <3>2. CASE ~Taken(s) BY <2>3, <3>2, Routes
    <3> QED BY <3>1, <3>2
  <2>4. CASE RegisterOrSeed(s)
    <3>1. UNCHANGED <<setup, conn, active, by_client_id, registry>> BY <2>4 DEF RegisterOrSeed
    <3>2. task[s].pc = "routed" BY <2>4 DEF RegisterOrSeed, At
    <3>3. Moved(s, "seeded") BY <2>0, <2>4, GotoMoves DEF RegisterOrSeed
    <3>4. InFlight(s) /\ InFlight(s)' BY <3>2, <3>3 DEF InFlight, Moved, Became
    <3> QED BY <2>0, <3>1, <3>2, <3>3, <3>4, Stays
  <2>5. CASE Record(s) BY <2>5, Records
  <2>6. CASE SendAccepted(s)
    <3>1. UNCHANGED <<setup, conn, active, by_client_id, registry>> BY <2>6 DEF SendAccepted
    <3>2. task[s].pc = "recorded" BY <2>6 DEF SendAccepted, At
    <3>3. PICK pc \in {"accepted", "dropped"} : Moved(s, pc)
      BY <2>0, <2>6, GotoMoves DEF SendAccepted
    <3>4. ~InFlight(s) /\ ~InFlight(s)' BY <3>2, <3>3 DEF InFlight, Moved, Became
    <3> QED BY <2>0, <3>1, <3>2, <3>3, <3>4, Stays
  <2>7. CASE EnsurePump(s)
    <3>1. UNCHANGED <<setup, conn, active, by_client_id, registry>> BY <2>7 DEF EnsurePump
    <3>2. task[s].pc = "accepted" BY <2>7 DEF EnsurePump, At
    <3>3. Moved(s, "served") BY <2>0, <2>7, GotoMoves DEF EnsurePump
    <3>4. ~InFlight(s) /\ ~InFlight(s)' BY <3>2, <3>3 DEF InFlight, Moved, Became
    <3> QED BY <2>0, <3>1, <3>2, <3>3, <3>4, Stays
  <2> QED BY <1>4, <2>1, <2>2, <2>3, <2>4, <2>5, <2>6, <2>7 DEF Handle
<1>5. ASSUME NEW s \in Subs, LegacyPump(s) \/ LegacyOpenFails(s) \/ Forward(s) PROVE LimiterInv'
  BY <1>5, Quiet DEF LegacyPump, LegacyOpenFails, Forward
<1>6. CASE Pump BY <1>6, Quiet DEF Pump, OpenCursor, ApplyAndFanout, Fanout, PumpExit, PumpEnd
<1>7. ASSUME NEW c \in Connections, NEW l \in Labels, Unsubscribe(c, l) PROVE LimiterInv'
  BY <1>7, Unsubscribes
<1>8. ASSUME NEW c \in Connections, CloseConnection(c) \/ RouterDisconnect(c) PROVE LimiterInv'
  BY <1>8, Ends
<1>9. CASE UNCHANGED vars BY <1>9, Quiet DEF vars
<1> QED BY <1>1, <1>2, <1>3, <1>4, <1>5, <1>6, <1>7, <1>8, <1>9 DEF Next

\* The connection limiter never leaks an admission and never gives one back
\* twice, and a label of an open connection names at most one subscription,
\* whatever the handlers' interleaving, failures, unsubscribes and disconnects.
THEOREM LimiterCorrect == Spec => [](LimiterExact /\ OneSubscription)
<1>1. LimiterInv => LimiterExact /\ OneSubscription BY DEF LimiterInv
<1> QED BY <1>1, LimiterInit, LimiterNext, PTL DEF Spec
=============================================================================
