------------------------------- MODULE LiveQuery -------------------------------
(***************************************************************************)
(* One canonical query served live: the Subscribe handlers of grpc.rs, the *)
(* router's registry and bounded channels, the PersistentHost plan the     *)
(* subscribers share, the canonical pump (or, for queries the compiler     *)
(* does not lower, one legacy pump per subscription) and the forwarders.   *)
(*                                                                         *)
(* Every commit of the WAL changes the query's result.  A view is the      *)
(* count of each commit it includes: the exact view at LSN l has commits   *)
(* 1..l once.  The cursor and the snapshot are the WalRuntime's promises:  *)
(* every commit after from_lsn in order, and rows exactly at an LSN.       *)
(***************************************************************************)
EXTENDS Integers, Sequences, FiniteSets

CONSTANTS
  Connections, Labels,  \* gRPC streams, client_subscription_ids
  MaxCommits,       \* bound: commits
  MaxSubs,          \* bound: Subscribe requests
  Setups            \* the deployments and loads to look at, see setup

ASSUME LiveQueryAssumption ==
  /\ {MaxCommits, MaxSubs} \subseteq Nat
  /\ Connections # {} /\ Labels # {} /\ IsFiniteSet(Labels)
  /\ Setups \subseteq [callers : [1 .. MaxSubs -> SUBSET (Connections \X Labels)],
                       host_routed : BOOLEAN, slots : Nat \ {0}, max_active : Nat \ {0},
                       capacity : Nat \ {0}, empty_until : Nat, commits : 0 .. MaxCommits,
                       leaves : Nat, errors : Nat]

Subs == 1 .. MaxSubs
Commits == 1 .. MaxCommits
View == [Commits -> Nat]
Exact(l) == [c \in Commits |-> IF c <= l THEN 1 ELSE 0]
NoSub == 0
NoPlan == [view |-> Exact(0), last_lsn |-> 0, subscribers |-> {}]

VARIABLES
  setup,        \* one of Setups, for good
  lsn,          \* external: the WAL
  conn,         \* connection_loop: open, closing, closed
  active,       \* ConnectionLimiter::active
  task,         \* handle_subscribe per request: pc, connection, label, snapshot
  by_client_id, \* ConnectionState: label to subscription
  host_canonicals, \* ConnectionState: subscriptions recorded as attached
  registry,     \* router: subscriptions with a record and a channel
  state,        \* router: SubscriptionState of each record
  channel,      \* router: bounded channel of each subscription
  forwarder,    \* forwarder task: none, running, ended
  plan,         \* host: PlanState
  registered,   \* host: a plan is registered under the canonical key
  pump,         \* canonical pump: st, pos, and its fan-out in progress
  legacy,       \* legacy pumps: position of each, or -1
  client,       \* external: what each subscriber has received
  leaves, errors

walVars == <<setup, lsn>>
serverVars == <<registry, state, channel>>
hostVars == <<plan, registered>>
connVars == <<conn, by_client_id, host_canonicals>>
countVars == <<leaves, errors>>
vars == <<walVars, connVars, active, task, serverVars, forwarder, hostVars, pump, legacy, client,
          countVars>>

HostRouted == setup.host_routed   \* the query is lowered: plan, host, canonical pump
BlockingSlots == setup.slots      \* SUBSCRIBE_BLOCKING_CONCURRENCY
MaxActive == setup.max_active     \* max_subscriptions_per_connection
Capacity == setup.capacity        \* channel_capacity
EmptyUntil == setup.empty_until   \* the query's tables hold no row before this LSN
MaxLeaves == setup.leaves         \* bound: unsubscribes and closed connections
MaxErrors == setup.errors         \* bound: refused requests, failed snapshots and cursors

At(s, pc) == task[s].pc = pc
Open(c) == conn[c] = "open"
Goto(s, pc) == task' = [task EXCEPT ![s].pc = pc]
HoldsSlot(s) ==
  task[s].pc \in {"cold", "ready", "routed", "seeded", "recorded", "accepted"}

-----------------------------------------------------------------------------
(* connection_loop: admission, in arrival order.                           *)

Admit(s, c, l) ==
  /\ At(s, "idle") /\ \A r \in Subs : r < s => ~At(r, "idle")
  /\ Open(c)
  /\ active[c] < MaxActive
  /\ active' = [active EXCEPT ![c] = @ + 1]
  /\ task' = [task EXCEPT ![s] = [pc |-> "admitted", conn |-> c, label |-> l,
                                  at |-> 0, rows |-> Exact(0), warm |-> FALSE]]
  /\ UNCHANGED <<walVars, connVars, serverVars, forwarder, hostVars, pump, legacy, client, countVars>>

\* Mutant: the admission of a failed request is kept.
KeepAdmission(s) == UNCHANGED active
\* Dropping an AdmitGuard that was not committed.
DropAdmission(s) == active' = [active EXCEPT ![task[s].conn] = @ - 1]

\* A request that fails before or in the snapshot: SQL refused, schema or
\* snapshot error, rules that cannot be enforced.
Refuse(s) ==
  /\ At(s, "admitted") \/ At(s, "cold")
  /\ errors < MaxErrors
  /\ errors' = errors + 1
  /\ Goto(s, "failed")
  /\ DropAdmission(s)
  /\ UNCHANGED <<walVars, connVars, serverVars, forwarder, hostVars, pump, legacy, client, leaves>>

-----------------------------------------------------------------------------
(* blocking_subscribe.                                                     *)

\* cached_view, under a blocking slot: a hit attaches and copies in one lock.
CachedView(s) ==
  /\ At(s, "admitted")
  /\ Cardinality({r \in Subs : HoldsSlot(r)}) < BlockingSlots
  /\ IF registered
     THEN /\ plan' = [plan EXCEPT !.subscribers = @ \cup {s}]
          /\ task' = [task EXCEPT ![s].pc = "ready", ![s].at = plan.last_lsn,
                                  ![s].rows = plan.view, ![s].warm = TRUE]
     ELSE UNCHANGED plan /\ Goto(s, "cold")
  /\ UNCHANGED <<walVars, connVars, active, serverVars, forwarder, registered, pump, legacy, client,
                 countVars>>

\* router.subscribe, cold: the snapshot.
FetchSnapshot(s) ==
  /\ At(s, "cold")
  /\ task' = [task EXCEPT ![s].pc = "ready", ![s].at = lsn, ![s].rows = Exact(lsn)]
  /\ UNCHANGED <<walVars, connVars, active, serverVars, forwarder, hostVars, pump, legacy, client,
                 countVars>>

Taken(s) ==
  \E r \in registry : task[r].conn = task[s].conn /\ task[r].label = task[s].label

\* router.subscribe: the channel with its Initial, the record.  On a duplicate
\* label the cached_view attachment stays: only ChannelSaturated releases it.
Route(s) ==
  /\ At(s, "ready")
  /\ IF Taken(s)
     THEN /\ Goto(s, "failed")
          /\ DropAdmission(s)
          /\ UNCHANGED serverVars
     ELSE /\ registry' = registry \cup {s}
          /\ state' = [state EXCEPT ![s] = "seeding"]
          /\ channel' = [channel EXCEPT ![s] =
               <<[type |-> "initial", lsn |-> task[s].at, rows |-> task[s].rows]>>]
          /\ Goto(s, "routed")
          /\ UNCHANGED active
  /\ UNCHANGED <<walVars, connVars, forwarder, hostVars, pump, legacy, client, countVars>>

\* register_or_seed, on the cold path of a lowered query and only if the
\* snapshot has rows.
RegisterOrSeed(s) ==
  /\ At(s, "routed")
  /\ Goto(s, "seeded")
  /\ IF HostRouted /\ ~task[s].warm /\ task[s].at >= EmptyUntil
     THEN /\ registered' = TRUE
          /\ plan' = IF registered THEN [plan EXCEPT !.subscribers = @ \cup {s}]
                     ELSE [view |-> task[s].rows, last_lsn |-> task[s].at, subscribers |-> {s}]
     ELSE UNCHANGED hostVars
  /\ UNCHANGED <<walVars, connVars, active, serverVars, forwarder, pump, legacy, client, countVars>>

-----------------------------------------------------------------------------
(* The rest of handle_subscribe.                                           *)

\* Commit the admission and record the subscription on its connection, which
\* may be gone.
Record(s) ==
  /\ At(s, "seeded")
  /\ Goto(s, "recorded")
  /\ by_client_id' = [by_client_id EXCEPT ![task[s].conn][task[s].label] = s]
  /\ host_canonicals' = IF HostRouted THEN host_canonicals \cup {s} ELSE host_canonicals
  /\ UNCHANGED <<walVars, conn, active, serverVars, forwarder, hostVars, pump, legacy, client, countVars>>

\* Send Accepted; a closed outbound channel ends the handler here.
SendAccepted(s) ==
  /\ At(s, "recorded")
  /\ Goto(s, IF Open(task[s].conn) THEN "accepted" ELSE "dropped")
  /\ UNCHANGED <<walVars, connVars, active, serverVars, forwarder, hostVars, pump, legacy, client,
                 countVars>>

Spawn(from) == [st |-> "starting", pos |-> from, fanout |-> {}]

\* Mutant: a running pump is replaced.
NeedsSpawnAlways == TRUE
NeedsSpawn == pump.st \in {"none", "finished"}

\* ensure_canonical_pump or spawn_legacy_pump, then the forwarder.
EnsurePump(s) ==
  /\ At(s, "accepted")
  /\ Goto(s, "served")
  /\ IF HostRouted
     THEN /\ pump' = IF NeedsSpawn THEN Spawn(task[s].at) ELSE pump
          /\ UNCHANGED legacy
     ELSE legacy' = [legacy EXCEPT ![s] = task[s].at] /\ UNCHANGED pump
  /\ forwarder' = [forwarder EXCEPT ![s] = "running"]
  /\ UNCHANGED <<walVars, connVars, active, serverVars, hostVars, client, countVars>>

-----------------------------------------------------------------------------
(* router.pump_event: try_send, and on a full channel force_resync, which  *)
(* tries once more.                                                        *)

Event(l) == [type |-> "update", lsn |-> l]
Resync == [type |-> "resync", lsn |-> 0]

\* What the client makes of an event: Initial replaces, updates at or before
\* last_seen_lsn are dropped.
Received(v, e) ==
  CASE e.type = "initial" ->
         [v EXCEPT !.seen = e.lsn, !.rows = e.rows, !.live = TRUE]
    [] e.type = "update" ->
         IF e.lsn <= v.seen THEN v
         ELSE [v EXCEPT !.seen = e.lsn, !.rows = [@ EXCEPT ![e.lsn] = @ + 1]]
    [] e.type = "resync" -> [v EXCEPT !.resync = TRUE]

\* The receiver went with its forwarder, or with a handler that ended early.
Listening(s) == s \in registry /\ forwarder[s] # "ended" /\ ~At(s, "dropped")

\* A channel that takes no more.
Full(s) == Len(channel[s]) = Capacity

PumpEvent(s, l) ==
  \/ /\ ~Listening(s)
     /\ UNCHANGED <<state, channel, client>>
  \/ /\ Listening(s)
     /\ ~Full(s)
     /\ channel' = [channel EXCEPT ![s] = Append(@, Event(l))]
     /\ state' = [state EXCEPT ![s] = "streaming"]
     /\ UNCHANGED client
  \/ /\ Listening(s)
     /\ Full(s)
     /\ state' = [state EXCEPT ![s] = "draining"]
     /\ \/ UNCHANGED <<channel, client>>
        \/ \* the forwarder takes an event between the two attempts
           /\ forwarder[s] = "running" /\ Open(task[s].conn)
           /\ client' = [client EXCEPT ![s] = Received(@, Head(channel[s]))]
           /\ channel' = [channel EXCEPT ![s] = Append(Tail(@), Resync)]

-----------------------------------------------------------------------------
(* The pumps.                                                              *)

\* open_cursor, which refuses what the journal no longer holds.
OpenCursor ==
  /\ pump.st = "starting"
  /\ \/ pump' = [pump EXCEPT !.st = "running"] /\ UNCHANGED errors
     \/ /\ errors < MaxErrors
        /\ errors' = errors + 1
        /\ pump' = [pump EXCEPT !.st = "finished"]
  /\ UNCHANGED <<walVars, connVars, active, task, serverVars, forwarder, hostVars, legacy, client, leaves>>

\* apply_and_fanout on the next transaction.
ApplyAndFanout ==
  /\ pump.st = "running" /\ pump.fanout = {}
  /\ registered
  /\ pump.pos < lsn
  /\ LET l == pump.pos + 1
     IN /\ plan' = [plan EXCEPT !.view[l] = @ + 1, !.last_lsn = l]
        /\ pump' = [pump EXCEPT !.pos = l, !.fanout = plan.subscribers]
  /\ UNCHANGED <<walVars, connVars, active, task, serverVars, forwarder, registered, legacy, client,
                 countVars>>

Fanout(s) ==
  /\ s \in pump.fanout
  /\ pump' = [pump EXCEPT !.fanout = @ \ {s}]
  /\ PumpEvent(s, pump.pos)
  /\ UNCHANGED <<walVars, connVars, active, task, registry, forwarder, hostVars, legacy, countVars>>

\* A tick or an apply that finds no plan; the task's end is a step of its own,
\* and only then is its handle finished.
PumpExit ==
  /\ pump.st = "running" /\ pump.fanout = {} /\ ~registered
  /\ pump' = [pump EXCEPT !.st = "exiting"]
  /\ UNCHANGED <<walVars, connVars, active, task, serverVars, forwarder, hostVars, legacy, client,
                 countVars>>

PumpEnd ==
  /\ pump.st = "exiting"
  /\ pump' = [pump EXCEPT !.st = "finished"]
  /\ UNCHANGED <<walVars, connVars, active, task, serverVars, forwarder, hostVars, legacy, client,
                 countVars>>

LegacyNext(s) == legacy[s] + 1


\* pump_cursor of a legacy pump: one transaction, or the end of the pump.
LegacyPump(s) ==
  /\ legacy[s] >= 0
  /\ IF ~Listening(s)
     THEN /\ legacy' = [legacy EXCEPT ![s] = -1]
          /\ UNCHANGED <<state, channel, client>>
     ELSE /\ LegacyNext(s) <= lsn
          /\ legacy' = [legacy EXCEPT ![s] = LegacyNext(s)]
          /\ PumpEvent(s, LegacyNext(s))
  /\ UNCHANGED <<walVars, connVars, active, task, registry, forwarder, hostVars, pump, countVars>>

\* open_cursor refuses a legacy pump that has read nothing yet.
LegacyOpenFails(s) ==
  /\ legacy[s] >= 0 /\ legacy[s] = task[s].at
  /\ errors < MaxErrors
  /\ errors' = errors + 1
  /\ legacy' = [legacy EXCEPT ![s] = -1]
  /\ UNCHANGED <<walVars, connVars, active, task, serverVars, forwarder, hostVars, pump, client, leaves>>

\* Pass on the next event; end with the connection, or with the channel.
Forward(s) ==
  /\ forwarder[s] = "running"
  /\ \/ /\ Open(task[s].conn) /\ channel[s] # <<>>
        /\ client' = [client EXCEPT ![s] = Received(@, Head(channel[s]))]
        /\ channel' = [channel EXCEPT ![s] = Tail(@)]
        /\ UNCHANGED forwarder
     \/ /\ ~Open(task[s].conn) \/ (s \notin registry /\ channel[s] = <<>>)
        /\ forwarder' = [forwarder EXCEPT ![s] = "ended"]
        /\ UNCHANGED <<client, channel>>
  /\ UNCHANGED <<walVars, connVars, active, task, registry, state, hostVars, pump, legacy, countVars>>

-----------------------------------------------------------------------------
(* Leaving.                                                                *)

\* Mutant: only the last subscriber is taken off.
ReleaseHostLast(subs) ==
  IF registered /\ subs # {} /\ plan.subscribers \subseteq subs
  THEN registered' = FALSE /\ plan' = NoPlan
  ELSE UNCHANGED <<registered, plan>>

\* host.release: the last subscriber takes the plan along.
ReleaseHost(subs) ==
  LET left == plan.subscribers \ subs
  IN IF registered /\ subs # {} /\ left = {}
     THEN registered' = FALSE /\ plan' = NoPlan
     ELSE registered' = registered /\ plan' = [plan EXCEPT !.subscribers = left]

\* handle_unsubscribe
Unsubscribe(c, l) ==
  /\ leaves < MaxLeaves
  /\ leaves' = leaves + 1
  /\ Open(c)
  /\ by_client_id[c][l] # NoSub
  /\ LET s == by_client_id[c][l]
     IN /\ by_client_id' = [by_client_id EXCEPT ![c][l] = NoSub]
        /\ host_canonicals' = host_canonicals \ {s}
        /\ registry' = registry \ {s}
        /\ ReleaseHost(host_canonicals \cap {s})
  /\ active' = [active EXCEPT ![c] = @ - 1]
  /\ UNCHANGED <<walVars, conn, task, state, channel, forwarder, pump, legacy, client, errors>>

\* The end of connection_loop: abort the forwarders and legacy pumps, release
\* the recorded attachments.
CloseConnection(c) ==
  /\ leaves < MaxLeaves
  /\ leaves' = leaves + 1
  /\ Open(c)
  /\ conn' = [conn EXCEPT ![c] = "closing"]
  /\ LET own == {s \in host_canonicals : task[s].conn = c}
     IN /\ host_canonicals' = host_canonicals \ own
        /\ ReleaseHost(own)
  /\ forwarder' = [s \in Subs |->
       IF forwarder[s] = "running" /\ task[s].conn = c THEN "ended" ELSE forwarder[s]]
  /\ legacy' = [s \in Subs |-> IF task[s].conn = c THEN -1 ELSE legacy[s]]
  /\ UNCHANGED <<walVars, by_client_id, active, task, serverVars, pump, client, errors>>

\* router.disconnect follows, once.
RouterDisconnect(c) ==
  /\ conn[c] = "closing"
  /\ conn' = [conn EXCEPT ![c] = "closed"]
  /\ registry' = {s \in registry : task[s].conn # c}
  /\ UNCHANGED <<walVars, by_client_id, host_canonicals, active, task, state, channel, forwarder,
                 hostVars, pump, legacy, client, countVars>>

-----------------------------------------------------------------------------
\* External: another commit.
Commit ==
  /\ lsn < setup.commits
  /\ lsn' = lsn + 1
  /\ UNCHANGED <<setup, connVars, active, task, serverVars, forwarder, hostVars, pump, legacy, client,
                 countVars>>

NoTask == [pc |-> "idle", conn |-> CHOOSE c \in Connections : TRUE,
           label |-> CHOOSE l \in Labels : TRUE, at |-> 0, rows |-> Exact(0), warm |-> FALSE]

Init ==
  /\ setup \in Setups
  /\ lsn = 0
  /\ conn = [c \in Connections |-> "open"] /\ active = [c \in Connections |-> 0]
  /\ task = [s \in Subs |-> NoTask]
  /\ by_client_id = [c \in Connections |-> [l \in Labels |-> NoSub]] /\ host_canonicals = {}
  /\ registry = {} /\ state = [s \in Subs |-> "seeding"] /\ channel = [s \in Subs |-> <<>>]
  /\ forwarder = [s \in Subs |-> "none"]
  /\ plan = NoPlan /\ registered = FALSE
  /\ pump = [st |-> "none", pos |-> 0, fanout |-> {}] /\ legacy = [s \in Subs |-> -1]
  /\ client = [s \in Subs |-> [seen |-> 0, rows |-> Exact(0), live |-> FALSE, resync |-> FALSE]]
  /\ leaves = 0 /\ errors = 0

Handle(s) ==
  \/ CachedView(s) \/ FetchSnapshot(s) \/ Route(s) \/ RegisterOrSeed(s)
  \/ Record(s) \/ SendAccepted(s) \/ EnsurePump(s)
Pump == OpenCursor \/ ApplyAndFanout \/ (\E s \in Subs : Fanout(s)) \/ PumpExit \/ PumpEnd

Next ==
  \/ Commit
  \/ \E s \in Subs : \E caller \in setup.callers[s] : Admit(s, caller[1], caller[2])
  \/ \E s \in Subs : Refuse(s) \/ Handle(s) \/ LegacyPump(s) \/ LegacyOpenFails(s)
                      \/ Forward(s)
  \/ Pump
  \/ \E c \in Connections, l \in Labels : Unsubscribe(c, l)
  \/ \E c \in Connections : CloseConnection(c) \/ RouterDisconnect(c)

Spec == Init /\ [][Next]_vars

\* Handlers, pumps and forwarders are tasks of the runtime: each runs on.
FairSpec ==
  /\ Spec
  /\ WF_vars(Pump)
  /\ \A s \in Subs : WF_vars(Handle(s)) /\ WF_vars(LegacyPump(s)) /\ WF_vars(Forward(s))

-----------------------------------------------------------------------------
(* Properties.                                                             *)

\* Every variable keeps its type, and no channel holds more than its capacity.
TypeOK ==
  /\ lsn \in 0 .. MaxCommits
  /\ conn \in [Connections -> {"open", "closing", "closed"}]
  /\ active \in [Connections -> 0 .. MaxActive]
  /\ by_client_id \in [Connections -> [Labels -> Subs \cup {NoSub}]]
  /\ host_canonicals \subseteq Subs /\ registry \subseteq Subs
  /\ \A s \in Subs : Len(channel[s]) <= Capacity
  /\ state \in [Subs -> {"seeding", "streaming", "draining"}]
  /\ forwarder \in [Subs -> {"none", "running", "ended"}]
  /\ plan \in [view : [Commits -> 0 .. 2], last_lsn : 0 .. MaxCommits, subscribers : SUBSET Subs]
  /\ registered \in BOOLEAN
  /\ pump.st \in {"none", "starting", "running", "exiting", "finished"}
  /\ legacy \in [Subs -> -1 .. MaxCommits]

InFlight(s) == task[s].pc \in {"admitted", "cold", "ready", "routed", "seeded"}
InFlightOn(c) == {s \in Subs : task[s].conn = c /\ InFlight(s)}
RecordedOn(c) == {l \in Labels : by_client_id[c][l] # NoSub}
Routed == {"routed", "seeded", "recorded", "accepted", "dropped", "served"}

\* The limiter's count is what the connection really holds, in every
\* interleaving of handlers, failures and unsubscribes: no request leaks
\* capacity and none gives it back twice (AdmitGuard).
LimiterExact ==
  \A c \in Connections : Open(c) =>
    active[c] = Cardinality(InFlightOn(c)) + Cardinality(RecordedOn(c))

\* A label of an open connection names at most one subscription: the router's
\* registry, the handlers under way and the connection's own table agree on
\* which, although each is updated on its own.
OneSubscription ==
  /\ \A s \in registry : task[s].pc \in Routed
  /\ \A s \in Subs : task[s].pc \in {"routed", "seeded"} /\ Open(task[s].conn) => s \in registry
  /\ \A r, s \in registry :
       task[r].conn = task[s].conn /\ task[r].label = task[s].label => r = s
  /\ \A c \in Connections, l \in Labels :
       LET s == by_client_id[c][l]
       IN Open(c) /\ s # NoSub => /\ s \in registry /\ ~InFlight(s)
                                 /\ task[s].conn = c /\ task[s].label = l

\* The updates queued for a subscription are in commit order, and no more than
\* its channel holds, however plans and pumps came and went.
Ascending ==
  \A s \in Subs : Len(channel[s]) <= Capacity /\ \A i, j \in 1 .. Len(channel[s]) :
    i < j /\ channel[s][i].type = "update" /\ channel[s][j].type = "update"
      => channel[s][i].lsn < channel[s][j].lsn


\* "Either way the new subscriber sees a consistent (Initial @ L, then live
\* diffs > L) timeline": what a client holds is the result at the LSN it has
\* seen, unless it was told to resync.
ClientExact ==
  \A s \in Subs : client[s].live /\ ~client[s].resync => client[s].rows = Exact(client[s].seen)


\* What a subscription holds of the shared plan and the registry has an owner
\* that gives it back: an attachment belongs to a handler under way or to a
\* record on its connection, and the teardown of a connection takes everything
\* of the subscriptions it has accepted.  Left out are an attachment whose
\* request then failed on a duplicate label, and a handler that outlives its
\* connection.
NothingLeft ==
  /\ \A s \in plan.subscribers :
       InFlight(s) \/ s \in host_canonicals \/ (At(s, "failed") /\ task[s].warm)
  /\ \A s \in Subs : conn[task[s].conn] = "closed" /\ At(s, "served")
                     => s \notin registry \cup plan.subscribers

Left(s) == s \notin registry \/ ~Open(task[s].conn)

=============================================================================
