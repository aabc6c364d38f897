------------------------- MODULE SubscriptionSession -------------------------
(***************************************************************************)
(* One client and its subscriptions across reconnects: the connection task *)
(* (connection.rs) with its backoff (reconnect.rs) and primary-key cache   *)
(* (cache.rs), against the server's side of the same stream: the Subscribe,*)
(* Unsubscribe and Ack handlers (grpc.rs), the resume decision (resume.rs),*)
(* the bounded channel (backpressure.rs), the acks (ack.rs) and the        *)
(* permission rules that may be replaced under all of them (router.rs).    *)
(*                                                                         *)
(* A commit writes or deletes one row; the row's value is the commit's     *)
(* LSN.  The WAL and the shared plan behind a subscription are as in       *)
(* LiveQuery, less its races: a view at some LSN not behind what anyone    *)
(* was sent, then every later change of the view in order; the table is    *)
(* never empty.  The application subscribes, acks what it was given, and   *)
(* on a Resync subscribes anew under another label.                        *)
(***************************************************************************)
EXTENDS Integers, Sequences, FiniteSets, SequencesExt

CONSTANTS
  Keys,        \* primary keys
  Secret,      \* rows the second set of permission rules hides
  Capacity,    \* channel_capacity of a subscription
  Initial, Factor, Longest,  \* BackoffConfig
  MaxCommits,  \* bound: commits
  MaxLabels,   \* bound: client_subscription_ids
  MaxSids,     \* bound: Subscribe requests that reach the server
  Window,      \* bound: messages on the stream in one direction
  MaxFaults,   \* bound: streams lost, connects that fail, replacements of the
               \* rules and unsubscribes the application does by itself
  Shared       \* does another client keep the plan of the query in use?

ASSUME SessionAssumption ==
  /\ Secret \subseteq Keys /\ IsFiniteSet(Keys)
  /\ {Capacity, Initial, Factor} \subseteq Nat \ {0} /\ Longest \in Nat /\ Longest >= Initial
  /\ {MaxCommits, MaxLabels, MaxSids, Window, MaxFaults} \subseteq Nat
  /\ Shared \subseteq BOOLEAN

Labels == 1 .. MaxLabels
Sids == 1 .. MaxSids

VARIABLES
  log,      \* the table after each commit: key -> LSN of its row, 0: no row
  rules,    \* router: the permission rules, by the number of replacements
  server,   \* router and grpc: each subscription, see NoServer
  plan,     \* host: the plan of the query [rules, shared, last_lsn]
  stream,   \* the connection: its number, 0 while there is none
  streams,  \* connections opened so far
  up, down, \* messages on the stream, to and from the server
  state,    \* ConnectionState [st, attempt, delay]
  backoff,  \* Backoff.current
  failures, \* attempt of run
  sub,      \* client: SubState of each label, see NoSub
  view,     \* application: what it makes of the events of each label
  faults

serverVars == <<log, rules, server, plan>>
streamVars == <<stream, streams, up, down>>
taskVars == <<state, backoff, failures>>
appVars == <<sub, view>>
vars == <<serverVars, streamVars, taskVars, appVars, faults>>

NoServer == [st |-> "none", label |-> 0, stream |-> 0, resume |-> 0, compiled |-> 0,
             shown |-> 0, attached |-> FALSE, snapshot |-> 0, cursor |-> 0, watermark |-> 0,
             pos |-> 0, channel |-> <<>>, lost |-> FALSE, late |-> FALSE]
NoSub == [st |-> "none", last_seen |-> 0, last_acked |-> 0,
          pk |-> FALSE, rows |-> {}, seeded |-> FALSE]
NoView == [rows |-> {}, lsn |-> 0, rules |-> 0, exact |-> FALSE, resync |-> FALSE]

lsn == Len(log)
Table(l) == IF l = 0 THEN [k \in Keys |-> 0] ELSE log[l]
\* The rows a plan compiled under rules r shows at LSN l.
Visible(r, l) == {<<k, Table(l)[k]>> : k \in {k \in Keys : Table(l)[k] # 0
                                                          /\ (r = 0 \/ k \notin Secret)}}

-----------------------------------------------------------------------------
(* The table and the rules.                                                *)

Commit(k, delete) ==
  /\ lsn < MaxCommits
  /\ delete => Table(lsn)[k] # 0
  /\ log' = Append(log, [Table(lsn) EXCEPT ![k] = IF delete THEN 0 ELSE lsn + 1])
  /\ UNCHANGED <<rules, server, plan, streamVars, taskVars, appVars, faults>>

Live == {s \in Sids : server[s].st \in {"registered", "live"}}

\* force_resync, on a channel that may be full.
Resynced(c) == IF Len(c) < Capacity THEN Append(c, [type |-> "resync"]) ELSE c

\* The subscriptions set_rules walks over: every open channel.
Notified == Live

\* set_rules: under the lock, the rules and a Resync on every open channel.
SetRules ==
  /\ faults < MaxFaults
  /\ faults' = faults + 1
  /\ rules' = rules + 1
  /\ server' = [s \in Sids |->
       IF s \in Notified
       THEN [server[s] EXCEPT !.channel = Resynced(@),
                              !.lost = @ \/ Len(server[s].channel) >= Capacity]
       ELSE server[s]]
  /\ UNCHANGED <<log, plan, streamVars, taskVars, appVars>>

-----------------------------------------------------------------------------
(* The server's handlers.                                                  *)

\* connection_loop takes a Subscribe: a task of its own, which compiles the
\* plan from the rules it reads here.
ServeSubscribe(s) ==
  /\ stream # 0 /\ up # <<>> /\ Head(up).type = "subscribe"
  /\ server[s].st = "none" /\ \A r \in 1 .. s - 1 : server[r].st # "none"
  /\ up' = Tail(up)
  /\ server' = [server EXCEPT ![s] = [NoServer EXCEPT !.st = "compiled", !.stream = stream,
                                        !.label = Head(up).label, !.resume = Head(up).lsn,
                                        !.compiled = rules]]
  /\ UNCHANGED <<log, rules, plan, stream, streams, down, taskVars, appVars, faults>>

\* resolve: a client that acked what the view shows is sent no Initial.
Replays(s, at) == server[s].resume # 0 /\ server[s].resume >= at

\* canonical_subgraph_key names the plan by query and user, not by its rules.
Registered == plan.shared \/ \E s \in Sids : server[s].attached

\* Mutant of Stamp: an Initial is stamped with the clock.
StampClock(at) == lsn
\* The LSN an Initial is stamped with: that of the view it ships.
Stamp(at) == at

\* The view shipped as Initial, at some LSN: of the registered plan, or of the
\* one compiled above, which is then registered.  router.subscribe installs the
\* channel, the record and the watermark.
Register(s, at) ==
  /\ server[s].st = "compiled"
  /\ at \in plan.last_lsn .. lsn
  /\ LET shown == IF Registered THEN plan.rules ELSE server[s].compiled
     IN /\ plan' = [plan EXCEPT !.rules = shown, !.last_lsn = at]
        /\ server' = [server EXCEPT
             ![s].st = "registered", ![s].attached = TRUE, ![s].shown = shown,
             ![s].late = shown # rules,
             ![s].snapshot = at, ![s].pos = at, ![s].cursor = at, ![s].watermark = at,
             ![s].channel = IF Replays(s, at) THEN <<>>
                            ELSE <<[type |-> "initial", lsn |-> Stamp(at), rows |-> Visible(shown, at)]>>]
  /\ UNCHANGED <<log, rules, streamVars, taskVars, appVars, faults>>

\* handle_subscribe sends Accepted, then starts the pump and the forwarder.  On
\* a stream that is gone the send fails: nothing is started, nothing released.
Accept(s) ==
  /\ server[s].st = "registered"
  /\ IF server[s].stream = stream
     THEN /\ Len(down) < Window
          /\ down' = Append(down, [type |-> "accepted", label |-> server[s].label, sid |-> s])
          /\ server' = [server EXCEPT ![s].st = "live"]
     ELSE server' = [server EXCEPT ![s].st = "gone"] /\ UNCHANGED down
  /\ UNCHANGED <<log, rules, plan, stream, streams, up, taskVars, appVars, faults>>

\* The change a commit makes to the view; none: the pump skips it.
Change(s, l) == [old |-> Visible(server[s].shown, l - 1) \ Visible(server[s].shown, l),
                 new |-> Visible(server[s].shown, l) \ Visible(server[s].shown, l - 1)]

\* pump_event: a full channel loses the update, and the Resync meant to say so.
Pump(s) ==
  /\ server[s].st = "live" /\ server[s].pos < lsn
  /\ LET l == server[s].pos + 1
         change == Change(s, l)
         full == Len(server[s].channel) >= Capacity
     IN /\ server' = [server EXCEPT
             ![s].pos = l,
             ![s].channel =
                IF change.old = {} /\ change.new = {} THEN @
                ELSE IF full THEN Resynced(@)
                ELSE Append(@, [type |-> "update", lsn |-> l, old |-> change.old, new |-> change.new]),
             ![s].lost = @ \/ (full /\ (change.old # {} \/ change.new # {}))]
        /\ plan' = [plan EXCEPT !.last_lsn = IF @ < l THEN l ELSE @]
  /\ UNCHANGED <<log, rules, streamVars, taskVars, appVars, faults>>

\* The forwarder moves an event from the channel to the stream.
Forward(s) ==
  /\ server[s].st = "live" /\ server[s].channel # <<>>
  /\ server[s].stream = stream /\ Len(down) < Window
  /\ down' = Append(down, Head(server[s].channel) @@ [label |-> server[s].label, sid |-> s])
  /\ server' = [server EXCEPT ![s].channel = Tail(@)]
  /\ UNCHANGED <<log, rules, plan, stream, streams, up, taskVars, appVars, faults>>

\* by_client_id: the subscription a label of this stream names.
Named(label) == {s \in Sids : server[s].st = "live" /\ server[s].stream = stream
                              /\ server[s].label = label}

\* router.unsubscribe or disconnect, and host.release.
Released(record) == [record EXCEPT !.st = "gone", !.attached = FALSE, !.channel = <<>>]

\* handle_unsubscribe: a label whose Subscribe is still running is unknown.
ServeUnsubscribe ==
  /\ stream # 0 /\ up # <<>> /\ Head(up).type = "unsubscribe"
  /\ up' = Tail(up)
  /\ server' = [s \in Sids |-> IF s \in Named(Head(up).label)
                               THEN Released(server[s])
                               ELSE server[s]]
  /\ UNCHANGED <<log, rules, plan, stream, streams, down, taskVars, appVars, faults>>

\* Mutant of Advances: a stale ack is recorded.
AdvancesAlways(s, l) == TRUE
\* AckTracker::ack: only an ack past the cursor.
Advances(s, l) == l > server[s].cursor

\* handle_ack and router.ack: cursor_lsn and the watermark move together, the
\* watermark never back (LsnWatermarks::update).
ServeAck ==
  /\ stream # 0 /\ up # <<>> /\ Head(up).type = "ack"
  /\ up' = Tail(up)
  /\ LET l == Head(up).lsn
     IN server' = [s \in Sids |->
          IF s \in Named(Head(up).label) /\ Advances(s, l)
          THEN [server[s] EXCEPT !.cursor = l, !.watermark = IF @ < l THEN l ELSE @]
          ELSE server[s]]
  /\ UNCHANGED <<log, rules, plan, stream, streams, down, taskVars, appVars, faults>>

-----------------------------------------------------------------------------
(* The connection task: run and run_once.                                  *)

\* RunOutcome::Reconnect: the next delay, and how many failures it follows.
Reconnect ==
  LET n == IF state.st = "connected" THEN 1 ELSE failures + 1
      next == backoff * Factor
  IN /\ failures' = n
     /\ state' = [st |-> "reconnecting", attempt |-> n, delay |-> backoff]
     /\ backoff' = IF next < Longest THEN next ELSE Longest

\* open_subscribe fails for a while.
OpenFails ==
  /\ state.st = "connecting"
  /\ faults < MaxFaults
  /\ faults' = faults + 1
  /\ Reconnect
  /\ UNCHANGED <<serverVars, streamVars, appVars>>

\* backoff.reset after a connect.
Reset == backoff' = Initial

Request(label, resume) == [type |-> "subscribe", label |-> label, lsn |-> resume]

Active == {l \in Labels : sub[l].st = "active"}

\* The resume token of a subscription: its last acked LSN, 0 for none.
Resume(l) == sub[l].last_acked

\* Mutant of Resubscribed: a subscription that was never acked is forgotten.
ResubscribedAcked == {l \in Active : sub[l].last_acked > 0}
\* The subscriptions run_once requests again on a new stream.
Resubscribed == Active

\* The stream opens: every subscription is requested again.
Connect ==
  /\ state.st = "connecting"
  /\ streams' = streams + 1 /\ stream' = streams + 1
  /\ Reset
  /\ state' = [state EXCEPT !.st = "connected"]
  /\ \E order \in SetToSeqs(Resubscribed) :
       up' = [i \in 1 .. Len(order) |-> Request(order[i], Resume(order[i]))]
  /\ down' = <<>>
  /\ UNCHANGED <<serverVars, failures, appVars, faults>>

\* The stream is lost, with what is on it; the server's loop ends and drops the
\* subscriptions of the connection.
Drop ==
  /\ state.st = "connected"
  /\ faults < MaxFaults
  /\ faults' = faults + 1
  /\ stream' = 0 /\ up' = <<>> /\ down' = <<>>
  /\ server' = [s \in Sids |-> IF server[s].st = "live"
                               THEN Released(server[s])
                               ELSE server[s]]
  /\ Reconnect
  /\ UNCHANGED <<log, rules, plan, streams, appVars>>

\* The sleep is over.
Retry ==
  /\ state.st = "reconnecting"
  /\ state' = [state EXCEPT !.st = "connecting"]
  /\ UNCHANGED <<serverVars, streamVars, backoff, failures, appVars, faults>>

-----------------------------------------------------------------------------
(* The connection task: commands of the application.                       *)

\* A new label; after a Resync of an old one, which is then unsubscribed.
Subscribe(l) ==
  /\ state.st = "connected" /\ Len(up) < Window
  /\ sub[l].st = "none" /\ \A m \in 1 .. l - 1 : sub[m].st # "none"
  /\ \A m \in Active : view[m].resync
  /\ sub' = [m \in Labels |-> CASE m = l -> [NoSub EXCEPT !.st = "active"]
                                [] m \in Active -> [sub[m] EXCEPT !.st = "left"]
                                [] OTHER -> sub[m]]
  /\ up' = up \o [i \in 1 .. Cardinality(Active) |->
                    [type |-> "unsubscribe", label |-> SetToSeq(Active)[i], lsn |-> 0]]
              \o <<Request(l, 0)>>
  /\ UNCHANGED <<serverVars, stream, streams, down, taskVars, view, faults>>

\* The application leaves a subscription for a reason of its own.
Unsubscribe(l) ==
  /\ state.st = "connected"
  /\ faults < MaxFaults /\ Len(up) < Window
  /\ faults' = faults + 1
  /\ l \in Active
  /\ sub' = [sub EXCEPT ![l].st = "left"]
  /\ up' = Append(up, [type |-> "unsubscribe", label |-> l, lsn |-> 0])
  /\ UNCHANGED <<serverVars, stream, streams, down, taskVars, view>>

\* The application acks the last LSN it was given.
Ack(l) ==
  /\ state.st = "connected" /\ Len(up) < Window
  /\ l \in Active /\ view[l].lsn > sub[l].last_acked
  /\ sub' = [sub EXCEPT ![l].last_acked = view[l].lsn]
  /\ up' = Append(up, [type |-> "ack", label |-> l, lsn |-> view[l].lsn])
  /\ UNCHANGED <<serverVars, stream, streams, down, taskVars, view, faults>>

-----------------------------------------------------------------------------
(* The connection task: messages of the server.                            *)

\* LocalCache: without primary-key columns every row has the same key.
Upsert(rows, new, pk) ==
  IF new = {} THEN rows
  ELSE IF pk THEN {r \in rows : \A n \in new : n[1] # r[1]} \cup new
  ELSE {CHOOSE n \in new : TRUE}
Discard(rows, old, pk) ==
  IF old = {} THEN rows ELSE {r \in rows : pk /\ \A o \in old : o[1] # r[1]}

\* An event the subscription was given already.
Replayed(l, m) == m.lsn <= sub[l].last_seen /\ sub[l].last_seen > 0

Take(type) == down # <<>> /\ Head(down).type = type /\ down' = Tail(down)

\* Mutant of Fresh: the rows of the previous stream stay in the cache.
FreshKept(state_of_label) == [state_of_label EXCEPT !.pk = TRUE, !.seeded = FALSE]
\* A cache for the schema of this stream.
Fresh(state_of_label) == [state_of_label EXCEPT !.pk = TRUE, !.rows = {}, !.seeded = FALSE]

\* handle_accepted: the cache is emptied, last_seen_lsn stays.
TakeAccepted ==
  /\ Take("accepted")
  /\ LET l == Head(down).label
     IN IF l \in Active
        THEN sub' = [sub EXCEPT ![l] = Fresh(@)]
        ELSE UNCHANGED sub
  /\ UNCHANGED <<serverVars, stream, streams, up, taskVars, view, faults>>

\* handle_diff with an Initial: rows are upserted, the application replaces.
TakeInitial ==
  /\ Take("initial")
  /\ LET m == Head(down)
         l == m.label
     IN IF l \in Active /\ ~Replayed(l, m)
        THEN /\ sub' = [sub EXCEPT ![l].rows = Upsert(@, m.rows, sub[l].pk),
                                   ![l].last_seen = m.lsn, ![l].seeded = TRUE]
             /\ view' = [view EXCEPT ![l].rows = m.rows, ![l].lsn = m.lsn, ![l].exact = TRUE,
                                     ![l].rules = server[m.sid].shown]
        ELSE UNCHANGED appVars
  /\ UNCHANGED <<serverVars, stream, streams, up, taskVars, faults>>

\* handle_transaction_update.
TakeUpdate ==
  /\ Take("update")
  /\ LET m == Head(down)
         l == m.label
     IN IF l \in Active /\ ~Replayed(l, m)
        THEN /\ sub' = [sub EXCEPT ![l].rows = Upsert(Discard(@, m.old, sub[l].pk), m.new, sub[l].pk),
                                   ![l].last_seen = m.lsn]
             /\ view' = [view EXCEPT ![l].rows = Upsert(Discard(@, m.old, TRUE), m.new, TRUE),
                                     ![l].lsn = m.lsn]
        ELSE UNCHANGED appVars
  /\ UNCHANGED <<serverVars, stream, streams, up, taskVars, faults>>

\* handle_resync: nothing is remembered of what was seen, nor of the schema.
TakeResync ==
  /\ Take("resync")
  /\ LET l == Head(down).label
     IN IF l \in Active
        THEN /\ sub' = [sub EXCEPT ![l].last_seen = 0, ![l].pk = FALSE, ![l].rows = {},
                                   ![l].seeded = FALSE]
             /\ view' = [view EXCEPT ![l].resync = TRUE, ![l].exact = FALSE]
        ELSE UNCHANGED appVars
  /\ UNCHANGED <<serverVars, stream, streams, up, taskVars, faults>>

-----------------------------------------------------------------------------
Init ==
  /\ log = <<>> /\ rules = 0
  /\ plan \in [rules : {0}, shared : Shared, last_lsn : {0}]
  /\ server = [s \in Sids |-> NoServer]
  /\ stream = 0 /\ streams = 0 /\ up = <<>> /\ down = <<>>
  /\ state = [st |-> "connecting", attempt |-> 0, delay |-> 0]
  /\ backoff = Initial /\ failures = 0
  /\ sub = [l \in Labels |-> NoSub]
  /\ view = [l \in Labels |-> NoView]
  /\ faults = 0

Handlers(s) ==
  ServeSubscribe(s) \/ (\E at \in 0 .. lsn : Register(s, at)) \/ Accept(s)

Dispatch == TakeAccepted \/ TakeInitial \/ TakeUpdate \/ TakeResync

Next ==
  \/ \E k \in Keys, delete \in BOOLEAN : Commit(k, delete)
  \/ SetRules
  \/ \E s \in Sids : Handlers(s) \/ Pump(s) \/ Forward(s)
  \/ ServeUnsubscribe
  \/ ServeAck
  \/ OpenFails
  \/ Connect
  \/ Drop
  \/ Retry
  \/ \E l \in Labels : Subscribe(l) \/ Unsubscribe(l) \/ Ack(l)
  \/ Dispatch

Spec == Init /\ [][Next]_vars

\* Tasks are polled, and a server that can be reached is reached in the end.
\* Nothing is assumed of the application: it need not ack or subscribe again.
Fairness ==
  /\ \A s \in Sids : WF_vars(Handlers(s)) /\ WF_vars(Pump(s)) /\ WF_vars(Forward(s))
  /\ WF_vars(ServeUnsubscribe) /\ WF_vars(ServeAck)
  /\ WF_vars(Connect) /\ WF_vars(Retry) /\ WF_vars(Dispatch)

FairSpec == Spec /\ Fairness

-----------------------------------------------------------------------------
(* Properties.                                                             *)

\* Every variable keeps its type: a channel never holds more than its capacity,
\* and no position is past the log (try_send, force_resync).
TypeOK ==
  /\ stream \in {0, streams} /\ (stream # 0) = (state.st = "connected")
  /\ plan.last_lsn \in 0 .. lsn
  /\ \A s \in Sids : /\ server[s].st \in {"none", "compiled", "registered", "live", "gone"}
                     /\ Len(server[s].channel) <= Capacity
                     /\ server[s].pos \in 0 .. lsn
  /\ \A l \in Labels : sub[l].last_seen \in 0 .. lsn /\ sub[l].last_acked \in 0 .. lsn

\* The subscriptions that served a label, and what they may have lost: an update
\* and its Resync on a full channel.
Serving(l) == {s \in Sids : server[s].label = l /\ server[s].st # "none"}
Lossy(l) == \E s \in Serving(l) : server[s].lost
\* Every subscription of the label shows the rules its view is under.
SameRules(l) == \A s \in Serving(l) : server[s].st = "compiled" \/ server[s].shown = view[l].rules

\* Across reconnects, replays and duplicates, an application that replays the
\* events of a subscription has exactly the view of some LSN, the last it was
\* given, unless an update was lost on a full channel or the rules changed
\* between two of its streams (handle_diff, handle_transaction_update, resolve).
ViewExact ==
  \A l \in Active : view[l].exact /\ ~Lossy(l) /\ SameRules(l)
                      => view[l].rows = Visible(view[l].rules, view[l].lsn)

\* A cache that took an Initial since its last Accepted holds what the events
\* replayed so far give, row by row under its primary key (LocalCache::apply).
CacheIsView ==
  \A l \in Active : sub[l].seeded /\ ~view[l].resync => sub[l].rows = view[l].rows


\* What the server takes as consumed by a subscription was given to its
\* application, however acks are delayed over reconnects, and the watermark that
\* compaction may use is that position (AckTracker::ack, LsnWatermarks::update).
AckedWasGiven ==
  \A s \in Live :
    /\ server[s].watermark = server[s].cursor
    /\ server[s].cursor <= view[server[s].label].lsn \/ server[s].cursor = server[s].snapshot

\* Nothing is on its way to the application of label l.
Quiet(l) ==
  /\ up = <<>> /\ down = <<>>
  /\ \E s \in Serving(l) : server[s].st = "live" /\ server[s].stream = stream
                           /\ server[s].pos = lsn /\ server[s].channel = <<>>
CurrentRows(l) ==
  \E s \in Serving(l) : server[s].st = "live" /\ view[l].rows = Visible(server[s].shown, lsn)

\* Every subscription the application keeps ends up current, over any number of
\* lost streams, failed connects and resumes, unless it was told to resync, an
\* update was lost on a full channel, or its rules changed between two streams
\* (run, run_once, resolve, spawn_legacy_pump).
EndsCurrent ==
  \A l \in Labels :
    <>[](l \notin Active \/ view[l].resync \/ Lossy(l) \/ ~SameRules(l)
         \/ (Quiet(l) /\ CurrentRows(l)))
=============================================================================
