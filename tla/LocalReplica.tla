----------------------------- MODULE LocalReplica -----------------------------
(***************************************************************************)
(* LocalReplica and its Reconciler (client/src/local): one mirrored table, *)
(* optimistic mutations staged over it, the remote writer tasks, and the   *)
(* pump that folds server snapshots and changes into the local database.   *)
(*                                                                         *)
(* Everything but the remote write runs under one async mutex (inner), so  *)
(* mutate up to its unlock, a writer's completion and one event of the     *)
(* pump are one step each.  The server, the writer's endpoint and the      *)
(* network are external: a table image, and a stream of the images its     *)
(* commits leave behind.                                                   *)
(***************************************************************************)
EXTENDS Integers, Sequences, FiniteSets

CONSTANTS
  Keys,          \* primary keys
  Columns,       \* non-key columns
  Values,        \* column values
  Absent,        \* no row
  Untracked,     \* a key the ledger keeps no base image for
  Kinds,         \* the mutations an application issues, a subset of ResolvedKind
  MaxTokens,     \* bound: mutations
  Disturbances,  \* what may come from outside: "commit" of another writer,
                 \* "resync", "error", "reconnect", "stop", "db" (a failed call)
  MaxFaults      \* bound: disturbances

Row == [Columns -> Values]
Image == Row \cup {Absent}

\* cols are the set_columns of an insert, the columns an update sets.
ResolvedKind == [op : {"insert", "update", "delete"}, cols : SUBSET Columns, row : Row]

ASSUME ReplicaAssumption ==
  /\ Absent \notin Row
  /\ Untracked \notin Image
  /\ Kinds \subseteq ResolvedKind
  /\ {MaxTokens, MaxFaults} \subseteq Nat

Tokens == 1 .. MaxTokens

VARIABLES
  server,        \* external: the authoritative table
  server_lsn,    \* external: its last commit
  stream,        \* external: events on their way to the pump
  writers,       \* remote write of each token: none, calling, ok, err, finished
  mutation,      \* the key and kind of each issued token
  base,          \* ledger: authoritative image of the keys with pending mutations
  pending,       \* ledger: unconfirmed mutations of each key, oldest first
  visible,       \* the local database
  next_token,
  pumping,       \* the pump task: running, stopped, or closed with its connection
  ready,         \* the mirror's spec is known
  replace_on_initial,
  state,         \* TableSyncState
  acked,         \* last LSN acknowledged to the server
  outcome,       \* events: the outcome announced for each token
  auth,          \* history: each key as the events received so far leave it
  suspect,       \* history: a server batch is missing locally, no snapshot since
  faults,        \* disturbances so far
  dbErrors       \* history: failed calls on the local database

ledgerVars == <<base, pending, visible, next_token>>
remoteVars == <<server, server_lsn, stream, writers, mutation>>
pumpVars == <<pumping, ready, replace_on_initial, state, acked, auth, suspect>>
countVars == <<faults, dbErrors>>
vars == <<ledgerVars, remoteVars, pumpVars, outcome, countVars>>

Disturb(kind) == kind \in Disturbances /\ faults < MaxFaults /\ faults' = faults + 1
\* A call on the local database succeeds, or it fails.
DbOk == UNCHANGED countVars
DbFails == Disturb("db") /\ dbErrors' = dbErrors + 1

-----------------------------------------------------------------------------
(* The ledger.                                                             *)

\* apply_kind
ApplyKind(row, kind) ==
  CASE kind.op = "insert" -> kind.row
    [] kind.op = "update" ->
         IF row = Absent THEN Absent
         ELSE [c \in Columns |-> IF c \in kind.cols THEN kind.row[c] ELSE row[c]]
    [] kind.op = "delete" -> Absent

\* TableLedger::replay
Overlay(row, kinds) ==
  IF kinds = <<>> THEN row
  ELSE LET after[n \in 0 .. Len(kinds)] ==
             IF n = 0 THEN row ELSE ApplyKind(after[n - 1], kinds[n])
       IN after[Len(kinds)]
KindsOf(ops) == [i \in 1 .. Len(ops) |-> ops[i].kind]
Replay(row, ops) == Overlay(row, KindsOf(ops))

\* confirms: the post-image agrees on every column the mutation wrote.
Confirms(kind, post) ==
  IF kind.op = "delete" THEN post = Absent
  ELSE post # Absent /\ \A c \in kind.cols : post[c] = kind.row[c]

\* The oldest mutations of a key that a post-image settles or overrules, up to
\* the first that survives (the while loop of fold_change).
Dropped(ops, post) ==
  {i \in 1 .. Len(ops) : \A j \in 1 .. i : Confirms(ops[j].kind, post) \/ ops[j].writer_done}
\* Mutant: what is settled is announced and not removed.
SurvivorsStay(ops, post) == ops
Survivors(ops, post) == SubSeq(ops, Cardinality(Dropped(ops, post)) + 1, Len(ops))

\* write_for forgets the base of a key with nothing pending.
Tracked(row, ops) == IF ops = <<>> THEN Untracked ELSE row

\* stage: a key without pending mutations captures its visible row as base.
Captured(k) == IF pending[k] = <<>> THEN visible[k] ELSE base[k]
Staged(ops, token, kind) ==
  Append(ops, [token |-> token, kind |-> kind, writer_done |-> FALSE])

-----------------------------------------------------------------------------
(* mutate and the writer task.                                             *)

Mutate(k, kind) ==
  /\ ready /\ pumping # "stopped"
  /\ next_token \in Tokens
  /\ LET row == Captured(k)
         ops == Staged(pending[k], next_token, kind)
     IN /\ base' = [base EXCEPT ![k] = row]
        /\ pending' = [pending EXCEPT ![k] = ops]
        /\ visible' = [visible EXCEPT ![k] = Replay(row, ops)]
  /\ mutation' = [mutation EXCEPT ![next_token] = [key |-> k, kind |-> kind]]
  /\ writers' = [writers EXCEPT ![next_token] = "calling"]
  /\ next_token' = next_token + 1
  /\ UNCHANGED <<server, server_lsn, stream, pumpVars, outcome, countVars>>

\* The local write fails: the mutation is un-staged and only its token is gone.
MutateFails ==
  /\ ready /\ pumping # "stopped"
  /\ next_token \in Tokens
  /\ DbFails
  /\ next_token' = next_token + 1
  /\ UNCHANGED <<base, pending, visible, remoteVars, pumpVars, outcome>>

\* External: one server transaction, the new images of the keys it touches.
Commit(changes, event) ==
  /\ server' = [k \in Keys |-> IF k \in DOMAIN changes THEN changes[k] ELSE server[k]]
  /\ server_lsn' = server_lsn + 1
  /\ stream' = Append(stream, event)
Change(changes) == [type |-> "change", lsn |-> server_lsn + 1, changes |-> changes]

\* External: the application's endpoint commits the mutation, or rejects it.
RemoteCommit(token) ==
  /\ writers[token] = "calling"
  /\ LET m == mutation[token]
         image == ApplyKind(server[m.key], m.kind)
     IN /\ m.kind.op = "insert" => server[m.key] = Absent
        /\ IF image = server[m.key] THEN UNCHANGED <<server, server_lsn, stream>>
           ELSE LET changes == [k \in {m.key} |-> image]
                IN Commit(changes, Change(changes))
  /\ writers' = [writers EXCEPT ![token] = "ok"]
  /\ UNCHANGED <<mutation, ledgerVars, pumpVars, outcome, countVars>>

RemoteReject(token) ==
  /\ writers[token] = "calling"
  /\ writers' = [writers EXCEPT ![token] = "err"]
  /\ UNCHANGED <<server, server_lsn, stream, mutation, ledgerVars, pumpVars, outcome, countVars>>

At(token, k) == {i \in 1 .. Len(pending[k]) : pending[k][i].token = token}

Acknowledged(ops, token) ==
  [i \in 1 .. Len(ops) |->
     IF ops[i].token = token THEN [ops[i] EXCEPT !.writer_done = TRUE] ELSE ops[i]]

\* writer_finished(token, true): the mutation waits for the WAL round trip.
WriterOk(token) ==
  /\ writers[token] = "ok"
  /\ writers' = [writers EXCEPT ![token] = "finished"]
  /\ LET k == mutation[token].key
     IN pending' = [pending EXCEPT ![k] = Acknowledged(@, token)]
  /\ UNCHANGED <<server, server_lsn, stream, mutation, base, visible, next_token, pumpVars,
                 outcome, countVars>>

\* Mutant: the oldest mutation goes, whichever failed.
WithoutFirst(ops, i) == Tail(ops)
Without(ops, i) == SubSeq(ops, 1, i - 1) \o SubSeq(ops, i + 1, Len(ops))

\* Mutant: a failing rollback write returns before the announcement.
WriterErrSilent(token) ==
  /\ writers[token] = "err"
  /\ writers' = [writers EXCEPT ![token] = "finished"]
  /\ LET k == mutation[token].key
     IN \/ /\ At(token, k) = {}
           /\ UNCHANGED <<base, pending, visible, outcome, countVars>>
        \/ \E i \in At(token, k) :
             LET ops == Without(pending[k], i)
             IN /\ pending' = [pending EXCEPT ![k] = ops]
                /\ base' = [base EXCEPT ![k] = Tracked(base[k], ops)]
                /\ \/ /\ visible' = [visible EXCEPT ![k] = Replay(base[k], ops)]
                      /\ outcome' = [outcome EXCEPT ![token] = "failed"]
                      /\ DbOk
                   \/ /\ DbFails
                      /\ UNCHANGED <<visible, outcome>>
  /\ UNCHANGED <<server, server_lsn, stream, mutation, next_token, pumpVars>>

\* writer_finished(token, false): roll back and rebuild the key.  A failing
\* rollback write is logged and nothing else.
WriterErr(token) ==
  /\ writers[token] = "err"
  /\ writers' = [writers EXCEPT ![token] = "finished"]
  /\ LET k == mutation[token].key
     IN \/ /\ At(token, k) = {}
           /\ UNCHANGED <<base, pending, visible, outcome, countVars>>
        \/ \E i \in At(token, k) :
             LET ops == Without(pending[k], i)
             IN /\ pending' = [pending EXCEPT ![k] = ops]
                /\ base' = [base EXCEPT ![k] = Tracked(base[k], ops)]
                /\ \/ /\ visible' = [visible EXCEPT ![k] = Replay(base[k], ops)]
                      /\ DbOk
                   \/ /\ DbFails
                      /\ UNCHANGED visible
                /\ outcome' = [outcome EXCEPT ![token] = "failed"]
  /\ UNCHANGED <<server, server_lsn, stream, mutation, next_token, pumpVars>>

-----------------------------------------------------------------------------
(* The server's side of the mirror subscription, external.                 *)

Transactions ==
  {c \in UNION {[S -> Image] : S \in SUBSET Keys \ {{}}} : \A k \in DOMAIN c : c[k] # server[k]}

ForeignCommit(changes) ==
  /\ Disturb("commit")
  /\ Commit(changes, Change(changes))
  /\ UNCHANGED <<writers, mutation, ledgerVars, pumpVars, outcome, dbErrors>>

\* The subscription's channel is full: a Resync takes the place of the change.
ForeignCommitResync(changes) ==
  /\ Disturb("resync")
  /\ Commit(changes, [type |-> "resync", lsn |-> 0])
  /\ UNCHANGED <<writers, mutation, ledgerVars, pumpVars, outcome, dbErrors>>

\* The server answers a request on this subscription with an error.
SendError ==
  /\ Disturb("error")
  /\ stream' = Append(stream, [type |-> "error", lsn |-> 0])
  /\ UNCHANGED <<server, server_lsn, writers, mutation, ledgerVars, pumpVars, outcome, dbErrors>>

Accepted == [type |-> "accepted", lsn |-> 0]
InitialOf(table, l) == [type |-> "initial", lsn |-> l, rows |-> table]

\* The highest LSN the connection task has seen in a sequence of events.
Seen(events) ==
  LET ls == {0} \cup {acked} \cup {events[i].lsn : i \in 1 .. Len(events)}
  IN CHOOSE l \in ls : \A m \in ls : m <= l

\* Mutant: a client one commit behind is taken to be up to date.
ResumableEarly(events) == Seen(events) + 1 >= server_lsn /\ Seen(events) > 0
\* resolve: the snapshot is at the current LSN, so a client may resume without
\* one only if it has seen that.
Resumable(events) == Seen(events) >= server_lsn /\ Seen(events) > 0

\* A reconnect loses the tail of the stream and subscribes again.
Reconnect ==
  /\ Disturb("reconnect")
  /\ \E n \in 0 .. Len(stream) :
       LET kept == SubSeq(stream, 1, n)
       IN stream' = kept \o (IF Resumable(kept) THEN <<Accepted>>
                             ELSE <<Accepted, InitialOf(server, server_lsn)>>)
  /\ UNCHANGED <<server, server_lsn, writers, mutation, ledgerVars, pumpVars, outcome, dbErrors>>

-----------------------------------------------------------------------------
(* The pump.                                                               *)

Event == Head(stream)
Receive(type) ==
  /\ pumping = "running"
  /\ stream # <<>>
  /\ Event.type = type
  /\ stream' = Tail(stream)
  /\ UNCHANGED <<server, server_lsn, writers, mutation, next_token, pumping>>

\* Accepted: ensure_table, then the spec is known.
ReceiveAccepted ==
  /\ Receive("accepted")
  /\ \/ /\ ready' = TRUE
        /\ replace_on_initial' = TRUE
        /\ state' = "snapshotting"
        /\ DbOk
     \/ /\ DbFails
        /\ state' = "errored"
        /\ UNCHANGED <<ready, replace_on_initial>>
  /\ UNCHANGED <<base, pending, visible, acked, auth, suspect, outcome>>

\* finish_batch, after the local database took the batch.
Applied ==
  /\ state' = "live"
  /\ acked' = Event.lsn
  /\ DbOk

\* finish_batch, after it refused: ask for a fresh snapshot.  The server does
\* not implement the request and answers with an error no subscription gets.
NotApplied ==
  /\ DbFails
  /\ state' = "errored"
  /\ replace_on_initial' = TRUE
  /\ suspect' = TRUE
  /\ UNCHANGED <<visible, acked>>

\* Mutant: a snapshot hides the pending mutations.
SnapshotOnly(rows) == rows
SnapshotRows(rows) == [k \in Keys |-> Replay(rows[k], pending[k])]

\* apply_initial and replace_rows: every base and every visible row anew.
Replace(rows) ==
  /\ base' = [k \in Keys |-> Tracked(rows[k], pending[k])]
  /\ auth' = rows
  /\ \/ /\ visible' = SnapshotRows(rows)
        /\ replace_on_initial' = FALSE
        /\ suspect' = FALSE
        /\ Applied
     \/ NotApplied
  /\ UNCHANGED <<pending, outcome>>

\* apply_changes: fold_change on every key of the batch, then the writes.
Fold(changes) ==
  LET keys == DOMAIN changes
      rest(k) == Survivors(pending[k], changes[k])
      dropped(t) ==
        {k \in keys : \E i \in Dropped(pending[k], changes[k]) : pending[k][i].token = t}
  IN /\ pending' = [k \in Keys |-> IF k \in keys THEN rest(k) ELSE pending[k]]
     /\ base' = [k \in Keys |-> IF k \in keys THEN Tracked(changes[k], rest(k)) ELSE base[k]]
     /\ outcome' = [t \in Tokens |->
          IF dropped(t) = {} THEN outcome[t]
          ELSE IF Confirms(mutation[t].kind, changes[mutation[t].key]) THEN "settled"
          ELSE "conflicted"]
     /\ auth' = [k \in Keys |-> IF k \in keys THEN changes[k] ELSE auth[k]]
     /\ \/ /\ visible' = [k \in Keys |->
               IF k \in keys THEN Replay(changes[k], rest(k)) ELSE visible[k]]
           /\ Applied
           /\ UNCHANGED <<replace_on_initial, suspect>>
        \/ NotApplied

Ignore == UNCHANGED <<base, pending, visible, state, acked, auth, suspect, outcome, countVars>>

\* The first Initial after an acceptance replaces the table; one that finds
\* replace_on_initial reset inserts its rows.
ReceiveInitial ==
  /\ Receive("initial")
  /\ IF replace_on_initial
     THEN IF ready THEN Replace(Event.rows)
          ELSE replace_on_initial' = FALSE /\ Ignore
     ELSE IF ready THEN Fold([k \in {l \in Keys : Event.rows[l] # Absent} |-> Event.rows[k]])
          ELSE UNCHANGED replace_on_initial /\ Ignore
  /\ UNCHANGED ready

\* Without a spec the batch is ignored.
ReceiveChange ==
  /\ Receive("change")
  /\ IF ready THEN Fold(Event.changes) ELSE UNCHANGED replace_on_initial /\ Ignore
  /\ UNCHANGED ready

\* Resync: the same unimplemented request, and a state to wait in.
ReceiveResync ==
  /\ Receive("resync")
  /\ replace_on_initial' = TRUE
  /\ state' = "resyncing"
  /\ suspect' = TRUE
  /\ UNCHANGED <<base, pending, visible, ready, acked, auth, outcome, countVars>>

ReceiveError ==
  /\ Receive("error")
  /\ state' = "errored"
  /\ UNCHANGED <<base, pending, visible, ready, replace_on_initial, acked, auth, suspect, outcome,
                 countVars>>

\* stop() ends the pump; so does the end of the connection task.  Writer tasks
\* outlive both.
Stop ==
  /\ pumping = "running"
  /\ Disturb("stop")
  /\ \/ pumping' = "stopped" /\ UNCHANGED state
     \/ pumping' = "closed" /\ state' = "errored"
  /\ UNCHANGED <<ledgerVars, remoteVars, ready, replace_on_initial, acked, auth, suspect, outcome,
                 dbErrors>>

-----------------------------------------------------------------------------
NoMutation == [key |-> Absent, kind |-> Absent]

Init ==
  /\ server \in [Keys -> Image] /\ server_lsn = 1
  /\ stream = <<Accepted, InitialOf(server, 1)>>
  /\ writers = [t \in Tokens |-> "none"]
  /\ mutation = [t \in Tokens |-> NoMutation]
  /\ base = [k \in Keys |-> Untracked]
  /\ pending = [k \in Keys |-> <<>>]
  /\ visible = [k \in Keys |-> Absent]
  /\ next_token = 1
  /\ pumping = "running" /\ ready = FALSE /\ replace_on_initial = TRUE /\ state = "connecting" /\ acked = 0
  /\ outcome = [t \in Tokens |-> "none"]
  /\ auth = [k \in Keys |-> Absent] /\ suspect = FALSE
  /\ faults = 0 /\ dbErrors = 0

Pump == ReceiveAccepted \/ ReceiveInitial \/ ReceiveChange \/ ReceiveResync \/ ReceiveError
Writer(t) == RemoteCommit(t) \/ RemoteReject(t) \/ WriterOk(t) \/ WriterErr(t)

Next ==
  \/ \E k \in Keys, kind \in Kinds : Mutate(k, kind)
  \/ MutateFails
  \/ \E t \in Tokens : Writer(t)
  \/ \E c \in Transactions : ForeignCommit(c) \/ ForeignCommitResync(c)
  \/ SendError \/ Reconnect
  \/ Pump \/ Stop

Spec == Init /\ [][Next]_vars

\* The pump and the writer tasks are polled until they finish.
FairSpec == Spec /\ WF_vars(Pump) /\ \A t \in Tokens : WF_vars(Writer(t))

-----------------------------------------------------------------------------
(* Properties.                                                             *)

PendingOp == [token : Tokens, kind : ResolvedKind, writer_done : BOOLEAN]

\* Every variable keeps its type.
TypeOK ==
  /\ server \in [Keys -> Image] /\ server_lsn \in Nat
  /\ writers \in [Tokens -> {"none", "calling", "ok", "err", "finished"}]
  /\ base \in [Keys -> Image \cup {Untracked}]
  /\ pending \in [Keys -> Seq(PendingOp)]
  /\ visible \in [Keys -> Image] /\ auth \in [Keys -> Image]
  /\ next_token \in 1 .. MaxTokens + 1
  /\ pumping \in {"running", "stopped", "closed"}
  /\ ready \in BOOLEAN /\ replace_on_initial \in BOOLEAN /\ suspect \in BOOLEAN
  /\ state \in {"connecting", "snapshotting", "live", "resyncing", "errored"}
  /\ acked \in Nat
  /\ outcome \in [Tokens -> {"none", "settled", "conflicted", "failed"}]

\* "The visible local row is always replay(base, pending)", base being the
\* authoritative row as received, in every interleaving of mutations, writer
\* completions, snapshots and changes, until the local database fails a call.
ReplayLaw == \A k \in Keys : visible[k] = Replay(auth[k], pending[k])
VisibleIsReplay == dbErrors = 0 => ReplayLaw

\* The base image is kept "only for keys with pending mutations", and it is the
\* authoritative one, until the local database fails a call.
BaseLaw == \A k \in Keys : base[k] = Tracked(auth[k], pending[k])
BaseIsAuthoritative == dbErrors = 0 => BaseLaw

Holders(t) == {k \in Keys : At(t, k) # {}}

\* A mutation is pending on one key until exactly one outcome is announced: no
\* rebase, snapshot or rollback loses one or announces two.
OneOutcome ==
  \A t \in Tokens :
    /\ writers[t] \in {"calling", "ok"} /\ outcome[t] = "none" => Holders(t) # {}
    /\ Holders(t) # {} => outcome[t] = "none"
    /\ \A k, l \in Holders(t) : k = l

\* An announced outcome is the last one: no later batch or writer result
\* announces another (MutationSettled, MutationConflicted, MutationFailed).
OutcomeIsFinal == [][\A t \in Tokens : outcome[t] # "none" => outcome'[t] = outcome[t]]_vars

\* Once the stream is drained, nothing is pending and no batch is known to be
\* missing, the local table is the server's, reconnects included, provided the
\* local database never failed a call.
Converged ==
  dbErrors = 0 /\ stream = <<>> /\ ready /\ ~suspect /\ (\A k \in Keys : pending[k] = <<>>)
    => visible = server

\* A rejected write is rolled back, unless a server change settled or overruled
\* the mutation first.
RejectedIsResolved == \A t \in Tokens : writers[t] = "err" ~> outcome[t] # "none"

\* "The authoritative change eventually streams back from the WAL and settles
\* the mutation."
AcceptedSettles ==
  \A t \in Tokens : (writers[t] = "ok" /\ outcome[t] = "none") ~> outcome[t] = "settled"
=============================================================================
