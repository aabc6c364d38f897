------------------------------ MODULE WalIngest ------------------------------
(***************************************************************************)
(* The ingest side of PostgresWalRuntime (replication.rs): create the      *)
(* slot, take a fenced snapshot, seed the mirror, hold a walsender         *)
(* session, assemble transactions from frames, skip those the snapshot     *)
(* already holds, report what was applied, and after a lost session take a *)
(* fresh snapshot and reconcile.                                           *)
(*                                                                         *)
(* Postgres is external.  It is a log of committed transactions whose      *)
(* position is their LSN, a set of transactions in progress, and a slot    *)
(* that resends every commit at or after its confirmed LSN.  How a         *)
(* transaction changes the mirror's rows, the journal and the clock store  *)
(* is PostgresRuntime's subject; here a call on the runtime is one step.   *)
(***************************************************************************)
EXTENDS Integers, Sequences, FiniteSets

CONSTANTS
  Rows,           \* rows of the one streamed table
  Scripts,        \* what a transaction may do: sequences of operations
  Xids,           \* size of the xid space (2^32 in Postgres), wraps around
  FirstXid,       \* the full xid of the first transaction
  MaxTx,          \* bound: transactions
  MaxDisconnects, \* bound: lost sessions and failed snapshots
  MaxCrashes,     \* bound: process restarts
  Drifts          \* BOOLEAN: whether a Relation frame may announce new columns

Ops == [kind : {"insert", "delete"}, row : Rows] \cup [kind : {"truncate", "other"}]

ASSUME IngestAssumption ==
  /\ Scripts \subseteq Seq(Ops)
  /\ Xids \in Nat /\ FirstXid \in Nat
  /\ MaxTx \in Nat
  /\ 2 * MaxTx < Xids    \* Postgres keeps live xids within half of the space
  /\ MaxDisconnects \in Nat /\ MaxCrashes \in Nat
  /\ Drifts \in BOOLEAN

VARIABLES
  log,          \* Postgres: committed transactions [xid, ops] in commit order
  states,       \* Postgres: the table before the first and after each commit
  open,         \* Postgres: full xids in progress
  next_xid,     \* Postgres: the next full xid
  slot,         \* Postgres: resend commits at or after this LSN; 0: no slot
  phase,        \* where the process is
  fence,        \* SnapshotFence [xmax, in_progress]
  taken,        \* commits the current snapshot saw
  lsn,          \* the WAL position read for the current snapshot
  mirror,       \* rows of the table, a bag
  clock,        \* last applied commit LSN
  position,     \* LSN of the transaction being streamed
  frame,        \* frames of it received after Begin; -1: Begin not received
  pending,      \* PendingTransaction [xid, changes, truncates]
  applied_lsn,  \* flush LSN reported in the next status update
  disconnects,  \* lost sessions so far
  crashes,      \* restarts so far
  shown,        \* history: commits whose effect the mirror shows
  best          \* history: the most the mirror ever showed

pgVars == <<log, states, open, next_xid>>
streamVars == <<position, frame, pending, applied_lsn>>
mirrorVars == <<mirror, clock, shown, best>>
snapVars == <<fence, taken, lsn>>
countVars == <<disconnects, crashes>>
vars == <<pgVars, slot, phase, snapVars, mirrorVars, streamVars, countVars>>

Empty == [r \in Rows |-> 0]
NoPending == [xid |-> 0, changes |-> <<>>, truncates |-> FALSE]

-----------------------------------------------------------------------------
(* Postgres.                                                               *)

Insert(bag, r) == [bag EXCEPT ![r] = @ + 1]
Remove(bag, r) == [bag EXCEPT ![r] = IF @ > 0 THEN @ - 1 ELSE 0]

\* One operation on a bag of rows.
Do(bag, op) ==
  CASE op.kind = "insert" -> Insert(bag, op.row)
    [] op.kind = "delete" -> Remove(bag, op.row)
    [] op.kind = "truncate" -> Empty
    [] op.kind = "other" -> bag

\* The bag after the first n operations of a script.
After(bag, ops) ==
  LET done[n \in 0 .. Len(ops)] == IF n = 0 THEN bag ELSE Do(done[n - 1], ops[n])
  IN done

Valid(bag, ops) ==
  \A n \in 1 .. Len(ops) :
    ops[n].kind = "delete" => After(bag, ops)[n - 1][ops[n].row] > 0

Table == states[Len(states)]

StartTx ==
  /\ next_xid < FirstXid + MaxTx
  /\ next_xid' = next_xid + 1
  /\ open' = open \cup {next_xid}
  /\ UNCHANGED <<log, states, slot, phase, snapVars, mirrorVars, streamVars, countVars>>

CommitTx(x, ops) ==
  /\ x \in open
  /\ Valid(Table, ops)
  /\ open' = open \ {x}
  /\ log' = Append(log, [xid |-> x, ops |-> ops])
  /\ states' = Append(states, After(Table, ops)[Len(ops)])
  /\ UNCHANGED <<next_xid, slot, phase, snapVars, mirrorVars, streamVars, countVars>>

AbortTx(x) ==
  /\ x \in open
  /\ open' = open \ {x}
  /\ UNCHANGED <<log, states, next_xid, slot, phase, snapVars, mirrorVars, streamVars, countVars>>

-----------------------------------------------------------------------------
(* connect, and the fenced snapshot.                                       *)

\* connect: ensure_slot creates the slot, or resumes an existing one.
Connect ==
  /\ phase = "down"
  /\ slot' = IF slot = 0 THEN Len(log) + 1 ELSE slot
  /\ phase' = "snapshot"
  /\ UNCHANGED <<pgVars, snapVars, mirrorVars, streamVars, countVars>>

\* Mutant of TakeSnapshot: the fence forgets the transactions in progress.
TakeSnapshotBare ==
  /\ phase \in {"snapshot", "resnapshot"}
  /\ fence' = [xmax |-> next_xid, in_progress |-> {}]
  /\ taken' = Len(log)
  /\ phase' = IF phase = "snapshot" THEN "lsn" ELSE "relsn"
  /\ UNCHANGED <<pgVars, slot, lsn, mirrorVars, streamVars, countVars>>

\* The header statement fixes the repeatable-read snapshot and its fence ...
TakeSnapshot ==
  /\ phase \in {"snapshot", "resnapshot"}
  /\ fence' = [xmax |-> next_xid, in_progress |-> open]
  /\ taken' = Len(log)
  /\ phase' = IF phase = "snapshot" THEN "lsn" ELSE "relsn"
  /\ UNCHANGED <<pgVars, slot, lsn, mirrorVars, streamVars, countVars>>

\* ... and reads pg_current_wal_lsn() in the same statement, a moment later.
ReadWalLsn ==
  /\ phase \in {"lsn", "relsn"}
  /\ lsn' = Len(log)
  /\ phase' = IF phase = "lsn" THEN "seed" ELSE "reconcile"
  /\ UNCHANGED <<pgVars, slot, fence, taken, mirrorVars, streamVars, countVars>>

\* The mirror now shows the first n commits.
Shows(n) ==
  /\ shown' = n
  /\ best' = IF n > best THEN n ELSE best

\* seed_snapshot: the mirror and the clock, nothing in the journal.
SeedSnapshot ==
  /\ phase = "seed"
  /\ mirror' = states[taken + 1]
  /\ clock' = lsn
  /\ Shows(taken)
  /\ phase' = "start"
  /\ UNCHANGED <<pgVars, slot, snapVars, streamVars, countVars>>

\* reconcile_snapshot: the difference is journalled as one transaction at lsn.
ReconcileSnapshot ==
  /\ phase = "reconcile"
  /\ mirror' = states[taken + 1]
  /\ clock' = lsn
  /\ Shows(taken)
  /\ phase' = "start"
  /\ UNCHANGED <<pgVars, slot, snapVars, streamVars, countVars>>

\* A failed connect is returned to the caller; a failed reconcile backs off.
SnapshotFails ==
  /\ phase \in {"snapshot", "lsn", "seed", "resnapshot", "relsn", "reconcile"}
  /\ disconnects < MaxDisconnects
  /\ disconnects' = disconnects + 1
  /\ phase' = IF phase \in {"snapshot", "lsn", "seed"} THEN "down" ELSE "backoff"
  /\ UNCHANGED <<pgVars, slot, snapVars, mirrorVars, streamVars, crashes>>

\* Mutant of Backoff: the old snapshot is used again.
BackoffReuses ==
  /\ phase = "backoff"
  /\ phase' = "reconcile"
  /\ UNCHANGED <<pgVars, slot, snapVars, mirrorVars, streamVars, countVars>>

\* Every attempt after the first sleeps and re-snapshots.
Backoff ==
  /\ phase = "backoff"
  /\ phase' = "resnapshot"
  /\ UNCHANGED <<pgVars, slot, snapVars, mirrorVars, streamVars, countVars>>

-----------------------------------------------------------------------------
(* The walsender session.                                                  *)

\* START_REPLICATION at position 0: the server resumes from the slot.
StartStream ==
  /\ phase = "start"
  /\ phase' = "stream"
  /\ position' = slot
  /\ frame' = -1
  /\ pending' = NoPending
  /\ applied_lsn' = 0
  /\ UNCHANGED <<pgVars, slot, snapVars, mirrorVars, countVars>>

Streamed == log[position]
Receiving == phase = "stream" /\ position <= Len(log)

\* apply_frame, Begin
ReceiveBegin ==
  /\ Receiving
  /\ frame = -1
  /\ frame' = 0
  /\ pending' = [xid |-> Streamed.xid % Xids, changes |-> <<>>, truncates |-> FALSE]
  /\ UNCHANGED <<pgVars, slot, phase, snapVars, mirrorVars, position, applied_lsn, countVars>>

\* apply_frame, Row and Truncate; tables outside the streamed set are dropped.
ReceiveChange ==
  /\ Receiving
  /\ frame \in 0 .. Len(Streamed.ops) - 1
  /\ frame' = frame + 1
  /\ LET op == Streamed.ops[frame + 1]
     IN pending' = CASE op.kind = "truncate" -> [pending EXCEPT !.truncates = TRUE]
                     [] op.kind = "other" -> pending
                     [] OTHER -> [pending EXCEPT !.changes = Append(@, op)]
  /\ UNCHANGED <<pgVars, slot, phase, snapVars, mirrorVars, position, applied_lsn, countVars>>

\* Mutant of AlreadyInSnapshot: a comparison that does not wrap around.
AlreadyInSnapshotFlat(xid) ==
  /\ \A x \in fence.in_progress : x % Xids # xid
  /\ xid < fence.xmax % Xids

\* SnapshotFence::already_in_snapshot, on the low bits of the xids.
AlreadyInSnapshot(xid) ==
  /\ \A x \in fence.in_progress : x % Xids # xid
  /\ (xid - fence.xmax) % Xids >= Xids \div 2

\* apply_truncate and then apply_transaction, each only with something to do.
AppliedTo(bag, tx) ==
  LET start == IF tx.truncates THEN Empty ELSE bag
  IN After(start, tx.changes)[Len(tx.changes)]

\* Mutant of ReceiveCommit: a commit the fence covers is never finished.
ReceiveCommitStalls ==
  /\ Receiving
  /\ frame = Len(Streamed.ops)
  /\ ~AlreadyInSnapshot(pending.xid)
  /\ position' = position + 1
  /\ frame' = -1
  /\ pending' = NoPending
  /\ applied_lsn' = IF position > applied_lsn THEN position ELSE applied_lsn
  /\ mirror' = AppliedTo(mirror, pending)
  /\ IF pending.truncates \/ pending.changes # <<>>
     THEN clock' = position
     ELSE UNCHANGED clock
  /\ Shows(position)
  /\ UNCHANGED <<pgVars, slot, phase, snapVars, countVars>>

\* apply_frame, Commit, and the session's applied_lsn.
ReceiveCommit ==
  /\ Receiving
  /\ frame = Len(Streamed.ops)
  /\ position' = position + 1
  /\ frame' = -1
  /\ pending' = NoPending
  /\ applied_lsn' = IF position > applied_lsn THEN position ELSE applied_lsn
  /\ IF AlreadyInSnapshot(pending.xid)
     THEN UNCHANGED mirrorVars
     ELSE /\ mirror' = AppliedTo(mirror, pending)
          /\ IF pending.truncates \/ pending.changes # <<>>
             THEN clock' = position
             ELSE UNCHANGED clock
          /\ Shows(position)
  /\ UNCHANGED <<pgVars, slot, phase, snapVars, countVars>>

\* A keepalive that asks for a reply, or the timer: standby_status.  The slot
\* moves forward to the reported flush LSN.
SendStatus ==
  /\ phase = "stream"
  /\ slot' = IF applied_lsn > slot THEN applied_lsn ELSE slot
  /\ UNCHANGED <<pgVars, phase, snapVars, mirrorVars, streamVars, countVars>>

\* The session cannot be opened or ends; what was assembled is dropped.
Disconnect ==
  /\ phase \in {"start", "stream"}
  /\ disconnects < MaxDisconnects
  /\ disconnects' = disconnects + 1
  /\ phase' = "backoff"
  /\ pending' = NoPending
  /\ frame' = -1
  /\ UNCHANGED <<pgVars, slot, snapVars, mirrorVars, position, applied_lsn, crashes>>

\* A Relation frame with other columns: the runtime fails for good.
SchemaDrift ==
  /\ Drifts
  /\ phase = "stream"
  /\ phase' = "failed"
  /\ UNCHANGED <<pgVars, slot, snapVars, mirrorVars, streamVars, countVars>>

\* ReplicationHandle::shutdown: a last status update, then the task ends.
Shutdown ==
  /\ phase \in {"backoff", "stream"}
  /\ slot' = IF phase = "stream" /\ applied_lsn > slot THEN applied_lsn ELSE slot
  /\ phase' = "stopped"
  /\ UNCHANGED <<pgVars, snapVars, mirrorVars, streamVars, countVars>>

\* The process dies and loses all but the slot, which Postgres holds.
Crash ==
  /\ phase # "down"
  /\ crashes < MaxCrashes
  /\ crashes' = crashes + 1
  /\ phase' = "down"
  /\ mirror' = Empty /\ clock' = 0 /\ shown' = 0 /\ UNCHANGED best
  /\ fence' = [xmax |-> 0, in_progress |-> {}] /\ taken' = 0 /\ lsn' = 0
  /\ position' = 0 /\ frame' = -1 /\ pending' = NoPending /\ applied_lsn' = 0
  /\ UNCHANGED <<pgVars, slot, disconnects>>

-----------------------------------------------------------------------------
Init ==
  /\ log = <<>> /\ states = <<Empty>> /\ open = {} /\ next_xid = FirstXid
  /\ slot = 0
  /\ phase = "down"
  /\ fence = [xmax |-> 0, in_progress |-> {}] /\ taken = 0 /\ lsn = 0
  /\ mirror = Empty /\ clock = 0 /\ shown = 0 /\ best = 0
  /\ position = 0 /\ frame = -1 /\ pending = NoPending /\ applied_lsn = 0
  /\ disconnects = 0 /\ crashes = 0

Postgres == StartTx \/ \E x \in open : AbortTx(x) \/ \E ops \in Scripts : CommitTx(x, ops)

Progress ==
  \/ Connect \/ TakeSnapshot \/ ReadWalLsn \/ SeedSnapshot \/ ReconcileSnapshot
  \/ Backoff \/ StartStream \/ ReceiveBegin \/ ReceiveChange \/ ReceiveCommit

Next ==
  Postgres \/ Progress \/ SendStatus \/ SnapshotFails \/ Disconnect \/ SchemaDrift
    \/ Shutdown \/ Crash

\* The ingest task is a loop that is always polled: whatever it can do next it
\* does.  Nothing is assumed of Postgres or of failures.
Spec == Init /\ [][Next]_vars
FairSpec == Spec /\ WF_vars(Progress)

-----------------------------------------------------------------------------
(* Properties.                                                             *)

Phases == {"down", "snapshot", "lsn", "seed", "start", "stream", "backoff", "resnapshot",
           "relsn", "reconcile", "failed", "stopped"}
Live == {"start", "stream", "backoff", "resnapshot", "relsn", "reconcile", "failed", "stopped"}

Bag == [Rows -> Nat]

\* Every variable keeps its type.
TypeOK ==
  /\ log \in Seq([xid : Nat, ops : Scripts])
  /\ states \in Seq(Bag) /\ Len(states) = Len(log) + 1
  /\ open \subseteq Nat /\ next_xid \in Nat
  /\ slot \in Nat
  /\ phase \in Phases
  /\ fence \in [xmax : Nat, in_progress : SUBSET Nat]
  /\ taken \in 0 .. Len(log) /\ lsn \in 0 .. Len(log)
  /\ mirror \in Bag /\ clock \in 0 .. Len(log)
  /\ shown \in 0 .. Len(log) /\ best \in 0 .. Len(log)
  /\ position \in Nat /\ frame \in Int /\ applied_lsn \in Nat
  /\ pending \in [xid : Nat, changes : Seq(Ops), truncates : BOOLEAN]
  /\ disconnects \in 0 .. MaxDisconnects /\ crashes \in 0 .. MaxCrashes

\* "No change is missed or double-applied" (lib.rs): once seeded, the mirror is
\* the table as it was after some commit, each transaction before it counted
\* exactly once, across replays, reconnects and restarts.
MirrorExact == phase \in Live => mirror = states[shown + 1]

\* The slot resends everything the mirror does not show: every commit before
\* the stream's position is in the mirror, whatever the fence skipped, and no
\* standby status confirms a commit the mirror, or a fresh snapshot, would not
\* show.
NothingMissed ==
  /\ phase = "stream" => position <= shown + 1 /\ applied_lsn <= shown
  /\ phase \in {"start", "stream"} => slot <= shown + 1
  /\ slot <= Len(log) + 1

\* The clock a reader of the mirror is told goes back only when the process
\* restarts, or for a commit between the snapshot and the WAL position that was
\* read for it: seed_snapshot and reconcile_snapshot set the clock to that
\* position, ahead of the rows.
ClockOrder == [][clock' < clock => phase' = "down" \/ clock' \in taken + 1 .. lsn]_vars

\* The ingest task implements the replica its readers rely on: once seeded the
\* mirror shows a commit, and neither a reconnect nor a restart shows readers
\* an older table than they saw before.
Replica ==
  INSTANCE CommittedReplica
  WITH committed <- Len(log), best <- best, view <- IF phase \in Live THEN {shown} ELSE {}
ImplementsReplica == Replica!Spec

Snapping == {"lsn", "seed", "relsn", "reconcile"}

\* The fence separates the commits the snapshot holds from the later ones, in
\* the log and among those still to come.
FenceOK ==
  /\ fence \in [xmax : FirstXid .. next_xid, in_progress : SUBSET (FirstXid .. next_xid - 1)]
  /\ \A i \in 1 .. taken : log[i].xid < fence.xmax /\ log[i].xid \notin fence.in_progress
  /\ \A i \in taken + 1 .. Len(log) :
       log[i].xid >= fence.xmax \/ log[i].xid \in fence.in_progress
  /\ \A x \in open : x >= fence.xmax \/ x \in fence.in_progress

\* The stream is nowhere beyond what the mirror shows.
StreamOK ==
  /\ slot <= shown + 1
  /\ position \in 1 .. Len(log) + 1
  /\ shown = IF position - 1 > taken THEN position - 1 ELSE taken
  /\ applied_lsn < position
  /\ clock <= lsn \/ clock <= shown
  /\ frame # -1 => position <= Len(log) /\ pending.xid = Streamed.xid % Xids

IngestType ==
  /\ log \in Seq([xid : Nat, ops : Scripts])
  /\ phase \in Phases
  /\ next_xid \in FirstXid .. FirstXid + MaxTx
  /\ open \subseteq FirstXid .. next_xid - 1
  /\ slot \in 0 .. Len(log) + 1
  /\ best \in 0 .. Len(log) /\ shown \in 0 .. best /\ clock \in 0 .. Len(log)
  /\ taken \in 0 .. Len(log) /\ lsn \in 0 .. Len(log)
  /\ position \in Nat /\ applied_lsn \in Nat /\ frame \in Int
  /\ pending \in [xid : Nat, changes : Seq(Ops), truncates : BOOLEAN]

\* Committed transactions are over.
XidsOK ==
  \A i \in 1 .. Len(log) : log[i].xid \in FirstXid .. next_xid - 1 /\ log[i].xid \notin open

\* What slot, clock and mirror know of the log in each phase.
PhaseOK ==
  /\ phase # "down" => slot > 0
  /\ phase \in Snapping => best <= taken /\ slot <= taken + 1
  /\ phase \in {"seed", "reconcile", "start", "stream"} => taken <= lsn
  /\ phase = "reconcile" => clock <= lsn
  /\ phase \notin Live => clock = 0
  /\ phase \in Live => best = shown
  /\ phase = "start" => shown = taken /\ clock = lsn /\ slot <= taken + 1

\* The inductive invariant behind NothingMissed, ClockOrder and
\* ImplementsReplica: the fence of a snapshot stays exact until the next one,
\* and slot and stream stay behind the mirror.
IngestInv ==
  /\ IngestType
  /\ XidsOK
  /\ phase \in Snapping \cup {"start", "stream"} => FenceOK
  /\ PhaseOK
  /\ phase = "stream" => StreamOK

\* Every commit is shown in the end, unless the task stopped or failed.
CaughtUp ==
  \A n \in 1 .. MaxTx :
    Len(log) >= n ~> (shown >= n \/ phase \in {"failed", "stopped"})
=============================================================================
