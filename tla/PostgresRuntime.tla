--------------------------- MODULE PostgresRuntime ---------------------------
(***************************************************************************)
(* The shared state of PostgresWalRuntime: the in-memory mirror of the     *)
(* streamed tables, the bounded journal of row diffs, the LSN clock, and   *)
(* the readers that take a snapshot and then follow the journal through a  *)
(* JournalCursor.                                                          *)
(*                                                                         *)
(* One ingest task writes, any number of readers read.  The ingest task    *)
(* holds the mirror and the journal lock from the first row of a call to   *)
(* the last one and stores the clock only after it has dropped both; a     *)
(* reader takes one lock per call.  A call of the ingest task is therefore *)
(* a run of steps during which no reader moves (Locked), followed by a     *)
(* separate clock store.                                                   *)
(***************************************************************************)
EXTENDS Integers, Sequences, FiniteSets

CONSTANTS
  Tables,      \* the streamed tables (TableId)
  Columns,     \* the columns of every table
  Datums,      \* column values, Null among them
  Null,        \* Datum::Null
  Unchanged,   \* Datum::Unchanged, the TOAST placeholder of a new image
  Readers,     \* snapshot readers, each with one cursor
  Snapshots,   \* the table contents a Postgres snapshot may return
  Capacity,    \* journal_capacity
  MaxLsn,      \* bound: LSNs are 1 .. MaxLsn
  MaxChanges,  \* bound: row changes of one transaction
  MaxReconciles, \* bound: reconnects
  MaxPushed,   \* bound: diffs in the history when the last call starts
  MaxMixed,    \* bound: up to this LSN a transaction with a TRUNCATE may also
               \* change rows
  Orderly      \* TRUE: the stream hands over growing LSNs and old images the
               \* mirror holds; FALSE: any LSN, any image

ASSUME RuntimeAssumption ==
  /\ Null \in Datums
  /\ Unchanged \notin Datums
  /\ Capacity \in Nat
  /\ MaxLsn \in Nat
  /\ MaxChanges \in Nat
  /\ MaxReconciles \in Nat
  /\ MaxPushed \in Nat
  /\ MaxMixed \in Nat
  /\ Orderly \in BOOLEAN

Row == [Columns -> Datums]
Tuple == [Columns -> Datums \cup {Unchanged}]
RawDiff == [table : Tables, row : Row, lsn : Nat, diff : {-1, 1}]

Bags == [Tables -> [Row -> Nat]]

ASSUME SnapshotAssumption == Snapshots \subseteq Bags

VARIABLES
  mirror,            \* rows of each table, a bag: Row -> number of copies
  entries,           \* journal.entries
  base_seq,          \* journal.base_seq
  truncated_through, \* journal.truncated_through
  clock,             \* last applied commit LSN
  reconciles,        \* number of reconnect reconciliations
  failed,            \* the latched fatal error
  ingest,            \* the call the ingest task is executing
  pc,                \* where each reader is
  snap,              \* rows each reader copied out of the mirror
  tables,            \* the tables of each reader's query
  from_lsn,          \* the LSN each reader's snapshot claims and its cursor starts after
  next_seq,          \* cursor: next journal sequence number to look at
  poisoned,          \* cursor: parked for good
  batch,             \* the LSN batch next_batch is assembling
  batches,           \* history: the batches each reader has been handed
  served,            \* history: sequence numbers next_diff has yielded
  pushed,            \* history: every diff ever pushed into the journal
  seed,              \* history: the mirror the runtime was seeded with
  split              \* history: LSNs of transactions with a TRUNCATE and row changes

journalVars == <<entries, base_seq, truncated_through, pushed>>
readerVars == <<pc, snap, tables, from_lsn, next_seq, poisoned, batch, batches, served>>
historyVars == <<seed, split>>
vars == <<mirror, journalVars, clock, reconciles, failed, ingest, readerVars, historyVars>>

NoRows == [t \in Tables |-> [r \in Row |-> 0]]

-----------------------------------------------------------------------------
(* The journal and the mirror.                                             *)

\* tuple_to_row: a placeholder takes the old row's value, Null without one.
TupleToRow(tuple, old) ==
  [c \in Columns |-> IF tuple[c] # Unchanged THEN tuple[c]
                     ELSE IF old \in Row THEN old[c] ELSE Null]

\* A journal is the triple the Mutex guards, with the history of its pushes.
Journal == [entries |-> entries, base |-> base_seq, cut |-> truncated_through,
            pushed |-> pushed]

CapacityUsed == IF Capacity > 1 THEN Capacity ELSE 1

\* Mutant of Push: the mark of what was dropped is taken from the diff that
\* arrives.
PushMarksNewest(j, diff) ==
  LET full == Len(j.entries) = CapacityUsed
  IN [entries |-> Append(IF full THEN Tail(j.entries) ELSE j.entries, diff),
      base |-> IF full THEN j.base + 1 ELSE j.base,
      cut |-> IF full /\ diff.lsn > j.cut THEN diff.lsn ELSE j.cut,
      pushed |-> Append(j.pushed, diff)]

\* Journal::push: a full journal drops its oldest entry and remembers the
\* highest LSN it has dropped.
Push(j, diff) ==
  LET full == Len(j.entries) = CapacityUsed
      oldest == Head(j.entries)
  IN [entries |-> Append(IF full THEN Tail(j.entries) ELSE j.entries, diff),
      base |-> IF full THEN j.base + 1 ELSE j.base,
      cut |-> IF full /\ oldest.lsn > j.cut THEN oldest.lsn ELSE j.cut,
      pushed |-> Append(j.pushed, diff)]

SetJournal(j) ==
  /\ entries' = j.entries
  /\ base_seq' = j.base
  /\ truncated_through' = j.cut
  /\ pushed' = j.pushed

Diff(t, r, l, d) == [table |-> t, row |-> r, lsn |-> l, diff |-> d]

Held(t, r) == mirror[t][r] > 0
AddRow(t, r) == [mirror EXCEPT ![t][r] = @ + 1]
DropRow(t, r) == [mirror EXCEPT ![t][r] = IF @ > 0 THEN @ - 1 ELSE 0]
\* Mutant of ReplaceRow: the old row stays.
ReplaceKeepsOld(t, old, new) == [mirror EXCEPT ![t][new] = @ + 1]
ReplaceRow(t, old, new) ==
  LET without == IF Held(t, old) THEN [mirror[t] EXCEPT ![old] = @ - 1] ELSE mirror[t]
  IN [mirror EXCEPT ![t] = [without EXCEPT ![new] = @ + 1]]

-----------------------------------------------------------------------------
(* The ingest task.                                                        *)

Idle == [at |-> "idle", lsn |-> ingest.lsn, count |-> 0, more |-> FALSE, goal |-> NoRows]

Locked == ingest.at \in {"changes", "retract"}

\* The LSN of the next call.
Lsns == {l \in 1 .. MaxLsn : Len(pushed) < MaxPushed /\ (Orderly => l > ingest.lsn)}

\* apply_frame at a Commit calls apply_truncate and then apply_transaction
\* with the same commit LSN, each only if it has something to do.
BeginTransaction ==
  /\ ingest.at = "idle"
  /\ ~failed
  /\ \E l \in Lsns :
       ingest' = [at |-> "changes", lsn |-> l, count |-> 0, more |-> FALSE, goal |-> NoRows]
  /\ UNCHANGED <<mirror, journalVars, clock, reconciles, failed, readerVars, historyVars>>

\* The changes of the transaction whose truncates were applied just before.
ContinueTransaction ==
  /\ ingest.at = "between"
  /\ ingest' = [ingest EXCEPT !.at = "changes", !.count = 0, !.more = FALSE]
  /\ UNCHANGED <<mirror, journalVars, clock, reconciles, failed, readerVars, historyVars>>

NextChange ==
  /\ ingest.at = "changes"
  /\ ingest.count < MaxChanges
  /\ ingest' = [ingest EXCEPT !.count = @ + 1]
  /\ UNCHANGED <<clock, reconciles, failed, readerVars, historyVars>>

ApplyInsert(t, new) ==
  /\ NextChange
  /\ LET row == TupleToRow(new, Null)
     IN /\ mirror' = AddRow(t, row)
        /\ SetJournal(Push(Journal, Diff(t, row, ingest.lsn, 1)))

ApplyUpdate(t, old, new) ==
  /\ NextChange
  /\ LET old_row == TupleToRow(old, Null)
         new_row == TupleToRow(new, old_row)
     IN /\ Orderly => Held(t, old_row)
        /\ mirror' = ReplaceRow(t, old_row, new_row)
        /\ SetJournal(Push(Push(Journal, Diff(t, old_row, ingest.lsn, -1)),
                           Diff(t, new_row, ingest.lsn, 1)))

ApplyDelete(t, old) ==
  /\ NextChange
  /\ LET old_row == TupleToRow(old, Null)
     IN /\ Orderly => Held(t, old_row)
        /\ mirror' = DropRow(t, old_row)
        /\ SetJournal(Push(Journal, Diff(t, old_row, ingest.lsn, -1)))

EndTransaction ==
  /\ ingest.at = "changes"
  /\ ingest.count > 0
  /\ ingest' = [ingest EXCEPT !.at = "store"]
  /\ UNCHANGED <<mirror, journalVars, clock, reconciles, failed, readerVars, historyVars>>

\* apply_truncate drains the listed tables.  more: the same transaction also
\* has row changes.
BeginTruncate ==
  /\ ingest.at = "idle"
  /\ ~failed
  /\ \E l \in Lsns, ts \in SUBSET Tables \ {{}}, more \in BOOLEAN :
       /\ more => l <= MaxMixed
       /\ ingest' = [at |-> "retract", lsn |-> l, count |-> 0, more |-> more,
                     goal |-> [t \in Tables |-> IF t \in ts THEN NoRows[t] ELSE mirror[t]]]
       /\ split' = IF more THEN split \cup {l} ELSE split
  /\ UNCHANGED <<mirror, journalVars, clock, reconciles, failed, readerVars, seed>>

\* reconcile_snapshot: the bag difference between a fresh snapshot and the
\* mirror becomes one transaction.
BeginReconcile ==
  /\ ingest.at = "idle"
  /\ ~failed
  /\ reconciles < MaxReconciles
  /\ reconciles' = reconciles + 1
  /\ \E l \in Lsns, fresh \in Snapshots :
       ingest' = [at |-> "retract", lsn |-> l, count |-> 0, more |-> FALSE, goal |-> fresh]
  /\ UNCHANGED <<mirror, journalVars, clock, failed, readerVars, historyVars>>

\* One row of the difference between the mirror and what it must become.
PushDifference ==
  /\ ingest.at = "retract"
  /\ \E t \in Tables, r \in Row :
       \/ /\ mirror[t][r] > ingest.goal[t][r]
          /\ mirror' = DropRow(t, r)
          /\ SetJournal(Push(Journal, Diff(t, r, ingest.lsn, -1)))
       \/ /\ mirror[t][r] < ingest.goal[t][r]
          /\ mirror' = AddRow(t, r)
          /\ SetJournal(Push(Journal, Diff(t, r, ingest.lsn, 1)))
  /\ UNCHANGED <<clock, reconciles, failed, ingest, readerVars, historyVars>>

EndDifference ==
  /\ ingest.at = "retract"
  /\ mirror = ingest.goal
  /\ ingest' = [ingest EXCEPT !.at = "store"]
  /\ UNCHANGED <<mirror, journalVars, clock, reconciles, failed, readerVars, historyVars>>

\* clock.store(commit_lsn) after both locks are dropped.
StoreClock ==
  /\ ingest.at = "store"
  /\ clock' = ingest.lsn
  /\ ingest' = IF ingest.more THEN [ingest EXCEPT !.at = "between"] ELSE Idle
  /\ UNCHANGED <<mirror, journalVars, reconciles, failed, readerVars, historyVars>>

\* A schema drift ends the ingest task and latches the error.
Fail ==
  /\ ingest.at = "idle"
  /\ ~failed
  /\ failed' = TRUE
  /\ UNCHANGED <<mirror, journalVars, clock, reconciles, ingest, readerVars, historyVars>>

-----------------------------------------------------------------------------
(* The readers.                                                            *)

\* fetch_snapshot copies the rows of the query's tables under the mirror lock.
FetchRows(c) ==
  /\ pc[c] = "new"
  /\ ~Locked
  /\ ~failed
  /\ \E ts \in SUBSET Tables \ {{}} : tables' = [tables EXCEPT ![c] = ts]
  /\ snap' = [snap EXCEPT ![c] = mirror]
  /\ pc' = [pc EXCEPT ![c] = "rows"]
  /\ UNCHANGED <<mirror, journalVars, clock, reconciles, failed, ingest, from_lsn,
                 next_seq, poisoned, batch, batches, served, historyVars>>

\* ... drops the lock and only then reads the clock for snapshot_lsn.
FetchClock(c) ==
  /\ pc[c] = "rows"
  /\ from_lsn' = [from_lsn EXCEPT ![c] = clock]
  /\ pc' = [pc EXCEPT ![c] = "snapshot"]
  /\ UNCHANGED <<mirror, journalVars, clock, reconciles, failed, ingest, snap, tables,
                 next_seq, poisoned, batch, batches, served, historyVars>>

\* Mutant of OpenCursor: the coverage test is forgotten.
OpenCursorUnchecked(c) ==
  /\ pc[c] = "snapshot"
  /\ ~Locked
  /\ pc' = [pc EXCEPT ![c] = "follow"]
  /\ next_seq' = [next_seq EXCEPT ![c] = base_seq]
  /\ UNCHANGED <<mirror, journalVars, clock, reconciles, failed, ingest, snap, tables,
                 from_lsn, poisoned, batch, batches, served, historyVars>>

\* open_cursor refuses when the journal no longer covers from_lsn.
OpenCursor(c) ==
  /\ pc[c] = "snapshot"
  /\ ~Locked
  /\ IF failed \/ truncated_through > from_lsn[c]
     THEN /\ pc' = [pc EXCEPT ![c] = "refused"]
          /\ UNCHANGED next_seq
     ELSE /\ pc' = [pc EXCEPT ![c] = "follow"]
          /\ next_seq' = [next_seq EXCEPT ![c] = base_seq]
  /\ UNCHANGED <<mirror, journalVars, clock, reconciles, failed, ingest, snap, tables,
                 from_lsn, poisoned, batch, batches, served, historyVars>>

EndSeq == base_seq + Len(entries)
EntryAt(q) == entries[q - base_seq + 1]

\* Mutant of Relevant: the snapshot LSN itself is served again.
RelevantAtLsn(c, entry) == entry.lsn >= from_lsn[c] /\ entry.table \in tables[c]

\* JournalCursor::relevant
Relevant(c, entry) == entry.lsn > from_lsn[c] /\ entry.table \in tables[c]

\* The journal has dropped entries the cursor never looked at.
Overrun(c) == next_seq[c] < base_seq

\* The sequence numbers of the entries the cursor still has to surface; peek_lsn
\* looks at the first of them and finds none on an overrun cursor.
Pending(c) ==
  IF Overrun(c) THEN {} ELSE {q \in next_seq[c] .. EndSeq - 1 : Relevant(c, EntryAt(q))}
IsFirst(c, q) == q \in Pending(c) /\ \A p \in Pending(c) : q <= p

\* Mutant of NextDiffParks: the cursor is not parked.
NextDiffStays(c) ==
  /\ Overrun(c)
  /\ UNCHANGED <<poisoned, next_seq, served>>

\* The three outcomes of next_diff on a cursor that is not poisoned.
NextDiffParks(c) ==
  /\ Overrun(c)
  /\ poisoned' = [poisoned EXCEPT ![c] = TRUE]
  /\ UNCHANGED <<next_seq, served>>

NextDiffNone(c) ==
  /\ ~Overrun(c)
  /\ Pending(c) = {}
  /\ next_seq' = [next_seq EXCEPT ![c] = EndSeq]
  /\ UNCHANGED <<poisoned, served>>

NextDiffYields(c, q) ==
  /\ IsFirst(c, q)
  /\ next_seq' = [next_seq EXCEPT ![c] = q + 1]
  /\ served' = [served EXCEPT ![c] = @ \cup {q}]
  /\ UNCHANGED poisoned

ReadJournal(c) ==
  /\ ~Locked
  /\ ~poisoned[c]
  /\ UNCHANGED <<mirror, journalVars, clock, reconciles, failed, ingest, snap, tables,
                 from_lsn, historyVars>>

\* next_batch, first line: the diff that opens the batch.
BatchFirst(c) ==
  /\ pc[c] = "follow"
  /\ ReadJournal(c)
  /\ \/ /\ NextDiffParks(c) \/ NextDiffNone(c)
        /\ UNCHANGED <<pc, batch>>
     \/ \E q \in Pending(c) :
          /\ NextDiffYields(c, q)
          /\ batch' = [batch EXCEPT ![c] = <<EntryAt(q)>>]
          /\ pc' = [pc EXCEPT ![c] = "peek"]
  /\ UNCHANGED batches

Deliver(c) ==
  /\ batches' = [batches EXCEPT ![c] = Append(@, batch[c])]
  /\ batch' = [batch EXCEPT ![c] = <<>>]
  /\ pc' = [pc EXCEPT ![c] = "follow"]

\* Mutant of BatchPeek: a batch takes whatever comes next, whatever its LSN.
BatchPeekAnyLsn(c) ==
  /\ pc[c] = "peek"
  /\ ReadJournal(c)
  /\ IF Pending(c) = {} THEN Deliver(c)
     ELSE pc' = [pc EXCEPT ![c] = "take"] /\ UNCHANGED <<batch, batches>>
  /\ UNCHANGED <<next_seq, poisoned, served>>

\* next_batch peeks under a lock of its own: another LSN, or nothing to
\* yield, ends the batch.
BatchPeek(c) ==
  /\ pc[c] = "peek"
  /\ ReadJournal(c)
  /\ \/ /\ Pending(c) = {}
        /\ Deliver(c)
     \/ \E q \in Pending(c) :
          /\ IsFirst(c, q)
          /\ IF EntryAt(q).lsn # batch[c][1].lsn
             THEN Deliver(c)
             ELSE /\ pc' = [pc EXCEPT ![c] = "take"]
                  /\ UNCHANGED <<batch, batches>>
  /\ UNCHANGED <<next_seq, poisoned, served>>

\* ... and takes the peeked diff under another lock.
BatchTake(c) ==
  /\ pc[c] = "take"
  /\ ReadJournal(c)
  /\ \/ /\ NextDiffParks(c)
        /\ Deliver(c)
     \/ \E q \in Pending(c) :
          /\ NextDiffYields(c, q)
          /\ batch' = [batch EXCEPT ![c] = Append(@, EntryAt(q))]
          /\ pc' = [pc EXCEPT ![c] = "peek"]
          /\ UNCHANGED batches

-----------------------------------------------------------------------------
Init ==
  /\ seed \in Snapshots
  /\ mirror = seed /\ split = {}
  /\ entries = <<>> /\ base_seq = 0 /\ truncated_through = 0 /\ pushed = <<>>
  /\ clock = 0
  /\ reconciles = 0
  /\ failed = FALSE
  /\ ingest = [at |-> "idle", lsn |-> 0, count |-> 0, more |-> FALSE, goal |-> NoRows]
  /\ pc = [c \in Readers |-> "new"]
  /\ snap = [c \in Readers |-> NoRows]
  /\ tables = [c \in Readers |-> {}]
  /\ from_lsn = [c \in Readers |-> 0]
  /\ next_seq = [c \in Readers |-> 0]
  /\ poisoned = [c \in Readers |-> FALSE]
  /\ batch = [c \in Readers |-> <<>>]
  /\ batches = [c \in Readers |-> <<>>]
  /\ served = [c \in Readers |-> {}]

ApplyChange ==
  \E t \in Tables, new \in Tuple, old \in Row :
    \/ ApplyInsert(t, new)
    \/ ApplyUpdate(t, old, new)
    \/ ApplyDelete(t, old)

Ingest ==
  \/ BeginTransaction \/ ContinueTransaction \/ ApplyChange \/ EndTransaction
  \/ BeginTruncate \/ BeginReconcile \/ PushDifference \/ EndDifference
  \/ StoreClock \/ Fail

Reader(c) ==
  \/ FetchRows(c) \/ FetchClock(c) \/ OpenCursor(c)
  \/ BatchFirst(c) \/ BatchPeek(c) \/ BatchTake(c)

Next == Ingest \/ \E c \in Readers : Reader(c)

\* A call of the ingest task, once started, runs to its end, and a reader
\* that follows the journal is polled again and again.
Fairness ==
  /\ WF_vars(EndTransaction \/ ApplyChange)
  /\ WF_vars(PushDifference \/ EndDifference \/ StoreClock \/ ContinueTransaction)
  /\ \A c \in Readers : WF_vars(BatchFirst(c) \/ BatchPeek(c) \/ BatchTake(c))

Spec == Init /\ [][Next]_vars
FairSpec == Spec /\ Fairness

-----------------------------------------------------------------------------
(* Properties.                                                             *)

Followers == {c \in Readers : pc[c] \in {"follow", "peek", "take"}}

\* Every variable keeps its type, and the journal never outgrows its capacity.
TypeOK ==
  /\ mirror \in Bags
  /\ seed \in Bags /\ split \subseteq Nat
  /\ entries \in Seq(RawDiff)
  /\ Len(entries) <= CapacityUsed
  /\ pushed \in Seq(RawDiff)
  /\ base_seq \in Nat
  /\ truncated_through \in Nat
  /\ clock \in Nat
  /\ reconciles \in 0 .. MaxReconciles
  /\ failed \in BOOLEAN
  /\ ingest \in [at : {"idle", "changes", "retract", "store", "between"}, lsn : Nat,
                 count : Nat, more : BOOLEAN, goal : Bags]
  /\ pc \in [Readers -> {"new", "rows", "snapshot", "refused", "follow", "peek", "take"}]
  /\ snap \in [Readers -> Bags]
  /\ tables \in [Readers -> SUBSET Tables]
  /\ from_lsn \in [Readers -> Nat]
  /\ next_seq \in [Readers -> Nat]
  /\ poisoned \in [Readers -> BOOLEAN]
  /\ batch \in [Readers -> Seq(RawDiff)]
  /\ batches \in [Readers -> Seq(Seq(RawDiff))]
  /\ served \in [Readers -> SUBSET Nat]

\* "Never serve a gap" (JournalCursor::next_diff): whatever the journal has
\* dropped in the meantime, the diffs a cursor has yielded are exactly the
\* relevant ones among those it has moved past, of everything ever pushed.
NoGap ==
  \A c \in Followers : \A q \in 0 .. Len(pushed) - 1 :
    q \in served[c] <=> q < next_seq[c] /\ Relevant(c, pushed[q + 1])

\* open_cursor refuses a reader only when a diff above its snapshot LSN really
\* has been dropped: truncated_through is the LSN of a dropped diff.
RefusalJustified ==
  \A c \in Readers : pc[c] = "refused" /\ ~failed =>
    \E q \in 1 .. base_seq : pushed[q].lsn > from_lsn[c]

\* What makes NoGap and RefusalJustified inductive.  The journal is the tail of
\* its history; truncated_through covers every dropped diff and is itself the
\* LSN of one of them.
JournalOK(j) ==
  /\ j.entries \in Seq(RawDiff)
  /\ Len(j.entries) <= CapacityUsed
  /\ j.pushed \in Seq(RawDiff)
  /\ j.base \in Nat
  /\ j.cut \in Nat
  /\ Len(j.pushed) = j.base + Len(j.entries)
  /\ \A i \in 1 .. Len(j.entries) : j.entries[i] = j.pushed[j.base + i]
  /\ \A i \in 1 .. j.base : j.pushed[i].lsn <= j.cut
  /\ j.cut > 0 => \E i \in 1 .. j.base : j.pushed[i].lsn = j.cut

\* A cursor has looked at no more than was pushed, and yields nothing before
\* it is opened.
CursorOK ==
  /\ \A c \in Followers : next_seq[c] <= Len(pushed) /\ served[c] \subseteq 0 .. Len(pushed) - 1
  /\ \A c \in Readers : pc[c] \in {"new", "rows", "snapshot"} => served[c] = {}

RuntimeInv == TypeOK /\ JournalOK(Journal) /\ CursorOK /\ NoGap /\ RefusalJustified

\* The copies of a row in table t that the diffs up to LSN l leave.
Changed(ds, t, r, l) ==
  LET Hits(d) == {i \in DOMAIN ds : ds[i] = Diff(t, r, ds[i].lsn, d) /\ ds[i].lsn <= l}
  IN Cardinality(Hits(1)) - Cardinality(Hits(-1))

StateAt(l, t) == [r \in Row |-> seed[t][r] + Changed(pushed, t, r, l)]

\* Between calls of the ingest task the mirror is the seed plus every diff of
\* the journal's history: no path updates one without the other.
MirrorIsJournal ==
  ~Locked => \A t \in Tables : mirror[t] = StateAt(MaxLsn, t)

\* fetch_snapshot "Returns the rows visible at snapshot_lsn".
Exact(c) == \A t \in tables[c] : snap[c][t] = StateAt(from_lsn[c], t)
SnapshotVisible ==
  \A c \in Readers : pc[c] \notin {"new", "rows"} => Exact(c)

Drained(c) == pc[c] = "follow" /\ ~poisoned[c] /\ ~Overrun(c) /\ Pending(c) = {}

\* The copies of a row the batches handed to reader c add or (d = -1) retract.
Handed(c, t, r, d) ==
  Cardinality({p \in (1 .. Len(batches[c])) \X (1 .. Len(pushed)) :
    /\ p[2] \in DOMAIN batches[c][p[1]]
    /\ LET e == batches[c][p[1]][p[2]] IN e = Diff(t, r, e.lsn, d)})

\* A reader whose snapshot is exact, and who has drained its cursor, has
\* rebuilt the mirror from the snapshot and the batches it was handed.
SnapshotThenTail ==
  \A c \in Readers : Drained(c) /\ Exact(c) /\ ~Locked =>
    \A t \in tables[c], r \in Row :
      mirror[t][r] = snap[c][t][r] + Handed(c, t, r, 1) - Handed(c, t, r, -1)

\* next_transaction "Returns the next complete transaction delta": a batch
\* holds every relevant diff of its LSN, although next_batch takes the lock anew
\* for every one of them, and batches ascend ("Diffs surfaced by a cursor must be
\* non-decreasing in lsn", and the client drops a second batch at an LSN it has
\* seen).  Only the last batch of a cursor the journal has overrun, which yields
\* nothing more, may be cut, and only a transaction that is applied in two calls
\* may be handed out in two batches.
BatchWhole ==
  \A c \in Readers : \A b \in 1 .. Len(batches[c]) :
    LET l == batches[c][b][1].lsn
        all == {i \in 1 .. Len(pushed) : pushed[i].lsn = l /\ Relevant(c, pushed[i])}
        last == b = Len(batches[c])
    IN \/ l \in split
       \/ /\ Len(batches[c][b]) = Cardinality(all) \/ (last /\ (Overrun(c) \/ poisoned[c]))
          /\ last \/ l < batches[c][b + 1][1].lsn

\* Every diff a follower has to surface is surfaced in the end, unless the
\* journal overran its cursor, which is then parked.
EventuallyServed ==
  <>[](\A c \in Followers : \A q \in 0 .. Len(pushed) - 1 :
         Relevant(c, pushed[q + 1]) => q \in served[c] \/ poisoned[c])
=============================================================================
