-------------------------- MODULE ReplicationStream --------------------------
(***************************************************************************)
(* The vendored logical replication client (pg-walstream): the stream that *)
(* reads a walsender (stream.rs), the pgoutput parser with its streaming   *)
(* context (protocol.rs), the connection with its `alive` and COPY flags   *)
(* (connection/native), the retry of a connect (retry.rs) and the LSNs the *)
(* consumer hands back (lsn.rs).                                           *)
(*                                                                         *)
(* Postgres and the consumer are external.  Postgres is a log whose        *)
(* records are rows, commits, aborts and schema changes; record i starts   *)
(* at LSN i and ends at i + 1.  A walsender decodes it from the start and  *)
(* sends a transaction whole at its commit, or, in streaming mode, in      *)
(* segments before it.  The consumer applies a transaction at its commit   *)
(* and hands every event's LSN to update_applied_lsn, as the crate's       *)
(* README does.                                                            *)
(***************************************************************************)
EXTENDS Integers, Sequences, FiniteSets, FiniteSetsExt

CONSTANTS
  Cases,        \* [log, temporary]: logs to replicate, slot_options.temporary
  Streaming,    \* BOOLEAN: StreamingMode::On rather than Off
  Window,       \* bound: the walsender sends while no more messages are unread
  ConnectTries, \* RetryConfig.max_attempts
  MaxFaults     \* bound: connections lost, processes ended, commands refused

EventAttempts == 3   \* MAX_ATTEMPTS of next_event_with_retry

Records == [txn : Nat, op : {"row", "commit", "abort", "alter"}]

ASSUME StreamAssumption ==
  /\ \A c \in Cases : c.log \in Seq(Records) /\ c.temporary \in BOOLEAN
  /\ Streaming \in BOOLEAN
  /\ ConnectTries \in Nat \ {0} /\ Window \in Nat
  /\ MaxFaults \in Nat

VARIABLES
  wal,        \* Postgres: the log
  slot,       \* Postgres: confirmed_flush of the slot; 0: no slot
  session,    \* Postgres: the walsender [up, start, pos, sent, told]
  wire,       \* messages sent and not yet taken by next_event
  temporary,  \* config.slot_options.temporary
  pc,         \* where the stream's task is
  conn,       \* NativeConnection [alive, in_copy_mode]
  context,    \* parser.streaming_context; 0: none
  relation,   \* state.relations: version of the cached relation; 0: unknown
  received,   \* state.last_received_lsn
  last_sent,  \* state.last_sent_flush_lsn and last_sent_applied_lsn
  feedback,   \* SharedLsnFeedback [flushed, applied]
  attempt,    \* failed next_event calls of this next_event_with_retry
  tries,      \* failed connects of this connect_with_retry
  caller,     \* what the connection is opened for: "start", "retry", "health"
  inbox,      \* the event the consumer is working on; <<>>: it waits for one
  buffer,     \* consumer: rows of each transaction not committed yet
  current,    \* consumer: the transaction events belong to
  done,       \* consumer's destination: transactions applied, in order
  drops, crashes, refusals, \* faults so far
  cut,        \* history: a connection was lost inside a streamed segment
  gap         \* history: a temporary slot was created anew

pgVars == <<wal, temporary>>
parseVars == <<context, relation, received>>
consumerVars == <<inbox, buffer, current, done>>
countVars == <<drops, crashes, refusals>>
vars == <<pgVars, slot, session, wire, pc, conn, parseVars, last_sent, feedback,
          attempt, tries, caller, consumerVars, countVars, cut, gap>>

Faults == drops + crashes + refusals

Txns == {wal[i].txn : i \in 1 .. Len(wal)} \ {0}
RowsOf(t) == {i \in 1 .. Len(wal) : wal[i] = [txn |-> t, op |-> "row"]}
CommitOf(t) == {i \in 1 .. Len(wal) : wal[i] = [txn |-> t, op |-> "commit"]}
\* The version of the relation a record was written under.
Version(i) == 1 + Cardinality({j \in 1 .. i : wal[j].op = "alter"})

NoSession == [up |-> FALSE, start |-> 0, pos |-> 1, sent |-> {}, told |-> {}]
NewConnection == [alive |-> TRUE, in_copy_mode |-> FALSE]

-----------------------------------------------------------------------------
(* The walsender.                                                          *)

Message(tag, t, i, lsn, segment) ==
  [tag |-> tag, txn |-> t, row |-> i, lsn |-> lsn, segment |-> segment]

\* The rows of S in log order, each after a Relation message if the walsender
\* has not described that version of the relation yet.
RowMessages(t, S, told, segment) ==
  LET build[R \in SUBSET S] ==
        IF R = {} THEN [out |-> <<>>, told |-> told]
        ELSE LET i == Max(R)
                 before == build[R \ {i}]
                 version == <<Version(i), IF segment THEN t ELSE 0>>
             IN [out |-> before.out
                    \o (IF version \in before.told THEN <<>>
                        ELSE <<Message("relation", t, i, i, segment)>>)
                    \o <<Message("insert", t, i, i, segment)>>,
                 told |-> before.told \cup {version}]
  IN build[S]

Segment(t, S) ==
  LET rows == RowMessages(t, S, session.told, TRUE)
  IN [out |-> IF S = {} THEN <<>>
              ELSE <<Message("stream start", t, 0, Min(S), TRUE)>> \o rows.out
                   \o <<Message("stream stop", t, 0, Max(S), TRUE)>>,
      told |-> rows.told]

\* Rows of t the walsender has read and not sent.
Unsent(t, upto) == {i \in RowsOf(t) : i < upto} \ session.sent

Send(messages) == wire' = wire \o messages

\* Streaming mode: a segment of a transaction still in progress.
SendSegment(t) ==
  /\ Streaming /\ session.up /\ Len(wire) <= Window
  /\ session.pos > session.start
  /\ Unsent(t, session.pos) # {}
  /\ \A i \in 1 .. session.pos - 1 : wal[i].txn = t => wal[i].op = "row"
  /\ LET S == Unsent(t, session.pos)
     IN /\ Send(Segment(t, S).out)
        /\ session' = [session EXCEPT !.sent = @ \cup S, !.told = Segment(t, S).told]
  /\ UNCHANGED <<pgVars, slot, pc, conn, parseVars, last_sent, feedback, attempt,
                 tries, caller, consumerVars, countVars, cut, gap>>

\* The next record is decoded; a commit that starts before the position the
\* client asked for is skipped.
Decode ==
  /\ session.up /\ Len(wire) <= Window
  /\ session.pos <= Len(wal)
  /\ LET i == session.pos
         t == wal[i].txn
         streamed == RowsOf(t) \cap session.sent # {}
         rest == Segment(t, Unsent(t, i))
         whole == RowMessages(t, RowsOf(t), session.told, FALSE)
         result ==
           CASE wal[i].op = "commit" /\ i >= session.start /\ streamed ->
                  [out |-> rest.out \o <<Message("stream commit", t, 0, i + 1, FALSE)>>,
                   told |-> rest.told]
             [] wal[i].op = "commit" /\ i >= session.start /\ ~streamed ->
                  [out |-> <<Message("begin", t, 0, Min(RowsOf(t)), FALSE)>> \o whole.out
                           \o <<Message("commit", t, 0, i + 1, FALSE)>>,
                   told |-> whole.told]
             [] wal[i].op = "abort" /\ streamed ->
                  [out |-> <<Message("stream abort", t, 0, i, FALSE)>>,
                   told |-> session.told]
             [] OTHER -> [out |-> <<>>, told |-> session.told]
     IN /\ Send(result.out)
        /\ session' = [session EXCEPT !.pos = i + 1, !.told = result.told]
  /\ UNCHANGED <<pgVars, slot, pc, conn, parseVars, last_sent, feedback, attempt,
                 tries, caller, consumerVars, countVars, cut, gap>>

\* An idle walsender reports its position, with or without asking for a reply.
Keepalive(reply) ==
  /\ session.up
  /\ wire = <<>>
  /\ Send(<<Message(IF reply THEN "ping" ELSE "keepalive", 0, 0, session.pos, FALSE)>>)
  /\ UNCHANGED <<pgVars, slot, session, pc, conn, parseVars, last_sent, feedback,
                 attempt, tries, caller, consumerVars, countVars, cut, gap>>

\* The messages end between a StreamStart and its StreamStop.
Inside(messages) ==
  LET marks == {i \in 1 .. Len(messages) : messages[i].tag \in {"stream start", "stream stop"}}
  IN IF marks = {} THEN context # 0 ELSE messages[Max(marks)].tag = "stream start"

\* The connection is lost, or the server ends it with an ErrorResponse: a part
\* of what was sent can still be read, all of it before an ErrorResponse.
Drop(n, fatal) ==
  /\ session.up
  /\ fatal => n = Len(wire)
  /\ Faults < MaxFaults
  /\ drops' = drops + 1
  /\ session' = NoSession
  /\ slot' = IF temporary THEN 0 ELSE slot
  /\ cut' = (cut \/ Inside(SubSeq(wire, 1, n)))
  /\ wire' = SubSeq(wire, 1, n)
             \o (IF fatal THEN <<Message("error", 0, 0, 0, FALSE)>> ELSE <<>>)
  /\ UNCHANGED <<pgVars, pc, conn, parseVars, last_sent, feedback, attempt, tries,
                 caller, consumerVars, crashes, refusals, gap>>

-----------------------------------------------------------------------------
(* The stream: errors and retries.                                         *)

\* Mutant of Failed: a dead connection is retried like a live one.
FailedBlind(alive) ==
  /\ pc' = IF attempt + 1 >= EventAttempts THEN "failed" ELSE "next"
  /\ attempt' = (attempt + 1) % EventAttempts
  /\ caller' = "retry"

\* next_event returned an error that is neither permanent nor a cancellation:
\* give up after the last attempt, else recover a dead connection and try again.
Failed(alive) ==
  /\ pc' = IF attempt + 1 >= EventAttempts THEN "failed"
           ELSE IF alive THEN "next" ELSE "connect"
  /\ attempt' = (attempt + 1) % EventAttempts
  /\ caller' = "retry"

\* The consumer asks for an event once it is done with the last one.
Polled == pc = "next" /\ inbox = <<>>

\* get_copy_data on a connection the server closed.
ReadClosed ==
  /\ Polled
  /\ conn.in_copy_mode /\ ~session.up /\ wire = <<>>
  /\ conn' = [conn EXCEPT !.alive = FALSE]
  /\ Failed(FALSE)
  /\ UNCHANGED <<pgVars, slot, session, wire, parseVars, last_sent, feedback, tries,
                 consumerVars, countVars, cut, gap>>

\* get_copy_data on a connection that is not in COPY mode: ensure_replication_mode
\* fails and `alive` keeps its value.
ReadOutsideCopy ==
  /\ Polled
  /\ ~conn.in_copy_mode
  /\ Failed(conn.alive)
  /\ UNCHANGED <<pgVars, slot, session, wire, conn, parseVars, last_sent, feedback,
                 tries, consumerVars, countVars, cut, gap>>

\* The caller asks for the next event after an error.
CallAgain ==
  /\ pc = "failed"
  /\ pc' = "next"
  /\ UNCHANGED <<pgVars, slot, session, wire, conn, parseVars, last_sent, feedback,
                 attempt, tries, caller, consumerVars, countVars, cut, gap>>

\* Every so many events that call checks the connection's health first, and
\* recovers a dead one.
CheckHealth ==
  /\ pc = "failed"
  /\ ~conn.alive
  /\ pc' = "connect"
  /\ caller' = "health"
  /\ UNCHANGED <<pgVars, slot, session, wire, conn, parseVars, last_sent, feedback,
                 attempt, tries, consumerVars, countVars, cut, gap>>

-----------------------------------------------------------------------------
(* The stream: new and start, and recover_connection.                      *)

\* Opening the connection failed: new or start return the error and the process
\* ends; a recovery hands it to the caller of next_event_with_retry, except that
\* the health check logs it and lets next_event run.
GiveUp ==
  /\ pc' = CASE caller = "start" -> "down"
             [] caller = "retry" -> "failed"
             [] caller = "health" -> "next"
  /\ attempt' = 0
  /\ tries' = 0

\* connect_with_retry: another attempt, or the last one failed, or the time
\* allowed to all of them is over.  The old connection stays in place.
ConnectFails ==
  /\ pc = "connect"
  /\ Faults < MaxFaults
  /\ refusals' = refusals + 1
  /\ \/ /\ tries + 1 < ConnectTries
        /\ tries' = tries + 1
        /\ UNCHANGED <<pc, attempt>>
     \/ GiveUp
  /\ UNCHANGED <<pgVars, slot, session, wire, conn, parseVars, last_sent, feedback,
                 caller, consumerVars, drops, crashes, cut, gap>>

\* The new connection replaces the old one, which is closed.
Connects ==
  /\ pc = "connect"
  /\ conn' = NewConnection
  /\ wire' = <<>>
  /\ tries' = 0
  /\ pc' = "slot"
  /\ UNCHANGED <<pgVars, slot, session, parseVars, last_sent, feedback, attempt, caller,
                 consumerVars, countVars, cut, gap>>

\* ensure_replication_slot: the slot is created, unless it exists.  The log
\* starts where the first one was created; a temporary slot that went with its
\* connection is created anew at the current end of the log.
EnsureSlot ==
  /\ pc = "slot"
  /\ slot' = CASE slot # 0 -> slot
               [] slot = 0 /\ drops + crashes = 0 -> 1
               [] OTHER -> Len(wal) + 1
  /\ gap' = (gap \/ (slot = 0 /\ drops + crashes > 0))
  /\ pc' = "start"
  /\ UNCHANGED <<pgVars, session, wire, conn, parseVars, last_sent, feedback, attempt,
                 tries, caller, consumerVars, countVars, cut>>

\* identify_system, the slot's creation or START_REPLICATION fails: `?` returns
\* with the new connection in place, alive and not in COPY mode.
Refused ==
  /\ pc \in {"slot", "start"}
  /\ Faults < MaxFaults
  /\ refusals' = refusals + 1
  /\ GiveUp
  /\ UNCHANGED <<pgVars, slot, session, wire, conn, parseVars, last_sent, feedback,
                 caller, consumerVars, drops, crashes, cut, gap>>

\* Mutant of ResumeFrom: recovery starts over at the slot's position.
ResumeFromSlot == 0
\* Mutant of ResumeFrom: one past the last received position.
ResumePast == IF received = 0 THEN 0 ELSE received + 1
\* START_REPLICATION's position: INVALID_XLOG_REC_PTR in start(None), else
\* last_received_lsn.
ResumeFrom == received

\* The walsender starts at that position or at the slot's, whichever is later.
StartReplication ==
  /\ pc = "start"
  /\ session' = [NoSession EXCEPT !.up = TRUE, !.start = Max({ResumeFrom, slot})]
  /\ conn' = [conn EXCEPT !.in_copy_mode = TRUE]
  /\ pc' = "next"
  /\ UNCHANGED <<pgVars, slot, wire, parseVars, last_sent, feedback, attempt, tries,
                 caller, consumerVars, countVars, cut, gap>>

-----------------------------------------------------------------------------
(* The stream: feedback.                                                   *)

\* The LSNs of a status update: what the consumer handed back, never past what
\* was received.
Report(seen) == [flushed |-> Min({feedback.flushed, seen}),
                 applied |-> Min({feedback.applied, seen})]

\* send_feedback: nothing before the first message.  A walsender that is gone
\* does not get it; the stream records it as sent all the same.
SendFeedback(seen) ==
  IF seen = 0 THEN UNCHANGED <<slot, last_sent>>
  ELSE /\ slot' = IF session.up THEN Max({slot, Report(seen).flushed}) ELSE slot
       /\ last_sent' = Report(seen)

\* maybe_send_feedback: on an interval, and only if an LSN changed.
MaybeSendFeedback ==
  /\ Polled /\ conn.in_copy_mode
  /\ Report(received) # last_sent
  /\ SendFeedback(received)
  /\ UNCHANGED <<pgVars, session, wire, pc, conn, parseVars, feedback, attempt, tries,
                 caller, consumerVars, countVars, cut, gap>>

-----------------------------------------------------------------------------
(* The stream: one message.                                                *)

\* With a streaming context set, the parsers of rows and relations read a
\* transaction id first.  On a message outside a segment that shifts the fields:
\* an insert does not parse, a relation is stored under an id not its own.
Shifted(m) == context # 0 /\ ~m.segment /\ m.tag \in {"insert", "relation"}

Fails(m) == m.tag = "error" \/ (m.tag = "insert" /\ Shifted(m))

\* Mutant of NextContext: StreamStop leaves the context set.
NextContextKept(m) == IF m.tag = "stream start" THEN m.txn ELSE context
NextContext(m) ==
  CASE m.tag = "stream start" -> m.txn
    [] m.tag = "stream stop" -> 0
    [] OTHER -> context

NextRelation(m) ==
  IF m.tag = "relation" /\ ~Shifted(m) THEN Version(m.row) ELSE relation

\* convert_to_change_event: a relation is an event only when it changed, and a
\* row of an unknown relation is dropped.
IsEvent(m) ==
  CASE m.tag = "relation" -> ~Shifted(m) /\ relation \notin {0, Version(m.row)}
    [] m.tag = "insert" -> relation # 0
    [] OTHER -> m.tag \notin {"keepalive", "ping"}

\* A row's columns are read by the cached relation.
Event(m) == [tag |-> m.tag, txn |-> m.txn, row |-> m.row, lsn |-> m.lsn,
             read_as |-> relation, step |-> "new"]

\* next_event takes a message.  An event ends this call of next_event_with_retry;
\* a keepalive that asks for a reply is answered at once.
Receive ==
  /\ Polled /\ conn.in_copy_mode
  /\ wire # <<>> /\ ~Fails(Head(wire))
  /\ LET m == Head(wire)
     IN /\ context' = NextContext(m)
        /\ relation' = NextRelation(m)
        /\ received' = Max({received, m.lsn})
        /\ IF IsEvent(m)
           THEN inbox' = <<Event(m)>> /\ attempt' = 0
           ELSE UNCHANGED <<inbox, attempt>>
        /\ IF m.tag = "ping"
           THEN SendFeedback(Max({received, m.lsn}))
           ELSE UNCHANGED <<slot, last_sent>>
  /\ wire' = Tail(wire)
  /\ UNCHANGED <<pgVars, session, pc, conn, feedback, tries, caller, buffer, current,
                 done, countVars, cut, gap>>

\* The message does not parse, is an ErrorResponse, or asks for a reply that a
\* closed connection does not take.  It is consumed, last_received_lsn has moved
\* past it already, and the next attempt reads the one after it.
ReceiveFails ==
  /\ Polled /\ conn.in_copy_mode
  /\ wire # <<>>
  /\ Fails(Head(wire)) \/ (Head(wire).tag = "ping" /\ ~session.up)
  /\ received' = Max({received, Head(wire).lsn})
  /\ wire' = Tail(wire)
  /\ Failed(conn.alive)
  /\ UNCHANGED <<pgVars, slot, session, conn, context, relation, last_sent, feedback,
                 tries, consumerVars, countVars, cut, gap>>

-----------------------------------------------------------------------------
(* The consumer (external), and SharedLsnFeedback.                         *)

\* The consumer collects the rows of a transaction and applies it at its commit.
Consume ==
  /\ inbox # <<>> /\ inbox[1].step = "new"
  /\ LET e == inbox[1]
         t == e.txn
     IN CASE e.tag = "begin" ->
               current' = t /\ buffer' = [buffer EXCEPT ![t] = {}] /\ UNCHANGED done
          [] e.tag = "stream start" -> current' = t /\ UNCHANGED <<buffer, done>>
          [] e.tag = "insert" ->
               buffer' = [buffer EXCEPT ![current] = @ \cup {<<e.row, e.read_as>>}]
               /\ UNCHANGED <<current, done>>
          [] e.tag \in {"commit", "stream commit"} ->
               done' = Append(done, [txn |-> t, rows |-> buffer[t]])
               /\ buffer' = [buffer EXCEPT ![t] = {}] /\ UNCHANGED current
          [] e.tag = "stream abort" ->
               buffer' = [buffer EXCEPT ![t] = {}] /\ UNCHANGED <<current, done>>
          [] OTHER -> UNCHANGED <<buffer, current, done>>
  /\ inbox' = [inbox EXCEPT ![1].step = "handled"]
  /\ UNCHANGED <<pgVars, slot, session, wire, pc, conn, parseVars, last_sent, feedback,
                 attempt, tries, caller, countVars, cut, gap>>

\* update_applied_lsn moves applied up, and if it moved flushed too.
UpdateApplied ==
  /\ inbox # <<>> /\ inbox[1].step = "handled"
  /\ LET lsn == inbox[1].lsn
     IN IF lsn > feedback.applied
        THEN feedback' = [applied |-> lsn, flushed |-> Max({feedback.flushed, lsn})]
        ELSE UNCHANGED feedback
  /\ inbox' = <<>>
  /\ UNCHANGED <<pgVars, slot, session, wire, pc, conn, parseVars, last_sent, attempt,
                 tries, caller, buffer, current, done, countVars, cut, gap>>

\* The process ends, by a crash or by shutdown, which sends a last feedback, and
\* a new one opens a connection.  What the destination holds survives.
Restart(shutdown) ==
  /\ Faults < MaxFaults \/ pc = "down"
  /\ crashes' = IF pc = "down" THEN crashes ELSE crashes + 1
  /\ shutdown => Polled /\ conn.in_copy_mode /\ session.up
  /\ slot' = CASE temporary -> 0
               [] ~temporary /\ shutdown /\ received # 0 -> Max({slot, Report(received).flushed})
               [] OTHER -> slot
  /\ session' = NoSession
  /\ wire' = <<>>
  /\ pc' = "connect" /\ caller' = "start" /\ conn' = NewConnection
  /\ context' = 0 /\ relation' = 0 /\ received' = 0
  /\ last_sent' = [flushed |-> 0, applied |-> 0]
  /\ feedback' = [flushed |-> 0, applied |-> 0]
  /\ attempt' = 0 /\ tries' = 0
  /\ inbox' = <<>> /\ current' = 0
  /\ buffer' = [t \in Txns \cup {0} |-> {}]
  /\ UNCHANGED <<pgVars, done, drops, refusals, cut, gap>>

-----------------------------------------------------------------------------
Init ==
  /\ \E c \in Cases : wal = c.log /\ temporary = c.temporary
  /\ slot = 0
  /\ session = NoSession
  /\ wire = <<>>
  /\ pc = "connect" /\ caller = "start" /\ conn = NewConnection
  /\ context = 0 /\ relation = 0 /\ received = 0
  /\ last_sent = [flushed |-> 0, applied |-> 0]
  /\ feedback = [flushed |-> 0, applied |-> 0]
  /\ attempt = 0 /\ tries = 0
  /\ inbox = <<>> /\ current = 0
  /\ buffer = [t \in Txns \cup {0} |-> {}]
  /\ done = <<>>
  /\ drops = 0 /\ crashes = 0 /\ refusals = 0
  /\ cut = FALSE /\ gap = FALSE

\* What the stream's task does by itself.
Task == ReadClosed \/ ReadOutsideCopy \/ Receive \/ ReceiveFails

Next ==
  \/ \E t \in Txns : SendSegment(t)
  \/ Decode
  \/ \E reply \in BOOLEAN : Keepalive(reply)
  \/ \E n \in 0 .. Len(wire), fatal \in BOOLEAN : Drop(n, fatal)
  \/ Task
  \/ CallAgain
  \/ CheckHealth
  \/ ConnectFails
  \/ Connects
  \/ EnsureSlot
  \/ Refused
  \/ StartReplication
  \/ MaybeSendFeedback
  \/ Consume
  \/ UpdateApplied
  \/ \E shutdown \in BOOLEAN : Restart(shutdown)

Spec == Init /\ [][Next]_vars

\* The task, the consumer and a caller that keeps asking are polled by their
\* runtimes; a server that can be reached answers; a walsender decodes what the
\* log holds and asks an idle client for a reply (wal_sender_timeout); a process
\* whose start failed is started again.
Fairness ==
  /\ WF_vars(Task) /\ WF_vars(CallAgain)
  /\ WF_vars(Connects) /\ WF_vars(EnsureSlot) /\ WF_vars(StartReplication)
  /\ SF_vars(Decode) /\ SF_vars(Keepalive(TRUE))
  /\ WF_vars(Consume) /\ WF_vars(UpdateApplied)
  /\ WF_vars(pc = "down" /\ Restart(FALSE))

FairSpec == Spec /\ Fairness

-----------------------------------------------------------------------------
(* Properties.                                                             *)

Applied == {done[k].txn : k \in 1 .. Len(done)}
\* The commit record of a transaction that commits.
Commit(t) == Max(CommitOf(t))
Committed == {t \in Txns : CommitOf(t) # {}}
\* A recovery that failed after its connect: the connection is alive and will
\* never be in COPY mode.
Stranded == pc \in {"next", "failed"} /\ conn.alive /\ ~conn.in_copy_mode

\* Every variable keeps its type: attempts and tries stay below the limits of
\* next_event_with_retry and connect_with_retry, positions handed back never
\* pass last_received_lsn, and only restarts make the consumer apply more.
TypeOK ==
  /\ pc \in {"connect", "slot", "start", "next", "failed", "down"}
  /\ caller \in {"start", "retry", "health"}
  /\ slot \in 0 .. Len(wal) + 1 /\ received \in 0 .. Len(wal) + 1
  /\ attempt \in 0 .. EventAttempts - 1 /\ tries \in 0 .. ConnectTries - 1
  /\ feedback.flushed \in 0 .. received /\ feedback.applied \in 0 .. received
  /\ context \in Txns \cup {0}
  /\ Len(inbox) <= 1
  /\ Len(done) <= Cardinality(Committed) * (crashes + 1)

\* Every transaction the consumer applies has all of its rows, each read by the
\* relation it was written under, however connections are lost, restarted and
\* its messages resent, as long as none is lost inside a streamed segment
\* (process_wal_message, convert_to_change_event, recover_connection).
WholeTransactions ==
  cut \/ \A k \in 1 .. Len(done) :
           done[k].rows = {<<i, Version(i)>> : i \in RowsOf(done[k].txn)}

\* Within a run of the process transactions arrive in commit order and none
\* twice: only a restart, which resumes at the slot's position, repeats any
\* (recover_connection resumes at last_received_lsn).
RepeatsOnlyByRestart ==
  Cardinality({k \in 1 .. Len(done) - 1 : Commit(done[k].txn) >= Commit(done[k + 1].txn)})
    <= crashes

\* With a slot that outlives its connection, no transaction is overtaken: what
\* committed before an applied transaction, or before the position the slot has
\* confirmed, has been applied (send_feedback, SharedLsnFeedback).
NothingSkipped ==
  gap \/ \A t \in Committed \ Applied :
           /\ slot <= Commit(t)
           /\ \A u \in Applied : Commit(u) < Commit(t)

\* The slot is confirmed up to the end of the last commit, and every committed
\* transaction is applied.
CaughtUp == Committed \subseteq Applied /\ \A t \in Committed : slot > Commit(t)

\* However often connections are lost, connects fail and processes restart, the
\* stream ends up with everything applied and confirmed, unless a recovery was
\* refused after its connect or a temporary slot was lost
\* (next_event_with_retry, recover_connection, process_keepalive_message).
Delivers == <>[](gap \/ Stranded \/ CaughtUp)
=============================================================================
