--------------------------- MODULE LocalReplicaProofs ---------------------------
(***************************************************************************)
(* The overlay law of LocalReplica, for any keys, columns, values,         *)
(* mutations and bounds: until a call on the local database fails,         *)
(* every visible row is the authoritative row with the pending mutations   *)
(* replayed over it.                                                       *)
(***************************************************************************)
EXTENDS LocalReplica, FiniteSetTheorems, TLAPS

\* The law alone is not inductive: a snapshot or a rollback rebuilds the
\* visible row from base, so base has to be the authoritative row wherever
\* something is pending, and the ledger has to be a ledger.
OverlayInv ==
  /\ pending \in [Keys -> Seq(PendingOp)]
  /\ base = [k \in Keys |-> base[k]]
  /\ visible = [k \in Keys |-> visible[k]]
  /\ dbErrors = 0
  /\ BaseLaw
  /\ ReplayLaw

\* With nothing pending, replay is the row itself.
LEMMA ReplayNothing == \A row : Replay(row, <<>>) = row
  BY DEF Replay, KindsOf, Overlay

\* fold_change drops a prefix: what survives is a ledger again.
LEMMA SurvivorsType ==
  ASSUME NEW ops \in Seq(PendingOp), NEW post
  PROVE  Survivors(ops, post) \in Seq(PendingOp)
<1> DEFINE n == Cardinality(Dropped(ops, post))
<1>1. IsFiniteSet(1 .. Len(ops)) BY FS_Interval
<1>2. Dropped(ops, post) \subseteq 1 .. Len(ops) BY DEF Dropped
<1>3. IsFiniteSet(Dropped(ops, post)) BY <1>1, <1>2, FS_Subset
<1>4. n \in Nat BY <1>3, FS_CardinalityType
<1>5. SubSeq(ops, n + 1, Len(ops)) \in Seq(PendingOp)
  <2> HIDE DEF n
  <2> QED BY <1>4
<1> QED BY <1>5 DEF Survivors

\* Removing one mutation leaves a ledger.
LEMMA WithoutType ==
  ASSUME NEW ops \in Seq(PendingOp), NEW i \in 1 .. Len(ops)
  PROVE  Without(ops, i) \in Seq(PendingOp)
  BY DEF Without

\* An acknowledged write changes no mutation, so it changes no visible row.
LEMMA AcknowledgedOps ==
  ASSUME NEW ops \in Seq(PendingOp), NEW token
  PROVE  /\ Acknowledged(ops, token) \in Seq(PendingOp)
         /\ KindsOf(Acknowledged(ops, token)) = KindsOf(ops)
         /\ Acknowledged(ops, token) = <<>> <=> ops = <<>>
<1> DEFINE new == Acknowledged(ops, token)
<1>1. \A i \in 1 .. Len(ops) : ops[i] \in PendingOp OBVIOUS
<1>2. \A i \in 1 .. Len(ops) : new[i] \in PendingOp /\ new[i].kind = ops[i].kind
  BY <1>1 DEF PendingOp, Acknowledged
<1>3. new \in [1 .. Len(ops) -> PendingOp] BY <1>2 DEF Acknowledged
<1>4. Len(ops) \in Nat OBVIOUS
<1>5. new \in Seq(PendingOp) /\ Len(new) = Len(ops)
  <2> HIDE DEF new
  <2> QED BY <1>3, <1>4
<1>6. KindsOf(new) = KindsOf(ops)
  <2> HIDE DEF new
  <2> QED BY <1>2, <1>5 DEF KindsOf
<1>7. new = <<>> <=> ops = <<>>
  <2> HIDE DEF new
  <2> QED BY <1>5
<1> QED BY <1>5, <1>6, <1>7

\* Mutate: capture, append, replay.
LEMMA MutateStep ==
  ASSUME OverlayInv, NEW k \in Keys, NEW kind \in Kinds, Mutate(k, kind)
  PROVE  OverlayInv'
<1> DEFINE ops == Staged(pending[k], next_token, kind)
<1>1. ops \in Seq(PendingOp) /\ ops # <<>>
  <2>1. kind \in ResolvedKind BY ReplicaAssumption
  <2>2. [token |-> next_token, kind |-> kind, writer_done |-> FALSE] \in PendingOp
    BY <2>1 DEF Mutate, PendingOp
  <2>3. pending[k] \in Seq(PendingOp) BY DEF OverlayInv
  <2> QED BY <2>2, <2>3 DEF Staged
<1>2. Captured(k) = auth[k]
  BY ReplayNothing DEF OverlayInv, Captured, BaseLaw, ReplayLaw, Tracked
<1>3. /\ base' = [base EXCEPT ![k] = auth[k]]
      /\ pending' = [pending EXCEPT ![k] = ops]
      /\ visible' = [visible EXCEPT ![k] = Replay(auth[k], ops)]
      /\ UNCHANGED <<auth, dbErrors>>
  BY <1>2 DEF Mutate, pumpVars, countVars
<1> HIDE DEF ops
<1>4. pending' \in [Keys -> Seq(PendingOp)] BY <1>1, <1>3 DEF OverlayInv
<1>5. base' = [l \in Keys |-> base'[l]] /\ visible' = [l \in Keys |-> visible'[l]]
  BY <1>3 DEF OverlayInv
<1>6. BaseLaw'
  BY <1>1, <1>3 DEF OverlayInv, BaseLaw, Tracked
<1>7. ReplayLaw' BY <1>3 DEF OverlayInv, ReplayLaw
<1> QED BY <1>3, <1>4, <1>5, <1>6, <1>7 DEF OverlayInv

\* WriterOk: the mutation is marked, nothing else moves.
LEMMA WriterOkStep ==
  ASSUME OverlayInv, NEW token \in Tokens, mutation[token].key \in Keys, WriterOk(token)
  PROVE  OverlayInv'
<1> DEFINE k == mutation[token].key
           new == Acknowledged(pending[k], token)
<1>1. pending' = [pending EXCEPT ![k] = new] /\ UNCHANGED <<base, visible, auth, dbErrors>>
  BY DEF WriterOk, OverlayInv, pumpVars, countVars
<1>2. new \in Seq(PendingOp) /\ KindsOf(new) = KindsOf(pending[k])
      /\ (new = <<>> <=> pending[k] = <<>>)
  <2>1. pending[k] \in Seq(PendingOp) BY DEF OverlayInv
  <2> QED BY <2>1, AcknowledgedOps
<1> HIDE DEF new
<1>3. pending' \in [Keys -> Seq(PendingOp)] BY <1>1, <1>2 DEF OverlayInv
<1>4. BaseLaw' BY <1>1, <1>2 DEF OverlayInv, BaseLaw, Tracked
<1>5. ReplayLaw' BY <1>1, <1>2 DEF OverlayInv, ReplayLaw, Replay
<1> QED BY <1>1, <1>3, <1>4, <1>5 DEF OverlayInv

\* WriterErr: the rest of the key's mutations are replayed over its base.
LEMMA WriterErrStep ==
  ASSUME OverlayInv, dbErrors' = 0, NEW token \in Tokens, mutation[token].key \in Keys,
         WriterErr(token)
  PROVE  OverlayInv'
<1> DEFINE k == mutation[token].key
<1>1. dbErrors = 0 /\ ~DbFails BY DEF OverlayInv, DbFails
<1>2. UNCHANGED auth BY DEF WriterErr, pumpVars
<1>3. CASE UNCHANGED <<base, pending, visible, dbErrors>>
  BY <1>2, <1>3 DEF OverlayInv, BaseLaw, ReplayLaw
<1>4. CASE ~UNCHANGED <<base, pending, visible, dbErrors>>
  <2>1. PICK i \in At(token, k) :
             /\ pending' = [pending EXCEPT ![k] = Without(pending[k], i)]
             /\ base' = [base EXCEPT ![k] = Tracked(base[k], Without(pending[k], i))]
             /\ visible' = [visible EXCEPT ![k] = Replay(base[k], Without(pending[k], i))]
             /\ UNCHANGED dbErrors
    BY <1>1, <1>4, Zenon DEF WriterErr, DbOk, countVars
  <2>2. pending[k] \in Seq(PendingOp) /\ i \in 1 .. Len(pending[k]) BY <2>1 DEF OverlayInv, At
  <2>3. pending[k] # <<>> BY <2>2
  <2>4. base[k] = auth[k] BY <2>3 DEF OverlayInv, BaseLaw, Tracked
  <2>5. Without(pending[k], i) \in Seq(PendingOp) BY <2>2, WithoutType
  <2>6. pending' \in [Keys -> Seq(PendingOp)] BY <2>1, <2>5 DEF OverlayInv
  <2>7. base' = [l \in Keys |-> base'[l]] /\ visible' = [l \in Keys |-> visible'[l]]
    BY <2>1 DEF OverlayInv
  <2>8. BaseLaw' BY <1>2, <2>1, <2>4 DEF OverlayInv, BaseLaw
  <2>9. ReplayLaw' BY <1>2, <2>1, <2>4 DEF OverlayInv, ReplayLaw
  <2> QED BY <2>1, <2>6, <2>7, <2>8, <2>9 DEF OverlayInv
<1> QED BY <1>3, <1>4

\* Replace: a snapshot resets every base and every visible row.
LEMMA ReplaceStep ==
  ASSUME OverlayInv, dbErrors' = 0, NEW rows, Replace(rows)
  PROVE  OverlayInv'
<1>1. /\ base' = [k \in Keys |-> Tracked(rows[k], pending[k])]
      /\ visible' = [k \in Keys |-> Replay(rows[k], pending[k])]
      /\ auth' = rows /\ UNCHANGED <<pending, dbErrors>>
  BY DEF Replace, NotApplied, Applied, SnapshotRows, DbOk, DbFails, countVars, OverlayInv
<1> QED BY <1>1 DEF OverlayInv, BaseLaw, ReplayLaw

\* Fold: the survivors are replayed over the new image of each key.
LEMMA FoldStep ==
  ASSUME OverlayInv, dbErrors' = 0, NEW changes, Fold(changes)
  PROVE  OverlayInv'
<1> DEFINE keys == DOMAIN changes
           rest(k) == Survivors(pending[k], changes[k])
<1>1. /\ pending' = [k \in Keys |-> IF k \in keys THEN rest(k) ELSE pending[k]]
      /\ base' = [k \in Keys |-> IF k \in keys THEN Tracked(changes[k], rest(k)) ELSE base[k]]
      /\ auth' = [k \in Keys |-> IF k \in keys THEN changes[k] ELSE auth[k]]
      /\ visible' = [k \in Keys |-> IF k \in keys THEN Replay(changes[k], rest(k)) ELSE visible[k]]
      /\ UNCHANGED dbErrors
  BY DEF Fold, NotApplied, Applied, DbOk, DbFails, countVars, OverlayInv
<1>2. \A k \in Keys : rest(k) \in Seq(PendingOp)
  BY SurvivorsType DEF OverlayInv
<1> HIDE DEF rest, keys
<1>3. pending' \in [Keys -> Seq(PendingOp)] BY <1>1, <1>2 DEF OverlayInv
<1>4. BaseLaw' BY <1>1 DEF OverlayInv, BaseLaw
<1>5. ReplayLaw' BY <1>1 DEF OverlayInv, ReplayLaw
<1> QED BY <1>1, <1>3, <1>4, <1>5 DEF OverlayInv


\* The key of every mutation whose writer is out is a key.
IssuedInv == \A t \in Tokens : writers[t] # "none" => mutation[t].key \in Keys

\* Only Mutate writes the mutation table.
LEMMA IssuedStep ==
  ASSUME IssuedInv, writers = [t \in Tokens |-> writers[t]],
         mutation = [t \in Tokens |-> mutation[t]], [Next]_vars
  PROVE  /\ IssuedInv'
         /\ writers' = [t \in Tokens |-> writers'[t]]
         /\ mutation' = [t \in Tokens |-> mutation'[t]]
<1>1. CASE \E k \in Keys, kind \in Kinds : Mutate(k, kind)
  <2>1. PICK k \in Keys, kind \in Kinds : Mutate(k, kind) BY <1>1
  <2>2. /\ next_token \in Tokens
        /\ mutation' = [mutation EXCEPT ![next_token] = [key |-> k, kind |-> kind]]
        /\ \E w : writers' = [writers EXCEPT ![next_token] = w]
    BY <2>1, Zenon DEF Mutate
  <2> QED BY <2>2 DEF IssuedInv
<1>2. CASE \E t \in Tokens : Writer(t)
  <2>1. PICK t \in Tokens : Writer(t) BY <1>2
  <2>2. writers[t] # "none" /\ UNCHANGED mutation
    BY <2>1 DEF Writer, RemoteCommit, RemoteReject, WriterOk, WriterErr
  <2>3. \E w : writers' = [writers EXCEPT ![t] = w]
    BY <2>1, Zenon DEF Writer, RemoteCommit, RemoteReject, WriterOk, WriterErr
  <2> QED BY <2>2, <2>3 DEF IssuedInv
<1>3. CASE UNCHANGED <<writers, mutation>>
  BY <1>3 DEF IssuedInv
<1>4. ASSUME Pump PROVE UNCHANGED <<writers, mutation>>
  BY <1>4 DEF Pump, ReceiveAccepted, ReceiveInitial, ReceiveChange, ReceiveResync, ReceiveError,
              Receive
<1>5. ASSUME NEW c, ForeignCommit(c) \/ ForeignCommitResync(c) PROVE UNCHANGED <<writers, mutation>>
  BY <1>5 DEF ForeignCommit, ForeignCommitResync
<1>6. ASSUME MutateFails \/ SendError \/ Reconnect \/ Stop \/ UNCHANGED vars
      PROVE UNCHANGED <<writers, mutation>>
  BY <1>6 DEF MutateFails, SendError, Reconnect, Stop, vars, remoteVars
<1> QED BY <1>1, <1>2, <1>3, <1>4, <1>5, <1>6 DEF Next

\* Every step keeps the overlay, one step per action.
LEMMA OverlayStep ==
  ASSUME OverlayInv, IssuedInv, dbErrors' = 0, [Next]_vars
  PROVE  OverlayInv'
<1>0. ASSUME UNCHANGED <<base, pending, visible, auth, dbErrors>> PROVE OverlayInv'
  BY <1>0 DEF OverlayInv, BaseLaw, ReplayLaw
<1>1. dbErrors = 0 /\ ~DbFails BY DEF OverlayInv, DbFails
<1>2. ASSUME NEW k \in Keys, NEW kind \in Kinds, Mutate(k, kind) PROVE OverlayInv'
  BY <1>2, MutateStep
<1>3. ASSUME MutateFails PROVE OverlayInv'
  BY <1>1, <1>3 DEF MutateFails
<1>4. ASSUME NEW t \in Tokens, Writer(t) PROVE OverlayInv'
  <2>1. mutation[t].key \in Keys
    BY <1>4 DEF Writer, RemoteCommit, RemoteReject, WriterOk, WriterErr, IssuedInv
  <2>2. CASE RemoteCommit(t) \/ RemoteReject(t)
    BY <1>0, <2>2 DEF RemoteCommit, RemoteReject, ledgerVars, pumpVars, countVars
  <2>3. CASE WriterOk(t) BY <2>1, <2>3, WriterOkStep
  <2>4. CASE WriterErr(t) BY <2>1, <2>4, WriterErrStep
  <2> QED BY <1>4, <2>2, <2>3, <2>4 DEF Writer
<1>5. ASSUME NEW c, ForeignCommit(c) \/ ForeignCommitResync(c) PROVE OverlayInv'
  BY <1>0, <1>5 DEF ForeignCommit, ForeignCommitResync, ledgerVars, pumpVars
<1>6. ASSUME SendError \/ Reconnect PROVE OverlayInv'
  BY <1>0, <1>6 DEF SendError, Reconnect, ledgerVars, pumpVars
<1>7. ASSUME Stop \/ UNCHANGED vars PROVE OverlayInv'
  BY <1>0, <1>7 DEF Stop, vars, ledgerVars, pumpVars, countVars
<1>8. ASSUME ReceiveAccepted PROVE OverlayInv'
  BY <1>0, <1>1, <1>8 DEF ReceiveAccepted, DbOk, countVars
<1>9. ASSUME ReceiveInitial PROVE OverlayInv'
  <2>1. CASE Ignore BY <1>0, <2>1 DEF Ignore, countVars
  <2>2. ASSUME NEW rows, Replace(rows) PROVE OverlayInv' BY <2>2, ReplaceStep
  <2>3. ASSUME NEW changes, Fold(changes) PROVE OverlayInv' BY <2>3, FoldStep
  <2> QED BY <1>9, <2>1, <2>2, <2>3, Zenon DEF ReceiveInitial
<1>10. ASSUME ReceiveChange PROVE OverlayInv'
  <2>1. CASE Ignore BY <1>0, <2>1 DEF Ignore, countVars
  <2>2. CASE Fold(Event.changes) BY <2>2, FoldStep
  <2> QED BY <1>10, <2>1, <2>2 DEF ReceiveChange
<1>11. ASSUME ReceiveResync \/ ReceiveError PROVE OverlayInv'
  BY <1>0, <1>11 DEF ReceiveResync, ReceiveError, countVars
<1> QED BY <1>2, <1>3, <1>4, <1>5, <1>6, <1>7, <1>8, <1>9, <1>10, <1>11 DEF Next, Pump

\* dbErrors only counts.
LEMMA ErrorsStep ==
  ASSUME dbErrors \in Nat, [Next]_vars
  PROVE  dbErrors' \in Nat /\ (dbErrors' = 0 => dbErrors = 0)
<1>0. SUFFICES dbErrors' = dbErrors \/ dbErrors' = dbErrors + 1 OBVIOUS
<1>1. ASSUME NEW k \in Keys, NEW kind \in Kinds, Mutate(k, kind) PROVE UNCHANGED dbErrors
  BY <1>1 DEF Mutate, countVars
<1>2. ASSUME NEW t \in Tokens, Writer(t)
      PROVE  dbErrors' = dbErrors \/ dbErrors' = dbErrors + 1
  BY <1>2 DEF Writer, RemoteCommit, RemoteReject, WriterOk, WriterErr, DbOk, DbFails, countVars
<1>3. ASSUME NEW c, ForeignCommit(c) \/ ForeignCommitResync(c) PROVE UNCHANGED dbErrors
  BY <1>3 DEF ForeignCommit, ForeignCommitResync
<1>4. ASSUME SendError \/ Reconnect \/ Stop \/ UNCHANGED vars PROVE UNCHANGED dbErrors
  BY <1>4 DEF SendError, Reconnect, Stop, vars, countVars
<1>5. ASSUME MutateFails PROVE dbErrors' = dbErrors + 1
  BY <1>5 DEF MutateFails, DbFails
<1>6. ASSUME Pump PROVE dbErrors' = dbErrors \/ dbErrors' = dbErrors + 1
  <2>1. ASSUME NEW rows, Replace(rows) PROVE dbErrors' = dbErrors \/ dbErrors' = dbErrors + 1
    BY <2>1 DEF Replace, Applied, NotApplied, DbOk, DbFails, countVars
  <2>2. ASSUME NEW changes, Fold(changes) PROVE dbErrors' = dbErrors \/ dbErrors' = dbErrors + 1
    BY <2>2 DEF Fold, Applied, NotApplied, DbOk, DbFails, countVars
  <2>3. ASSUME Ignore PROVE UNCHANGED dbErrors BY <2>3 DEF Ignore, countVars
  <2>4. CASE ReceiveInitial BY <2>1, <2>2, <2>3, <2>4, Zenon DEF ReceiveInitial
  <2>5. CASE ReceiveChange BY <2>2, <2>3, <2>5 DEF ReceiveChange
  <2>6. CASE ReceiveAccepted \/ ReceiveResync \/ ReceiveError
    BY <2>6 DEF ReceiveAccepted, ReceiveResync, ReceiveError, DbOk, DbFails, countVars
  <2> QED BY <1>6, <2>4, <2>5, <2>6 DEF Pump
<1> QED BY <1>1, <1>2, <1>3, <1>4, <1>5, <1>6 DEF Next

\* "The visible local row is always replay(base, pending)": true of mutate, the
\* writer tasks, snapshots, changes, reconnects, resyncs and stop in any order,
\* for as long as the local database takes every write.
THEOREM OverlayLaw == Spec => [](VisibleIsReplay /\ BaseIsAuthoritative)
<1> DEFINE Inv == /\ dbErrors \in Nat /\ (dbErrors = 0 => OverlayInv) /\ IssuedInv
                  /\ writers = [t \in Tokens |-> writers[t]]
                  /\ mutation = [t \in Tokens |-> mutation[t]]
<1>1. Init => Inv
  <2> SUFFICES ASSUME Init PROVE Inv OBVIOUS
  <2>1. <<>> \in Seq(PendingOp) OBVIOUS
  <2>2. pending \in [Keys -> Seq(PendingOp)] BY <2>1 DEF Init
  <2>3. BaseLaw BY DEF Init, BaseLaw, Tracked
  <2>4. ReplayLaw BY ReplayNothing DEF Init, ReplayLaw
  <2>5. IssuedInv BY DEF Init, IssuedInv
  <2>6. OverlayInv BY <2>2, <2>3, <2>4 DEF Init, OverlayInv
  <2> QED BY <2>5, <2>6 DEF Init
<1>2. Inv /\ [Next]_vars => Inv' BY IssuedStep, ErrorsStep, OverlayStep
<1>3. Inv => VisibleIsReplay /\ BaseIsAuthoritative
  BY DEF OverlayInv, VisibleIsReplay, BaseIsAuthoritative
<1> QED BY <1>1, <1>2, <1>3, PTL DEF Spec
=============================================================================
