--------------------------- MODULE WalIngestProofs ---------------------------
(***************************************************************************)
(* The ingest task loses and repeats nothing, for any scripts, any number  *)
(* of transactions below half the xid space, and any number of lost        *)
(* sessions and restarts: the snapshot fence tells exactly the commits the *)
(* snapshot holds, so the stream and the slot never pass the mirror, and   *)
(* the task implements CommittedReplica.                                   *)
(***************************************************************************)
EXTENDS WalIngest, TLAPS

-----------------------------------------------------------------------------
(* Arithmetic of a wrapping counter.                                       *)

\* Quotient and remainder.
LEMMA DivMod ==
  ASSUME NEW n \in Nat, n > 0, NEW a \in Int
  PROVE  /\ a = (a \div n) * n + (a % n)
         /\ a \div n \in Int
         /\ a % n \in 0 .. n - 1
  BY SMTT(30)

\* A remainder is the only one.
LEMMA ModUnique ==
  ASSUME NEW n \in Nat, n > 0, NEW a \in Int, NEW q \in Int, NEW r \in 0 .. n - 1,
         a = n * q + r
  PROVE  a % n = r
  BY Z3

\* The wrapping difference of a truncated counter and a full one, less than n
\* apart.
LEMMA WrappingDifference ==
  ASSUME NEW n \in Nat, n > 0, NEW x \in Nat, NEW y \in Nat, x - y < n, y - x <= n
  PROVE  ((x % n) - y) % n = IF x >= y THEN x - y ELSE x - y + n
<1> DEFINE q == x \div n
           r == IF x >= y THEN 0 - q ELSE 0 - q - 1
           d == IF x >= y THEN x - y ELSE x - y + n
<1>1. x = q * n + (x % n) /\ q \in Int /\ x % n \in Nat BY DivMod
<1> HIDE DEF q
<1>2. r \in Int /\ d \in 0 .. n - 1 BY <1>1
<1>3. (x % n) - y = n * r + d
  <2>1. CASE x >= y
    <3>1. n * (0 - q) = 0 - q * n BY <1>1
    <3> QED BY <1>1, <2>1, <3>1
  <2>2. CASE x < y
    <3>1. n * (0 - q - 1) = 0 - q * n - n BY <1>1
    <3> QED BY <1>1, <2>2, <3>1
  <2> QED BY <2>1, <2>2
<1>4. (x % n) - y \in Int BY <1>1
<1> HIDE DEF r, d
<1>5. ((x % n) - y) % n = d BY <1>2, <1>3, <1>4, ModUnique
<1> QED BY <1>5 DEF d

\* Truncated counters less than n apart are equal only if the full ones are.
LEMMA TruncationInjective ==
  ASSUME NEW n \in Nat, n > 0, NEW x \in Nat, NEW y \in Nat, x - y < n, y - x < n,
         x % n = y % n
  PROVE  x = y
<1>1. y - x <= n /\ y - y < n /\ y - y <= n OBVIOUS
<1>2. ((x % n) - y) % n = IF x >= y THEN x - y ELSE x - y + n
  BY ONLY <1>1, WrappingDifference, n \in Nat, n > 0, x \in Nat, y \in Nat, x - y < n
<1>3. ((y % n) - y) % n = IF y >= y THEN y - y ELSE y - y + n
  BY ONLY <1>1, WrappingDifference, n \in Nat, n > 0, y \in Nat
<1>4. (IF x >= y THEN x - y ELSE x - y + n) = 0
  BY <1>2, <1>3
<1> QED BY <1>4

-----------------------------------------------------------------------------
(* The fence.                                                              *)

\* SnapshotFence::already_in_snapshot is exact, although it sees only the low
\* bits of the xids: it holds of the commits the snapshot has seen, and of no
\* other.
LEMMA FenceExact ==
  ASSUME IngestType, FenceOK, position \in 1 .. Len(log),
         Streamed.xid \in FirstXid .. next_xid - 1
  PROVE  AlreadyInSnapshot(Streamed.xid % Xids) <=> position <= taken
<1> DEFINE x == Streamed.xid
           y == fence.xmax
<1>1. /\ Xids \in Nat /\ Xids > 0 /\ MaxTx \in Nat /\ FirstXid \in Nat
      /\ MaxTx <= Xids \div 2 /\ Xids - MaxTx >= Xids \div 2 /\ Xids \div 2 \in Nat
  BY IngestAssumption
<1>2. /\ x \in Nat /\ y \in Nat /\ x - y < MaxTx /\ y - x <= MaxTx
      /\ \A z \in fence.in_progress : z \in Nat /\ z - x < Xids /\ x - z < Xids
  <2>1. next_xid \in FirstXid .. FirstXid + MaxTx BY DEF IngestType
  <2>2. y \in FirstXid .. next_xid /\ fence.in_progress \subseteq FirstXid .. next_xid - 1
    BY DEF FenceOK
  <2>3. x \in FirstXid .. next_xid - 1 OBVIOUS
  <2> HIDE DEF x, y
  <2>4. Xids > MaxTx BY <1>1, IngestAssumption
  <2>5. ASSUME NEW z \in FirstXid .. next_xid - 1
        PROVE  z \in Nat /\ z - x < Xids /\ x - z < Xids
    BY <1>1, <2>1, <2>3, <2>4
  <2>6. x \in Nat /\ y \in Nat /\ x - y < MaxTx /\ y - x <= MaxTx
    BY <1>1, <2>1, <2>2, <2>3
  <2> QED BY <2>2, <2>5, <2>6
<1>3. x - y < Xids /\ y - x <= Xids BY <1>1, <1>2
<1>4. ((x % Xids) - y) % Xids = IF x >= y THEN x - y ELSE x - y + Xids
  <2> HIDE DEF x, y
  <2> QED BY ONLY <1>1, <1>2, <1>3, WrappingDifference
<1>5. ((x % Xids) - y) % Xids >= Xids \div 2 <=> x < y
  <2> HIDE DEF x, y
  <2> QED BY <1>1, <1>2, <1>4
<1>6. (\A z \in fence.in_progress : z % Xids # x % Xids) <=> x \notin fence.in_progress
  <2>1. SUFFICES ASSUME NEW z \in fence.in_progress, z % Xids = x % Xids PROVE z = x
    OBVIOUS
  <2>2. z \in Nat /\ z - x < Xids /\ x - z < Xids
    BY <1>2
  <2> HIDE DEF x
  <2> QED BY ONLY <1>1, <1>2, <2>1, <2>2, TruncationInjective
<1>7. position <= taken <=> x < y /\ x \notin fence.in_progress
  <2>1. CASE position <= taken
    BY <2>1 DEF FenceOK, IngestType, Streamed
  <2>2. CASE position > taken
    <3>1. position \in taken + 1 .. Len(log) BY <2>2 DEF IngestType
    <3>2. x >= y \/ x \in fence.in_progress BY <3>1 DEF FenceOK, Streamed
    <3>3. ~(position <= taken) BY <2>2 DEF IngestType
    <3> HIDE DEF x, y
    <3> QED BY <1>2, <3>2, <3>3
  <2> QED BY <2>1, <2>2 DEF IngestType
<1> QED BY <1>5, <1>6, <1>7 DEF AlreadyInSnapshot

-----------------------------------------------------------------------------
(* The invariant.                                                          *)

LEMMA StreamedType ==
  ASSUME IngestType, position \in 1 .. Len(log)
  PROVE  /\ Streamed.xid \in Nat /\ Streamed.xid % Xids \in Nat
         /\ Streamed.ops \in Seq(Ops) /\ Len(Streamed.ops) \in Nat
         /\ \A i \in 1 .. Len(Streamed.ops) : Streamed.ops[i] \in Ops
<1> DEFINE Tx == [xid : Nat, ops : Scripts]
<1>1. log \in Seq(Tx) BY DEF IngestType
<1>2. Streamed \in Tx
  <2> HIDE DEF Tx
  <2> QED BY <1>1 DEF Streamed
<1>3. Streamed.xid \in Nat /\ Streamed.ops \in Scripts BY <1>2
<1>4. Xids \in Nat /\ Xids > 0 /\ Scripts \subseteq Seq(Ops) BY IngestAssumption
<1>5. Streamed.ops \in Seq(Ops) BY <1>3, <1>4
<1>6. Streamed.xid % Xids \in Nat
  <2> DEFINE x == Streamed.xid
  <2>1. x \in Int BY <1>3
  <2> HIDE DEF x
  <2>2. x % Xids \in 0 .. Xids - 1 BY <1>4, <2>1, DivMod
  <2> QED BY <1>4, <2>2 DEF x
<1>7. Len(Streamed.ops) \in Nat /\ \A i \in 1 .. Len(Streamed.ops) : Streamed.ops[i] \in Ops
  BY <1>5
<1> QED BY <1>3, <1>5, <1>6, <1>7

\* A commit that the snapshot holds is skipped, any other is applied.
Skips == position <= taken /\ UNCHANGED <<clock, shown, best>>
Applies ==
  /\ position > taken
  /\ shown' = position /\ best' = IF position > best THEN position ELSE best
  /\ clock' \in {clock, position}

LEMMA CommitStep ==
  ASSUME IngestInv, ReceiveCommit
  PROVE  /\ phase = "stream" /\ phase' = "stream" /\ frame' = -1 /\ pending' = NoPending
         /\ position \in 1 .. Len(log) /\ position' = position + 1
         /\ IngestType /\ FenceOK /\ StreamOK /\ PhaseOK /\ XidsOK
         /\ UNCHANGED <<log, open, next_xid, slot, fence, taken, lsn>>
         /\ Skips \/ Applies
<1>1. Receiving /\ phase' = phase BY DEF ReceiveCommit
<1>2. phase = "stream" /\ position <= Len(log) BY <1>1 DEF Receiving
<1>3. IngestType /\ FenceOK /\ StreamOK /\ PhaseOK /\ XidsOK BY <1>2 DEF IngestInv
<1>4. position \in 1 .. Len(log) /\ taken \in Int BY <1>2, <1>3 DEF StreamOK, IngestType
<1>5. frame # -1
  <2>1. Len(Streamed.ops) \in Nat BY <1>3, <1>4, StreamedType
  <2> QED BY <2>1 DEF ReceiveCommit
<1>6. pending.xid = Streamed.xid % Xids BY <1>3, <1>5 DEF StreamOK
<1>7. AlreadyInSnapshot(pending.xid) <=> position <= taken
  BY <1>3, <1>4, <1>6, FenceExact DEF XidsOK, Streamed
<1>8. ASSUME position <= taken PROVE Skips
  BY <1>7, <1>8 DEF ReceiveCommit, mirrorVars, Skips
<1>9. ASSUME position > taken PROVE Applies
  <2>1. ~AlreadyInSnapshot(pending.xid) BY <1>4, <1>7, <1>9
  <2> QED BY <1>9, <2>1 DEF ReceiveCommit, Shows, Applies
<1>10. Skips \/ Applies BY <1>4, <1>8, <1>9
<1> QED BY <1>1, <1>2, <1>3, <1>4, <1>10 DEF ReceiveCommit, snapVars, pgVars

LEMMA InvInit == Init => IngestInv
  BY IngestAssumption DEF Init, NoPending, IngestInv, IngestType, XidsOK, PhaseOK, Phases, Live,
     Snapping

LEMMA InvNext == IngestInv /\ [Next]_vars => IngestInv'
<1> SUFFICES ASSUME IngestInv, [Next]_vars PROVE IngestInv'
  OBVIOUS
<1>1. CASE StartTx
  <2> USE <1>1 DEF StartTx, pgVars, streamVars, mirrorVars, snapVars, countVars
  <2>1. IngestType' BY IngestAssumption DEF IngestInv, IngestType
  <2>2. XidsOK'
    <3>1. next_xid \in Int /\ FirstXid \in Int BY IngestAssumption DEF IngestInv, IngestType
    <3>2. SUFFICES ASSUME NEW i \in 1 .. Len(log)
          PROVE  log[i].xid \in FirstXid .. next_xid /\ log[i].xid \notin open \cup {next_xid}
      BY <3>1 DEF XidsOK
    <3> QED BY <3>1 DEF IngestInv, XidsOK
  <2>3. ASSUME phase \in Snapping \cup {"start", "stream"} PROVE FenceOK'
    <3>1. FenceOK /\ next_xid' = next_xid + 1 /\ open' = open \cup {next_xid}
      BY <2>3 DEF IngestInv
    <3>2. next_xid \in Int /\ FirstXid \in Int BY IngestAssumption DEF IngestInv, IngestType
    <3>3. /\ fence.xmax \in FirstXid .. next_xid'
          /\ fence.in_progress \subseteq FirstXid .. next_xid' - 1
          /\ next_xid >= fence.xmax
      BY <3>1, <3>2 DEF FenceOK
    <3> QED BY <3>1, <3>3 DEF FenceOK
  <2>4. PhaseOK' BY DEF IngestInv, PhaseOK
  <2>5. (phase = "stream" => StreamOK)' BY DEF IngestInv, StreamOK, Streamed
  <2> QED BY <2>1, <2>2, <2>3, <2>4, <2>5 DEF IngestInv, Snapping
<1>2. CASE \E x \in open : \E ops \in Scripts : CommitTx(x, ops)
  <2>1. PICK x \in open, ops \in Scripts : CommitTx(x, ops) BY <1>2
  <2> DEFINE e == [xid |-> x, ops |-> ops]
  <2>2. log' = Append(log, e) /\ open' = open \ {x} BY <2>1 DEF CommitTx
  <2>3. x \in Nat /\ x \in FirstXid .. next_xid - 1 BY IngestAssumption DEF IngestInv, IngestType
  <2>4. /\ log' \in Seq([xid : Nat, ops : Scripts]) /\ Len(log') = Len(log) + 1
        /\ Len(log) \in Nat
        /\ \A i \in 1 .. Len(log) : log'[i] = log[i]
        /\ log'[Len(log) + 1] = e
    BY <2>2, <2>3 DEF IngestInv, IngestType
  <2>5. UNCHANGED <<next_xid, slot, phase, snapVars, mirrorVars, streamVars>>
    BY <2>1 DEF CommitTx
  <2> HIDE DEF e
  <2> USE <2>2, <2>3, <2>4, <2>5 DEF snapVars, mirrorVars, streamVars
  <2>6. IngestType' BY DEF IngestInv, IngestType
  <2>7. XidsOK'
    <3> SUFFICES ASSUME NEW i \in 1 .. Len(log')
                 PROVE  log'[i].xid \in FirstXid .. next_xid - 1 /\ log'[i].xid \notin open'
      BY DEF XidsOK
    <3>1. CASE i \in 1 .. Len(log) BY <3>1 DEF IngestInv, XidsOK
    <3>2. CASE i = Len(log) + 1 BY <3>2 DEF e
    <3> QED BY <3>1, <3>2
  <2>8. ASSUME phase \in Snapping \cup {"start", "stream"} PROVE FenceOK'
    <3>1. FenceOK BY <2>8 DEF IngestInv
    <3>2. ASSUME NEW i \in 1 .. taken
          PROVE  log'[i].xid < fence.xmax /\ log'[i].xid \notin fence.in_progress
      <4>1. i \in 1 .. Len(log) BY DEF IngestInv, IngestType
      <4> QED BY <3>1, <4>1 DEF FenceOK
    <3>3. ASSUME NEW i \in taken + 1 .. Len(log')
          PROVE  log'[i].xid >= fence.xmax \/ log'[i].xid \in fence.in_progress
      <4>1. CASE i = Len(log) + 1 BY <3>1, <4>1 DEF FenceOK, e
      <4>2. CASE i \in taken + 1 .. Len(log) /\ i \in 1 .. Len(log) BY <3>1, <4>2 DEF FenceOK
      <4>3. Len(log) \in Nat /\ taken \in Nat /\ Len(log') = Len(log) + 1
        BY DEF IngestInv, IngestType
      <4>4. i = Len(log) + 1 \/ (i \in taken + 1 .. Len(log) /\ i \in 1 .. Len(log))
        BY ONLY <4>3, i \in taken + 1 .. Len(log')
      <4> QED BY <4>1, <4>2, <4>4
    <3> QED BY <3>1, <3>2, <3>3 DEF FenceOK
  <2>9. PhaseOK' BY DEF IngestInv, IngestType, PhaseOK
  <2>10. ASSUME phase = "stream" PROVE StreamOK'
    <3>1. StreamOK BY <2>10 DEF IngestInv
    <3>2. frame # -1 => Streamed' = Streamed BY <3>1 DEF StreamOK, Streamed
    <3> HIDE DEF Streamed
    <3> QED BY <3>1, <3>2 DEF StreamOK
  <2> QED BY <2>6, <2>7, <2>8, <2>9, <2>10 DEF IngestInv, Snapping
<1>3. CASE \E x \in open : AbortTx(x)
  <2>1. UNCHANGED <<log, next_xid, slot, phase, snapVars, mirrorVars, streamVars>>
        /\ open' \subseteq open
    BY <1>3 DEF AbortTx
  <2> USE <2>1 DEF snapVars, mirrorVars, streamVars
  <2>2. IngestType' BY DEF IngestInv, IngestType
  <2>3. XidsOK' BY DEF IngestInv, XidsOK
  <2>4. (phase \in Snapping \cup {"start", "stream"} => FenceOK)' BY DEF IngestInv, FenceOK
  <2>5. PhaseOK' BY DEF IngestInv, PhaseOK
  <2>6. (phase = "stream" => StreamOK)' BY DEF IngestInv, StreamOK, Streamed
  <2> QED BY <2>2, <2>3, <2>4, <2>5, <2>6 DEF IngestInv
<1>4. CASE Connect
  <2> USE <1>4 DEF Connect, pgVars, snapVars, mirrorVars, streamVars
  <2>1. IngestType' BY DEF IngestInv, IngestType, Phases
  <2>2. XidsOK' BY DEF IngestInv, XidsOK
  <2>3. (phase \in Snapping \cup {"start", "stream"} => FenceOK)'
    BY DEF IngestInv, FenceOK, Snapping
  <2>4. PhaseOK' BY DEF IngestInv, IngestType, PhaseOK, Live, Snapping
  <2>5. (phase = "stream" => StreamOK)' BY DEF IngestInv
  <2> QED BY <2>1, <2>2, <2>3, <2>4, <2>5 DEF IngestInv
<1>5. CASE TakeSnapshot
  <2> USE <1>5 DEF TakeSnapshot, pgVars, mirrorVars, streamVars
  <2>1. IngestType' BY DEF IngestInv, IngestType, Phases
  <2>2. XidsOK' BY DEF IngestInv, XidsOK
  <2>3. (phase \in Snapping \cup {"start", "stream"} => FenceOK)'
    <3>1. next_xid \in FirstXid .. next_xid /\ open \subseteq FirstXid .. next_xid - 1
      BY IngestAssumption DEF IngestInv, IngestType
    <3>2. fence' \in [xmax : FirstXid .. next_xid, in_progress : SUBSET (FirstXid .. next_xid - 1)]
      BY <3>1
    <3>3. ASSUME NEW i \in 1 .. Len(log) PROVE log[i].xid < next_xid /\ log[i].xid \notin open
      <4>1. log[i].xid \in FirstXid .. next_xid - 1 /\ log[i].xid \notin open
        BY DEF IngestInv, XidsOK
      <4>2. next_xid \in Int /\ FirstXid \in Int BY IngestAssumption DEF IngestInv, IngestType
      <4> QED BY ONLY <4>1, <4>2
    <3>4. Len(log) \in Nat /\ Len(log) + 1 .. Len(log) = {} BY DEF IngestInv, IngestType
    <3>5. fence'.xmax = next_xid /\ fence'.in_progress = open /\ taken' = Len(log) OBVIOUS
    <3>6. UNCHANGED <<log, open, next_xid>> OBVIOUS
    <3> QED BY ONLY <3>2, <3>3, <3>4, <3>5, <3>6 DEF FenceOK
  <2>4. PhaseOK' BY DEF IngestInv, IngestType, PhaseOK, Live, Snapping
  <2>5. (phase = "stream" => StreamOK)' BY DEF IngestInv
  <2> QED BY <2>1, <2>2, <2>3, <2>4, <2>5 DEF IngestInv
<1>6. CASE ReadWalLsn
  <2> USE <1>6 DEF ReadWalLsn, pgVars, mirrorVars, streamVars
  <2>1. IngestType' BY DEF IngestInv, IngestType, Phases
  <2>2. XidsOK' BY DEF IngestInv, XidsOK
  <2>3. (phase \in Snapping \cup {"start", "stream"} => FenceOK)'
    BY DEF IngestInv, FenceOK, Snapping
  <2>4. PhaseOK' BY DEF IngestInv, IngestType, PhaseOK, Live, Snapping
  <2>5. (phase = "stream" => StreamOK)' BY DEF IngestInv
  <2> QED BY <2>1, <2>2, <2>3, <2>4, <2>5 DEF IngestInv
<1>7. CASE SeedSnapshot
  <2> USE <1>7 DEF SeedSnapshot, Shows, pgVars, snapVars, streamVars
  <2>1. IngestType' BY DEF IngestInv, IngestType, Phases
  <2>2. XidsOK' BY DEF IngestInv, XidsOK
  <2>3. (phase \in Snapping \cup {"start", "stream"} => FenceOK)'
    BY DEF IngestInv, FenceOK, Snapping
  <2>4. PhaseOK' BY DEF IngestInv, IngestType, PhaseOK, Live, Snapping
  <2>5. (phase = "stream" => StreamOK)' BY DEF IngestInv
  <2> QED BY <2>1, <2>2, <2>3, <2>4, <2>5 DEF IngestInv
<1>8. CASE ReconcileSnapshot
  <2> USE <1>8 DEF ReconcileSnapshot, Shows, pgVars, snapVars, streamVars
  <2>1. IngestType' BY DEF IngestInv, IngestType, Phases
  <2>2. XidsOK' BY DEF IngestInv, XidsOK
  <2>3. (phase \in Snapping \cup {"start", "stream"} => FenceOK)'
    BY DEF IngestInv, FenceOK, Snapping
  <2>4. PhaseOK' BY DEF IngestInv, IngestType, PhaseOK, Live, Snapping
  <2>5. (phase = "stream" => StreamOK)' BY DEF IngestInv
  <2> QED BY <2>1, <2>2, <2>3, <2>4, <2>5 DEF IngestInv
<1>9. CASE Backoff
  <2> USE <1>9 DEF Backoff, pgVars, snapVars, mirrorVars, streamVars
  <2>1. IngestType' BY DEF IngestInv, IngestType, Phases
  <2>2. XidsOK' BY DEF IngestInv, XidsOK
  <2>3. (phase \in Snapping \cup {"start", "stream"} => FenceOK)'
    BY DEF IngestInv, FenceOK, Snapping
  <2>4. PhaseOK' BY DEF IngestInv, IngestType, PhaseOK, Live, Snapping
  <2>5. (phase = "stream" => StreamOK)' BY DEF IngestInv
  <2> QED BY <2>1, <2>2, <2>3, <2>4, <2>5 DEF IngestInv
<1>10. CASE StartStream
  <2> USE <1>10 DEF StartStream, NoPending, pgVars, snapVars, mirrorVars
  <2>1. IngestType' BY DEF IngestInv, IngestType, Phases
  <2>2. XidsOK' BY DEF IngestInv, XidsOK
  <2>3. (phase \in Snapping \cup {"start", "stream"} => FenceOK)'
    BY DEF IngestInv, FenceOK, Snapping
  <2>4. PhaseOK' BY DEF IngestInv, IngestType, PhaseOK, Live, Snapping
  <2>5. (phase = "stream" => StreamOK)' BY DEF IngestInv, IngestType, PhaseOK, StreamOK, Live
  <2> QED BY <2>1, <2>2, <2>3, <2>4, <2>5 DEF IngestInv
<1>11. CASE SendStatus
  <2> USE <1>11 DEF SendStatus, pgVars, snapVars, mirrorVars, streamVars
  <2>1. IngestType' BY DEF IngestInv, IngestType, Phases, StreamOK
  <2>2. XidsOK' BY DEF IngestInv, XidsOK
  <2>3. (phase \in Snapping \cup {"start", "stream"} => FenceOK)'
    BY DEF IngestInv, FenceOK, Snapping
  <2>4. PhaseOK' BY DEF IngestInv, IngestType, PhaseOK, Live, Snapping, StreamOK
  <2>5. (phase = "stream" => StreamOK)' BY DEF IngestInv, IngestType, StreamOK, Streamed
  <2> QED BY <2>1, <2>2, <2>3, <2>4, <2>5 DEF IngestInv
<1>12. CASE SnapshotFails
  <2> USE <1>12 DEF SnapshotFails, pgVars, snapVars, mirrorVars, streamVars
  <2>1. IngestType' BY DEF IngestInv, IngestType, Phases
  <2>2. XidsOK' BY DEF IngestInv, XidsOK
  <2>3. (phase \in Snapping \cup {"start", "stream"} => FenceOK)'
    BY DEF IngestInv, FenceOK, Snapping
  <2>4. PhaseOK' BY DEF IngestInv, IngestType, PhaseOK, Live, Snapping
  <2>5. (phase = "stream" => StreamOK)' BY DEF IngestInv
  <2> QED BY <2>1, <2>2, <2>3, <2>4, <2>5 DEF IngestInv
<1>13. CASE Disconnect
  <2> USE <1>13 DEF Disconnect, NoPending, pgVars, snapVars, mirrorVars
  <2>1. IngestType' BY DEF IngestInv, IngestType, Phases
  <2>2. XidsOK' BY DEF IngestInv, XidsOK
  <2>3. (phase \in Snapping \cup {"start", "stream"} => FenceOK)'
    BY DEF IngestInv, FenceOK, Snapping
  <2>4. PhaseOK' BY DEF IngestInv, IngestType, PhaseOK, Live, Snapping
  <2>5. (phase = "stream" => StreamOK)' BY DEF IngestInv
  <2> QED BY <2>1, <2>2, <2>3, <2>4, <2>5 DEF IngestInv
<1>14. CASE SchemaDrift
  <2> USE <1>14 DEF SchemaDrift, pgVars, snapVars, mirrorVars, streamVars
  <2>1. IngestType' BY DEF IngestInv, IngestType, Phases
  <2>2. XidsOK' BY DEF IngestInv, XidsOK
  <2>3. (phase \in Snapping \cup {"start", "stream"} => FenceOK)'
    BY DEF IngestInv, FenceOK, Snapping
  <2>4. PhaseOK' BY DEF IngestInv, IngestType, PhaseOK, Live, Snapping
  <2>5. (phase = "stream" => StreamOK)' BY DEF IngestInv
  <2> QED BY <2>1, <2>2, <2>3, <2>4, <2>5 DEF IngestInv
<1>15. CASE Shutdown
  <2> USE <1>15 DEF Shutdown, pgVars, snapVars, mirrorVars, streamVars
  <2>1. IngestType' BY DEF IngestInv, IngestType, Phases, StreamOK
  <2>2. XidsOK' BY DEF IngestInv, XidsOK
  <2>3. (phase \in Snapping \cup {"start", "stream"} => FenceOK)'
    BY DEF IngestInv, FenceOK, Snapping
  <2>4. PhaseOK' BY DEF IngestInv, IngestType, PhaseOK, Live, Snapping, StreamOK
  <2>5. (phase = "stream" => StreamOK)' BY DEF IngestInv
  <2> QED BY <2>1, <2>2, <2>3, <2>4, <2>5 DEF IngestInv
<1>16. CASE Crash
  <2> USE <1>16 DEF Crash, NoPending, pgVars
  <2>1. IngestType' BY DEF IngestInv, IngestType, Phases
  <2>2. XidsOK' BY DEF IngestInv, XidsOK
  <2>3. (phase \in Snapping \cup {"start", "stream"} => FenceOK)'
    BY DEF IngestInv, FenceOK, Snapping
  <2>4. PhaseOK' BY DEF IngestInv, IngestType, PhaseOK, Live, Snapping
  <2>5. (phase = "stream" => StreamOK)' BY DEF IngestInv
  <2> QED BY <2>1, <2>2, <2>3, <2>4, <2>5 DEF IngestInv
<1>17. CASE ReceiveBegin
  <2> USE <1>17 DEF ReceiveBegin, Receiving, pgVars, snapVars, mirrorVars
  <2>1. position \in 1 .. Len(log) BY DEF IngestInv, StreamOK
  <2>2. IngestType'
    <3>1. Streamed.xid % Xids \in Nat BY <2>1, StreamedType DEF IngestInv
    <3>2. pending' \in [xid : Nat, changes : Seq(Ops), truncates : BOOLEAN] BY <3>1
    <3> QED BY <3>2 DEF IngestInv, IngestType
  <2>3. XidsOK' BY DEF IngestInv, XidsOK
  <2>4. FenceOK' BY DEF IngestInv, FenceOK
  <2>5. PhaseOK' BY DEF IngestInv, PhaseOK
  <2>6. StreamOK' BY <2>1 DEF IngestInv, StreamOK, Streamed
  <2> QED BY <2>2, <2>3, <2>4, <2>5, <2>6 DEF IngestInv
<1>18. CASE ReceiveChange
  <2> DEFINE op == Streamed.ops[frame + 1]
             Pending == [xid : Nat, changes : Seq(Ops), truncates : BOOLEAN]
  <2>1. /\ phase = "stream" /\ position <= Len(log)
        /\ frame \in 0 .. Len(Streamed.ops) - 1 /\ frame' = frame + 1
        /\ pending' = CASE op.kind = "truncate" -> [pending EXCEPT !.truncates = TRUE]
                        [] op.kind = "other" -> pending
                        [] OTHER -> [pending EXCEPT !.changes = Append(@, op)]
        /\ UNCHANGED <<pgVars, slot, phase, snapVars, mirrorVars, position, applied_lsn>>
    BY <1>18 DEF ReceiveChange, Receiving
  <2>2. IngestType /\ StreamOK /\ pending \in Pending BY <2>1 DEF IngestInv, IngestType
  <2>3. position \in 1 .. Len(log) BY <2>1, <2>2 DEF StreamOK
  <2>4. /\ Len(Streamed.ops) \in Nat
        /\ \A i \in 1 .. Len(Streamed.ops) : Streamed.ops[i] \in Ops
    BY <2>2, <2>3, StreamedType
  <2>5. op \in Ops
    <3>1. frame + 1 \in 1 .. Len(Streamed.ops) BY <2>1, <2>4
    <3> QED BY <2>4, <3>1
  <2> HIDE DEF op
  <2>6. pending' \in Pending /\ pending'.xid = pending.xid
    <3>1. CASE pending' = [pending EXCEPT !.truncates = TRUE] BY ONLY <2>2, <3>1
    <3>2. CASE pending' = pending BY ONLY <2>2, <3>2
    <3>3. CASE pending' = [pending EXCEPT !.changes = Append(@, op)]
      <4>1. Append(pending.changes, op) \in Seq(Ops) BY ONLY <2>2, <2>5
      <4> QED BY ONLY <2>2, <3>3, <4>1
    <3> QED BY ONLY <2>1, <3>1, <3>2, <3>3
  <2>7. frame # -1 /\ frame' # -1 /\ frame' \in Int
    <3>1. frame \in 0 .. Len(Streamed.ops) - 1 /\ frame' = frame + 1 BY <2>1
    <3> HIDE DEF Streamed
    <3> QED BY ONLY <3>1
  <2> USE <2>1, <2>2, <2>6, <2>7 DEF pgVars, snapVars, mirrorVars
  <2>8. IngestType' BY DEF IngestType
  <2>9. XidsOK' BY DEF IngestInv, XidsOK
  <2>10. FenceOK' BY DEF IngestInv, FenceOK
  <2>11. PhaseOK' BY DEF IngestInv, PhaseOK
  <2>12. StreamOK' BY DEF StreamOK, Streamed
  <2> QED BY <2>8, <2>9, <2>10, <2>11, <2>12 DEF IngestInv
<1>19. CASE ReceiveCommit
  <2>1. /\ phase = "stream" /\ phase' = "stream" /\ frame' = -1 /\ pending' = NoPending
        /\ position \in 1 .. Len(log) /\ position' = position + 1
        /\ IngestType /\ FenceOK /\ StreamOK /\ PhaseOK /\ XidsOK
        /\ UNCHANGED <<log, open, next_xid, slot, fence, taken, lsn>>
    BY <1>19, CommitStep
  <2>2. applied_lsn' = IF position > applied_lsn THEN position ELSE applied_lsn
    BY <1>19 DEF ReceiveCommit
  <2>3. CASE Skips
    <3> USE <2>1, <2>3 DEF Skips
    <3>1. IngestType' BY <2>2 DEF IngestType, NoPending
    <3>2. XidsOK' /\ FenceOK' BY DEF XidsOK, FenceOK
    <3>3. PhaseOK' BY DEF PhaseOK, Snapping
    <3>4. StreamOK' BY <2>2 DEF IngestType, StreamOK
    <3> QED BY <3>1, <3>2, <3>3, <3>4 DEF IngestInv
  <2>4. CASE Applies
    <3> USE <2>1, <2>4 DEF Applies
    <3>1. IngestType'
      <4>1. best' \in 0 .. Len(log) /\ shown' \in 0 .. best' /\ clock' \in 0 .. Len(log)
        BY DEF IngestType
      <4>2. position' \in Nat /\ applied_lsn' \in Nat /\ frame' \in Int BY <2>2 DEF IngestType
      <4>3. pending' \in [xid : Nat, changes : Seq(Ops), truncates : BOOLEAN] BY DEF NoPending
      <4>4. phase' = phase /\ UNCHANGED <<log, open, next_xid, slot, fence, taken, lsn>> OBVIOUS
      <4> QED BY ONLY <4>1, <4>2, <4>3, <4>4, IngestType DEF IngestType
    <3>2. XidsOK' /\ FenceOK' BY DEF XidsOK, FenceOK
    <3>3. PhaseOK' BY DEF IngestType, PhaseOK, StreamOK, Snapping, Live
    <3>4. StreamOK' BY <2>2 DEF IngestType, StreamOK
    <3> QED BY <3>1, <3>2, <3>3, <3>4 DEF IngestInv
  <2> QED BY <1>19, <2>3, <2>4, CommitStep
<1>20. CASE UNCHANGED vars
  BY <1>20 DEF vars, pgVars, streamVars, mirrorVars, snapVars, IngestInv, IngestType, XidsOK,
     FenceOK, PhaseOK, StreamOK, Streamed
<1> QED
  BY <1>1, <1>2, <1>3, <1>4, <1>5, <1>6, <1>7, <1>8, <1>9, <1>10, <1>11, <1>12, <1>13, <1>14,
     <1>15, <1>16, <1>17, <1>18, <1>19, <1>20 DEF Next, Postgres, Progress

-----------------------------------------------------------------------------
(* Results.                                                                *)

\* IngestInv holds in every state, whatever is committed, lost or restarted.
THEOREM IngestInvariant == Spec => []IngestInv
  BY InvInit, InvNext, PTL DEF Spec

\* Every commit the mirror does not show is still sent, and no status update
\* confirms one: NothingMissed, for any number of transactions,
\* disconnects and restarts.
THEOREM NothingLost == Spec => []NothingMissed
<1>1. IngestInv => NothingMissed
  BY DEF IngestInv, IngestType, PhaseOK, StreamOK, NothingMissed
<1> QED BY <1>1, IngestInvariant, PTL

\* The clock goes back only at a restart, or between a snapshot and the WAL
\* position read for it.
THEOREM ClockOrdered == Spec => ClockOrder
<1>1. IngestInv /\ [Next]_vars
        => [clock' < clock => phase' = "down" \/ clock' \in taken + 1 .. lsn]_vars
  <2> SUFFICES ASSUME IngestInv, Next, clock' < clock
               PROVE  phase' = "down" \/ clock' \in taken + 1 .. lsn
    BY DEF vars
  <2>1. clock \in Nat BY DEF IngestInv, IngestType
  <2>2. CASE UNCHANGED clock BY <2>1, <2>2
  <2>3. CASE SeedSnapshot
    BY <2>1, <2>3 DEF SeedSnapshot, IngestInv, PhaseOK, Live, IngestType
  <2>4. CASE ReconcileSnapshot
    BY <2>1, <2>4 DEF ReconcileSnapshot, IngestInv, PhaseOK, IngestType
  <2>5. CASE ReceiveCommit
    <3>1. StreamOK /\ IngestType /\ (Skips \/ Applies) BY <2>5, CommitStep
    <3>2. clock' = position /\ position > taken BY <2>1, <3>1 DEF Skips, Applies
    <3>3. shown = position - 1 BY <3>1, <3>2 DEF StreamOK, IngestType
    <3>4. clock <= lsn BY <2>1, <3>1, <3>2, <3>3 DEF StreamOK, IngestType
    <3> QED BY <3>1, <3>2, <3>4 DEF StreamOK, IngestType
  <2>6. CASE Crash BY <2>6 DEF Crash
  <2> QED
    BY <2>2, <2>3, <2>4, <2>5, <2>6 DEF Next, Postgres, Progress, StartTx, CommitTx, AbortTx,
       Connect, TakeSnapshot, ReadWalLsn, Backoff, StartStream, ReceiveBegin, ReceiveChange,
       SendStatus, SnapshotFails, Disconnect, SchemaDrift, Shutdown, mirrorVars
<1> QED BY <1>1, IngestInvariant, PTL DEF Spec, ClockOrder

\* The ingest task implements CommittedReplica: an open mirror shows a commit,
\* and never an older one than was ever shown, across reconnects and restarts.
THEOREM IngestImplementsReplica == Spec => ImplementsReplica
<1> USE DEF Replica!vars, Replica!Next, Replica!Commit, Replica!Show, Replica!Close
<1>1. Init => Replica!Init BY DEF Init, Replica!Init, Live
<1>2. IngestInv /\ [Next]_vars => [Replica!Next]_(Replica!vars)
  <2> SUFFICES ASSUME IngestInv, [Next]_vars PROVE [Replica!Next]_(Replica!vars)
    OBVIOUS
  <2> DEFINE view == IF phase \in Live THEN {shown} ELSE {}
  <2>0. Len(log) \in Nat /\ best \in 0 .. Len(log) /\ taken \in 0 .. Len(log)
    BY DEF IngestInv, IngestType
  <2>1. CASE UNCHANGED <<log, best, view>> BY <2>1
  <2>2. CASE \E x \in open : \E ops \in Scripts : CommitTx(x, ops)
    <3>1. PICK x \in open, ops \in Scripts : CommitTx(x, ops) BY <2>2
    <3>2. log' = Append(log, [xid |-> x, ops |-> ops]) /\ UNCHANGED <<best, phase, shown>>
      BY <3>1 DEF CommitTx, mirrorVars
    <3>3. Len(log') = Len(log) + 1 BY <3>2 DEF IngestInv, IngestType
    <3> QED BY <3>2, <3>3
  <2>3. CASE SeedSnapshot \/ ReconcileSnapshot
    <3>1. /\ taken \in best .. Len(log) /\ best' = taken /\ shown' = taken
          /\ phase' \in Live /\ log' = log
      BY <2>0, <2>3 DEF SeedSnapshot, ReconcileSnapshot, Shows, IngestInv, PhaseOK, Snapping,
         Live, pgVars
    <3> QED BY <3>1
  <2>4. CASE ReceiveCommit
    <3>1. /\ phase = "stream" /\ phase' = "stream" /\ log' = log
          /\ position \in 1 .. Len(log) /\ StreamOK /\ PhaseOK /\ (Skips \/ Applies)
      BY <2>4, CommitStep
    <3>2. CASE Skips BY <2>1, <3>1, <3>2 DEF Skips
    <3>3. CASE Applies
      <4>1. best = shown /\ shown < position
        BY <2>0, <3>1, <3>3 DEF Applies, PhaseOK, StreamOK, Live
      <4>2. position \in best .. Len(log) /\ best' = position /\ shown' = position
        BY <2>0, <3>1, <3>3, <4>1 DEF Applies
      <4> QED BY <3>1, <4>2 DEF Live
    <3> QED BY <3>1, <3>2, <3>3
  <2>5. CASE Crash BY <2>5 DEF Crash, Live, pgVars
  <2>6. CASE Connect \/ TakeSnapshot \/ ReadWalLsn \/ Backoff \/ StartStream
             \/ SnapshotFails \/ Disconnect \/ SchemaDrift \/ Shutdown
    <3>1. UNCHANGED <<log, best, shown>> /\ (phase \in Live <=> phase' \in Live)
      BY <2>6 DEF Connect, TakeSnapshot, ReadWalLsn, Backoff, StartStream, SnapshotFails,
         Disconnect, SchemaDrift, Shutdown, pgVars, mirrorVars, Live
    <3> QED BY <2>1, <3>1
  <2>7. CASE StartTx \/ (\E x \in open : AbortTx(x)) \/ ReceiveBegin \/ ReceiveChange
             \/ SendStatus \/ UNCHANGED vars
    <3>1. UNCHANGED <<log, best, shown, phase>>
      BY <2>7 DEF StartTx, AbortTx, ReceiveBegin, ReceiveChange, SendStatus, vars, pgVars,
         mirrorVars
    <3> QED BY <2>1, <3>1
  <2> QED BY <2>2, <2>3, <2>4, <2>5, <2>6, <2>7 DEF Next, Postgres, Progress
<1> QED BY <1>1, <1>2, IngestInvariant, PTL DEF Spec, ImplementsReplica, Replica!Spec
=============================================================================
