------------------------ MODULE PostgresRuntimeProofs ------------------------
(***************************************************************************)
(* Proofs about PostgresRuntime: the journal with its cursors never serves *)
(* a gap and never refuses a reader it could serve, for every capacity,    *)
(* every number of readers and every input stream, ordered or not.         *)
(***************************************************************************)
EXTENDS PostgresRuntime, SequenceTheorems, TLAPS

\* Resolving a tuple's TOAST placeholders gives a row.
LEMMA TupleToRowType ==
  ASSUME NEW tuple \in Tuple, NEW old
  PROVE  TupleToRow(tuple, old) \in Row
BY RuntimeAssumption DEF TupleToRow, Tuple, Row

\* A row is a tuple without placeholders: an old image is one.
LEMMA RowIsTuple == Row \subseteq Tuple
BY DEF Row, Tuple

\* The capacity in force is at least one.
LEMMA CapacityPositive == CapacityUsed \in Nat /\ CapacityUsed >= 1
BY RuntimeAssumption DEF CapacityUsed

\* One journal continues another: its history has grown at the end only, and
\* it has dropped at least as much.
Continues(j, k) ==
  /\ Len(j.pushed) <= Len(k.pushed)
  /\ \A i \in 1 .. Len(j.pushed) : k.pushed[i] = j.pushed[i]
  /\ j.base <= k.base

\* Appending to the history: P is p with d at its end.
Grown(p, d, P) ==
  /\ P \in Seq(RawDiff)
  /\ Len(P) = Len(p) + 1
  /\ \A i \in 1 .. Len(p) : P[i] = p[i]
  /\ P[Len(p) + 1] = d

\* JournalOK on the parts of a journal.
PartsOK(e, b, c, p) ==
  /\ e \in Seq(RawDiff)
  /\ Len(e) <= CapacityUsed
  /\ p \in Seq(RawDiff)
  /\ b \in Nat
  /\ c \in Nat
  /\ Len(p) = b + Len(e)
  /\ \A i \in 1 .. Len(e) : e[i] = p[b + i]
  /\ \A i \in 1 .. b : p[i].lsn <= c
  /\ c > 0 => \E i \in 1 .. b : p[i].lsn = c

LEMMA AppendGrows ==
  ASSUME NEW p \in Seq(RawDiff), NEW d \in RawDiff
  PROVE  Grown(p, d, Append(p, d))
BY AppendProperties DEF Grown

\* Dropping the head and appending, as a full journal does, shifts by one.
LEMMA ShiftProperties ==
  ASSUME NEW e \in Seq(RawDiff), NEW d \in RawDiff, Len(e) >= 1
  PROVE  /\ Append(Tail(e), d) \in Seq(RawDiff)
         /\ Len(Append(Tail(e), d)) = Len(e)
         /\ \A i \in 1 .. Len(e) - 1 : Append(Tail(e), d)[i] = e[i + 1]
         /\ Append(Tail(e), d)[Len(e)] = d
<1>1. /\ Tail(e) \in Seq(RawDiff)
      /\ Len(Tail(e)) = Len(e) - 1
      /\ \A i \in 1 .. Len(e) - 1 : Tail(e)[i] = e[i + 1]
  BY HeadTailProperties, EmptySeq
<1> DEFINE t == Tail(e)
<1> HIDE DEF t
<1>2. /\ Append(t, d) \in Seq(RawDiff)
      /\ Len(Append(t, d)) = Len(t) + 1
      /\ \A i \in 1 .. Len(t) : Append(t, d)[i] = t[i]
      /\ Append(t, d)[Len(t) + 1] = d
  BY <1>1, AppendProperties DEF t
<1> QED BY <1>1, <1>2 DEF t

\* A push into a journal with room.
LEMMA PushRoom ==
  ASSUME NEW e, NEW b, NEW c, NEW p, PartsOK(e, b, c, p), NEW d \in RawDiff,
         Len(e) # CapacityUsed,
         NEW E, Grown(e, d, E), NEW P, Grown(p, d, P)
  PROVE  PartsOK(E, b, c, P)
<1> USE CapacityPositive
<1>1. Len(E) <= CapacityUsed /\ Len(P) = b + Len(E)
  BY DEF PartsOK, Grown
<1>2. \A i \in 1 .. Len(E) : E[i] = P[b + i]
  <2> SUFFICES ASSUME NEW i \in 1 .. Len(E) PROVE E[i] = P[b + i]
    OBVIOUS
  <2>1. i \in 1 .. Len(e) \/ i = Len(e) + 1
    BY DEF PartsOK, Grown
  <2>2. CASE i \in 1 .. Len(e)
    BY <2>2 DEF PartsOK, Grown
  <2>3. CASE i = Len(e) + 1
    BY <2>3 DEF PartsOK, Grown
  <2> QED BY <2>1, <2>2, <2>3
<1>3. \A i \in 1 .. b : P[i] = p[i]
  BY DEF PartsOK, Grown
<1> QED BY <1>1, <1>2, <1>3 DEF PartsOK, Grown

\* A push into a full journal: the head h goes, and the cut C covers it too.
LEMMA PushFull ==
  ASSUME NEW e, NEW b, NEW c, NEW p, PartsOK(e, b, c, p), NEW d \in RawDiff,
         Len(e) = CapacityUsed,
         NEW E \in Seq(RawDiff), Len(E) = Len(e),
         \A i \in 1 .. Len(e) - 1 : E[i] = e[i + 1],
         E[Len(e)] = d,
         NEW P, Grown(p, d, P),
         NEW C \in Nat, C >= c, C >= e[1].lsn, C = c \/ C = e[1].lsn
  PROVE  PartsOK(E, b + 1, C, P)
<1> USE CapacityPositive
<1>1. /\ e \in Seq(RawDiff) /\ b \in Nat /\ c \in Nat /\ p \in Seq(RawDiff)
      /\ Len(e) \in Nat /\ Len(e) >= 1
      /\ Len(p) = b + Len(e)
  BY DEF PartsOK
<1>2. P \in Seq(RawDiff) /\ Len(P) = (b + 1) + Len(E)
  BY <1>1 DEF Grown
<1>3. \A i \in 1 .. Len(E) : E[i] = P[(b + 1) + i]
  <2> SUFFICES ASSUME NEW i \in 1 .. Len(E) PROVE E[i] = P[(b + 1) + i]
    OBVIOUS
  <2>1. i \in 1 .. Len(e) - 1 \/ i = Len(e)
    BY <1>1
  <2>2. CASE i \in 1 .. Len(e) - 1
    <3>1. E[i] = e[i + 1] /\ i + 1 \in 1 .. Len(e) /\ b + (i + 1) \in 1 .. Len(p)
      BY <2>2, <1>1
    <3>2. e[i + 1] = p[b + (i + 1)]
      BY <3>1 DEF PartsOK
    <3>3. p[b + (i + 1)] = P[b + (i + 1)]
      BY <3>1 DEF Grown
    <3>4. b + (i + 1) = (b + 1) + i
      BY <1>1
    <3> QED BY <3>1, <3>2, <3>3, <3>4
  <2>3. CASE i = Len(e)
    BY <2>3, <1>1 DEF Grown
  <2> QED BY <2>1, <2>2, <2>3
<1>4. P[b + 1] = e[1]
  <2>1. e[1] = p[b + 1] /\ b + 1 \in 1 .. Len(p)
    BY <1>1 DEF PartsOK
  <2> QED BY <2>1 DEF Grown
<1>5. \A i \in 1 .. b : P[i] = p[i] /\ p[i].lsn <= c /\ p[i].lsn \in Nat
  <2>1. \A i \in 1 .. b : i \in 1 .. Len(p)
    BY <1>1
  <2>2. \A i \in 1 .. Len(p) : p[i] \in RawDiff
    BY <1>1
  <2>3. \A r \in RawDiff : r.lsn \in Nat
    BY DEF RawDiff
  <2> QED BY <2>1, <2>2, <2>3 DEF PartsOK, Grown
<1>6. \A i \in 1 .. b + 1 : P[i].lsn <= C
  <2> SUFFICES ASSUME NEW i \in 1 .. b + 1 PROVE P[i].lsn <= C
    OBVIOUS
  <2>1. i \in 1 .. b \/ i = b + 1
    BY <1>1
  <2>2. CASE i \in 1 .. b
    BY <2>2, <1>1, <1>5
  <2>3. CASE i = b + 1
    BY <2>3, <1>4
  <2> QED BY <2>1, <2>2, <2>3
<1>7. ASSUME C > 0 PROVE \E i \in 1 .. b + 1 : P[i].lsn = C
  <2>1. CASE C = e[1].lsn
    <3>1. P[b + 1].lsn = C /\ b + 1 \in 1 .. b + 1
      BY <2>1, <1>1, <1>4
    <3> QED BY <3>1
  <2>2. CASE C = c
    <3>1. PICK i \in 1 .. b : p[i].lsn = c
      BY <2>2, <1>7 DEF PartsOK
    <3>2. P[i].lsn = C /\ i \in 1 .. b + 1
      BY <3>1, <2>2, <1>1, <1>5
    <3> QED BY <3>2
  <2> QED BY <2>1, <2>2
<1> QED BY <1>1, <1>2, <1>3, <1>6, <1>7 DEF PartsOK

\* Journal::push keeps the journal sound and continues it.
LEMMA PushOK ==
  ASSUME NEW j, JournalOK(j), NEW d \in RawDiff
  PROVE  JournalOK(Push(j, d)) /\ Continues(j, Push(j, d))
<1> DEFINE k == Push(j, d)
           e == j.entries  b == j.base  c == j.cut  p == j.pushed
           full == Len(e) = CapacityUsed
<1>1. PartsOK(e, b, c, p)
  BY DEF JournalOK, PartsOK
<1>2. /\ k.entries = IF full THEN Append(Tail(e), d) ELSE Append(e, d)
      /\ k.base = IF full THEN b + 1 ELSE b
      /\ k.cut = IF full /\ Head(e).lsn > c THEN Head(e).lsn ELSE c
      /\ k.pushed = Append(p, d)
  BY DEF Push
<1>3. SUFFICES PartsOK(k.entries, k.base, k.cut, k.pushed) /\ Continues(j, k)
  BY DEF JournalOK, PartsOK
<1>4. Continues(j, k) <=> /\ Len(p) <= Len(k.pushed)
                          /\ \A i \in 1 .. Len(p) : k.pushed[i] = p[i]
                          /\ b <= k.base
  BY DEF Continues
<1> HIDE DEF k, e, b, c, p
<1>5. e \in Seq(RawDiff) /\ p \in Seq(RawDiff) /\ b \in Nat /\ c \in Nat /\ Len(e) <= CapacityUsed
  BY <1>1 DEF PartsOK
<1>6. Grown(p, d, k.pushed)
  BY <1>2, <1>5, AppendGrows
<1>7. CASE full
  <2>1. Len(e) >= 1
    BY <1>7, CapacityPositive
  <2>2. Head(e) = e[1] /\ e[1].lsn \in Nat
    <3>1. e[1] \in RawDiff
      BY <2>1, <1>5
    <3> QED BY <3>1, <2>1, <1>5 DEF RawDiff
  <2>3. k.base = b + 1 /\ k.cut = IF e[1].lsn > c THEN e[1].lsn ELSE c
    BY <1>2, <1>7, <2>2
  <2>4. k.cut \in Nat /\ k.cut >= c /\ k.cut >= e[1].lsn /\ (k.cut = c \/ k.cut = e[1].lsn)
    BY <2>2, <2>3, <1>5
  <2>5. /\ k.entries \in Seq(RawDiff)
        /\ Len(k.entries) = Len(e)
        /\ \A i \in 1 .. Len(e) - 1 : k.entries[i] = e[i + 1]
        /\ k.entries[Len(e)] = d
    BY <1>2, <1>5, <1>7, <2>1, ShiftProperties
  <2>6. PartsOK(k.entries, b + 1, k.cut, k.pushed)
    BY <1>1, <1>6, <1>7, <2>4, <2>5, PushFull, Zenon DEF full
  <2> QED BY <2>3, <2>6, <1>4, <1>5, <1>6 DEF Grown
<1>8. CASE ~full
  <2>1. k.entries = Append(e, d) /\ k.base = b /\ k.cut = c
    BY <1>2, <1>8
  <2>2. Grown(e, d, k.entries)
    BY <2>1, <1>5, AppendGrows
  <2>3. PartsOK(k.entries, b, c, k.pushed)
    BY <1>1, <1>6, <1>8, <2>2, PushRoom, Zenon DEF full
  <2> QED BY <2>1, <2>3, <1>4, <1>5, <1>6 DEF Grown
<1> QED BY <1>7, <1>8

-----------------------------------------------------------------------------
\* The invariant of the readers, and the whole one.
ReaderInv == CursorOK /\ NoGap /\ RefusalJustified

\* What the ingest task may do to the journal: put one that continues it in
\* its place, and leave the readers alone.
JournalMoves(k) ==
  /\ JournalOK(k)
  /\ Continues(Journal, k)
  /\ SetJournal(k)
  /\ UNCHANGED <<readerVars, failed>>

\* Whatever the ingest task pushes, the cursors stay gap-free.
LEMMA JournalStep ==
  ASSUME RuntimeInv, NEW k, JournalMoves(k)
  PROVE  JournalOK(Journal)' /\ ReaderInv'
<1>1. /\ entries' = k.entries /\ base_seq' = k.base /\ truncated_through' = k.cut
      /\ pushed' = k.pushed
  BY DEF JournalMoves, SetJournal
<1>2. JournalOK(Journal)'
  BY <1>1 DEF JournalMoves, JournalOK, Journal
<1>3. /\ Len(pushed) <= Len(pushed')
      /\ \A i \in 1 .. Len(pushed) : pushed'[i] = pushed[i]
      /\ base_seq <= base_seq'
  BY <1>1 DEF JournalMoves, Continues, Journal
<1>4. /\ pushed \in Seq(RawDiff) /\ Len(pushed) \in Nat
      /\ pushed' \in Seq(RawDiff) /\ Len(pushed') \in Nat
      /\ base_seq \in Nat /\ base_seq' \in Nat
      /\ base_seq <= Len(pushed)
  BY <1>2 DEF RuntimeInv, JournalOK, Journal
<1>5. /\ pc' = pc /\ tables' = tables /\ from_lsn' = from_lsn /\ next_seq' = next_seq
      /\ served' = served /\ failed' = failed
  BY DEF JournalMoves, readerVars
<1>6. Followers' = Followers
  BY <1>5 DEF Followers
<1>7. CursorOK'
  <2>1. \A c \in Followers : next_seq[c] \in Nat /\ next_seq[c] <= Len(pushed)
                              /\ served[c] \subseteq 0 .. Len(pushed) - 1
    BY DEF RuntimeInv, CursorOK, Followers, TypeOK
  <2>2. \A c \in Followers : next_seq[c] <= Len(pushed')
                              /\ served[c] \subseteq 0 .. Len(pushed') - 1
    BY <2>1, <1>3, <1>4
  <2> QED BY <2>2, <1>5, <1>6 DEF CursorOK, RuntimeInv
<1>8. NoGap'
  <2> SUFFICES ASSUME NEW c \in Followers, NEW q \in 0 .. Len(pushed') - 1
               PROVE  q \in served[c] <=> q < next_seq[c] /\ Relevant(c, pushed'[q + 1])
    BY <1>5, <1>6 DEF NoGap, Relevant
  <2>1. CASE q \in 0 .. Len(pushed) - 1
    <3>1. pushed'[q + 1] = pushed[q + 1]
      BY <2>1, <1>3, <1>4
    <3> QED BY <2>1, <3>1 DEF RuntimeInv, NoGap
  <2>2. CASE ~(q \in 0 .. Len(pushed) - 1)
    <3>1. q \notin served[c]
      BY <2>2 DEF RuntimeInv, CursorOK
    <3>2. ~(q < next_seq[c])
      <4>1. next_seq[c] \in Nat /\ next_seq[c] <= Len(pushed)
        BY DEF RuntimeInv, CursorOK, TypeOK, Followers
      <4> QED BY <4>1, <2>2, <1>4
    <3> QED BY <3>1, <3>2
  <2> QED BY <2>1, <2>2
<1>9. RefusalJustified'
  <2> SUFFICES ASSUME NEW c \in Readers, pc[c] = "refused", ~failed
               PROVE  \E q \in 1 .. base_seq' : pushed'[q].lsn > from_lsn[c]
    BY <1>5 DEF RefusalJustified
  <2>1. PICK q \in 1 .. base_seq : pushed[q].lsn > from_lsn[c]
    BY DEF RuntimeInv, RefusalJustified
  <2>2. q \in 1 .. base_seq' /\ pushed'[q] = pushed[q]
    BY <1>3, <1>4
  <2> QED BY <2>1, <2>2
<1> QED BY <1>2, <1>7, <1>8, <1>9 DEF ReaderInv

\* A step that touches neither the journal nor the readers keeps both.
LEMMA QuietStep ==
  ASSUME RuntimeInv, UNCHANGED <<journalVars, readerVars>>, failed => failed'
  PROVE  JournalOK(Journal)' /\ ReaderInv'
BY DEF RuntimeInv, ReaderInv, journalVars, readerVars, JournalOK, Journal, CursorOK,
       Followers, NoGap, Relevant, RefusalJustified

\* Pushing two diffs continues the journal as well.
LEMMA PushTwice ==
  ASSUME NEW j, JournalOK(j), NEW d \in RawDiff, NEW f \in RawDiff
  PROVE  JournalOK(Push(Push(j, d), f)) /\ Continues(j, Push(Push(j, d), f))
<1> DEFINE k == Push(j, d)
           m == Push(k, f)
<1>1. JournalOK(k) /\ Continues(j, k)
  BY PushOK
<1> HIDE DEF k
<1>2. JournalOK(m) /\ Continues(k, m)
  BY <1>1, PushOK
<1> HIDE DEF m
<1>3. Continues(j, m)
  <2>1. /\ j.pushed \in Seq(RawDiff) /\ k.pushed \in Seq(RawDiff) /\ m.pushed \in Seq(RawDiff)
        /\ j.base \in Nat /\ k.base \in Nat /\ m.base \in Nat
    BY <1>1, <1>2 DEF JournalOK
  <2> QED BY <2>1, <1>1, <1>2 DEF Continues
<1> QED BY <1>2, <1>3 DEF m, k

\* The diffs the ingest task pushes are well formed.
LEMMA DiffType ==
  ASSUME TypeOK, NEW t \in Tables, NEW r \in Row, NEW d \in {-1, 1}
  PROVE  Diff(t, r, ingest.lsn, d) \in RawDiff
<1>1. ingest.lsn \in Nat
  BY DEF TypeOK
<1> QED BY <1>1 DEF Diff, RawDiff

\* Adding, dropping and replacing a row keep the mirror a bag.
LEMMA MirrorType ==
  ASSUME TypeOK, NEW t \in Tables, NEW r \in Row, NEW s \in Row
  PROVE  /\ AddRow(t, r) \in Bags
         /\ DropRow(t, r) \in Bags
         /\ ReplaceRow(t, r, s) \in Bags
<1>1. mirror \in [Tables -> [Row -> Nat]]
  BY DEF TypeOK, Bags
<1>2. AddRow(t, r) \in Bags
  BY <1>1 DEF AddRow, Bags
<1>3. DropRow(t, r) \in Bags
  BY <1>1 DEF DropRow, Bags
<1>4. ReplaceRow(t, r, s) \in Bags
  <2> DEFINE without == IF Held(t, r) THEN [mirror[t] EXCEPT ![r] = @ - 1] ELSE mirror[t]
  <2>1. without \in [Row -> Nat]
    BY <1>1 DEF Held
  <2>2. [without EXCEPT ![s] = @ + 1] \in [Row -> Nat]
    BY <2>1
  <2>3. ReplaceRow(t, r, s) = [mirror EXCEPT ![t] = [without EXCEPT ![s] = @ + 1]]
    BY DEF ReplaceRow
  <2> HIDE DEF without
  <2> QED BY <1>1, <2>2, <2>3 DEF Bags
<1> QED BY <1>2, <1>3, <1>4

\* A change of a transaction keeps the invariant.
LEMMA ChangeStep ==
  ASSUME RuntimeInv, ApplyChange
  PROVE  mirror' \in Bags /\ (\E k : JournalMoves(k))
<1> USE DEF RuntimeInv
<1>1. PICK t \in Tables, new \in Tuple, old \in Row :
         ApplyInsert(t, new) \/ ApplyUpdate(t, old, new) \/ ApplyDelete(t, old)
  BY DEF ApplyChange
<1>2. TupleToRow(new, Null) \in Row /\ TupleToRow(old, Null) \in Row
  BY TupleToRowType, RowIsTuple
<1>3. TupleToRow(new, TupleToRow(old, Null)) \in Row
  BY TupleToRowType
<1>4. UNCHANGED <<readerVars, failed>>
  BY <1>1 DEF ApplyInsert, ApplyUpdate, ApplyDelete, NextChange
<1>5. CASE ApplyInsert(t, new)
  <2> DEFINE row == TupleToRow(new, Null)
             k == Push(Journal, Diff(t, row, ingest.lsn, 1))
  <2>1. mirror' = AddRow(t, row) /\ SetJournal(k)
    BY <1>5 DEF ApplyInsert
  <2>2. JournalOK(k) /\ Continues(Journal, k)
    BY <1>2, DiffType, PushOK
  <2> QED BY <2>1, <2>2, <1>2, <1>4, MirrorType DEF JournalMoves
<1>6. CASE ApplyUpdate(t, old, new)
  <2> DEFINE old_row == TupleToRow(old, Null)
             new_row == TupleToRow(new, old_row)
             k == Push(Push(Journal, Diff(t, old_row, ingest.lsn, -1)),
                       Diff(t, new_row, ingest.lsn, 1))
  <2>1. mirror' = ReplaceRow(t, old_row, new_row) /\ SetJournal(k)
    BY <1>6 DEF ApplyUpdate
  <2>2. JournalOK(k) /\ Continues(Journal, k)
    BY <1>2, <1>3, DiffType, PushTwice
  <2> QED BY <2>1, <2>2, <1>2, <1>3, <1>4, MirrorType DEF JournalMoves
<1>7. CASE ApplyDelete(t, old)
  <2> DEFINE row == TupleToRow(old, Null)
             k == Push(Journal, Diff(t, row, ingest.lsn, -1))
  <2>1. mirror' = DropRow(t, row) /\ SetJournal(k)
    BY <1>7 DEF ApplyDelete
  <2>2. JournalOK(k) /\ Continues(Journal, k)
    BY <1>2, DiffType, PushOK
  <2> QED BY <2>1, <2>2, <1>2, <1>4, MirrorType DEF JournalMoves
<1> QED BY <1>1, <1>5, <1>6, <1>7

\* A row of a truncate or of a reconcile keeps the invariant.
LEMMA DifferenceStep ==
  ASSUME RuntimeInv, PushDifference
  PROVE  mirror' \in Bags /\ (\E k : JournalMoves(k))
<1> USE DEF RuntimeInv
<1>1. PICK t \in Tables, r \in Row, d \in {-1, 1} :
         /\ mirror' = IF d = 1 THEN AddRow(t, r) ELSE DropRow(t, r)
         /\ SetJournal(Push(Journal, Diff(t, r, ingest.lsn, d)))
  <2>1. PICK t \in Tables, r \in Row :
          \/ /\ mirror' = DropRow(t, r)
             /\ SetJournal(Push(Journal, Diff(t, r, ingest.lsn, -1)))
          \/ /\ mirror' = AddRow(t, r)
             /\ SetJournal(Push(Journal, Diff(t, r, ingest.lsn, 1)))
    BY Zenon DEF PushDifference
  <2>2. -1 # 1
    OBVIOUS
  <2> QED BY Zenon, <2>1, <2>2
<1>2. UNCHANGED <<readerVars, failed>>
  BY DEF PushDifference
<1>3. Diff(t, r, ingest.lsn, d) \in RawDiff
  BY DiffType
<1> DEFINE k == Push(Journal, Diff(t, r, ingest.lsn, d))
<1>4. JournalOK(k) /\ Continues(Journal, k)
  BY <1>3, PushOK
<1> QED BY <1>1, <1>2, <1>4, MirrorType DEF JournalMoves

-----------------------------------------------------------------------------
\* The steps of the ingest task keep the invariant.
LEMMA IngestStep ==
  ASSUME RuntimeInv, Ingest
  PROVE  RuntimeInv'
<1>1. TypeOK
  BY DEF RuntimeInv
<1> DEFINE Quiet == UNCHANGED <<journalVars, readerVars>> /\ (failed => failed')
           Rest == /\ mirror' \in Bags
                   /\ clock' \in Nat
                   /\ reconciles' \in 0 .. MaxReconciles
                   /\ failed' \in BOOLEAN
                   /\ ingest' \in [at : {"idle", "changes", "retract", "store", "between"},
                                   lsn : Nat, count : Nat, more : BOOLEAN, goal : Bags]
                   /\ seed' = seed /\ split' \subseteq Nat
<1>2. Rest /\ (Quiet \/ \E k : JournalMoves(k))
  <2>0. NoRows \in Bags
    BY DEF NoRows, Bags
  <2>1. CASE BeginTransaction
    BY <2>1, <2>0, <1>1 DEF historyVars, BeginTransaction, TypeOK, Lsns
  <2>2. CASE ContinueTransaction
    BY <2>2, <1>1 DEF historyVars, ContinueTransaction, TypeOK
  <2>3. CASE ApplyChange
    <3>1. /\ ingest' = [ingest EXCEPT !.count = @ + 1]
          /\ UNCHANGED <<clock, reconciles, failed, seed, split>>
      BY <2>3 DEF historyVars, ApplyChange, ApplyInsert, ApplyUpdate, ApplyDelete, NextChange
    <3>2. mirror' \in Bags /\ \E k : JournalMoves(k)
      BY <2>3, ChangeStep
    <3>3. ingest' \in [at : {"idle", "changes", "retract", "store", "between"},
                       lsn : Nat, count : Nat, more : BOOLEAN, goal : Bags]
      <4>1. ingest.count + 1 \in Nat
        BY <1>1 DEF TypeOK
      <4> QED BY <4>1, <3>1, <1>1 DEF TypeOK
    <3>4. Rest
      BY <3>1, <3>2, <3>3, <1>1 DEF TypeOK
    <3> QED BY <3>2, <3>4
  <2>4. CASE EndTransaction
    BY <2>4, <1>1 DEF historyVars, EndTransaction, TypeOK
  <2>5. CASE BeginTruncate
    <3>1. PICK l \in Lsns, ts \in SUBSET Tables \ {{}}, more \in BOOLEAN :
            /\ ingest' = [at |-> "retract", lsn |-> l, count |-> 0, more |-> more,
                  goal |-> [t \in Tables |-> IF t \in ts THEN NoRows[t] ELSE mirror[t]]]
            /\ split' = IF more THEN split \cup {l} ELSE split
      BY <2>5 DEF BeginTruncate
    <3>2. [t \in Tables |-> IF t \in ts THEN NoRows[t] ELSE mirror[t]] \in Bags
      BY <2>0, <1>1 DEF Bags, TypeOK
    <3>3. l \in Nat /\ more \in BOOLEAN
      BY RuntimeAssumption DEF Lsns
    <3> QED BY <2>5, <3>1, <3>2, <3>3, <1>1 DEF BeginTruncate, TypeOK
  <2>6. CASE BeginReconcile
    BY <2>6, <1>1, RuntimeAssumption, SnapshotAssumption DEF historyVars, BeginReconcile, TypeOK, Lsns
  <2>7. CASE PushDifference
    <3>1. UNCHANGED <<clock, reconciles, failed, ingest, seed, split>>
      BY <2>7 DEF historyVars, PushDifference
    <3>2. mirror' \in Bags /\ \E k : JournalMoves(k)
      BY <2>7, DifferenceStep
    <3>3. Rest
      BY <3>1, <3>2, <1>1 DEF TypeOK
    <3> QED BY <3>2, <3>3
  <2>8. CASE EndDifference
    BY <2>8, <1>1 DEF historyVars, EndDifference, TypeOK
  <2>9. CASE StoreClock
    BY <2>9, <2>0, <1>1 DEF historyVars, StoreClock, TypeOK, Idle
  <2>10. CASE Fail
    BY <2>10, <1>1 DEF historyVars, Fail, TypeOK
  <2> QED BY <2>1, <2>2, <2>3, <2>4, <2>5, <2>6, <2>7, <2>8, <2>9, <2>10 DEF Ingest
<1>3. JournalOK(Journal)' /\ ReaderInv'
  <2>1. CASE Quiet
    BY <2>1, QuietStep
  <2>2. CASE \E k : JournalMoves(k)
    BY <2>2, JournalStep
  <2> QED BY <1>2, <2>1, <2>2
<1>4. UNCHANGED readerVars
  BY <1>2 DEF JournalMoves
<1> HIDE DEF Quiet
<1>5. TypeOK'
  <2>1. /\ entries' \in Seq(RawDiff) /\ Len(entries') <= CapacityUsed
        /\ pushed' \in Seq(RawDiff) /\ base_seq' \in Nat /\ truncated_through' \in Nat
    BY <1>3 DEF JournalOK, Journal
  <2> QED BY <1>1, <1>2, <1>4, <2>1 DEF TypeOK, readerVars
<1> QED BY <1>3, <1>5 DEF RuntimeInv, ReaderInv

-----------------------------------------------------------------------------
\* A cursor the journal has not overrun reads the history.
LEMMA EntryIsPushed ==
  ASSUME RuntimeInv, NEW c \in Readers, ~Overrun(c), NEW q \in next_seq[c] .. EndSeq - 1
  PROVE  /\ q \in 0 .. Len(pushed) - 1
         /\ EntryAt(q) = pushed[q + 1]
         /\ EntryAt(q) \in RawDiff
<1>1. /\ entries \in Seq(RawDiff) /\ pushed \in Seq(RawDiff) /\ base_seq \in Nat
      /\ next_seq[c] \in Nat
  BY DEF RuntimeInv, TypeOK
<1>2. /\ Len(pushed) = base_seq + Len(entries)
      /\ \A i \in 1 .. Len(entries) : entries[i] = pushed[base_seq + i]
  BY DEF RuntimeInv, JournalOK, Journal
<1>3. Len(entries) \in Nat /\ Len(pushed) \in Nat
  BY <1>1
<1>4. q >= base_seq /\ q < base_seq + Len(entries) /\ q \in Nat
  BY <1>1, <1>3 DEF Overrun, EndSeq
<1>5. q - base_seq + 1 \in 1 .. Len(entries)
  BY <1>1, <1>3, <1>4
<1>6. entries[q - base_seq + 1] = pushed[base_seq + (q - base_seq + 1)]
  BY <1>2, <1>5
<1>7. base_seq + (q - base_seq + 1) = q + 1
  BY <1>1, <1>4
<1>8. entries[q - base_seq + 1] \in RawDiff
  BY <1>1, <1>5
<1> QED BY <1>2, <1>3, <1>4, <1>6, <1>7, <1>8, <1>1 DEF EntryAt

\* The members of an interval of naturals are naturals.
LEMMA IntervalNat == \A a, b \in Nat : \A x \in a .. b : x \in Nat
  OBVIOUS

\* A cursor moves on: it yields the relevant diffs among those it moves past.
CursorMoves(c) ==
  /\ next_seq'[c] \in next_seq[c] .. Len(pushed)
  /\ served'[c] = served[c] \cup {q \in next_seq[c] .. next_seq'[c] - 1 : Relevant(c, pushed[q + 1])}
  /\ \A d \in Readers \ {c} : next_seq'[d] = next_seq[d] /\ served'[d] = served[d]

\* Each outcome of next_diff is such a move.
LEMMA NextDiffMoves ==
  ASSUME RuntimeInv, NEW c \in Followers,
         NextDiffParks(c) \/ NextDiffNone(c) \/ \E q \in Pending(c) : NextDiffYields(c, q)
  PROVE  /\ CursorMoves(c)
         /\ next_seq' \in [Readers -> Nat]
         /\ served' \in [Readers -> SUBSET Nat]
         /\ poisoned' \in [Readers -> BOOLEAN]
<1> c \in Readers
  BY DEF Followers
<1>1. /\ next_seq \in [Readers -> Nat] /\ served \in [Readers -> SUBSET Nat]
      /\ poisoned \in [Readers -> BOOLEAN]
  BY DEF RuntimeInv, TypeOK
<1>2. next_seq[c] \in Nat /\ Len(pushed) \in Nat /\ next_seq[c] <= Len(pushed)
  BY <1>1 DEF RuntimeInv, CursorOK, TypeOK
<1>3. EndSeq = Len(pushed)
  BY DEF RuntimeInv, JournalOK, Journal, EndSeq
<1>4. CASE NextDiffParks(c)
  BY <1>1, <1>2, <1>4 DEF NextDiffParks, CursorMoves
<1>5. CASE NextDiffNone(c)
  <2>1. /\ ~Overrun(c) /\ next_seq' = [next_seq EXCEPT ![c] = Len(pushed)]
        /\ UNCHANGED <<poisoned, served>>
    BY <1>3, <1>5 DEF NextDiffNone
  <2>2. \A q \in next_seq[c] .. Len(pushed) - 1 : ~Relevant(c, pushed[q + 1])
    BY <1>3, <1>5, <2>1, EntryIsPushed DEF NextDiffNone, Pending
  <2>3. next_seq'[c] = Len(pushed) /\ next_seq' \in [Readers -> Nat]
    BY <1>1, <1>2, <2>1
  <2>4. served'[c] = served[c] \cup {q \in next_seq[c] .. next_seq'[c] - 1 : Relevant(c, pushed[q + 1])}
    BY <2>1, <2>2, <2>3
  <2> QED BY <1>1, <1>2, <2>1, <2>3, <2>4 DEF CursorMoves
<1>6. CASE \E q \in Pending(c) : NextDiffYields(c, q)
  <2>1. PICK q \in Pending(c) : NextDiffYields(c, q)
    BY <1>6
  <2>2. /\ next_seq' = [next_seq EXCEPT ![c] = q + 1]
        /\ served' = [served EXCEPT ![c] = @ \cup {q}]
        /\ poisoned' = poisoned
        /\ \A p \in Pending(c) : q <= p
    BY <2>1 DEF NextDiffYields, IsFirst
  <2>3. /\ ~Overrun(c) /\ q \in next_seq[c] .. Len(pushed) - 1
        /\ Relevant(c, EntryAt(q))
    BY <1>3, <2>1 DEF Pending
  <2>4. \A p \in next_seq[c] .. Len(pushed) - 1 : EntryAt(p) = pushed[p + 1]
    BY <1>3, <2>3, EntryIsPushed
  <2>5. \A p \in next_seq[c] .. q - 1 : ~Relevant(c, pushed[p + 1])
    <3>1. TAKE p \in next_seq[c] .. q - 1
    <3>2. p \in next_seq[c] .. EndSeq - 1 /\ ~(q <= p)
      BY <1>2, <1>3, <2>3, <3>1
    <3> QED BY <1>3, <2>2, <2>3, <2>4, <3>2 DEF Pending
  <2>6. q \in Nat /\ next_seq'[c] = q + 1 /\ next_seq' \in [Readers -> Nat]
    BY <1>1, <1>2, <2>2, <2>3
  <2>7. served'[c] = served[c] \cup {p \in next_seq[c] .. next_seq'[c] - 1 : Relevant(c, pushed[p + 1])}
    <3>1. Relevant(c, pushed[q + 1])
      BY <2>3, <2>4
    <3>2. {p \in next_seq[c] .. q : Relevant(c, pushed[p + 1])} = {q}
      BY <1>2, <2>3, <2>5, <2>6, <3>1
    <3>3. served'[c] = served[c] \cup {q}
      BY <1>1, <2>2
    <3>4. next_seq'[c] - 1 = q
      BY <2>6
    <3> QED BY <3>2, <3>3, <3>4
  <2>8. served' \in [Readers -> SUBSET Nat]
    BY <1>1, <2>2, <2>6
  <2>9. next_seq'[c] \in next_seq[c] .. Len(pushed)
    BY <1>2, <2>3, <2>6
  <2> QED BY <1>1, <2>2, <2>6, <2>7, <2>8, <2>9 DEF CursorMoves
<1> QED BY <1>4, <1>5, <1>6

\* A cursor that moves, of a reader that keeps following, keeps the invariant.
LEMMA MoveStep ==
  ASSUME RuntimeInv, NEW c \in Followers, CursorMoves(c), served' \in [Readers -> SUBSET Nat],
         pc' \in [Readers -> {"new", "rows", "snapshot", "refused", "follow", "peek", "take"}],
         pc'[c] \in {"follow", "peek", "take"},
         \A d \in Readers \ {c} : pc'[d] = pc[d],
         UNCHANGED <<journalVars, failed, tables, from_lsn>>
  PROVE  ReaderInv'
<1> c \in Readers
  BY DEF Followers
<1>1. Followers' = Followers
  BY DEF Followers
<1>2. /\ pushed' = pushed /\ Len(pushed) \in Nat
      /\ base_seq' = base_seq
  BY DEF journalVars, RuntimeInv, TypeOK
<1>3. \A d \in Readers : \A e : Relevant(d, e)' <=> Relevant(d, e)
  BY DEF Relevant
<1>4. next_seq \in [Readers -> Nat] /\ next_seq'[c] \in Nat
  <2>1. next_seq \in [Readers -> Nat]
    BY DEF RuntimeInv, TypeOK
  <2>2. next_seq[c] \in Nat
    BY <2>1
  <2>3. next_seq'[c] \in next_seq[c] .. Len(pushed)
    BY Zenon DEF CursorMoves
  <2>4. next_seq'[c] \in Nat
    BY Zenon, <1>2, <2>2, <2>3, IntervalNat
  <2> QED BY <2>1, <2>4
<1>5. CursorOK'
  <2>1. ASSUME NEW d \in Followers
        PROVE  next_seq'[d] <= Len(pushed) /\ served'[d] \subseteq 0 .. Len(pushed) - 1
    <3>1. next_seq[d] <= Len(pushed) /\ served[d] \subseteq 0 .. Len(pushed) - 1
      BY DEF RuntimeInv, CursorOK
    <3>2. CASE d = c
      BY <1>2, <1>4, <3>1, <3>2 DEF CursorMoves
    <3>3. CASE d # c
      BY <3>1, <3>3 DEF CursorMoves, Followers
    <3> QED BY <3>2, <3>3
  <2>2. \A d \in Readers : pc'[d] \in {"new", "rows", "snapshot"} => served'[d] = {}
    BY DEF RuntimeInv, CursorOK, CursorMoves
  <2> QED BY <1>1, <1>2, <2>1, <2>2 DEF CursorOK
<1>6. NoGap'
  <2>1. SUFFICES ASSUME NEW d \in Followers, NEW q \in 0 .. Len(pushed) - 1
                 PROVE  q \in served'[d] <=> q < next_seq'[d] /\ Relevant(d, pushed[q + 1])
    BY <1>1, <1>2, <1>3 DEF NoGap, Followers
  <2>2. q \in served[d] <=> q < next_seq[d] /\ Relevant(d, pushed[q + 1])
    BY DEF RuntimeInv, NoGap
  <2>3. CASE d = c
    BY <1>2, <1>4, <2>2, <2>3 DEF CursorMoves
  <2>4. CASE d # c
    BY <2>2, <2>4 DEF CursorMoves, Followers
  <2> QED BY <2>3, <2>4
<1>7. RefusalJustified'
  BY <1>2 DEF RefusalJustified, RuntimeInv
<1> QED BY <1>5, <1>6, <1>7 DEF ReaderInv

\* A reader's steps before it follows the journal keep the invariant.
LEMMA OpeningStep ==
  ASSUME RuntimeInv, NEW c \in Readers, FetchRows(c) \/ FetchClock(c) \/ OpenCursor(c)
  PROVE  TypeOK' /\ ReaderInv'
<1>1. TypeOK /\ CursorOK /\ NoGap /\ RefusalJustified
  BY DEF RuntimeInv
<1>2. TypeOK'
  <2>1. CASE FetchRows(c)
    BY <1>1, <2>1 DEF historyVars, FetchRows, TypeOK, journalVars
  <2>2. CASE FetchClock(c)
    BY <1>1, <2>2 DEF historyVars, FetchClock, TypeOK, journalVars
  <2>3. CASE OpenCursor(c)
    <3>1. /\ base_seq \in Nat /\ next_seq \in [Readers -> Nat]
          /\ pc \in [Readers -> {"new", "rows", "snapshot", "refused", "follow", "peek", "take"}]
      BY <1>1 DEF TypeOK
    <3>2. next_seq' \in [Readers -> Nat]
      BY <2>3, <3>1 DEF OpenCursor
    <3>3. pc' \in [Readers -> {"new", "rows", "snapshot", "refused", "follow", "peek", "take"}]
      BY <2>3, <3>1 DEF OpenCursor
    <3> QED BY <1>1, <2>3, <3>2, <3>3 DEF historyVars, OpenCursor, TypeOK, journalVars
  <2> QED BY <2>1, <2>2, <2>3
<1>3. pc \in [Readers -> {"new", "rows", "snapshot", "refused", "follow", "peek", "take"}]
      /\ tables \in [Readers -> SUBSET Tables] /\ from_lsn \in [Readers -> Nat]
      /\ next_seq \in [Readers -> Nat]
  BY <1>1 DEF TypeOK
<1>4. CASE FetchRows(c) \/ FetchClock(c)
  <2>1. /\ pc[c] \in {"new", "rows"}
        /\ pc'[c] \in {"rows", "snapshot"}
        /\ \A d \in Readers \ {c} : pc'[d] = pc[d] /\ tables'[d] = tables[d] /\ from_lsn'[d] = from_lsn[d]
        /\ UNCHANGED <<journalVars, failed, next_seq, served>>
    BY <1>3, <1>4 DEF FetchRows, FetchClock
  <2>2. Followers' = Followers /\ c \notin Followers
    BY <2>1 DEF Followers
  <2>3. \A d \in Followers : \A e : Relevant(d, e)' <=> Relevant(d, e)
    BY <2>1, <2>2 DEF Relevant, Followers
  <2>4. CursorOK'
    BY <1>1, <2>1, <2>2 DEF CursorOK, journalVars
  <2>5. NoGap'
    BY <1>1, <2>1, <2>2, <2>3 DEF NoGap, journalVars
  <2>6. RefusalJustified'
    BY <1>1, <2>1 DEF RefusalJustified, journalVars
  <2> QED BY <1>2, <2>4, <2>5, <2>6 DEF ReaderInv
<1>5. CASE OpenCursor(c)
  <2>1. /\ pc[c] = "snapshot"
        /\ pc'[c] \in {"refused", "follow"}
        /\ \A d \in Readers \ {c} : pc'[d] = pc[d] /\ next_seq'[d] = next_seq[d]
        /\ UNCHANGED <<journalVars, failed, served, tables, from_lsn>>
    BY <1>3, <1>5 DEF OpenCursor
  <2>2. served[c] = {}
    BY <1>1, <2>1 DEF CursorOK
  <2>3. \A d \in Readers : \A e : Relevant(d, e)' <=> Relevant(d, e)
    BY <2>1 DEF Relevant
  <2>4. /\ pushed \in Seq(RawDiff) /\ base_seq \in Nat /\ truncated_through \in Nat
        /\ Len(entries) \in Nat
        /\ Len(pushed) = base_seq + Len(entries)
        /\ \A i \in 1 .. base_seq : pushed[i].lsn <= truncated_through
        /\ truncated_through > 0 => \E i \in 1 .. base_seq : pushed[i].lsn = truncated_through
    <3>1. JournalOK(Journal) /\ entries \in Seq(RawDiff)
      BY Zenon DEF RuntimeInv, TypeOK
    <3>2. /\ Journal.entries = entries /\ Journal.pushed = pushed
          /\ Journal.base = base_seq /\ Journal.cut = truncated_through
      BY Zenon DEF Journal
    <3>3. Len(entries) \in Nat
      BY <3>1, LenProperties
    <3> QED BY Zenon, <3>1, <3>2, <3>3 DEF JournalOK
  <2>5. CASE failed \/ truncated_through > from_lsn[c]
    <3>1. pc'[c] = "refused" /\ next_seq' = next_seq
      BY <1>3, <1>5, <2>5 DEF OpenCursor
    <3>2. Followers' = Followers
      BY <2>1, <3>1 DEF Followers
    <3>3. CursorOK' /\ NoGap'
      BY <1>1, <2>1, <2>3, <3>1, <3>2 DEF CursorOK, NoGap, journalVars, Followers
    <3>4. RefusalJustified'
      <4>1. ASSUME ~failed
            PROVE  \E i \in 1 .. base_seq : pushed[i].lsn > from_lsn[c]
        <5>1. truncated_through > from_lsn[c]
          BY <2>5, <4>1
        <5>2. from_lsn[c] \in Nat /\ truncated_through \in Nat
          BY <1>3, <2>4
        <5>3. truncated_through > 0
          BY <5>1, <5>2
        <5>4. PICK i \in 1 .. base_seq : pushed[i].lsn = truncated_through
          BY <2>4, <5>3
        <5> QED BY <5>1, <5>4
      <4> QED BY <1>1, <2>1, <4>1 DEF RefusalJustified, journalVars
    <3> QED BY <1>2, <3>3, <3>4 DEF ReaderInv
  <2>6. CASE ~(failed \/ truncated_through > from_lsn[c])
    <3>1. pc'[c] = "follow" /\ next_seq'[c] = base_seq
      BY <1>3, <1>5, <2>6 DEF OpenCursor
    <3>2. Followers' = Followers \cup {c}
      BY <2>1, <3>1 DEF Followers
    <3>3. CursorOK'
      <4>1. base_seq <= Len(pushed) /\ {} \subseteq 0 .. Len(pushed) - 1
        BY <2>4
      <4>2. UNCHANGED <<pushed, served>>
        BY <2>1 DEF journalVars
      <4>3. next_seq'[c] <= Len(pushed)' /\ served'[c] \subseteq 0 .. Len(pushed') - 1
        BY <4>1, <4>2, <2>2, <3>1
      <4>4. ASSUME NEW d \in Followers \ {c}
            PROVE  next_seq'[d] <= Len(pushed)' /\ served'[d] \subseteq 0 .. Len(pushed') - 1
        <5>1. d \in Readers \ {c} /\ next_seq'[d] = next_seq[d]
          BY <2>1 DEF Followers
        <5> QED BY <1>1, <5>1, <4>2 DEF CursorOK
      <4>5. \A d \in Readers : pc'[d] \in {"new", "rows", "snapshot"} => served'[d] = {}
        BY <1>1, <2>1, <2>2 DEF CursorOK
      <4> QED BY <4>3, <4>4, <4>5, <3>2 DEF CursorOK
    <3>4. \A q \in 0 .. Len(pushed) - 1 : q < base_seq => ~Relevant(c, pushed[q + 1])
      <4>1. TAKE q \in 0 .. Len(pushed) - 1
      <4>2. HAVE q < base_seq
      <4>3. q + 1 \in 1 .. base_seq /\ q + 1 \in 1 .. Len(pushed)
        BY <2>4, <4>2
      <4>4. pushed[q + 1].lsn <= truncated_through
        BY <2>4, <4>3
      <4>5. pushed[q + 1].lsn \in Nat
        <5>1. pushed[q + 1] \in RawDiff
          BY <2>4, <4>3
        <5> QED BY <5>1 DEF RawDiff
      <4>6. from_lsn[c] \in Nat /\ truncated_through <= from_lsn[c]
        <5>1. from_lsn[c] \in Nat
          BY Zenon, <1>3
        <5>2. truncated_through \in Nat /\ ~(truncated_through > from_lsn[c])
          BY Zenon, <2>4, <2>6
        <5> QED BY <5>1, <5>2
      <4>7. ~(pushed[q + 1].lsn > from_lsn[c])
        <5>1. truncated_through \in Nat
          BY Zenon, <2>4
        <5> QED BY <4>4, <4>5, <4>6, <5>1
      <4> QED BY Zenon, <4>7 DEF Relevant
    <3>5. NoGap'
      BY <1>1, <2>1, <2>2, <2>3, <3>1, <3>2, <3>4 DEF NoGap, journalVars, Followers
    <3>6. RefusalJustified'
      BY <1>1, <2>1, <3>1 DEF RefusalJustified, journalVars
    <3> QED BY <1>2, <3>3, <3>5, <3>6 DEF ReaderInv
  <2> QED BY <2>5, <2>6
<1> QED BY <1>4, <1>5

\* The steps of next_batch keep the invariant.
LEMMA FollowStep ==
  ASSUME RuntimeInv, NEW c \in Readers, BatchFirst(c) \/ BatchPeek(c) \/ BatchTake(c)
  PROVE  TypeOK' /\ ReaderInv'
<1> DEFINE Moved == NextDiffParks(c) \/ NextDiffNone(c) \/ \E q \in Pending(c) : NextDiffYields(c, q)
           States == {"new", "rows", "snapshot", "refused", "follow", "peek", "take"}
<1>1. /\ pc \in [Readers -> States] /\ batch \in [Readers -> Seq(RawDiff)]
      /\ batches \in [Readers -> Seq(Seq(RawDiff))]
  BY DEF RuntimeInv, TypeOK
<1>2. c \in Followers
  BY DEF BatchFirst, BatchPeek, BatchTake, Followers
<1>3. /\ UNCHANGED <<mirror, journalVars, clock, reconciles, failed, ingest, snap, tables,
                     from_lsn, seed, split>>
  BY DEF historyVars, BatchFirst, BatchPeek, BatchTake, ReadJournal
<1>4. \A q \in Pending(c) : EntryAt(q) \in RawDiff
  BY EntryIsPushed DEF Pending
<1>5. /\ CursorMoves(c)
      /\ next_seq' \in [Readers -> Nat]
      /\ served' \in [Readers -> SUBSET Nat]
      /\ poisoned' \in [Readers -> BOOLEAN]
  <2>1. CASE Moved
    BY <1>2, <2>1, NextDiffMoves
  <2>2. CASE UNCHANGED <<next_seq, poisoned, served>>
    <3>1. /\ next_seq \in [Readers -> Nat] /\ served \in [Readers -> SUBSET Nat]
          /\ poisoned \in [Readers -> BOOLEAN] /\ Len(pushed) \in Nat
          /\ next_seq[c] <= Len(pushed)
      BY <1>2 DEF RuntimeInv, TypeOK, CursorOK
    <3>2. next_seq[c] .. next_seq[c] - 1 = {}
      BY <3>1
    <3> QED BY <2>2, <3>1, <3>2 DEF CursorMoves
  <2> QED BY <2>1, <2>2 DEF BatchFirst, BatchPeek, BatchTake
<1>6. /\ pc' \in [Readers -> States] /\ pc'[c] \in {"follow", "peek", "take"}
      /\ \A d \in Readers \ {c} : pc'[d] = pc[d]
  BY <1>1 DEF BatchFirst, BatchPeek, BatchTake, Deliver
<1>7. batch' \in [Readers -> Seq(RawDiff)] /\ batches' \in [Readers -> Seq(Seq(RawDiff))]
  <2>0. batch[c] \in Seq(RawDiff) /\ batches[c] \in Seq(Seq(RawDiff))
    BY <1>1
  <2>1. CASE Deliver(c)
    <3>1. Append(batches[c], batch[c]) \in Seq(Seq(RawDiff)) /\ <<>> \in Seq(RawDiff)
      BY <2>0, EmptySeq
    <3> QED BY <1>1, <2>1, <3>1 DEF Deliver
  <2>2. CASE UNCHANGED <<batch, batches>>
    BY <1>1, <2>2
  <2>3. ASSUME NEW q \in Pending(c), batch' = [batch EXCEPT ![c] = <<EntryAt(q)>>], UNCHANGED batches
        PROVE  batch' \in [Readers -> Seq(RawDiff)] /\ batches' \in [Readers -> Seq(Seq(RawDiff))]
    <3>1. <<EntryAt(q)>> \in Seq(RawDiff)
      BY <1>4
    <3> QED BY <1>1, <2>3, <3>1
  <2>4. ASSUME NEW q \in Pending(c), batch' = [batch EXCEPT ![c] = Append(@, EntryAt(q))], UNCHANGED batches
        PROVE  batch' \in [Readers -> Seq(RawDiff)] /\ batches' \in [Readers -> Seq(Seq(RawDiff))]
    <3>1. Append(batch[c], EntryAt(q)) \in Seq(RawDiff)
      BY <1>4, <2>0
    <3> QED BY <1>1, <2>4, <3>1
  <2> QED BY <2>1, <2>2, <2>3, <2>4 DEF BatchFirst, BatchPeek, BatchTake
<1>8. TypeOK'
  BY <1>3, <1>5, <1>6, <1>7 DEF RuntimeInv, TypeOK, journalVars
<1>9. ReaderInv'
  BY <1>2, <1>3, <1>5, <1>6, MoveStep
<1> QED BY <1>8, <1>9

\* Every step of a reader keeps the invariant.
LEMMA ReaderStep ==
  ASSUME RuntimeInv, NEW c \in Readers, Reader(c)
  PROVE  RuntimeInv'
<1>1. TypeOK' /\ ReaderInv'
  BY OpeningStep, FollowStep DEF Reader
<1>2. UNCHANGED journalVars
  BY DEF Reader, FetchRows, FetchClock, OpenCursor, BatchFirst, BatchPeek, BatchTake, ReadJournal
<1>3. JournalOK(Journal)'
  BY <1>2 DEF RuntimeInv, JournalOK, Journal, journalVars
<1> QED BY <1>1, <1>3 DEF RuntimeInv, ReaderInv

\* The initial state, of an empty journal and readers that have not started.
LEMMA InitInv == Init => RuntimeInv
<1> SUFFICES ASSUME Init PROVE RuntimeInv
  OBVIOUS
<1>0. NoRows \in Bags
  BY DEF NoRows, Bags
<1>1. /\ entries = <<>> /\ pushed = <<>> /\ Len(entries) = 0 /\ Len(pushed) = 0
      /\ entries \in Seq(RawDiff) /\ pushed \in Seq(RawDiff)
  BY EmptySeq DEF Init
<1>2. TypeOK
  <2>1. <<>> \in Seq(RawDiff) /\ <<>> \in Seq(Seq(RawDiff))
    BY EmptySeq
  <2>2. batch \in [Readers -> Seq(RawDiff)] /\ batches \in [Readers -> Seq(Seq(RawDiff))]
    BY <2>1 DEF Init
  <2>3. mirror \in Bags /\ seed \in Bags /\ split \subseteq Nat /\ Len(entries) <= CapacityUsed
    BY <1>1, CapacityPositive, SnapshotAssumption DEF Init
  <2>4. /\ base_seq \in Nat /\ truncated_through \in Nat /\ clock \in Nat
        /\ reconciles \in 0 .. MaxReconciles /\ failed \in BOOLEAN
    <3>1. failed \in BOOLEAN
      BY DEF Init
    <3>2. 0 \in 0 .. MaxReconciles /\ 0 \in Nat
      BY RuntimeAssumption
    <3> QED BY <3>1, <3>2 DEF Init
  <2>5. ingest \in [at : {"idle", "changes", "retract", "store", "between"}, lsn : Nat,
                   count : Nat, more : BOOLEAN, goal : Bags]
    BY <1>0 DEF Init
  <2>6. /\ pc \in [Readers -> {"new", "rows", "snapshot", "refused", "follow", "peek", "take"}]
        /\ snap \in [Readers -> Bags] /\ tables \in [Readers -> SUBSET Tables]
        /\ from_lsn \in [Readers -> Nat] /\ next_seq \in [Readers -> Nat]
        /\ poisoned \in [Readers -> BOOLEAN] /\ served \in [Readers -> SUBSET Nat]
    BY <1>0 DEF Init
  <2> QED BY <1>1, <2>2, <2>3, <2>4, <2>5, <2>6 DEF TypeOK
<1>3. JournalOK(Journal)
  <2>1. base_seq = 0 /\ truncated_through = 0
    BY DEF Init
  <2>2. /\ Journal.entries = entries /\ Journal.pushed = pushed
        /\ Journal.base = 0 /\ Journal.cut = 0
    BY <2>1 DEF Journal
  <2>3. Len(entries) <= CapacityUsed
    BY <1>1, CapacityPositive
  <2>4. 1 .. 0 = {} /\ 0 \in Nat /\ ~(0 > 0) /\ 0 = 0 + 0
    OBVIOUS
  <2> QED BY <1>1, <2>2, <2>3, <2>4 DEF JournalOK
<1>4. Followers = {}
  BY DEF Followers, Init
<1> QED BY <1>1, <1>2, <1>3, <1>4 DEF RuntimeInv, CursorOK, NoGap, RefusalJustified, Init

\* A stuttering step changes nothing.
LEMMA StutterStep ==
  ASSUME RuntimeInv, UNCHANGED vars
  PROVE  RuntimeInv'
<1>1. TypeOK'
  BY DEF historyVars, RuntimeInv, TypeOK, vars, journalVars, readerVars
<1>2. JournalOK(Journal)' /\ ReaderInv'
  BY QuietStep DEF vars
<1> QED BY <1>1, <1>2 DEF RuntimeInv, ReaderInv

-----------------------------------------------------------------------------
\* The inductive invariant holds in every reachable state.
THEOREM RuntimeInvariant == Spec => []RuntimeInv
<1>1. Init => RuntimeInv
  BY InitInv
<1>2. RuntimeInv /\ [Next]_vars => RuntimeInv'
  BY IngestStep, ReaderStep, StutterStep DEF Next
<1> QED BY <1>1, <1>2, PTL DEF Spec

\* Every variable keeps its type and the journal stays within its capacity, for
\* every journal_capacity, 0 included (Journal::new takes at least 1).
THEOREM TypeCorrect == Spec => []TypeOK
<1>1. RuntimeInv => TypeOK
  BY DEF RuntimeInv
<1> QED BY <1>1, RuntimeInvariant, PTL

\* JournalCursor::next_diff never serves a gap: what a cursor has yielded is
\* exactly the relevant part of the history it has moved past.
THEOREM NeverServesAGap == Spec => []NoGap
<1>1. RuntimeInv => NoGap
  BY DEF RuntimeInv
<1> QED BY <1>1, RuntimeInvariant, PTL

\* open_cursor refuses only a reader for whom a diff above its LSN is gone.
THEOREM RefusesOnlyForLoss == Spec => []RefusalJustified
<1>1. RuntimeInv => RefusalJustified
  BY DEF RuntimeInv
<1> QED BY <1>1, RuntimeInvariant, PTL
=============================================================================
