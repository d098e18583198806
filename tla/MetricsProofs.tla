--------------------------- MODULE MetricsProofs ---------------------------
(***************************************************************************)
(* Proofs about the metrics.  The sequence guard (MetricsSequence), for    *)
(* any counters, updates, threads and bound; and the samplers              *)
(* (MetricsSampler), for every bound: each variable keeps its type, the    *)
(* sampler's two fields belong together, and no send and no monotonic time *)
(* is reported twice.                                                      *)
(***************************************************************************)
EXTENDS MetricsSequence, MetricsSampler, TLAPS

\* Adding one flips the parity of the sequence.
LEMMA ParityFlips == \A n \in Nat : IsOdd(n + 1) <=> ~IsOdd(n)
  BY DEF IsOdd

\* Zero and the updates are functions from counters to naturals.
LEMMA UpdatesTyped ==
  /\ Zero \in [Counters -> Nat]
  /\ \A u \in Updates \cup {Zero} : u \in [Counters -> Nat]
  BY CountersAssumption DEF Zero

\* Type correctness: every step of a recorder or of a snapshot keeps the
\* sequence, the counters and the threads' locals in their types.
THEOREM TypeCorrect == Spec => []TypeOK
<1>1. Init => TypeOK
  BY UpdatesTyped DEF Init, TypeOK
<1>2. TypeOK /\ [Next]_vars => TypeOK'
  <2> SUFFICES ASSUME TypeOK, [Next]_vars PROVE TypeOK'
    OBVIOUS
  <2> USE UpdatesTyped
  <2>1. ASSUME NEW w \in Writers, NEW u \in Updates, BeginUpdate(w, u)
        PROVE  TypeOK'
    BY <2>1 DEF TypeOK, BeginUpdate, seqVars, readerVars
  <2>2. ASSUME NEW w \in Writers, Spin(w) PROVE TypeOK'
    BY <2>2 DEF TypeOK, Spin, seqVars, readerVars
  <2>3. ASSUME NEW w \in Writers, Lock(w) PROVE TypeOK'
    BY <2>3 DEF TypeOK, Lock, TakeGuard, SeenAfterOddStore, Touched, readerVars
  <2>4. ASSUME NEW w \in Writers, LockFails(w) PROVE TypeOK'
    BY <2>4 DEF TypeOK, LockFails, seqVars, readerVars
  <2>5. ASSUME NEW w \in Writers, NEW c \in Counters, Add(w, c) PROVE TypeOK'
    <3>1. update[w] \in [Counters -> Nat]
      BY DEF TypeOK
    <3>2. counter' \in [Counters -> Nat]
      BY <2>5, <3>1 DEF TypeOK, Add
    <3> QED
      BY <2>5, <3>2 DEF TypeOK, Add, seqVars, readerVars
  <2>6. ASSUME NEW w \in Writers, Drop(w) PROVE TypeOK'
    <3>1. update[w] \in [Counters -> Nat]
      BY DEF TypeOK
    <3>2. committed' \in [Counters -> Nat]
      BY <2>6, <3>1 DEF TypeOK, Drop, ReleaseGuard, Plus
    <3> QED
      BY <2>6, <3>2 DEF TypeOK, Drop, ReleaseGuard, ForgetUpdate, readerVars
  <2>7. ASSUME NEW r \in Readers, BeginSnapshot(r) PROVE TypeOK'
    BY <2>7 DEF TypeOK, BeginSnapshot, seqVars, writerVars
  <2>8. ASSUME NEW r \in Readers, LoadBefore(r) PROVE TypeOK'
    BY <2>8 DEF TypeOK, LoadBefore, seqVars, writerVars
  <2>9. ASSUME NEW r \in Readers, NEW c \in Counters, LoadCounter(r, c)
        PROVE  TypeOK'
    BY <2>9 DEF TypeOK, LoadCounter, seqVars, writerVars
  <2>10. ASSUME NEW r \in Readers, Validate(r) PROVE TypeOK'
    <3>1. CASE before[r] = visible
      <4>1. copy[r] \in [Counters -> Nat]
        BY DEF TypeOK
      <4>2. Return(r)
        BY <2>10, <3>1 DEF Validate
      <4> QED
        BY <4>1, <4>2 DEF TypeOK, Return, ForgetRead, seqVars, writerVars
    <3>2. CASE before[r] # visible
      <4>1. Retry(r)
        BY <2>10, <3>2 DEF Validate
      <4> QED
        BY <4>1 DEF TypeOK, Retry, ForgetRead, seqVars, writerVars
    <3> QED
      BY <3>1, <3>2
  <2>11. CASE UNCHANGED vars
    BY <2>11 DEF TypeOK, vars, seqVars, writerVars, readerVars
  <2> QED
    BY <2>1, <2>2, <2>3, <2>4, <2>5, <2>6, <2>7, <2>8, <2>9, <2>10, <2>11
    DEF Next, WriterStep, ReaderStep
<1> QED
  BY <1>1, <1>2, PTL DEF Spec

----------------------------------------------------------------------------
(* The guard itself: this part needs nothing of the target's ordering. *)

\* The inductive invariant of the writers.
WriterInv == GuardExclusive /\ NoLostUpdate /\ VisibleInv /\ UpdateKnown

\* What every step that is not a writer's leaves alone.
LEMMA WriterInvUnchanged ==
  ASSUME TypeOK, WriterInv, UNCHANGED <<seqVars, counter, writerVars, committed>>
  PROVE  WriterInv'
  BY DEF WriterInv, GuardExclusive, NoLostUpdate, VisibleInv, UpdateKnown,
         seqVars, writerVars

\* Taking the guard: it was free, since the sequence was even.
LEMMA LockKeepsWriterInv ==
  ASSUME TypeOK, WriterInv, NEW w \in Writers, Lock(w)
  PROVE  WriterInv'
<1> USE DEF Lock, TakeGuard
<1>1. /\ ~IsOdd(value) /\ IsOdd(value')
      /\ value \in Nat /\ value' = value + 1
  BY ParityFlips DEF TypeOK
<1>2. \A v \in Writers : writer[v] # "locked"
  BY <1>1 DEF WriterInv, GuardExclusive
<1>3. \A v \in Writers : writer'[v] = "locked" <=> v = w
  BY <1>2 DEF TypeOK
<1>4. GuardExclusive'
  BY <1>1, <1>3 DEF GuardExclusive
<1>5. /\ counter' = counter /\ committed' = committed
      /\ \A c \in Counters : counter[c] = committed[c]
  BY <1>1 DEF WriterInv, NoLostUpdate
<1>6. \A c \in Counters : update'[w][c] \in Nat /\ (c \notin pending'[w] => update'[w][c] = 0)
  <2>1. update[w] \in [Counters -> Nat]
    BY UpdatesTyped DEF TypeOK
  <2> QED
    BY <2>1 DEF TypeOK, Touched
<1>7. NoLostUpdate'
  <2> SUFFICES ASSUME NEW c \in Counters, NEW v \in Writers, writer'[v] = "locked"
               PROVE  counter'[c] = committed'[c]
                        + (IF c \in pending'[v] THEN 0 ELSE update'[v][c])
    BY <1>1 DEF NoLostUpdate
  <2>1. v = w
    BY <1>3
  <2>2. committed[c] \in Nat
    BY DEF TypeOK
  <2> QED
    BY <1>5, <1>6, <2>1, <2>2
<1>8. VisibleInv'
  BY <1>1 DEF WriterInv, VisibleInv, SeenAfterOddStore, TypeOK
<1>9. UpdateKnown'
  BY DEF WriterInv, UpdateKnown, TypeOK
<1> QED
  BY <1>4, <1>7, <1>8, <1>9 DEF WriterInv

\* One fetch_add: the counter is ahead by what the holder has added to it.
LEMMA AddKeepsWriterInv ==
  ASSUME TypeOK, WriterInv, NEW w \in Writers, NEW a \in Counters, Add(w, a)
  PROVE  WriterInv'
<1> USE DEF Add, seqVars
<1>1. IsOdd(value)
  BY DEF WriterInv, GuardExclusive
<1>2. \A v \in Writers : writer[v] = "locked" => v = w
  BY DEF WriterInv, GuardExclusive
<1>3. update[w] \in [Counters -> Nat]
  BY UpdatesTyped DEF TypeOK
<1>4. NoLostUpdate'
  <2> SUFFICES ASSUME NEW c \in Counters
               PROVE  counter'[c] = committed[c]
                        + (IF c \in pending'[w] THEN 0 ELSE update[w][c])
    BY <1>1, <1>2 DEF NoLostUpdate
  <2>1. counter[c] = committed[c] + (IF c \in pending[w] THEN 0 ELSE update[w][c])
    BY DEF WriterInv, NoLostUpdate
  <2>2. counter[c] \in Nat /\ committed[c] \in Nat /\ update[w][c] \in Nat
    BY <1>3 DEF TypeOK
  <2>3. CASE c = a
    BY <2>1, <2>2, <2>3 DEF TypeOK
  <2>4. CASE c # a
    BY <2>1, <2>2, <2>4 DEF TypeOK
  <2> QED
    BY <2>3, <2>4
<1>5. GuardExclusive' /\ VisibleInv' /\ UpdateKnown'
  BY DEF WriterInv, GuardExclusive, VisibleInv, UpdateKnown
<1> QED
  BY <1>4, <1>5 DEF WriterInv

\* Dropping the guard: the whole update has been added.
LEMMA DropKeepsWriterInv ==
  ASSUME TypeOK, WriterInv, NEW w \in Writers, Drop(w)
  PROVE  WriterInv'
<1> USE DEF Drop, ReleaseGuard, ForgetUpdate
<1>1. IsOdd(value) /\ ~IsOdd(value') /\ value' = value + 1 /\ value \in Nat
  BY ParityFlips DEF WriterInv, GuardExclusive, TypeOK
<1>2. \A v \in Writers : writer'[v] # "locked"
  BY DEF WriterInv, GuardExclusive, TypeOK
<1>3. GuardExclusive'
  BY <1>1, <1>2 DEF GuardExclusive
<1>4. \A c \in Counters : counter[c] = committed[c] + update[w][c]
  BY DEF WriterInv, NoLostUpdate
<1>5. NoLostUpdate'
  BY <1>1, <1>2, <1>4 DEF NoLostUpdate, Plus
<1>6. VisibleInv'
  BY <1>1 DEF VisibleInv
<1>7. UpdateKnown'
  BY DEF WriterInv, UpdateKnown, TypeOK
<1> QED
  BY <1>3, <1>5, <1>6, <1>7 DEF WriterInv

\* Every step of every thread keeps the writers' invariant.
LEMMA WriterInvariant == Spec => []WriterInv
<1>1. Init => WriterInv
  BY DEF Init, WriterInv, GuardExclusive, NoLostUpdate, VisibleInv, UpdateKnown,
         Zero, IsOdd
<1>2. TypeOK /\ WriterInv /\ [Next]_vars => WriterInv'
  <2> SUFFICES ASSUME TypeOK, WriterInv, [Next]_vars PROVE WriterInv'
    OBVIOUS
  <2>1. ASSUME NEW w \in Writers, NEW u \in Updates, BeginUpdate(w, u)
        PROVE  WriterInv'
    BY <2>1 DEF BeginUpdate, TypeOK, WriterInv, GuardExclusive, NoLostUpdate,
                VisibleInv, UpdateKnown, seqVars
  <2>2. ASSUME NEW w \in Writers, Spin(w) \/ LockFails(w) PROVE WriterInv'
    BY <2>2 DEF Spin, LockFails, WriterInv, GuardExclusive, NoLostUpdate,
                VisibleInv, UpdateKnown, seqVars
  <2>3. ASSUME NEW w \in Writers, Lock(w) PROVE WriterInv'
    BY <2>3, LockKeepsWriterInv
  <2>4. ASSUME NEW w \in Writers, NEW c \in Counters, Add(w, c) PROVE WriterInv'
    BY <2>4, AddKeepsWriterInv
  <2>5. ASSUME NEW w \in Writers, Drop(w) PROVE WriterInv'
    BY <2>5, DropKeepsWriterInv
  <2>6. ASSUME NEW r \in Readers, ReaderStep(r) \/ BeginSnapshot(r) PROVE WriterInv'
    <3>1. UNCHANGED <<seqVars, counter, writerVars, committed>>
      BY <2>6 DEF ReaderStep, BeginSnapshot, LoadBefore, LoadCounter, Validate,
                  Return, Retry
    <3> QED
      BY <3>1, WriterInvUnchanged
  <2>7. CASE UNCHANGED vars
    BY <2>7, WriterInvUnchanged DEF vars
  <2> QED
    BY <2>1, <2>2, <2>3, <2>4, <2>5, <2>6, <2>7 DEF Next, WriterStep
<1> QED
  BY <1>1, <1>2, TypeCorrect, PTL DEF Spec

\* Writers exclude each other and no recorded send is lost, on every target:
\* the exchange is atomic even where its store is not ordered.
THEOREM GuardCorrect == Spec => [](GuardExclusive /\ NoLostUpdate)
<1>1. WriterInv => GuardExclusive /\ NoLostUpdate
  BY DEF WriterInv
<1> QED
  BY <1>1, WriterInvariant, PTL

----------------------------------------------------------------------------
(* Readers *)

\* Steps that change neither the sequence nor the counters nor the readers.
LEMMA CopiesUnchanged ==
  ASSUME CopiesCurrent, value' = value, counter' = counter, UNCHANGED readerVars
  PROVE  CopiesCurrent'
  BY DEF CopiesCurrent, readerVars

\* What a reader copied stays current until the sequence moves on: a counter
\* is only written under the guard, and taking the guard moves it.
THEOREM CopiesStayCurrent == Spec => []CopiesCurrent
<1>1. Init => CopiesCurrent
  BY DEF Init, CopiesCurrent
<1>2. TypeOK /\ WriterInv /\ CopiesCurrent /\ [Next]_vars => CopiesCurrent'
  <2> SUFFICES ASSUME TypeOK, WriterInv, CopiesCurrent, [Next]_vars
               PROVE  CopiesCurrent'
    OBVIOUS
  <2>1. ASSUME NEW w \in Writers, NEW u \in Updates, BeginUpdate(w, u)
        PROVE  CopiesCurrent'
    BY <2>1, CopiesUnchanged DEF BeginUpdate, seqVars
  <2>2. ASSUME NEW w \in Writers, Spin(w) \/ LockFails(w) PROVE CopiesCurrent'
    BY <2>2, CopiesUnchanged DEF Spin, LockFails, seqVars
  <2>3. ASSUME NEW w \in Writers, Lock(w) \/ Drop(w) PROVE CopiesCurrent'
    <3>1. value \in Nat /\ value' = value + 1 /\ UNCHANGED readerVars
      BY <2>3 DEF Lock, TakeGuard, Drop, ReleaseGuard, TypeOK
    <3>2. \A r \in Readers : before[r] \in Nat
      BY DEF TypeOK
    <3> QED
      BY <3>1, <3>2 DEF CopiesCurrent, readerVars
  <2>4. ASSUME NEW w \in Writers, NEW c \in Counters, Add(w, c)
        PROVE  CopiesCurrent'
    <3>1. IsOdd(value)
      BY <2>4 DEF Add, WriterInv, GuardExclusive
    <3> QED
      BY <2>4, <3>1 DEF Add, CopiesCurrent, seqVars, readerVars
  <2>5. ASSUME NEW r \in Readers, BeginSnapshot(r) PROVE CopiesCurrent'
    BY <2>5 DEF BeginSnapshot, CopiesCurrent, TypeOK, seqVars
  <2>6. ASSUME NEW r \in Readers, LoadBefore(r) PROVE CopiesCurrent'
    BY <2>6 DEF LoadBefore, CopiesCurrent, TypeOK, WriterInv, VisibleInv, seqVars
  <2>7. ASSUME NEW r \in Readers, NEW c \in Counters, LoadCounter(r, c)
        PROVE  CopiesCurrent'
    <3> SUFFICES ASSUME NEW q \in Readers, reader'[q] \in {"load", "validate"}
                 PROVE  /\ ~IsOdd(before'[q])
                        /\ before'[q] <= value'
                        /\ reader'[q] = "validate" => unread'[q] = {}
                        /\ before'[q] = value' =>
                             \A k \in Counters \ unread'[q] : copy'[q][k] = counter'[k]
      BY DEF CopiesCurrent
    <3>1. reader[q] \in {"load", "validate"}
      BY <2>7 DEF LoadCounter, TypeOK
    <3>2. CASE q = r
      BY <2>7, <3>1, <3>2 DEF LoadCounter, CopiesCurrent, TypeOK, seqVars
    <3>3. CASE q # r
      BY <2>7, <3>1, <3>3 DEF LoadCounter, CopiesCurrent, TypeOK, seqVars
    <3> QED
      BY <3>2, <3>3
  <2>8. ASSUME NEW r \in Readers, Validate(r) PROVE CopiesCurrent'
    <3>1. /\ UNCHANGED <<seqVars, counter>>
          /\ reader'[r] \in {"idle", "begin"}
          /\ \A q \in Readers \ {r} :
               /\ reader'[q] = reader[q] /\ before'[q] = before[q]
               /\ unread'[q] = unread[q] /\ copy'[q] = copy[q]
      BY <2>8 DEF Validate, Return, Retry, ForgetRead, TypeOK
    <3> QED
      BY <3>1 DEF CopiesCurrent, seqVars
  <2>9. CASE UNCHANGED vars
    BY <2>9, CopiesUnchanged DEF vars, seqVars
  <2> QED
    BY <2>1, <2>2, <2>3, <2>4, <2>5, <2>6, <2>7, <2>8, <2>9
    DEF Next, WriterStep, ReaderStep
<1> QED
  BY <1>1, <1>2, TypeCorrect, WriterInvariant, PTL DEF Spec

----------------------------------------------------------------------------
(* Snapshots, where the target orders the odd store *)

\* The snapshot that passes validation is the sum of the recorded updates.
LEMMA ValidatedIsCommitted ==
  ASSUME OddStoreOrdered, TypeOK, WriterInv, CopiesCurrent,
         NEW r \in Readers, reader[r] = "validate", before[r] = visible
  PROVE  copy[r] = committed
<1>1. before[r] = value
  BY DEF WriterInv, VisibleInv
<1>2. ~IsOdd(value) /\ \A c \in Counters : copy[r][c] = counter[c]
  BY <1>1 DEF CopiesCurrent
<1>3. \A c \in Counters : copy[r][c] = committed[c]
  BY <1>2 DEF WriterInv, NoLostUpdate
<1>4. copy[r] \in [Counters -> Nat] /\ committed \in [Counters -> Nat]
  BY DEF TypeOK
<1> QED
  BY <1>3, <1>4

\* Steps other than a reader's last one return nothing.
LEMMA OnlyValidateReturns ==
  ASSUME TypeOK, [Next]_vars, NEW r \in Readers, result'[r] # result[r]
  PROVE  /\ reader[r] = "validate" /\ before[r] = visible
         /\ result' = [result EXCEPT ![r] = copy[r]]
         /\ UNCHANGED committed
<1> USE DEF TypeOK
<1>1. ASSUME NEW w \in Writers, WriterStep(w) \/ \E u \in Updates : BeginUpdate(w, u)
      PROVE  UNCHANGED result
  BY <1>1 DEF WriterStep, BeginUpdate, Spin, Lock, TakeGuard, LockFails, Add, Drop,
              ReleaseGuard, readerVars
<1>2. ASSUME NEW q \in Readers,
             \/ BeginSnapshot(q) \/ LoadBefore(q)
             \/ \E c \in Counters : LoadCounter(q, c)
      PROVE  UNCHANGED result
  BY <1>2 DEF BeginSnapshot, LoadBefore, LoadCounter
<1>3. ASSUME UNCHANGED vars PROVE UNCHANGED result
  BY <1>3 DEF vars, readerVars
<1>4. PICK q \in Readers : Validate(q)
  BY <1>1, <1>2, <1>3 DEF Next, ReaderStep
<1>5. before[q] = visible /\ Return(q)
  BY <1>4 DEF Validate, Retry
<1>6. q = r
  BY <1>5 DEF Return
<1> QED
  BY <1>4, <1>5, <1>6 DEF Validate, Return

\* The promise of docs/metrics.md: where the odd store is ordered, a snapshot
\* is the sum of whole updates at the moment it is returned.
THEOREM OrderedSnapshotsCoherent == OddStoreOrdered => (Spec => SnapshotCoherent)
<1> SUFFICES ASSUME OddStoreOrdered PROVE Spec => SnapshotCoherent
  OBVIOUS
<1>1. TypeOK /\ WriterInv /\ CopiesCurrent /\ [Next]_vars
        => [\A r \in Readers : result'[r] # result[r] => result'[r] = committed]_vars
  <2> SUFFICES ASSUME TypeOK, WriterInv, CopiesCurrent, [Next]_vars,
                      NEW r \in Readers, result'[r] # result[r]
               PROVE  result'[r] = committed
    OBVIOUS
  <2>1. result'[r] = copy[r]
    BY OnlyValidateReturns DEF TypeOK
  <2> QED
    BY <2>1, OnlyValidateReturns, ValidatedIsCommitted
<1> QED
  BY <1>1, TypeCorrect, WriterInvariant, CopiesStayCurrent, PTL
  DEF Spec, SnapshotCoherent

\* The recorded sum never shrinks.
LEMMA CommittedGrows ==
  ASSUME TypeOK, [Next]_vars, NEW c \in Counters
  PROVE  committed[c] <= committed'[c]
<1>1. ASSUME NEW w \in Writers, Drop(w) PROVE committed[c] <= committed'[c]
  <2>1. update[w] \in [Counters -> Nat]
    BY UpdatesTyped DEF TypeOK
  <2> QED
    BY <1>1, <2>1 DEF Drop, ReleaseGuard, Plus, TypeOK
<1>2. ASSUME ~ \E w \in Writers : Drop(w) PROVE UNCHANGED committed
  BY <1>2 DEF Next, WriterStep, ReaderStep, BeginUpdate, Spin, Lock, TakeGuard,
              LockFails, Add, BeginSnapshot, LoadBefore, LoadCounter, Validate,
              Return, Retry, vars
<1> QED
  BY <1>1, <1>2 DEF TypeOK

\* A sampler's successive snapshots never go backwards, so its deltas are
\* never refused by checked_sub.
THEOREM OrderedSnapshotsMonotone == OddStoreOrdered => (Spec => SnapshotsMonotone)
<1> SUFFICES ASSUME OddStoreOrdered PROVE Spec => SnapshotsMonotone
  OBVIOUS
<1>1. Init => ResultsPast
  <2> SUFFICES ASSUME Init, NEW r \in Readers, NEW c \in Counters
               PROVE  result[r][c] <= committed[c]
    BY DEF ResultsPast
  <2>1. result[r] = Zero /\ committed = Zero
    BY DEF Init
  <2>2. Zero[c] = 0
    BY DEF Zero
  <2> QED
    BY <2>1, <2>2
<1>2. TypeOK /\ TypeOK' /\ WriterInv /\ CopiesCurrent /\ ResultsPast /\ [Next]_vars
        => ResultsPast'
  <2> SUFFICES ASSUME TypeOK, TypeOK', WriterInv, CopiesCurrent, ResultsPast,
                      [Next]_vars, NEW r \in Readers, NEW c \in Counters
               PROVE  result'[r][c] <= committed'[c]
    BY DEF ResultsPast
  <2>1. result'[r][c] <= committed[c]
    <3>1. CASE result'[r] = result[r]
      BY <3>1 DEF ResultsPast
    <3>2. CASE result'[r] # result[r]
      <4>1. result'[r] = committed
        BY <3>2, OnlyValidateReturns, ValidatedIsCommitted DEF TypeOK
      <4> QED
        BY <4>1 DEF TypeOK
    <3> QED
      BY <3>1, <3>2
  <2>2. result'[r][c] \in Nat /\ committed[c] \in Nat /\ committed'[c] \in Nat
    BY DEF TypeOK
  <2> QED
    BY <2>1, <2>2, CommittedGrows
<1>3. TypeOK /\ WriterInv /\ CopiesCurrent /\ ResultsPast /\ [Next]_vars
        => [\A r \in Readers, c \in Counters : result[r][c] <= result'[r][c]]_vars
  <2> SUFFICES ASSUME TypeOK, WriterInv, CopiesCurrent, ResultsPast, [Next]_vars,
                      NEW r \in Readers, NEW c \in Counters
               PROVE  result[r][c] <= result'[r][c]
    OBVIOUS
  <2>1. CASE result'[r] = result[r]
    BY <2>1 DEF TypeOK
  <2>2. CASE result'[r] # result[r]
    <3>1. result'[r] = committed
      BY <2>2, OnlyValidateReturns, ValidatedIsCommitted DEF TypeOK
    <3> QED
      BY <3>1 DEF ResultsPast
  <2> QED
    BY <2>1, <2>2
<1> QED
  BY <1>1, <1>2, <1>3, TypeCorrect, WriterInvariant, CopiesStayCurrent, PTL
  DEF Spec, SnapshotsMonotone

\* The guarded counters implement the atomic ones: an update takes effect when
\* its guard is dropped, a snapshot when it passes validation.
THEOREM OrderedImplementsAtomic == OddStoreOrdered => (Spec => ImplementsAtomic)
<1> SUFFICES ASSUME OddStoreOrdered PROVE Spec => ImplementsAtomic
  OBVIOUS
<1>1. Init => Atomic!Init
  BY DEF Init, Atomic!Init, Zero, Atomic!Zero
<1>2. TypeOK /\ WriterInv /\ CopiesCurrent /\ [Next]_vars => [Atomic!Next]_(Atomic!vars)
  <2> SUFFICES ASSUME TypeOK, WriterInv, CopiesCurrent, [Next]_vars
               PROVE  [Atomic!Next]_(Atomic!vars)
    OBVIOUS
  <2>1. ASSUME NEW w \in Writers, Drop(w) PROVE Atomic!Next
    <3>1. update[w] \in Updates
      BY <2>1 DEF Drop, WriterInv, UpdateKnown
    <3>2. Atomic!Record(update[w])
      BY <2>1 DEF Drop, ReleaseGuard, Plus, Atomic!Record, Atomic!Plus, readerVars
    <3> QED
      BY <3>1, <3>2 DEF Atomic!Next
  <2>2. ASSUME NEW r \in Readers, Validate(r), before[r] = visible PROVE Atomic!Next
    <3>1. copy[r] = committed
      BY <2>2, ValidatedIsCommitted DEF Validate
    <3>2. Atomic!Snapshot(r)
      BY <2>2, <3>1 DEF Validate, Return, Atomic!Snapshot
    <3> QED
      BY <3>2 DEF Atomic!Next
  <2>3. ASSUME ~ \E w \in Writers : Drop(w),
               ~ \E r \in Readers : Validate(r) /\ before[r] = visible
        PROVE  UNCHANGED <<committed, result>>
    BY <2>3 DEF Next, WriterStep, ReaderStep, BeginUpdate, Spin, Lock, TakeGuard,
                LockFails, Add, BeginSnapshot, LoadBefore, LoadCounter, Validate,
                Retry, vars, readerVars
  <2> QED
    BY <2>1, <2>2, <2>3 DEF Atomic!vars
<1> QED
  BY <1>1, <1>2, TypeCorrect, WriterInvariant, CopiesStayCurrent, PTL
  DEF Spec, ImplementsAtomic, Atomic!Spec

----------------------------------------------------------------------------
(* The samplers *)

(***************************************************************************)
(* A call of the sampler is given a snapshot s and an instant `at`, and    *)
(* Account and the two baselines are all it changes; the lemmas about one  *)
(* call are stated once, for both kinds of call.                           *)
(***************************************************************************)

\* What the baselines are, as long as snapshots come in the order they were
\* taken: the newest snapshot handed in and the instant it came with.
BaselineIsNewest ==
  in_order =>
    /\ previous # None => previous.count = newest.count
    /\ previous_sampled_at # None => previous_sampled_at = newest.at

\* A snapshot under way, or held, is not from the future.
NotFromTheFuture ==
  /\ sampling # None => sampling.taken <= now
  /\ held # None => held.taken <= now

\* All of it, with the properties themselves.
SamplerInv ==
  /\ SamplerTypeOK
  /\ BaselineMatches /\ NotFromTheFuture
  /\ BaselineIsNewest /\ ReportedOnce /\ TimeCoveredOnce

\* delta_since_duration returns None or the difference of the counters.
LEMMA DeltaIsDifference ==
  ASSUME NEW s \in Snapshots, NEW earlier \in Snapshots, NEW duration \in Nat,
         NEW d, d = delta_since_duration(s, earlier, duration), d # None
  PROVE  /\ s.count >= earlier.count
         /\ d \in Deltas
         /\ d.interval = duration /\ d.count = s.count - earlier.count
  BY SamplerBounds DEF delta_since_duration, Snapshots, Deltas

\* A call by the wall clock keeps types and accounts.
LEMMA CallByWallClock ==
  ASSUME SamplerInv, NEW s \in Snapshots, s.taken <= now, sample_snapshot(s)
  PROVE  /\ delta' \in Deltas \cup {None} /\ in_order' \in BOOLEAN
         /\ reported' \in [count : Nat, time : Nat]
         /\ newest' \in [count : 0 .. MaxSends, at : 0 .. MaxTime]
         /\ BaselineIsNewest' /\ ReportedOnce' /\ TimeCoveredOnce'
<1> DEFINE d == IF previous = None THEN None ELSE delta_since(s, previous)
<1>1. /\ Account(s, s.taken, d, FALSE)
      /\ previous' = s /\ previous_sampled_at' = None
  BY DEF sample_snapshot
<1>2. s.count \in 0 .. MaxSends /\ s.taken \in 0 .. MaxTime
  BY DEF Snapshots
<1>3. ASSUME d # None
      PROVE  previous # None /\ d \in Deltas /\ d.count = s.count - previous.count
  <2>1. previous \in Snapshots /\ previous # None
    BY <1>3 DEF SamplerInv, SamplerTypeOK
  <2>2. /\ s.captured_at >= previous.captured_at
        /\ d = delta_since_duration(s, previous, s.captured_at - previous.captured_at)
    BY <1>3, <2>1, SamplerBounds DEF delta_since, Snapshots
  <2>3. s.captured_at - previous.captured_at \in Nat
    BY <2>1, <2>2, SamplerBounds DEF Snapshots
  <2>4. QED
    BY <1>3, <2>1, <2>2, <2>3, SamplerBounds, DeltaIsDifference
<1>4. delta' = d /\ delta' \in Deltas \cup {None}
  BY <1>1, <1>3 DEF Account
<1>5. in_order' \in BOOLEAN
  BY <1>1 DEF Account
<1>6. newest' = IF in_order' THEN [count |-> s.count, at |-> s.taken] ELSE newest
  BY <1>1 DEF Account
<1>7. newest' \in [count : 0 .. MaxSends, at : 0 .. MaxTime]
  BY <1>2, <1>6 DEF SamplerInv, SamplerTypeOK
<1>8. reported' = IF in_order' /\ d # None
                  THEN [count |-> reported.count + d.count, time |-> reported.time + 0]
                  ELSE reported
  BY <1>1 DEF Account
<1>9. reported' \in [count : Nat, time : Nat]
  BY <1>3, <1>8 DEF SamplerInv, SamplerTypeOK, Deltas
<1>10. in_order' => in_order /\ s.count >= newest.count /\ s.taken >= newest.at
  BY <1>1 DEF Account
<1>11. BaselineIsNewest'
  BY <1>1, <1>6 DEF BaselineIsNewest
<1>12. ReportedOnce' /\ TimeCoveredOnce'
  <2> SUFFICES ASSUME in_order'
               PROVE  reported'.count <= newest'.count /\ reported'.time <= newest'.at
    BY DEF ReportedOnce, TimeCoveredOnce
  <2>1. /\ in_order /\ s.count >= newest.count /\ s.taken >= newest.at
        /\ newest'.count = s.count /\ newest'.at = s.taken
    BY <1>6, <1>10
  <2>2. /\ reported.count <= newest.count /\ reported.time <= newest.at
        /\ reported.count \in Nat /\ reported.time \in Nat
        /\ newest.count \in Nat /\ newest.at \in Nat
    BY <2>1, SamplerBounds DEF SamplerInv, SamplerTypeOK, ReportedOnce, TimeCoveredOnce
  <2>3. CASE d = None
    BY <1>2, <1>8, <2>1, <2>2, <2>3, SamplerBounds
  <2>4. CASE d # None
    <3>1. d.count = s.count - newest.count
      BY <1>3, <2>1, <2>4 DEF SamplerInv, BaselineIsNewest
    <3>2. reported'.count = reported.count + d.count /\ reported'.time = reported.time
      BY <1>8, <2>2, <2>4
    <3>3. QED
      BY <1>2, <2>1, <2>2, <3>1, <3>2, SamplerBounds
  <2>5. QED
    BY <2>3, <2>4
<1>13. QED
  BY <1>4, <1>5, <1>7, <1>9, <1>11, <1>12

\* So does a call by the monotonic clock, whose interval counts.
LEMMA CallByInstant ==
  ASSUME SamplerInv, NEW s \in Snapshots, NEW at \in 0 .. MaxTime, s.taken <= at,
         sample_snapshot_at(s, at)
  PROVE  /\ delta' \in Deltas \cup {None} /\ in_order' \in BOOLEAN
         /\ reported' \in [count : Nat, time : Nat]
         /\ newest' \in [count : 0 .. MaxSends, at : 0 .. MaxTime]
         /\ BaselineIsNewest' /\ ReportedOnce' /\ TimeCoveredOnce'
<1> DEFINE d == DeltaAt(s, at)
<1>1. /\ Account(s, at, d, TRUE)
      /\ previous' = s /\ previous_sampled_at' = at
  BY DEF sample_snapshot_at
<1>2. s.count \in 0 .. MaxSends
  BY DEF Snapshots
<1>3. ASSUME d # None
      PROVE  /\ previous # None /\ previous_sampled_at # None /\ d \in Deltas
             /\ previous_sampled_at \in Nat /\ at >= previous_sampled_at
             /\ d.count = s.count - previous.count
             /\ d.interval = at - previous_sampled_at
  <2>1. /\ previous # None /\ previous_sampled_at # None
        /\ previous \in Snapshots /\ previous_sampled_at \in 0 .. MaxTime
    BY <1>3 DEF DeltaAt, SamplerInv, SamplerTypeOK
  <2>2. /\ at >= previous_sampled_at
        /\ d = delta_since_duration(s, previous, at - previous_sampled_at)
    BY <1>3, <2>1, SamplerBounds DEF DeltaAt
  <2>3. at - previous_sampled_at \in Nat
    BY <2>1, <2>2, SamplerBounds
  <2>4. QED
    BY <1>3, <2>1, <2>2, <2>3, SamplerBounds, DeltaIsDifference
<1>4. delta' = d /\ delta' \in Deltas \cup {None}
  BY <1>1, <1>3 DEF Account
<1>5. in_order' \in BOOLEAN
  BY <1>1 DEF Account
<1>6. newest' = IF in_order' THEN [count |-> s.count, at |-> at] ELSE newest
  BY <1>1 DEF Account
<1>7. newest' \in [count : 0 .. MaxSends, at : 0 .. MaxTime]
  BY <1>2, <1>6 DEF SamplerInv, SamplerTypeOK
<1>8. reported' = IF in_order' /\ d # None
                  THEN [count |-> reported.count + d.count,
                        time |-> reported.time + d.interval]
                  ELSE reported
  BY <1>1 DEF Account
<1>9. reported' \in [count : Nat, time : Nat]
  BY <1>3, <1>8 DEF SamplerInv, SamplerTypeOK, Deltas
<1>10. in_order' => in_order /\ s.count >= newest.count /\ at >= newest.at
  BY <1>1 DEF Account
<1>11. BaselineIsNewest'
  BY <1>1, <1>6 DEF BaselineIsNewest
<1>12. ReportedOnce' /\ TimeCoveredOnce'
  <2> SUFFICES ASSUME in_order'
               PROVE  reported'.count <= newest'.count /\ reported'.time <= newest'.at
    BY DEF ReportedOnce, TimeCoveredOnce
  <2>1. /\ in_order /\ s.count >= newest.count /\ at >= newest.at
        /\ newest'.count = s.count /\ newest'.at = at
    BY <1>6, <1>10
  <2>2. /\ reported.count <= newest.count /\ reported.time <= newest.at
        /\ reported.count \in Nat /\ reported.time \in Nat
        /\ newest.count \in Nat /\ newest.at \in Nat
    BY <2>1, SamplerBounds DEF SamplerInv, SamplerTypeOK, ReportedOnce, TimeCoveredOnce
  <2>3. CASE d = None
    BY <1>2, <1>8, <2>1, <2>2, <2>3, SamplerBounds
  <2>4. CASE d # None
    <3>1. d.count = s.count - newest.count /\ d.interval = at - newest.at
      BY <1>3, <2>1, <2>4 DEF SamplerInv, BaselineIsNewest
    <3>2. /\ reported'.count = reported.count + d.count
          /\ reported'.time = reported.time + d.interval
      BY <1>8, <2>4
    <3>3. QED
      BY <1>2, <2>1, <2>2, <3>1, <3>2, SamplerBounds
  <2>5. QED
    BY <2>3, <2>4
<1>13. QED
  BY <1>4, <1>5, <1>7, <1>9, <1>11, <1>12

\* A new sampler has reported nothing.
LEMMA SamplerInitially ==
  ASSUME SamplerInit
  PROVE  SamplerInv
  BY SamplerBounds DEF SamplerInit, SamplerInv, SamplerTypeOK, BaselineMatches,
     NotFromTheFuture,
     BaselineIsNewest, ReportedOnce, TimeCoveredOnce

\* Sends, clocks, the caller and the sampler's calls keep the invariant.
LEMMA SamplerNextKeeps ==
  ASSUME SamplerInv, [SamplerNext]_samplerVars
  PROVE  SamplerInv'
<1> USE SamplerBounds
<1>1. snapshot \in Snapshots /\ snapshot.taken = now
  BY DEF snapshot, Snapshots, SamplerInv, SamplerTypeOK
<1>2. CASE Send
  BY <1>2 DEF Send, SamplerInv, SamplerTypeOK, BaselineMatches,
     NotFromTheFuture, BaselineIsNewest,
     ReportedOnce, TimeCoveredOnce, sampler, history
<1>3. CASE Tick
  <2>1. SamplerTypeOK'
    BY <1>3 DEF Tick, SamplerInv, SamplerTypeOK, sampler, history
  <2>2. NotFromTheFuture'
    BY <1>3 DEF Tick, SamplerInv, SamplerTypeOK, NotFromTheFuture,
       Snapshots
  <2>3. QED
    BY <1>3, <2>1, <2>2 DEF Tick, SamplerInv, BaselineMatches,
       BaselineIsNewest, ReportedOnce,
       TimeCoveredOnce, sampler, history
<1>4. CASE Capture
  BY <1>1, <1>4 DEF Capture, SamplerInv, SamplerTypeOK, BaselineMatches,
     NotFromTheFuture,
     BaselineIsNewest, ReportedOnce, TimeCoveredOnce, clocks,
     sampler, history
<1>5. ASSUME NEW w \in 0 .. MaxTime, AdjustWall(w) PROVE SamplerInv'
  BY <1>5 DEF AdjustWall, SamplerInv, SamplerTypeOK, BaselineMatches,
     NotFromTheFuture,
     BaselineIsNewest, ReportedOnce, TimeCoveredOnce, sampler,
     history
<1>6. CASE SampleBegin
  BY <1>1, <1>6 DEF SampleBegin, SamplerInv, SamplerTypeOK,
     BaselineMatches, NotFromTheFuture,
     BaselineIsNewest, ReportedOnce, TimeCoveredOnce, clocks,
     sampler, history
<1>7. CASE SampleEnd
  <2>1. /\ sampling # None /\ sampling \in Snapshots
        /\ sampling.taken <= now /\ now \in 0 .. MaxTime
    BY <1>7 DEF SampleEnd, SamplerInv, SamplerTypeOK, NotFromTheFuture
  <2>2. sample_snapshot_at(sampling, now)
    BY <1>7 DEF SampleEnd
  <2>3. /\ previous' = sampling /\ previous_sampled_at' = now /\ sampling' = None
        /\ UNCHANGED <<count, now, wall, held>>
    BY <1>7, <2>2 DEF SampleEnd, sample_snapshot_at, clocks
  <2>4. /\ delta' \in Deltas \cup {None} /\ in_order' \in BOOLEAN
        /\ reported' \in [count : Nat, time : Nat]
        /\ newest' \in [count : 0 .. MaxSends, at : 0 .. MaxTime]
        /\ BaselineIsNewest' /\ ReportedOnce' /\ TimeCoveredOnce'
    BY <2>1, <2>2, CallByInstant
  <2>5. SamplerTypeOK'
    BY <2>1, <2>3, <2>4 DEF SamplerInv, SamplerTypeOK
  <2>6. BaselineMatches' /\ NotFromTheFuture'
    BY <2>1, <2>3 DEF SamplerInv, BaselineMatches, NotFromTheFuture,
       Snapshots
  <2>7. QED
    BY <2>4, <2>5, <2>6 DEF SamplerInv
<1>8. CASE HandIn
  <2>1. /\ held # None /\ held \in Snapshots
        /\ held.taken <= now /\ held.taken \in 0 .. MaxTime
    BY <1>8 DEF HandIn, SamplerInv, SamplerTypeOK, NotFromTheFuture,
       Snapshots
  <2>2. sampling' = None /\ sampling = None
    BY <1>8 DEF HandIn
  <2>3. CASE sample_snapshot(held)
    <3>1. /\ previous' = held /\ previous_sampled_at' = None
          /\ UNCHANGED <<count, now, wall, held>>
      BY <2>3 DEF sample_snapshot, clocks
    <3>2. /\ delta' \in Deltas \cup {None} /\ in_order' \in BOOLEAN
          /\ reported' \in [count : Nat, time : Nat]
          /\ newest' \in [count : 0 .. MaxSends, at : 0 .. MaxTime]
          /\ BaselineIsNewest' /\ ReportedOnce' /\ TimeCoveredOnce'
      BY <2>1, <2>3, CallByWallClock
    <3>3. SamplerTypeOK'
      BY <2>1, <2>2, <3>1, <3>2 DEF SamplerInv, SamplerTypeOK
    <3>4. QED
      BY <2>2, <3>1, <3>2, <3>3 DEF SamplerInv, BaselineMatches, NotFromTheFuture
  <2>4. ASSUME NEW at \in held.taken .. now, sample_snapshot_at(held, at) PROVE SamplerInv'
    <3>1. at \in 0 .. MaxTime /\ held.taken <= at
      BY <2>1, <2>4 DEF SamplerInv, SamplerTypeOK
    <3>2. /\ previous' = held /\ previous_sampled_at' = at
          /\ UNCHANGED <<count, now, wall, held>>
      BY <2>4 DEF sample_snapshot_at, clocks
    <3>3. /\ delta' \in Deltas \cup {None} /\ in_order' \in BOOLEAN
          /\ reported' \in [count : Nat, time : Nat]
          /\ newest' \in [count : 0 .. MaxSends, at : 0 .. MaxTime]
          /\ BaselineIsNewest' /\ ReportedOnce' /\ TimeCoveredOnce'
      BY <2>1, <2>4, <3>1, CallByInstant
    <3>4. SamplerTypeOK'
      BY <2>1, <2>2, <3>1, <3>2, <3>3 DEF SamplerInv, SamplerTypeOK
    <3>5. BaselineMatches' /\ NotFromTheFuture'
      BY <2>1, <2>2, <3>1, <3>2 DEF SamplerInv, BaselineMatches, NotFromTheFuture,
         Snapshots
    <3>6. QED
      BY <3>3, <3>4, <3>5 DEF SamplerInv
  <2>5. QED
    BY <1>8, <2>3, <2>4 DEF HandIn
<1>9. CASE reset
  BY <1>9 DEF reset, SamplerInv, SamplerTypeOK, BaselineMatches,
     NotFromTheFuture, BaselineIsNewest,
     ReportedOnce, TimeCoveredOnce, clocks, history
<1>10. CASE UNCHANGED samplerVars
  BY <1>10 DEF samplerVars, SamplerInv, SamplerTypeOK, BaselineMatches,
     NotFromTheFuture, BaselineIsNewest,
     ReportedOnce, TimeCoveredOnce, clocks, sampler,
     history
<1>11. QED
  BY <1>2, <1>3, <1>4, <1>5, <1>6, <1>7, <1>8, <1>9, <1>10 DEF SamplerNext

\* The inductive invariant holds in every reachable state.
THEOREM SamplerInductive == SamplerSpec => []SamplerInv
<1>1. SamplerInit => SamplerInv
  BY SamplerInitially
<1>2. SamplerInv /\ [SamplerNext]_samplerVars => SamplerInv'
  BY SamplerNextKeeps
<1> QED
  BY <1>1, <1>2, PTL DEF SamplerSpec

\* delta_since_duration never returns a negative delta (checked_sub), and every
\* variable keeps its type, for every bound on sends and time.
THEOREM SamplerTypeCorrect == SamplerSpec => []SamplerTypeOK
<1>1. SamplerInv => SamplerTypeOK
  BY DEF SamplerInv
<1>2. QED
  BY SamplerInductive, <1>1, PTL

\* Whatever calls of sample, sample_snapshot, sample_snapshot_at and reset are
\* mixed, the monotonic baseline is not older than the snapshot beside it.
THEOREM BaselineCorrect == SamplerSpec => []BaselineMatches
<1>1. SamplerInv => BaselineMatches
  BY DEF SamplerInv
<1>2. QED
  BY SamplerInductive, <1>1, PTL

\* Deltas of snapshots handed in in order report no send twice.
THEOREM SendsReportedOnce == SamplerSpec => []ReportedOnce
<1>1. SamplerInv => ReportedOnce
  BY DEF SamplerInv
<1>2. QED
  BY SamplerInductive, <1>1, PTL

\* Nor do the intervals of sample and sample_snapshot_at overlap.
THEOREM IntervalsDisjoint == SamplerSpec => []TimeCoveredOnce
<1>1. SamplerInv => TimeCoveredOnce
  BY DEF SamplerInv
<1>2. QED
  BY SamplerInductive, <1>1, PTL
=============================================================================
