-------------------------- MODULE MetricsSequence --------------------------
(***************************************************************************)
(* The sequence guard of src/metrics.rs (MetricsSequence and its write     *)
(* guard) around the atomic counters of PublicationMetricsState            *)
(* (src/publication.rs) and ContextMetricsInner (src/context.rs).          *)
(*                                                                         *)
(* send() takes &self, so any number of threads record and take snapshots  *)
(* of one publication (or context) at a time.  Each atomic access is a     *)
(* step of its own.  The counters are updated and read with Relaxed        *)
(* accesses to different locations, which the language does not order, so  *)
(* within a critical section (or within one read) they happen in any       *)
(* order.                                                                  *)
(*                                                                         *)
(* The writer's compare_exchange_weak is only Acquire: nothing orders its  *)
(* odd store before the Relaxed counter updates that follow.  On x86-64 a  *)
(* locked instruction does (OddStoreOrdered = TRUE); on AArch64 another    *)
(* core may see a counter update before it sees the odd sequence value     *)
(* (OddStoreOrdered = FALSE): the value plain loads return, `visible`, may *)
(* then lag behind `value`, on which the read-modify-writes operate, until *)
(* the Release increment that drops the guard.                             *)
(*                                                                         *)
(* The u64 sequence wraps after 2^64 steps and the model's does not: a     *)
(* reader would have to be suspended for 2^63 updates to be deceived.      *)
(***************************************************************************)
EXTENDS Naturals

CONSTANTS
  Counters,        \* the names of the cumulative counters
  Updates,         \* the updates, each a function from counters to an amount
  Writers,         \* threads that record sends
  Readers,         \* threads that take snapshots
  OddStoreOrdered, \* does the target order the odd store before later ones?
  MaxSequence      \* bound: no new update is begun at this sequence value

ASSUME CountersAssumption == Updates \subseteq [Counters -> Nat]
ASSUME OrderAssumption == OddStoreOrdered \in BOOLEAN
ASSUME BoundAssumption == MaxSequence \in Nat

VARIABLES
  value,      \* MetricsSequence.value, as read-modify-writes see it
  visible,    \* MetricsSequence.value, as plain loads see it
  counter,    \* the atomic counters
  writer,     \* per writer: where it is in write() and in the update
  current,    \* per writer: the local `current` of write()
  update,     \* per writer: the update it is recording
  pending,    \* per writer: the counters it has yet to add to
  reader,     \* per reader: where it is in read_consistent()
  before,     \* per reader: the local `before` of read_consistent()
  unread,     \* per reader: the counters the closure has yet to load
  copy,       \* per reader: the values the closure has loaded
  result,     \* per reader: the last snapshot returned to it
  committed   \* history: the sum of the updates whose guard was dropped

seqVars == <<value, visible>>
writerVars == <<writer, current, update, pending>>
readerVars == <<reader, before, unread, copy, result>>
vars == <<seqVars, counter, writerVars, readerVars, committed>>

Zero == [c \in Counters |-> 0]
Plus(f, u) == [c \in Counters |-> f[c] + u[c]]
IsOdd(n) == n % 2 = 1

\* The counters an update adds to: record_error leaves packets_sent alone.
Touched(u) == {c \in Counters : u[c] # 0}

\* Each variable has its type: no counter, and nothing the code adds up, ever
\* goes below zero.
TypeOK ==
  /\ value \in Nat /\ visible \in Nat
  /\ counter \in [Counters -> Nat]
  /\ writer \in [Writers -> {"idle", "acquire", "locked"}]
  /\ current \in [Writers -> Nat]
  /\ update \in [Writers -> Updates \cup {Zero}]
  /\ pending \in [Writers -> SUBSET Counters]
  /\ reader \in [Readers -> {"idle", "begin", "load", "validate"}]
  /\ before \in [Readers -> Nat]
  /\ unread \in [Readers -> SUBSET Counters]
  /\ copy \in [Readers -> [Counters -> Nat]]
  /\ result \in [Readers -> [Counters -> Nat]]
  /\ committed \in [Counters -> Nat]

Init ==
  /\ value = 0 /\ visible = 0
  /\ counter = Zero
  /\ writer = [w \in Writers |-> "idle"]
  /\ current = [w \in Writers |-> 0]
  /\ update = [w \in Writers |-> Zero]
  /\ pending = [w \in Writers |-> {}]
  /\ reader = [r \in Readers |-> "idle"]
  /\ before = [r \in Readers |-> 0]
  /\ unread = [r \in Readers |-> {}]
  /\ copy = [r \in Readers |-> Zero]
  /\ result = [r \in Readers |-> Zero]
  /\ committed = Zero

----------------------------------------------------------------------------
(* write(): acquiring the guard *)

\* A thread calls record_success, record_error or another recorder, whose
\* first step is write()'s Relaxed load of the sequence.
BeginUpdate(w, u) ==
  /\ writer[w] = "idle"
  /\ value < MaxSequence
  /\ writer' = [writer EXCEPT ![w] = "acquire"]
  /\ current' = [current EXCEPT ![w] = visible]
  /\ update' = [update EXCEPT ![w] = u]
  /\ UNCHANGED <<seqVars, counter, pending, readerVars, committed>>

\* Another writer holds the guard: spin and load again.
Spin(w) ==
  /\ writer[w] = "acquire"
  /\ IsOdd(current[w])
  /\ current' = [current EXCEPT ![w] = visible]
  /\ UNCHANGED <<seqVars, counter, writer, update, pending, readerVars, committed>>

\* What plain loads return once the odd value n is stored: the old value for
\* a while longer, if the target does not order that store.
SeenAfterOddStore(n) == IF OddStoreOrdered THEN {n} ELSE {n, visible}

\* The guard is taken with the odd value current + 1.
TakeGuard(w) ==
  /\ value' = current[w] + 1
  /\ visible' \in SeenAfterOddStore(current[w] + 1)
  /\ writer' = [writer EXCEPT ![w] = "locked"]
  /\ pending' = [pending EXCEPT ![w] = Touched(update[w])]
  /\ UNCHANGED <<counter, current, update, readerVars, committed>>

\* compare_exchange_weak succeeds: the sequence is odd and the guard is held.
Lock(w) ==
  /\ writer[w] = "acquire"
  /\ ~IsOdd(current[w])
  /\ value = current[w]
  /\ TakeGuard(w)

\* compare_exchange_weak fails, spuriously or because the sequence moved on,
\* and hands back the value it observed.
LockFails(w) ==
  /\ writer[w] = "acquire"
  /\ ~IsOdd(current[w])
  /\ current' = [current EXCEPT ![w] = value]
  /\ UNCHANGED <<seqVars, counter, writer, update, pending, readerVars, committed>>

----------------------------------------------------------------------------
(* The update, under the guard *)

\* Mutant of Add: the amount is subtracted.
AddNegated(w, c) ==
  /\ writer[w] = "locked"
  /\ c \in pending[w]
  /\ counter' = [counter EXCEPT ![c] = @ - update[w][c]]
  /\ pending' = [pending EXCEPT ![w] = @ \ {c}]
  /\ UNCHANGED <<seqVars, writer, current, update, readerVars, committed>>

\* One Relaxed fetch_add.
Add(w, c) ==
  /\ writer[w] = "locked"
  /\ c \in pending[w]
  /\ counter' = [counter EXCEPT ![c] = @ + update[w][c]]
  /\ pending' = [pending EXCEPT ![w] = @ \ {c}]
  /\ UNCHANGED <<seqVars, writer, current, update, readerVars, committed>>

\* The recorder returns: its locals are gone.
ForgetUpdate(w) ==
  /\ writer' = [writer EXCEPT ![w] = "idle"]
  /\ current' = [current EXCEPT ![w] = 0]
  /\ update' = [update EXCEPT ![w] = Zero]
  /\ pending' = [pending EXCEPT ![w] = {}]

\* The guard goes: the sequence is even again, and whoever sees that sees
\* the whole update.
ReleaseGuard(w) ==
  /\ value' = value + 1
  /\ visible' = value + 1
  /\ committed' = Plus(committed, update[w])
  /\ ForgetUpdate(w)
  /\ UNCHANGED <<counter, readerVars>>

\* Mutant of Drop: the guard is a temporary, dropped before the last add.
DropEarly(w) ==
  /\ writer[w] = "locked"
  /\ IF pending[w] = {} THEN ReleaseGuard(w)
     ELSE /\ value' = value + 1
          /\ visible' = value + 1
          /\ UNCHANGED <<counter, writerVars, readerVars, committed>>

\* Mutant of Drop: the guard is forgotten and the sequence stays odd.
DropForgotten(w) ==
  /\ writer[w] = "locked"
  /\ pending[w] = {}
  /\ committed' = Plus(committed, update[w])
  /\ ForgetUpdate(w)
  /\ UNCHANGED <<seqVars, counter, readerVars>>

\* The guard's Drop: fetch_add(1, Release).
Drop(w) ==
  /\ writer[w] = "locked"
  /\ pending[w] = {}
  /\ ReleaseGuard(w)

----------------------------------------------------------------------------
(* read_consistent() *)

\* A thread asks for a snapshot.
BeginSnapshot(r) ==
  /\ reader[r] = "idle"
  /\ reader' = [reader EXCEPT ![r] = "begin"]
  /\ UNCHANGED <<seqVars, counter, writerVars, before, unread, copy, result, committed>>

\* Mutant of LoadBefore: an odd value is not turned away.
LoadBeforeAny(r) ==
  /\ reader[r] = "begin"
  /\ reader' = [reader EXCEPT ![r] = "load"]
  /\ before' = [before EXCEPT ![r] = visible]
  /\ unread' = [unread EXCEPT ![r] = Counters]
  /\ UNCHANGED <<seqVars, counter, writerVars, copy, result, committed>>

\* The Acquire load of an even value.  An odd value changes nothing: the
\* thread spins, and this step is not enabled.
LoadBefore(r) ==
  /\ reader[r] = "begin"
  /\ ~IsOdd(visible)
  /\ reader' = [reader EXCEPT ![r] = "load"]
  /\ before' = [before EXCEPT ![r] = visible]
  /\ unread' = [unread EXCEPT ![r] = Counters]
  /\ UNCHANGED <<seqVars, counter, writerVars, copy, result, committed>>

\* One Relaxed load of the closure; the fence after the last one keeps the
\* second load of the sequence behind them all.
LoadCounter(r, c) ==
  /\ reader[r] = "load"
  /\ c \in unread[r]
  /\ copy' = [copy EXCEPT ![r][c] = counter[c]]
  /\ unread' = [unread EXCEPT ![r] = @ \ {c}]
  /\ reader' = [reader EXCEPT ![r] = IF unread'[r] = {} THEN "validate" ELSE "load"]
  /\ UNCHANGED <<seqVars, counter, writerVars, before, result, committed>>

\* One pass of the loop is over: its locals are gone.
ForgetRead(r) ==
  /\ before' = [before EXCEPT ![r] = 0]
  /\ unread' = [unread EXCEPT ![r] = {}]
  /\ copy' = [copy EXCEPT ![r] = Zero]

\* before == after: the snapshot is returned.
Return(r) ==
  /\ reader' = [reader EXCEPT ![r] = "idle"]
  /\ result' = [result EXCEPT ![r] = copy[r]]
  /\ ForgetRead(r)
  /\ UNCHANGED <<seqVars, counter, writerVars, committed>>

\* The sequence moved on: read everything again.
Retry(r) ==
  /\ reader' = [reader EXCEPT ![r] = "begin"]
  /\ ForgetRead(r)
  /\ UNCHANGED <<seqVars, counter, writerVars, result, committed>>

\* Mutant of Validate: any even second value is taken for agreement.
ValidateParityOnly(r) ==
  /\ reader[r] = "validate"
  /\ IF ~IsOdd(visible) THEN Return(r) ELSE Retry(r)

\* The second load of the sequence and the comparison.
Validate(r) ==
  /\ reader[r] = "validate"
  /\ IF before[r] = visible THEN Return(r) ELSE Retry(r)

----------------------------------------------------------------------------
WriterStep(w) ==
  \/ Spin(w) \/ Lock(w) \/ LockFails(w)
  \/ \E c \in Counters : Add(w, c)
  \/ Drop(w)

ReaderStep(r) ==
  \/ LoadBefore(r)
  \/ \E c \in Counters : LoadCounter(r, c)
  \/ Validate(r)

Next ==
  \/ \E w \in Writers : WriterStep(w) \/ \E u \in Updates : BeginUpdate(w, u)
  \/ \E r \in Readers : ReaderStep(r) \/ BeginSnapshot(r)

Spec == Init /\ [][Next]_vars

(* The scheduler runs every thread that is inside a recorder or a snapshot; *)
(* nobody has to call one.                                                 *)
Fairness ==
  /\ \A w \in Writers : WF_vars(WriterStep(w))
  /\ \A r \in Readers : WF_vars(ReaderStep(r))

FairSpec == Spec /\ Fairness

----------------------------------------------------------------------------
(* Properties *)

\* At most one writer holds the guard, exactly while the sequence is odd;
\* this is what serialises record_success and record_error.
GuardExclusive ==
  /\ \A v, w \in Writers :
       writer[v] = "locked" /\ writer[w] = "locked" => v = w
  /\ IsOdd(value) <=> \E w \in Writers : writer[w] = "locked"

\* No update is lost or applied in part: with the guard free the counters
\* are the sum of the updates that were recorded, and while it is held they
\* are ahead of that sum by what the holder has added so far.
NoLostUpdate ==
  \A c \in Counters :
    /\ ~IsOdd(value) => counter[c] = committed[c]
    /\ \A w \in Writers : writer[w] = "locked" =>
         counter[c] = committed[c] + (IF c \in pending[w] THEN 0 ELSE update[w][c])

\* The inductive strengthening for readers: until the sequence moves on, what
\* a reader has copied is what the counters hold.
CopiesCurrent ==
  \A r \in Readers : reader[r] \in {"load", "validate"} =>
    /\ ~IsOdd(before[r])
    /\ before[r] <= value
    /\ reader[r] = "validate" => unread[r] = {}
    /\ before[r] = value =>
         \A c \in Counters \ unread[r] : copy[r][c] = counter[c]

\* Plain loads lag behind only while an unordered odd store is under way.
VisibleInv ==
  /\ visible \in {value, value - 1}
  /\ OddStoreOrdered \/ ~IsOdd(value) => visible = value

\* Whoever is inside a recorder is recording one of the updates.
UpdateKnown == \A w \in Writers : writer[w] # "idle" => update[w] \in Updates

\* No snapshot shows more than what was recorded.
ResultsPast == \A r \in Readers, c \in Counters : result[r][c] <= committed[c]

\* A snapshot read_consistent returns is the sum of the updates recorded at
\* that moment: it never splits one send.
SnapshotCoherent ==
  [][\A r \in Readers : result'[r] # result[r] => result'[r] = committed]_vars

\* Successive snapshots of one thread never go backwards, so the checked_sub
\* of delta_since_duration never turns a sampler's delta into None.
SnapshotsMonotone ==
  [][\A r \in Readers, c \in Counters : result[r][c] <= result'[r][c]]_vars

Atomic == INSTANCE MetricsAtomic WITH total <- committed

\* The guarded counters implement the atomic counters the docs promise.
ImplementsAtomic == Atomic!Spec

\* A thread that calls record_success or record_error gets the guard and gives
\* it back, and a snapshot is returned once no more updates are begun (the bound
\* sees to that; under a stream of updates a reader may retry for ever).
OperationsFinish ==
  /\ \A w \in Writers : writer[w] = "acquire" ~> writer[w] = "idle"
  /\ \A r \in Readers : reader[r] = "begin" ~> reader[r] = "idle"
=============================================================================
