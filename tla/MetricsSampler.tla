--------------------------- MODULE MetricsSampler ---------------------------
(***************************************************************************)
(* PublicationMetricsSampler and ContextMetricsSampler (src/metrics.rs):   *)
(* a sampler turns successive snapshots of cumulative counters into deltas *)
(* over an interval, measured with the monotonic clock by sample() and     *)
(* sample_snapshot_at(), and with the wall clock, which may be set back,   *)
(* by sample_snapshot().  A caller may hold a snapshot and hand it in      *)
(* later, in any order.                                                    *)
(*                                                                         *)
(* One counter stands for all of them (a snapshot is coherent, see         *)
(* MetricsSequence).  A snapshot carries, besides what the code stores,    *)
(* the monotonic instant at which it was captured: `taken`, a history.     *)
(***************************************************************************)
EXTENDS Integers

CONSTANTS
  MaxSends,  \* bound on the counter
  MaxTime,   \* bound on the clocks
  None

ASSUME SamplerBounds == MaxSends \in Nat /\ MaxTime \in Nat

VARIABLES
  count,                \* the cumulative counter
  now,                  \* Instant::now()
  wall,                 \* SystemTime::now()
  held,                 \* a snapshot the caller holds, or None
  sampling,             \* the local `current` of a sample() under way, or None
  previous,             \* the sampler's fields
  previous_sampled_at,
  delta,                \* what the last sampling call returned, or None
  reported,             \* history: the sends and the monotonic time reported
  newest,               \* history: the newest count and instant handed in
  in_order              \* history: were snapshots handed in as they were taken?

clocks == <<count, now, wall>>
sampler == <<previous, previous_sampled_at>>
history == <<reported, newest, in_order>>
samplerVars == <<clocks, held, sampling, sampler, delta, history>>

Snapshots == [count : 0 .. MaxSends, captured_at : 0 .. MaxTime, taken : 0 .. MaxTime]
Deltas == [interval : Nat, count : Nat]

\* Each variable has its type: in particular no delta is negative.
SamplerTypeOK ==
  /\ count \in 0 .. MaxSends /\ now \in 0 .. MaxTime /\ wall \in 0 .. MaxTime
  /\ {held, sampling, previous} \subseteq Snapshots \cup {None}
  /\ previous_sampled_at \in (0 .. MaxTime) \cup {None}
  /\ delta \in Deltas \cup {None}
  /\ reported \in [count : Nat, time : Nat]
  /\ newest \in [count : 0 .. MaxSends, at : 0 .. MaxTime]
  /\ in_order \in BOOLEAN

\* new()
SamplerInit ==
  /\ count = 0 /\ now = 0 /\ wall \in 0 .. MaxTime
  /\ held = None /\ sampling = None
  /\ previous = None /\ previous_sampled_at = None
  /\ delta = None
  /\ reported = [count |-> 0, time |-> 0]
  /\ newest = [count |-> 0, at |-> 0]
  /\ in_order = TRUE

----------------------------------------------------------------------------
(* The environment *)

\* Any thread that shares the publication.
Send ==
  /\ count < MaxSends
  /\ count' = count + 1
  /\ UNCHANGED <<now, wall, held, sampling, sampler, delta, history>>

Tick ==
  /\ now < MaxTime /\ wall < MaxTime
  /\ now' = now + 1 /\ wall' = wall + 1
  /\ UNCHANGED <<count, held, sampling, sampler, delta, history>>

\* Somebody sets the wall clock.
AdjustWall(w) ==
  /\ wall' = w
  /\ UNCHANGED <<count, now, held, sampling, sampler, delta, history>>

\* metrics_snapshot()
snapshot == [count |-> count, captured_at |-> wall, taken |-> now]

\* The caller takes a snapshot to hand in later.
Capture ==
  /\ sampling = None
  /\ held' = snapshot
  /\ UNCHANGED <<clocks, sampling, sampler, delta, history>>

----------------------------------------------------------------------------
(* The sampler *)

\* checked_sub: None when a counter moved backwards.
delta_since_duration(s, earlier, duration) ==
  IF s.count < earlier.count THEN None
  ELSE [interval |-> duration, count |-> s.count - earlier.count]

\* By the wall clock: None when it went back.
delta_since(s, earlier) ==
  IF s.captured_at < earlier.captured_at THEN None
  ELSE delta_since_duration(s, earlier, s.captured_at - earlier.captured_at)

\* History: a call was given snapshot s, taken at instant `at`, and returned d,
\* whose interval is monotonic time or not.  Nothing more is recorded once
\* snapshots were handed in out of order.
Account(s, at, d, monotonic) ==
  /\ delta' = d
  /\ in_order' = (in_order /\ s.count >= newest.count /\ at >= newest.at)
  /\ newest' = IF in_order' THEN [count |-> s.count, at |-> at] ELSE newest
  /\ reported' =
       IF in_order' /\ d # None
       THEN [count |-> reported.count + d.count,
             time  |-> reported.time + IF monotonic THEN d.interval ELSE 0]
       ELSE reported

\* Mutant of sample_snapshot: the monotonic baseline is left as it was.
SampleKeepsBaseline(s) ==
  /\ Account(s, s.taken, IF previous = None THEN None ELSE delta_since(s, previous), FALSE)
  /\ previous' = s
  /\ UNCHANGED <<clocks, held, previous_sampled_at>>

sample_snapshot(s) ==
  /\ Account(s, s.taken, IF previous = None THEN None ELSE delta_since(s, previous), FALSE)
  /\ previous' = s
  /\ previous_sampled_at' = None
  /\ UNCHANGED <<clocks, held>>

\* The delta of sample_snapshot_at.
DeltaAt(s, sampled_at) ==
  IF previous = None \/ previous_sampled_at = None THEN None
  ELSE IF sampled_at < previous_sampled_at THEN None
  ELSE delta_since_duration(s, previous, sampled_at - previous_sampled_at)

\* Mutant of sample_snapshot_at: the snapshot is not made the next baseline.
SampleAtFirst(s, sampled_at) ==
  /\ Account(s, sampled_at, DeltaAt(s, sampled_at), TRUE)
  /\ previous' = IF previous = None THEN s ELSE previous
  /\ previous_sampled_at' = sampled_at
  /\ UNCHANGED <<clocks, held>>

\* Mutant of sample_snapshot_at: the instant is not made the next baseline.
SampleAtStale(s, sampled_at) ==
  /\ Account(s, sampled_at, DeltaAt(s, sampled_at), TRUE)
  /\ previous' = s
  /\ previous_sampled_at' =
       IF previous_sampled_at = None THEN sampled_at ELSE previous_sampled_at
  /\ UNCHANGED <<clocks, held>>

sample_snapshot_at(s, sampled_at) ==
  /\ Account(s, sampled_at, DeltaAt(s, sampled_at), TRUE)
  /\ previous' = s
  /\ previous_sampled_at' = sampled_at
  /\ UNCHANGED <<clocks, held>>

\* sample() and its alias delta(): the snapshot, then, when sends may have
\* happened and time passed, Instant::now().
SampleBegin ==
  /\ sampling = None
  /\ sampling' = snapshot
  /\ UNCHANGED <<clocks, held, sampler, delta, history>>

SampleEnd ==
  /\ sampling # None
  /\ sample_snapshot_at(sampling, now)
  /\ sampling' = None

\* The caller hands in what it holds, with an instant since or without.
HandIn ==
  /\ sampling = None /\ held # None
  /\ UNCHANGED sampling
  /\ \/ sample_snapshot(held)
     \/ \E at \in held.taken .. now : sample_snapshot_at(held, at)

reset ==
  /\ sampling = None
  /\ previous' = None /\ previous_sampled_at' = None
  /\ UNCHANGED <<clocks, held, sampling, delta, history>>

SamplerNext ==
  \/ Send \/ Tick \/ Capture
  \/ \E w \in 0 .. MaxTime : AdjustWall(w)
  \/ SampleBegin \/ SampleEnd \/ HandIn \/ reset

SamplerSpec == SamplerInit /\ [][SamplerNext]_samplerVars

----------------------------------------------------------------------------
(* Properties *)

\* The two fields of the sampler belong together whichever calls were mixed:
\* a monotonic baseline is never older than the snapshot it is used with, so
\* sample() never stretches an interval back over sends already reported.
BaselineMatches ==
  previous_sampled_at # None =>
    previous # None /\ previous_sampled_at >= previous.taken

\* As long as snapshots are handed in as they were taken, no send is reported
\* by two deltas, across wall clocks that are set back, mixed calls and resets.
ReportedOnce == in_order => reported.count <= newest.count

\* Under the same condition the intervals that sample() and
\* sample_snapshot_at() report do not overlap: their sum is at most the time
\* that passed, whatever was done to the wall clock.
TimeCoveredOnce == in_order => reported.time <= newest.at
=============================================================================
