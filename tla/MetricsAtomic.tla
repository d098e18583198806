--------------------------- MODULE MetricsAtomic ---------------------------
(***************************************************************************)
(* What docs/metrics.md promises of a set of send counters: an update      *)
(* (one send, or one publication added or removed) takes effect as a       *)
(* whole, and a snapshot shows the totals of the updates that took effect. *)
(* MetricsSequence is shown to implement this specification.               *)
(***************************************************************************)
EXTENDS Naturals

CONSTANTS
  Counters,  \* the names of the cumulative counters
  Updates,   \* the updates, each a function from counters to an amount
  Readers    \* the threads that take snapshots

VARIABLES
  total,     \* the sum of the updates that took effect
  result     \* the last snapshot each reader was given

vars == <<total, result>>

Zero == [c \in Counters |-> 0]

\* Adding an update to counter values, counter by counter.
Plus(f, u) == [c \in Counters |-> f[c] + u[c]]

Init ==
  /\ total = Zero
  /\ result = [r \in Readers |-> Zero]

\* One update takes effect at once.
Record(u) ==
  /\ total' = Plus(total, u)
  /\ UNCHANGED result

\* One reader is given the totals of this instant.
Snapshot(r) ==
  /\ result' = [result EXCEPT ![r] = total]
  /\ UNCHANGED total

Next ==
  \/ \E u \in Updates : Record(u)
  \/ \E r \in Readers : Snapshot(r)

Spec == Init /\ [][Next]_vars
=============================================================================
