----------------------------- MODULE TokioSend -----------------------------
(***************************************************************************)
(* TokioPublication::send (src/tokio_adapter.rs): tasks that share one     *)
(* publication send without blocking, waiting for write readiness when the *)
(* socket's buffer is full.  The Unix build waits first and then calls     *)
(* Publication::send; the others try first and then call finish_send.      *)
(*                                                                         *)
(* External, modelled from how the adapter uses it: the socket's buffer    *)
(* (DrainBuffer) and Tokio's registration of the socket.  The kernel       *)
(* signals an edge when the buffer falls below half its size, the driver   *)
(* turns an edge into readiness with a new tick, and clear_ready() clears  *)
(* only the readiness whose tick the guard saw.                            *)
(***************************************************************************)
EXTENDS Integers, FiniteSets

CONSTANTS
  Calls,     \* calls of send(); a task is one call
  Capacity,  \* packets the socket's send buffer holds
  MaxFaults  \* bound on send errors other than WouldBlock

ASSUME CapacityAssumption == Capacity \in Nat \ {0}
ASSUME FaultsAssumption == MaxFaults \in Nat
ASSUME CallsAssumption == IsFiniteSet(Calls)

VARIABLES
  unix,    \* which of the two cfg branches was built
  queued,  \* packets in the socket's send buffer
  edge,    \* a writability event the driver has not taken yet
  ready,   \* the registration's readiness
  tick,    \* and the number of the event that set it last
  stages,  \* where each call is
  seen,    \* the tick in a call's readiness guard
  sent,    \* history: how often a call's payload entered the buffer
  metrics, \* the publication's counters
  faults

socket == <<queued, edge>>
registration == <<ready, tick>>
tokioVars == <<unix, socket, registration, stages, seen, sent, metrics, faults>>

Awaiting == {"writable"}              \* the one .await of each branch
Ended == {"ok", "error", "unready", "cancelled"}
Stages == {"idle", "try", "granted", "blocked"} \cup Awaiting \cup Ended

\* Each variable has its type: the buffer never holds more than its capacity.
TokioTypeOK ==
  /\ unix \in BOOLEAN
  /\ queued \in 0 .. Capacity
  /\ edge \in BOOLEAN /\ ready \in BOOLEAN
  /\ tick \in Nat
  /\ stages \in [Calls -> Stages]
  /\ seen \in [Calls -> Nat]
  /\ sent \in [Calls -> Nat]
  /\ metrics \in [send_calls : Nat, packets_sent : Nat, send_errors : Nat]
  /\ faults \in 0 .. MaxFaults

\* What poll() reports for a datagram socket: under half full.
Writable(q) == 2 * q < Capacity

\* TokioPublication::new: registering the socket raises an edge if it is
\* writable.  Earlier sends may have left packets in the buffer.
TokioInit ==
  /\ unix \in BOOLEAN
  /\ queued \in 0 .. Capacity
  /\ edge = Writable(queued)
  /\ ready = FALSE /\ tick = 0
  /\ stages = [t \in Calls |-> "idle"]
  /\ seen = [t \in Calls |-> 0]
  /\ sent = [t \in Calls |-> 0]
  /\ metrics = [send_calls |-> 0, packets_sent |-> 0, send_errors |-> 0]
  /\ faults = 0

----------------------------------------------------------------------------
(* The kernel and the driver *)

DrainBuffer ==
  /\ queued > 0
  /\ queued' = queued - 1
  /\ edge' = (edge \/ Writable(queued'))
  /\ UNCHANGED <<unix, registration, stages, seen, sent, metrics, faults>>

\* The driver polls the socket again when it takes the event.
Deliver ==
  /\ edge
  /\ edge' = FALSE
  /\ IF Writable(queued)
     THEN ready' = TRUE /\ tick' = tick + 1
     ELSE UNCHANGED registration
  /\ UNCHANGED <<unix, queued, stages, seen, sent, metrics, faults>>

----------------------------------------------------------------------------
(* send() *)

Goto(t, stage) == stages' = [stages EXCEPT ![t] = stage]

Begin(t) ==
  /\ stages[t] = "idle"
  /\ Goto(t, IF unix THEN "writable" ELSE "try")
  /\ UNCHANGED <<unix, socket, registration, seen, sent, metrics, faults>>

\* Unix: writable().await returns a guard.  Elsewhere it only says that a
\* further try_send may succeed.
Wake(t) ==
  /\ stages[t] = "writable" /\ ready
  /\ IF unix
     THEN Goto(t, "granted") /\ seen' = [seen EXCEPT ![t] = tick]
     ELSE Goto(t, "try") /\ UNCHANGED seen
  /\ UNCHANGED <<unix, socket, registration, sent, metrics, faults>>

\* The runtime is shutting down: TokioSendError::Readiness.
WakeFails(t) ==
  /\ stages[t] = "writable"
  /\ Goto(t, "unready")
  /\ UNCHANGED <<unix, socket, registration, seen, sent, metrics, faults>>

\* Elsewhere: try_send reads the readiness it clears if the send would block.
TrySend(t) ==
  /\ stages[t] = "try"
  /\ IF ready
     THEN Goto(t, "granted") /\ seen' = [seen EXCEPT ![t] = tick]
     ELSE Goto(t, "writable") /\ UNCHANGED seen
  /\ UNCHANGED <<unix, socket, registration, sent, metrics, faults>>

\* PublicationMetricsState::record_success and record_error, as finish_send
\* calls them.  Their atomicity is MetricsSequence's subject.
record_success ==
  metrics' = [metrics EXCEPT !.send_calls = @ + 1, !.packets_sent = @ + 1]

record_error ==
  metrics' = [metrics EXCEPT !.send_calls = @ + 1, !.send_errors = @ + 1]

\* The socket takes the payload.
Enqueue(t) ==
  /\ stages[t] = "granted" /\ queued < Capacity
  /\ queued' = queued + 1
  /\ sent' = [sent EXCEPT ![t] = @ + 1]

\* Mutant of Sent: the call waits for readiness once more before it returns.
SentThenWaits(t) ==
  /\ Enqueue(t)
  /\ record_success
  /\ Goto(t, "writable")
  /\ UNCHANGED <<unix, edge, registration, seen, faults>>

\* Mutant of Sent: the branch that calls try_send skips finish_send.
SentUnfinished(t) ==
  /\ Enqueue(t)
  /\ IF unix THEN record_success ELSE UNCHANGED metrics
  /\ Goto(t, "ok")
  /\ UNCHANGED <<unix, edge, registration, seen, faults>>

Sent(t) ==
  /\ Enqueue(t)
  /\ record_success
  /\ Goto(t, "ok")
  /\ UNCHANGED <<unix, edge, registration, seen, faults>>

\* A full buffer.  Publication::send counts the attempt as an error; try_send
\* leaves the counters alone.
WouldBlock(t) ==
  /\ stages[t] = "granted" /\ queued = Capacity
  /\ IF unix THEN record_error ELSE UNCHANGED metrics
  /\ Goto(t, "blocked")
  /\ UNCHANGED <<unix, socket, registration, seen, sent, faults>>

\* Mutant of ClearReady: whatever readiness there is now is cleared.
ClearAny(t) ==
  /\ stages[t] = "blocked"
  /\ ready' = FALSE
  /\ Goto(t, "writable")
  /\ UNCHANGED <<unix, socket, tick, seen, sent, metrics, faults>>

\* readiness.clear_ready() with the guard taken before the send; try_send
\* does the same itself.
ClearReady(t) ==
  /\ stages[t] = "blocked"
  /\ ready' = (ready /\ seen[t] # tick)
  /\ Goto(t, "writable")
  /\ UNCHANGED <<unix, socket, tick, seen, sent, metrics, faults>>

\* Any other error of the socket.
SendFails(t) ==
  /\ stages[t] = "granted" /\ faults < MaxFaults
  /\ faults' = faults + 1
  /\ record_error
  /\ Goto(t, "error")
  /\ UNCHANGED <<unix, socket, registration, seen, sent>>

\* The caller drops the future, which it can only do at the .await.
CancelSend(t) ==
  /\ stages[t] \in Awaiting
  /\ Goto(t, "cancelled")
  /\ UNCHANGED <<unix, socket, registration, seen, sent, metrics, faults>>

Step(t) ==
  Wake(t) \/ TrySend(t) \/ Sent(t) \/ WouldBlock(t) \/ ClearReady(t) \/ SendFails(t)

\* Every call has returned and the buffer is empty.
Quiet ==
  /\ \A t \in Calls : stages[t] \in Ended
  /\ queued = 0 /\ ~edge
  /\ UNCHANGED tokioVars

TokioNext ==
  \/ DrainBuffer \/ Deliver \/ Quiet
  \/ \E t \in Calls : Begin(t) \/ Step(t) \/ WakeFails(t) \/ CancelSend(t)

\* The kernel sends what it has queued, Tokio's driver runs, and the executor
\* polls a woken task.  Nobody need call send(), cancel it or fail.
TokioFairness ==
  /\ WF_tokioVars(DrainBuffer) /\ WF_tokioVars(Deliver)
  /\ \A t \in Calls : WF_tokioVars(Step(t))

TokioSpec == TokioInit /\ [][TokioNext]_tokioVars /\ TokioFairness

----------------------------------------------------------------------------
(* Properties *)

In(stage) == Cardinality({t \in Calls : stages[t] = stage})

\* The payload of a call leaves exactly when the call returns a report: a call
\* that was cancelled or failed has sent nothing, and no retry sends twice.
SentOnce == \A t \in Calls : sent[t] = IF stages[t] = "ok" THEN 1 ELSE 0

\* The counters agree with what the callers saw.  The branch that tries first
\* reports one error per failed call; on Unix each attempt on a full buffer
\* is an error of its own.
CountersAgree ==
  /\ metrics.packets_sent = In("ok")
  /\ metrics.send_calls = metrics.packets_sent + metrics.send_errors
  /\ IF unix
     THEN metrics.send_errors >= In("error") + In("blocked")
     ELSE metrics.send_errors = In("error")

\* No wakeup is lost between a send that would block and clear_ready(): when
\* the socket is writable, the registration says so or is about to be told.
NoLostWakeup == Writable(queued) => ready \/ edge

\* Every call returns, unless it is cancelled: no set of tasks that share the
\* socket leaves one of them waiting for ever.
SendsFinish == \A t \in Calls : stages[t] # "idle" ~> stages[t] \in Ended
=============================================================================
