---------------------------- MODULE SendCounters ----------------------------
(***************************************************************************)
(* The counters of PublicationMetricsState (src/publication.rs) and of     *)
(* ContextMetricsInner (src/context.rs), and the amounts each recorder     *)
(* adds to them under one sequence guard.                                  *)
(***************************************************************************)
EXTENDS Naturals

PublicationCounters == {"send_calls", "packets_sent", "bytes_sent", "send_errors"}

\* PublicationMetricsState::record_success, and Context::record_send_success
\* on the counters with the prefix total_.
record_success(bytes) ==
  [c \in PublicationCounters |->
     CASE c \in {"send_calls", "packets_sent"} -> 1
       [] c = "bytes_sent" -> bytes
       [] OTHER -> 0]

\* PublicationMetricsState::record_error and Context::record_send_error.
record_error ==
  [c \in PublicationCounters |-> IF c \in {"send_calls", "send_errors"} THEN 1 ELSE 0]
=============================================================================
