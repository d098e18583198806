------------------------- MODULE MCMetricsSequence -------------------------
(* MetricsSequence with the counters of one publication.                   *)
EXTENDS MetricsSequence, SendCounters

CONSTANT Payloads  \* the payload sizes that are sent

PublicationUpdates == {record_success(n) : n \in Payloads} \cup {record_error}

\* Every send is counted whole in what a snapshot shows: a call is a packet
\* or an error, as the concurrent test of publication.rs asserts.
EachSendWhole ==
  \A r \in Readers : result[r]["send_calls"] =
                     result[r]["packets_sent"] + result[r]["send_errors"]
=============================================================================
