------------------------------ MODULE MctxSend ------------------------------
(***************************************************************************)
(* The command mctx_send (src/bin/mctx_send.rs) with metrics: it sends     *)
(* Count datagrams through a Context, samples the context's counters       *)
(* (MetricsSampler) when a summary is due and once more at the end, and    *)
(* writes each summary as a row of a JSONL file (JsonlWriter) that other   *)
(* processes append to as well.  Every error leaves main at once; the      *)
(* context, the sampler and the writer are dropped then.                   *)
(*                                                                         *)
(* The file's other users take JsonlWriter's own steps, and the command's  *)
(* file steps are JsonlWriter's steps of the process Sender.               *)
(***************************************************************************)
EXTENDS JsonlWriter

CONSTANTS
  Sender,      \* the process that runs mctx_send
  Count,       \* --count
  Intervals,   \* MCTX_METRICS_SUMMARY_SECS to choose from
  MaxInstant,  \* the platform clock's last instant
  MaxTime,     \* bound on the time that passes
  None

VARIABLES
  output,           \* is MCTX_METRICS_SUMMARY_FILE set?
  summary_interval, \* Option<Duration>
  stage,            \* where main is
  next_summary_at,
  count,            \* total_send_calls of the context
  now,              \* Instant::now()
  held, current,    \* the snapshots in emit_metrics_summary and in sample()
  previous, previous_sampled_at, delta,  \* the sampler, and its last result
  reported, newest, in_order,            \* its history
  written           \* history: the sends in rows that were written

sampling == <<held, current, previous, previous_sampled_at, delta, reported, newest, in_order>>
arguments == <<output, summary_interval>>
file_vars == vars
main == <<arguments, stage, next_summary_at, count, now, sampling, written>>
all_vars == <<file_vars, main>>

\* The wall clock plays no part, as the sampler is given instants.
S == INSTANCE MetricsSampler WITH MaxSends <- Count, wall <- now, sampling <- current

ASSUME MctxBounds == /\ Sender \in Processes
                     /\ Count \in Nat /\ MaxInstant \in Nat /\ MaxTime \in Nat
                     /\ Intervals \subseteq Nat
ASSUME MctxNone == None \notin Nat \cup S!Snapshots \cup S!Deltas

MctxInit ==
  /\ Init
  /\ output \in BOOLEAN /\ summary_interval \in Intervals \cup {None}
  /\ stage = "start" /\ next_summary_at = None
  /\ count = 0 /\ now = 0
  /\ held = None /\ current = None
  /\ previous = None /\ previous_sampled_at = None /\ delta = None
  /\ reported = [count |-> 0, time |-> 0] /\ newest = [count |-> 0, at |-> 0]
  /\ in_order = TRUE
  /\ written = 0

Tick ==
  /\ now < MaxTime
  /\ now' = now + 1
  /\ UNCHANGED <<file_vars, arguments, stage, next_summary_at, count, sampling, written>>

----------------------------------------------------------------------------
(* main *)

Summaries == summary_interval # None

\* checked_add: None when the instant is out of range.
next_summary_deadline ==
  IF now + summary_interval > MaxInstant THEN None ELSE now + summary_interval

\* Return from main: the writer is dropped with everything else.
Exit(outcome) ==
  /\ stage' = outcome
  /\ IF pc[Sender] # "closed" THEN Drop(Sender) ELSE UNCHANGED <<pc, holder, buffer, spoiled>>
  /\ UNCHANGED <<file, header, history>>

\* The publication is added and sample() gives the sampler its baseline.
Begin ==
  /\ stage = "start"
  /\ S!SampleBegin
  /\ stage' = "baseline"
  /\ UNCHANGED <<file_vars, arguments, next_summary_at, written>>

EnterLoop ==
  /\ stage = "baseline"
  /\ S!SampleEnd
  /\ next_summary_at' = IF Summaries THEN next_summary_deadline ELSE None
  /\ stage' = IF Summaries /\ next_summary_deadline = None THEN "failed" ELSE "send"
  /\ UNCHANGED <<file_vars, arguments, written>>

\* Bad arguments, a publication that does not open, bad flags.
BeginFails ==
  /\ stage = "start"
  /\ Exit("failed")
  /\ UNCHANGED <<arguments, next_summary_at, count, now, sampling, written>>

Send ==
  /\ stage = "send" /\ count < Count
  /\ count' = count + 1
  /\ stage' = "check"
  /\ UNCHANGED <<file_vars, arguments, next_summary_at, now, sampling, written>>

\* context.send fails: no last row is written.
SendFails ==
  /\ stage = "send" /\ count < Count
  /\ count' = count + 1
  /\ Exit("failed")
  /\ UNCHANGED <<arguments, next_summary_at, now, sampling, written>>

\* Is a summary due?
Due == Summaries /\ now >= next_summary_at

NotDue ==
  /\ stage = "check" /\ ~Due
  /\ stage' = "send"
  /\ UNCHANGED <<file_vars, arguments, next_summary_at, count, now, sampling, written>>

\* emit_metrics_summary takes its snapshot, in the loop or after it ...
EmitDue ==
  /\ stage = "check" /\ Due
  /\ S!Capture
  /\ stage' = "sample"
  /\ UNCHANGED <<file_vars, arguments, next_summary_at, written>>

EmitLast ==
  /\ stage = "send" /\ count = Count
  /\ output \/ Summaries
  /\ S!Capture
  /\ stage' = "last_sample"
  /\ UNCHANGED <<file_vars, arguments, next_summary_at, written>>

\* ... and hands it in with the time it is then.  Without a file it prints.
emit_metrics_summary ==
  /\ stage \in {"sample", "last_sample"}
  /\ S!sample_snapshot_at(held, now)
  /\ UNCHANGED current
  /\ stage' = IF output /\ delta' # None
              THEN IF stage = "sample" THEN "row" ELSE "last_row"
              ELSE IF stage = "sample" THEN "done" ELSE "last_done"
  /\ UNCHANGED <<file_vars, arguments, next_summary_at, written>>

\* The next deadline counts from when the row is out.
Rearm ==
  /\ stage = "done"
  /\ next_summary_at' = next_summary_deadline
  /\ IF next_summary_deadline = None THEN Exit("failed")
     ELSE stage' = "send" /\ UNCHANGED file_vars
  /\ UNCHANGED <<arguments, count, now, sampling, written>>

\* Mutant of Finish: main returns without the last summary.
FinishAtOnce ==
  /\ stage = "last_done" \/ (stage = "send" /\ count = Count)
  /\ Exit("ok")
  /\ UNCHANGED <<arguments, next_summary_at, count, now, sampling, written>>

Finish ==
  /\ \/ stage = "last_done"
     \/ stage = "send" /\ count = Count /\ ~output /\ ~Summaries
  /\ Exit("ok")
  /\ UNCHANGED <<arguments, next_summary_at, count, now, sampling, written>>

----------------------------------------------------------------------------
(* write_metrics_summary_jsonl *)

Writing == stage \in {"row", "last_row"}
Elsewhere == UNCHANGED <<arguments, stage, next_summary_at, count, now, sampling, written>>

\* MetricsJsonlWriter::open, for the first row only.
OpenWriter ==
  /\ Writing
  /\ Open(Sender) \/ Accept(Sender) \/ BeginHeader(Sender)
  /\ Elsewhere

\* Another process holds the lock.
LockBusy ==
  /\ Writing /\ pc[Sender] = "closed" /\ holder # Nobody
  /\ Exit("failed")
  /\ UNCHANGED <<arguments, next_summary_at, count, now, sampling, written>>

\* The file has another header, or is not valid.
OpenRejected ==
  /\ Writing /\ Reject(Sender)
  /\ stage' = "failed"
  /\ UNCHANGED <<arguments, next_summary_at, count, now, sampling, written>>

BeginSampleRow == Writing /\ BeginRow(Sender) /\ Elsewhere

\* Mutant of RowDone: the loop goes on to write the row again.
RowAgain ==
  IF acked' > acked THEN written' = written + delta.count /\ UNCHANGED stage
  ELSE UNCHANGED <<stage, written>>

\* With the row's last piece append_sample_row returns.
RowDone ==
  IF acked' > acked
  THEN /\ written' = written + delta.count
       /\ stage' = IF stage = "last_row" THEN "last_done" ELSE "done"
  ELSE UNCHANGED <<stage, written>>

WritePiece ==
  /\ Writing /\ Write(Sender)
  /\ RowDone
  /\ UNCHANGED <<arguments, next_summary_at, count, now, sampling>>

\* A write fails, which leaves main, or the process is killed.
Stops ==
  /\ stage \notin {"ok", "failed"}
  /\ \/ Crash(Sender)
     \/ pc[Sender] = "closed" /\ UNCHANGED file_vars
  /\ stage' = "failed"
  /\ UNCHANGED <<arguments, next_summary_at, count, now, sampling, written>>

OtherProcess(p) ==
  /\ \/ Open(p) \/ Reject(p) \/ Accept(p) \/ BeginHeader(p)
     \/ BeginRow(p) \/ Write(p) \/ WriteFails(p) \/ Close(p) \/ Crash(p)
  /\ UNCHANGED main

MctxNext ==
  \/ Tick
  \/ Begin \/ BeginFails \/ EnterLoop \/ Send \/ SendFails \/ NotDue
  \/ EmitDue \/ EmitLast \/ emit_metrics_summary \/ Rearm \/ Finish
  \/ OpenWriter \/ LockBusy \/ OpenRejected \/ BeginSampleRow \/ WritePiece \/ Stops
  \/ \E p \in Processes \ {Sender} : OtherProcess(p)

MctxSpec == MctxInit /\ [][MctxNext]_all_vars

----------------------------------------------------------------------------
(* Properties *)

\* The sends a summary has taken from the sampler and not written yet.
InRow == IF Writing THEN delta.count ELSE 0

\* Rows report every send at most once, and all of those up to the last
\* summary; an error or a kill costs the row under way and what was sent since.
RowsAccount ==
  /\ output /\ stage \notin {"start", "baseline", "failed"} => written + InRow = previous.count
  /\ previous # None => written <= previous.count /\ previous.count <= count

\* When main returns Ok with an output file, its rows report all the sends it
\* was asked for, and the file is released.
ReportedInFull ==
  stage = "ok" => /\ count = Count
                  /\ output => written = Count
                  /\ pc[Sender] = "closed" /\ holder # Sender
=============================================================================
