----------------------------- MODULE MCContext -----------------------------
(* The context and a sampler of its counters.  The sampler reads nothing of  *)
(* the context but snapshots, any sequence of which MetricsSampler allows,   *)
(* so the two are not interleaved: a behaviour is one of either.             *)
EXTENDS Context, MetricsSampler

VARIABLE subject

MCInit ==
  /\ Init /\ SamplerInit
  /\ \/ subject = "context" /\ wall = 0
     \/ subject = "sampler"

ContextStep == subject = "context" /\ Next /\ UNCHANGED <<samplerVars, subject>>
SamplerStep == subject = "sampler" /\ SamplerNext /\ UNCHANGED <<vars, subject>>

MCSpec == MCInit /\ [][ContextStep \/ SamplerStep]_<<vars, samplerVars, subject>>
=============================================================================
