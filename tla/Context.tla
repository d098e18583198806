------------------------------ MODULE Context ------------------------------
(***************************************************************************)
(* Context (src/context.rs): the owner of UDP multicast publications, and  *)
(* its send counters.                                                      *)
(*                                                                         *)
(* send and send_all take &self, so several threads may be inside them at  *)
(* once; the calls that change the set of publications take &mut self, so  *)
(* the compiler lets them run only when nobody else is inside.  A send     *)
(* goes to the kernel, is counted by the publication, and only then by the *)
(* context: two steps, between which other threads run.  Each of the two   *)
(* recordings is one step, which MetricsSequence justifies.                *)
(***************************************************************************)
EXTENDS Integers, Sequences, SequencesExt, SendCounters

CONSTANTS
  Configs,   \* the configurations callers use
  Threads,   \* the threads that share the context
  MaxId,     \* bound on the identifiers that are handed out
  MaxPackets \* bound on the packets handed to the kernel

ASSUME ContextBounds == MaxId \in Nat /\ MaxPackets \in Nat
ASSUME ContextThreads == IsFiniteSet(Threads)

VARIABLES
  publications,   \* the vector of publications, each with its identifier
  next_id,
  extracted,      \* publications the caller holds after take_publication
  pub_metrics,    \* the counters of each publication
  metrics,        \* the send counters of the context
  added, removed, \* its publications_added and publications_removed
  call,           \* per thread: the call it is inside
  answer,         \* per thread: what its last call returned
  direct,         \* history: what was sent without the context
  issued          \* history: the identifiers publications were given

membership == <<publications, next_id, issued, extracted, added, removed>>
counters == <<pub_metrics, metrics, direct>>
vars == <<membership, counters, call, answer>>

Zero == [c \in PublicationCounters |-> 0]
Plus(f, u) == [c \in PublicationCounters |-> f[c] + u[c]]
CounterValues == [PublicationCounters -> Nat]

Idle == [op |-> "idle", stage |-> "none", rest |-> <<>>, out |-> <<>>]
Ids(seq) == [i \in DOMAIN seq |-> seq[i].id]
IdsIn(seq) == {seq[i].id : i \in DOMAIN seq}

\* Each variable has its type: identifiers stay within those handed out and no
\* counter goes below zero.
TypeOK ==
  /\ publications \in Seq([id : Nat, config : Configs])
  /\ next_id \in 1 .. MaxId + 1
  /\ issued \subseteq 1 .. MaxId
  /\ extracted \subseteq 1 .. MaxId
  /\ pub_metrics \in [1 .. MaxId -> CounterValues]
  /\ metrics \in CounterValues
  /\ added \in Nat /\ removed \in Nat
  /\ \A t \in Threads :
       /\ call[t].op \in {"idle", "send", "send_all"}
       /\ call[t].stage \in {"none", "transmit", "ok", "error"}
       /\ call[t].rest \in Seq(Nat) /\ call[t].out \in Seq(Nat)
       /\ answer[t].outcome \in {"none", "ok", "error", "PublicationNotFound"}
       /\ answer[t].out \in Seq(Nat)
  /\ direct \in CounterValues

Init ==
  /\ publications = <<>>
  /\ next_id = 1
  /\ issued = {}
  /\ extracted = {}
  /\ pub_metrics = [id \in 1 .. MaxId |-> Zero]
  /\ metrics = Zero
  /\ added = 0 /\ removed = 0
  /\ call = [t \in Threads |-> Idle]
  /\ answer = [t \in Threads |-> [outcome |-> "none", out |-> <<>>]]
  /\ direct = Zero

----------------------------------------------------------------------------
(* Calls that change the set of publications *)

\* &mut self: no other thread is inside a call.
Exclusive == \A t \in Threads : call[t] = Idle

\* ensure_publication_config_is_unique.  A duplicate is refused before an
\* identifier is used, and changes nothing.
IsUnique(c) == \A i \in DOMAIN publications : publications[i].config # c

\* Publication::new, new_with_socket or new_with_udp_socket fails: the
\* identifier is used up.
AddFails(c) ==
  /\ Exclusive
  /\ IsUnique(c)
  /\ next_id <= MaxId
  /\ next_id' = next_id + 1
  /\ UNCHANGED <<publications, issued, extracted, added, removed, counters, call, answer>>

\* Mutant of add_publication: the identifier follows the number of publications.
AddByCount(c) ==
  /\ Exclusive
  /\ IsUnique(c)
  /\ Len(publications) < MaxId
  /\ next_id' = Len(publications) + 2
  /\ publications' = Append(publications, [id |-> Len(publications) + 1, config |-> c])
  /\ issued' = issued \cup {Len(publications) + 1}
  /\ added' = added + 1
  /\ UNCHANGED <<extracted, removed, counters, call, answer>>

\* add_publication, add_publication_with_socket and
\* add_publication_with_udp_socket, with insert_publication.
add_publication(c) ==
  /\ Exclusive
  /\ IsUnique(c)
  /\ next_id <= MaxId
  /\ next_id' = next_id + 1
  /\ publications' = Append(publications, [id |-> next_id, config |-> c])
  /\ issued' = issued \cup {next_id}
  /\ added' = added + 1
  /\ UNCHANGED <<extracted, removed, counters, call, answer>>

\* Vec::swap_remove
SwapRemove(seq, index) ==
  [i \in 1 .. Len(seq) - 1 |-> IF i = index THEN seq[Len(seq)] ELSE seq[i]]

\* Mutant of finish_publication_removal: the removal is not counted.
RemovalUncounted(index) ==
  /\ publications' = SwapRemove(publications, index)
  /\ UNCHANGED <<next_id, issued, added, removed, counters, call, answer>>

finish_publication_removal(index) ==
  /\ publications' = SwapRemove(publications, index)
  /\ removed' = removed + 1
  /\ UNCHANGED <<next_id, issued, added, counters, call, answer>>

\* take_publication hands the publication to the caller, who can go on
\* sending through it.
take_publication(id) ==
  /\ Exclusive
  /\ \E index \in DOMAIN publications :
       /\ publications[index].id = id
       /\ finish_publication_removal(index)
  /\ extracted' = extracted \cup {id}

\* remove_publication drops it.
remove_publication(id) ==
  /\ Exclusive
  /\ \E index \in DOMAIN publications :
       /\ publications[index].id = id
       /\ finish_publication_removal(index)
  /\ UNCHANGED extracted

----------------------------------------------------------------------------
(* Sending *)

Enter(t, op, ids) ==
  /\ call[t] = Idle
  /\ call' = [call EXCEPT ![t] =
               [op |-> op, stage |-> "transmit", rest |-> ids, out |-> <<>>]]
  /\ UNCHANGED <<membership, counters, answer>>

Leave(t, outcome, out) ==
  /\ call' = [call EXCEPT ![t] = Idle]
  /\ answer' = [answer EXCEPT ![t] = [outcome |-> outcome, out |-> out]]

\* Context::send of an identifier that is not there: refused, not counted.
SendNotFound(t, id) ==
  /\ call[t] = Idle
  /\ id \notin IdsIn(publications)
  /\ Leave(t, "PublicationNotFound", <<>>)
  /\ UNCHANGED <<membership, counters>>

send(t, id) == id \in IdsIn(publications) /\ Enter(t, "send", <<id>>)

\* send_all of a context with no publications returns at once.
SendAllEmpty(t) ==
  /\ call[t] = Idle
  /\ publications = <<>>
  /\ Leave(t, "ok", <<>>)
  /\ UNCHANGED <<membership, counters>>

send_all(t) == publications # <<>> /\ Enter(t, "send_all", Ids(publications))

\* What finish_send records for an outcome of the socket.
Recorded(ok) == IF ok THEN record_success(1) ELSE record_error

PacketsTried == metrics["send_calls"] + direct["send_calls"]

\* Publication::send: the kernel takes the datagram or refuses it, and the
\* publication counts it.
Transmit(t, ok) ==
  /\ call[t].stage = "transmit"
  /\ PacketsTried < MaxPackets
  /\ pub_metrics' = [pub_metrics EXCEPT ![Head(call[t].rest)] = Plus(@, Recorded(ok))]
  /\ call' = [call EXCEPT ![t].stage = IF ok THEN "ok" ELSE "error"]
  /\ UNCHANGED <<membership, metrics, direct, answer>>

\* record_send_success; send_all goes on to the next publication.
RecordSuccess(t) ==
  LET done == Append(call[t].out, Head(call[t].rest))
      rest == Tail(call[t].rest)
  IN  /\ call[t].stage = "ok"
      /\ metrics' = Plus(metrics, record_success(1))
      /\ IF rest = <<>> THEN Leave(t, "ok", done)
         ELSE /\ call' = [call EXCEPT ![t].stage = "transmit", ![t].rest = rest,
                                      ![t].out = done]
              /\ UNCHANGED answer
      /\ UNCHANGED <<membership, pub_metrics, direct>>

\* Mutant of RecordError: the context forgets to count the failure.
ErrorUncounted(t) ==
  /\ call[t].stage = "error"
  /\ Leave(t, "error", call[t].out)
  /\ UNCHANGED <<membership, counters>>

\* Mutant of RecordError: send_all carries on after a failure.
ErrorSkipped(t) ==
  LET rest == Tail(call[t].rest)
  IN  /\ call[t].stage = "error"
      /\ metrics' = Plus(metrics, record_error)
      /\ IF rest = <<>> THEN Leave(t, "ok", call[t].out)
         ELSE /\ call' = [call EXCEPT ![t].stage = "transmit", ![t].rest = rest]
              /\ UNCHANGED answer
      /\ UNCHANGED <<membership, pub_metrics, direct>>

\* record_send_error; the first failure ends the call, reports already
\* written are kept.
RecordError(t) ==
  /\ call[t].stage = "error"
  /\ metrics' = Plus(metrics, record_error)
  /\ Leave(t, "error", call[t].out)
  /\ UNCHANGED <<membership, pub_metrics, direct>>

\* A caller sends through a publication itself, found in the context or taken
\* out of it: the context does not count that.
SendDirect(t, id, ok) ==
  /\ call[t] = Idle
  /\ id \in IdsIn(publications) \cup extracted
  /\ PacketsTried < MaxPackets
  /\ pub_metrics' = [pub_metrics EXCEPT ![id] = Plus(@, Recorded(ok))]
  /\ direct' = Plus(direct, Recorded(ok))
  /\ UNCHANGED <<membership, metrics, call, answer>>

----------------------------------------------------------------------------
Next ==
  \/ \E c \in Configs : add_publication(c) \/ AddFails(c)
  \/ \E id \in 1 .. MaxId : take_publication(id) \/ remove_publication(id)
  \/ \E t \in Threads :
       \/ send_all(t) \/ SendAllEmpty(t) \/ RecordSuccess(t) \/ RecordError(t)
       \/ \E ok \in BOOLEAN : Transmit(t, ok)
       \/ \E id \in 1 .. MaxId :
            \/ send(t, id) \/ SendNotFound(t, id)
            \/ \E ok \in BOOLEAN : SendDirect(t, id, ok)

Spec == Init /\ [][Next]_vars

----------------------------------------------------------------------------
(* Properties *)

\* An identifier never comes back: a publication that enters the context gets
\* one that none was given before, whether that one is still in the context,
\* was taken out of it or was dropped.  A caller that kept the identifier of a
\* removed publication therefore never reaches another one through it.
IdsNeverReused ==
  [][\A i \in DOMAIN publications' :
       (\A j \in DOMAIN publications : publications[j] # publications'[i]) =>
         publications'[i].id \notin issued]_vars

\* metrics_snapshot's publication counts add up.
ActiveCounted == Len(publications) = added - removed

\* The sum of counter c over a function of counters.
Total(f, c) == FoldFunction(LAMBDA x, n : x[c] + n, 0, f)

\* What the publications counted but the context has yet to count: the sends
\* of threads that are between the two recordings.
InFlight == [t \in Threads |-> CASE call[t].stage = "ok" -> record_success(1)
                                 [] call[t].stage = "error" -> record_error
                                 [] OTHER -> Zero]

\* No send is counted twice or forgotten, on success, on failure or when
\* send_all stops half way: the publications' counters sum up to the
\* context's, the direct sends and what is in flight; and a removed
\* publication takes nothing away from the totals.
TotalsAgree ==
  \A c \in PublicationCounters :
    Total(pub_metrics, c) = metrics[c] + direct[c] + Total(InFlight, c)

\* send_all reports every publication, in order, or exactly those before the
\* first that failed.
SendAllReports ==
  [][\A t \in Threads :
       call[t].op = "send_all" /\ call'[t] = Idle =>
         LET out == answer'[t].out
         IN  /\ out = SubSeq(Ids(publications), 1, Len(out))
             /\ answer'[t].outcome = "ok" <=> Len(out) = Len(publications)]_vars
=============================================================================
