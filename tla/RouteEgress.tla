---------------------------- MODULE RouteEgress ----------------------------
(***************************************************************************)
(* Route-selected raw IPv6 egress on Linux: LinuxIpv6RouteEgress           *)
(* (src/raw/linux_route.rs) behind the mutex of RawTransmitSocket, and     *)
(* send_linux_route_selected_ipv6_datagram (src/raw/platform.rs), which    *)
(* any number of threads may be inside.                                    *)
(*                                                                         *)
(* A send takes the lock, drains the netlink notifications, uses the       *)
(* cached interface and AF_PACKET socket or dumps the routing table to     *)
(* find them, lets go of the lock and transmits; after a failure it takes  *)
(* the lock again to invalidate what it used.  The kernel runs alongside:  *)
(* it changes routes, queues or drops notifications, and writes a dump     *)
(* message by message as it is read.                                       *)
(***************************************************************************)
EXTENDS Naturals, Sequences, FiniteSets

CONSTANTS
  Threads,        \* the threads that share the publication
  Interfaces,
  Destinations,   \* multicast groups of a scope that can be route-selected
  Routes,         \* records with fields covers, prefix_len, priority: the entries
                  \* the table may hold
  InitialTables,  \* where routes may lead when the publication is opened
  SequenceLimit,  \* 2^32 in the code: one past the largest nlmsg_seq
  MaxChanges,     \* bound on the changes of the routing table
  MaxFaults,      \* bound on timeouts, dump errors, broken sockets
  Nobody, NoRoute

ASSUME RouteAssumption ==
  \A r \in Routes :
    r.covers \subseteq Destinations /\ r.prefix_len \in Nat /\ r.priority \in Nat
ASSUME TableAssumption ==
  InitialTables \subseteq [Routes -> Interfaces \cup {"unreachable", NoRoute}]
ASSUME RouteBounds ==
  /\ SequenceLimit \in Nat \ {0, 1}
  /\ MaxChanges \in Nat /\ MaxFaults \in Nat
ASSUME RouteNames ==
  /\ Nobody \notin Threads
  /\ {NoRoute, "unreachable", "none"} \cap Interfaces = {} /\ NoRoute # "unreachable"

VARIABLES
  table,          \* kernel: where each route leads, NoRoute if it is not there
  pending,        \* kernel: notifications queued on notification_socket
  overrun,        \* kernel: notifications were dropped, recv says ENOBUFS
  dump,           \* kernel: the dump it is writing, its sequence and what is left
  responses,      \* the messages queued on request_socket
  next_sequence,
  cached,         \* LinuxIpv6RouteEgress.cached, or NoRoute; with history: does its
                  \* socket work (sound), did it outlive a notification (outdated)
  owner,          \* who holds the lock
  pc,             \* per thread: where it is in a send
  local,          \* per thread: the locals of that send
  last,           \* history: what the last finished send returned
  changes, faults \* how often the environment acted

kernel == <<table, pending, overrun, changes>>
netlink == <<dump, responses, next_sequence>>
vars == <<kernel, netlink, cached, owner, pc, local, last, faults>>

Outs == Interfaces \cup {"unreachable"}
NoDump == [sequence |-> 0, rest |-> {}]
NoCandidate == [prefix_len |-> 0, priority |-> 0, disposition |-> NoRoute]
NoEgress == [interface |-> NoRoute, sound |-> FALSE, outdated |-> FALSE]

NoLocals == [destination |-> NoRoute, invalidated |-> FALSE, sequence |-> 0,
             best |-> NoCandidate, egress |-> NoEgress, changed |-> FALSE]

\* RouteCandidate::is_better_than
is_better_than(new, current) ==
  \/ current.disposition = NoRoute
  \/ new.prefix_len > current.prefix_len
  \/ new.prefix_len = current.prefix_len /\ new.priority < current.priority

\* Where the table may send d: along the longest matching prefix that is there,
\* and of these along one of the lowest priority (the documentation's words, and
\* the kernel's rule).  Entries may tie, and then either is right.
Present(d) == {r \in Routes : d \in r.covers /\ table[r] # NoRoute}
Best(d) ==
  {table[r] : r \in {r \in Present(d) : \A s \in Present(d) :
                       \/ s.prefix_len < r.prefix_len
                       \/ s.prefix_len = r.prefix_len /\ r.priority <= s.priority}}

Messages ==
  [sequence : Nat, kind : {"done", "error"}] \cup
  [sequence : Nat, kind : {"route"}, route : Routes, disposition : Outs]
Candidates == [prefix_len : Nat, priority : Nat, disposition : Outs] \cup {NoCandidate}
Stages == {"idle", "lock", "drain", "resolve", "receive", "open", "transmit", "failed"}

\* Each variable has its type: sequence numbers stay below their limit and are
\* never 0.
TypeOK ==
  /\ table \in [Routes -> Outs \cup {NoRoute}]
  /\ pending \in Nat /\ overrun \in BOOLEAN
  /\ dump.sequence \in Nat /\ dump.rest \subseteq Routes
  /\ responses \in Seq(Messages)
  /\ next_sequence \in 1 .. SequenceLimit - 1
  /\ cached \in {NoRoute} \cup
       [destination : Destinations, interface : Interfaces,
        sound : BOOLEAN, outdated : BOOLEAN]
  /\ owner \in Threads \cup {Nobody}
  /\ pc \in [Threads -> Stages]
  /\ \A t \in Threads :
       /\ local[t].destination \in Destinations \cup {NoRoute}
       /\ local[t].invalidated \in BOOLEAN /\ local[t].changed \in BOOLEAN
       /\ local[t].sequence \in 0 .. SequenceLimit - 1
       /\ local[t].best \in Candidates
       /\ local[t].egress \in {NoEgress} \cup
            [interface : Interfaces, sound : BOOLEAN, outdated : BOOLEAN]
  /\ last \in Interfaces \cup {"none", "RawSendFailed", "RawSocketBindFailed"}
  /\ changes \in 0 .. MaxChanges /\ faults \in 0 .. MaxFaults

Init ==
  /\ table \in InitialTables
  /\ pending = 0 /\ overrun = FALSE
  /\ dump = NoDump
  /\ responses = <<>>
  /\ next_sequence = 1
  /\ cached = NoRoute
  /\ owner = Nobody
  /\ pc = [t \in Threads |-> "idle"]
  /\ local = [t \in Threads |-> NoLocals]
  /\ last = "none"
  /\ changes = 0 /\ faults = 0

Goto(t, stage) == pc' = [pc EXCEPT ![t] = stage]
Unlock == owner' = Nobody

\* The send returns to the caller.
Finish(t, outcome) ==
  /\ Goto(t, "idle")
  /\ local' = [local EXCEPT ![t] = NoLocals]
  /\ last' = outcome

Fault == faults < MaxFaults /\ faults' = faults + 1

----------------------------------------------------------------------------
(* The kernel (external) *)

\* A route is added, replaced, withdrawn or made unreachable, and listeners
\* are told, or their queue is full and they are owed an ENOBUFS.
ChangeRoute(r, out) ==
  /\ changes < MaxChanges
  /\ table[r] # out
  /\ table' = [table EXCEPT ![r] = out]
  /\ changes' = changes + 1
  /\ \/ pending' = pending + 1 /\ UNCHANGED overrun
     \/ overrun' = TRUE /\ UNCHANGED pending
  /\ local' = [t \in Threads |->
                 IF pc[t] = "idle" THEN local[t] ELSE [local[t] EXCEPT !.changed = TRUE]]
  /\ UNCHANGED <<netlink, cached, owner, pc, last, faults>>

\* The kernel writes a dump as the reader takes it off the queue q: a route as
\* it is now, or, after the last one, NLMSG_DONE.  Routes that are not there
\* when the dump passes by are left out.
Written(q, d) ==
  LET here == {r \in d.rest : table[r] # NoRoute}
      message(r) == [sequence |-> d.sequence, kind |-> "route",
                     route |-> r, disposition |-> table[r]]
  IN  IF d = NoDump THEN {[queue |-> q, dump |-> d]}
      ELSE IF here = {}
      THEN {[queue |-> Append(q, [sequence |-> d.sequence, kind |-> "done"]), dump |-> NoDump]}
      ELSE {[queue |-> Append(q, message(r)), dump |-> [d EXCEPT !.rest = @ \ ({r} \cup s)]] :
              r \in here, s \in SUBSET (d.rest \ here)}

WriteDump(q, d) ==
  \E w \in Written(q, d) : responses' = w.queue /\ dump' = w.dump

\* recv takes the first message.
Dequeue == WriteDump(Tail(responses), dump)

\* A message that ends the lookup while the dump goes on: NLM_F_DUMP_INTR,
\* NLMSG_OVERRUN, or a datagram that cannot be parsed.
DumpError ==
  /\ dump # NoDump
  /\ Fault
  /\ responses' = Append(responses, [sequence |-> dump.sequence, kind |-> "error"])
  /\ UNCHANGED <<kernel, dump, next_sequence, cached, owner, pc, local, last>>

\* The cached packet socket stops working, with no notification.
BreakSocket ==
  /\ cached # NoRoute
  /\ cached.sound
  /\ Fault
  /\ cached' = [cached EXCEPT !.sound = FALSE]
  /\ local' = [t \in Threads |->
                 IF local[t].egress.interface = cached.interface
                 THEN [local[t] EXCEPT !.egress.sound = FALSE] ELSE local[t]]
  /\ UNCHANGED <<kernel, netlink, owner, pc, last>>

----------------------------------------------------------------------------
(* egress, under the lock *)

send(t, d) ==
  /\ pc[t] = "idle"
  /\ Goto(t, "lock")
  /\ local' = [local EXCEPT ![t].destination = d]
  /\ UNCHANGED <<kernel, netlink, cached, owner, last, faults>>

Lock(t) ==
  /\ pc[t] = "lock"
  /\ owner = Nobody
  /\ owner' = t
  /\ Goto(t, "drain")
  /\ UNCHANGED <<kernel, netlink, cached, local, last, faults>>

\* The end of drain_invalidation_notifications, and what egress does with its
\* answer.
Drained(t, invalidated) ==
  /\ cached' = IF invalidated THEN NoRoute ELSE cached
  /\ Goto(t, "resolve")
  /\ local' = [local EXCEPT ![t].invalidated = FALSE]
  /\ UNCHANGED <<table, changes, netlink, owner, last, faults>>

\* recv fails with ENOBUFS before it looks at the queue.
DrainOverrun(t) ==
  /\ pc[t] = "drain"
  /\ overrun
  /\ overrun' = FALSE
  /\ UNCHANGED pending
  /\ Drained(t, TRUE)

\* recv returns a notification of a link or a route.
DrainOne(t) ==
  /\ pc[t] = "drain"
  /\ ~overrun /\ pending > 0
  /\ pending' = pending - 1
  /\ local' = [local EXCEPT ![t].invalidated = TRUE]
  /\ UNCHANGED <<table, overrun, changes, netlink, cached, owner, pc, last, faults>>

\* recv would block: nothing is left.
DrainEnd(t) ==
  /\ pc[t] = "drain"
  /\ ~overrun /\ pending = 0
  /\ UNCHANGED <<pending, overrun>>
  /\ Drained(t, local[t].invalidated)

\* recv fails otherwise: the send fails, and what was drained is forgotten.
DrainFails(t) ==
  /\ pc[t] = "drain"
  /\ Fault
  /\ Unlock
  /\ Finish(t, "RawSendFailed")
  /\ cached' = IF cached # NoRoute /\ local[t].invalidated
               THEN [cached EXCEPT !.outdated = TRUE] ELSE cached
  /\ UNCHANGED <<kernel, netlink>>

\* Mutant of IsHit: a cached entry serves every destination.
AnyHit(t) == cached # NoRoute

IsHit(t) == cached # NoRoute /\ cached.destination = local[t].destination

\* The cached entry is for this destination: no lookup.
CacheHit(t) ==
  /\ pc[t] = "resolve"
  /\ IsHit(t)
  /\ local' = [local EXCEPT ![t].egress =
                 [interface |-> cached.interface, sound |-> cached.sound,
                  outdated |-> cached.outdated]]
  /\ Unlock
  /\ Goto(t, "transmit")
  /\ UNCHANGED <<kernel, netlink, cached, last, faults>>

\* next_sequence.wrapping_add(1).max(1)
NextSequence(s) == IF (s + 1) % SequenceLimit = 0 THEN 1 ELSE (s + 1) % SequenceLimit

\* lookup asks for a dump of the table; the kernel refuses one (EBUSY) while
\* it is still writing an earlier one to this socket.
Request(t) ==
  /\ pc[t] = "resolve"
  /\ ~IsHit(t)
  /\ next_sequence' = NextSequence(next_sequence)
  /\ local' = [local EXCEPT ![t].sequence = next_sequence]
  /\ IF dump = NoDump
     THEN WriteDump(responses, [sequence |-> next_sequence, rest |-> Routes])
     ELSE /\ responses' = Append(responses, [sequence |-> next_sequence, kind |-> "error"])
          /\ UNCHANGED dump
  /\ Goto(t, "receive")
  /\ UNCHANGED <<kernel, cached, owner, last, faults>>

\* parse_route_candidate: None for a route that does not match.
Candidate(m) == [prefix_len |-> m.route.prefix_len, priority |-> m.route.priority,
                 disposition |-> m.disposition]
Matches(t, m) == local[t].destination \in m.route.covers

\* Mutant of IsForeign: answers to an earlier request are not told apart.
NoneForeign(t, m) == FALSE

\* parse_route_dump_datagram passes over messages of another sequence.
IsForeign(t, m) == m.sequence # local[t].sequence

Receiving(t) == pc[t] = "receive" /\ responses # <<>>

ReceiveForeign(t) ==
  /\ Receiving(t)
  /\ IsForeign(t, Head(responses))
  /\ Dequeue
  /\ UNCHANGED <<kernel, next_sequence, cached, owner, pc, local, last, faults>>

ReceiveRoute(t) ==
  LET m == Head(responses)
  IN  /\ Receiving(t)
      /\ ~IsForeign(t, m) /\ m.kind = "route"
      /\ Dequeue
      /\ local' = [local EXCEPT ![t].best =
                     IF Matches(t, m) /\ is_better_than(Candidate(m), @)
                     THEN Candidate(m) ELSE @]
      /\ UNCHANGED <<kernel, next_sequence, cached, owner, pc, last, faults>>

\* NLMSG_DONE, and the best candidate is an interface.
ReceiveDone(t) ==
  LET m == Head(responses)
  IN  /\ Receiving(t)
      /\ ~IsForeign(t, m) /\ m.kind = "done"
      /\ local[t].best.disposition \in Interfaces
      /\ Dequeue
      /\ Goto(t, "open")
      /\ UNCHANGED <<kernel, next_sequence, cached, owner, local, last, faults>>

\* NLMSG_DONE with no usable route, or an error: the rest of the queue stays.
ReceiveError(t) ==
  LET m == Head(responses)
  IN  /\ Receiving(t)
      /\ ~IsForeign(t, m)
      /\ \/ m.kind = "error"
         \/ m.kind = "done" /\ local[t].best.disposition \notin Interfaces
      /\ Dequeue
      /\ Unlock
      /\ Finish(t, "RawSendFailed")
      /\ UNCHANGED <<kernel, next_sequence, cached, faults>>

\* SO_RCVTIMEO: the answer comes too late, and stays queued.
ReceiveTimeout(t) ==
  /\ pc[t] = "receive"
  /\ Fault
  /\ Unlock
  /\ Finish(t, "RawSendFailed")
  /\ UNCHANGED <<kernel, netlink, cached>>

\* linux_packet::open_ipv6 succeeds, and the entry replaces the cached one.
Open(t) ==
  LET egress == [interface |-> local[t].best.disposition,
                 sound |-> TRUE, outdated |-> FALSE]
  IN  /\ pc[t] = "open"
      /\ cached' = [destination |-> local[t].destination,
                    interface |-> egress.interface,
                    sound |-> TRUE, outdated |-> FALSE]
      /\ local' = [local EXCEPT ![t].egress = egress, ![t].best = NoCandidate,
                                ![t].sequence = 0]
      /\ Unlock
      /\ Goto(t, "transmit")
      /\ UNCHANGED <<kernel, netlink, last, faults>>

\* The interface went away, or is no Ethernet interface: open_ipv6 fails with
\* an error of its own.
OpenFails(t) ==
  /\ pc[t] = "open"
  /\ Fault
  /\ Unlock
  /\ Finish(t, "RawSocketBindFailed")
  /\ UNCHANGED <<kernel, netlink, cached>>

----------------------------------------------------------------------------
(* Transmission, without the lock *)

Transmit(t) ==
  /\ pc[t] = "transmit"
  /\ local[t].egress.sound
  /\ Finish(t, local[t].egress.interface)
  /\ UNCHANGED <<kernel, netlink, cached, owner, faults>>

\* sendto fails on a broken socket, or for once on a sound one.
TransmitFails(t) ==
  /\ pc[t] = "transmit"
  /\ IF local[t].egress.sound THEN Fault ELSE UNCHANGED faults
  /\ Goto(t, "failed")
  /\ UNCHANGED <<kernel, netlink, cached, owner, local, last>>

\* Mutant of Invalidate: the failure leaves the cache as it is.
InvalidateNothing(t) ==
  /\ pc[t] = "failed"
  /\ owner = Nobody
  /\ Finish(t, "RawSendFailed")
  /\ UNCHANGED <<kernel, netlink, cached, owner, faults>>

\* invalidate: takes the lock again, and forgets the entry unless it has been
\* replaced by one for another interface meanwhile.
Invalidate(t) ==
  /\ pc[t] = "failed"
  /\ owner = Nobody
  /\ cached' = IF cached # NoRoute /\ cached.interface = local[t].egress.interface
               THEN NoRoute ELSE cached
  /\ Finish(t, "RawSendFailed")
  /\ UNCHANGED <<kernel, netlink, owner, faults>>

----------------------------------------------------------------------------
SendStep(t) ==
  \/ Lock(t)
  \/ DrainOverrun(t) \/ DrainOne(t) \/ DrainEnd(t)
  \/ CacheHit(t) \/ Request(t)
  \/ ReceiveForeign(t) \/ ReceiveRoute(t) \/ ReceiveDone(t) \/ ReceiveError(t)
  \/ Open(t)
  \/ Transmit(t)
  \/ TransmitFails(t) \/ Invalidate(t)

Failures(t) == DrainFails(t) \/ ReceiveTimeout(t) \/ OpenFails(t)

Next ==
  \/ \E t \in Threads : SendStep(t) \/ Failures(t) \/ \E d \in Destinations : send(t, d)
  \/ \E r \in Routes, out \in Outs \cup {NoRoute} : ChangeRoute(r, out)
  \/ DumpError \/ BreakSocket

Spec == Init /\ [][Next]_vars

\* The scheduler runs every thread that is inside a send, and the application
\* does not stop sending.
Fairness ==
  \A t \in Threads :
    WF_vars(SendStep(t)) /\ WF_vars(\E d \in Destinations : send(t, d))

FairSpec == Spec /\ Fairness

----------------------------------------------------------------------------
(* Properties *)

\* With the lock free and no notification waiting, the cached interface is one
\* the kernel may choose now: whatever happened to a dump on the way
\* (changes between its messages, late answers to an earlier one), a
\* notification is still there to undo it.  A drain that fails after it read a
\* notification is the one exception.
CacheCurrent ==
  cached # NoRoute /\ ~cached.outdated /\ owner = Nobody /\ pending = 0 /\ ~overrun =>
    cached.interface \in Best(cached.destination)

\* t sends while the routing table does not change.
SentUndisturbed(t) ==
  pc[t] = "transmit" /\ pc'[t] = "idle" /\ ~local[t].changed

\* A send during which the routing table does not change leaves by an
\* interface the table names, however often it changed before, and whatever
\* other threads do to the cache; but for a drain that failed.
FollowsRoute ==
  [][\A t \in Threads :
       SentUndisturbed(t) /\ ~local[t].egress.outdated =>
         last' \in Best(local[t].destination)]_vars

\* The same without the exception, as docs/raw-packets.md has it:
\* notifications invalidate the cached destination, interface and socket.
AlwaysFollowsRoute ==
  [][\A t \in Threads :
       SentUndisturbed(t) => last' \in Best(local[t].destination)]_vars

\* A failure does not poison the publication (docs/raw-packets.md): when the
\* table names interfaces for every destination from some time on, so do
\* all sends from some time on.
Routable == \A d \in Destinations : Best(d) # {} /\ Best(d) \subseteq Interfaces
Recovers == <>[]Routable => <>[](last \in Interfaces)
=============================================================================
