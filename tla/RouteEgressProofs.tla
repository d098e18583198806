------------------------- MODULE RouteEgressProofs -------------------------
(***************************************************************************)
(* Route-selected egress, for any threads, routes, tables and number of    *)
(* faults: the cached interface and the one a packet leaves by are those   *)
(* of the routing table, provided that sequence numbers are not used again *)
(* while answers to their first use may be queued.                         *)
(***************************************************************************)
EXTENDS RouteEgress, FiniteSetTheorems, TLAPS

----------------------------------------------------------------------------
(* Notions *)

\* nlmsg_seq has 32 bits, and a dump outlives one request for each of its
\* messages and for each fault, at most.
SequencesSuffice ==
  IsFiniteSet(Routes) /\ Cardinality(Routes) + MaxFaults + 2 < SequenceLimit

\* How many requests ago sequence number s was used, if it was used at all.
AgeAt(next, s) == IF s < next THEN next - s ELSE next - s + (SequenceLimit - 1)
Age(s) == AgeAt(next_sequence, s)

\* The sequence number some thread waits for, or 0.
Awaited ==
  IF owner # Nobody /\ pc[owner] = "receive" THEN local[owner].sequence ELSE 0

\* Where table tb may send d, as Best has it.
PresentIn(tb, d) == {r \in Routes : d \in r.covers /\ tb[r] # NoRoute}
BestIn(tb, d) ==
  {tb[r] : r \in {r \in PresentIn(tb, d) : \A s \in PresentIn(tb, d) :
                    \/ s.prefix_len < r.prefix_len
                    \/ s.prefix_len = r.prefix_len /\ r.priority <= s.priority}}

\* The candidate that route r is in table tb.
Offer(tb, r) == [prefix_len |-> r.prefix_len, priority |-> r.priority, disposition |-> tb[r]]

----------------------------------------------------------------------------
(* The inductive invariant *)

\* The types of what threads and the kernel keep.
Sequence == 1 .. SequenceLimit - 1
Egress == {NoEgress} \cup [interface : Interfaces, sound : BOOLEAN, outdated : BOOLEAN]
Local == [destination : Destinations \cup {NoRoute}, invalidated : BOOLEAN,
          sequence : {0} \cup Sequence, best : Candidates, egress : Egress, changed : BOOLEAN]
Entry == [destination : Destinations, interface : Interfaces, sound : BOOLEAN, outdated : BOOLEAN]
Message ==
  [sequence : Sequence, kind : {"done", "error"}] \cup
  [sequence : Sequence, kind : {"route"}, route : Routes, disposition : Outs]

\* The variables of the kernel, of the netlink sockets and of the senders.
KernelTypes ==
  /\ table \in [Routes -> Outs \cup {NoRoute}]
  /\ pending \in Nat /\ overrun \in BOOLEAN
  /\ changes \in 0 .. MaxChanges /\ faults \in 0 .. MaxFaults
NetlinkTypes ==
  /\ dump \in [sequence : Sequence, rest : SUBSET Routes] \cup {NoDump}
  /\ responses \in Seq(Message)
  /\ next_sequence \in Sequence
SendTypes ==
  /\ cached \in {NoRoute} \cup Entry
  /\ owner \in Threads \cup {Nobody}
  /\ pc \in [Threads -> Stages]
  /\ local \in [Threads -> Local]
  /\ last \in Interfaces \cup {"none", "RawSendFailed", "RawSocketBindFailed"}

\* What a thread knows at each stage; only the one that holds the lock is in
\* between taking it and letting go of it.
Underway(t) ==
  /\ pc[t] \in {"drain", "resolve", "receive", "open"} <=> owner = t
  /\ local[t].invalidated => pc[t] = "drain"
  /\ pc[t] # "idle" => local[t].destination \in Destinations
  /\ pc[t] = "receive" => local[t].sequence # 0
  /\ pc[t] \notin {"receive", "open"} => local[t].best = NoCandidate
  /\ pc[t] = "open" => local[t].best.disposition \in Interfaces
  /\ pc[t] \in {"transmit", "failed"} => local[t].egress.interface \in Interfaces

\* A dump that goes on has shrunk with every request since its own.
DumpAge ==
  dump # NoDump =>
    Age(dump.sequence) + Cardinality(dump.rest)
      <= Cardinality(Routes) + faults + (IF Awaited = 0 THEN 0 ELSE 1)

\* Messages are taken off the queue up to an awaited one, unless there is a
\* fault, so what is queued is not much older than a dump can be.
QueueAge ==
  \A i \in DOMAIN responses :
    LET age == Age(responses[i].sequence)
        bound == Cardinality(Routes) + faults + 1
    IN  \/ age <= bound
        \/ /\ Awaited # 0 /\ age <= bound + 1
           /\ \A j \in 1 .. i : responses[j].sequence # Awaited

\* The table has not changed since t drained the notifications: none has come,
\* or t's send is undisturbed.
Calm(t) == (pending = 0 /\ ~overrun) \/ ~local[t].changed

\* Message i of queue q answers request s: with a route, or with the dump's end.
RouteFor(q, i, s) == q[i].sequence = s /\ q[i].kind = "route"
DoneFor(q, i, s) == q[i].sequence = s /\ q[i].kind = "done"

\* The routes of its destination that would still change t's candidate.
Wanted(t) ==
  {r \in PresentIn(table, local[t].destination) : is_better_than(Offer(table, r), local[t].best)}

\* While the table does not change: what is queued for s is so, the end comes
\* last, and if it may come, every wanted route is queued or yet to be written.
Truthful(q, s) ==
  \A i \in DOMAIN q : RouteFor(q, i, s) => q[i].disposition = table[q[i].route]
EndsLast(q, d, s) ==
  \A i \in DOMAIN q : DoneFor(q, i, s) => i = Len(q) /\ d = NoDump
Complete(q, d, s, wanted) ==
  d.sequence = s \/ (\E i \in DOMAIN q : DoneFor(q, i, s)) =>
    \A r \in wanted : \/ \E i \in DOMAIN q : RouteFor(q, i, s) /\ q[i].route = r
                      \/ d.sequence = s /\ r \in d.rest
Answers(q, d, s, wanted) == Truthful(q, s) /\ EndsLast(q, d, s) /\ Complete(q, d, s, wanted)

\* A candidate is a route of the destination.
Candidature(t) ==
  \/ local[t].best = NoCandidate
  \/ \E r \in PresentIn(table, local[t].destination) : local[t].best = Offer(table, r)

\* What a lookup has and will get, unless the table changed under it.
Lookup(t) ==
  /\ pc[t] = "receive" /\ Calm(t) =>
       Answers(responses, dump, local[t].sequence, Wanted(t)) /\ Candidature(t)
  /\ pc[t] = "open" /\ Calm(t) =>
       local[t].best.disposition \in BestIn(table, local[t].destination)

\* The cached interface is right unless a notification says otherwise, waiting
\* or just taken; a send that found it so and is undisturbed uses it.
CacheRight ==
  cached # NoRoute /\ ~cached.outdated /\ pending = 0 /\ ~overrun
    /\ (\A t \in Threads : ~local[t].invalidated) =>
      cached.interface \in BestIn(table, cached.destination)
Resolved(t) ==
  pc[t] = "resolve" /\ ~local[t].changed /\ cached # NoRoute /\ ~cached.outdated =>
    cached.interface \in BestIn(table, cached.destination)
Chosen(t) ==
  pc[t] = "transmit" /\ ~local[t].changed /\ ~local[t].egress.outdated =>
    local[t].egress.interface \in BestIn(table, local[t].destination)

\* All of it.
ThreadInv(t) == Underway(t) /\ Lookup(t) /\ Resolved(t) /\ Chosen(t)
RouteTypes == KernelTypes /\ NetlinkTypes /\ SendTypes
RouteInv ==
  RouteTypes /\ (\A t \in Threads : ThreadInv(t)) /\ DumpAge /\ QueueAge /\ CacheRight

----------------------------------------------------------------------------
(* Sequence numbers *)

\* wrapping_add(1).max(1): the next number, and 1 after the largest.
LEMMA NextIs ==
  ASSUME NEW s \in Sequence
  PROVE  NextSequence(s) = IF s = SequenceLimit - 1 THEN 1 ELSE s + 1
<1>1. SequenceLimit \in Nat /\ SequenceLimit > 1 /\ s \in Nat /\ s >= 1 /\ s <= SequenceLimit - 1
  BY RouteBounds DEF Sequence
<1>2. CASE s = SequenceLimit - 1
  <2>1. s + 1 = SequenceLimit  BY <1>1, <1>2
  <2>2. SequenceLimit % SequenceLimit = 0  BY <1>1
  <2> QED BY <1>2, <2>1, <2>2 DEF NextSequence
<1>3. CASE s # SequenceLimit - 1
  <2>1. s + 1 < SequenceLimit /\ s + 1 \in Nat /\ s + 1 # 0  BY <1>1, <1>3
  <2>2. (s + 1) % SequenceLimit = s + 1  BY <1>1, <2>1
  <2> QED BY <1>3, <2>1, <2>2 DEF NextSequence
<1> QED BY <1>2, <1>3

\* A request makes every number one older, but the one it uses.
LEMMA NextAges ==
  ASSUME NEW n \in Sequence
  PROVE  /\ NextSequence(n) \in Sequence
         /\ AgeAt(NextSequence(n), n) = 1
         /\ AgeAt(n, n) = SequenceLimit - 1
         /\ \A s \in Sequence : /\ AgeAt(n, s) \in Nat
                                /\ s # n => AgeAt(NextSequence(n), s) = AgeAt(n, s) + 1
<1>1. SequenceLimit \in Nat /\ SequenceLimit > 1 /\ n \in Nat /\ n >= 1 /\ n <= SequenceLimit - 1
  BY RouteBounds DEF Sequence
<1>2. NextSequence(n) = IF n = SequenceLimit - 1 THEN 1 ELSE n + 1  BY NextIs
<1>3. NextSequence(n) \in Sequence /\ AgeAt(NextSequence(n), n) = 1
      /\ AgeAt(n, n) = SequenceLimit - 1
  BY <1>1, <1>2 DEF Sequence, AgeAt
<1>4. ASSUME NEW s \in Sequence
      PROVE  /\ AgeAt(n, s) \in Nat
             /\ s # n => AgeAt(NextSequence(n), s) = AgeAt(n, s) + 1
  <2>1. s \in Nat /\ s >= 1 /\ s <= SequenceLimit - 1  BY <1>1 DEF Sequence
  <2> QED BY <1>1, <1>2, <2>1 DEF AgeAt
<1> QED BY <1>3, <1>4

----------------------------------------------------------------------------
(* Routes *)

\* Best is BestIn of the table as it is, and as it will be.
LEMMA BestIs ==
  /\ \A d : Best(d) = BestIn(table, d)
  /\ \A d : Present(d) = PresentIn(table, d)
  BY DEF Best, BestIn, Present, PresentIn

\* A present route that no other one beats is one of the best.
LEMMA UnbeatenIsBest ==
  ASSUME NEW tb, NEW d, NEW b \in PresentIn(tb, d),
         \A r \in PresentIn(tb, d) : ~is_better_than(Offer(tb, r), Offer(tb, b))
  PROVE  tb[b] \in BestIn(tb, d)
<1> DEFINE P == PresentIn(tb, d)
<1>1. \A r \in P : r \in Routes /\ r.prefix_len \in Nat /\ r.priority \in Nat
  BY RouteAssumption DEF PresentIn
<1>2. ASSUME NEW r \in P
      PROVE  \/ r.prefix_len < b.prefix_len
             \/ r.prefix_len = b.prefix_len /\ b.priority <= r.priority
  <2>1. ~is_better_than(Offer(tb, r), Offer(tb, b))  OBVIOUS
  <2>2. /\ ~(r.prefix_len > b.prefix_len)
        /\ ~(r.prefix_len = b.prefix_len /\ r.priority < b.priority)
    BY <2>1 DEF is_better_than, Offer
  <2> QED BY <1>1, <2>2
<1> QED BY <1>2 DEF BestIn

\* What does not beat a candidate does not beat a better one either.
LEMMA BetterTransitive ==
  ASSUME NEW a \in Candidates, NEW b \in Candidates, NEW c \in Candidates,
         b.disposition # NoRoute, ~is_better_than(a, b), is_better_than(c, b)
  PROVE  ~is_better_than(a, c) \/ c.disposition = NoRoute
<1>1. \A x \in Candidates : x.prefix_len \in Nat /\ x.priority \in Nat
  BY DEF Candidates, NoCandidate
<1> QED BY <1>1 DEF is_better_than

\* A route's offer is a candidate, and does not beat itself.
LEMMA Offers ==
  ASSUME NEW tb \in [Routes -> Outs \cup {NoRoute}], NEW r \in Routes, tb[r] # NoRoute
  PROVE  /\ Offer(tb, r) \in Candidates /\ Offer(tb, r).disposition = tb[r]
         /\ Offer(tb, r).disposition # NoRoute
         /\ ~is_better_than(Offer(tb, r), Offer(tb, r))
<1>1. r.prefix_len \in Nat /\ r.priority \in Nat /\ tb[r] \in Outs
  BY RouteAssumption
<1>2. /\ Offer(tb, r).prefix_len = r.prefix_len /\ Offer(tb, r).priority = r.priority
      /\ Offer(tb, r).disposition = tb[r] /\ Offer(tb, r) \in Candidates
  BY <1>1 DEF Offer, Candidates
<1> QED BY <1>1, <1>2 DEF is_better_than

----------------------------------------------------------------------------
(* Frames: what a step leaves alone *)

\* A thread that a step does not touch keeps what it knows.
LEMMA Elsewhere ==
  ASSUME NEW t \in Threads, ThreadInv(t),
         pc'[t] = pc[t], local'[t] = local[t], table' = table, owner' = t <=> owner = t,
         pc[t] \in {"resolve", "receive", "open"} =>
           UNCHANGED <<pending, overrun, dump, responses, cached>>
  PROVE  ThreadInv(t)'
<1>1. Underway(t)'  BY DEF ThreadInv, Underway
<1>2. Lookup(t)'
  <2>1. CASE pc[t] \in {"receive", "open"}
    BY <2>1 DEF ThreadInv, Lookup, Calm, Answers, Truthful, Candidature, Complete, EndsLast, Wanted
  <2>2. CASE pc[t] \notin {"receive", "open"}
    BY <2>2 DEF Lookup
  <2> QED BY <2>1, <2>2
<1>3. Resolved(t)'
  <2>1. CASE pc[t] = "resolve"  BY <2>1 DEF ThreadInv, Resolved
  <2>2. CASE pc[t] # "resolve"  BY <2>2 DEF Resolved
  <2> QED BY <2>1, <2>2
<1>4. Chosen(t)'  BY DEF ThreadInv, Chosen
<1> QED BY <1>1, <1>2, <1>3, <1>4 DEF ThreadInv

\* Only one thread receives, so Awaited is its sequence number.
LEMMA AwaitedIs ==
  ASSUME owner \in Threads \cup {Nobody}, \A t \in Threads : Underway(t)
  PROVE  /\ \A t \in Threads : pc[t] = "receive" =>
              Awaited = local[t].sequence /\ Awaited # 0 /\ owner = t
         /\ (\A t \in Threads : pc[t] # "receive") => Awaited = 0
         /\ Awaited # 0 => \E t \in Threads : pc[t] = "receive" /\ Awaited = local[t].sequence
<1>1. ASSUME NEW t \in Threads, pc[t] = "receive"
      PROVE  Awaited = local[t].sequence /\ Awaited # 0 /\ owner = t
  <2>1. owner = t /\ local[t].sequence # 0  BY <1>1 DEF Underway
  <2> QED BY <1>1, <2>1, RouteNames DEF Awaited
<1>2. Awaited # 0 => \E t \in Threads : pc[t] = "receive" /\ Awaited = local[t].sequence
  BY DEF Awaited
<1> QED BY <1>1, <1>2

\* The backlog only depends on the netlink socket, on who waits for what and
\* on the faults so far.
LEMMA BacklogFrame ==
  ASSUME RouteTypes, DumpAge, QueueAge, UNCHANGED <<dump, responses, next_sequence>>,
         Awaited' = Awaited, faults' \in Nat, faults' >= faults,
         IsFiniteSet(Routes)
  PROVE  DumpAge' /\ QueueAge'
<1>1. faults \in Nat /\ Cardinality(Routes) \in Nat
  BY FS_CardinalityType, RouteBounds DEF RouteTypes, KernelTypes
<1>2. next_sequence \in Sequence /\ responses \in Seq(Message)
      /\ dump \in [sequence : Sequence, rest : SUBSET Routes] \cup {NoDump}
  BY DEF RouteTypes, NetlinkTypes
<1>3. DumpAge'
  <2>1. CASE dump = NoDump  BY <2>1 DEF DumpAge
  <2>2. CASE dump # NoDump
    <3>1. dump.sequence \in Sequence /\ dump.rest \subseteq Routes  BY <1>2, <2>2
    <3>2. Cardinality(dump.rest) \in Nat  BY <3>1, FS_Subset, FS_CardinalityType
    <3>3. Age(dump.sequence) \in Nat /\ Age(dump.sequence)' = Age(dump.sequence)
      BY <1>2, <3>1, NextAges DEF Age
    <3>4. DumpAge'  BY <1>1, <2>2, <3>2, <3>3 DEF DumpAge
    <3> QED BY <3>4
  <2> QED BY <2>1, <2>2
<1>4. QueueAge'
  <2> SUFFICES ASSUME NEW i \in DOMAIN responses
               PROVE  LET age == Age(responses[i].sequence)
                          bound == Cardinality(Routes) + faults' + 1
                      IN  \/ age <= bound
                          \/ /\ Awaited # 0 /\ age <= bound + 1
                             /\ \A j \in 1 .. i : responses[j].sequence # Awaited
    BY DEF QueueAge, Age
  <2>1. responses[i].sequence \in Sequence  BY <1>2 DEF Message
  <2>2. Age(responses[i].sequence) \in Nat  BY <1>2, <2>1, NextAges DEF Age
  <2>3. LET age == Age(responses[i].sequence)
            bound == Cardinality(Routes) + faults + 1
        IN  \/ age <= bound
            \/ /\ Awaited # 0 /\ age <= bound + 1
               /\ \A j \in 1 .. i : responses[j].sequence # Awaited
    BY DEF QueueAge
  <2> QED BY <1>1, <2>2, <2>3
<1> QED BY <1>3, <1>4

----------------------------------------------------------------------------
(* Writing and reading a dump *)

\* The dump the kernel is writing, if any.
DumpType == [sequence : Sequence, rest : SUBSET Routes] \cup {NoDump}

\* What WriteDump does: nothing without a dump, NLMSG_DONE when no route is left,
\* or a message for one route, passing over routes that are not there.
Wrote(q, d) ==
  \/ d = NoDump /\ responses' = q /\ dump' = NoDump
  \/ /\ d # NoDump /\ \A r \in d.rest : table[r] = NoRoute
     /\ responses' = Append(q, [sequence |-> d.sequence, kind |-> "done"])
     /\ dump' = NoDump
  \/ \E r \in d.rest : \E rest \in SUBSET (d.rest \ {r}) :
       /\ d # NoDump /\ table[r] # NoRoute
       /\ \A x \in d.rest \ rest : x = r \/ table[x] = NoRoute
       /\ responses' = Append(q, [sequence |-> d.sequence, kind |-> "route",
                                  route |-> r, disposition |-> table[r]])
       /\ dump' = [sequence |-> d.sequence, rest |-> rest]

\* WriteDump does one of these three.
LEMMA WriteDumpIs ==
  ASSUME NEW q, NEW d \in DumpType, WriteDump(q, d)
  PROVE  Wrote(q, d)
<1> DEFINE here == {r \in d.rest : table[r] # NoRoute}
           message(r) == [sequence |-> d.sequence, kind |-> "route",
                          route |-> r, disposition |-> table[r]]
<1>1. PICK w \in Written(q, d) : responses' = w.queue /\ dump' = w.dump  BY DEF WriteDump
<1>2. CASE d = NoDump
  <2>1. w = [queue |-> q, dump |-> d]  BY <1>1, <1>2 DEF Written
  <2> QED BY <1>1, <1>2, <2>1 DEF Wrote
<1>3. CASE d # NoDump /\ here = {}
  <2>1. w = [queue |-> Append(q, [sequence |-> d.sequence, kind |-> "done"]), dump |-> NoDump]
    BY <1>1, <1>3 DEF Written
  <2>2. responses' = Append(q, [sequence |-> d.sequence, kind |-> "done"]) /\ dump' = NoDump
    BY <1>1, <2>1
  <2>3. \A r \in d.rest : table[r] = NoRoute  BY <1>3
  <2> QED BY <1>3, <2>2, <2>3 DEF Wrote
<1>4. CASE d # NoDump /\ here # {}
  <2> DEFINE After(r, s) ==
        [queue |-> Append(q, message(r)), dump |-> [d EXCEPT !.rest = @ \ ({r} \cup s)]]
             skipped == SUBSET (d.rest \ here)
             A == {[queue |-> q, dump |-> d]}
             B == {[queue |-> Append(q, [sequence |-> d.sequence, kind |-> "done"]),
                    dump |-> NoDump]}
             C == {After(r, s) : r \in here, s \in skipped}
  <2>1. Written(q, d) = C
    <3>1. Written(q, d) = IF d = NoDump THEN A ELSE IF here = {} THEN B ELSE C
      BY DEF Written
    <3> HIDE DEF A, B, C, here
    <3> QED BY <1>4, <3>1
  <2> HIDE DEF After, here, skipped, message
  <2>2. PICK r \in here, s \in skipped : w = After(r, s)
    BY <1>1, <2>1
  <2> USE DEF After, here, skipped, message
  <2> DEFINE rest == d.rest \ ({r} \cup s)
  <2>3. responses' = Append(q, message(r)) /\ dump' = [d EXCEPT !.rest = rest]
    BY <1>1, <2>2
  <2>4. d = [sequence |-> d.sequence, rest |-> d.rest]  BY <1>4 DEF DumpType
  <2>5. dump' = [sequence |-> d.sequence, rest |-> rest]
    <3> HIDE DEF rest
    <3> QED BY <2>3, <2>4
  <2>6. rest \in SUBSET (d.rest \ {r}) /\ \A x \in d.rest \ rest : x = r \/ table[x] = NoRoute
    OBVIOUS
  <2>7. r \in d.rest /\ table[r] # NoRoute  OBVIOUS
  <2> HIDE DEF rest, here, skipped, After
  <2> QED BY <1>4, <2>3, <2>5, <2>6, <2>7 DEF Wrote
<1> QED BY <1>2, <1>3, <1>4

\* What is written is an answer to the dump's request, and what is left of the
\* dump is less than before.
LEMMA WroteFacts ==
  ASSUME NEW q \in Seq(Message), NEW d \in DumpType, Wrote(q, d),
         table \in [Routes -> Outs \cup {NoRoute}]
  PROVE  /\ responses' \in Seq(Message) /\ dump' \in DumpType
         /\ \/ responses' = q
            \/ \E m \in Message :
                 d # NoDump /\ m.sequence = d.sequence /\ responses' = Append(q, m)
         /\ dump' # NoDump =>
              /\ d # NoDump /\ dump'.sequence = d.sequence
              /\ dump'.rest \subseteq d.rest /\ dump'.rest # d.rest
<1>1. CASE d = NoDump /\ responses' = q /\ dump' = NoDump
  BY <1>1 DEF DumpType
<1>2. CASE /\ d # NoDump /\ \A r \in d.rest : table[r] = NoRoute
           /\ responses' = Append(q, [sequence |-> d.sequence, kind |-> "done"])
           /\ dump' = NoDump
  <2> DEFINE m == [sequence |-> d.sequence, kind |-> "done"]
  <2>1. d.sequence \in Sequence  BY <1>2 DEF DumpType
  <2>2. m \in Message /\ m.sequence = d.sequence  BY <2>1 DEF Message
  <2>3. responses' = Append(q, m)  BY <1>2
  <2> HIDE DEF m
  <2> QED BY <1>2, <2>2, <2>3 DEF DumpType
<1>3. ASSUME NEW r \in d.rest, NEW rest \in SUBSET (d.rest \ {r}),
             d # NoDump, table[r] # NoRoute,
             responses' = Append(q, [sequence |-> d.sequence, kind |-> "route",
                                     route |-> r, disposition |-> table[r]]),
             dump' = [sequence |-> d.sequence, rest |-> rest]
      PROVE  /\ responses' \in Seq(Message) /\ dump' \in DumpType
             /\ \E m \in Message :
                  d # NoDump /\ m.sequence = d.sequence /\ responses' = Append(q, m)
             /\ d # NoDump /\ dump'.sequence = d.sequence
             /\ dump'.rest \subseteq d.rest /\ dump'.rest # d.rest
  <2> DEFINE m == [sequence |-> d.sequence, kind |-> "route", route |-> r, disposition |-> table[r]]
  <2>1. d.sequence \in Sequence /\ d.rest \subseteq Routes  BY <1>3 DEF DumpType
  <2>2. m \in Message /\ m.sequence = d.sequence  BY <1>3, <2>1 DEF Message
  <2>3. responses' = Append(q, m)  BY <1>3
  <2> HIDE DEF m
  <2>4. dump' \in DumpType /\ dump'.sequence = d.sequence /\ dump'.rest = rest
    BY <1>3, <2>1 DEF DumpType
  <2> QED BY <1>3, <2>2, <2>3, <2>4
<1> QED BY <1>1, <1>2, <1>3 DEF Wrote

\* A smaller rest has fewer routes.
LEMMA FewerLeft ==
  ASSUME IsFiniteSet(Routes), NEW S \in SUBSET Routes, NEW T \in SUBSET S, T # S
  PROVE  /\ Cardinality(S) \in Nat /\ Cardinality(T) \in Nat
         /\ Cardinality(T) + 1 <= Cardinality(S) /\ Cardinality(S) <= Cardinality(Routes)
         /\ Cardinality(Routes) \in Nat
<1>1. IsFiniteSet(S) /\ Cardinality(S) <= Cardinality(Routes)  BY FS_Subset
<1>2. IsFiniteSet(T) /\ Cardinality(T) <= Cardinality(S) /\ Cardinality(T) # Cardinality(S)
  BY <1>1, FS_Subset
<1>3. Cardinality(S) \in Nat /\ Cardinality(T) \in Nat /\ Cardinality(Routes) \in Nat
  BY <1>1, <1>2, FS_CardinalityType
<1> QED BY <1>1, <1>2, <1>3

\* Taking a message off the queue, the awaited one if the thread then stops
\* waiting, leaves the backlog bounded.
LEMMA BacklogDequeue ==
  ASSUME RouteTypes, DumpAge, QueueAge, IsFiniteSet(Routes), responses # <<>>, Dequeue,
         next_sequence' = next_sequence, faults' = faults, Awaited # 0,
         Awaited' = Awaited \/ (Awaited' = 0 /\ Head(responses).sequence = Awaited)
  PROVE  DumpAge' /\ QueueAge'
<1> DEFINE q == Tail(responses)
           bound == Cardinality(Routes) + faults + 1
<1>1. faults \in Nat /\ Cardinality(Routes) \in Nat
  BY FS_CardinalityType, RouteBounds DEF RouteTypes, KernelTypes
<1>2. next_sequence \in Sequence /\ responses \in Seq(Message) /\ dump \in DumpType
      /\ table \in [Routes -> Outs \cup {NoRoute}]
  BY DEF RouteTypes, NetlinkTypes, KernelTypes, DumpType
<1>3. /\ q \in Seq(Message) /\ Len(q) = Len(responses) - 1 /\ Len(responses) \in Nat
      /\ \A i \in 1 .. Len(q) : q[i] = responses[i + 1]
      /\ Head(responses) = responses[1]
  BY <1>2
<1>4. Wrote(q, dump)  BY <1>2, WriteDumpIs DEF Dequeue
<1> HIDE DEF q
<1>5. /\ responses' \in Seq(Message)
      /\ \/ responses' = q
         \/ \E m \in Message :
              dump # NoDump /\ m.sequence = dump.sequence /\ responses' = Append(q, m)
      /\ dump' # NoDump =>
           /\ dump # NoDump /\ dump'.sequence = dump.sequence
           /\ dump'.rest \subseteq dump.rest /\ dump'.rest # dump.rest
  BY <1>2, <1>3, <1>4, WroteFacts
<1>6. ASSUME dump # NoDump
      PROVE  /\ dump.sequence \in Sequence /\ dump.rest \subseteq Routes
             /\ Cardinality(dump.rest) \in Nat /\ Age(dump.sequence) \in Nat
             /\ Age(dump.sequence) + Cardinality(dump.rest) <= bound
  <2>1. dump.sequence \in Sequence /\ dump.rest \subseteq Routes  BY <1>2, <1>6 DEF DumpType
  <2>2. Cardinality(dump.rest) \in Nat  BY <2>1, FS_Subset, FS_CardinalityType
  <2>3. Age(dump.sequence) \in Nat  BY <1>2, <2>1, NextAges DEF Age
  <2>4. Age(dump.sequence) + Cardinality(dump.rest) <= Cardinality(Routes) + faults + 1
    BY <1>6 DEF DumpAge
  <2> QED BY <2>1, <2>2, <2>3, <2>4
<1>7. DumpAge'
  <2>1. CASE dump' = NoDump  BY <2>1 DEF DumpAge
  <2>2. CASE dump' # NoDump
    <3>1. /\ dump # NoDump /\ dump'.sequence = dump.sequence
          /\ dump'.rest \subseteq dump.rest /\ dump'.rest # dump.rest
      BY <1>5, <2>2
    <3>2. Cardinality(dump'.rest) \in Nat /\ Cardinality(dump'.rest) + 1 <= Cardinality(dump.rest)
      BY <1>6, <3>1, FewerLeft
    <3>3. Age(dump.sequence)' = Age(dump.sequence)  BY <3>1 DEF Age
    <3>4. Age(dump.sequence) + Cardinality(dump'.rest) <= Cardinality(Routes) + faults
      BY <1>1, <1>6, <3>1, <3>2
    <3> QED BY <1>1, <1>6, <3>1, <3>2, <3>3, <3>4 DEF DumpAge
  <2> QED BY <2>1, <2>2
<1>8. QueueAge'
  <2> SUFFICES ASSUME NEW i \in DOMAIN responses'
               PROVE  \/ Age(responses'[i].sequence) <= bound
                      \/ /\ Awaited' # 0 /\ Age(responses'[i].sequence) <= bound + 1
                         /\ \A j \in 1 .. i : responses'[j].sequence # Awaited'
    BY DEF QueueAge, Age
  <2>1. ASSUME i \in 1 .. Len(q), \A j \in 1 .. Len(q) : responses'[j] = q[j]
        PROVE  \/ Age(responses'[i].sequence) <= bound
               \/ /\ Awaited' # 0 /\ Age(responses'[i].sequence) <= bound + 1
                  /\ \A j \in 1 .. i : responses'[j].sequence # Awaited'
    <3>1. responses'[i] = responses[i + 1] /\ i + 1 \in DOMAIN responses
      BY <1>2, <1>3, <2>1
    <3>2. \/ Age(responses[i + 1].sequence) <= bound
          \/ /\ Awaited # 0 /\ Age(responses[i + 1].sequence) <= bound + 1
             /\ \A j \in 1 .. i + 1 : responses[j].sequence # Awaited
      BY <3>1 DEF QueueAge
    <3>3. ASSUME \A j \in 1 .. i + 1 : responses[j].sequence # Awaited
          PROVE  Awaited' = Awaited /\ \A j \in 1 .. i : responses'[j].sequence # Awaited'
      <4>1. 1 \in 1 .. i + 1  BY <2>1, <1>3
      <4>2. Awaited' = Awaited  BY <1>3, <3>3, <4>1
      <4>3. \A j \in 1 .. i : j + 1 \in 1 .. i + 1 /\ j \in 1 .. Len(q)  BY <1>3, <2>1
      <4> QED BY <1>3, <2>1, <3>3, <4>2, <4>3
    <3> QED BY <3>1, <3>2, <3>3
  <2>2. CASE responses' = q
    BY <1>3, <2>1, <2>2
  <2>3. CASE \E m \in Message :
               dump # NoDump /\ m.sequence = dump.sequence /\ responses' = Append(q, m)
    <3>1. PICK m \in Message :
            dump # NoDump /\ m.sequence = dump.sequence /\ responses' = Append(q, m)
      BY <2>3
    <3>2. /\ DOMAIN responses' = 1 .. Len(q) + 1
          /\ \A j \in 1 .. Len(q) : responses'[j] = q[j]
          /\ responses'[Len(q) + 1] = m
      BY <1>3, <3>1
    <3>3. CASE i \in 1 .. Len(q)  BY <2>1, <3>2, <3>3
    <3>4. CASE i = Len(q) + 1
      <4>1. responses'[i].sequence = dump.sequence  BY <3>1, <3>2, <3>4
      <4>2. Age(dump.sequence) <= bound  BY <1>1, <1>6, <3>1
      <4> QED BY <4>1, <4>2
    <3> QED BY <1>3, <3>2, <3>3, <3>4
  <2> QED BY <1>5, <2>2, <2>3
<1> QED BY <1>7, <1>8

\* When nobody waits, the next number is that of no queued message and of no
\* dump: it was not used for too many requests, or never.
LEMMA NextIsFresh ==
  ASSUME RouteTypes, DumpAge, QueueAge, SequencesSuffice, Awaited = 0
  PROVE  /\ \A i \in DOMAIN responses : responses[i].sequence # next_sequence
         /\ dump.sequence # next_sequence
<1>1. /\ faults \in Nat /\ faults <= MaxFaults /\ MaxFaults \in Nat /\ SequenceLimit \in Nat
      /\ Cardinality(Routes) \in Nat
      /\ Cardinality(Routes) + MaxFaults + 2 < SequenceLimit
  BY FS_CardinalityType, RouteBounds DEF RouteTypes, KernelTypes, SequencesSuffice
<1>2. next_sequence \in Sequence /\ responses \in Seq(Message) /\ dump \in DumpType
  BY DEF RouteTypes, NetlinkTypes, DumpType
<1>3. Age(next_sequence) = SequenceLimit - 1  BY <1>2, NextAges DEF Age
<1>4. Cardinality(Routes) + faults + 1 < SequenceLimit - 1  BY <1>1
<1>5. ASSUME NEW i \in DOMAIN responses
      PROVE  responses[i].sequence # next_sequence
  <2>1. Age(responses[i].sequence) <= Cardinality(Routes) + faults + 1  BY DEF QueueAge
  <2> QED BY <1>1, <1>3, <1>4, <2>1
<1>6. dump.sequence # next_sequence
  <2>1. CASE dump = NoDump
    <3>1. dump.sequence = 0  BY <2>1 DEF NoDump
    <3>2. next_sequence # 0  BY <1>1, <1>2 DEF Sequence
    <3> QED BY <3>1, <3>2
  <2>2. CASE dump # NoDump
    <3>1. dump.sequence \in Sequence /\ dump.rest \subseteq Routes  BY <1>2, <2>2 DEF DumpType
    <3>2. Cardinality(dump.rest) \in Nat  BY <3>1, FS_Subset, FS_CardinalityType DEF SequencesSuffice
    <3>3. Age(dump.sequence) \in Nat  BY <1>2, <3>1, NextAges DEF Age
    <3>4. Age(dump.sequence) + Cardinality(dump.rest) <= Cardinality(Routes) + faults
      BY <1>1, <2>2, <3>2, <3>3 DEF DumpAge
    <3> QED BY <1>1, <1>3, <1>4, <3>2, <3>3, <3>4
  <2> QED BY <2>1, <2>2
<1> QED BY <1>5, <1>6

\* What lookup sends, and how the kernel takes it.
Asked ==
  IF dump = NoDump
  THEN WriteDump(responses, [sequence |-> next_sequence, rest |-> Routes])
  ELSE /\ responses' = Append(responses, [sequence |-> next_sequence, kind |-> "error"])
       /\ UNCHANGED dump

\* A request puts at most one message in the queue, with its own number.
LEMMA AskedFacts ==
  ASSUME RouteTypes, Asked
  PROVE  /\ responses' \in Seq(Message) /\ dump' \in DumpType
         /\ \E m \in Message : m.sequence = next_sequence /\ responses' = Append(responses, m)
         /\ dump' # NoDump => \/ dump' = dump
                              \/ /\ dump'.sequence = next_sequence
                                 /\ dump'.rest \subseteq Routes /\ dump'.rest # Routes
<1>1. next_sequence \in Sequence /\ responses \in Seq(Message) /\ dump \in DumpType
      /\ table \in [Routes -> Outs \cup {NoRoute}]
  BY DEF RouteTypes, NetlinkTypes, KernelTypes, DumpType
<1>2. CASE dump = NoDump
  <2> DEFINE d == [sequence |-> next_sequence, rest |-> Routes]
  <2>1. d \in DumpType /\ d # NoDump /\ d.sequence = next_sequence /\ d.rest = Routes
    <3>1. d.sequence = next_sequence /\ d.rest = Routes /\ NoDump.sequence = 0
      BY DEF NoDump
    <3>2. next_sequence # 0  BY <1>1, RouteBounds DEF Sequence
    <3> QED BY <1>1, <3>1, <3>2 DEF DumpType
  <2>2. WriteDump(responses, d)  BY <1>2 DEF Asked
  <2> HIDE DEF d
  <2>3. Wrote(responses, d)  BY <2>1, <2>2, WriteDumpIs
  <2>4. /\ responses' \in Seq(Message) /\ dump' \in DumpType
        /\ dump' # NoDump =>
              /\ d # NoDump /\ dump'.sequence = d.sequence
              /\ dump'.rest \subseteq d.rest /\ dump'.rest # d.rest
        /\ \/ responses' = responses
           \/ \E m \in Message :
                d # NoDump /\ m.sequence = d.sequence /\ responses' = Append(responses, m)
    BY <1>1, <2>1, <2>3, WroteFacts
  <2>5. responses' # responses
    <3>1. \E m : responses' = Append(responses, m)  BY <2>1, <2>3 DEF Wrote
    <3> QED BY <1>1, <3>1
  <2> QED BY <2>1, <2>4, <2>5
<1>3. CASE dump # NoDump
  <2> DEFINE m == [sequence |-> next_sequence, kind |-> "error"]
  <2>1. m \in Message /\ m.sequence = next_sequence  BY <1>1 DEF Message
  <2>2. responses' = Append(responses, m) /\ dump' = dump  BY <1>3 DEF Asked
  <2> HIDE DEF m
  <2> QED BY <1>1, <2>1, <2>2
<1> QED BY <1>2, <1>3

\* A request makes everything older by one, and waits.
LEMMA BacklogRequest ==
  ASSUME RouteTypes, DumpAge, QueueAge, SequencesSuffice, Asked, Awaited = 0,
         Awaited' = next_sequence, next_sequence' = NextSequence(next_sequence),
         faults' = faults
  PROVE  DumpAge' /\ QueueAge'
<1> DEFINE bound == Cardinality(Routes) + faults + 1
<1>1. /\ faults \in Nat /\ Cardinality(Routes) \in Nat /\ IsFiniteSet(Routes)
  BY FS_CardinalityType, RouteBounds DEF RouteTypes, KernelTypes, SequencesSuffice
<1>2. next_sequence \in Sequence /\ responses \in Seq(Message) /\ dump \in DumpType
  BY DEF RouteTypes, NetlinkTypes, DumpType
<1>3. next_sequence # 0  BY <1>2, RouteBounds DEF Sequence
<1>4. /\ \A i \in DOMAIN responses : responses[i].sequence # next_sequence
      /\ dump.sequence # next_sequence
  BY NextIsFresh
<1> DEFINE Older(s) == AgeAt(next_sequence', s)
<1>5. /\ Older(next_sequence) = 1
      /\ \A s \in Sequence : Age(s) \in Nat /\ (s # next_sequence => Older(s) = Age(s) + 1)
  BY <1>2, NextAges DEF Age
<1> HIDE DEF Older
<1>6. PICK m \in Message : m.sequence = next_sequence /\ responses' = Append(responses, m)
  BY AskedFacts
<1>7. DumpAge'
  <2> SUFFICES ASSUME dump' # NoDump
               PROVE  Older(dump'.sequence) + Cardinality(dump'.rest)
                        <= Cardinality(Routes) + faults + 1
    BY <1>3 DEF DumpAge, Age, Older
  <2>1. CASE dump' = dump
    <3>1. dump.sequence \in Sequence /\ dump.rest \subseteq Routes  BY <1>2, <2>1 DEF DumpType
    <3>2. Cardinality(dump.rest) \in Nat  BY <1>1, <3>1, FS_Subset, FS_CardinalityType
    <3>3. Age(dump.sequence) + Cardinality(dump.rest) <= Cardinality(Routes) + faults
      BY <1>1, <2>1, <1>5, <3>1, <3>2 DEF DumpAge
    <3> QED BY <1>1, <1>4, <1>5, <2>1, <3>1, <3>2, <3>3
  <2>2. CASE /\ dump'.sequence = next_sequence
             /\ dump'.rest \subseteq Routes /\ dump'.rest # Routes
    <3>1. Cardinality(dump'.rest) \in Nat /\ Cardinality(dump'.rest) + 1 <= Cardinality(Routes)
      BY <1>1, <2>2, FewerLeft
    <3> QED BY <1>1, <1>5, <2>2, <3>1
  <2> QED BY <2>1, <2>2, AskedFacts
<1>8. QueueAge'
  <2> SUFFICES ASSUME NEW i \in DOMAIN responses'
               PROVE  \/ Older(responses'[i].sequence) <= bound
                      \/ /\ next_sequence # 0 /\ Older(responses'[i].sequence) <= bound + 1
                         /\ \A j \in 1 .. i : responses'[j].sequence # next_sequence
    BY DEF QueueAge, Age, Older
  <2>1. /\ DOMAIN responses' = 1 .. Len(responses) + 1 /\ Len(responses) \in Nat
        /\ \A j \in 1 .. Len(responses) : responses'[j] = responses[j]
        /\ responses'[Len(responses) + 1] = m
    BY <1>2, <1>6
  <2>2. CASE i \in 1 .. Len(responses)
    <3>1. responses[i].sequence \in Sequence  BY <1>2, <2>2 DEF Message
    <3>2. Age(responses[i].sequence) <= bound  BY <1>2, <2>2 DEF QueueAge
    <3>3. Older(responses[i].sequence) <= bound + 1
      BY <1>1, <1>2, <1>4, <1>5, <2>2, <3>1, <3>2
    <3>4. \A j \in 1 .. i : responses'[j].sequence # next_sequence
      BY <1>2, <1>4, <2>1, <2>2
    <3> QED BY <1>3, <2>1, <2>2, <3>3, <3>4
  <2>3. CASE i = Len(responses) + 1
    <3>1. Older(responses'[i].sequence) = 1  BY <1>5, <1>6, <2>1, <2>3
    <3> QED BY <1>1, <3>1
  <2> QED BY <2>1, <2>2, <2>3
<1> QED BY <1>7, <1>8

\* A fault may leave messages older than the thread that gave up waiting for
\* them, and may add one to the queue.
LEMMA BacklogTimeout ==
  ASSUME RouteTypes, DumpAge, QueueAge, IsFiniteSet(Routes),
         UNCHANGED <<dump, responses, next_sequence>>, faults' = faults + 1, Awaited' = 0
  PROVE  DumpAge' /\ QueueAge'
<1>1. faults \in Nat /\ Cardinality(Routes) \in Nat
  BY FS_CardinalityType, RouteBounds DEF RouteTypes, KernelTypes
<1>2. next_sequence \in Sequence /\ responses \in Seq(Message) /\ dump \in DumpType
  BY DEF RouteTypes, NetlinkTypes, DumpType
<1>3. DumpAge'
  <2> SUFFICES ASSUME dump # NoDump
               PROVE  Age(dump.sequence) + Cardinality(dump.rest)
                        <= Cardinality(Routes) + faults + 1
    BY <1>1 DEF DumpAge, Age
  <2>1. dump.sequence \in Sequence /\ dump.rest \subseteq Routes  BY <1>2 DEF DumpType
  <2>2. Cardinality(dump.rest) \in Nat  BY <2>1, FS_Subset, FS_CardinalityType
  <2>3. Age(dump.sequence) \in Nat  BY <1>2, <2>1, NextAges DEF Age
  <2> QED BY <1>1, <2>2, <2>3 DEF DumpAge
<1>4. QueueAge'
  <2> SUFFICES ASSUME NEW i \in DOMAIN responses
               PROVE  Age(responses[i].sequence) <= Cardinality(Routes) + faults + 2
    BY <1>1 DEF QueueAge, Age
  <2>1. responses[i].sequence \in Sequence  BY <1>2 DEF Message
  <2>2. Age(responses[i].sequence) \in Nat  BY <1>2, <2>1, NextAges DEF Age
  <2>3. Age(responses[i].sequence) <= Cardinality(Routes) + faults + 1
        \/ Age(responses[i].sequence) <= Cardinality(Routes) + faults + 1 + 1
    BY DEF QueueAge
  <2> QED BY <1>1, <2>2, <2>3
<1> QED BY <1>3, <1>4

\* An error message is as old as its dump, which the fault allows for.
LEMMA BacklogDumpError ==
  ASSUME RouteTypes, DumpAge, QueueAge, IsFiniteSet(Routes), dump # NoDump,
         NEW m \in Message, m.sequence = dump.sequence, responses' = Append(responses, m),
         UNCHANGED <<dump, next_sequence>>, faults' = faults + 1, Awaited' = Awaited
  PROVE  DumpAge' /\ QueueAge'
<1>1. faults \in Nat /\ Cardinality(Routes) \in Nat
  BY FS_CardinalityType, RouteBounds DEF RouteTypes, KernelTypes
<1>2. next_sequence \in Sequence /\ responses \in Seq(Message) /\ dump \in DumpType
  BY DEF RouteTypes, NetlinkTypes, DumpType
<1>3. dump.sequence \in Sequence /\ dump.rest \subseteq Routes  BY <1>2 DEF DumpType
<1>4. Cardinality(dump.rest) \in Nat  BY <1>3, FS_Subset, FS_CardinalityType
<1>5. Age(dump.sequence) \in Nat  BY <1>2, <1>3, NextAges DEF Age
<1>6. Age(dump.sequence) + Cardinality(dump.rest) <= Cardinality(Routes) + faults + 1
  BY <1>1, <1>4, <1>5 DEF DumpAge
<1>7. DumpAge'
  BY <1>1, <1>4, <1>5 DEF DumpAge, Age
<1>8. QueueAge'
  <2> DEFINE bound == Cardinality(Routes) + faults + 1
  <2> SUFFICES ASSUME NEW i \in DOMAIN responses'
               PROVE  \/ Age(responses'[i].sequence) <= bound + 1
                      \/ /\ Awaited # 0 /\ Age(responses'[i].sequence) <= bound + 2
                         /\ \A j \in 1 .. i : responses'[j].sequence # Awaited
    BY <1>1 DEF QueueAge, Age
  <2>1. /\ DOMAIN responses' = 1 .. Len(responses) + 1 /\ Len(responses) \in Nat
        /\ \A j \in 1 .. Len(responses) : responses'[j] = responses[j]
        /\ responses'[Len(responses) + 1] = m
    BY <1>2
  <2>2. CASE i \in 1 .. Len(responses)
    <3>1. responses'[i] = responses[i] /\ i \in DOMAIN responses  BY <1>2, <2>1, <2>2
    <3>2. responses[i].sequence \in Sequence  BY <1>2, <3>1 DEF Message
    <3>3. Age(responses[i].sequence) \in Nat  BY <1>2, <3>2, NextAges DEF Age
    <3>4. Age(responses[i].sequence) <= bound \/ Age(responses[i].sequence) <= bound + 1
      BY <3>1 DEF QueueAge
    <3> QED BY <1>1, <3>1, <3>3, <3>4
  <2>3. CASE i = Len(responses) + 1
    <3>1. Age(responses'[i].sequence) = Age(dump.sequence)  BY <2>1, <2>3
    <3> QED BY <1>1, <1>4, <1>5, <1>6, <3>1
  <2> QED BY <2>1, <2>2, <2>3
<1> QED BY <1>7, <1>8

----------------------------------------------------------------------------
(* Looking up a route *)

\* Whatever the kernel writes keeps the answers right.
LEMMA WroteAnswers ==
  ASSUME NEW q \in Seq(Message), NEW d \in DumpType, Wrote(q, d),
         NEW s \in Sequence, NEW wanted, \A r \in wanted : table[r] # NoRoute,
         Answers(q, d, s, wanted)
  PROVE  Answers(responses', dump', s, wanted)
<1>1. s # 0 /\ NoDump.sequence = 0  BY RouteBounds DEF Sequence, NoDump
<1>2. Len(q) \in Nat /\ DOMAIN q = 1 .. Len(q)  OBVIOUS
<1>3. CASE d = NoDump /\ responses' = q /\ dump' = NoDump
  BY <1>3
<1>4. ASSUME d # NoDump, NEW m, responses' = Append(q, m)
      PROVE  /\ DOMAIN responses' = 1 .. Len(q) + 1 /\ Len(responses') = Len(q) + 1
             /\ \A i \in DOMAIN q : responses'[i] = q[i] /\ i \in DOMAIN responses'
             /\ responses'[Len(q) + 1] = m
             /\ \A i \in DOMAIN q : ~DoneFor(q, i, s)
  BY <1>2, <1>4 DEF Answers, EndsLast
<1>5. CASE /\ d # NoDump /\ \A r \in d.rest : table[r] = NoRoute
           /\ responses' = Append(q, [sequence |-> d.sequence, kind |-> "done"])
           /\ dump' = NoDump
  <2> DEFINE m == [sequence |-> d.sequence, kind |-> "done"]
  <2>1. m.sequence = d.sequence /\ m.kind = "done"  OBVIOUS
  <2>2. responses' = Append(q, m)  BY <1>5
  <2> HIDE DEF m
  <2>3. /\ DOMAIN responses' = 1 .. Len(q) + 1 /\ Len(responses') = Len(q) + 1
        /\ \A i \in DOMAIN q : responses'[i] = q[i] /\ i \in DOMAIN responses'
        /\ responses'[Len(q) + 1] = m
        /\ \A i \in DOMAIN q : ~DoneFor(q, i, s)
    BY <1>4, <1>5, <2>2
  <2>4. \A i \in DOMAIN responses' : i \in DOMAIN q \/ i = Len(q) + 1
    BY <1>2, <2>3
  <2>5. Truthful(responses', s)
    BY <2>1, <2>3, <2>4 DEF Answers, Truthful, RouteFor
  <2>6. EndsLast(responses', dump', s)
    BY <1>5, <2>3, <2>4 DEF EndsLast, DoneFor
  <2>7. Complete(responses', dump', s, wanted)
    <3> SUFFICES ASSUME \E i \in DOMAIN responses' : DoneFor(responses', i, s), NEW r \in wanted
                 PROVE  \E i \in DOMAIN responses' : RouteFor(responses', i, s) /\ responses'[i].route = r
      BY <1>1, <1>5 DEF Complete
    <3>1. d.sequence = s  BY <2>1, <2>3, <2>4 DEF DoneFor
    <3>2. PICK i \in DOMAIN q : RouteFor(q, i, s) /\ q[i].route = r
      BY <1>5, <3>1 DEF Answers, Complete
    <3> QED BY <2>3, <3>2 DEF RouteFor
  <2> QED BY <2>5, <2>6, <2>7 DEF Answers
<1>6. ASSUME NEW x \in d.rest, NEW rest \in SUBSET (d.rest \ {x}),
             d # NoDump, table[x] # NoRoute,
             \A y \in d.rest \ rest : y = x \/ table[y] = NoRoute,
             responses' = Append(q, [sequence |-> d.sequence, kind |-> "route",
                                     route |-> x, disposition |-> table[x]]),
             dump' = [sequence |-> d.sequence, rest |-> rest]
      PROVE  Answers(responses', dump', s, wanted)
  <2> DEFINE m == [sequence |-> d.sequence, kind |-> "route", route |-> x, disposition |-> table[x]]
  <2>1. m.sequence = d.sequence /\ m.kind = "route" /\ m.route = x /\ m.disposition = table[x]
    OBVIOUS
  <2>2. responses' = Append(q, m)  BY <1>6
  <2> HIDE DEF m
  <2>3. /\ DOMAIN responses' = 1 .. Len(q) + 1 /\ Len(responses') = Len(q) + 1
        /\ \A i \in DOMAIN q : responses'[i] = q[i] /\ i \in DOMAIN responses'
        /\ responses'[Len(q) + 1] = m
        /\ \A i \in DOMAIN q : ~DoneFor(q, i, s)
    BY <1>4, <1>6, <2>2
  <2>4. \A i \in DOMAIN responses' : i \in DOMAIN q \/ i = Len(q) + 1
    BY <1>2, <2>3
  <2>5. \A i \in DOMAIN responses' : ~DoneFor(responses', i, s)
    BY <2>1, <2>3, <2>4 DEF DoneFor
  <2>6. Truthful(responses', s)
    BY <2>1, <2>3, <2>4 DEF Answers, Truthful, RouteFor
  <2>7. EndsLast(responses', dump', s)  BY <2>5 DEF EndsLast
  <2>8. Complete(responses', dump', s, wanted)
    <3>1. dump'.sequence = d.sequence /\ dump'.rest = rest  BY <1>6
    <3> SUFFICES ASSUME d.sequence = s, NEW r \in wanted
                 PROVE  \/ \E i \in DOMAIN responses' :
                             RouteFor(responses', i, s) /\ responses'[i].route = r
                        \/ r \in rest
      BY <2>5, <3>1 DEF Complete
    <3>2. (\E i \in DOMAIN q : RouteFor(q, i, s) /\ q[i].route = r) \/ r \in d.rest
      BY DEF Answers, Complete
    <3>3. CASE \E i \in DOMAIN q : RouteFor(q, i, s) /\ q[i].route = r
      BY <2>3, <3>3 DEF RouteFor
    <3>4. CASE r \in d.rest /\ r \notin rest
      <4>1. r = x  BY <1>6, <3>4
      <4>2. Len(q) + 1 \in DOMAIN responses'  BY <1>2, <2>3
      <4> QED BY <2>1, <2>3, <4>1, <4>2 DEF RouteFor
    <3> QED BY <3>2, <3>3, <3>4
  <2> QED BY <2>6, <2>7, <2>8 DEF Answers
<1> QED BY <1>3, <1>5, <1>6 DEF Wrote

\* Taking the first message off leaves the rest right, if its route is no
\* longer wanted.
LEMMA TailAnswers ==
  ASSUME NEW q \in Seq(Message), q # <<>>, NEW d, NEW s, NEW wanted, NEW left \in SUBSET wanted,
         Answers(q, d, s, wanted),
         RouteFor(q, 1, s) => q[1].route \notin left
  PROVE  Answers(Tail(q), d, s, left)
<1> DEFINE u == Tail(q)
<1>1. /\ u \in Seq(Message) /\ Len(u) = Len(q) - 1 /\ Len(q) \in Nat /\ Len(q) > 0
      /\ DOMAIN u = 1 .. Len(u) /\ DOMAIN q = 1 .. Len(q)
      /\ \A i \in DOMAIN u : u[i] = q[i + 1] /\ i + 1 \in DOMAIN q
  OBVIOUS
<1> HIDE DEF u
<1>2. \A i \in DOMAIN q : i = 1 \/ (i - 1 \in DOMAIN u /\ u[i - 1] = q[i])
  BY <1>1
<1>3. Truthful(u, s)  BY <1>1 DEF Answers, Truthful, RouteFor
<1>4. EndsLast(u, d, s)
  <2> SUFFICES ASSUME NEW i \in DOMAIN u, DoneFor(u, i, s)
               PROVE  i = Len(u) /\ d = NoDump
    BY DEF EndsLast
  <2>1. i + 1 = Len(q) /\ d = NoDump  BY <1>1 DEF Answers, EndsLast, DoneFor
  <2> QED BY <1>1, <2>1
<1>5. Complete(u, d, s, left)
  <2> SUFFICES ASSUME d.sequence = s \/ \E i \in DOMAIN u : DoneFor(u, i, s), NEW r \in left
               PROVE  \/ \E i \in DOMAIN u : RouteFor(u, i, s) /\ u[i].route = r
                      \/ d.sequence = s /\ r \in d.rest
    BY DEF Complete
  <2>1. d.sequence = s \/ \E i \in DOMAIN q : DoneFor(q, i, s)  BY <1>1 DEF DoneFor
  <2>2. \/ \E i \in DOMAIN q : RouteFor(q, i, s) /\ q[i].route = r
        \/ d.sequence = s /\ r \in d.rest
    BY <2>1 DEF Answers, Complete
  <2>3. ASSUME NEW i \in DOMAIN q, RouteFor(q, i, s), q[i].route = r
        PROVE  \E j \in DOMAIN u : RouteFor(u, j, s) /\ u[j].route = r
    <3>1. i # 1  BY <2>3
    <3>2. i - 1 \in DOMAIN u /\ u[i - 1] = q[i]  BY <1>2, <3>1
    <3> QED BY <2>3, <3>2 DEF RouteFor
  <2> QED BY <2>2, <2>3
<1> QED BY <1>3, <1>4, <1>5 DEF Answers, u

----------------------------------------------------------------------------
(* Steps of a thread: what most of them share *)

\* The stages between taking the lock and letting go of it, and what send
\* returns.
Locked == {"drain", "resolve", "receive", "open"}
Outcomes == Interfaces \cup {"none", "RawSendFailed", "RawSocketBindFailed"}

\* Goto moves one thread.
LEMMA Moved ==
  ASSUME SendTypes, NEW u \in Threads, NEW stage \in Stages, Goto(u, stage)
  PROVE  /\ pc' \in [Threads -> Stages] /\ pc'[u] = stage
         /\ \A t \in Threads \ {u} : pc'[t] = pc[t]
  BY DEF SendTypes, Goto

\* Finish returns from one thread's send and clears its locals.
LEMMA Finished ==
  ASSUME SendTypes, NEW u \in Threads, NEW outcome \in Outcomes, Finish(u, outcome)
  PROVE  /\ pc' \in [Threads -> Stages] /\ pc'[u] = "idle"
         /\ local' \in [Threads -> Local] /\ local'[u] = NoLocals /\ last' \in Outcomes
         /\ \A t \in Threads \ {u} : pc'[t] = pc[t] /\ local'[t] = local[t]
<1>1. NoLocals \in Local
  <2>1. 0 \in {0} \cup Sequence /\ NoCandidate \in Candidates /\ NoEgress \in Egress
    BY DEF Candidates, Egress
  <2> QED BY <2>1 DEF NoLocals, Local
<1>2. "idle" \in Stages  BY DEF Stages
<1> QED BY <1>1, <1>2, Moved DEF Finish, SendTypes

\* A send that is over holds nothing.
LEMMA IdleKnows ==
  ASSUME NEW u \in Threads, pc'[u] = "idle", local'[u] = NoLocals, owner' # u
  PROVE  ThreadInv(u)' /\ ~local'[u].invalidated
<1>1. ~local'[u].invalidated /\ local'[u].best = NoCandidate  BY DEF NoLocals
<1>2. Underway(u)'  BY <1>1 DEF Underway
<1>3. Lookup(u)' /\ Resolved(u)' /\ Chosen(u)'  BY DEF Lookup, Resolved, Chosen
<1> QED BY <1>1, <1>2, <1>3 DEF ThreadInv

\* The other threads keep what they know: they do not hold the lock, or nothing
\* they look at changes.
LEMMA OthersKeep ==
  ASSUME RouteInv, NEW u \in Threads, table' = table,
         \A t \in Threads \ {u} : /\ pc'[t] = pc[t] /\ local'[t] = local[t]
                                  /\ owner' = t <=> owner = t,
         owner \in {u, Nobody} \/ UNCHANGED <<pending, overrun, dump, responses, cached>>
  PROVE  \A t \in Threads \ {u} : ThreadInv(t)'
<1> SUFFICES ASSUME NEW t \in Threads \ {u} PROVE ThreadInv(t)'  OBVIOUS
<1>1. ThreadInv(t)  BY DEF RouteInv
<1>2. pc[t] \in {"resolve", "receive", "open"} => owner = t  BY <1>1 DEF ThreadInv, Underway
<1>3. t # u /\ t # Nobody  BY RouteNames
<1> QED BY <1>1, <1>2, <1>3, Elsewhere

\* Who waits for what, after a step.
LEMMA AwaitedKept ==
  ASSUME \A t \in Threads : Underway(t) /\ Underway(t)',
         owner \in Threads \cup {Nobody}, owner' \in Threads \cup {Nobody},
         \A t \in Threads : /\ pc'[t] = "receive" <=> pc[t] = "receive"
                            /\ pc[t] = "receive" => local'[t].sequence = local[t].sequence
  PROVE  Awaited' = Awaited
<1>1. CASE \E t \in Threads : pc[t] = "receive"
  <2>1. PICK t \in Threads : pc[t] = "receive"  BY <1>1
  <2>2. owner = t /\ owner' = t  BY <2>1 DEF Underway
  <2>3. t # Nobody  BY RouteNames
  <2> QED BY <2>1, <2>2, <2>3 DEF Awaited
<1>2. CASE \A t \in Threads : pc[t] # "receive"
  <2>1. Awaited = 0  BY <1>2 DEF Awaited
  <2>2. Awaited' = 0  BY <1>2 DEF Awaited
  <2> QED BY <2>1, <2>2
<1> QED BY <1>1, <1>2

\* What is awaited after a step is what the lock's new owner receives.
LEMMA AwaitedNext ==
  ASSUME owner' \in Threads \cup {Nobody}
  PROVE  /\ (\A t \in Threads : pc'[t] # "receive") => Awaited' = 0
         /\ \A t \in Threads : owner' = t /\ pc'[t] = "receive" => Awaited' = local'[t].sequence
  BY RouteNames DEF Awaited

\* The cached entry stays right while neither it nor what is known of
\* notifications changes.
LEMMA CacheFrame ==
  ASSUME CacheRight, UNCHANGED <<table, pending, overrun>>, cached' \in {cached, NoRoute},
         (\A t \in Threads : ~local'[t].invalidated) => \A t \in Threads : ~local[t].invalidated
  PROVE  CacheRight'
  BY DEF CacheRight

\* A step of u that neither receives nor stops receiving, nor touches the
\* netlink socket or the table, is right if u's own part is.
LEMMA QuietStep ==
  ASSUME RouteInv, SequencesSuffice, NEW u \in Threads, SendTypes',
         UNCHANGED <<table, changes, dump, responses, next_sequence>>,
         pending' \in Nat, overrun' \in BOOLEAN, faults' \in {faults, faults + 1},
         faults' <= MaxFaults,
         \A t \in Threads \ {u} : /\ pc'[t] = pc[t] /\ local'[t] = local[t]
                                  /\ owner' = t <=> owner = t,
         owner \in {u, Nobody} \/ UNCHANGED <<pending, overrun, cached>>,
         pc[u] # "receive", pc'[u] # "receive", ThreadInv(u)', CacheRight'
  PROVE  RouteInv'
<1>1. \A t \in Threads \ {u} : ThreadInv(t)'  BY OthersKeep
<1>2. \A t \in Threads : ThreadInv(t) /\ ThreadInv(t)'  BY <1>1 DEF RouteInv
<1>3. Awaited' = Awaited
  BY <1>2, AwaitedKept DEF RouteInv, RouteTypes, SendTypes, ThreadInv
<1>4. faults \in Nat /\ faults' \in Nat /\ faults' >= faults /\ faults' \in 0 .. MaxFaults
  BY RouteBounds DEF RouteInv, RouteTypes, KernelTypes
<1>5. DumpAge' /\ QueueAge'
  BY <1>3, <1>4, BacklogFrame DEF RouteInv, SequencesSuffice
<1>6. KernelTypes' /\ NetlinkTypes'
  BY <1>4 DEF RouteInv, RouteTypes, KernelTypes, NetlinkTypes
<1> QED BY <1>2, <1>5, <1>6 DEF RouteInv, RouteTypes

----------------------------------------------------------------------------
(* Taking the lock and draining *)

\* A send begins: it only notes its destination.
LEMMA SendKeeps ==
  ASSUME RouteInv, SequencesSuffice, NEW u \in Threads, NEW d \in Destinations, send(u, d)
  PROVE  RouteInv'
<1>1. /\ UNCHANGED <<table, pending, overrun, changes, dump, responses, next_sequence, cached,
                     owner, last, faults>>
      /\ pc[u] = "idle" /\ Goto(u, "lock") /\ local' = [local EXCEPT ![u].destination = d]
  BY DEF send, kernel, netlink
<1>2. SendTypes /\ KernelTypes  BY DEF RouteInv, RouteTypes
<1>3. "lock" \in Stages  BY DEF Stages
<1>4. /\ pc' \in [Threads -> Stages] /\ pc'[u] = "lock"
      /\ \A t \in Threads \ {u} : pc'[t] = pc[t]
  BY <1>1, <1>2, <1>3, Moved
<1>5. /\ local' \in [Threads -> Local] /\ local'[u].destination = d
      /\ local'[u].invalidated = local[u].invalidated /\ local'[u].best = local[u].best
      /\ \A t \in Threads \ {u} : local'[t] = local[t]
  BY <1>1, <1>2 DEF SendTypes, Local
<1>6. SendTypes'  BY <1>1, <1>2, <1>4, <1>5 DEF SendTypes
<1>7. ThreadInv(u)'
  <2>1. Underway(u)  BY DEF RouteInv, ThreadInv
  <2>2. Underway(u)'  BY <1>1, <1>4, <1>5, <2>1 DEF Underway
  <2>3. Lookup(u)' /\ Resolved(u)' /\ Chosen(u)'  BY <1>4 DEF Lookup, Resolved, Chosen
  <2> QED BY <2>2, <2>3 DEF ThreadInv
<1>8. CacheRight'  BY <1>1, <1>5, CacheFrame DEF RouteInv
<1> QED BY <1>1, <1>2, <1>4, <1>5, <1>6, <1>7, <1>8, QuietStep DEF KernelTypes

\* The free lock is taken, and the drain begins.
LEMMA LockKeeps ==
  ASSUME RouteInv, SequencesSuffice, NEW u \in Threads, Lock(u)
  PROVE  RouteInv'
<1>1. /\ UNCHANGED <<table, pending, overrun, changes, dump, responses, next_sequence, cached,
                     local, last, faults>>
      /\ pc[u] = "lock" /\ Goto(u, "drain") /\ owner = Nobody /\ owner' = u
  BY DEF Lock, kernel, netlink
<1>2. SendTypes /\ KernelTypes  BY DEF RouteInv, RouteTypes
<1>3. "drain" \in Stages  BY DEF Stages
<1>4. /\ pc' \in [Threads -> Stages] /\ pc'[u] = "drain"
      /\ \A t \in Threads \ {u} : pc'[t] = pc[t]
  BY <1>1, <1>2, <1>3, Moved
<1>5. SendTypes'  BY <1>1, <1>2, <1>4 DEF SendTypes
<1>6. ThreadInv(u)'
  <2>1. Underway(u)  BY DEF RouteInv, ThreadInv
  <2>2. Underway(u)'  BY <1>1, <1>4, <2>1 DEF Underway
  <2>3. Lookup(u)' /\ Resolved(u)' /\ Chosen(u)'  BY <1>4 DEF Lookup, Resolved, Chosen
  <2> QED BY <2>2, <2>3 DEF ThreadInv
<1>7. CacheRight'  BY <1>1, CacheFrame DEF RouteInv
<1>8. \A t \in Threads \ {u} : owner' = t <=> owner = t  BY <1>1, RouteNames
<1> QED BY <1>1, <1>2, <1>4, <1>5, <1>6, <1>7, <1>8, QuietStep DEF KernelTypes

\* A notification is taken: the send knows of it until the drain ends.
LEMMA DrainOneKeeps ==
  ASSUME RouteInv, SequencesSuffice, NEW u \in Threads, DrainOne(u)
  PROVE  RouteInv'
<1>1. /\ UNCHANGED <<table, overrun, changes, dump, responses, next_sequence, cached,
                     owner, pc, last, faults>>
      /\ pc[u] = "drain" /\ pending > 0 /\ pending' = pending - 1
      /\ local' = [local EXCEPT ![u].invalidated = TRUE]
  BY DEF DrainOne, netlink
<1>2. SendTypes /\ KernelTypes  BY DEF RouteInv, RouteTypes
<1>3. pending' \in Nat  BY <1>1, <1>2 DEF KernelTypes
<1>4. /\ local' \in [Threads -> Local] /\ local'[u].destination = local[u].destination
      /\ local'[u].invalidated /\ local'[u].best = local[u].best
      /\ \A t \in Threads \ {u} : local'[t] = local[t]
  BY <1>1, <1>2 DEF SendTypes, Local
<1>5. SendTypes'  BY <1>1, <1>2, <1>4 DEF SendTypes
<1>6. Underway(u)  BY DEF RouteInv, ThreadInv
<1>7. ThreadInv(u)'
  <2>1. Underway(u)'  BY <1>1, <1>4, <1>6 DEF Underway
  <2>2. Lookup(u)' /\ Resolved(u)' /\ Chosen(u)'  BY <1>1 DEF Lookup, Resolved, Chosen
  <2> QED BY <2>1, <2>2 DEF ThreadInv
<1>8. CacheRight'  BY <1>4 DEF CacheRight
<1>9. owner = u  BY <1>1, <1>6 DEF Underway
<1> QED BY <1>1, <1>2, <1>3, <1>4, <1>5, <1>7, <1>8, <1>9, QuietStep DEF KernelTypes

\* The drain ends, with an overrun or with nothing left to take: the cached
\* entry goes if there was a notification, and is right if there was none.
LEMMA DrainedKeeps ==
  ASSUME RouteInv, SequencesSuffice, NEW u \in Threads, DrainOverrun(u) \/ DrainEnd(u)
  PROVE  RouteInv'
<1>1. PICK invalidated \in BOOLEAN :
      /\ Drained(u, invalidated) /\ pc[u] = "drain" /\ pending' = pending /\ overrun' \in BOOLEAN
      /\ ~invalidated => /\ ~local[u].invalidated /\ pending = 0 /\ ~overrun
                         /\ overrun' = overrun
  <2>1. local[u].invalidated \in BOOLEAN  BY DEF RouteInv, RouteTypes, SendTypes, Local
  <2>2. CASE DrainOverrun(u)  BY <2>2 DEF DrainOverrun
  <2>3. CASE DrainEnd(u)
    <3>1. /\ Drained(u, local[u].invalidated) /\ pc[u] = "drain" /\ pending' = pending
          /\ overrun' = overrun /\ ~overrun /\ pending = 0
      BY <2>3 DEF DrainEnd
    <3>2. overrun' \in BOOLEAN  BY <3>1 DEF RouteInv, RouteTypes, KernelTypes
    <3> QED BY <2>1, <3>1, <3>2
  <2> QED BY <2>2, <2>3
<1>2. /\ UNCHANGED <<table, changes, dump, responses, next_sequence, owner, last, faults>>
      /\ cached' = IF invalidated THEN NoRoute ELSE cached
      /\ Goto(u, "resolve") /\ local' = [local EXCEPT ![u].invalidated = FALSE]
  BY <1>1 DEF Drained, netlink
<1>3. SendTypes /\ KernelTypes  BY DEF RouteInv, RouteTypes
<1>4. "resolve" \in Stages  BY DEF Stages
<1>5. /\ pc' \in [Threads -> Stages] /\ pc'[u] = "resolve"
      /\ \A t \in Threads \ {u} : pc'[t] = pc[t]
  BY <1>2, <1>3, <1>4, Moved
<1>6. /\ local' \in [Threads -> Local] /\ local'[u].destination = local[u].destination
      /\ ~local'[u].invalidated /\ local'[u].best = local[u].best
      /\ local'[u].changed = local[u].changed
      /\ \A t \in Threads \ {u} : local'[t] = local[t]
  BY <1>2, <1>3 DEF SendTypes, Local
<1>7. SendTypes'  BY <1>2, <1>3, <1>5, <1>6 DEF SendTypes
<1>8. Underway(u)  BY DEF RouteInv, ThreadInv
<1>9. owner = u  BY <1>1, <1>8 DEF Underway
<1>10. \A t \in Threads \ {u} : ~local[t].invalidated
  <2> SUFFICES ASSUME NEW t \in Threads \ {u} PROVE ~local[t].invalidated  OBVIOUS
  <2>1. Underway(t)  BY DEF RouteInv, ThreadInv
  <2> QED BY <1>9, <2>1 DEF Underway
<1>11. cached' # NoRoute =>
         /\ cached' = cached /\ pending = 0 /\ ~overrun /\ \A t \in Threads : ~local[t].invalidated
  BY <1>1, <1>2, <1>10
<1>12. cached' # NoRoute /\ ~cached'.outdated => cached'.interface \in BestIn(table, cached'.destination)
  BY <1>11 DEF RouteInv, CacheRight
<1>13. ThreadInv(u)'
  <2>1. Underway(u)'  BY <1>1, <1>2, <1>5, <1>6, <1>8, <1>9 DEF Underway
  <2>2. Lookup(u)' /\ Chosen(u)'  BY <1>5 DEF Lookup, Chosen
  <2>3. Resolved(u)'  BY <1>2, <1>12 DEF Resolved
  <2> QED BY <2>1, <2>2, <2>3 DEF ThreadInv
<1>14. CacheRight'  BY <1>2, <1>12 DEF CacheRight
<1>15. pending' \in Nat  BY <1>1, <1>3 DEF KernelTypes
<1> QED BY <1>1, <1>2, <1>3, <1>5, <1>6, <1>7, <1>9, <1>13, <1>14, <1>15, QuietStep DEF KernelTypes

\* The drain fails: what was taken is forgotten, and the entry is outdated.
LEMMA DrainFailsKeeps ==
  ASSUME RouteInv, SequencesSuffice, NEW u \in Threads, DrainFails(u)
  PROVE  RouteInv'
<1>1. /\ UNCHANGED <<table, pending, overrun, changes, dump, responses, next_sequence>>
      /\ pc[u] = "drain" /\ owner' = Nobody /\ Finish(u, "RawSendFailed")
      /\ faults < MaxFaults /\ faults' = faults + 1
      /\ cached' = IF cached # NoRoute /\ local[u].invalidated
                   THEN [cached EXCEPT !.outdated = TRUE] ELSE cached
  BY DEF DrainFails, kernel, netlink, Unlock, Fault
<1>2. SendTypes /\ KernelTypes  BY DEF RouteInv, RouteTypes
<1>3. /\ pc' \in [Threads -> Stages] /\ pc'[u] = "idle"
      /\ local' \in [Threads -> Local] /\ local'[u] = NoLocals /\ last' \in Outcomes
      /\ \A t \in Threads \ {u} : pc'[t] = pc[t] /\ local'[t] = local[t]
  BY <1>1, <1>2, Finished DEF Outcomes
<1>4. cached' \in {NoRoute} \cup Entry
      /\ (cached # NoRoute /\ local[u].invalidated => cached'.outdated)
  BY <1>1, <1>2 DEF SendTypes, Entry
<1>5. SendTypes'  BY <1>1, <1>3, <1>4 DEF SendTypes, Outcomes
<1>6. owner = u  BY <1>1 DEF RouteInv, ThreadInv, Underway
<1>7. owner' # u  BY <1>1, RouteNames
<1>8. ThreadInv(u)'  BY <1>3, <1>7, IdleKnows
<1>9. CacheRight'
  <2>1. CASE cached # NoRoute /\ local[u].invalidated  BY <1>4, <2>1 DEF CacheRight
  <2>2. CASE cached = NoRoute  BY <1>1, <2>2 DEF CacheRight
  <2>3. CASE ~local[u].invalidated
    <3>1. cached' = cached  BY <1>1, <2>3
    <3>2. (\A t \in Threads : ~local'[t].invalidated) => \A t \in Threads : ~local[t].invalidated
      BY <1>3, <2>3
    <3> QED BY <1>1, <3>1, <3>2, CacheFrame DEF RouteInv
  <2> QED BY <2>1, <2>2, <2>3
<1>10. \A t \in Threads \ {u} : owner' = t <=> owner = t  BY <1>1, <1>6, RouteNames
<1>11. faults' <= MaxFaults  BY <1>1, <1>2, RouteBounds DEF KernelTypes
<1>12. pc[u] # "receive" /\ pc'[u] # "receive" /\ pending' \in Nat /\ overrun' \in BOOLEAN
  BY <1>1, <1>2, <1>3 DEF KernelTypes
<1> QED BY <1>1, <1>3, <1>5, <1>6, <1>8, <1>9, <1>10, <1>11, <1>12, QuietStep

----------------------------------------------------------------------------
(* Finding the egress *)

\* The cached entry was right when the drain ended, and is if nothing changed.
LEMMA CacheHitKeeps ==
  ASSUME RouteInv, SequencesSuffice, NEW u \in Threads, CacheHit(u)
  PROVE  RouteInv'
<1> DEFINE e == [interface |-> cached.interface, sound |-> cached.sound,
                 outdated |-> cached.outdated]
<1>1. /\ UNCHANGED <<table, pending, overrun, changes, dump, responses, next_sequence, cached,
                     last, faults>>
      /\ pc[u] = "resolve" /\ cached # NoRoute /\ cached.destination = local[u].destination
      /\ local' = [local EXCEPT ![u].egress = e] /\ owner' = Nobody /\ Goto(u, "transmit")
  BY DEF CacheHit, IsHit, kernel, netlink, Unlock
<1>2. SendTypes /\ KernelTypes  BY DEF RouteInv, RouteTypes
<1>3. "transmit" \in Stages  BY DEF Stages
<1>4. /\ pc' \in [Threads -> Stages] /\ pc'[u] = "transmit"
      /\ \A t \in Threads \ {u} : pc'[t] = pc[t]
  BY <1>1, <1>2, <1>3, Moved
<1>5. /\ e \in Egress /\ e.interface = cached.interface /\ e.outdated = cached.outdated
      /\ e.interface \in Interfaces
  BY <1>1, <1>2 DEF SendTypes, Entry, Egress
<1> HIDE DEF e
<1>6. /\ local' \in [Threads -> Local] /\ local'[u].destination = local[u].destination
      /\ local'[u].invalidated = local[u].invalidated /\ local'[u].best = local[u].best
      /\ local'[u].changed = local[u].changed /\ local'[u].egress = e
      /\ \A t \in Threads \ {u} : local'[t] = local[t]
  BY <1>1, <1>2, <1>5 DEF SendTypes, Local
<1>7. SendTypes'  BY <1>1, <1>2, <1>4, <1>6 DEF SendTypes
<1>8. Underway(u) /\ Resolved(u)  BY DEF RouteInv, ThreadInv
<1>9. owner = u /\ owner' # u  BY <1>1, <1>8, RouteNames DEF Underway
<1>10. ThreadInv(u)'
  <2>1. Underway(u)'  BY <1>1, <1>4, <1>5, <1>6, <1>8, <1>9 DEF Underway
  <2>2. Lookup(u)' /\ Resolved(u)'  BY <1>4 DEF Lookup, Resolved
  <2>3. Chosen(u)'  BY <1>1, <1>5, <1>6, <1>8 DEF Chosen, Resolved
  <2> QED BY <2>1, <2>2, <2>3 DEF ThreadInv
<1>11. CacheRight'
  <2>1. (\A t \in Threads : ~local'[t].invalidated) => \A t \in Threads : ~local[t].invalidated
    BY <1>6
  <2> QED BY <1>1, <2>1, CacheFrame DEF RouteInv
<1>12. \A t \in Threads \ {u} : owner' = t <=> owner = t  BY <1>1, <1>9, RouteNames
<1> QED BY <1>1, <1>2, <1>4, <1>6, <1>7, <1>9, <1>10, <1>11, <1>12, QuietStep DEF KernelTypes

\* A lookup begins: its number is new, so only its own answers have it.
LEMMA RequestKeeps ==
  ASSUME RouteInv, SequencesSuffice, NEW u \in Threads, Request(u)
  PROVE  RouteInv'
<1>1. /\ UNCHANGED <<table, pending, overrun, changes, cached, owner, last, faults>>
      /\ pc[u] = "resolve" /\ Goto(u, "receive") /\ Asked
      /\ next_sequence' = NextSequence(next_sequence)
      /\ local' = [local EXCEPT ![u].sequence = next_sequence]
  BY DEF Request, kernel, Asked
<1>2. SendTypes /\ KernelTypes /\ NetlinkTypes /\ RouteTypes /\ DumpAge /\ QueueAge
  BY DEF RouteInv, RouteTypes
<1>3. "receive" \in Stages  BY DEF Stages
<1>4. /\ pc' \in [Threads -> Stages] /\ pc'[u] = "receive"
      /\ \A t \in Threads \ {u} : pc'[t] = pc[t]
  BY <1>1, <1>2, <1>3, Moved
<1>5. next_sequence \in Sequence /\ next_sequence # 0  BY <1>2, RouteBounds DEF NetlinkTypes, Sequence
<1>6. /\ local' \in [Threads -> Local] /\ local'[u].destination = local[u].destination
      /\ local'[u].invalidated = local[u].invalidated /\ local'[u].best = local[u].best
      /\ local'[u].sequence = next_sequence
      /\ \A t \in Threads \ {u} : local'[t] = local[t]
  BY <1>1, <1>2, <1>5 DEF SendTypes, Local
<1>7. SendTypes'  BY <1>1, <1>2, <1>4, <1>6 DEF SendTypes
<1>8. Underway(u)  BY DEF RouteInv, ThreadInv
<1>9. owner = u /\ owner' = u /\ local[u].best = NoCandidate  BY <1>1, <1>8 DEF Underway
<1>10. Awaited = 0 /\ Awaited' = next_sequence
  BY <1>1, <1>4, <1>6, <1>9, RouteNames DEF Awaited
<1>11. DumpAge' /\ QueueAge'  BY <1>1, <1>2, <1>10, BacklogRequest
<1>12. NetlinkTypes'
  <2>1. responses' \in Seq(Message) /\ dump' \in DumpType  BY <1>1, <1>2, AskedFacts
  <2>2. next_sequence' \in Sequence  BY <1>1, <1>5, NextAges
  <2> QED BY <2>1, <2>2 DEF NetlinkTypes, DumpType
<1>13. Answers(responses', dump', next_sequence, Wanted(u)')
  <2> DEFINE s == next_sequence
             wanted == Wanted(u)'
  <2>1. \A r \in wanted : r \in Routes /\ table[r] # NoRoute
    BY <1>1 DEF Wanted, PresentIn
  <2>2. /\ \A i \in DOMAIN responses : responses[i].sequence # s
        /\ dump.sequence # s
    BY <1>2, <1>10, NextIsFresh
  <2>3. responses \in Seq(Message) /\ dump \in DumpType  BY <1>2 DEF NetlinkTypes, DumpType
  <2>4. CASE dump = NoDump
    <3> DEFINE d == [sequence |-> s, rest |-> Routes]
    <3>1. d \in DumpType /\ d # NoDump /\ d.sequence = s /\ d.rest = Routes
      <4>1. d.sequence = s /\ d.rest = Routes /\ NoDump.sequence = 0  BY DEF NoDump
      <4> QED BY <1>5, <4>1 DEF DumpType
    <3>2. WriteDump(responses, d)  BY <1>1, <2>4 DEF Asked
    <3> HIDE DEF d, wanted
    <3>3. Wrote(responses, d)  BY <3>1, <3>2, WriteDumpIs
    <3>4. Answers(responses, d, s, wanted)
      BY <2>1, <2>2, <3>1 DEF Answers, Truthful, EndsLast, Complete, RouteFor, DoneFor
    <3> QED BY <1>5, <2>1, <2>3, <3>1, <3>3, <3>4, WroteAnswers DEF wanted
  <2>5. CASE dump # NoDump
    <3> DEFINE m == [sequence |-> s, kind |-> "error"]
    <3>1. m.kind = "error" /\ responses' = Append(responses, m) /\ dump' = dump
      BY <1>1, <2>5 DEF Asked
    <3> HIDE DEF m, wanted
    <3>2. \A i \in DOMAIN responses' :
            (i \in DOMAIN responses /\ responses'[i] = responses[i]) \/ responses'[i] = m
      BY <2>3, <3>1
    <3>3. \A i \in DOMAIN responses' : ~RouteFor(responses', i, s) /\ ~DoneFor(responses', i, s)
      BY <2>2, <3>1, <3>2 DEF RouteFor, DoneFor
    <3> QED BY <2>2, <3>1, <3>3 DEF Answers, Truthful, EndsLast, Complete
  <2> QED BY <2>4, <2>5
<1>14. ThreadInv(u)'
  <2>1. Underway(u)'  BY <1>1, <1>4, <1>5, <1>6, <1>8, <1>9 DEF Underway
  <2>2. Candidature(u)'  BY <1>6, <1>9 DEF Candidature
  <2>3. Answers(responses, dump, local[u].sequence, Wanted(u))'
    BY <1>1, <1>6, <1>13 DEF Answers, Truthful, EndsLast, Complete, RouteFor, DoneFor
  <2>4. Lookup(u)'  BY <1>4, <2>2, <2>3 DEF Lookup
  <2>5. Resolved(u)' /\ Chosen(u)'  BY <1>4 DEF Resolved, Chosen
  <2> QED BY <2>1, <2>4, <2>5 DEF ThreadInv
<1>15. \A t \in Threads \ {u} : ThreadInv(t)'
  BY <1>1, <1>4, <1>6, <1>9, OthersKeep
<1>16. CacheRight'
  <2>1. (\A t \in Threads : ~local'[t].invalidated) => \A t \in Threads : ~local[t].invalidated
    BY <1>6
  <2> QED BY <1>1, <2>1, CacheFrame DEF RouteInv
<1>17. KernelTypes'  BY <1>1, <1>2 DEF KernelTypes
<1> QED BY <1>7, <1>11, <1>12, <1>14, <1>15, <1>16, <1>17 DEF RouteInv, RouteTypes

\* A message is taken off the queue: what every kind of message has in common.
LEMMA DequeueFacts ==
  ASSUME RouteInv, NEW u \in Threads, Receiving(u), Dequeue
  PROVE  /\ owner = u /\ local[u].sequence \in Sequence /\ Awaited = local[u].sequence
         /\ Awaited # 0
         /\ responses' \in Seq(Message) /\ dump' \in DumpType
         /\ responses \in Seq(Message) /\ 1 \in DOMAIN responses
         /\ Head(responses) = responses[1] /\ Head(responses) \in Message
<1>1. pc[u] = "receive" /\ responses # <<>>  BY DEF Receiving
<1>2. responses \in Seq(Message) /\ dump \in DumpType /\ table \in [Routes -> Outs \cup {NoRoute}]
  BY DEF RouteInv, RouteTypes, NetlinkTypes, KernelTypes, DumpType
<1>3. /\ 1 \in DOMAIN responses /\ Head(responses) = responses[1] /\ Head(responses) \in Message
      /\ Tail(responses) \in Seq(Message)
  BY <1>1, <1>2
<1>4. Underway(u)  BY DEF RouteInv, ThreadInv
<1>5. owner = u /\ local[u].sequence # 0  BY <1>1, <1>4 DEF Underway
<1>6. local[u].sequence \in {0} \cup Sequence  BY DEF RouteInv, RouteTypes, SendTypes, Local
<1>7. Awaited = local[u].sequence  BY <1>1, <1>5, RouteNames DEF Awaited
<1>8. Wrote(Tail(responses), dump)  BY <1>2, WriteDumpIs DEF Dequeue
<1>9. responses' \in Seq(Message) /\ dump' \in DumpType
  BY <1>2, <1>3, <1>8, WroteFacts
<1> QED BY <1>2, <1>3, <1>5, <1>6, <1>7, <1>9

\* The receiver goes on, with the same candidate or a better one.
LEMMA ReceiveOn ==
  ASSUME RouteInv, SequencesSuffice, NEW u \in Threads, Receiving(u), Dequeue,
         UNCHANGED <<table, pending, overrun, changes, next_sequence, cached, owner, pc, last, faults>>,
         NEW b \in Candidates, local' = [local EXCEPT ![u].best = b],
         Calm(u) => /\ Candidature(u)'
                    /\ Wanted(u)' \subseteq Wanted(u)
                    /\ RouteFor(responses, 1, local[u].sequence) => responses[1].route \notin Wanted(u)'
  PROVE  RouteInv'
<1>1. SendTypes /\ KernelTypes /\ NetlinkTypes /\ RouteTypes /\ DumpAge /\ QueueAge
  BY DEF RouteInv, RouteTypes
<1>2. /\ owner = u /\ local[u].sequence \in Sequence /\ Awaited = local[u].sequence
      /\ Awaited # 0
      /\ responses' \in Seq(Message) /\ dump' \in DumpType
      /\ responses \in Seq(Message) /\ pc[u] = "receive" /\ responses # <<>>
  BY DequeueFacts DEF Receiving
<1>3. /\ local' \in [Threads -> Local] /\ local'[u].destination = local[u].destination
      /\ local'[u].invalidated = local[u].invalidated /\ local'[u].best = b
      /\ local'[u].sequence = local[u].sequence /\ local'[u].changed = local[u].changed
      /\ \A t \in Threads \ {u} : local'[t] = local[t]
  BY <1>1 DEF SendTypes, Local
<1>4. SendTypes' /\ KernelTypes' /\ NetlinkTypes'
  BY <1>1, <1>2, <1>3 DEF SendTypes, KernelTypes, NetlinkTypes, DumpType
<1>5. Underway(u) /\ Lookup(u)  BY DEF RouteInv, ThreadInv
<1>6. ThreadInv(u)'
  <2>1. Underway(u)'  BY <1>2, <1>3, <1>5 DEF Underway
  <2>2. Lookup(u)'
    <3> SUFFICES ASSUME Calm(u)
                 PROVE  Answers(responses, dump, local[u].sequence, Wanted(u))' /\ Candidature(u)'
      BY <1>2, <1>3 DEF Lookup, Calm
    <3> DEFINE s == local[u].sequence
               left == Wanted(u)'
    <3>1. Answers(responses, dump, s, Wanted(u))  BY <1>2, <1>5 DEF Lookup
    <3>2. left \in SUBSET Wanted(u) /\ (RouteFor(responses, 1, s) => responses[1].route \notin left)
      OBVIOUS
    <3>3. \A r \in left : table[r] # NoRoute  BY DEF Wanted, PresentIn
    <3> HIDE DEF left
    <3>4. Answers(Tail(responses), dump, s, left)  BY <1>2, <3>1, <3>2, TailAnswers
    <3>5. dump \in DumpType /\ Tail(responses) \in Seq(Message)
      BY <1>1, <1>2 DEF NetlinkTypes, DumpType
    <3>6. Wrote(Tail(responses), dump)  BY <3>5, WriteDumpIs DEF Dequeue
    <3>7. Answers(responses', dump', s, left)
      BY <1>2, <3>3, <3>4, <3>5, <3>6, WroteAnswers
    <3>8. Answers(responses, dump, local[u].sequence, Wanted(u))'
      BY <1>3, <3>7 DEF left, Answers, Truthful, EndsLast, Complete, RouteFor, DoneFor
    <3> QED BY <3>8
  <2>3. Resolved(u)' /\ Chosen(u)'  BY <1>2 DEF Resolved, Chosen
  <2> QED BY <2>1, <2>2, <2>3 DEF ThreadInv
<1>7. \A t \in Threads \ {u} : ThreadInv(t)'
  BY <1>2, <1>3, OthersKeep
<1>8. Awaited' = Awaited  BY <1>2, <1>3, RouteNames DEF Awaited
<1>9. DumpAge' /\ QueueAge'
  BY <1>1, <1>2, <1>8, BacklogDequeue DEF SequencesSuffice
<1>10. CacheRight'
  <2>1. (\A t \in Threads : ~local'[t].invalidated) => \A t \in Threads : ~local[t].invalidated
    BY <1>3
  <2> QED BY <2>1, CacheFrame DEF RouteInv
<1> QED BY <1>4, <1>6, <1>7, <1>9, <1>10 DEF RouteInv, RouteTypes

\* An answer to somebody else changes nothing.
LEMMA ReceiveForeignKeeps ==
  ASSUME RouteInv, SequencesSuffice, NEW u \in Threads, ReceiveForeign(u)
  PROVE  RouteInv'
<1>1. /\ UNCHANGED <<table, pending, overrun, changes, next_sequence, cached, owner, pc, local,
                     last, faults>>
      /\ Receiving(u) /\ Dequeue /\ Head(responses).sequence # local[u].sequence
  BY DEF ReceiveForeign, kernel, IsForeign
<1>2. local \in [Threads -> Local]  BY DEF RouteInv, RouteTypes, SendTypes
<1>3. local[u].best \in Candidates /\ local' = [local EXCEPT ![u].best = local[u].best]
  BY <1>1, <1>2 DEF Local
<1>4. Wanted(u)' = Wanted(u)  BY <1>1 DEF Wanted
<1>5. ~RouteFor(responses, 1, local[u].sequence)  BY <1>1, DequeueFacts DEF RouteFor
<1>6. Calm(u) => Candidature(u)'
  <2>1. pc[u] = "receive" /\ Lookup(u)  BY <1>1 DEF Receiving, RouteInv, ThreadInv
  <2> QED BY <1>1, <2>1 DEF Lookup, Candidature
<1> QED BY <1>1, <1>3, <1>4, <1>5, <1>6, ReceiveOn

\* A route is compared with the candidate, and the better one kept.
LEMMA ReceiveRouteKeeps ==
  ASSUME RouteInv, SequencesSuffice, NEW u \in Threads, ReceiveRoute(u)
  PROVE  RouteInv'
<1> DEFINE m == Head(responses)
           best == local[u].best
           d == local[u].destination
           b == IF Matches(u, m) /\ is_better_than(Candidate(m), best) THEN Candidate(m) ELSE best
<1>1. /\ UNCHANGED <<table, pending, overrun, changes, next_sequence, cached, owner, pc, last, faults>>
      /\ Receiving(u) /\ Dequeue /\ m.sequence = local[u].sequence /\ m.kind = "route"
      /\ local' = [local EXCEPT ![u].best = b]
  BY DEF ReceiveRoute, kernel, IsForeign
<1>2. /\ local \in [Threads -> Local] /\ table \in [Routes -> Outs \cup {NoRoute}]
      /\ local[u] \in Local /\ best \in Candidates
  BY DEF RouteInv, RouteTypes, SendTypes, KernelTypes, Local
<1>3. 1 \in DOMAIN responses /\ m = responses[1] /\ m \in Message
  BY <1>1, DequeueFacts
<1> HIDE DEF m
<1>4. m.route \in Routes /\ m.disposition \in Outs  BY <1>1, <1>3 DEF Message
<1>5. Candidate(m) \in Candidates
  <2>1. m.route.prefix_len \in Nat /\ m.route.priority \in Nat  BY <1>4, RouteAssumption
  <2> QED BY <1>4, <2>1 DEF Candidate, Candidates
<1>6. b \in Candidates  BY <1>2, <1>5
<1>7. local'[u].best = b /\ local'[u].destination = d  BY <1>1, <1>2 DEF Local
<1>8. ASSUME Calm(u)
      PROVE  /\ Candidature(u)' /\ Wanted(u)' \subseteq Wanted(u)
             /\ m.route \notin Wanted(u)'
  <2>1. pc[u] = "receive" /\ Lookup(u)  BY <1>1 DEF Receiving, RouteInv, ThreadInv
  <2>2. Truthful(responses, local[u].sequence) /\ Candidature(u)
    BY <1>8, <2>1 DEF Lookup, Answers
  <2>3. m.disposition = table[m.route]  BY <1>1, <1>3, <2>2 DEF Truthful, RouteFor
  <2>4. Candidate(m) = Offer(table, m.route)  BY <2>3 DEF Candidate, Offer
  <2>5. table[m.route] # NoRoute  BY <1>4, <2>3, RouteNames DEF Outs
  <2>6. m.route \in PresentIn(table, d) <=> Matches(u, m)
    BY <1>4, <2>5 DEF PresentIn, Matches
  <2>7. /\ Wanted(u)' = {r \in PresentIn(table, d) : is_better_than(Offer(table, r), b)}
        /\ Wanted(u) = {r \in PresentIn(table, d) : is_better_than(Offer(table, r), best)}
    <3> HIDE DEF b
    <3> QED BY <1>1, <1>7 DEF Wanted
  <2>8. CASE Matches(u, m) /\ is_better_than(Candidate(m), best)
    <3>1. b = Offer(table, m.route)  BY <2>4, <2>8
    <3> HIDE DEF b
    <3>2. Candidature(u)'
      BY <1>1, <1>7, <2>6, <2>8, <3>1 DEF Candidature
    <3>3. /\ Offer(table, m.route) \in Candidates /\ Offer(table, m.route).disposition # NoRoute
          /\ ~is_better_than(Offer(table, m.route), Offer(table, m.route))
      BY <1>2, <1>4, <2>5, Offers
    <3>4. m.route \notin Wanted(u)'  BY <2>7, <3>1, <3>3
    <3>5. ASSUME NEW r \in Wanted(u)' PROVE r \in Wanted(u)
      <4>1. r \in Routes /\ table[r] # NoRoute /\ is_better_than(Offer(table, r), b)
        BY <2>7 DEF PresentIn
      <4>2. Offer(table, r) \in Candidates  BY <1>2, <4>1, Offers
      <4>3. CASE best.disposition = NoRoute
        BY <2>7, <4>3 DEF is_better_than
      <4>4. CASE best.disposition # NoRoute
        <5>1. is_better_than(b, best)  BY <2>4, <2>8, <3>1
        <5>2. is_better_than(Offer(table, r), best)
          BY <1>2, <1>6, <3>1, <3>3, <4>1, <4>2, <4>4, <5>1, BetterTransitive
        <5> QED BY <2>7, <5>2
      <4> QED BY <4>3, <4>4
    <3> QED BY <3>2, <3>4, <3>5
  <2>9. CASE ~(Matches(u, m) /\ is_better_than(Candidate(m), best))
    <3>1. b = best  BY <2>9
    <3> HIDE DEF b
    <3>2. Candidature(u)'  BY <1>1, <1>7, <2>2, <3>1 DEF Candidature
    <3>3. Wanted(u)' = Wanted(u)  BY <2>7, <3>1
    <3>4. m.route \notin Wanted(u)  BY <2>4, <2>6, <2>7, <2>9
    <3> QED BY <3>2, <3>3, <3>4
  <2> QED BY <2>8, <2>9
<1> HIDE DEF b
<1> QED BY <1>1, <1>3, <1>6, <1>8, ReceiveOn

\* The dump ends, and no route is left that beats the candidate: it is the best.
LEMMA ReceiveDoneKeeps ==
  ASSUME RouteInv, SequencesSuffice, NEW u \in Threads, ReceiveDone(u)
  PROVE  RouteInv'
<1> DEFINE m == Head(responses)
           d == local[u].destination
           s == local[u].sequence
<1>1. /\ UNCHANGED <<table, pending, overrun, changes, next_sequence, cached, owner, local, last, faults>>
      /\ Receiving(u) /\ Dequeue /\ m.sequence = s /\ m.kind = "done"
      /\ local[u].best.disposition \in Interfaces /\ Goto(u, "open")
  BY DEF ReceiveDone, kernel, IsForeign
<1>2. SendTypes /\ KernelTypes /\ NetlinkTypes /\ RouteTypes /\ DumpAge /\ QueueAge
  BY DEF RouteInv, RouteTypes
<1>3. "open" \in Stages  BY DEF Stages
<1>4. /\ pc' \in [Threads -> Stages] /\ pc'[u] = "open"
      /\ \A t \in Threads \ {u} : pc'[t] = pc[t]
  BY <1>1, <1>2, <1>3, Moved
<1>5. /\ owner = u /\ s \in Sequence /\ Awaited = s /\ Awaited # 0
      /\ responses' \in Seq(Message) /\ dump' \in DumpType
      /\ responses \in Seq(Message) /\ 1 \in DOMAIN responses /\ m = responses[1]
      /\ pc[u] = "receive" /\ responses # <<>>
  BY <1>1, DequeueFacts DEF Receiving
<1> HIDE DEF m
<1>6. SendTypes' /\ KernelTypes' /\ NetlinkTypes'
  BY <1>1, <1>2, <1>4, <1>5 DEF SendTypes, KernelTypes, NetlinkTypes, DumpType
<1>7. Underway(u) /\ Lookup(u)  BY DEF RouteInv, ThreadInv
<1>8. Calm(u) => local[u].best.disposition \in BestIn(table, d)
  <2> SUFFICES ASSUME Calm(u) PROVE local[u].best.disposition \in BestIn(table, d)  OBVIOUS
  <2>1. Answers(responses, dump, s, Wanted(u)) /\ Candidature(u)  BY <1>5, <1>7 DEF Lookup
  <2>2. DoneFor(responses, 1, s)  BY <1>1, <1>5 DEF DoneFor
  <2>3. Len(responses) = 1 /\ dump = NoDump  BY <1>5, <2>1, <2>2 DEF Answers, EndsLast
  <2>4. dump.sequence # s  BY <1>5, <2>3, RouteBounds DEF NoDump, Sequence
  <2>5. \A i \in DOMAIN responses : ~RouteFor(responses, i, s)
    BY <1>1, <1>5, <2>3 DEF RouteFor
  <2>6. Wanted(u) = {}
    BY <1>5, <2>1, <2>2, <2>4, <2>5 DEF Answers, Complete
  <2>7. local[u].best # NoCandidate
    <3>1. NoCandidate.disposition = NoRoute  BY DEF NoCandidate
    <3> QED BY <1>1, <3>1, RouteNames
  <2>8. PICK b \in PresentIn(table, d) : local[u].best = Offer(table, b)
    BY <2>1, <2>7 DEF Candidature
  <2>9. \A r \in PresentIn(table, d) : ~is_better_than(Offer(table, r), Offer(table, b))
    BY <2>6, <2>8 DEF Wanted
  <2>10. table[b] \in BestIn(table, d)  BY <2>9, UnbeatenIsBest
  <2>11. local[u].best.disposition = table[b]  BY <2>8 DEF Offer
  <2> QED BY <2>10, <2>11
<1>9. ThreadInv(u)'
  <2>1. Underway(u)'  BY <1>1, <1>4, <1>5, <1>7 DEF Underway
  <2>2. Lookup(u)'  BY <1>1, <1>4, <1>8 DEF Lookup, Calm
  <2>3. Resolved(u)' /\ Chosen(u)'  BY <1>4 DEF Resolved, Chosen
  <2> QED BY <2>1, <2>2, <2>3 DEF ThreadInv
<1>10. \A t \in Threads \ {u} : ThreadInv(t)'
  BY <1>1, <1>4, <1>5, OthersKeep
<1>11. Awaited' = 0  BY <1>1, <1>4, <1>5 DEF Awaited
<1>12. DumpAge' /\ QueueAge'
  BY <1>1, <1>2, <1>5, <1>11, BacklogDequeue DEF SequencesSuffice, m
<1>13. CacheRight'  BY <1>1, CacheFrame DEF RouteInv
<1> QED BY <1>6, <1>9, <1>10, <1>12, <1>13 DEF RouteInv, RouteTypes

\* A send that ends while it holds the lock, having taken a message or not.
LEMMA FinishLocked ==
  ASSUME RouteInv, SequencesSuffice, NEW u \in Threads, owner = u, pc[u] # "drain",
         UNCHANGED <<table, pending, overrun, changes, cached>>, owner' = Nobody,
         NEW outcome \in Outcomes, Finish(u, outcome), NetlinkTypes',
         faults' \in 0 .. MaxFaults, Awaited' = 0 => DumpAge' /\ QueueAge'
  PROVE  RouteInv'
<1>1. SendTypes /\ KernelTypes  BY DEF RouteInv, RouteTypes
<1>2. /\ pc' \in [Threads -> Stages] /\ pc'[u] = "idle"
      /\ local' \in [Threads -> Local] /\ local'[u] = NoLocals /\ last' \in Outcomes
      /\ \A t \in Threads \ {u} : pc'[t] = pc[t] /\ local'[t] = local[t]
  BY <1>1, Finished
<1>3. SendTypes' /\ KernelTypes'  BY <1>1, <1>2 DEF SendTypes, KernelTypes, Outcomes
<1>4. owner' # u  BY RouteNames
<1>5. ThreadInv(u)'  BY <1>2, <1>4, IdleKnows
<1>6. \A t \in Threads \ {u} : ThreadInv(t)'
  <2>1. \A t \in Threads \ {u} : owner' = t <=> owner = t  BY RouteNames
  <2> QED BY <1>2, <2>1, OthersKeep
<1>7. Awaited' = 0  BY DEF Awaited
<1>8. CacheRight'
  <2>1. ~local[u].invalidated  BY DEF RouteInv, ThreadInv, Underway
  <2>2. (\A t \in Threads : ~local'[t].invalidated) => \A t \in Threads : ~local[t].invalidated
    BY <1>2, <2>1
  <2> QED BY <2>2, CacheFrame DEF RouteInv
<1> QED BY <1>3, <1>5, <1>6, <1>7, <1>8 DEF RouteInv, RouteTypes

\* A lookup that fails leaves the rest of its answers queued, no older than
\* allowed.
LEMMA ReceiveErrorKeeps ==
  ASSUME RouteInv, SequencesSuffice, NEW u \in Threads, ReceiveError(u)
  PROVE  RouteInv'
<1>1. /\ UNCHANGED <<table, pending, overrun, changes, next_sequence, cached, faults>>
      /\ Receiving(u) /\ Dequeue /\ Head(responses).sequence = local[u].sequence
      /\ owner' = Nobody /\ Finish(u, "RawSendFailed")
  BY DEF ReceiveError, kernel, IsForeign, Unlock
<1>2. KernelTypes /\ NetlinkTypes /\ RouteTypes /\ DumpAge /\ QueueAge
  BY DEF RouteInv, RouteTypes
<1>3. /\ owner = u /\ Awaited = local[u].sequence /\ Awaited # 0
      /\ responses' \in Seq(Message) /\ dump' \in DumpType
      /\ pc[u] = "receive" /\ responses # <<>>
  BY <1>1, DequeueFacts DEF Receiving
<1>4. Awaited' = 0 => DumpAge' /\ QueueAge'
  BY <1>1, <1>2, <1>3, BacklogDequeue DEF SequencesSuffice
<1>5. NetlinkTypes' /\ faults' \in 0 .. MaxFaults
  BY <1>1, <1>2, <1>3 DEF KernelTypes, NetlinkTypes, DumpType
<1>6. "RawSendFailed" \in Outcomes  BY DEF Outcomes
<1> QED BY <1>1, <1>3, <1>4, <1>5, <1>6, FinishLocked

\* So does one that times out: the fault makes up for its answers.
LEMMA ReceiveTimeoutKeeps ==
  ASSUME RouteInv, SequencesSuffice, NEW u \in Threads, ReceiveTimeout(u)
  PROVE  RouteInv'
<1>1. /\ UNCHANGED <<table, pending, overrun, changes, dump, responses, next_sequence, cached>>
      /\ pc[u] = "receive" /\ faults < MaxFaults /\ faults' = faults + 1
      /\ owner' = Nobody /\ Finish(u, "RawSendFailed")
  BY DEF ReceiveTimeout, kernel, netlink, Unlock, Fault
<1>2. KernelTypes /\ NetlinkTypes /\ RouteTypes /\ DumpAge /\ QueueAge
  BY DEF RouteInv, RouteTypes
<1>3. owner = u  BY <1>1 DEF RouteInv, ThreadInv, Underway
<1>4. Awaited' = 0 => DumpAge' /\ QueueAge'
  BY <1>1, <1>2, BacklogTimeout DEF SequencesSuffice
<1>5. NetlinkTypes' /\ faults' \in 0 .. MaxFaults
  BY <1>1, <1>2, RouteBounds DEF KernelTypes, NetlinkTypes
<1>6. "RawSendFailed" \in Outcomes  BY DEF Outcomes
<1> QED BY <1>1, <1>3, <1>4, <1>5, <1>6, FinishLocked

\* The packet socket is opened: the entry is the best route's, unless a
\* notification has come meanwhile.
LEMMA OpenKeeps ==
  ASSUME RouteInv, SequencesSuffice, NEW u \in Threads, Open(u)
  PROVE  RouteInv'
<1> DEFINE i == local[u].best.disposition
           e == [interface |-> i, sound |-> TRUE, outdated |-> FALSE]
           c == [destination |-> local[u].destination, interface |-> i,
                 sound |-> TRUE, outdated |-> FALSE]
<1>1. /\ UNCHANGED <<table, pending, overrun, changes, dump, responses, next_sequence, last, faults>>
      /\ pc[u] = "open" /\ owner' = Nobody /\ Goto(u, "transmit") /\ cached' = c
      /\ local' = [local EXCEPT ![u].egress = e, ![u].best = NoCandidate, ![u].sequence = 0]
  BY DEF Open, kernel, netlink, Unlock
<1>2. SendTypes /\ KernelTypes  BY DEF RouteInv, RouteTypes
<1>3. "transmit" \in Stages  BY DEF Stages
<1>4. /\ pc' \in [Threads -> Stages] /\ pc'[u] = "transmit"
      /\ \A t \in Threads \ {u} : pc'[t] = pc[t]
  BY <1>1, <1>2, <1>3, Moved
<1>5. Underway(u) /\ Lookup(u)  BY DEF RouteInv, ThreadInv
<1>6. owner = u /\ i \in Interfaces /\ local[u].destination \in Destinations
      /\ ~local[u].invalidated
  BY <1>1, <1>5 DEF Underway
<1>7. /\ e \in Egress /\ e.interface = i
      /\ c \in Entry /\ c.interface = i /\ c.destination = local[u].destination
  BY <1>6 DEF Egress, Entry
<1>8. Calm(u) => i \in BestIn(table, local[u].destination)  BY <1>1, <1>5 DEF Lookup
<1> HIDE DEF e, c, i
<1>9. /\ local' \in [Threads -> Local] /\ local'[u].destination = local[u].destination
      /\ local'[u].invalidated = local[u].invalidated /\ local'[u].best = NoCandidate
      /\ local'[u].changed = local[u].changed /\ local'[u].egress = e
      /\ \A t \in Threads \ {u} : local'[t] = local[t]
  <2> DEFINE l1 == [local EXCEPT ![u].egress = e]
             l2 == [l1 EXCEPT ![u].best = NoCandidate]
  <2>1. local \in [Threads -> Local]  BY <1>2 DEF SendTypes
  <2>2. /\ l1 \in [Threads -> Local] /\ l1[u].egress = e
        /\ l1[u].destination = local[u].destination
        /\ l1[u].invalidated = local[u].invalidated /\ l1[u].changed = local[u].changed
        /\ \A t \in Threads \ {u} : l1[t] = local[t]
    BY <1>7, <2>1 DEF Local
  <2>3. local' = [l2 EXCEPT ![u].sequence = 0]  BY <1>1
  <2> HIDE DEF l1
  <2>4. /\ l2 \in [Threads -> Local] /\ l2[u].egress = l1[u].egress /\ l2[u].best = NoCandidate
        /\ l2[u].destination = l1[u].destination
        /\ l2[u].invalidated = l1[u].invalidated /\ l2[u].changed = l1[u].changed
        /\ \A t \in Threads \ {u} : l2[t] = l1[t]
    BY <2>2 DEF Local, Candidates
  <2> HIDE DEF l2
  <2>5. /\ local' \in [Threads -> Local] /\ local'[u].egress = l2[u].egress
        /\ local'[u].best = l2[u].best /\ local'[u].destination = l2[u].destination
        /\ local'[u].invalidated = l2[u].invalidated /\ local'[u].changed = l2[u].changed
        /\ \A t \in Threads \ {u} : local'[t] = l2[t]
    BY <2>3, <2>4 DEF Local
  <2> QED BY <2>2, <2>4, <2>5
<1>10. SendTypes'  BY <1>1, <1>2, <1>4, <1>7, <1>9 DEF SendTypes
<1>11. owner' # u  BY <1>1, RouteNames
<1>12. ThreadInv(u)'
  <2>1. Underway(u)'  BY <1>4, <1>6, <1>7, <1>9, <1>11 DEF Underway
  <2>2. Lookup(u)' /\ Resolved(u)'  BY <1>4 DEF Lookup, Resolved
  <2>3. Chosen(u)'  BY <1>1, <1>7, <1>8, <1>9 DEF Chosen, Calm
  <2> QED BY <2>1, <2>2, <2>3 DEF ThreadInv
<1>13. CacheRight'
  BY <1>1, <1>7, <1>8 DEF CacheRight, Calm
<1>14. \A t \in Threads \ {u} : owner' = t <=> owner = t  BY <1>1, <1>6, RouteNames
<1> QED BY <1>1, <1>2, <1>4, <1>6, <1>9, <1>10, <1>12, <1>13, <1>14, QuietStep DEF KernelTypes

\* No packet socket: the send fails and the cache stays as it is.
LEMMA OpenFailsKeeps ==
  ASSUME RouteInv, SequencesSuffice, NEW u \in Threads, OpenFails(u)
  PROVE  RouteInv'
<1>1. /\ UNCHANGED <<table, pending, overrun, changes, dump, responses, next_sequence, cached>>
      /\ pc[u] = "open" /\ faults < MaxFaults /\ faults' = faults + 1
      /\ owner' = Nobody /\ Finish(u, "RawSocketBindFailed")
  BY DEF OpenFails, kernel, netlink, Unlock, Fault
<1>2. KernelTypes /\ NetlinkTypes /\ RouteTypes /\ DumpAge /\ QueueAge
  BY DEF RouteInv, RouteTypes
<1>3. owner = u  BY <1>1 DEF RouteInv, ThreadInv, Underway
<1>4. Awaited' = 0 => DumpAge' /\ QueueAge'
  BY <1>1, <1>2, BacklogTimeout DEF SequencesSuffice
<1>5. NetlinkTypes' /\ faults' \in 0 .. MaxFaults
  BY <1>1, <1>2, RouteBounds DEF KernelTypes, NetlinkTypes
<1>6. "RawSocketBindFailed" \in Outcomes  BY DEF Outcomes
<1> QED BY <1>1, <1>3, <1>4, <1>5, <1>6, FinishLocked

----------------------------------------------------------------------------
(* Transmitting *)

\* A send that ends without the lock, and may forget the entry if nobody has it.
LEMMA FinishUnlocked ==
  ASSUME RouteInv, SequencesSuffice, NEW u \in Threads, pc[u] \in {"transmit", "failed"},
         UNCHANGED <<table, pending, overrun, changes, dump, responses, next_sequence, owner, faults>>,
         cached' = cached \/ (cached' = NoRoute /\ owner = Nobody),
         NEW outcome \in Outcomes, Finish(u, outcome)
  PROVE  RouteInv'
<1>1. SendTypes /\ KernelTypes  BY DEF RouteInv, RouteTypes
<1>2. /\ pc' \in [Threads -> Stages] /\ pc'[u] = "idle"
      /\ local' \in [Threads -> Local] /\ local'[u] = NoLocals /\ last' \in Outcomes
      /\ \A t \in Threads \ {u} : pc'[t] = pc[t] /\ local'[t] = local[t]
  BY <1>1, Finished
<1>3. SendTypes'  BY <1>1, <1>2 DEF SendTypes, Outcomes
<1>4. owner' # u /\ ~local[u].invalidated  BY DEF RouteInv, ThreadInv, Underway
<1>5. ThreadInv(u)'  BY <1>2, <1>4, IdleKnows
<1>6. CacheRight'
  <2>1. (\A t \in Threads : ~local'[t].invalidated) => \A t \in Threads : ~local[t].invalidated
    BY <1>2, <1>4
  <2> QED BY <2>1, CacheFrame DEF RouteInv
<1>7. faults <= MaxFaults /\ pending \in Nat /\ overrun \in BOOLEAN  BY <1>1, RouteBounds DEF KernelTypes
<1> QED BY <1>2, <1>3, <1>5, <1>6, <1>7, QuietStep

\* The packet leaves, and send returns its interface.
LEMMA TransmitKeeps ==
  ASSUME RouteInv, SequencesSuffice, NEW u \in Threads, Transmit(u)
  PROVE  RouteInv'
<1>1. /\ UNCHANGED <<table, pending, overrun, changes, dump, responses, next_sequence, cached,
                     owner, faults>>
      /\ pc[u] = "transmit" /\ Finish(u, local[u].egress.interface)
  BY DEF Transmit, kernel, netlink
<1>2. local[u].egress.interface \in Outcomes
  BY <1>1 DEF RouteInv, ThreadInv, Underway, Outcomes
<1> QED BY <1>1, <1>2, FinishUnlocked

\* A failed send forgets the entry it used, under the lock.
LEMMA InvalidateKeeps ==
  ASSUME RouteInv, SequencesSuffice, NEW u \in Threads, Invalidate(u)
  PROVE  RouteInv'
<1>1. /\ UNCHANGED <<table, pending, overrun, changes, dump, responses, next_sequence,
                     owner, faults>>
      /\ pc[u] = "failed" /\ Finish(u, "RawSendFailed") /\ owner = Nobody
      /\ cached' \in {cached, NoRoute}
  BY DEF Invalidate, kernel, netlink
<1>2. "RawSendFailed" \in Outcomes  BY DEF Outcomes
<1> QED BY <1>1, <1>2, FinishUnlocked

\* sendto fails, and the entry is yet to be invalidated.
LEMMA TransmitFailsKeeps ==
  ASSUME RouteInv, SequencesSuffice, NEW u \in Threads, TransmitFails(u)
  PROVE  RouteInv'
<1>1. SendTypes /\ KernelTypes  BY DEF RouteInv, RouteTypes
<1>2. /\ UNCHANGED <<table, pending, overrun, changes, dump, responses, next_sequence, cached,
                     owner, local, last>>
      /\ pc[u] = "transmit" /\ Goto(u, "failed")
      /\ faults' \in {faults, faults + 1} /\ faults' <= MaxFaults
  BY <1>1, RouteBounds DEF TransmitFails, kernel, netlink, Fault, KernelTypes
<1>3. "failed" \in Stages  BY DEF Stages
<1>4. /\ pc' \in [Threads -> Stages] /\ pc'[u] = "failed"
      /\ \A t \in Threads \ {u} : pc'[t] = pc[t]
  BY <1>1, <1>2, <1>3, Moved
<1>5. SendTypes'  BY <1>1, <1>2, <1>4 DEF SendTypes
<1>6. ThreadInv(u)'
  <2>1. Underway(u)  BY DEF RouteInv, ThreadInv
  <2>2. Underway(u)'  BY <1>2, <1>4, <2>1 DEF Underway
  <2>3. Lookup(u)' /\ Resolved(u)' /\ Chosen(u)'  BY <1>4 DEF Lookup, Resolved, Chosen
  <2> QED BY <2>2, <2>3 DEF ThreadInv
<1>7. CacheRight'  BY <1>2, CacheFrame DEF RouteInv
<1> QED BY <1>1, <1>2, <1>4, <1>5, <1>6, <1>7, QuietStep DEF KernelTypes

----------------------------------------------------------------------------
(* Steps of the kernel *)

\* A route changes: a notification waits or is owed, and whoever is sending is
\* disturbed.
LEMMA ChangeRouteKeeps ==
  ASSUME RouteInv, SequencesSuffice, NEW r \in Routes, NEW out \in Outs \cup {NoRoute},
         ChangeRoute(r, out)
  PROVE  RouteInv'
<1>1. /\ UNCHANGED <<dump, responses, next_sequence, cached, owner, pc, last, faults>>
      /\ changes < MaxChanges /\ changes' = changes + 1
      /\ table' = [table EXCEPT ![r] = out]
      /\ (pending' = pending + 1 /\ overrun' = overrun) \/ (overrun' = TRUE /\ pending' = pending)
      /\ local' = [t \in Threads |->
                     IF pc[t] = "idle" THEN local[t] ELSE [local[t] EXCEPT !.changed = TRUE]]
  BY DEF ChangeRoute, netlink
<1>2. SendTypes /\ KernelTypes /\ NetlinkTypes  BY DEF RouteInv, RouteTypes
<1>3. /\ changes' \in 0 .. MaxChanges /\ table' \in [Routes -> Outs \cup {NoRoute}]
      /\ pending' \in Nat /\ overrun' \in BOOLEAN /\ (pending' # 0 \/ overrun')
  <2>1. changes' \in 0 .. MaxChanges  BY <1>1, <1>2, RouteBounds DEF KernelTypes
  <2>2. table' \in [Routes -> Outs \cup {NoRoute}]  BY <1>1, <1>2 DEF KernelTypes
  <2>3. CASE pending' = pending + 1 /\ overrun' = overrun
    <3>1. pending' \in Nat /\ pending' # 0  BY <1>2, <2>3 DEF KernelTypes
    <3>2. overrun' \in BOOLEAN  BY <1>2, <2>3 DEF KernelTypes
    <3> QED BY <2>1, <2>2, <3>1, <3>2
  <2>4. CASE overrun' = TRUE /\ pending' = pending
    <3>1. pending' \in Nat  BY <1>2, <2>4 DEF KernelTypes
    <3> QED BY <2>1, <2>2, <2>4, <3>1
  <2> QED BY <1>1, <2>3, <2>4
<1>4. ASSUME NEW t \in Threads
      PROVE  /\ local'[t] \in Local /\ local'[t].destination = local[t].destination
             /\ local'[t].invalidated = local[t].invalidated
             /\ local'[t].sequence = local[t].sequence /\ local'[t].best = local[t].best
             /\ local'[t].egress = local[t].egress
             /\ pc[t] # "idle" => local'[t].changed
  <2>1. local[t] \in Local  BY <1>2 DEF SendTypes
  <2>2. CASE pc[t] = "idle"  BY <1>1, <2>1, <2>2
  <2>3. CASE pc[t] # "idle"
    <3>1. local'[t] = [local[t] EXCEPT !.changed = TRUE]  BY <1>1, <2>3
    <3> QED BY <2>1, <3>1 DEF Local
  <2> QED BY <2>2, <2>3
<1>5. local' \in [Threads -> Local]  BY <1>1, <1>4
<1>6. RouteTypes'
  BY <1>1, <1>2, <1>3, <1>5 DEF RouteTypes, SendTypes, KernelTypes, NetlinkTypes
<1>7. ASSUME NEW t \in Threads PROVE ThreadInv(t)'
  <2>1. Underway(t)  BY DEF RouteInv, ThreadInv
  <2>2. Underway(t)'  BY <1>1, <1>4, <2>1 DEF Underway
  <2>3. Lookup(t)'  BY <1>1, <1>3, <1>4 DEF Lookup, Calm
  <2>4. Resolved(t)' /\ Chosen(t)'  BY <1>1, <1>4 DEF Resolved, Chosen
  <2> QED BY <2>2, <2>3, <2>4 DEF ThreadInv
<1>8. Awaited' = Awaited
  <2>1. \A t \in Threads : /\ pc'[t] = "receive" <=> pc[t] = "receive"
                           /\ pc[t] = "receive" => local'[t].sequence = local[t].sequence
    BY <1>1, <1>4
  <2>2. owner \in Threads \cup {Nobody} /\ owner' \in Threads \cup {Nobody}
    BY <1>1, <1>2 DEF SendTypes
  <2>3. \A t \in Threads : Underway(t) /\ Underway(t)'  BY <1>7 DEF RouteInv, ThreadInv
  <2> QED BY <2>1, <2>2, <2>3, AwaitedKept
<1>9. DumpAge' /\ QueueAge'
  <2>1. faults' \in Nat /\ faults' >= faults  BY <1>1, <1>2 DEF KernelTypes
  <2> QED BY <1>1, <1>8, <2>1, BacklogFrame DEF RouteInv, SequencesSuffice
<1>10. CacheRight'  BY <1>3 DEF CacheRight
<1> QED BY <1>6, <1>7, <1>9, <1>10 DEF RouteInv

\* An error in a dump adds no route and no end to the queue.
LEMMA DumpErrorKeeps ==
  ASSUME RouteInv, SequencesSuffice, DumpError
  PROVE  RouteInv'
<1> DEFINE m == [sequence |-> dump.sequence, kind |-> "error"]
<1>1. /\ UNCHANGED <<table, pending, overrun, changes, dump, next_sequence, cached, owner, pc,
                     local, last>>
      /\ dump # NoDump /\ faults < MaxFaults /\ faults' = faults + 1
      /\ responses' = Append(responses, m)
  BY DEF DumpError, kernel, Fault
<1>2. SendTypes /\ KernelTypes /\ NetlinkTypes /\ RouteTypes /\ DumpAge /\ QueueAge
  BY DEF RouteInv, RouteTypes
<1>3. m \in Message /\ m.sequence = dump.sequence /\ m.kind = "error"
  <2>1. dump.sequence \in Sequence  BY <1>1, <1>2 DEF NetlinkTypes
  <2> QED BY <2>1 DEF Message
<1> HIDE DEF m
<1>4. RouteTypes'
  <2>1. responses' \in Seq(Message)  BY <1>1, <1>2, <1>3 DEF NetlinkTypes
  <2>2. faults' \in 0 .. MaxFaults  BY <1>1, <1>2, RouteBounds DEF KernelTypes
  <2> QED BY <1>1, <1>2, <2>1, <2>2 DEF RouteTypes, SendTypes, KernelTypes, NetlinkTypes
<1>5. Awaited' = Awaited  BY <1>1 DEF Awaited
<1>6. DumpAge' /\ QueueAge'
  BY <1>1, <1>2, <1>3, <1>5, BacklogDumpError DEF SequencesSuffice
<1>7. ASSUME NEW t \in Threads PROVE ThreadInv(t)'
  <2>1. ThreadInv(t)  BY DEF RouteInv
  <2>2. Underway(t)' /\ Resolved(t)' /\ Chosen(t)'
    BY <1>1, <2>1 DEF ThreadInv, Underway, Resolved, Chosen
  <2>3. responses \in Seq(Message)  BY <1>2 DEF NetlinkTypes
  <2>4. /\ \A i \in DOMAIN responses : i \in DOMAIN responses' /\ responses'[i] = responses[i]
        /\ \A i \in DOMAIN responses' : i \in DOMAIN responses \/ responses'[i] = m
    BY <1>1, <2>3
  <2>5. ASSUME NEW s, NEW wanted, Answers(responses, dump, s, wanted)
        PROVE  Answers(responses', dump, s, wanted)
    <3>1. \A i \in DOMAIN responses : ~DoneFor(responses, i, s)
      BY <1>1, <2>5 DEF Answers, EndsLast
    <3>2. \A i \in DOMAIN responses' : ~DoneFor(responses', i, s)
      BY <1>3, <2>4, <3>1 DEF DoneFor
    <3>3. Truthful(responses', s)
      BY <1>3, <2>4, <2>5 DEF Answers, Truthful, RouteFor
    <3>4. EndsLast(responses', dump, s)  BY <3>2 DEF EndsLast
    <3>5. Complete(responses', dump, s, wanted)
      BY <2>4, <2>5, <3>2 DEF Answers, Complete, RouteFor
    <3> QED BY <3>3, <3>4, <3>5 DEF Answers
  <2>6. Lookup(t)'
    <3>1. Wanted(t)' = Wanted(t) /\ Candidature(t)' = Candidature(t) /\ Calm(t)' = Calm(t)
      BY <1>1 DEF Wanted, Candidature, Calm
    <3>2. Answers(responses, dump, local[t].sequence, Wanted(t)) =>
            Answers(responses, dump, local[t].sequence, Wanted(t))'
      <4> SUFFICES ASSUME Answers(responses, dump, local[t].sequence, Wanted(t))
                   PROVE  Answers(responses, dump, local[t].sequence, Wanted(t))'
        OBVIOUS
      <4>1. Answers(responses', dump, local[t].sequence, Wanted(t))  BY <2>5
      <4> QED BY <1>1, <3>1, <4>1 DEF Answers, Truthful, EndsLast, Complete, RouteFor, DoneFor
    <3> QED BY <1>1, <2>1, <3>1, <3>2 DEF ThreadInv, Lookup
  <2> QED BY <2>2, <2>6 DEF ThreadInv
<1>8. CacheRight'  BY <1>1, CacheFrame DEF RouteInv
<1> QED BY <1>4, <1>6, <1>7, <1>8 DEF RouteInv

\* A socket that breaks stays where it leads.
LEMMA BreakSocketKeeps ==
  ASSUME RouteInv, SequencesSuffice, BreakSocket
  PROVE  RouteInv'
<1>1. /\ UNCHANGED <<table, pending, overrun, changes, dump, responses, next_sequence, owner, pc, last>>
      /\ cached # NoRoute /\ faults < MaxFaults /\ faults' = faults + 1
      /\ cached' = [cached EXCEPT !.sound = FALSE]
      /\ local' = [t \in Threads |->
                     IF local[t].egress.interface = cached.interface
                     THEN [local[t] EXCEPT !.egress.sound = FALSE] ELSE local[t]]
  BY DEF BreakSocket, kernel, netlink, Fault
<1>2. SendTypes /\ KernelTypes /\ NetlinkTypes  BY DEF RouteInv, RouteTypes
<1>3. /\ cached' \in Entry /\ cached'.interface = cached.interface
      /\ cached'.destination = cached.destination /\ cached'.outdated = cached.outdated
      /\ cached.interface \in Interfaces
  BY <1>1, <1>2 DEF SendTypes, Entry
<1>4. ASSUME NEW t \in Threads
      PROVE  /\ local'[t] \in Local /\ local'[t].destination = local[t].destination
             /\ local'[t].invalidated = local[t].invalidated
             /\ local'[t].sequence = local[t].sequence /\ local'[t].best = local[t].best
             /\ local'[t].changed = local[t].changed
             /\ local'[t].egress.interface = local[t].egress.interface
             /\ local'[t].egress.outdated = local[t].egress.outdated
  <2>1. local[t] \in Local  BY <1>2 DEF SendTypes
  <2>2. CASE local[t].egress.interface # cached.interface  BY <1>1, <2>1, <2>2
  <2>3. CASE local[t].egress.interface = cached.interface
    <3> DEFINE f == [local[t].egress EXCEPT !.sound = FALSE]
    <3>1. local'[t] = [local[t] EXCEPT !.egress = f]  BY <1>1, <2>3
    <3>2. local[t].egress \in [interface : Interfaces, sound : BOOLEAN, outdated : BOOLEAN]
      <4>1. NoEgress.interface = NoRoute  BY DEF NoEgress
      <4> QED BY <1>3, <2>1, <2>3, <4>1, RouteNames DEF Local, Egress
    <3>3. /\ f \in Egress /\ f.interface = local[t].egress.interface
          /\ f.outdated = local[t].egress.outdated
      BY <3>2 DEF Egress
    <3> HIDE DEF f
    <3> QED BY <2>1, <3>1, <3>3 DEF Local
  <2> QED BY <2>2, <2>3
<1>5. local' \in [Threads -> Local]  BY <1>1, <1>4
<1>6. RouteTypes'
  <2>1. faults' \in 0 .. MaxFaults  BY <1>1, <1>2, RouteBounds DEF KernelTypes
  <2> QED BY <1>1, <1>2, <1>3, <1>5, <2>1 DEF RouteTypes, SendTypes, KernelTypes, NetlinkTypes
<1>7. ASSUME NEW t \in Threads PROVE ThreadInv(t)'
  <2>1. Underway(t) /\ Lookup(t) /\ Resolved(t) /\ Chosen(t)  BY DEF RouteInv, ThreadInv
  <2>2. Underway(t)'  BY <1>1, <1>4, <2>1 DEF Underway
  <2>3. Lookup(t)'
    <3>1. Wanted(t)' = Wanted(t) /\ Candidature(t)' = Candidature(t) /\ Calm(t)' = Calm(t)
      BY <1>1, <1>4 DEF Wanted, Candidature, Calm
    <3>2. Answers(responses, dump, local[t].sequence, Wanted(t)) =>
            Answers(responses, dump, local[t].sequence, Wanted(t))'
      BY <1>1, <1>4, <3>1 DEF Answers, Truthful, EndsLast, Complete, RouteFor, DoneFor
    <3> QED BY <1>1, <1>4, <2>1, <3>1, <3>2 DEF Lookup
  <2>4. Resolved(t)' /\ Chosen(t)'  BY <1>1, <1>3, <1>4, <2>1 DEF Resolved, Chosen
  <2> QED BY <2>2, <2>3, <2>4 DEF ThreadInv
<1>8. Awaited' = Awaited
  <2>1. \A t \in Threads : /\ pc'[t] = "receive" <=> pc[t] = "receive"
                           /\ pc[t] = "receive" => local'[t].sequence = local[t].sequence
    BY <1>1, <1>4
  <2>2. owner \in Threads \cup {Nobody} /\ owner' \in Threads \cup {Nobody}
    BY <1>1, <1>2 DEF SendTypes
  <2>3. \A t \in Threads : Underway(t) /\ Underway(t)'  BY <1>7 DEF RouteInv, ThreadInv
  <2> QED BY <2>1, <2>2, <2>3, AwaitedKept
<1>9. DumpAge' /\ QueueAge'
  <2>1. faults' \in Nat /\ faults' >= faults  BY <1>1, <1>2 DEF KernelTypes
  <2> QED BY <1>1, <1>8, <2>1, BacklogFrame DEF RouteInv, SequencesSuffice
<1>10. CacheRight'  BY <1>1, <1>3, <1>4 DEF RouteInv, CacheRight
<1> QED BY <1>6, <1>7, <1>9, <1>10 DEF RouteInv

----------------------------------------------------------------------------
(* The theorems *)

\* A publication just opened has no lookup under way and nothing cached.
LEMMA RouteInitially ==
  ASSUME Init
  PROVE  RouteInv
<1>1. /\ table \in InitialTables /\ pending = 0 /\ overrun = FALSE
      /\ dump = NoDump /\ responses = <<>> /\ next_sequence = 1
      /\ cached = NoRoute /\ owner = Nobody /\ last = "none" /\ changes = 0 /\ faults = 0
      /\ pc = [t \in Threads |-> "idle"] /\ local = [t \in Threads |-> NoLocals]
  BY DEF Init
<1>2. KernelTypes
  <2>1. table \in [Routes -> Outs \cup {NoRoute}]  BY <1>1, TableAssumption DEF Outs
  <2>2. pending \in Nat /\ changes \in 0 .. MaxChanges /\ faults \in 0 .. MaxFaults
    BY <1>1, RouteBounds
  <2>3. overrun \in BOOLEAN  BY <1>1
  <2> QED BY <2>1, <2>2, <2>3 DEF KernelTypes
<1>3. NetlinkTypes  BY <1>1, RouteBounds DEF NetlinkTypes, Sequence
<1>4. NoLocals \in Local /\ NoLocals.invalidated = FALSE /\ NoLocals.best = NoCandidate
  BY DEF NoLocals, Local, Egress, Candidates
<1>5. SendTypes
  <2>1. pc \in [Threads -> Stages]  BY <1>1 DEF Stages
  <2>2. local \in [Threads -> Local]  BY <1>1, <1>4
  <2> QED BY <1>1, <2>1, <2>2 DEF SendTypes
<1>6. ASSUME NEW t \in Threads PROVE ThreadInv(t)
  <2>1. pc[t] = "idle" /\ local[t] = NoLocals /\ owner # t  BY <1>1, RouteNames
  <2>2. Underway(t)  BY <1>4, <2>1 DEF Underway
  <2>3. Lookup(t) /\ Resolved(t) /\ Chosen(t)  BY <2>1 DEF Lookup, Resolved, Chosen
  <2> QED BY <2>2, <2>3 DEF ThreadInv
<1>7. DumpAge  BY <1>1 DEF DumpAge
<1>8. QueueAge
  <2>1. DOMAIN responses = {}  BY <1>1
  <2> QED BY <2>1 DEF QueueAge
<1>9. CacheRight  BY <1>1 DEF CacheRight
<1> QED BY <1>2, <1>3, <1>5, <1>6, <1>7, <1>8, <1>9 DEF RouteInv, RouteTypes

\* A stuttering step changes nothing of it.
LEMMA RouteStutters ==
  ASSUME RouteInv, UNCHANGED vars
  PROVE  RouteInv'
<1>1. UNCHANGED <<table, pending, overrun, changes, dump, responses, next_sequence, cached,
                  owner, pc, local, last, faults>>
  BY DEF vars, kernel, netlink
<1>2. RouteTypes'
  BY <1>1 DEF RouteInv, RouteTypes, KernelTypes, NetlinkTypes, SendTypes
<1>3. ASSUME NEW t \in Threads PROVE ThreadInv(t)'
  <2>1. ThreadInv(t)  BY DEF RouteInv
  <2> QED BY <1>1, <2>1, Elsewhere
<1>4. DumpAge' /\ QueueAge'
  BY <1>1 DEF RouteInv, DumpAge, QueueAge, Age, AgeAt, Awaited
<1>5. CacheRight'  BY <1>1 DEF RouteInv, CacheRight
<1> QED BY <1>2, <1>3, <1>4, <1>5 DEF RouteInv

\* Every step of a thread, the kernel or the interface keeps the invariant.
LEMMA RouteNextKeeps ==
  ASSUME RouteInv, SequencesSuffice, Next
  PROVE  RouteInv'
<1>1. ASSUME NEW u \in Threads, SendStep(u) PROVE RouteInv'
  BY <1>1, LockKeeps, DrainedKeeps, DrainOneKeeps, CacheHitKeeps, RequestKeeps,
     ReceiveForeignKeeps, ReceiveRouteKeeps, ReceiveDoneKeeps, ReceiveErrorKeeps, OpenKeeps,
     TransmitKeeps, TransmitFailsKeeps, InvalidateKeeps DEF SendStep
<1>2. ASSUME NEW u \in Threads, Failures(u) PROVE RouteInv'
  BY <1>2, DrainFailsKeeps, ReceiveTimeoutKeeps, OpenFailsKeeps DEF Failures
<1>3. ASSUME NEW u \in Threads, NEW d \in Destinations, send(u, d) PROVE RouteInv'
  BY <1>3, SendKeeps
<1>4. ASSUME NEW r \in Routes, NEW out \in Outs \cup {NoRoute}, ChangeRoute(r, out)
      PROVE  RouteInv'
  BY <1>4, ChangeRouteKeeps
<1>5. CASE DumpError  BY <1>5, DumpErrorKeeps
<1>6. CASE BreakSocket  BY <1>6, BreakSocketKeeps
<1> QED BY <1>1, <1>2, <1>3, <1>4, <1>5, <1>6 DEF Next

\* The invariant holds throughout: sequence numbers of dumps and of queued
\* answers stay too young to be confused with the awaited one, and what a
\* lookup has gathered is what the table says, unless a notification waits.
THEOREM RouteInductive == SequencesSuffice => (Spec => []RouteInv)
<1> SUFFICES ASSUME SequencesSuffice PROVE Spec => []RouteInv
  OBVIOUS
<1>1. Init => RouteInv  BY RouteInitially
<1>2. RouteInv /\ [Next]_vars => RouteInv'  BY RouteNextKeeps, RouteStutters
<1> QED BY <1>1, <1>2, PTL DEF Spec

\* The variables keep their types.
LEMMA RouteTypesSuffice ==
  ASSUME RouteTypes
  PROVE  TypeOK
<1>1. KernelTypes /\ NetlinkTypes /\ SendTypes  BY DEF RouteTypes
<1>2. dump.sequence \in Nat /\ dump.rest \subseteq Routes
  BY <1>1, RouteBounds DEF NetlinkTypes, Sequence, NoDump
<1>3. responses \in Seq(Messages)
  <2>1. \A m \in Message : m \in Messages
    <3>1. \A s \in Sequence : s \in Nat  BY RouteBounds DEF Sequence
    <3> QED BY <3>1 DEF Message, Messages
  <2> QED BY <1>1, <2>1 DEF NetlinkTypes
<1>4. ASSUME NEW t \in Threads
      PROVE  /\ local[t].destination \in Destinations \cup {NoRoute}
             /\ local[t].invalidated \in BOOLEAN /\ local[t].changed \in BOOLEAN
             /\ local[t].sequence \in 0 .. SequenceLimit - 1
             /\ local[t].best \in Candidates
             /\ local[t].egress \in {NoEgress} \cup
                  [interface : Interfaces, sound : BOOLEAN, outdated : BOOLEAN]
  <2>1. local[t] \in Local  BY <1>1 DEF SendTypes
  <2>2. local[t].sequence \in {0} \cup Sequence  BY <2>1 DEF Local
  <2>3. local[t].sequence \in 0 .. SequenceLimit - 1  BY <2>2, RouteBounds DEF Sequence
  <2> QED BY <2>1, <2>3 DEF Local, Egress
<1> QED BY <1>1, <1>2, <1>3, <1>4 DEF TypeOK, KernelTypes, NetlinkTypes, SendTypes, Sequence, Entry

\* Every variable of the route-selected egress keeps its type; in particular
\* next_sequence never becomes 0, which would be no sequence number at all.
THEOREM RouteTypeCorrect == SequencesSuffice => (Spec => []TypeOK)
<1> SUFFICES ASSUME SequencesSuffice PROVE Spec => []TypeOK
  OBVIOUS
<1>1. Spec => []RouteInv  BY RouteInductive
<1>2. RouteInv => TypeOK  BY RouteTypesSuffice DEF RouteInv
<1> QED BY <1>1, <1>2, PTL

\* With the lock free and no notification waiting, the interface that
\* LinuxIpv6RouteEgress has cached is one the routing table names now, whatever
\* late, interrupted or mixed dumps it was found with; entries of the table may
\* agree in prefix length and priority, and a tie may go either way.
THEOREM CacheIsCurrent == SequencesSuffice => (Spec => []CacheCurrent)
<1> SUFFICES ASSUME SequencesSuffice PROVE Spec => []CacheCurrent
  OBVIOUS
<1>1. Spec => []RouteInv  BY RouteInductive
<1>2. RouteInv => CacheCurrent
  <2> SUFFICES ASSUME RouteInv, cached # NoRoute, ~cached.outdated, owner = Nobody,
                      pending = 0, ~overrun
               PROVE  cached.interface \in Best(cached.destination)
    BY DEF CacheCurrent
  <2>1. \A t \in Threads : ~local[t].invalidated
    BY RouteNames DEF RouteInv, ThreadInv, Underway
  <2>2. cached.interface \in BestIn(table, cached.destination)
    BY <2>1 DEF RouteInv, CacheRight
  <2> QED BY <2>2, BestIs
<1> QED BY <1>1, <1>2, PTL

\* Only its own transmission takes a thread from transmit back to its caller.
LEMMA OnlyTransmitSends ==
  ASSUME RouteInv, Next, NEW t \in Threads, pc[t] = "transmit", pc'[t] = "idle"
  PROVE  Transmit(t)
<1>1. pc \in [Threads -> Stages]  BY DEF RouteInv, RouteTypes, SendTypes
<1>2. ASSUME NEW u \in Threads, NEW stage, Goto(u, stage), pc[u] # "transmit" \/ stage # "idle"
      PROVE  FALSE
  BY <1>1, <1>2 DEF Goto
<1>3. ASSUME NEW u \in Threads, SendStep(u) PROVE Transmit(t)
  <2>1. CASE Transmit(u)
    <3>1. Goto(u, "idle")  BY <2>1 DEF Transmit, Finish
    <3>2. t = u  BY <1>1, <3>1 DEF Goto
    <3> QED BY <2>1, <3>2
  <2>2. CASE Lock(u) \/ DrainOverrun(u) \/ DrainEnd(u) \/ CacheHit(u) \/ Request(u)
             \/ ReceiveDone(u) \/ ReceiveError(u) \/ Open(u) \/ TransmitFails(u) \/ Invalidate(u)
    <3>1. \E stage : Goto(u, stage) /\ (pc[u] # "transmit" \/ stage # "idle")
      BY <2>2 DEF Lock, DrainOverrun, DrainEnd, Drained, CacheHit, Request, Receiving,
                  ReceiveDone, ReceiveError, Finish, Open, TransmitFails, Invalidate
    <3> QED BY <1>2, <3>1
  <2>3. CASE DrainOne(u) \/ ReceiveForeign(u) \/ ReceiveRoute(u)
    BY <2>3 DEF DrainOne, ReceiveForeign, ReceiveRoute
  <2> QED BY <1>3, <2>1, <2>2, <2>3 DEF SendStep
<1>4. ASSUME NEW u \in Threads, Failures(u) PROVE FALSE
  <2>1. Goto(u, "idle") /\ pc[u] # "transmit"
    BY <1>4 DEF Failures, DrainFails, ReceiveTimeout, OpenFails, Finish
  <2> QED BY <1>2, <2>1
<1>5. ASSUME NEW u \in Threads, NEW d \in Destinations, send(u, d) PROVE FALSE
  <2>1. Goto(u, "lock") /\ pc[u] # "transmit"  BY <1>5 DEF send
  <2> QED BY <1>2, <2>1
<1>6. ASSUME NEW r \in Routes, NEW out \in Outs \cup {NoRoute}, ChangeRoute(r, out) PROVE FALSE
  BY <1>6 DEF ChangeRoute
<1>7. ~DumpError /\ ~BreakSocket  BY DEF DumpError, BreakSocket
<1> QED BY <1>3, <1>4, <1>5, <1>6, <1>7 DEF Next

\* A send during which the routing table does not change leaves by an
\* interface the table names for its destination, whatever other threads do to
\* the shared cache and whatever an earlier dump left queued; the exception is
\* an entry that a failed drain let outlive its notification.
THEOREM RouteFollowed == SequencesSuffice => (Spec => FollowsRoute)
<1> SUFFICES ASSUME SequencesSuffice PROVE Spec => FollowsRoute
  OBVIOUS
<1> DEFINE Follows == \A t \in Threads :
             SentUndisturbed(t) /\ ~local[t].egress.outdated =>
               last' \in Best(local[t].destination)
<1>1. Spec => []RouteInv  BY RouteInductive
<1>2. RouteInv /\ [Next]_vars => [Follows]_vars
  <2> SUFFICES ASSUME RouteInv, Next, NEW t \in Threads, pc[t] = "transmit", pc'[t] = "idle",
                      ~local[t].changed, ~local[t].egress.outdated
               PROVE  last' \in Best(local[t].destination)
    BY DEF SentUndisturbed
  <2>1. Transmit(t)  BY OnlyTransmitSends
  <2>2. last' = local[t].egress.interface  BY <2>1 DEF Transmit, Finish
  <2>3. local[t].egress.interface \in BestIn(table, local[t].destination)
    BY DEF RouteInv, ThreadInv, Chosen
  <2> QED BY <2>2, <2>3, BestIs
<1>3. Spec => [][Follows]_vars  BY <1>1, <1>2, PTL DEF Spec
<1> QED BY <1>3 DEF FollowsRoute
=============================================================================
