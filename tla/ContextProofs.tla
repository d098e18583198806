--------------------------- MODULE ContextProofs ---------------------------
(***************************************************************************)
(* The context's membership and its counters, for any configurations,      *)
(* threads and bounds.                                                     *)
(***************************************************************************)
EXTENDS Context, FiniteSetTheorems, SequenceTheorems, TLAPS

----------------------------------------------------------------------------
(* Sums over finite sets.  Induction is by least counterexample. *)

\* A set of natural numbers has a least element.
LEMMA LeastNatural ==
  ASSUME NEW T \in SUBSET Nat, T # {}
  PROVE  \E n \in T : \A m \in T : n <= m
<1> DEFINE R == OpToRel(<, Nat)
<1>1. IsWellFoundedOn(R, Nat)
  BY NatLessThanWellFounded
<1> HIDE DEF R
<1>2. PICK n \in T : \A m \in T : ~(<<m, n>> \in R)
  BY <1>1, WFMin
<1>3. ASSUME NEW m \in T PROVE n <= m
  <2>1. m \in Nat /\ n \in Nat
    OBVIOUS
  <2>2. ~(<<m, n>> \in {ss \in Nat \X Nat : ss[1] < ss[2]})
    BY <1>2 DEF R, OpToRel
  <2> QED
    BY <2>1, <2>2
<1> QED
  BY <1>3

\* The recursion by which the fold of Total adds up.
Adds(h, f, c, s) ==
  h[s] = IF s = {} THEN 0
         ELSE f[CHOOSE x \in s : TRUE][c] + h[s \ {CHOOSE x \in s : TRUE}]
IsSum(h, f, c, D) ==
  h = [s \in SUBSET D |->
         IF s = {} THEN 0
         ELSE f[CHOOSE x \in s : TRUE][c] + h[s \ {CHOOSE x \in s : TRUE}]]

\* Taking the chosen element leaves a smaller set.
LEMMA ChosenLess ==
  ASSUME NEW D, IsFiniteSet(D), NEW s \in SUBSET D, s # {}
  PROVE  LET x == CHOOSE x \in s : TRUE
         IN  /\ x \in s /\ s \ {x} \in SUBSET D
             /\ Cardinality(s) \in Nat \ {0}
             /\ Cardinality(s \ {x}) = Cardinality(s) - 1
<1> DEFINE x == CHOOSE x \in s : TRUE
<1>1. x \in s
  OBVIOUS
<1> HIDE DEF x
<1>2. IsFiniteSet(s)
  BY FS_Subset
<1>3. Cardinality(s) \in Nat /\ Cardinality(s) # 0
  BY <1>2, FS_CardinalityType, FS_EmptySet
<1>4. Cardinality(s \ {x}) = Cardinality(s) - 1
  BY <1>1, <1>2, FS_RemoveElement
<1>5. s \ {x} \in SUBSET D
  OBVIOUS
<1> QED
  BY <1>1, <1>3, <1>4, <1>5 DEF x

\* On a finite set the recursion has a solution.
LEMMA SumExists ==
  ASSUME NEW D, IsFiniteSet(D), NEW f, NEW c
  PROVE  \E h : IsSum(h, f, c, D)
<1> DEFINE Upto(n) == {s \in SUBSET D : Cardinality(s) <= n}
           Solved(n) == \E h : \A s \in Upto(n) : Adds(h, f, c, s)
           Unsolved == {n \in Nat : ~Solved(n)}
<1>1. ASSUME Unsolved # {} PROVE FALSE
  <2>1. PICK n \in Unsolved : \A m \in Unsolved : n <= m
    BY <1>1, LeastNatural
  <2>2. CASE n = 0
    <3> DEFINE h == [s \in SUBSET D |-> 0]
    <3>1. ASSUME NEW s \in Upto(0) PROVE Adds(h, f, c, s)
      <4>1. s \in SUBSET D /\ Cardinality(s) <= 0
        OBVIOUS
      <4>2. IsFiniteSet(s)
        BY <4>1, FS_Subset
      <4>3. s = {}
        BY <4>1, <4>2, FS_CardinalityType, FS_EmptySet
      <4> QED
        BY <4>3 DEF Adds
    <3> QED
      BY <2>1, <2>2, <3>1
  <2>3. CASE n # 0
    <3>1. n - 1 \in Nat /\ n - 1 < n
      BY <2>3
    <3>2. Solved(n - 1)
      <4> HIDE DEF Solved
      <4>1. n - 1 \notin Unsolved
        BY <2>1, <3>1
      <4> QED
        BY <3>1, <4>1
    <3>3. PICK h : \A s \in Upto(n - 1) : Adds(h, f, c, s)
      BY <3>2
    <3> DEFINE x(s) == CHOOSE x \in s : TRUE
               g == [s \in SUBSET D |-> IF Cardinality(s) <= n - 1 THEN h[s]
                                        ELSE f[x(s)][c] + h[s \ {x(s)}]]
    <3>4. ASSUME NEW s \in Upto(n) PROVE Adds(g, f, c, s)
      <4>1. CASE s = {}
        <5>1. s \in Upto(n - 1)
          BY <3>1, <4>1, FS_EmptySet
        <5> QED
          BY <3>3, <4>1, <5>1 DEF Adds
      <4>2. CASE s # {}
        <5>1. /\ x(s) \in s /\ s \ {x(s)} \in SUBSET D /\ Cardinality(s) \in Nat \ {0}
              /\ Cardinality(s \ {x(s)}) = Cardinality(s) - 1
          BY <4>2, ChosenLess
        <5>2. Cardinality(s \ {x(s)}) <= n - 1
          BY <3>1, <5>1
        <5>3. g[s \ {x(s)}] = h[s \ {x(s)}]
          BY <5>1, <5>2
        <5>4. g[s] = f[x(s)][c] + h[s \ {x(s)}]
          <6>1. CASE Cardinality(s) <= n - 1
            BY <3>3, <4>2, <6>1 DEF Adds
          <6>2. CASE ~(Cardinality(s) <= n - 1)
            BY <6>2
          <6> QED
            BY <6>1, <6>2
        <5> QED
          BY <4>2, <5>3, <5>4 DEF Adds
      <4> QED
        BY <4>1, <4>2
    <3> HIDE DEF g
    <3>5. Solved(n)
      BY <3>4
    <3> QED
      BY <2>1, <3>5
  <2> QED
    BY <2>2, <2>3
<1>2. Cardinality(D) \in Nat
  BY FS_CardinalityType
<1>3. PICK h : \A s \in Upto(Cardinality(D)) : Adds(h, f, c, s)
  BY <1>1, <1>2
<1> DEFINE x(s) == CHOOSE x \in s : TRUE
           g == [s \in SUBSET D |-> h[s]]
<1>4. ASSUME NEW s \in SUBSET D
      PROVE  g[s] = IF s = {} THEN 0 ELSE f[x(s)][c] + g[s \ {x(s)}]
  <2>1. Cardinality(s) <= Cardinality(D)
    BY FS_Subset
  <2>2. Adds(h, f, c, s)
    BY <1>3, <2>1
  <2>3. s \ {x(s)} \in SUBSET D
    OBVIOUS
  <2> QED
    BY <2>2, <2>3 DEF Adds
<1>5. IsSum(g, f, c, D)
  BY <1>4 DEF IsSum
<1> QED
  BY <1>5

\* The fold is such a solution.
LEMMA TotalIsSum ==
  ASSUME NEW f, IsFiniteSet(DOMAIN f), NEW c
  PROVE  \E h : IsSum(h, f, c, DOMAIN f) /\ Total(f, c) = h[DOMAIN f]
<1> DEFINE D == DOMAIN f
           h == CHOOSE h : IsSum(h, f, c, D)
<1>1. IsSum(h, f, c, D)
  BY SumExists
<1>2. Total(f, c) = h[D]
  BY DEF Total, FoldFunction, FoldFunctionOnSet, MapThenFoldSet, IsSum
<1> QED
  BY <1>1, <1>2

\* Sums of natural numbers are natural numbers; functions that differ at most
\* at one point have sums that differ by as much.
LEMMA SumsDiffer ==
  ASSUME NEW D, IsFiniteSet(D), NEW c, NEW f, NEW g, NEW d \in D,
         \A x \in D : f[x][c] \in Nat /\ g[x][c] \in Nat,
         \A x \in D \ {d} : g[x][c] = f[x][c],
         NEW hf, IsSum(hf, f, c, D), NEW hg, IsSum(hg, g, c, D)
  PROVE  /\ hf[D] \in Nat /\ hg[D] \in Nat
         /\ hg[D] + f[d][c] = hf[D] + g[d][c]
<1> DEFINE Fine(s) == /\ hf[s] \in Nat /\ hg[s] \in Nat
                      /\ IF d \in s THEN hg[s] + f[d][c] = hf[s] + g[d][c] ELSE hg[s] = hf[s]
           Sizes == {Cardinality(s) : s \in {s \in SUBSET D : ~Fine(s)}}
<1>1. \A s \in SUBSET D : Cardinality(s) \in Nat
  BY FS_Subset, FS_CardinalityType
<1>2. ASSUME NEW s \in SUBSET D, \A r \in SUBSET D : Cardinality(r) < Cardinality(s) => Fine(r)
      PROVE  Fine(s)
  <2>1. CASE s = {}
    BY <2>1 DEF IsSum
  <2>2. CASE s # {}
    <3> DEFINE x == CHOOSE x \in s : TRUE
               r == s \ {x}
    <3>1. /\ x \in s /\ r \in SUBSET D /\ Cardinality(s) \in Nat
          /\ Cardinality(r) = Cardinality(s) - 1
      BY <2>2, ChosenLess
    <3>2. hf[s] = f[x][c] + hf[r] /\ hg[s] = g[x][c] + hg[r]
      BY <2>2 DEF IsSum
    <3> HIDE DEF x
    <3>3. d \in s <=> x = d \/ d \in r
      BY <3>1
    <3>4. ~(x = d /\ d \in r) /\ x \in D
      BY <3>1
    <3> HIDE DEF r, Fine
    <3>5. Fine(r)
      BY <1>2, <3>1
    <3> QED
      BY <3>2, <3>3, <3>4, <3>5 DEF Fine
  <2> QED
    BY <2>1, <2>2
<1> HIDE DEF Fine
<1>3. ASSUME Sizes # {} PROVE FALSE
  <2>1. Sizes \in SUBSET Nat
    BY <1>1
  <2>2. PICK n \in Sizes : \A m \in Sizes : n <= m
    BY <1>3, <2>1, LeastNatural
  <2>3. PICK s \in SUBSET D : ~Fine(s) /\ Cardinality(s) = n
    BY <2>2
  <2>4. \A r \in SUBSET D : Cardinality(r) < Cardinality(s) => Fine(r)
    BY <1>1, <2>2, <2>3
  <2> QED
    BY <1>2, <2>3, <2>4
<1>4. Fine(D)
  BY <1>3
<1> QED
  BY <1>4 DEF Fine

\* A total changes by what changes at one point.
LEMMA TotalChanges ==
  ASSUME NEW D, IsFiniteSet(D), NEW f, NEW g, DOMAIN f = D, DOMAIN g = D, NEW c, NEW d \in D,
         \A x \in D : f[x][c] \in Nat /\ g[x][c] \in Nat,
         \A x \in D \ {d} : g[x][c] = f[x][c]
  PROVE  /\ Total(f, c) \in Nat /\ Total(g, c) \in Nat
         /\ Total(g, c) + f[d][c] = Total(f, c) + g[d][c]
<1>1. PICK hf : IsSum(hf, f, c, D) /\ Total(f, c) = hf[D]
  BY TotalIsSum
<1>2. PICK hg : IsSum(hg, g, c, D) /\ Total(g, c) = hg[D]
  BY TotalIsSum
<1>3. IsSum(hf, f, c, D)
  BY <1>1
<1>4. IsSum(hg, g, c, D)
  BY <1>2
<1>5. /\ hf[D] \in Nat /\ hg[D] \in Nat
      /\ hg[D] + f[d][c] = hf[D] + g[d][c]
  BY <1>3, <1>4, SumsDiffer
<1> QED
  BY <1>1, <1>2, <1>5

\* Nothing adds up to nothing.
LEMMA TotalZero ==
  ASSUME NEW f, IsFiniteSet(DOMAIN f), NEW c, \A x \in DOMAIN f : f[x][c] = 0
  PROVE  Total(f, c) = 0
<1> DEFINE D == DOMAIN f
<1>1. PICK h : IsSum(h, f, c, D) /\ Total(f, c) = h[D]
  BY TotalIsSum
<1> DEFINE Sizes == {Cardinality(s) : s \in {s \in SUBSET D : h[s] # 0}}
<1>2. ASSUME Sizes # {} PROVE FALSE
  <2>1. \A s \in SUBSET D : Cardinality(s) \in Nat
    BY FS_Subset, FS_CardinalityType
  <2>2. PICK n \in Sizes : \A m \in Sizes : n <= m
    BY <1>2, <2>1, LeastNatural
  <2>3. PICK s \in SUBSET D : h[s] # 0 /\ Cardinality(s) = n
    BY <2>2
  <2> DEFINE x == CHOOSE x \in s : TRUE
  <2>4. s # {} /\ h[s] = f[x][c] + h[s \ {x}]
    BY <1>1, <2>3 DEF IsSum
  <2>5. /\ x \in s /\ s \ {x} \in SUBSET D /\ Cardinality(s) \in Nat
        /\ Cardinality(s \ {x}) = Cardinality(s) - 1
    BY <2>4, ChosenLess
  <2> HIDE DEF x
  <2>6. h[s \ {x}] = 0
    <3>1. SUFFICES ASSUME h[s \ {x}] # 0 PROVE FALSE
      OBVIOUS
    <3>2. Cardinality(s \ {x}) \in Sizes
      BY <2>5, <3>1
    <3>3. n <= n - 1 /\ n \in Nat
      BY <2>1, <2>2, <2>3, <2>5, <3>2
    <3> QED
      BY <3>3
  <2> QED
    BY <2>3, <2>4, <2>5, <2>6
<1> QED
  BY <1>1, <1>2

----------------------------------------------------------------------------
(* The inductive invariant *)

Id == 1 .. MaxId
Publication == [id : Id, config : Configs]
Calls == [op : {"idle", "send", "send_all"}, stage : {"none", "transmit", "ok", "error"},
          rest : Seq(Id), out : Seq(Id)]
Answers == [outcome : {"none", "ok", "error", "PublicationNotFound"}, out : Seq(Id)]

\* The types of the variables, with which the vector's entries have ids.
Types ==
  /\ publications \in Seq(Publication)
  /\ next_id \in 1 .. MaxId + 1
  /\ issued \subseteq Id
  /\ extracted \subseteq Id
  /\ pub_metrics \in [Id -> CounterValues]
  /\ metrics \in CounterValues
  /\ added \in Nat /\ removed \in Nat
  /\ call \in [Threads -> Calls]
  /\ answer \in [Threads -> Answers]
  /\ direct \in CounterValues

\* Every identifier a publication was ever given is behind next_id.
Handed == \A id \in issued : id < next_id

\* A call that is under way has a publication in hand.
InHand == \A t \in Threads :
            /\ call[t].stage # "none" => call[t].op # "idle" /\ call[t].rest # <<>>
            /\ call[t].stage = "none" => call[t] = Idle

\* send_all has reported the publications before the one in hand, and the rest
\* are those behind: nobody changes the vector under it.
Placed(out, lo, rest, lr, p) ==
  /\ \A i \in 1 .. lo : out[i] = p[i].id
  /\ \A i \in 1 .. lr : rest[i] = p[lo + i].id
Walk(k) ==
  /\ Len(k.out) + Len(k.rest) = Len(publications)
  /\ Placed(k.out, Len(k.out), k.rest, Len(k.rest), publications)
Walks == \A t \in Threads : call[t].op = "send_all" => Walk(call[t])

\* All of it.
Inv == Types /\ Handed /\ ActiveCounted /\ InHand /\ Walks /\ TotalsAgree

----------------------------------------------------------------------------
(* Counters *)

\* What is recorded is a natural number for each counter, and adds up counter
\* by counter.
LEMMA CounterFacts ==
  /\ Zero \in CounterValues /\ record_success(1) \in CounterValues
  /\ record_error \in CounterValues
  /\ \A ok \in BOOLEAN : Recorded(ok) \in CounterValues
  /\ \A f, u \in CounterValues :
       Plus(f, u) \in CounterValues
       /\ \A c \in PublicationCounters : Plus(f, u)[c] = f[c] + u[c]
  BY DEF Zero, record_success, record_error, Recorded, Plus, CounterValues, PublicationCounters

\* What is in flight, per thread.
LEMMA InFlightFacts ==
  ASSUME Types
  PROVE  /\ DOMAIN InFlight = Threads
         /\ \A t \in Threads : InFlight[t] \in CounterValues
  BY CounterFacts DEF InFlight, Types, Calls

\* While neither counters nor stages change, the totals agree as before.
LEMMA QuietTotals ==
  ASSUME TotalsAgree, pub_metrics' = pub_metrics, metrics' = metrics, direct' = direct,
         InFlight' = InFlight
  PROVE  TotalsAgree'
  BY DEF TotalsAgree

\* A recording adds to the counters of one publication.
LEMMA PublicationTotals ==
  ASSUME Types, NEW id \in Id, NEW u \in CounterValues, NEW c \in PublicationCounters,
         pub_metrics' = [pub_metrics EXCEPT ![id] = Plus(@, u)]
  PROVE  /\ pub_metrics' \in [Id -> CounterValues]
         /\ Total(pub_metrics, c) \in Nat
         /\ Total(pub_metrics', c) = Total(pub_metrics, c) + u[c]
<1>1. IsFiniteSet(Id)
  BY ContextBounds, FS_Interval DEF Id
<1> DEFINE f == pub_metrics
           g == [pub_metrics EXCEPT ![id] = Plus(@, u)]
<1>2. /\ f \in [Id -> CounterValues] /\ g \in [Id -> CounterValues]
      /\ g[id] = Plus(f[id], u) /\ \A x \in Id \ {id} : g[x] = f[x]
  BY CounterFacts DEF Types
<1>3. \A h \in CounterValues : h[c] \in Nat
  BY DEF CounterValues
<1>4. g[id][c] = f[id][c] + u[c]
  BY <1>2, CounterFacts
<1> HIDE DEF f, g
<1>5. /\ DOMAIN f = Id /\ DOMAIN g = Id
      /\ \A x \in Id : f[x][c] \in Nat /\ g[x][c] \in Nat
      /\ \A x \in Id \ {id} : g[x][c] = f[x][c]
  BY <1>2, <1>3
<1>6. /\ Total(f, c) \in Nat /\ Total(g, c) \in Nat
      /\ Total(g, c) + f[id][c] = Total(f, c) + g[id][c]
  BY <1>1, <1>5, TotalChanges
<1>7. Total(g, c) = Total(f, c) + u[c]
  BY <1>3, <1>4, <1>5, <1>6
<1> QED
  BY <1>2, <1>6, <1>7 DEF f, g

\* One thread's stage changes what is in flight by that thread's share.
LEMMA InFlightTotals ==
  ASSUME Types, Types', NEW t \in Threads, NEW c \in PublicationCounters,
         \A x \in Threads \ {t} : call'[x] = call[x]
  PROVE  /\ Total(InFlight, c) \in Nat /\ Total(InFlight', c) \in Nat
         /\ Total(InFlight', c) + InFlight[t][c] = Total(InFlight, c) + InFlight'[t][c]
         /\ InFlight[t][c] \in Nat /\ InFlight'[t][c] \in Nat
<1>1. DOMAIN InFlight = Threads /\ \A x \in Threads : InFlight[x] \in CounterValues
  BY InFlightFacts
<1>2. DOMAIN InFlight' = Threads /\ \A x \in Threads : InFlight'[x] \in CounterValues
  BY CounterFacts DEF InFlight, Types, Calls
<1>3. \A x \in Threads \ {t} : InFlight'[x] = InFlight[x]
  BY DEF InFlight
<1>4. \A h \in CounterValues : h[c] \in Nat
  BY DEF CounterValues
<1>5. PICK f : f = InFlight
  OBVIOUS
<1>6. PICK g : g = InFlight'
  OBVIOUS
<1>7. /\ DOMAIN f = Threads /\ DOMAIN g = Threads
      /\ \A x \in Threads : f[x][c] \in Nat /\ g[x][c] \in Nat
      /\ \A x \in Threads \ {t} : g[x][c] = f[x][c]
  BY <1>1, <1>2, <1>3, <1>4, <1>5, <1>6
<1>8. /\ Total(f, c) \in Nat /\ Total(g, c) \in Nat
      /\ Total(g, c) + f[t][c] = Total(f, c) + g[t][c]
  BY <1>7, ContextThreads, TotalChanges
<1> QED
  BY <1>5, <1>6, <1>7, <1>8

----------------------------------------------------------------------------
(* Steps *)

\* What swap_remove leaves: one element less, each of them an old one.
LEMMA SwapRemoveProperties ==
  ASSUME NEW S, NEW s \in Seq(S), NEW k \in 1 .. Len(s)
  PROVE  /\ SwapRemove(s, k) \in Seq(S)
         /\ Len(SwapRemove(s, k)) = Len(s) - 1
         /\ DOMAIN SwapRemove(s, k) = 1 .. Len(s) - 1
         /\ \A i \in 1 .. Len(s) - 1 : \E j \in 1 .. Len(s) : SwapRemove(s, k)[i] = s[j]
<1>1. Len(s) \in Nat /\ Len(s) - 1 \in Nat /\ s \in [1 .. Len(s) -> S]
  BY LenProperties
<1>2. SwapRemove(s, k) \in [1 .. Len(s) - 1 -> S]
  BY <1>1 DEF SwapRemove
<1>3. SwapRemove(s, k) \in Seq(S)
  BY <1>1, <1>2, SeqDef
<1>4. Len(SwapRemove(s, k)) = Len(s) - 1
  BY <1>1 DEF SwapRemove
<1> QED
  BY <1>1, <1>2, <1>3, <1>4 DEF SwapRemove

\* The vector as a function on its positions.
LEMMA VectorFacts ==
  ASSUME Types
  PROVE  /\ Len(publications) \in Nat
         /\ DOMAIN publications = 1 .. Len(publications)
         /\ \A i \in 1 .. Len(publications) :
              publications[i] \in Publication /\ publications[i].id \in Id
<1>1. publications \in Seq(Publication)
  BY DEF Types
<1>2. /\ Len(publications) \in Nat
      /\ DOMAIN publications = 1 .. Len(publications)
      /\ \A i \in 1 .. Len(publications) : publications[i] \in Publication
  BY <1>1, LenProperties, ElementOfSeq
<1> QED
  BY <1>2 DEF Publication

\* A new context has no publication, no call under way and nothing counted.
LEMMA InitInv == Init => Inv
<1> SUFFICES ASSUME Init PROVE Inv
  OBVIOUS
<1> USE DEF Init
<1>1. Idle \in Calls /\ [outcome |-> "none", out |-> <<>>] \in Answers
  BY DEF Idle, Calls, Answers
<1>2. Types
  <2>1. publications \in Seq(Publication) /\ next_id \in 1 .. MaxId + 1 /\ extracted \subseteq Id
    BY ContextBounds
  <2> QED
    BY <1>1, <2>1, CounterFacts DEF Types, Id
<1>3. Handed /\ ActiveCounted /\ InHand /\ Walks
  BY DEF Handed, ActiveCounted, InHand, Walks, Idle
<1>4. TotalsAgree
  <2> SUFFICES ASSUME NEW c \in PublicationCounters
               PROVE  Total(pub_metrics, c) = metrics[c] + direct[c] + Total(InFlight, c)
    BY DEF TotalsAgree
  <2>1. Zero[c] = 0
    BY DEF Zero
  <2>2. IsFiniteSet(1 .. MaxId)
    BY ContextBounds, FS_Interval
  <2>3. Total(pub_metrics, c) = 0
    <3> DEFINE f == [id \in 1 .. MaxId |-> Zero]
    <3>1. DOMAIN f = 1 .. MaxId /\ \A x \in 1 .. MaxId : f[x][c] = 0
      BY <2>1
    <3> HIDE DEF f
    <3>2. Total(f, c) = 0
      BY <2>2, <3>1, TotalZero
    <3> QED
      BY <3>2 DEF f
  <2>4. Total(InFlight, c) = 0
    <3>1. DOMAIN InFlight = Threads /\ \A t \in Threads : InFlight[t][c] = 0
      BY <2>1 DEF InFlight, Idle
    <3> QED
      BY <3>1, ContextThreads, TotalZero
  <2> QED
    BY <2>1, <2>3, <2>4
<1> QED
  BY <1>2, <1>3, <1>4 DEF Inv

\* Nobody is inside a call, so the vector may change.
LEMMA MembershipKeepsInv ==
  ASSUME Inv, Exclusive, Types', Handed', ActiveCounted', UNCHANGED <<counters, call, answer>>
  PROVE  Inv'
<1>1. InHand' /\ Walks'
  BY DEF Inv, InHand, Walks, Exclusive, Idle
<1>2. TotalsAgree'
  BY QuietTotals DEF Inv, counters, InFlight
<1> QED
  BY <1>1, <1>2 DEF Inv

\* add_publication hands out the next id and counts one more active.
LEMMA AddKeepsInv ==
  ASSUME Inv, NEW c \in Configs, add_publication(c) \/ AddFails(c)
  PROVE  Inv'
<1>1. next_id \in Id /\ next_id' = next_id + 1 /\ next_id' \in 1 .. MaxId + 1
  BY ContextBounds DEF Inv, Types, Id, add_publication, AddFails
<1>2. CASE add_publication(c)
  <2> DEFINE p == [id |-> next_id, config |-> c]
  <2>1. p \in Publication /\ p.id = next_id
    BY <1>1 DEF Publication
  <2> HIDE DEF p
  <2>2. publications' = Append(publications, p)
    BY <1>2 DEF add_publication, p
  <2>3. /\ publications' \in Seq(Publication)
        /\ Len(publications') = Len(publications) + 1
        /\ DOMAIN publications' = 1 .. Len(publications) + 1
        /\ \A i \in 1 .. Len(publications) : publications'[i] = publications[i]
        /\ publications'[Len(publications) + 1] = p
    BY <2>1, <2>2, AppendProperties, LenProperties DEF Inv, Types
  <2>4. Types'
    BY <1>1, <1>2, <2>3 DEF Inv, Types, add_publication, counters
  <2>5. Handed'
    <3>1. issued' = issued \cup {next_id} /\ issued \subseteq Id /\ next_id \in Nat
      BY <1>1, <1>2 DEF Inv, Types, Id, add_publication
    <3>2. ASSUME NEW id \in issued' PROVE id < next_id'
      BY <1>1, <3>1, <3>2 DEF Inv, Handed, Id
    <3> QED
      BY <3>2 DEF Handed
  <2>6. ActiveCounted'
    BY <1>2, <2>3, VectorFacts DEF Inv, Types, ActiveCounted, add_publication
  <2> QED
    BY <1>2, <2>4, <2>5, <2>6, MembershipKeepsInv DEF add_publication
<1>3. CASE AddFails(c)
  <2>1. Types'
    BY <1>1, <1>3 DEF Inv, Types, AddFails, counters
  <2>2. Handed'
    BY <1>1, <1>3, VectorFacts DEF Inv, Types, Handed, Id, AddFails
  <2>3. ActiveCounted'
    BY <1>3 DEF Inv, ActiveCounted, AddFails
  <2> QED
    BY <1>3, <2>1, <2>2, <2>3, MembershipKeepsInv DEF AddFails
<1> QED
  BY <1>2, <1>3

\* take_publication and remove_publication fill the gap with the last entry.
LEMMA RemoveKeepsInv ==
  ASSUME Inv, NEW id \in Id, take_publication(id) \/ remove_publication(id)
  PROVE  Inv'
<1>1. Exclusive
  BY DEF take_publication, remove_publication
<1>2. PICK k \in DOMAIN publications : publications[k].id = id /\ finish_publication_removal(k)
  BY DEF take_publication, remove_publication
<1>3. extracted' \subseteq extracted \cup {id}
  BY DEF take_publication, remove_publication
<1>4. k \in 1 .. Len(publications) /\ publications \in Seq(Publication)
  BY VectorFacts DEF Inv, Types
<1>5. /\ publications' \in Seq(Publication)
      /\ Len(publications') = Len(publications) - 1
      /\ DOMAIN publications' = 1 .. Len(publications) - 1
      /\ \A i \in 1 .. Len(publications) - 1 :
           \E j \in 1 .. Len(publications) : publications'[i] = publications[j]
  BY <1>2, <1>4, SwapRemoveProperties DEF finish_publication_removal
<1>6. /\ UNCHANGED <<counters, call, answer, issued>> /\ next_id' = next_id /\ added' = added
      /\ removed' = removed + 1
  BY <1>2 DEF finish_publication_removal
<1>7. Types'
  BY <1>3, <1>5, <1>6 DEF Inv, Types, counters
<1>8. Handed'
  BY <1>6 DEF Inv, Handed
<1>9. ActiveCounted'
  BY <1>5, <1>6, VectorFacts DEF Inv, Types, ActiveCounted
<1> QED
  BY <1>1, <1>6, <1>7, <1>8, <1>9, MembershipKeepsInv

\* The thread goes on with its call: only its own entry changes.
LEMMA OwnCall ==
  ASSUME Inv, NEW t \in Threads, NEW k \in Calls, call' = [call EXCEPT ![t] = k],
         UNCHANGED membership,
         k.stage # "none" => k.op # "idle" /\ k.rest # <<>>,
         k.stage = "none" => k = Idle,
         k.op = "send_all" => Walk(k)
  PROVE  /\ call' \in [Threads -> Calls] /\ call'[t] = k
         /\ \A x \in Threads \ {t} : call'[x] = call[x]
         /\ Handed' /\ ActiveCounted' /\ InHand' /\ Walks'
<1>1. /\ call' \in [Threads -> Calls] /\ call'[t] = k
      /\ \A x \in Threads \ {t} : call'[x] = call[x]
  BY DEF Inv, Types
<1>2. Handed' /\ ActiveCounted' /\ publications' = publications
  BY DEF Inv, Handed, ActiveCounted, membership
<1>3. InHand'
  BY <1>1 DEF Inv, InHand
<1>4. Walks'
  <2> SUFFICES ASSUME NEW x \in Threads, call'[x].op = "send_all" PROVE Walk(call[x])'
    BY DEF Walks
  <2>1. CASE x = t
    BY <1>1, <1>2, <2>1 DEF Walk
  <2>2. CASE x # t
    BY <1>1, <1>2, <2>2 DEF Walk, Walks, Inv
  <2> QED
    BY <2>1, <2>2
<1> QED
  BY <1>1, <1>2, <1>3, <1>4

\* send and send_all begin with the publications they are to send through.
LEMMA EnterKeepsInv ==
  ASSUME Inv, NEW t \in Threads, send_all(t) \/ \E id \in Id : send(t, id)
  PROVE  Inv'
<1>1. PICK op \in {"send", "send_all"}, ids \in Seq(Id) :
        /\ ids # <<>> /\ Enter(t, op, ids)
        /\ op = "send_all" =>
             /\ Len(ids) = Len(publications)
             /\ \A i \in 1 .. Len(publications) : ids[i] = publications[i].id
  <2>1. CASE send_all(t)
    <3> DEFINE n == Len(publications)
               ids == Ids(publications)
    <3>1. n \in Nat /\ n # 0 /\ ids = [i \in 1 .. n |-> publications[i].id]
      BY <2>1, VectorFacts, EmptySeq DEF Inv, Types, send_all, Ids
    <3>2. ids \in [1 .. n -> Id]
      BY <3>1, VectorFacts DEF Inv
    <3>3. ids \in Seq(Id) /\ Len(ids) = n
      BY <3>1, <3>2, SeqDef
    <3>4. ids # <<>> /\ \A i \in 1 .. n : ids[i] = publications[i].id
      BY <3>1, <3>3
    <3> QED
      BY <2>1, <3>3, <3>4 DEF send_all
  <2>2. CASE \E id \in Id : send(t, id)
    <3>1. PICK id \in Id : Enter(t, "send", <<id>>)
      BY <2>2 DEF send
    <3>2. <<id>> \in Seq(Id) /\ <<id>> # <<>>
      OBVIOUS
    <3> QED
      BY <3>1, <3>2
  <2> QED
    BY <2>1, <2>2
<1> DEFINE k == [op |-> op, stage |-> "transmit", rest |-> ids, out |-> <<>>]
<1>2. /\ k \in Calls /\ k.stage = "transmit" /\ k.op = op /\ k.rest = ids /\ k.out = <<>>
  BY DEF Calls
<1> HIDE DEF k
<1>3. /\ call[t] = Idle /\ call' = [call EXCEPT ![t] = k]
      /\ UNCHANGED <<membership, counters, answer>>
  BY <1>1 DEF Enter, k
<1>4. k.op = "send_all" => Walk(k)
  BY <1>1, <1>2, VectorFacts DEF Walk, Placed, Inv
<1>5. /\ call' \in [Threads -> Calls] /\ call'[t] = k
      /\ \A x \in Threads \ {t} : call'[x] = call[x]
      /\ Handed' /\ ActiveCounted' /\ InHand' /\ Walks'
  BY <1>1, <1>2, <1>3, <1>4, OwnCall
<1>6. Types'
  BY <1>3, <1>5 DEF Inv, Types, membership, counters
<1>7. TotalsAgree'
  <2>1. InFlight' = InFlight
    BY <1>2, <1>3, <1>5 DEF InFlight, Idle
  <2> QED
    BY <1>3, <2>1, QuietTotals DEF Inv, counters
<1> QED
  BY <1>5, <1>6, <1>7 DEF Inv

\* Calls that return at once leave everything but the answer alone.
LEMMA ReturnKeepsInv ==
  ASSUME Inv, NEW t \in Threads, SendAllEmpty(t) \/ \E id \in Id : SendNotFound(t, id)
  PROVE  Inv'
<1>1. UNCHANGED <<membership, counters, call>>
  BY DEF SendAllEmpty, SendNotFound, Leave, Inv, Types
<1>2. answer' \in [Threads -> Answers]
  <2>1. PICK outcome \in {"ok", "PublicationNotFound"} :
          answer' = [answer EXCEPT ![t] = [outcome |-> outcome, out |-> <<>>]]
    BY DEF SendAllEmpty, SendNotFound, Leave
  <2>2. [outcome |-> outcome, out |-> <<>>] \in Answers
    BY DEF Answers
  <2> QED
    BY <2>1, <2>2 DEF Inv, Types
<1>3. Types' /\ Handed' /\ ActiveCounted' /\ InHand' /\ Walks'
  BY <1>1, <1>2 DEF Inv, Types, Handed, ActiveCounted, InHand, Walks, Walk, membership, counters
<1>4. TotalsAgree'
  BY <1>1, QuietTotals DEF Inv, counters, InFlight
<1> QED
  BY <1>3, <1>4 DEF Inv

\* A datagram tried through a publication is in flight until the context
\* counts it.
LEMMA TransmitKeepsInv ==
  ASSUME Inv, NEW t \in Threads, NEW ok \in BOOLEAN, Transmit(t, ok)
  PROVE  Inv'
<1> DEFINE k == [call[t] EXCEPT !.stage = IF ok THEN "ok" ELSE "error"]
           id == Head(call[t].rest)
<1>1. call[t] \in Calls /\ call[t].stage = "transmit" /\ call[t].rest # <<>> /\ call[t].op # "idle"
  BY DEF Inv, Types, InHand, Transmit
<1>2. /\ k \in Calls /\ k.stage = (IF ok THEN "ok" ELSE "error")
      /\ k.op = call[t].op /\ k.rest = call[t].rest /\ k.out = call[t].out
  BY <1>1 DEF Calls
<1>3. id \in Id
  BY <1>1 DEF Calls
<1>4. /\ call' = [call EXCEPT ![t] = k]
      /\ pub_metrics' = [pub_metrics EXCEPT ![id] = Plus(@, Recorded(ok))]
      /\ UNCHANGED <<membership, metrics, direct, answer>>
  BY <1>1 DEF Transmit
<1> HIDE DEF k, id
<1>5. k.op = "send_all" => Walk(k)
  BY <1>2 DEF Walk, Walks, Inv
<1>6. /\ call' \in [Threads -> Calls] /\ call'[t] = k
      /\ \A x \in Threads \ {t} : call'[x] = call[x]
      /\ Handed' /\ ActiveCounted' /\ InHand' /\ Walks'
  BY <1>1, <1>2, <1>4, <1>5, OwnCall
<1>7. ASSUME NEW c \in PublicationCounters
      PROVE  /\ pub_metrics' \in [Id -> CounterValues]
             /\ Total(pub_metrics, c) \in Nat
             /\ Total(pub_metrics', c) = Total(pub_metrics, c) + Recorded(ok)[c]
  <2>1. Recorded(ok) \in CounterValues /\ Types
    BY CounterFacts DEF Inv
  <2> QED
    BY <1>3, <1>4, <2>1, PublicationTotals
<1>8. Types'
  <2>1. pub_metrics' \in [Id -> CounterValues]
    BY <1>7 DEF PublicationCounters
  <2> QED
    BY <1>4, <1>6, <2>1 DEF Inv, Types, membership
<1>9. TotalsAgree'
  <2> SUFFICES ASSUME NEW c \in PublicationCounters
               PROVE  Total(pub_metrics', c) = metrics'[c] + direct'[c] + Total(InFlight', c)
    BY DEF TotalsAgree
  <2>1. InFlight[t] = Zero /\ InFlight'[t] = Recorded(ok)
    BY <1>1, <1>2, <1>6 DEF InFlight, Recorded
  <2>2. Zero[c] = 0 /\ Recorded(ok)[c] \in Nat /\ metrics[c] \in Nat /\ direct[c] \in Nat
    BY CounterFacts DEF Zero, CounterValues, Inv, Types
  <2>3. /\ Total(InFlight, c) \in Nat /\ Total(InFlight', c) \in Nat
        /\ Total(InFlight', c) + InFlight[t][c] = Total(InFlight, c) + InFlight'[t][c]
    BY <1>6, <1>8, InFlightTotals DEF Inv
  <2>4. Total(InFlight', c) = Total(InFlight, c) + Recorded(ok)[c]
    BY <2>1, <2>2, <2>3
  <2>5. Total(pub_metrics, c) = metrics[c] + direct[c] + Total(InFlight, c)
    BY DEF Inv, TotalsAgree
  <2>6. metrics' = metrics /\ direct' = direct
    BY <1>4
  <2> QED
    BY <1>7, <2>2, <2>3, <2>4, <2>5, <2>6
<1> QED
  BY <1>6, <1>8, <1>9 DEF Inv

\* The context counts what its thread had in flight.
LEMMA CountKeepsInv ==
  ASSUME Inv, NEW t \in Threads, NEW k \in Calls, call' = [call EXCEPT ![t] = k],
         metrics' = Plus(metrics, InFlight[t]),
         UNCHANGED <<membership, pub_metrics, direct>>, answer' \in [Threads -> Answers],
         k.stage \in {"none", "transmit"},
         k.stage # "none" => k.op # "idle" /\ k.rest # <<>>,
         k.stage = "none" => k = Idle,
         k.op = "send_all" => Walk(k)
  PROVE  Inv'
<1>1. /\ call' \in [Threads -> Calls] /\ call'[t] = k
      /\ \A x \in Threads \ {t} : call'[x] = call[x]
      /\ Handed' /\ ActiveCounted' /\ InHand' /\ Walks'
  BY OwnCall
<1>2. /\ metrics' \in CounterValues
      /\ \A c \in PublicationCounters : metrics'[c] = metrics[c] + InFlight[t][c]
  BY CounterFacts, InFlightFacts DEF Inv, Types
<1>3. Types'
  BY <1>1, <1>2 DEF Inv, Types, membership
<1>4. TotalsAgree'
  <2> SUFFICES ASSUME NEW c \in PublicationCounters
               PROVE  Total(pub_metrics', c) = metrics'[c] + direct'[c] + Total(InFlight', c)
    BY DEF TotalsAgree
  <2>1. InFlight'[t] = Zero
    BY <1>1 DEF InFlight
  <2>2. Zero[c] = 0 /\ metrics[c] \in Nat /\ direct[c] \in Nat
    BY DEF Zero, CounterValues, Inv, Types
  <2>3. /\ Total(InFlight, c) \in Nat /\ Total(InFlight', c) \in Nat
        /\ Total(InFlight', c) + InFlight[t][c] = Total(InFlight, c) + InFlight'[t][c]
        /\ InFlight[t][c] \in Nat
    BY <1>1, <1>3, InFlightTotals DEF Inv
  <2>4. Total(InFlight', c) + InFlight[t][c] = Total(InFlight, c)
    BY <2>1, <2>2, <2>3
  <2>5. Total(pub_metrics, c) = metrics[c] + direct[c] + Total(InFlight, c)
    BY DEF Inv, TotalsAgree
  <2>6. pub_metrics' = pub_metrics /\ direct' = direct
    OBVIOUS
  <2> QED
    BY <1>2, <2>2, <2>3, <2>4, <2>5, <2>6
<1> QED
  BY <1>1, <1>3, <1>4 DEF Inv

\* Moving the first of the rest behind the output keeps both in place.
Moved(o, lo, r, lr, done, rest) ==
  /\ \A i \in 1 .. lo : done[i] = o[i]
  /\ done[lo + 1] = r[1]
  /\ \A i \in 1 .. lr - 1 : rest[i] = r[i + 1]

\* What is done and what is left stay a split of the vector when one moves over.
LEMMA MoveOne ==
  ASSUME NEW lo \in Nat, NEW lr \in Nat \ {0}, NEW o, NEW r, NEW done, NEW rest, NEW p,
         Placed(o, lo, r, lr, p), Moved(o, lo, r, lr, done, rest)
  PROVE  Placed(done, lo + 1, rest, lr - 1, p)
<1> USE DEF Placed, Moved
<1>1. ASSUME NEW i \in 1 .. lo + 1 PROVE done[i] = p[i].id
  <2>1. i \in 1 .. lo \/ i = lo + 1
    OBVIOUS
  <2>2. r[1] = p[lo + 1].id
    OBVIOUS
  <2> QED
    BY <2>1, <2>2
<1>2. ASSUME NEW i \in 1 .. lr - 1 PROVE rest[i] = p[(lo + 1) + i].id
  <2>1. i + 1 \in 1 .. lr /\ lo + (i + 1) = (lo + 1) + i
    OBVIOUS
  <2> QED
    BY <2>1
<1> QED
  BY <1>1, <1>2

\* One more report: the publication in hand moves from the rest to the output.
Report(k, done, rest) == done = Append(k.out, Head(k.rest)) /\ rest = Tail(k.rest)

\* The send that a call reports is the next one of its walk.
LEMMA OneMore ==
  ASSUME Inv, NEW t \in Threads, call[t].stage # "none",
         NEW done, NEW rest, Report(call[t], done, rest)
  PROVE  /\ done \in Seq(Id) /\ rest \in Seq(Id)
         /\ call[t].op = "send_all" =>
              /\ Len(done) + Len(rest) = Len(publications)
              /\ Placed(done, Len(done), rest, Len(rest), publications)
<1>1. /\ call[t].out \in Seq(Id) /\ call[t].rest \in Seq(Id) /\ call[t].rest # <<>>
  BY DEF Inv, Types, InHand, Calls
<1>2. PICK o \in Seq(Id) : o = call[t].out
  BY <1>1
<1>3. PICK r \in Seq(Id) : r = call[t].rest /\ r # <<>>
  BY <1>1
<1>4. done = Append(o, Head(r)) /\ rest = Tail(r)
  BY <1>2, <1>3 DEF Report
<1>5. /\ Len(o) \in Nat /\ Len(r) \in Nat \ {0} /\ Head(r) \in Id /\ Head(r) = r[1]
      /\ rest \in Seq(Id) /\ Len(rest) = Len(r) - 1
      /\ \A i \in 1 .. Len(r) - 1 : rest[i] = r[i + 1]
  BY <1>3, <1>4, LenProperties, EmptySeq, HeadTailProperties
<1>6. /\ done \in Seq(Id) /\ Len(done) = Len(o) + 1
      /\ \A i \in 1 .. Len(o) : done[i] = o[i]
      /\ done[Len(o) + 1] = r[1]
  BY <1>4, <1>5, AppendProperties
<1>7. ASSUME call[t].op = "send_all"
      PROVE  /\ Len(done) + Len(rest) = Len(publications)
             /\ Placed(done, Len(done), rest, Len(rest), publications)
  <2>1. /\ Len(o) + Len(r) = Len(publications)
        /\ Placed(o, Len(o), r, Len(r), publications)
    BY <1>2, <1>3, <1>7 DEF Inv, Walks, Walk
  <2>2. Moved(o, Len(o), r, Len(r), done, rest)
    BY <1>5, <1>6 DEF Moved
  <2>3. Placed(done, Len(o) + 1, rest, Len(r) - 1, publications)
    BY <1>5, <2>1, <2>2, MoveOne
  <2>4. Len(done) = Len(o) + 1 /\ Len(rest) = Len(r) - 1
    BY <1>5, <1>6, Zenon
  <2>5. Placed(done, Len(done), rest, Len(rest), publications)
    BY <2>3, <2>4, Zenon
  <2>6. ASSUME NEW a \in Nat, NEW b \in Nat PROVE (a + 1) + (b - 1) = a + b
    OBVIOUS
  <2>7. (Len(o) + 1) + (Len(r) - 1) = Len(o) + Len(r)
    BY <1>5, <2>6
  <2> QED
    BY <2>1, <2>4, <2>5, <2>7, Zenon
<1> QED
  BY <1>5, <1>6, <1>7

\* record_success moves what was in flight to the totals and goes on.
LEMMA SuccessKeepsInv ==
  ASSUME Inv, NEW t \in Threads, RecordSuccess(t)
  PROVE  Inv'
<1>1. PICK done : done = Append(call[t].out, Head(call[t].rest))
  OBVIOUS
<1>2. PICK rest : rest = Tail(call[t].rest)
  OBVIOUS
<1>3. call[t].stage = "ok" /\ call[t] \in Calls /\ call[t].op # "idle"
  BY DEF RecordSuccess, Inv, Types, InHand
<1>4. /\ done \in Seq(Id) /\ rest \in Seq(Id)
      /\ call[t].op = "send_all" =>
           /\ Len(done) + Len(rest) = Len(publications)
           /\ Placed(done, Len(done), rest, Len(rest), publications)
  <2>1. Report(call[t], done, rest)
    BY <1>1, <1>2 DEF Report
  <2>2. call[t].stage # "none"
    BY <1>3
  <2> QED
    BY <2>1, <2>2, OneMore
<1>5. InFlight[t] = record_success(1)
  BY <1>3 DEF InFlight
<1>6. /\ metrics' = Plus(metrics, InFlight[t])
      /\ UNCHANGED <<membership, pub_metrics, direct>>
  BY <1>5 DEF RecordSuccess
<1>7. CASE rest = <<>>
  <2>1. Leave(t, "ok", done)
    BY <1>1, <1>2, <1>7 DEF RecordSuccess
  <2>2. [outcome |-> "ok", out |-> done] \in Answers
    BY <1>4 DEF Answers
  <2>3. answer' \in [Threads -> Answers]
    BY <2>1, <2>2 DEF Leave, Inv, Types
  <2>4. Idle \in Calls /\ Idle.stage = "none" /\ Idle.op = "idle"
    BY DEF Idle, Calls
  <2>5. call' = [call EXCEPT ![t] = Idle]
    BY <2>1 DEF Leave
  <2> QED
    BY <1>6, <2>3, <2>4, <2>5, CountKeepsInv
<1>8. CASE rest # <<>>
  <2> DEFINE k == [call[t] EXCEPT !.stage = "transmit", !.rest = rest, !.out = done]
  <2>1. call' = [call EXCEPT ![t] = k] /\ answer' = answer
    BY <1>1, <1>2, <1>8 DEF RecordSuccess
  <2>2. /\ k \in Calls /\ k.stage = "transmit" /\ k.op = call[t].op
        /\ k.rest = rest /\ k.out = done
    BY <1>3, <1>4 DEF Calls
  <2> HIDE DEF k
  <2>3. k.op = "send_all" => Walk(k)
    BY <1>4, <2>2 DEF Walk
  <2>4. answer' \in [Threads -> Answers]
    BY <2>1 DEF Inv, Types
  <2> QED
    BY <1>3, <1>6, <1>8, <2>1, <2>2, <2>3, <2>4, CountKeepsInv
<1> QED
  BY <1>7, <1>8

\* record_error does too, and ends a send_all early.
LEMMA ErrorKeepsInv ==
  ASSUME Inv, NEW t \in Threads, RecordError(t)
  PROVE  Inv'
<1>1. call[t].stage = "error" /\ call[t] \in Calls /\ call[t].out \in Seq(Id)
  BY DEF RecordError, Inv, Types, Calls
<1>2. /\ metrics' = Plus(metrics, InFlight[t])
      /\ UNCHANGED <<membership, pub_metrics, direct>>
  BY <1>1 DEF RecordError, InFlight
<1>3. answer' \in [Threads -> Answers]
  <2>1. [outcome |-> "error", out |-> call[t].out] \in Answers
    BY <1>1 DEF Answers
  <2> QED
    BY <2>1 DEF RecordError, Leave, Inv, Types
<1>4. Idle \in Calls /\ Idle.stage = "none" /\ Idle.op = "idle"
  BY DEF Idle, Calls
<1>5. call' = [call EXCEPT ![t] = Idle]
  BY DEF RecordError, Leave
<1> QED
  BY <1>2, <1>3, <1>4, <1>5, CountKeepsInv

\* A direct send is counted by its publication alone.
LEMMA DirectKeepsInv ==
  ASSUME Inv, NEW t \in Threads, NEW id \in Id, NEW ok \in BOOLEAN, SendDirect(t, id, ok)
  PROVE  Inv'
<1>1. Recorded(ok) \in CounterValues /\ Types
  BY CounterFacts DEF Inv
<1>2. /\ pub_metrics' = [pub_metrics EXCEPT ![id] = Plus(@, Recorded(ok))]
      /\ direct' = Plus(direct, Recorded(ok))
      /\ UNCHANGED <<membership, metrics, call, answer>>
  BY DEF SendDirect
<1>3. ASSUME NEW c \in PublicationCounters
      PROVE  /\ pub_metrics' \in [Id -> CounterValues]
             /\ Total(pub_metrics, c) \in Nat
             /\ Total(pub_metrics', c) = Total(pub_metrics, c) + Recorded(ok)[c]
  BY <1>1, <1>2, PublicationTotals
<1>4. /\ direct' \in CounterValues
      /\ \A c \in PublicationCounters : direct'[c] = direct[c] + Recorded(ok)[c]
  BY <1>1, <1>2, CounterFacts DEF Types
<1>5. Types'
  <2>1. pub_metrics' \in [Id -> CounterValues]
    BY <1>3 DEF PublicationCounters
  <2> QED
    BY <1>1, <1>2, <1>4, <2>1 DEF Types, membership
<1>6. Handed' /\ ActiveCounted' /\ InHand' /\ Walks'
  BY <1>2 DEF Inv, Handed, ActiveCounted, InHand, Walks, Walk, membership
<1>7. TotalsAgree'
  <2> SUFFICES ASSUME NEW c \in PublicationCounters
               PROVE  Total(pub_metrics', c) = metrics'[c] + direct'[c] + Total(InFlight', c)
    BY DEF TotalsAgree
  <2>1. InFlight' = InFlight /\ metrics' = metrics
    BY <1>2 DEF InFlight
  <2>2. metrics[c] \in Nat /\ direct[c] \in Nat /\ Recorded(ok)[c] \in Nat
    BY <1>1 DEF Types, CounterValues
  <2>3. Total(InFlight, c) \in Nat
    BY <1>1, <1>2, <1>5, InFlightTotals
  <2>4. Total(pub_metrics, c) = metrics[c] + direct[c] + Total(InFlight, c)
    BY DEF Inv, TotalsAgree
  <2> QED
    BY <1>3, <1>4, <2>1, <2>2, <2>3, <2>4
<1> QED
  BY <1>5, <1>6, <1>7 DEF Inv

\* Every step of a thread or of the owner keeps the invariant.
LEMMA StepKeepsInv == Inv /\ [Next]_vars => Inv'
<1> SUFFICES ASSUME Inv, [Next]_vars PROVE Inv'
  OBVIOUS
<1>1. CASE \E c \in Configs : add_publication(c) \/ AddFails(c)
  BY <1>1, AddKeepsInv
<1>2. CASE \E id \in 1 .. MaxId : take_publication(id) \/ remove_publication(id)
  BY <1>2, RemoveKeepsInv DEF Id
<1>3. ASSUME NEW t \in Threads, send_all(t) \/ \E id \in 1 .. MaxId : send(t, id) PROVE Inv'
  BY <1>3, EnterKeepsInv DEF Id
<1>4. ASSUME NEW t \in Threads, SendAllEmpty(t) \/ \E id \in 1 .. MaxId : SendNotFound(t, id)
      PROVE  Inv'
  BY <1>4, ReturnKeepsInv DEF Id
<1>5. ASSUME NEW t \in Threads, RecordSuccess(t) \/ RecordError(t) PROVE Inv'
  BY <1>5, SuccessKeepsInv, ErrorKeepsInv
<1>6. ASSUME NEW t \in Threads, NEW ok \in BOOLEAN, Transmit(t, ok) PROVE Inv'
  BY <1>6, TransmitKeepsInv
<1>7. ASSUME NEW t \in Threads, NEW id \in 1 .. MaxId, NEW ok \in BOOLEAN, SendDirect(t, id, ok)
      PROVE  Inv'
  BY <1>7, DirectKeepsInv DEF Id
<1>8. CASE UNCHANGED vars
  <2>1. UNCHANGED <<membership, counters, call, answer>>
    BY <1>8 DEF vars
  <2>2. Types' /\ Handed' /\ ActiveCounted' /\ InHand' /\ Walks'
    BY <2>1 DEF Inv, Types, Handed, ActiveCounted, InHand, Walks, Walk, membership, counters
  <2>3. TotalsAgree'
    BY <2>1, QuietTotals DEF Inv, counters, InFlight
  <2> QED
    BY <2>2, <2>3 DEF Inv
<1> QED
  BY <1>1, <1>2, <1>3, <1>4, <1>5, <1>6, <1>7, <1>8 DEF Next

----------------------------------------------------------------------------
(* Results *)

\* Every variable keeps its type, whatever the threads do: an identifier stays
\* within those handed out, a call is at one of its stages.
THEOREM TypeCorrect == Spec => []TypeOK
<1>1. Inv => TypeOK
  <2> SUFFICES ASSUME Inv PROVE TypeOK
    OBVIOUS
  <2>1. Id \subseteq Nat /\ Publication \subseteq [id : Nat, config : Configs]
    BY DEF Id, Publication
  <2>2. publications \in Seq([id : Nat, config : Configs])
    BY <2>1, SeqMonotonic DEF Inv, Types
  <2>3. \A s \in Seq(Id) : s \in Seq(Nat)
    BY <2>1, SeqMonotonic
  <2>4. ASSUME NEW t \in Threads
        PROVE  /\ call[t].op \in {"idle", "send", "send_all"}
               /\ call[t].stage \in {"none", "transmit", "ok", "error"}
               /\ call[t].rest \in Seq(Nat) /\ call[t].out \in Seq(Nat)
               /\ answer[t].outcome \in {"none", "ok", "error", "PublicationNotFound"}
               /\ answer[t].out \in Seq(Nat)
    <3>1. call[t] \in Calls /\ answer[t] \in Answers
      BY DEF Inv, Types
    <3> QED
      BY <2>3, <3>1 DEF Calls, Answers
  <2> QED
    BY <2>2, <2>4 DEF Inv, Types, TypeOK, Id
<1> QED
  BY <1>1, InitInv, StepKeepsInv, PTL DEF Spec

\* add_publication and finish_publication_removal keep the counts of
\* metrics_snapshot: the publications in the context are those added and not
\* removed, for any sequence of calls.
THEOREM ActiveCountCorrect == Spec => []ActiveCounted
<1>1. Inv => ActiveCounted
  BY DEF Inv
<1> QED
  BY <1>1, InitInv, StepKeepsInv, PTL DEF Spec

\* No send is counted twice or forgotten, for any number of threads inside
\* send and send_all and of publications, taken out and dropped ones included:
\* publications and context differ by what is between the two recordings.
THEOREM TotalsCorrect == Spec => []TotalsAgree
<1>1. Inv => TotalsAgree
  BY DEF Inv
<1> QED
  BY <1>1, InitInv, StepKeepsInv, PTL DEF Spec

\* A removal brings no publication into the vector.
LEMMA RemovalBringsNone ==
  ASSUME Inv, NEW id \in Id, take_publication(id) \/ remove_publication(id),
         NEW i \in DOMAIN publications'
  PROVE  \E j \in DOMAIN publications : publications[j] = publications'[i]
<1>1. PICK k \in DOMAIN publications : publications' = SwapRemove(publications, k)
  BY DEF take_publication, remove_publication, finish_publication_removal
<1>2. publications \in Seq(Publication) /\ k \in 1 .. Len(publications)
  BY <1>1, VectorFacts DEF Inv, Types
<1>3. /\ publications' \in Seq(Publication)
      /\ Len(publications') = Len(publications) - 1
      /\ DOMAIN publications' = 1 .. Len(publications) - 1
      /\ \A m \in 1 .. Len(publications) - 1 :
           \E j \in 1 .. Len(publications) : publications'[m] = publications[j]
  BY <1>1, <1>2, SwapRemoveProperties
<1>4. PICK j \in 1 .. Len(publications) : publications'[i] = publications[j]
  BY <1>3
<1> QED
  BY <1>4, VectorFacts DEF Inv

\* The vector gets only fresh identifiers: no step but add_publication brings
\* a publication in.
LEMMA FreshStep ==
  ASSUME Inv, [Next]_vars, NEW i \in DOMAIN publications',
         \A j \in DOMAIN publications : publications[j] # publications'[i]
  PROVE  publications'[i].id \notin issued
<1>1. CASE publications' = publications
  BY <1>1
<1>2. ASSUME NEW id \in Id, take_publication(id) \/ remove_publication(id) PROVE FALSE
  BY <1>2, RemovalBringsNone
<1>3. ASSUME NEW c \in Configs, add_publication(c)
      PROVE  publications'[i].id \notin issued
  <2> DEFINE p == [id |-> next_id, config |-> c]
  <2>1. next_id \in Id /\ next_id \in Nat /\ next_id' = next_id + 1 /\ p \in Publication
    BY <1>3, ContextBounds DEF Inv, Types, Id, Publication, add_publication
  <2>2. publications' = Append(publications, p) /\ p.id = next_id
    BY <1>3 DEF add_publication
  <2> HIDE DEF p
  <2>3. /\ DOMAIN publications' = 1 .. Len(publications) + 1
        /\ \A j \in 1 .. Len(publications) : publications'[j] = publications[j]
        /\ publications'[Len(publications) + 1] = p
    BY <2>1, <2>2, AppendProperties, LenProperties DEF Inv, Types
  <2>4. i = Len(publications) + 1
    <3>1. i \in 1 .. Len(publications) \/ i = Len(publications) + 1
      BY <2>3, VectorFacts DEF Inv
    <3>2. ASSUME i \in 1 .. Len(publications) PROVE FALSE
      BY <2>3, <3>2, VectorFacts DEF Inv
    <3> QED
      BY <3>1, <3>2
  <2>5. next_id \notin issued
    BY <2>1 DEF Inv, Handed
  <2> QED
    BY <2>1, <2>2, <2>3, <2>4, <2>5
<1>4. \/ publications' = publications
      \/ \E id \in Id : take_publication(id) \/ remove_publication(id)
      \/ \E c \in Configs : add_publication(c)
  BY DEF Next, vars, membership, Id, AddFails, send_all, SendAllEmpty, RecordSuccess, RecordError,
         Transmit, send, SendNotFound, SendDirect, Enter
<1> QED
  BY <1>1, <1>2, <1>3, <1>4

\* An identifier is never given to a second publication, however often
\* publications are added, taken, dropped and fail to open: those given are all
\* behind next_id, which no step takes back.
THEOREM IdsFresh == Spec => IdsNeverReused
<1>1. Inv /\ [Next]_vars =>
        [\A i \in DOMAIN publications' :
           (\A j \in DOMAIN publications : publications[j] # publications'[i]) =>
             publications'[i].id \notin issued]_vars
  BY FreshStep
<1> QED
  BY <1>1, InitInv, StepKeepsInv, PTL DEF Spec, IdsNeverReused

\* What is placed over the vector is a prefix of its identifiers.
LEMMA PrefixOfIds ==
  ASSUME Types, NEW out \in Seq(Id), NEW n \in Nat, n = Len(out), n <= Len(publications),
         \A i \in 1 .. n : out[i] = publications[i].id
  PROVE  out = SubSeq(Ids(publications), 1, n)
<1> DEFINE s == Ids(publications)
           u == SubSeq(s, 1, n)
<1>1. \A i \in 1 .. n : s[i] = publications[i].id /\ s[i] \in Id
  BY VectorFacts DEF Ids
<1> HIDE DEF s
<1>2. /\ u \in Seq(Id) /\ Len(u) = (IF 1 <= n THEN n - 1 + 1 ELSE 0)
      /\ \A i \in 1 .. n - 1 + 1 : u[i] = s[1 + i - 1]
  BY <1>1, SubSeqProperties
<1> HIDE DEF u
<1>3. Len(u) = n /\ \A i \in 1 .. n : u[i] = s[i]
  BY <1>2
<1>4. \A i \in 1 .. Len(out) : out[i] = u[i]
  BY <1>1, <1>3
<1>5. Len(out) = Len(u)
  BY <1>3
<1>6. out = u
  BY <1>2, <1>4, <1>5, SeqEqual
<1> QED
  BY <1>6 DEF u, s

\* Only the recordings of a thread end its send_all.
LEMMA SendAllEnds ==
  ASSUME Inv, [Next]_vars, NEW t \in Threads, call[t].op = "send_all", call'[t] = Idle
  PROVE  RecordSuccess(t) \/ RecordError(t)
<1>1. call[t] # Idle /\ call \in [Threads -> Calls]
  BY DEF Idle, Inv, Types
<1>2. call' # call
  BY <1>1
<1>3. ASSUME NEW x \in Threads, NEW op, NEW ids, Enter(x, op, ids) PROVE FALSE
  BY <1>1, <1>3 DEF Enter, Idle
<1>4. ASSUME NEW x \in Threads, SendAllEmpty(x) \/ \E id \in Id : SendNotFound(x, id) PROVE FALSE
  BY <1>1, <1>4 DEF SendAllEmpty, SendNotFound, Leave
<1>5. ASSUME NEW x \in Threads, NEW ok \in BOOLEAN, Transmit(x, ok) PROVE FALSE
  <2>1. call' = [call EXCEPT ![x].stage = IF ok THEN "ok" ELSE "error"]
    BY <1>5 DEF Transmit
  <2>2. CASE x = t
    BY <1>1, <2>1, <2>2 DEF Idle, Calls
  <2>3. CASE x # t
    BY <1>1, <2>1, <2>3
  <2> QED
    BY <2>2, <2>3
<1>6. ASSUME NEW x \in Threads, RecordSuccess(x) \/ RecordError(x) PROVE x = t
  BY <1>1, <1>6 DEF RecordSuccess, RecordError, Leave
<1>7. \/ call' = call
      \/ \E x \in Threads : RecordSuccess(x) \/ RecordError(x)
      \/ \E x \in Threads : SendAllEmpty(x) \/ \E id \in Id : SendNotFound(x, id)
      \/ \E x \in Threads, ok \in BOOLEAN : Transmit(x, ok)
      \/ \E x \in Threads : Enter(x, "send_all", Ids(publications))
      \/ \E x \in Threads, id \in Id : Enter(x, "send", <<id>>)
  BY DEF Next, vars, Id, add_publication, AddFails, take_publication, remove_publication,
         finish_publication_removal, send_all, send, SendDirect
<1> QED
  BY <1>2, <1>3, <1>4, <1>5, <1>6, <1>7

\* A send_all that returns reports a prefix, all of it exactly when it returns
\* Ok.
LEMMA SendAllStep ==
  ASSUME Inv, [Next]_vars, NEW t \in Threads, call[t].op = "send_all", call'[t] = Idle
  PROVE  LET out == answer'[t].out
         IN  /\ out = SubSeq(Ids(publications), 1, Len(out))
             /\ answer'[t].outcome = "ok" <=> Len(out) = Len(publications)
<1>1. /\ Types /\ answer \in [Threads -> Answers] /\ call[t] \in Calls /\ Len(publications) \in Nat
  BY VectorFacts DEF Inv, Types
<1>2. CASE RecordSuccess(t)
  <2>1. PICK done : done = Append(call[t].out, Head(call[t].rest))
    OBVIOUS
  <2>2. PICK rest : rest = Tail(call[t].rest)
    OBVIOUS
  <2>3. Report(call[t], done, rest)
    BY <2>1, <2>2 DEF Report
  <2>4. call[t].stage # "none"
    BY <1>2 DEF RecordSuccess
  <2>5. /\ done \in Seq(Id) /\ rest \in Seq(Id)
        /\ Len(done) + Len(rest) = Len(publications)
        /\ Placed(done, Len(done), rest, Len(rest), publications)
    BY <2>3, <2>4, OneMore
  <2>6. rest = <<>>
    <3>1. SUFFICES ASSUME rest # <<>> PROVE FALSE
      OBVIOUS
    <3>2. call' = [call EXCEPT ![t].stage = "transmit", ![t].rest = rest, ![t].out = done]
      BY <1>2, <2>1, <2>2, <3>1 DEF RecordSuccess
    <3>3. call'[t].stage = "transmit"
      BY <1>1, <3>2 DEF Inv, Types, Calls
    <3> QED
      BY <3>3 DEF Idle
  <2>7. answer'[t] = [outcome |-> "ok", out |-> done]
    BY <1>1, <1>2, <2>1, <2>2, <2>6 DEF RecordSuccess, Leave
  <2>8. Len(done) \in Nat /\ Len(rest) = 0
    BY <2>5, <2>6, LenProperties
  <2>9. Len(done) = Len(publications)
    BY <1>1, <2>5, <2>8
  <2>10. \A i \in 1 .. Len(done) : done[i] = publications[i].id
    BY <2>5 DEF Placed
  <2>11. done = SubSeq(Ids(publications), 1, Len(done))
    BY <1>1, <2>5, <2>8, <2>9, <2>10, PrefixOfIds
  <2> QED
    BY <2>7, <2>9, <2>11
<1>3. CASE RecordError(t)
  <2>1. PICK o \in Seq(Id) : o = call[t].out
    BY <1>1 DEF Calls
  <2>2. PICK r \in Seq(Id) : r = call[t].rest
    BY <1>1 DEF Calls
  <2>3. r # <<>>
    BY <1>3, <2>2 DEF RecordError, Inv, InHand
  <2>4. Len(o) \in Nat /\ Len(r) \in Nat \ {0}
    BY <2>3, LenProperties, EmptySeq
  <2>5. Len(o) + Len(r) = Len(publications) /\ \A i \in 1 .. Len(o) : o[i] = publications[i].id
    BY <2>1, <2>2 DEF Inv, Walks, Walk, Placed
  <2>6. Len(o) < Len(publications)
    BY <1>1, <2>4, <2>5
  <2>7. o = SubSeq(Ids(publications), 1, Len(o))
    BY <1>1, <2>4, <2>5, <2>6, PrefixOfIds
  <2>8. answer'[t] = [outcome |-> "error", out |-> o]
    BY <1>1, <1>3, <2>1 DEF RecordError, Leave
  <2> QED
    BY <1>1, <2>4, <2>6, <2>7, <2>8
<1> QED
  BY <1>2, <1>3, SendAllEnds

\* send_all answers Ok with a report of every publication in the order of the
\* vector, or stops at the first failure with the reports of those before it,
\* whatever other threads send meanwhile: nobody can change the vector then.
THEOREM SendAllCorrect == Spec => SendAllReports
<1>1. Inv /\ [Next]_vars =>
        [\A t \in Threads :
           call[t].op = "send_all" /\ call'[t] = Idle =>
             LET out == answer'[t].out
             IN  /\ out = SubSeq(Ids(publications), 1, Len(out))
                 /\ answer'[t].outcome = "ok" <=> Len(out) = Len(publications)]_vars
  BY SendAllStep
<1> QED
  BY <1>1, InitInv, StepKeepsInv, PTL DEF Spec, SendAllReports
=============================================================================
