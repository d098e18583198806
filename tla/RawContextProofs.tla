-------------------------- MODULE RawContextProofs --------------------------
(***************************************************************************)
(* The index map of a raw context stays in step with its vector, for any   *)
(* configurations and bounds, and the context implements PublicationMap.   *)
(***************************************************************************)
EXTENDS RawContext, SequenceTheorems, TLAPS

\* What swap_remove leaves: one element fewer, the last one in the gap.
LEMMA SwapRemoveProperties ==
  ASSUME NEW S, NEW s \in Seq(S), NEW k \in 1 .. Len(s)
  PROVE  /\ SwapRemove(s, k) \in Seq(S)
         /\ Len(SwapRemove(s, k)) = Len(s) - 1
         /\ DOMAIN SwapRemove(s, k) = 1 .. Len(s) - 1
         /\ \A i \in 1 .. Len(s) - 1 :
              SwapRemove(s, k)[i] = IF i = k THEN s[Len(s)] ELSE s[i]
<1>1. Len(s) \in Nat /\ Len(s) - 1 \in Nat /\ s \in [1 .. Len(s) -> S]
  BY LenProperties
<1>2. SwapRemove(s, k) \in [1 .. Len(s) - 1 -> S]
  BY <1>1 DEF SwapRemove
<1>3. SwapRemove(s, k) \in Seq(S)
  BY <1>1, <1>2, SeqDef
<1>4. Len(SwapRemove(s, k)) = Len(s) - 1
  BY <1>1 DEF SwapRemove
<1> QED
  BY <1>1, <1>2, <1>3, <1>4 DEF SwapRemove

\* What push leaves: the old elements and the new one behind them.
LEMMA PushProperties ==
  ASSUME NEW S, NEW s \in Seq(S), NEW e \in S
  PROVE  /\ Append(s, e) \in Seq(S)
         /\ DOMAIN Append(s, e) = 1 .. Len(s) + 1
         /\ \A i \in 1 .. Len(s) : Append(s, e)[i] = s[i]
         /\ Append(s, e)[Len(s) + 1] = e
<1>1. Len(s) \in Nat /\ DOMAIN s = 1 .. Len(s)
  BY LenProperties
<1> QED
  BY <1>1

----------------------------------------------------------------------------
\* The inductive invariant.
Inv == TypeOK /\ IndexInv /\ FreshInv /\ ConfigsUnique

\* The vector as a function on its positions.
LEMMA VectorFacts ==
  ASSUME TypeOK
  PROVE  /\ Len(publications) \in Nat
         /\ DOMAIN publications = 1 .. Len(publications)
         /\ \A i \in 1 .. Len(publications) : publications[i] \in Publication
  BY LenProperties, ElementOfSeq DEF TypeOK

\* A refused call leaves vector and map alone; at most an identifier is used.
LEMMA RefuseKeepsInv ==
  ASSUME Inv, NEW outcome \in Outcomes, Refuse(outcome), opened' = opened,
         next_publication_id' \in {next_publication_id, next_publication_id + 1}
  PROVE  Inv'
<1> USE DEF Inv, Refuse
<1>1. TypeOK'
  BY DEF TypeOK, Answer
<1>2. IndexInv' /\ ConfigsUnique'
  BY DEF IndexInv, ConfigsUnique
<1>3. FreshInv'
  BY DEF FreshInv, TypeOK
<1> QED
  BY <1>1, <1>2, <1>3

\* add_publication: the new publication is last, under the next identifier.
LEMMA AddKeepsInv ==
  ASSUME Inv, NEW c \in Configs, AddOk(c)
  PROVE  Inv'
<1> DEFINE p == NewPublication(next_publication_id, c)
           n == Len(publications)
<1>1. p \in Publication /\ p.id = next_publication_id /\ p.config = c
  BY DEF NewPublication, Publication, Inv, TypeOK
<1>2. /\ n \in Nat /\ DOMAIN publications = 1 .. n
      /\ \A i \in 1 .. n : publications[i] \in Publication
  BY VectorFacts DEF Inv
<1>3. /\ publications' \in Seq(Publication)
      /\ DOMAIN publications' = 1 .. n + 1
      /\ \A i \in 1 .. n : publications'[i] = publications[i]
      /\ publications'[n + 1] = p
  BY <1>1, PushProperties DEF AddOk, Push, Inv, TypeOK
<1>4. publication_indices' = Insert(publication_indices, p.id, n + 1)
  BY DEF AddOk, Push
<1> HIDE DEF p, n
<1>5. p.id \notin DOMAIN publication_indices
  BY <1>1 DEF Inv, FreshInv, TypeOK
<1>6. TypeOK'
  BY <1>1, <1>2, <1>3, <1>4 DEF AddOk, Push, Insert, Answer, Outcomes, Inv, TypeOK, p
<1>7. IndexInv'
  <2>1. \A i \in 1 .. n + 1 :
          /\ publications'[i].id \in DOMAIN publication_indices'
          /\ publication_indices'[publications'[i].id] = i
    <3> TAKE i \in 1 .. n + 1
    <3>1. CASE i = n + 1
      BY <1>3, <1>4, <3>1 DEF Insert
    <3>2. CASE i # n + 1
      <4>1. i \in 1 .. n
        BY <1>2, <3>2
      <4>2. /\ publications[i].id \in DOMAIN publication_indices
            /\ publication_indices[publications[i].id] = i
        BY <1>2, <4>1 DEF Inv, IndexInv
      <4> QED
        BY <1>3, <1>4, <1>5, <4>1, <4>2 DEF Insert
    <3> QED
      BY <3>1, <3>2
  <2>2. \A id \in DOMAIN publication_indices' :
          /\ publication_indices'[id] \in 1 .. n + 1
          /\ publications'[publication_indices'[id]].id = id
    <3> TAKE id \in DOMAIN publication_indices'
    <3>1. CASE id = p.id
      BY <1>2, <1>3, <1>4, <3>1 DEF Insert
    <3>2. CASE id # p.id
      <4>1. id \in DOMAIN publication_indices /\ publication_indices'[id] = publication_indices[id]
        BY <1>4, <3>2 DEF Insert
      <4>2. publication_indices[id] \in 1 .. n /\ publications[publication_indices[id]].id = id
        BY <1>2, <4>1 DEF Inv, IndexInv
      <4> QED
        BY <1>2, <1>3, <4>1, <4>2
    <3> QED
      BY <3>1, <3>2
  <2> QED
    BY <1>3, <2>1, <2>2 DEF IndexInv
<1>8. FreshInv'
  BY <1>1, <1>4 DEF Insert, FreshInv, AddOk, Inv, TypeOK
<1>9. ConfigsUnique'
  <2>1. \A i \in 1 .. n : publications[i].config # c
    BY <1>2 DEF AddOk, IsDuplicate
  <2>2. \A i, j \in 1 .. n : publications[i].config = publications[j].config => i = j
    BY <1>2 DEF Inv, ConfigsUnique
  <2>3. \A i \in 1 .. n + 1 : i = n + 1 \/ i \in 1 .. n
    BY <1>2
  <2> QED
    BY <1>1, <1>3, <2>1, <2>2, <2>3 DEF ConfigsUnique
<1> QED
  BY <1>6, <1>7, <1>8, <1>9 DEF Inv

\* replace_publication: the same position, the same identifier.
LEMMA ReplaceKeepsInv ==
  ASSUME Inv, NEW id, NEW c \in Configs, ReplaceOk(id, c)
  PROVE  Inv'
<1> DEFINE p == NewPublication(id, c)
           k == publication_indices[id]
           n == Len(publications)
<1>1. /\ n \in Nat /\ DOMAIN publications = 1 .. n
      /\ \A i \in 1 .. n : publications[i] \in Publication
  BY VectorFacts DEF Inv
<1>2. k \in 1 .. n /\ publications[k].id = id /\ id \in Nat
  BY <1>1 DEF ReplaceOk, Inv, IndexInv, TypeOK
<1>3. p \in Publication /\ p.id = id /\ p.config = c
  BY <1>2 DEF NewPublication, Publication, Inv, TypeOK
<1>4. /\ publications' \in Seq(Publication)
      /\ DOMAIN publications' = 1 .. n
      /\ \A i \in 1 .. n : publications'[i] = IF i = k THEN p ELSE publications[i]
  BY <1>1, <1>2, <1>3, ExceptSeq, LenProperties DEF ReplaceOk, Inv, TypeOK
<1> HIDE DEF p, k, n
<1>5. TypeOK'
  BY <1>3, <1>4 DEF ReplaceOk, Answer, Outcomes, Inv, TypeOK, p
<1>6. IndexInv'
  <2>1. publication_indices' = publication_indices
    BY DEF ReplaceOk
  <2>2. \A i \in 1 .. n : publications'[i].id = publications[i].id
    BY <1>2, <1>3, <1>4
  <2> QED
    BY <1>1, <1>4, <2>1, <2>2 DEF Inv, IndexInv
<1>7. FreshInv'
  BY DEF ReplaceOk, Inv, FreshInv
<1>8. ConfigsUnique'
  <2>1. \A i \in 1 .. n : i # k => publications[i].config # c
    <3> SUFFICES ASSUME NEW i \in 1 .. n, i # k PROVE publications[i].config # c
      OBVIOUS
    <3>1. publications[i].id # id
      BY <1>1 DEF Inv, IndexInv, k
    <3> QED
      BY <1>1, <3>1 DEF ReplaceOk, IsDuplicate
  <2>2. \A i, j \in 1 .. n : publications[i].config = publications[j].config => i = j
    BY <1>1 DEF Inv, ConfigsUnique
  <2> QED
    BY <1>3, <1>4, <2>1, <2>2 DEF ConfigsUnique
<1> QED
  BY <1>5, <1>6, <1>7, <1>8 DEF Inv

\* What take_publication leaves of the vector and of the map: the publication
\* that was last is now at position k, the others are where they were.
TakeShape(id, k, n) ==
  /\ n \in Nat /\ k \in 1 .. n /\ DOMAIN publications = 1 .. n
  /\ publications[k].id = id
  /\ publications' \in Seq(Publication)
  /\ DOMAIN publications' = 1 .. n - 1
  /\ \A i \in 1 .. n - 1 :
       publications'[i] = IF i = k THEN publications[n] ELSE publications[i]
  /\ DOMAIN publication_indices' = DOMAIN publication_indices \ {id}
  /\ \A i \in DOMAIN publication_indices' :
       publication_indices'[i] =
         IF i = publications[n].id THEN k ELSE publication_indices[i]

\* What swap_remove leaves, and where the last publication has gone.
LEMMA TakeFacts ==
  ASSUME Inv, NEW id, TakeOk(id),
         NEW k, k = publication_indices[id],
         NEW n, n = Len(publications)
  PROVE  TakeShape(id, k, n)
<1> USE DEF TakeShape
<1>1. /\ n \in Nat /\ DOMAIN publications = 1 .. n
      /\ \A i \in 1 .. n : publications[i] \in Publication
  BY VectorFacts DEF Inv
<1>2. k \in 1 .. n /\ publications[k].id = id
  BY <1>1 DEF TakeOk, Inv, IndexInv
<1> DEFINE rest == SwapRemove(publications, k)
<1>a. publications \in Seq(Publication) /\ k \in 1 .. Len(publications)
  BY <1>2 DEF Inv, TypeOK
<1>3. /\ rest \in Seq(Publication)
      /\ Len(rest) = n - 1
      /\ DOMAIN rest = 1 .. n - 1
      /\ \A i \in 1 .. n - 1 :
           rest[i] = IF i = k THEN publications[n] ELSE publications[i]
  <2> HIDE DEF rest
  <2>1. /\ SwapRemove(publications, k) \in Seq(Publication)
        /\ Len(SwapRemove(publications, k)) = Len(publications) - 1
        /\ DOMAIN SwapRemove(publications, k) = 1 .. Len(publications) - 1
        /\ \A i \in 1 .. Len(publications) - 1 :
             SwapRemove(publications, k)[i] =
               IF i = k THEN publications[Len(publications)] ELSE publications[i]
    BY <1>a, SwapRemoveProperties
  <2> QED
    BY <2>1 DEF rest
<1>4. publications' = rest /\ publication_indices' = Reindexed(id, k, rest)
  BY DEF TakeOk
<1>5. /\ publications[n].id \in DOMAIN publication_indices
      /\ publication_indices[publications[n].id] = n
  BY <1>1, <1>2 DEF Inv, IndexInv
<1> HIDE DEF rest
<1>6. CASE k = n
  <2>1. publication_indices' = Remove(publication_indices, id)
    BY <1>1, <1>3, <1>4, <1>6 DEF Reindexed
  <2>2. publications[n].id = id
    BY <1>2, <1>6
  <2> QED
    BY <1>1, <1>2, <1>3, <1>4, <2>1, <2>2 DEF Remove
<1>7. CASE k # n
  <2>1. k \in 1 .. n - 1 /\ rest[k] = publications[n]
    BY <1>1, <1>2, <1>3, <1>7
  <2>2. publication_indices' = Insert(Remove(publication_indices, id), publications[n].id, k)
    BY <1>3, <1>4, <2>1 DEF Reindexed
  <2>3. publications[n].id # id
    BY <1>5, <1>7
  <2> QED
    BY <1>1, <1>2, <1>3, <1>4, <1>5, <2>2, <2>3 DEF Remove, Insert
<1> QED
  BY <1>6, <1>7

\* take_publication and remove_publication keep map and vector in step.
LEMMA TakeKeepsInv ==
  ASSUME Inv, NEW id, TakeOk(id)
  PROVE  Inv'
<1>a. PICK k : k = publication_indices[id]
  OBVIOUS
<1>b. PICK n : n = Len(publications)
  OBVIOUS
<1>0. TakeShape(id, k, n)
  BY <1>a, <1>b, TakeFacts
<1>1. /\ n \in Nat /\ k \in 1 .. n /\ DOMAIN publications = 1 .. n
      /\ publications[k].id = id
      /\ publications' \in Seq(Publication)
      /\ DOMAIN publications' = 1 .. n - 1
      /\ \A i \in 1 .. n - 1 :
           publications'[i] = IF i = k THEN publications[n] ELSE publications[i]
      /\ DOMAIN publication_indices' = DOMAIN publication_indices \ {id}
      /\ \A i \in DOMAIN publication_indices' :
           publication_indices'[i] =
             IF i = publications[n].id THEN k ELSE publication_indices[i]
  BY <1>0 DEF TakeShape
<1>2. \A i \in 1 .. n :
        /\ publications[i] \in Publication
        /\ publications[i].id \in DOMAIN publication_indices
        /\ publication_indices[publications[i].id] = i
  BY <1>1, VectorFacts DEF Inv, IndexInv
<1>3. \A i \in DOMAIN publication_indices :
        /\ i \in Nat
        /\ publication_indices[i] \in 1 .. n
        /\ publications[publication_indices[i]].id = i
  BY <1>1 DEF Inv, IndexInv, TypeOK
<1>4. publication_indices[id] = k /\ id \in DOMAIN publication_indices
  BY <1>a DEF TakeOk
<1>5. result' = Answer("ok", publications[k])
  BY <1>a DEF TakeOk
<1>6. UNCHANGED <<next_publication_id, opened>>
  BY DEF TakeOk
<1>7. TypeOK'
  <2>1. result' \in [outcome : Outcomes, publication : Publication \cup {NoPublication}]
    BY <1>1, <1>2, <1>5 DEF Answer, Outcomes
  <2>2. \A i \in DOMAIN publication_indices' : i \in Nat /\ publication_indices'[i] \in Nat
    BY <1>1, <1>3
  <2> QED
    BY <1>1, <1>6, <2>1, <2>2 DEF Inv, TypeOK
<1>8. IndexInv'
  <2>1. \A i \in 1 .. n - 1 :
          /\ publications'[i].id \in DOMAIN publication_indices'
          /\ publication_indices'[publications'[i].id] = i
    <3> TAKE i \in 1 .. n - 1
    <3>1. i \in 1 .. n /\ n \in 1 .. n /\ i # n
      BY <1>1
    <3>2. CASE i = k
      <4>1. publications[n].id # id
        BY <1>2, <1>4, <3>1, <3>2
      <4> QED
        BY <1>1, <1>2, <3>1, <3>2, <4>1
    <3>3. CASE i # k
      <4>1. publications[i].id # id /\ publications[i].id # publications[n].id
        BY <1>2, <1>4, <3>1, <3>3
      <4> QED
        BY <1>1, <1>2, <3>1, <3>3, <4>1
    <3> QED
      BY <3>2, <3>3
  <2>2. \A i \in DOMAIN publication_indices' :
          /\ publication_indices'[i] \in 1 .. n - 1
          /\ publications'[publication_indices'[i]].id = i
    <3> TAKE i \in DOMAIN publication_indices'
    <3>1. i \in DOMAIN publication_indices /\ i # id
      BY <1>1
    <3>2. CASE i = publications[n].id
      <4>1. publication_indices[i] = n
        BY <1>1, <1>2, <3>2
      <4>2. k # n
        BY <1>1, <3>1, <3>2
      <4>3. k \in 1 .. n - 1
        BY <1>1, <4>2
      <4> QED
        BY <1>1, <3>2, <4>3
    <3>3. CASE i # publications[n].id
      <4>1. publication_indices'[i] = publication_indices[i]
        BY <1>1, <3>3
      <4>2. publication_indices[i] # n /\ publication_indices[i] # k
        BY <1>1, <1>3, <3>1, <3>3
      <4>3. publication_indices[i] \in 1 .. n - 1
        BY <1>1, <1>3, <3>1, <4>2
      <4> QED
        BY <1>1, <1>3, <3>1, <4>1, <4>2, <4>3
    <3> QED
      BY <3>2, <3>3
  <2> QED
    BY <1>1, <2>1, <2>2 DEF IndexInv
<1>9. FreshInv'
  BY <1>1, <1>6 DEF Inv, FreshInv
<1>10. ConfigsUnique'
  <2>1. \A i, j \in 1 .. n : publications[i].config = publications[j].config => i = j
    BY <1>1 DEF Inv, ConfigsUnique
  <2>2. \A i \in 1 .. n - 1 : i \in 1 .. n /\ i # n /\ n \in 1 .. n
    BY <1>1
  <2> QED
    BY <1>1, <2>1, <2>2 DEF ConfigsUnique
<1> QED
  BY <1>7, <1>8, <1>9, <1>10 DEF Inv

\* Every call of a raw context keeps the invariant.
LEMMA StepKeepsInv == Inv /\ [Next]_vars => Inv'
<1> SUFFICES ASSUME Inv, [Next]_vars PROVE Inv'
  OBVIOUS
<1> USE DEF Outcomes
<1>1. ASSUME NEW id, Unknown(id) PROVE Inv'
  BY <1>1, RefuseKeepsInv DEF Unknown
<1>2. ASSUME NEW c \in Configs, add_publication(c) PROVE Inv'
  BY <1>2, RefuseKeepsInv, AddKeepsInv DEF add_publication, AddDuplicate, AddOpenFails
<1>3. ASSUME NEW id, NEW c \in Configs, replace_publication(id, c) PROVE Inv'
  BY <1>1, <1>3, RefuseKeepsInv, ReplaceKeepsInv
  DEF replace_publication, ReplaceDuplicate, ReplaceOpenFails
<1>4. ASSUME NEW id, take_publication(id) PROVE Inv'
  BY <1>1, <1>4, TakeKeepsInv DEF take_publication
<1>5. ASSUME NEW id, SendOk(id) PROVE Inv'
  <2>1. publications[publication_indices[id]] \in Publication
    BY <1>5, VectorFacts DEF SendOk, Inv, IndexInv
  <2>2. TypeOK'
    BY <1>5, <2>1 DEF SendOk, Answer, Inv, TypeOK
  <2> QED
    BY <1>5, <2>2 DEF SendOk, Inv, IndexInv, FreshInv, ConfigsUnique
<1>6. CASE UNCHANGED vars
  BY <1>6 DEF vars, Inv, TypeOK, IndexInv, FreshInv, ConfigsUnique
<1> QED
  BY <1>1, <1>2, <1>3, <1>4, <1>5, <1>6 DEF Next, send_raw

\* A new context has an empty vector and an empty index.
LEMMA InitInv == Init => Inv
  BY EmptySeq DEF Init, Inv, TypeOK, IndexInv, FreshInv, ConfigsUnique, Answer, Outcomes

\* Every state of a raw context is well typed.
THEOREM TypeCorrect == Spec => []TypeOK
<1>1. Inv => TypeOK
  BY DEF Inv
<1> QED
  BY <1>1, InitInv, StepKeepsInv, PTL DEF Spec

\* After any sequence of calls an identifier leads to its own publication,
\* identifiers are not handed out twice and configurations are not shared.
THEOREM IndexCorrect == Spec => [](IndexInv /\ FreshInv /\ ConfigsUnique)
<1>1. Inv => IndexInv /\ FreshInv /\ ConfigsUnique
  BY DEF Inv
<1> QED
  BY <1>1, InitInv, StepKeepsInv, PTL DEF Spec

\* No two publications of a context share a configuration, whichever calls
\* added, replaced and removed them.
THEOREM ConfigurationsUnique == Spec => []ConfigsUnique
  BY IndexCorrect, PTL

----------------------------------------------------------------------------
(* Refinement *)

\* The abstract map is the publications under their identifiers, and the two
\* notions of a configuration being taken agree.
LEMMA LiveFacts ==
  ASSUME Inv
  PROVE  /\ DOMAIN live = DOMAIN publication_indices
         /\ \A id \in DOMAIN live : live[id] \in Publication /\ live[id].id = id
         /\ \A c, x : IsDuplicate(c, x) <=> Map!Taken(c, x)
<1>1. DOMAIN live = DOMAIN publication_indices
  BY DEF live
<1>2. \A id \in DOMAIN live :
        /\ publication_indices[id] \in DOMAIN publications
        /\ live[id] = publications[publication_indices[id]]
        /\ live[id].id = id
  BY DEF live, Inv, IndexInv
<1>3. \A i \in DOMAIN publications :
        publications[i].id \in DOMAIN live /\ live[publications[i].id] = publications[i]
  BY DEF live, Inv, IndexInv
<1>4. \A id \in DOMAIN live : live[id] \in Publication
  BY <1>2, VectorFacts DEF Inv
<1>5. \A c, x : IsDuplicate(c, x) <=> Map!Taken(c, x)
  BY <1>2, <1>3 DEF IsDuplicate, Map!Taken
<1> QED
  BY <1>1, <1>2, <1>4, <1>5

\* A refused call is a refused call of the map.
LEMMA RefuseRefines ==
  ASSUME Inv, NEW outcome, Refuse(outcome)
  PROVE  live' = live /\ result' = Map!Answer(outcome, NoPublication)
  BY DEF Refuse, live, Answer, Map!Answer

\* add_publication is the map's Add.
LEMMA AddRefines ==
  ASSUME Inv, NEW c \in Configs, AddOk(c)
  PROVE  \E p \in Map!Publications : Map!Add(p)
<1> DEFINE p == NewPublication(next_publication_id, c)
           n == Len(publications)
<1>1. p.id = next_publication_id /\ p.config = c /\ p.socket = opened
  BY DEF NewPublication
<1>2. p \in Map!Publications /\ p \in Publication
  BY BoundsAssumption
  DEF NewPublication, Map!Publications, Publication, AddOk, Inv, TypeOK
<1>3. p.id \notin 0 .. next_publication_id - 1
  BY <1>1 DEF Inv, TypeOK
<1>4. ~Map!Taken(p.config, {})
  BY <1>1, LiveFacts DEF AddOk
<1>5. /\ n \in Nat /\ DOMAIN publications = 1 .. n
      /\ \A i \in 1 .. n : publications'[i] = publications[i]
      /\ publications'[n + 1] = p
      /\ publication_indices' = Insert(publication_indices, p.id, n + 1)
  BY <1>2, PushProperties, VectorFacts DEF AddOk, Push, Inv, TypeOK
<1> HIDE DEF p, n
<1>6. live' = [id \in DOMAIN live \cup {p.id} |-> IF id = p.id THEN p ELSE live[id]]
  <2>1. \A id \in DOMAIN publication_indices : publication_indices[id] \in 1 .. n
    BY <1>5 DEF Inv, IndexInv
  <2> QED
    BY <1>5, <2>1 DEF live, Insert
<1>7. 0 .. next_publication_id' - 1 = 0 .. next_publication_id - 1 \cup {p.id}
  BY <1>1 DEF AddOk, Inv, TypeOK
<1>8. result' = Map!Answer("ok", p)
  BY DEF AddOk, Push, Answer, Map!Answer, p
<1>9. Map!Add(p)
  BY <1>3, <1>4, <1>6, <1>7, <1>8 DEF Map!Add
<1> QED
  BY <1>2, <1>9

\* replace_publication is the map's Replace.
LEMMA ReplaceRefines ==
  ASSUME Inv, NEW id \in 0 .. MaxId, NEW c \in Configs, ReplaceOk(id, c)
  PROVE  \E p \in Map!Publications : Map!Replace(p)
<1> DEFINE p == NewPublication(id, c)
<1>1. p.id = id /\ p.config = c
  BY DEF NewPublication
<1>2. p \in Map!Publications
  BY BoundsAssumption DEF NewPublication, Map!Publications, ReplaceOk, Inv, TypeOK
<1>3. id \in DOMAIN live /\ ~Map!Taken(p.config, {p.id})
  BY <1>1, LiveFacts DEF ReplaceOk
<1>4. live' = [live EXCEPT ![p.id] = p]
  <2>1. /\ publications' = [publications EXCEPT ![publication_indices[id]] = p]
        /\ publication_indices' = publication_indices
    BY DEF ReplaceOk
  <2>2. \A i \in DOMAIN publication_indices :
          /\ publication_indices[i] \in DOMAIN publications
          /\ i # id => publication_indices[i] # publication_indices[id]
    BY DEF Inv, IndexInv, ReplaceOk
  <2>3. DOMAIN publications' = DOMAIN publications
    BY <2>1
  <2> HIDE DEF p
  <2> QED
    BY <1>1, <2>1, <2>2, <2>3 DEF live
<1>5. result' = Map!Answer("ok", p) /\ UNCHANGED next_publication_id
  BY DEF ReplaceOk, Answer, Map!Answer
<1>6. Map!Replace(p)
  BY <1>1, <1>3, <1>4, <1>5 DEF Map!Replace
<1> QED
  BY <1>2, <1>6

\* take_publication is the map's Take.
LEMMA TakeRefines ==
  ASSUME Inv, NEW id, TakeOk(id)
  PROVE  Map!Take(id)
<1>a. PICK k : k = publication_indices[id]
  OBVIOUS
<1>b. PICK n : n = Len(publications)
  OBVIOUS
<1>1. TakeShape(id, k, n)
  BY <1>a, <1>b, TakeFacts
<1>2. id \in DOMAIN live
  BY LiveFacts DEF TakeOk
<1>3. DOMAIN live' = DOMAIN live \ {id}
  BY <1>1 DEF live, TakeShape
<1>4. \A i \in DOMAIN live \ {id} : live'[i] = live[i]
  <2> TAKE i \in DOMAIN live \ {id}
  <2>1. /\ i \in DOMAIN publication_indices' /\ i \in DOMAIN publication_indices
        /\ live'[i] = publications'[publication_indices'[i]]
        /\ live[i] = publications[publication_indices[i]]
    BY <1>3 DEF live
  <2>2. /\ publication_indices[i] \in 1 .. n
        /\ publications[publication_indices[i]].id = i
    BY <1>1, <2>1 DEF Inv, IndexInv, TakeShape
  <2>3. n \in 1 .. n /\ publication_indices[publications[n].id] = n
    BY <1>1 DEF TakeShape, Inv, IndexInv
  <2>4. CASE i = publications[n].id
    <3>1. k # n
      BY <1>1, <2>4 DEF TakeShape
    <3>2. k \in 1 .. n - 1 /\ publication_indices'[i] = k
      BY <1>1, <2>1, <2>4, <3>1 DEF TakeShape
    <3>3. publications'[k] = publications[n]
      BY <1>1, <3>2 DEF TakeShape
    <3> QED
      BY <2>1, <2>3, <2>4, <3>2, <3>3
  <2>5. CASE i # publications[n].id
    <3>1. publication_indices'[i] = publication_indices[i]
      BY <1>1, <2>1, <2>5 DEF TakeShape
    <3>2. publication_indices[i] # n /\ publication_indices[i] # k
      BY <1>1, <2>2, <2>5 DEF TakeShape
    <3>3. publication_indices[i] \in 1 .. n - 1
      BY <1>1, <2>2, <3>2 DEF TakeShape
    <3> QED
      BY <1>1, <2>1, <3>1, <3>2, <3>3 DEF TakeShape
  <2> QED
    BY <2>4, <2>5
<1>5. live' = [i \in DOMAIN live \ {id} |-> live[i]]
  <2>1. live' = [i \in DOMAIN live' |-> live'[i]]
    BY DEF live
  <2> QED
    BY <1>3, <1>4, <2>1
<1>6. result' = Map!Answer("ok", live[id]) /\ UNCHANGED next_publication_id
  BY DEF TakeOk, Answer, Map!Answer, live
<1> QED
  BY <1>2, <1>5, <1>6 DEF Map!Take

\* The context implements the documented map: whatever swap_remove moves, an
\* identifier keeps leading to the same publication, a replacement keeps its
\* identifier, and a call that fails changes nothing.
THEOREM ContextImplementsMap == Spec => ImplementsMap
<1>1. Init => Map!Init
  BY BoundsAssumption DEF Init, Map!Init, live, Answer, Map!Answer
<1>2. Inv /\ [Next]_vars => [Map!Next]_(Map!vars)
  <2> SUFFICES ASSUME Inv, [Next]_vars PROVE [Map!Next]_(Map!vars)
    OBVIOUS
  <2>1. ASSUME NEW id \in 0 .. MaxId, Unknown(id) PROVE Map!Next
    <3>1. Map!NotFound(id)
      BY <2>1, RefuseRefines, LiveFacts DEF Unknown, Map!NotFound
    <3> QED
      BY <3>1 DEF Map!Next
  <2>2. ASSUME NEW c \in Configs, add_publication(c) PROVE Map!Next
    <3>1. CASE AddDuplicate(c)
      <4>1. Map!Duplicate(c, {})
        BY <3>1, RefuseRefines, LiveFacts DEF AddDuplicate, Map!Duplicate
      <4> QED
        BY <4>1 DEF Map!Next
    <3>2. CASE AddOpenFails(c)
      <4>1. 0 .. next_publication_id - 1 \subseteq 0 .. next_publication_id' - 1
        BY <3>2 DEF AddOpenFails, Inv, TypeOK
      <4>2. Map!OpenFails
        BY <3>2, <4>1, RefuseRefines DEF AddOpenFails, Map!OpenFails
      <4> QED
        BY <4>2 DEF Map!Next
    <3>3. CASE AddOk(c)
      BY <3>3, AddRefines DEF Map!Next
    <3> QED
      BY <2>2, <3>1, <3>2, <3>3 DEF add_publication
  <2>3. ASSUME NEW id \in 0 .. MaxId, NEW c \in Configs, replace_publication(id, c)
        PROVE  Map!Next
    <3>1. CASE ReplaceDuplicate(id, c)
      <4>1. Map!Duplicate(c, {id})
        BY <3>1, RefuseRefines, LiveFacts DEF ReplaceDuplicate, Map!Duplicate
      <4> QED
        BY <4>1 DEF Map!Next
    <3>2. CASE ReplaceOpenFails(id, c)
      <4>1. Map!OpenFails
        BY <3>2, RefuseRefines DEF ReplaceOpenFails, Map!OpenFails
      <4> QED
        BY <4>1 DEF Map!Next
    <3>3. CASE ReplaceOk(id, c)
      BY <3>3, ReplaceRefines DEF Map!Next
    <3> QED
      BY <2>1, <2>3, <3>1, <3>2, <3>3 DEF replace_publication
  <2>4. ASSUME NEW id \in 0 .. MaxId, take_publication(id) PROVE Map!Next
    BY <2>1, <2>4, TakeRefines DEF take_publication, Map!Next
  <2>5. ASSUME NEW id \in 0 .. MaxId, SendOk(id) PROVE Map!Next
    <3>1. live' = live /\ result' = Map!Answer("ok", live[id]) /\ UNCHANGED next_publication_id
      BY <2>5 DEF SendOk, live, Answer, Map!Answer
    <3>2. Map!Send(id)
      BY <2>5, <3>1, LiveFacts DEF SendOk, Map!Send
    <3> QED
      BY <3>2 DEF Map!Next
  <2>6. CASE UNCHANGED vars
    BY <2>6 DEF vars, Map!vars, live
  <2> QED
    BY <2>1, <2>2, <2>3, <2>4, <2>5, <2>6 DEF Next, send_raw
<1> QED
  BY <1>1, <1>2, InitInv, StepKeepsInv, PTL DEF Spec, ImplementsMap, Map!Spec
=============================================================================
