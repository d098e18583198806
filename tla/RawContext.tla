----------------------------- MODULE RawContext -----------------------------
(***************************************************************************)
(* RawContext (src/raw/context.rs) and RawIpContext                        *)
(* (src/raw_ip/context.rs): a vector of publications and a hash map from   *)
(* identifier to position, kept in step by hand when swap_remove moves the *)
(* last publication into the gap.  RawIpContext has the same operations    *)
(* but replace_publication.                                                *)
(*                                                                         *)
(* Positions count from 1 here and from 0 in the code.  A configuration is *)
(* an opaque value compared for equality; whether its socket can be opened *)
(* is the environment's choice (validation, permissions, the kernel).      *)
(***************************************************************************)
EXTENDS Integers, Sequences

CONSTANTS
  Configs,        \* the configurations callers use
  MaxId,          \* bound on the identifiers that are handed out
  MaxSockets,     \* bound on the sockets that are opened
  NoPublication   \* stands for no publication in an answer

ASSUME BoundsAssumption == MaxId \in Nat /\ MaxSockets \in Nat
ASSUME NoPublicationAssumption ==
  NoPublication \notin [id : Nat, config : Configs, socket : Nat]

VARIABLES
  publications,         \* the vector
  publication_indices,  \* the map from identifier to position
  next_publication_id,
  opened,               \* how many sockets were opened: names the next one
  result                \* what the last call answered

vars == <<publications, publication_indices, next_publication_id, opened, result>>

Publication == [id : Nat, config : Configs, socket : Nat]
Outcomes == {"none", "ok", "DuplicatePublication", "PublicationNotFound", "OpenFailed"}
Answer(outcome, publication) == [outcome |-> outcome, publication |-> publication]

\* Each variable has its type; indices are natural numbers.
TypeOK ==
  /\ publications \in Seq(Publication)
  /\ DOMAIN publication_indices \subseteq Nat
  /\ \A id \in DOMAIN publication_indices : publication_indices[id] \in Nat
  /\ next_publication_id \in Nat
  /\ opened \in Nat
  /\ result \in [outcome : Outcomes, publication : Publication \cup {NoPublication}]

\* RawContext::new() starts the identifiers at 1, the derived Default at 0.
Init ==
  /\ publications = <<>>
  /\ publication_indices = [id \in {} |-> 0]
  /\ next_publication_id \in {0, 1}
  /\ opened = 0
  /\ result = Answer("none", NoPublication)

----------------------------------------------------------------------------
(* Helpers *)

\* HashMap::insert
Insert(map, id, index) ==
  [i \in DOMAIN map \cup {id} |-> IF i = id THEN index ELSE map[i]]

\* HashMap::remove
Remove(map, id) == [i \in DOMAIN map \ {id} |-> map[i]]

\* Vec::swap_remove: the last element fills the gap.
SwapRemove(seq, index) ==
  [i \in 1 .. Len(seq) - 1 |-> IF i = index THEN seq[Len(seq)] ELSE seq[i]]

\* ensure_publication_config_is_unique finds another publication with c.
IsDuplicate(c, excluded) ==
  \E i \in DOMAIN publications :
    publications[i].id \notin excluded /\ publications[i].config = c

\* A call that fails: the context is left as it was.
Refuse(outcome) ==
  /\ result' = Answer(outcome, NoPublication)
  /\ UNCHANGED <<publications, publication_indices>>

\* The publication RawPublication::new builds once its socket is open.
NewPublication(id, c) == [id |-> id, config |-> c, socket |-> opened]

----------------------------------------------------------------------------
(* Operations *)

AddDuplicate(c) ==
  /\ IsDuplicate(c, {})
  /\ Refuse("DuplicatePublication")
  /\ UNCHANGED <<next_publication_id, opened>>

\* The identifier is used up before the socket is opened.
AddOpenFails(c) ==
  /\ next_publication_id < MaxId
  /\ ~IsDuplicate(c, {})
  /\ next_publication_id' = next_publication_id + 1
  /\ Refuse("OpenFailed")
  /\ UNCHANGED opened

\* What add_publication does once the socket is open: the publication p goes
\* to the end of the vector.
Push(p) ==
  /\ publications' = Append(publications, p)
  /\ publication_indices' = Insert(publication_indices, p.id, Len(publications) + 1)
  /\ result' = Answer("ok", p)
  /\ opened' = opened + 1

AddOk(c) ==
  /\ next_publication_id < MaxId
  /\ opened < MaxSockets
  /\ ~IsDuplicate(c, {})
  /\ next_publication_id' = next_publication_id + 1
  /\ Push(NewPublication(next_publication_id, c))

add_publication(c) == AddDuplicate(c) \/ AddOpenFails(c) \/ AddOk(c)

Unknown(id) ==
  /\ id \notin DOMAIN publication_indices
  /\ Refuse("PublicationNotFound")
  /\ UNCHANGED <<next_publication_id, opened>>

\* The replacement's own identifier is excluded from the duplicate check.
ReplaceDuplicate(id, c) ==
  /\ id \in DOMAIN publication_indices
  /\ IsDuplicate(c, {id})
  /\ Refuse("DuplicatePublication")
  /\ UNCHANGED <<next_publication_id, opened>>

\* Mutant of ReplaceOpenFails: the original was dropped first.
ReplaceDropsFirst(id, c) ==
  /\ id \in DOMAIN publication_indices
  /\ publication_indices[id] = Len(publications)
  /\ ~IsDuplicate(c, {id})
  /\ publications' = SwapRemove(publications, publication_indices[id])
  /\ publication_indices' = Remove(publication_indices, id)
  /\ result' = Answer("OpenFailed", NoPublication)
  /\ UNCHANGED <<next_publication_id, opened>>

ReplaceOpenFails(id, c) ==
  /\ id \in DOMAIN publication_indices
  /\ ~IsDuplicate(c, {id})
  /\ Refuse("OpenFailed")
  /\ UNCHANGED <<next_publication_id, opened>>

\* Mutant of ReplaceOk: the configuration is not compared with the others'.
ReplaceUnchecked(id, c) ==
  /\ id \in DOMAIN publication_indices
  /\ opened < MaxSockets
  /\ publications' = [publications EXCEPT
                        ![publication_indices[id]] = NewPublication(id, c)]
  /\ result' = Answer("ok", NewPublication(id, c))
  /\ opened' = opened + 1
  /\ UNCHANGED <<publication_indices, next_publication_id>>

ReplaceOk(id, c) ==
  /\ id \in DOMAIN publication_indices
  /\ ~IsDuplicate(c, {id})
  /\ opened < MaxSockets
  /\ publications' = [publications EXCEPT
                        ![publication_indices[id]] = NewPublication(id, c)]
  /\ result' = Answer("ok", NewPublication(id, c))
  /\ opened' = opened + 1
  /\ UNCHANGED <<publication_indices, next_publication_id>>

replace_publication(id, c) ==
  \/ Unknown(id)
  \/ ReplaceDuplicate(id, c)
  \/ ReplaceOpenFails(id, c)
  \/ ReplaceOk(id, c)

\* Mutant of Reindexed: the publication that moved keeps its old position.
ReindexForgotten(id, index, rest) == Remove(publication_indices, id)

\* What the map becomes when the publication at `index` has left and `rest`
\* is the vector after the swap: the one that filled the gap is re-registered.
Reindexed(id, index, rest) ==
  LET kept == Remove(publication_indices, id)
  IN  IF index <= Len(rest) THEN Insert(kept, rest[index].id, index) ELSE kept

\* remove_publication is this call with the answer dropped.
TakeOk(id) ==
  /\ id \in DOMAIN publication_indices
  /\ LET index == publication_indices[id]
         rest  == SwapRemove(publications, index)
     IN  /\ publications' = rest
         /\ publication_indices' = Reindexed(id, index, rest)
         /\ result' = Answer("ok", publications[index])
  /\ UNCHANGED <<next_publication_id, opened>>

take_publication(id) == Unknown(id) \/ TakeOk(id)

\* get_publication, then the send through what it found.
SendOk(id) ==
  /\ id \in DOMAIN publication_indices
  /\ result' = Answer("ok", publications[publication_indices[id]])
  /\ UNCHANGED <<publications, publication_indices, next_publication_id, opened>>

send_raw(id) == Unknown(id) \/ SendOk(id)

Next ==
  \/ \E c \in Configs : add_publication(c)
  \/ \E id \in 0 .. MaxId, c \in Configs : replace_publication(id, c)
  \/ \E id \in 0 .. MaxId : take_publication(id) \/ send_raw(id)

Spec == Init /\ [][Next]_vars

----------------------------------------------------------------------------
(* Properties *)

\* The map and the vector agree: every publication is found at its position
\* under its identifier, and the map holds nothing else.
IndexInv ==
  /\ \A i \in DOMAIN publications :
       /\ publications[i].id \in DOMAIN publication_indices
       /\ publication_indices[publications[i].id] = i
  /\ \A id \in DOMAIN publication_indices :
       /\ publication_indices[id] \in DOMAIN publications
       /\ publications[publication_indices[id]].id = id

\* Identifiers that were not handed out yet are not in use.
FreshInv == \A id \in DOMAIN publication_indices : id < next_publication_id

\* No two publications of a context have the same configuration.
ConfigsUnique ==
  \A i, j \in DOMAIN publications :
    publications[i].config = publications[j].config => i = j

live == [id \in DOMAIN publication_indices |-> publications[publication_indices[id]]]

Map == INSTANCE PublicationMap WITH
         Ids <- 0 .. MaxId, Sockets <- 0 .. MaxSockets,
         issued <- 0 .. next_publication_id - 1

\* The context implements the map of stable identifiers it documents.
ImplementsMap == Map!Spec
=============================================================================
