--------------------------- MODULE PublicationMap ---------------------------
(***************************************************************************)
(* What a raw context promises its caller (docs/raw-packets.md): a map     *)
(* from stable identifiers to publications, no two with the same           *)
(* configuration, in which a call that fails changes nothing.              *)
(***************************************************************************)
EXTENDS Integers

CONSTANTS
  Ids,            \* the identifiers there are
  Configs,        \* the configurations
  Sockets,        \* the sockets a publication may own
  NoPublication   \* stands for no publication in an answer

Publications == [id : Ids, config : Configs, socket : Sockets]

VARIABLES
  live,    \* the publications, by identifier
  issued,  \* the identifiers that were ever used up
  result   \* what the last call answered, and the publication it concerned

vars == <<live, issued, result>>

Answer(outcome, publication) == [outcome |-> outcome, publication |-> publication]

\* Is configuration c taken by a publication other than those in `excluded`?
Taken(c, excluded) == \E id \in DOMAIN live \ excluded : live[id].config = c

Init ==
  /\ live = [id \in {} |-> NoPublication]
  /\ issued \in SUBSET Ids
  /\ result = Answer("none", NoPublication)

\* A publication enters under an identifier nobody has held before.
Add(p) ==
  /\ p.id \notin issued
  /\ ~Taken(p.config, {})
  /\ live' = [id \in DOMAIN live \cup {p.id} |-> IF id = p.id THEN p ELSE live[id]]
  /\ issued' = issued \cup {p.id}
  /\ result' = Answer("ok", p)

\* Another publication takes the place of one, under the same identifier.
Replace(p) ==
  /\ p.id \in DOMAIN live
  /\ ~Taken(p.config, {p.id})
  /\ live' = [live EXCEPT ![p.id] = p]
  /\ result' = Answer("ok", p)
  /\ UNCHANGED issued

Take(id) ==
  /\ id \in DOMAIN live
  /\ live' = [i \in DOMAIN live \ {id} |-> live[i]]
  /\ result' = Answer("ok", live[id])
  /\ UNCHANGED issued

\* A send goes out through the publication of that identifier.
Send(id) ==
  /\ id \in DOMAIN live
  /\ result' = Answer("ok", live[id])
  /\ UNCHANGED <<live, issued>>

\* A call on an identifier that is not there is refused.
NotFound(id) ==
  /\ id \notin DOMAIN live
  /\ result' = Answer("PublicationNotFound", NoPublication)
  /\ UNCHANGED <<live, issued>>

\* A configuration that another publication has is refused.
Duplicate(c, excluded) ==
  /\ Taken(c, excluded)
  /\ result' = Answer("DuplicatePublication", NoPublication)
  /\ UNCHANGED <<live, issued>>

\* No socket could be opened: at most an identifier is used up.
OpenFails ==
  /\ result' = Answer("OpenFailed", NoPublication)
  /\ issued \subseteq issued'
  /\ UNCHANGED live

Next ==
  \/ \E p \in Publications : Add(p) \/ Replace(p)
  \/ \E id \in Ids : Take(id) \/ Send(id) \/ NotFound(id)
  \/ \E c \in Configs : Duplicate(c, {}) \/ \E id \in Ids : Duplicate(c, {id})
  \/ OpenFails

Spec == Init /\ [][Next]_vars
=============================================================================
