---------------------------- MODULE SocketCache ----------------------------
(***************************************************************************)
(* BoundedSocketCache (src/socket_cache.rs): sockets by key, the oldest    *)
(* inserted key evicted when a new one does not fit.  Callers hold the     *)
(* mutex around a whole call and keep a clone of the Arc, so an evicted    *)
(* socket stays open for the sends that still use it.                      *)
(***************************************************************************)
EXTENDS Naturals, Sequences, FiniteSets

CONSTANT CAPACITY
ASSUME CapacityAssumption == CAPACITY \in Nat \ {0}

\* BoundedSocketCache::default()
EmptyCache == [sockets |-> [k \in {} |-> k], insertion_order |-> <<>>]

Cached(cache) == DOMAIN cache.sockets

\* Mutant of Evicted: the map keeps the evicted socket.
EvictedFromOrder(cache) ==
  IF Cardinality(Cached(cache)) >= CAPACITY /\ cache.insertion_order # <<>>
  THEN [cache EXCEPT !.insertion_order = Tail(@)]
  ELSE cache

\* Room for one more.
Evicted(cache) ==
  IF Cardinality(Cached(cache)) = CAPACITY /\ cache.insertion_order # <<>>
  THEN [sockets |-> [k \in Cached(cache) \ {Head(cache.insertion_order)} |->
                       cache.sockets[k]],
        insertion_order |-> Tail(cache.insertion_order)]
  ELSE cache

Inserted(cache, key, socket) ==
  [sockets |-> [k \in Cached(cache) \cup {key} |->
                  IF k = key THEN socket ELSE cache.sockets[k]],
   insertion_order |-> Append(cache.insertion_order, key)]

\* What the cache is after get_or_try_insert_with created `socket` for a key
\* that was not there.  A hit and a failed create leave it alone.
get_or_try_insert_with(cache, key, socket) == Inserted(Evicted(cache), key, socket)

\* The map and the insertion order name the same keys, each once, and there are
\* at most CAPACITY of them.
CacheInv(cache) ==
  /\ Cached(cache) = {cache.insertion_order[i] : i \in DOMAIN cache.insertion_order}
  /\ \A i, j \in DOMAIN cache.insertion_order :
       cache.insertion_order[i] = cache.insertion_order[j] => i = j
  /\ Len(cache.insertion_order) <= CAPACITY
=============================================================================
