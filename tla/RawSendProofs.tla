--------------------------- MODULE RawSendProofs ---------------------------
(***************************************************************************)
(* A raw publication, for any capacity of its cache, any threads, moves of *)
(* addresses, configurations and datagrams: the cache is sound and evicts  *)
(* only for a socket that was created, the capability functions agree with *)
(* open, headers leave as they were supplied, and by the interface that    *)
(* was selected.                                                           *)
(***************************************************************************)
EXTENDS RawSend, FiniteSetTheorems, SequenceTheorems, TLAPS

----------------------------------------------------------------------------
(* BoundedSocketCache *)

\* A sequence that lists each element of a set once.
Lists(s, S) ==
  /\ s \in Seq(S)
  /\ \A k \in S : \E i \in 1 .. Len(s) : s[i] = k
  /\ \A i, j \in 1 .. Len(s) : s[i] = s[j] => i = j

\* The shape of a cache, and that its map and order agree.
GoodCache(c) ==
  /\ c = [sockets |-> c.sockets, insertion_order |-> c.insertion_order]
  /\ Lists(c.insertion_order, Cached(c))
  /\ Len(c.insertion_order) <= CAPACITY

\* Such a cache satisfies the invariant of SocketCache.
LEMMA GoodCacheInv ==
  ASSUME NEW c, GoodCache(c)
  PROVE  CacheInv(c)
<1> DEFINE s == c.insertion_order
<1>1. s \in Seq(Cached(c)) /\ Lists(s, Cached(c))
  BY DEF GoodCache, Lists
<1>2. DOMAIN s = 1 .. Len(s) /\ \A i \in 1 .. Len(s) : s[i] \in Cached(c)
  BY <1>1, LenProperties, ElementOfSeq
<1> HIDE DEF s
<1>3. Cached(c) = {s[i] : i \in DOMAIN s}
  BY <1>1, <1>2 DEF Lists
<1> QED
  BY <1>1, <1>2, <1>3 DEF GoodCache, CacheInv, Lists, s

\* Such a sequence is as long as the set is large.
LEMMA ListCounts ==
  ASSUME NEW S, NEW s, Lists(s, S)
  PROVE  Cardinality(S) = Len(s)
<1> DEFINE n == Len(s)
<1>1. n \in Nat /\ s \in [1 .. n -> S]
  BY LenProperties DEF Lists
<1>2. s \in Bijection(1 .. n, S)
  BY <1>1 DEF Lists, Bijection, Injection, Surjection, IsInjective
<1>3. ExistsBijection(1 .. n, S)
  BY <1>2 DEF ExistsBijection
<1>4. IsFiniteSet(1 .. n) /\ Cardinality(1 .. n) = n
  BY <1>1, FS_Interval
<1> QED
  BY <1>3, <1>4, FS_Bijection

\* Without its head it lists the set without that element.
LEMMA TailLists ==
  ASSUME NEW S, NEW s, Lists(s, S), s # <<>>
  PROVE  /\ Head(s) \in S
         /\ Lists(Tail(s), S \ {Head(s)})
         /\ Len(Tail(s)) = Len(s) - 1
<1> DEFINE n == Len(s)
<1>1. /\ s \in Seq(S) /\ n \in Nat /\ Head(s) = s[1] /\ Head(s) \in S
      /\ Tail(s) \in Seq(S) /\ Len(Tail(s)) = n - 1
      /\ \A i \in 1 .. n - 1 : Tail(s)[i] = s[i + 1]
      /\ n >= 1
  <2>1. s \in Seq(S)
    BY DEF Lists
  <2>2. n \in Nat /\ n # 0
    BY <2>1, LenProperties, EmptySeq
  <2> QED
    BY <2>1, <2>2, HeadTailProperties
<1>2. ASSUME NEW i \in 1 .. n - 1 PROVE Tail(s)[i] \in S \ {Head(s)}
  <2>1. i + 1 \in 1 .. n /\ 1 \in 1 .. n /\ i + 1 # 1
    BY <1>1
  <2>2. s[i + 1] # s[1]
    BY <2>1 DEF Lists
  <2>3. s[i + 1] \in S
    BY <1>1, <2>1, ElementOfSeq
  <2> QED
    BY <1>1, <2>2, <2>3
<1>3. Tail(s) \in Seq(S \ {Head(s)})
  <2>1. Tail(s) \in [1 .. n - 1 -> S]
    BY <1>1, LenProperties
  <2>2. Tail(s) \in [1 .. n - 1 -> S \ {Head(s)}]
    BY <1>2, <2>1
  <2>3. n - 1 \in Nat
    BY <1>1
  <2> QED
    BY <2>2, <2>3, SeqDef
<1>4. ASSUME NEW k \in S \ {Head(s)} PROVE \E i \in 1 .. n - 1 : Tail(s)[i] = k
  <2>1. PICK i \in 1 .. n : s[i] = k
    BY DEF Lists
  <2>2. i # 1 /\ i - 1 \in 1 .. n - 1 /\ (i - 1) + 1 = i
    BY <1>1, <2>1
  <2> QED
    BY <1>1, <2>1, <2>2
<1>5. ASSUME NEW i \in 1 .. n - 1, NEW j \in 1 .. n - 1, Tail(s)[i] = Tail(s)[j] PROVE i = j
  <2>1. i + 1 \in 1 .. n /\ j + 1 \in 1 .. n /\ s[i + 1] = s[j + 1]
    BY <1>1, <1>5
  <2>2. i + 1 = j + 1
    BY <2>1 DEF Lists
  <2> QED
    BY <1>1, <2>2
<1> QED
  BY <1>1, <1>3, <1>4, <1>5 DEF Lists

\* With a new element at its end it lists the set with that element.
LEMMA AppendLists ==
  ASSUME NEW S, NEW s, Lists(s, S), NEW e, e \notin S
  PROVE  /\ Lists(Append(s, e), S \cup {e})
         /\ Len(Append(s, e)) = Len(s) + 1
<1> DEFINE n == Len(s)
           T == S \cup {e}
           a == Append(s, e)
<1>1. s \in Seq(S) /\ s \in Seq(T) /\ n \in Nat /\ e \in T
  <2>1. s \in Seq(S)
    BY DEF Lists
  <2> QED
    BY <2>1, LenProperties, SeqMonotonic
<1>2. /\ a \in Seq(T) /\ Len(a) = n + 1
      /\ \A i \in 1 .. n : a[i] = s[i]
      /\ a[n + 1] = e
  BY <1>1, AppendProperties
<1>3. \A i \in 1 .. n : s[i] \in S
  BY <1>1, ElementOfSeq
<1> HIDE DEF a
<1>4. ASSUME NEW k \in T PROVE \E i \in 1 .. n + 1 : a[i] = k
  <2>1. CASE k = e
    BY <1>1, <1>2, <2>1
  <2>2. CASE k \in S
    <3>1. PICK i \in 1 .. n : s[i] = k
      BY <2>2 DEF Lists
    <3> QED
      BY <1>1, <1>2, <3>1
  <2> QED
    BY <2>1, <2>2
<1>5. ASSUME NEW i \in 1 .. n + 1, NEW j \in 1 .. n + 1, a[i] = a[j] PROVE i = j
  <2>1. CASE i \in 1 .. n /\ j \in 1 .. n
    BY <1>2, <1>5, <2>1 DEF Lists
  <2>2. CASE i = n + 1 \/ j = n + 1
    BY <1>1, <1>2, <1>3, <1>5, <2>2
  <2> QED
    BY <1>1, <2>1, <2>2
<1> QED
  BY <1>2, <1>4, <1>5 DEF Lists, a

\* Making room drops the oldest key, and only from a full cache.
LEMMA EvictedIsGood ==
  ASSUME NEW c, GoodCache(c)
  PROVE  /\ GoodCache(Evicted(c))
         /\ Cached(Evicted(c)) \subseteq Cached(c)
         /\ Cached(c) \ Cached(Evicted(c)) \subseteq {Head(c.insertion_order)}
         /\ \A k \in Cached(Evicted(c)) : Evicted(c).sockets[k] = c.sockets[k]
         /\ Len(Evicted(c).insertion_order) < CAPACITY
<1> DEFINE s == c.insertion_order
<1>1. Lists(s, Cached(c)) /\ Len(s) <= CAPACITY /\ Len(s) \in Nat
  BY LenProperties DEF GoodCache, Lists
<1>2. Cardinality(Cached(c)) = Len(s)
  BY <1>1, ListCounts
<1>3. CASE Len(s) = CAPACITY
  <2>1. s # <<>>
    BY <1>3, CapacityAssumption
  <2> DEFINE rest == Cached(c) \ {Head(s)}
             e == [sockets |-> [k \in rest |-> c.sockets[k]], insertion_order |-> Tail(s)]
  <2>2. Evicted(c) = e
    BY <1>2, <1>3, <2>1 DEF Evicted
  <2>3. Lists(Tail(s), rest) /\ Len(Tail(s)) = Len(s) - 1
    BY <1>1, <2>1, TailLists
  <2>4. Len(Tail(s)) < CAPACITY /\ Len(Tail(s)) <= CAPACITY
    BY <1>1, <1>3, <2>3
  <2> HIDE DEF rest
  <2>5. e.sockets = [k \in rest |-> c.sockets[k]] /\ e.insertion_order = Tail(s)
    OBVIOUS
  <2>6. Cached(e) = rest
    BY <2>5 DEF Cached
  <2>7. GoodCache(e)
    BY <2>3, <2>4, <2>6 DEF GoodCache
  <2>8. /\ rest \subseteq Cached(c)
        /\ Cached(c) \ rest \subseteq {Head(s)}
        /\ \A k \in rest : e.sockets[k] = c.sockets[k]
    BY DEF rest
  <2> HIDE DEF e
  <2> QED
    BY <2>2, <2>4, <2>5, <2>6, <2>7, <2>8
<1>4. CASE Len(s) # CAPACITY
  <2>1. Evicted(c) = c
    BY <1>2, <1>4 DEF Evicted
  <2> QED
    BY <1>1, <1>4, <2>1, CapacityAssumption
<1> QED
  BY <1>3, <1>4

\* A socket that was created is in the cache, at its end; the others are as
\* they were, but for the oldest of a full cache.
LEMMA InsertionIsGood ==
  ASSUME NEW c, GoodCache(c), NEW key, key \notin Cached(c), NEW socket,
         NEW after, after = get_or_try_insert_with(c, key, socket)
  PROVE  /\ GoodCache(after)
         /\ key \in Cached(after) /\ after.sockets[key] = socket
         /\ \A k \in Cached(after) \ {key} :
              k \in Cached(c) /\ after.sockets[k] = c.sockets[k]
         /\ Cached(c) \ Cached(after) \subseteq {Head(c.insertion_order)}
<1> DEFINE e == Evicted(c)
           s == e.insertion_order
           keys == Cached(e) \cup {key}
<1>1. /\ GoodCache(e) /\ Cached(e) \subseteq Cached(c)
      /\ Cached(c) \ Cached(e) \subseteq {Head(c.insertion_order)}
      /\ \A k \in Cached(e) : e.sockets[k] = c.sockets[k]
      /\ Len(s) < CAPACITY
  BY EvictedIsGood
<1>2. after = [sockets |-> [k \in keys |-> IF k = key THEN socket ELSE e.sockets[k]],
               insertion_order |-> Append(s, key)]
  BY DEF get_or_try_insert_with, Inserted
<1> HIDE DEF e
<1>3. Lists(s, Cached(e)) /\ Len(s) \in Nat
  BY <1>1, LenProperties DEF GoodCache, Lists
<1>4. key \notin Cached(e)
  BY <1>1
<1>5. Lists(Append(s, key), keys) /\ Len(Append(s, key)) <= CAPACITY
  BY <1>1, <1>3, <1>4, AppendLists, CapacityAssumption
<1> HIDE DEF keys, s
<1>6. /\ after.sockets = [k \in keys |-> IF k = key THEN socket ELSE e.sockets[k]]
      /\ after.insertion_order = Append(s, key)
  BY <1>2
<1>7. Cached(after) = keys
  BY <1>6 DEF Cached
<1>8. GoodCache(after)
  BY <1>2, <1>5, <1>6, <1>7 DEF GoodCache
<1> QED
  BY <1>1, <1>4, <1>6, <1>7, <1>8 DEF keys

----------------------------------------------------------------------------
(* Opening: which backend goes with which family *)

\* A set of numbers that is not empty has a least element.
LEMMA LeastNatural ==
  ASSUME NEW T \in SUBSET Nat, T # {}
  PROVE  \E n \in T : \A m \in T : n <= m
<1> DEFINE R == OpToRel(<, Nat)
<1>1. IsWellFoundedOn(R, Nat)
  BY NatLessThanWellFounded
<1> HIDE DEF R
<1>2. PICK n \in T : \A m \in T : ~(<<m, n>> \in R)
  BY <1>1, WFMin
<1>3. ASSUME NEW m \in T PROVE n <= m
  <2>1. m \in Nat /\ n \in Nat
    OBVIOUS
  <2>2. ~(<<m, n>> \in {ss \in Nat \X Nat : ss[1] < ss[2]})
    BY <1>2 DEF R, OpToRel
  <2> QED
    BY <2>1, <2>2
<1> QED
  BY <1>3

\* FirstError is the error of a check that strikes, if one does.
LEMMA FirstErrorStrikes ==
  ASSUME NEW n \in Nat, NEW checks, DOMAIN checks = 1 .. n
  PROVE  \/ FirstError(checks) = "ok" /\ \A i \in 1 .. n : ~checks[i][1]
         \/ \E i \in 1 .. n : checks[i][1] /\ FirstError(checks) = checks[i][2]
<1> DEFINE struck == {i \in DOMAIN checks : checks[i][1]}
           first == CHOOSE i \in struck : \A j \in struck : i <= j
<1>1. struck \in SUBSET Nat
  OBVIOUS
<1>2. FirstError(checks) = IF struck = {} THEN "ok" ELSE checks[first][2]
  BY DEF FirstError
<1>3. CASE struck = {}
  BY <1>2, <1>3
<1>4. CASE struck # {}
  <2>1. \E i \in struck : \A j \in struck : i <= j
    BY <1>1, <1>4, LeastNatural
  <2>2. first \in struck
    BY <2>1
  <2> QED
    BY <1>2, <1>4, <2>2
<1> QED
  BY <1>3, <1>4

\* FirstError finds nothing only if no check strikes.
LEMMA NoFirstError ==
  ASSUME NEW n \in Nat, NEW checks, DOMAIN checks = 1 .. n,
         \A i \in 1 .. n : checks[i][1] => checks[i][2] # "ok",
         FirstError(checks) = "ok"
  PROVE  \A i \in 1 .. n : ~checks[i][1]
BY FirstErrorStrikes

\* What an opened publication looks like.
GoodPublication(p) ==
  \/ /\ api = "raw"
     /\ \/ p.backend \in {"raw4", "raw4_cached"} /\ p.family = 4
        \/ p.backend \in {"packet6", "bpf6", "route6"} /\ p.family = 6
  \/ /\ api = "raw_ip" /\ p.backend \in {"ip4", "ip4_cached", "ip6"}
     /\ platform = "windows" => p.backend # "ip6"

\* The open functions make no other.
LEMMA OpenIsGood ==
  ASSUME api \in {"raw", "raw_ip"}, open.error = "ok"
  PROVE  GoodPublication(open)
<1>1. CASE api = "raw"
  <2>1. open = Raw!open_raw_transmit_socket(platform, config, answers)
    BY <1>1 DEF open
  <2>2. ASSUME NEW e, Refused(e) = open PROVE e = "ok"
    BY <2>2 DEF Refused
  <2>3. \/ open = Raw!OpenRouteSelected(platform, config)
        \/ open = Raw!OpenExplicit(platform, config, answers)
    BY <2>1, <2>2 DEF Raw!open_raw_transmit_socket, Refused, Raw!Refused
  <2>4. \/ \E s : \/ \E b \in {"raw4", "raw4_cached"} : open = Opened(b, 4, s)
                  \/ \E b \in {"packet6", "bpf6", "route6"} : open = Opened(b, 6, s)
    <3>1. CASE open = Raw!OpenRouteSelected(platform, config)
      <4>1. ASSUME NEW e PROVE open # Raw!Refused(e) \/ e = "ok"
        BY DEF Raw!Refused
      <4>2. CASE platform \in {"linux", "macos"} /\ config.family = 4
        <5>1. PICK b \in {"raw4", "raw4_cached"} : open = Raw!Opened(b, 4, Raw!NoSelection)
          BY <3>1, <4>2 DEF Raw!OpenRouteSelected
        <5> QED
          BY <5>1 DEF Raw!Opened, Opened
      <4>3. CASE ~(platform \in {"linux", "macos"} /\ config.family = 4)
        <5>1. open = Raw!Opened("route6", 6, Raw!NoSelection)
          BY <3>1, <4>1, <4>3 DEF Raw!OpenRouteSelected
        <5> QED
          BY <5>1 DEF Raw!Opened, Opened
      <4> QED
        BY <4>2, <4>3
    <3>2. ASSUME NEW b, NEW c, NEW w, open = Raw!OpenIpv4(b, c, w)
          PROVE  \E s : open = Opened(b, 4, s)
      BY <2>2, <3>2 DEF Raw!OpenIpv4, Raw!Opened, Raw!Refused, Opened, Refused
    <3>3. ASSUME NEW b, NEW c, NEW w, open = Raw!OpenIpv6(b, c, w)
          PROVE  \E s : open = Opened(b, 6, s)
      BY <2>2, <3>3 DEF Raw!OpenIpv6, Raw!Opened, Raw!Refused, Opened, Refused
    <3>4. CASE open = Raw!OpenExplicit(platform, config, answers)
      <4>1. ASSUME NEW e PROVE open # Raw!Refused(e) \/ e = "ok"
        BY DEF Raw!Refused
      <4>2. \/ \E b \in {"raw4", "raw4_cached"} : open = Raw!OpenIpv4(b, config, answers)
            \/ \E b \in {"packet6", "bpf6"} : open = Raw!OpenIpv6(b, config, answers)
        BY <3>4, <4>1 DEF Raw!OpenExplicit
      <4> QED
        BY <3>2, <3>3, <4>2
    <3> QED
      BY <2>3, <3>1, <3>4
  <2> QED
    BY <1>1, <2>4 DEF GoodPublication, Opened
<1>2. CASE api = "raw_ip"
  <2>1. open = RawIp!open_raw_ip_socket(platform, config, answers)
    BY <1>2 DEF open
  <2> DEFINE family == RawIp!resolved_family(config)
             selection == RawIp!resolve_selection(config, answers)
             unix == platform # "windows" /\ ~RawIp!require_unix_ipv6_bind_addr(family, config)
             windows == platform = "windows" /\ family = 6
             unknown == selection.error # "ok"
             error == FirstError(<< <<unknown, selection.error>>,
                                    <<unix, "RawPacketTransmitUnsupported">>,
                                    <<windows, "RawPacketTransmitUnsupported">> >>)
  <2>2. ASSUME NEW e PROVE open # RawIp!Refused(e) \/ e = "ok"
    BY DEF RawIp!Refused
  <2>3. error = "ok" /\ open = RawIp!Opened(RawIp!Backend(platform, family), family, selection.value)
    BY <2>1, <2>2 DEF RawIp!open_raw_ip_socket, RawIp!FirstError, FirstError
  <2>4. /\ unknown \in BOOLEAN /\ unix \in BOOLEAN /\ windows \in BOOLEAN
        /\ unknown => selection.error # "ok"
    OBVIOUS
  <2> HIDE DEF unknown, unix, windows, selection
  <2>5. ~windows
    <3> DEFINE checks == << <<unknown, selection.error>>,
                            <<unix, "RawPacketTransmitUnsupported">>,
                            <<windows, "RawPacketTransmitUnsupported">> >>
    <3>1. DOMAIN checks = 1 .. 3 /\ checks[3][1] = windows
      OBVIOUS
    <3>2. \A i \in 1 .. 3 : checks[i][1] => checks[i][2] # "ok"
      BY <2>4
    <3>3. FirstError(checks) = "ok"
      BY <2>3
    <3> HIDE DEF checks
    <3>4. 3 \in Nat /\ \A i \in 1 .. 3 : ~checks[i][1]
      BY <3>1, <3>2, <3>3, NoFirstError
    <3> QED
      BY <2>4, <3>1, <3>4
  <2> USE DEF windows
  <2> QED
    BY <1>2, <2>3, <2>5 DEF GoodPublication, RawIp!Opened, RawIp!Backend
<1> QED
  BY <1>1, <1>2

----------------------------------------------------------------------------
(* Sending: keys and the sockets made for them *)

\* Options that only IPv6 sockets of the raw-IP API have are absent from the
\* other keys, and a link-layer socket has no protocol.
FitsPublication(k) ==
  /\ k # None
  /\ (api = "raw" \/ platform = "windows") => k.hop_limit = None /\ k.traffic_class = None
  /\ (api = "raw" /\ publication.family # 4) => k.protocol = None

\* CacheSound's demand on one socket.
FitsKey(s, k) ==
  /\ s.protocol = k.protocol
  /\ s.hops = k.hop_limit /\ s.traffic_class = k.traffic_class
  /\ api = "raw" /\ s.kind = "raw4" => s.loopback = config.loopback
  /\ s.kind \in {"raw4", "raw6"} => s.bind = publication.selection.bind

\* The sends ask for no other keys.
LEMMA PlannedKeyFits ==
  ASSUME NEW d, GoodPublication(publication), publication.backend # "route6",
         PlanFor(d).error = "ok", PlanFor(d).key # None
  PROVE  FitsPublication(PlanFor(d).key)
<1> DEFINE prepared == PlanFor(d)
<1>1. CASE api = "raw"
  <2>1. prepared = Raw!send_raw_ip_datagram(platform, publication, config, d)
    BY <1>1 DEF PlanFor
  <2>2. ASSUME NEW e PROVE prepared # Raw!Rejected(e)
    BY DEF Raw!Rejected
  <2>3. \/ publication.backend = "raw4" /\ prepared = Raw!send_linux_raw_ipv4_datagram(config, d)
        \/ /\ publication.backend = "packet6"
           /\ prepared = Raw!send_full_header_ipv6(Raw!PacketKey, config, d)
        \/ publication.backend = "bpf6" /\ prepared = Raw!send_full_header_ipv6(None, config, d)
        \/ /\ publication.backend = "raw4_cached"
           /\ prepared = Raw!send_cached_raw_ipv4(platform, config, d)
    BY <1>1, <2>1, <2>2 DEF Raw!send_raw_ip_datagram, GoodPublication
  <2>4. CASE prepared = Raw!send_linux_raw_ipv4_datagram(config, d)
    BY <2>2, <2>4 DEF Raw!send_linux_raw_ipv4_datagram, Raw!Planned
  <2>5. ASSUME NEW k, prepared = Raw!send_full_header_ipv6(k, config, d) PROVE prepared.key = k
    BY <2>2, <2>5 DEF Raw!send_full_header_ipv6, Raw!Planned
  <2>6. CASE prepared = Raw!send_full_header_ipv6(Raw!PacketKey, config, d)
    BY <1>1, <2>5, <2>6 DEF Raw!PacketKey, Raw!Key, FitsPublication
  <2>7. CASE prepared = Raw!send_full_header_ipv6(None, config, d)
    BY <2>5, <2>7
  <2>8. CASE publication.backend = "raw4_cached" /\ prepared = Raw!send_cached_raw_ipv4(platform, config, d)
    <3>1. prepared.key = Raw!Key(d.protocol, None, None)
      BY <2>2, <2>8 DEF Raw!send_cached_raw_ipv4, Raw!Planned
    <3>2. publication.family = 4
      BY <1>1, <2>8 DEF GoodPublication
    <3> QED
      BY <3>1, <3>2 DEF Raw!Key, FitsPublication
  <2> QED
    BY <2>3, <2>4, <2>6, <2>7, <2>8
<1>2. CASE api = "raw_ip"
  <2>1. prepared = RawIp!send_ip_datagram(platform, publication, d)
    BY <1>2 DEF PlanFor
  <2>2. ASSUME NEW e PROVE prepared # RawIp!Rejected(e)
    BY DEF RawIp!Rejected
  <2>3. \/ /\ publication.backend = "ip6"
           /\ prepared = RawIp!send_unix_raw_ipv6_datagram(publication, d)
        \/ prepared = RawIp!Planned(None, d, 0)
        \/ \E packet : prepared = RawIp!Planned(RawIp!Key(d.protocol, None, None), packet, 0)
    BY <1>2, <2>1, <2>2 DEF RawIp!send_ip_datagram, GoodPublication
  <2>4. CASE publication.backend = "ip6"
    BY <1>2, <2>4 DEF GoodPublication, FitsPublication
  <2>5. CASE prepared = RawIp!Planned(None, d, 0)
    BY <2>5 DEF RawIp!Planned
  <2>6. CASE \E packet : prepared = RawIp!Planned(RawIp!Key(d.protocol, None, None), packet, 0)
    BY <1>2, <2>6 DEF RawIp!Planned, RawIp!Key, FitsPublication
  <2> QED
    BY <2>3, <2>4, <2>5, <2>6
<1> QED
  BY <1>1, <1>2 DEF GoodPublication

\* A socket opened for such a key is set up for it.
LEMMA NewSocketFits ==
  ASSUME NEW k, GoodPublication(publication), FitsPublication(k), NewSocket(k) # None
  PROVE  FitsKey(NewSocket(k), k)
<1> DEFINE s == NewSocket(k)
           selection == publication.selection
<1>1. CASE api = "raw"
  <2>1. s = Raw!NewSocket(platform, publication, config, k, where)
    BY <1>1 DEF NewSocket
  <2>2. CASE publication.family = 4
    <3>1. s = Raw!open_raw_ipv4_socket_with_protocol(selection, config.loopback,
                                                    Raw!ProtocolOf(k), where)
      BY <2>1, <2>2 DEF Raw!NewSocket
    <3> QED
      BY <1>1, <3>1 DEF Raw!open_raw_ipv4_socket_with_protocol, Raw!BareSocket,
                        Raw!ProtocolOf, FitsPublication, FitsKey
  <2>3. CASE publication.family # 4
    <3>1. PICK kind \in {"packet", "bpf"} : s = Raw!OpenLinkSocket(kind, selection.index)
      BY <2>1, <2>3 DEF Raw!NewSocket
    <3> QED
      BY <1>1, <2>3, <3>1 DEF Raw!OpenLinkSocket, Raw!BareSocket, FitsPublication, FitsKey
  <2> QED
    BY <2>2, <2>3
<1>2. CASE api = "raw_ip"
  <2>1. s = RawIp!NewSocket(platform, publication, config, k, where)
    BY <1>2 DEF NewSocket
  <2>2. CASE platform = "windows"
    <3>1. s = RawIp!open_windows_raw_ipv4_socket(selection, RawIp!ProtocolOf(k))
      BY <2>1, <2>2 DEF RawIp!NewSocket
    <3> QED
      BY <1>2, <2>2, <3>1 DEF RawIp!open_windows_raw_ipv4_socket, RawIp!BareSocket,
                              RawIp!ProtocolOf, FitsPublication, FitsKey
  <2>3. CASE platform # "windows"
    <3>1. s = [RawIp!open_unix_raw_socket(publication.family, selection, RawIp!ProtocolOf(k)) EXCEPT
                 !.hops = k.hop_limit, !.traffic_class = k.traffic_class]
      BY <2>1, <2>3 DEF RawIp!NewSocket, FitsPublication
    <3> QED
      BY <1>2, <3>1 DEF RawIp!open_unix_raw_socket, RawIp!BareSocket,
                        RawIp!ProtocolOf, FitsPublication, FitsKey
  <2> QED
    BY <2>2, <2>3
<1> QED
  BY <1>1, <1>2 DEF GoodPublication

----------------------------------------------------------------------------
(* The inductive invariant *)

\* Nothing is sent or cached before the publication is ready, and from then on
\* what it was opened with stays.
PublicationInv ==
  /\ api \in {"raw", "raw_ip"}
  /\ stage # "ready" => Cached(cache) = {} /\ \A t \in Threads : pc[t] = "idle"
  /\ stage \in {"resolved", "ready"} => GoodPublication(publication)

\* The key a thread is about to look up belongs to its publication.
ThreadInv ==
  /\ DOMAIN pc = Threads /\ DOMAIN plan = Threads
  /\ \A t \in Threads : pc[t] = "socket" => FitsPublication(plan[t].key)

\* The cached sockets fit their keys.
SocketsInv == \A k \in Cached(cache) : FitsKey(cache.sockets[k], k)

\* All of it.
Inv == GoodCache(cache) /\ PublicationInv /\ ThreadInv /\ SocketsInv

\* The invariant holds when nothing is opened yet.
LEMMA InitInv == Init => Inv
<1> SUFFICES ASSUME Init PROVE Inv
  OBVIOUS
<1>1. cache = EmptyCache /\ cache.insertion_order = <<>> /\ Cached(cache) = {}
  BY DEF Init, EmptyCache, Cached
<1>2. GoodCache(cache)
  <2>1. cache = [sockets |-> cache.sockets, insertion_order |-> cache.insertion_order]
    BY <1>1 DEF EmptyCache
  <2>2. Lists(<<>>, {}) /\ Len(<<>>) <= CAPACITY
    BY CapacityAssumption, EmptySeq DEF Lists
  <2> QED
    BY <1>1, <2>1, <2>2 DEF GoodCache
<1> QED
  BY <1>1, <1>2 DEF Inv, Init, PublicationInv, ThreadInv, SocketsInv

\* Once sends are under way the configuration and the publication are fixed.
fixed == <<api, platform, config, stage, publication>>

\* What fits stays fitting while these stay as they are.
LEMMA FixedKeepsFits ==
  ASSUME UNCHANGED fixed
  PROVE  /\ GoodPublication(publication) => GoodPublication(publication)'
         /\ \A k : FitsPublication(k) => FitsPublication(k)'
         /\ \A s, k : FitsKey(s, k) => FitsKey(s, k)'
BY DEF fixed, GoodPublication, FitsPublication, FitsKey

\* A step that leaves the cache alone and gives no thread a bad key.
LEMMA QuietKeepsInv ==
  ASSUME Inv, UNCHANGED fixed, UNCHANGED cache, ThreadInv',
         stage # "ready" => UNCHANGED pc
  PROVE  Inv'
<1>1. GoodCache(cache)' /\ Cached(cache)' = Cached(cache)
  BY DEF Inv, GoodCache, Cached
<1>2. PublicationInv'
  BY <1>1, FixedKeepsFits DEF Inv, PublicationInv, fixed
<1>3. SocketsInv'
  BY <1>1, FixedKeepsFits DEF Inv, SocketsInv
<1> QED
  BY <1>1, <1>2, <1>3 DEF Inv

\* Opening the publication.
LEMMA OpeningKeepsInv ==
  ASSUME Inv, Resolve \/ OpenSockets \/ OpenFails
  PROVE  Inv'
<1>1. /\ UNCHANGED <<api, platform, config, cache, pc, plan>>
      /\ stage \in {"configured", "resolved"}
  BY DEF Resolve, OpenSockets, OpenFails, sending
<1>2. Cached(cache) = {} /\ \A t \in Threads : pc[t] = "idle"
  BY <1>1 DEF Inv, PublicationInv
<1>3. GoodCache(cache)' /\ Cached(cache)' = {}
  BY <1>1, <1>2 DEF Inv, GoodCache, Cached
<1>4. ThreadInv' /\ SocketsInv'
  BY <1>1, <1>2, <1>3 DEF Inv, ThreadInv, SocketsInv
<1>5. stage' \in {"resolved", "ready"} => GoodPublication(publication)'
  <2>1. CASE Resolve
    <3>1. ASSUME open.error = "ok" PROVE GoodPublication(open)
      BY <3>1, OpenIsGood DEF Inv, PublicationInv
    <3> QED
      BY <1>1, <2>1, <3>1 DEF Resolve, GoodPublication
  <2>2. CASE OpenSockets \/ OpenFails
    BY <1>1, <2>2 DEF OpenSockets, OpenFails, GoodPublication, Inv, PublicationInv
  <2> QED
    BY <2>1, <2>2
<1> QED
  BY <1>1, <1>2, <1>3, <1>4, <1>5 DEF Inv, PublicationInv

\* A send begins with a key of its publication.
LEMMA BeginKeepsInv ==
  ASSUME Inv, NEW t \in Threads, NEW d \in Datagrams, Begin(t, d)
  PROVE  Inv'
<1>1. UNCHANGED fixed /\ UNCHANGED cache /\ stage = "ready"
  BY DEF Begin, fixed, opening
<1>2. ThreadInv'
  <2>1. PlanFor(d).key # None => FitsPublication(PlanFor(d).key)
    BY <1>1, PlannedKeyFits DEF Begin, Inv, PublicationInv
  <2>2. DOMAIN pc' = Threads /\ DOMAIN plan' = Threads
    BY DEF Begin, Inv, ThreadInv
  <2>3. ASSUME NEW u \in Threads, pc'[u] = "socket" PROVE FitsPublication(plan'[u].key)
    BY <2>1, <2>3 DEF Begin, Inv, ThreadInv
  <2>4. ASSUME NEW u \in Threads, pc'[u] = "socket" PROVE FitsPublication(plan[u].key)'
    BY <1>1, <2>3, <2>4 DEF fixed, FitsPublication
  <2> QED
    BY <2>2, <2>4 DEF ThreadInv
<1> QED
  BY <1>1, <1>2, QuietKeepsInv

\* A miss adds one fitting socket; the others are as they were.
LEMMA MissKeepsInv ==
  ASSUME Inv, NEW t \in Threads, CacheMiss(t)
  PROVE  Inv'
<1> DEFINE key == plan[t].key
           socket == NewSocket(key)
<1>1. /\ UNCHANGED fixed /\ UNCHANGED plan
      /\ pc[t] = "socket" /\ key \notin Cached(cache) /\ socket # None
      /\ cache' = get_or_try_insert_with(cache, key, socket)
      /\ pc' = [pc EXCEPT ![t] = "send"]
  BY DEF CacheMiss, fixed, opening
<1>2. stage = "ready" /\ GoodPublication(publication) /\ FitsPublication(key)
  BY <1>1 DEF Inv, PublicationInv, ThreadInv
<1>3. FitsKey(socket, key)
  BY <1>1, <1>2, NewSocketFits
<1> HIDE DEF key, socket
<1>4. /\ GoodCache(cache') /\ cache'.sockets[key] = socket
      /\ \A k \in Cached(cache') \ {key} :
           k \in Cached(cache) /\ cache'.sockets[k] = cache.sockets[k]
  BY <1>1, InsertionIsGood DEF Inv
<1>5. GoodCache(cache)'
  BY <1>4 DEF GoodCache, Cached
<1>6. \A k \in Cached(cache') : FitsKey(cache'.sockets[k], k)
  BY <1>3, <1>4 DEF Inv, SocketsInv
<1>7. SocketsInv'
  BY <1>1, <1>6 DEF SocketsInv, FitsKey, fixed, Cached
<1>8. PublicationInv'
  BY <1>1, <1>2, FixedKeepsFits DEF Inv, PublicationInv, fixed
<1>9. ThreadInv'
  BY <1>1, FixedKeepsFits DEF Inv, ThreadInv
<1> QED
  BY <1>5, <1>7, <1>8, <1>9 DEF Inv

\* A thread finishes: it has no key any more.
LEMMA FinishKeepsInv ==
  ASSUME Inv, NEW t \in Threads, NEW outcome, pc[t] # "idle",
         Finish(t, outcome), UNCHANGED cache
  PROVE  Inv'
<1>1. UNCHANGED fixed /\ stage = "ready"
  BY DEF Finish, fixed, opening, Inv, PublicationInv
<1>2. ThreadInv'
  BY <1>1, FixedKeepsFits DEF Finish, Inv, ThreadInv
<1> QED
  BY <1>1, <1>2, QuietKeepsInv

\* No step breaks the invariant.
LEMMA NextKeepsInv == Inv /\ [Next]_vars => Inv'
<1> SUFFICES ASSUME Inv, [Next]_vars PROVE Inv'
  OBVIOUS
<1>1. ASSUME NEW ip \in OwnAddresses, NEW i \in Interfaces \cup {0}, Move(ip, i) PROVE Inv'
  <2>1. UNCHANGED <<api, platform, config, stage, publication, cache, pc, plan>>
    BY <1>1 DEF Move, opening, sending
  <2>2. ThreadInv'
    BY <2>1, FixedKeepsFits DEF Inv, ThreadInv, fixed
  <2> QED
    BY <2>1, <2>2, QuietKeepsInv DEF fixed
<1>11. ASSUME NEW s \in Selectors, LookUp(s) PROVE Inv'
  <2>1. UNCHANGED <<api, platform, config, stage, publication, cache, pc, plan>>
    BY <1>11 DEF LookUp, sending
  <2>2. ThreadInv'
    BY <2>1, FixedKeepsFits DEF Inv, ThreadInv, fixed
  <2> QED
    BY <2>1, <2>2, QuietKeepsInv DEF fixed
<1>2. CASE Resolve \/ OpenSockets \/ OpenFails
  BY <1>2, OpeningKeepsInv
<1>3. ASSUME NEW t \in Threads, NEW d \in Datagrams, Begin(t, d) PROVE Inv'
  BY <1>3, BeginKeepsInv
<1>4. ASSUME NEW t \in Threads, NEW d \in Datagrams, Reject(t, d) PROVE Inv'
  <2>1. UNCHANGED <<api, platform, config, stage, publication, cache, pc, plan>>
    BY <1>4 DEF Reject, opening, sending
  <2>2. ThreadInv'
    BY <2>1, FixedKeepsFits DEF Inv, ThreadInv, fixed
  <2> QED
    BY <2>1, <2>2, QuietKeepsInv DEF fixed
<1>5. ASSUME NEW t \in Threads, CacheHit(t) PROVE Inv'
  <2>1. /\ UNCHANGED fixed /\ UNCHANGED <<cache, plan>>
        /\ pc[t] = "socket" /\ pc' = [pc EXCEPT ![t] = "send"]
    BY <1>5 DEF CacheHit, fixed, opening
  <2>2. ThreadInv'
    BY <2>1, FixedKeepsFits DEF Inv, ThreadInv
  <2>3. stage = "ready"
    BY <2>1 DEF Inv, PublicationInv
  <2> QED
    BY <2>1, <2>2, <2>3, QuietKeepsInv
<1>6. ASSUME NEW t \in Threads, CacheMiss(t) PROVE Inv'
  BY <1>6, MissKeepsInv
<1>7. ASSUME NEW t \in Threads, CreateFails(t) PROVE Inv'
  BY <1>7, FinishKeepsInv DEF CreateFails
<1>8. ASSUME NEW t \in Threads, NEW i \in Interfaces, Transmit(t, i) PROVE Inv'
  <2>1. PICK outcome : pc[t] # "idle" /\ Finish(t, outcome) /\ UNCHANGED cache
    BY <1>8 DEF Transmit
  <2> QED
    BY <2>1, FinishKeepsInv
<1>9. ASSUME NEW t \in Threads, TransmitFails(t) PROVE Inv'
  BY <1>9, FinishKeepsInv DEF TransmitFails
<1>10. CASE UNCHANGED vars
  <2>1. UNCHANGED <<api, platform, config, stage, publication, cache, pc, plan>>
    BY <1>10 DEF vars, opening, sending
  <2>2. ThreadInv'
    BY <2>1, FixedKeepsFits DEF Inv, ThreadInv, fixed
  <2> QED
    BY <2>1, <2>2, QuietKeepsInv DEF fixed
<1> QED
  BY <1>1, <1>2, <1>3, <1>4, <1>5, <1>6, <1>7, <1>8, <1>9, <1>10, <1>11 DEF Next, SendStep

----------------------------------------------------------------------------
(* The theorems *)

\* The invariant holds in every reachable state.
THEOREM Inductive == Spec => []Inv
BY InitInv, NextKeepsInv, PTL DEF Spec

\* However threads hit, miss, evict and fail, the map and the order of the
\* cache agree within its capacity and no socket serves a key it was not set up
\* for, on every platform and for both APIs.
THEOREM CachedSocketsFit == Spec => []CacheSound
<1>1. Inv => CacheSound
  <2> SUFFICES ASSUME Inv PROVE CacheSound
    OBVIOUS
  <2>1. CacheInv(cache)
    BY GoodCacheInv DEF Inv
  <2> QED
    BY <2>1 DEF Inv, SocketsInv, FitsKey, CacheSound
<1> QED
  BY <1>1, Inductive, PTL

\* Only the oldest key is ever evicted, and only by a step that inserts a new
\* socket: a failed create never costs a cached one.
THEOREM EvictionsMakeRoom == Spec => EvictsForNew
<1> DEFINE lost == Cached(cache) \ Cached(cache')
           Makes == lost # {} => /\ Cached(cache') \ Cached(cache) # {}
                                 /\ lost = {Head(cache.insertion_order)}
<1>1. Inv /\ [Next]_vars => [Makes]_vars
  <2> SUFFICES ASSUME Inv, Next PROVE Makes
    OBVIOUS
  <2>1. ASSUME NEW t \in Threads, CacheMiss(t) PROVE Makes
    <3> DEFINE key == plan[t].key
               socket == NewSocket(key)
    <3>1. key \notin Cached(cache) /\ cache' = get_or_try_insert_with(cache, key, socket)
      BY <2>1 DEF CacheMiss
    <3> HIDE DEF key, socket
    <3>2. key \in Cached(cache') /\ lost \subseteq {Head(cache.insertion_order)}
      BY <3>1, InsertionIsGood DEF Inv
    <3> QED
      BY <3>1, <3>2
  <2>2. ASSUME cache' = cache PROVE Makes
    BY <2>2
  <2>3. (\E t \in Threads : CacheMiss(t)) \/ cache' = cache
    BY DEF Next, SendStep, Move, LookUp, Resolve, OpenSockets, OpenFails, Begin, Reject, CacheHit,
           CreateFails, Transmit, TransmitFails
  <2> QED
    BY <2>1, <2>2, <2>3
<1> QED
  BY <1>1, Inductive, PTL DEF Spec, EvictsForNew

----------------------------------------------------------------------------
(* Capabilities *)

\* The caller chose an interface, a platform and a configuration of it.
Chosen ==
  /\ api \in {"raw", "raw_ip"} /\ platform \in Platforms
  /\ config \in IF api = "raw" THEN RawConfigs ELSE RawIpConfigs

\* The family its configuration asks for.
ConfiguredFamily ==
  IF api = "raw" THEN Raw!configured_socket_family(config) ELSE RawIp!resolved_family(config)

\* The platform can do what is asked.
Supported ==
  IF api = "raw" THEN Raw!egress_supported(platform, ConfiguredFamily, config.route_selected)
  ELSE RawIp!egress_supported(platform, ConfiguredFamily)

\* The configuration passes validation.
Valid == (IF api = "raw" THEN Raw!validate(config) ELSE RawIp!validate(config)) = "ok"

\* What open says of a configuration is what the capability functions say.
Agrees(p) ==
  /\ p.error = "ok" => Supported
  /\ (p.error = "RawPacketTransmitUnsupported" /\ Valid /\ Supported) =>
       /\ ConfiguredFamily = 6
       /\ IF api = "raw" THEN config.loopback = TRUE ELSE config.bind_addr = None

\* A valid configuration of the raw multicast API with explicit egress is of a
\* family, and all its selectors are.
LEMMA ValidExplicit ==
  ASSUME Chosen, api = "raw", Raw!validate_explicit_egress(config) = "ok"
  PROVE  LET family == Raw!configured_socket_family(config)
             interface == config.outgoing_interface
         IN  /\ config.bind_addr # None \/ interface # None
             /\ family \in Families
             /\ config.bind_addr # None => config.bind_addr.family = family
             /\ interface # None => Raw!outgoing_interface_family(interface) = family
<1> DEFINE bind == config.bind_addr
           interface == config.outgoing_interface
           hasBind == bind # None
           hasAddr == interface # None /\ ~Raw!IsIndex(interface)
           of == Raw!outgoing_interface_family(interface)
           c1 == ~hasBind /\ interface = None
           c2 == hasBind /\ Raw!Unusable(bind)
           c3 == hasBind /\ config.family \notin {None, bind.family}
           c4 == hasAddr /\ Raw!Unusable(interface)
           c5 == interface # None /\ interface = [index |-> 0]
           c6 == interface # None /\ config.family \notin {None, of}
           c7 == interface # None /\ hasBind /\ of # bind.family
           checks == << <<c1, "RawInterfaceRequired">>,
                        <<c2, "InvalidRawBindAddress">>,
                        <<c3, "RawBindAddressFamilyMismatch">>,
                        <<c4, "InvalidInterfaceAddress">>,
                        <<c5, "InvalidIpv6InterfaceIndex">>,
                        <<c6, "OutgoingInterfaceFamilyMismatch">>,
                        <<c7, "OutgoingInterfaceFamilyMismatch">> >>
<1>1. FirstError(checks) = "ok"
  BY DEF Raw!validate_explicit_egress, Raw!FirstError, FirstError
<1> HIDE DEF c1, c2, c3, c4, c5, c6, c7
<1>2. DOMAIN checks = 1 .. 7 /\ 7 \in Nat
  OBVIOUS
<1>3. /\ checks[1][1] = c1 /\ checks[3][1] = c3 /\ checks[6][1] = c6 /\ checks[7][1] = c7
      /\ \A i \in 1 .. 7 : checks[i][2] # "ok"
  OBVIOUS
<1> HIDE DEF checks
<1>4. \A i \in 1 .. 7 : ~checks[i][1]
  BY <1>1, <1>2, <1>3, NoFirstError
<1>5. ~c1 /\ ~c3 /\ ~c6 /\ ~c7
  BY <1>3, <1>4
<1>6. /\ config.family \in Families \cup {None}
      /\ bind # None => bind.family \in Families
      /\ interface # None => of \in Families
  BY RawConfigTypes DEF Chosen, Raw!outgoing_interface_family, IsAddress, Families
<1>7. /\ bind # None \/ interface # None
      /\ bind # None => config.family \in {None, bind.family}
      /\ interface # None => config.family \in {None, of}
      /\ bind # None /\ interface # None => of = bind.family
  BY <1>5 DEF c1, c3, c6, c7
<1>8. Raw!configured_socket_family(config) =
        IF config.family # None THEN config.family ELSE IF bind # None THEN bind.family ELSE of
  BY DEF Raw!configured_socket_family
<1> HIDE DEF bind, interface, of
<1>9. /\ bind # None \/ interface # None
      /\ Raw!configured_socket_family(config) \in Families
      /\ bind # None => bind.family = Raw!configured_socket_family(config)
      /\ interface # None => of = Raw!configured_socket_family(config)
  BY <1>6, <1>7, <1>8
<1> QED
  BY <1>9 DEF bind, interface, of

\* With route-selected egress the family is given and nothing else is.
LEMMA ValidRouteSelected ==
  ASSUME Raw!validate_route_selected_egress(config) = "ok"
  PROVE  /\ config.bind_addr = None /\ config.outgoing_interface = None
         /\ config.family # None
<1> DEFINE c1 == config.bind_addr # None \/ config.outgoing_interface # None
           c2 == config.family = None
           c3 == config.ttl # None
           checks == << <<c1, "RawPacketTransmitUnsupported">>,
                        <<c2, "RawPacketTransmitUnsupported">>,
                        <<c3, "RawPacketTransmitUnsupported">> >>
<1>1. FirstError(checks) = "ok"
  BY DEF Raw!validate_route_selected_egress, Raw!FirstError, FirstError
<1> HIDE DEF c1, c2, c3
<1>2. DOMAIN checks = 1 .. 3 /\ 3 \in Nat
  OBVIOUS
<1>3. /\ checks[1][1] = c1 /\ checks[2][1] = c2
      /\ \A i \in 1 .. 3 : checks[i][2] # "ok"
  OBVIOUS
<1> HIDE DEF checks
<1>4. \A i \in 1 .. 3 : ~checks[i][1]
  BY <1>1, <1>2, <1>3, NoFirstError
<1>5. ~c1 /\ ~c2
  BY <1>3, <1>4
<1> QED
  BY <1>5 DEF c1, c2

\* Three checks none of which says so are not refused as unsupported.
LEMMA OtherErrors ==
  ASSUME NEW c1, NEW c2, NEW c3, NEW e1, NEW e2, NEW e3,
         "RawPacketTransmitUnsupported" \notin {e1, e2, e3}
  PROVE  FirstError(<< <<c1, e1>>, <<c2, e2>>, <<c3, e3>> >>) # "RawPacketTransmitUnsupported"
<1> DEFINE checks == << <<c1, e1>>, <<c2, e2>>, <<c3, e3>> >>
<1>1. DOMAIN checks = 1 .. 3 /\ 3 \in Nat
  OBVIOUS
<1>2. \A i \in 1 .. 3 : checks[i][2] # "RawPacketTransmitUnsupported"
  OBVIOUS
<1> HIDE DEF checks
<1>3. FirstError(checks) # "RawPacketTransmitUnsupported"
  BY <1>1, <1>2, FirstErrorStrikes
<1> QED
  BY <1>3 DEF checks

\* When none of three checks strikes, none of the conditions holds.
LEMMA NothingStruck ==
  ASSUME NEW c1 \in BOOLEAN, NEW c2 \in BOOLEAN, NEW c3 \in BOOLEAN,
         NEW e1, NEW e2, NEW e3,
         FirstError(<< <<c1, e1>>, <<c2, e2>>, <<c3, e3>> >>) = "ok", "ok" \notin {e1, e2, e3}
  PROVE  ~c1 /\ ~c2 /\ ~c3
<1> DEFINE checks == << <<c1, e1>>, <<c2, e2>>, <<c3, e3>> >>
<1>1. DOMAIN checks = 1 .. 3 /\ 3 \in Nat
  OBVIOUS
<1>2. /\ checks[1][1] = c1 /\ checks[2][1] = c2 /\ checks[3][1] = c3
      /\ \A i \in 1 .. 3 : checks[i][2] # "ok"
  OBVIOUS
<1>3. FirstError(checks) = "ok"
  OBVIOUS
<1> HIDE DEF checks
<1>4. \A i \in 1 .. 3 : ~checks[i][1]
  BY <1>1, <1>2, <1>3, NoFirstError
<1> QED
  BY <1>2, <1>4

\* The IPv4 selection is refused for want of an interface only, and otherwise
\* made of look-ups that found one and the same.
LEMMA Ipv4Selection ==
  ASSUME NEW c, NEW w
  PROVE  LET s == Raw!resolve_raw_ipv4_selection(c, w)
             interface == Raw!ipv4_interface_addr(c)
             bind == Raw!BindAddr(c, 4)
         IN  /\ s.error # "RawPacketTransmitUnsupported"
             /\ s.value.addr = interface /\ s.value.index = w.interface
             /\ s.error = "ok" => /\ interface # None /\ ~Raw!LookupFailed(w)
                                  /\ bind \notin {None, interface} => w.bind = w.interface
<1> DEFINE s == Raw!resolve_raw_ipv4_selection(c, w)
           bind4 == Raw!BindAddr(c, 4)
           interface == Raw!ipv4_interface_addr(c)
           bind == IF bind4 = None THEN interface ELSE bind4
           bound == IF bind = interface THEN w.interface ELSE w.bind
           c1 == interface = None
           c2 == Raw!LookupFailed(w)
           c3 == bound # w.interface
           error == FirstError(<< <<c1, "RawInterfaceRequired">>,
                                  <<c2, "InterfaceDiscoveryFailed">>,
                                  <<c3, "InterfaceDiscoveryFailed">> >>)
<1>1. s = [error |-> error, value |-> [bind |-> bind, addr |-> interface, index |-> w.interface]]
  BY DEF Raw!resolve_raw_ipv4_selection, Raw!FirstError, FirstError
<1>2. c1 \in BOOLEAN /\ c2 \in BOOLEAN /\ c3 \in BOOLEAN
  BY DEF Raw!LookupFailed
<1>3. c1 <=> interface = None
  OBVIOUS
<1>4. c2 <=> Raw!LookupFailed(w)
  OBVIOUS
<1>5. ~c3 /\ bind4 \notin {None, interface} => w.bind = w.interface
  OBVIOUS
<1> HIDE DEF c1, c2, c3, interface, bind, bound, bind4
<1>6. error # "RawPacketTransmitUnsupported"
  BY OtherErrors
<1>7. error = "ok" => ~c1 /\ ~c2 /\ ~c3
  BY <1>2, NothingStruck
<1> HIDE DEF error
<1>8. s.error = error /\ s.value.addr = interface /\ s.value.index = w.interface
  BY <1>1
<1> HIDE DEF s
<1>9. /\ s.error # "RawPacketTransmitUnsupported"
      /\ s.error = "ok" => /\ interface # None /\ ~Raw!LookupFailed(w)
                           /\ bind4 \notin {None, interface} => w.bind = w.interface
  BY <1>3, <1>4, <1>5, <1>6, <1>7, <1>8
<1> QED
  BY <1>8, <1>9 DEF s, interface, bind4

\* The IPv6 selection is refused for want of an interface or for a source on
\* another one; the index and every look-up it has name its interface.
LEMMA Ipv6Selection ==
  ASSUME NEW c, NEW w
  PROVE  LET s == Raw!resolve_raw_ipv6_selection(c, w)
             interface == c.outgoing_interface
             given == interface # None /\ Raw!IsIndex(interface)
         IN  /\ s.error # "RawPacketTransmitUnsupported"
             /\ s.error = "ok" =>
                  /\ ~Raw!LookupFailed(w)
                  /\ given /\ interface.index # None => s.value.index = interface.index
                  /\ ~given /\ w.interface # None => s.value.index = w.interface
                  /\ (Raw!BindAddr(c, 6) \notin {None, Raw!InterfaceAddr(c, 6)}
                        /\ w.bind # None) => s.value.index = w.bind
<1> DEFINE s == Raw!resolve_raw_ipv6_selection(c, w)
           interface == c.outgoing_interface
           given == interface # None /\ Raw!IsIndex(interface)
           addr6 == Raw!InterfaceAddr(c, 6)
           bind6 == Raw!BindAddr(c, 6)
           bind == IF bind6 # None THEN bind6 ELSE addr6
           explicit == IF interface # None /\ Raw!IsIndex(interface) THEN interface.index
                       ELSE w.interface
           bound == IF bind = addr6 THEN w.interface ELSE w.bind
           index == IF explicit # None THEN explicit ELSE bound
           c1 == Raw!LookupFailed(w)
           c2 == explicit # None /\ bound # None /\ explicit # bound
           c3 == explicit = None /\ bound = None
           error == FirstError(<< <<c1, "InterfaceDiscoveryFailed">>,
                                  <<c2, "Ipv6SourceInterfaceMismatch">>,
                                  <<c3, "RawInterfaceRequired">> >>)
<1>1. s = [error |-> error, value |-> [bind |-> bind, addr |-> None, index |-> index]]
  BY DEF Raw!resolve_raw_ipv6_selection, Raw!FirstError, FirstError
<1>2. c1 \in BOOLEAN /\ c2 \in BOOLEAN /\ c3 \in BOOLEAN
  BY DEF Raw!LookupFailed
<1>3. ~c2 => explicit = None \/ bound = None \/ explicit = bound
  OBVIOUS
<1>4. (given => explicit = interface.index) /\ (~given => explicit = w.interface)
  OBVIOUS
<1>5. bind6 \notin {None, addr6} => bound = w.bind
  OBVIOUS
<1>6. (explicit # None => index = explicit) /\ (explicit = None => index = bound)
  OBVIOUS
<1>11. c1 <=> Raw!LookupFailed(w)
  OBVIOUS
<1> HIDE DEF c1, c2, c3, explicit, bound, bind, index, given, addr6, bind6
<1>7. error # "RawPacketTransmitUnsupported"
  BY OtherErrors
<1>8. error = "ok" => ~c1 /\ ~c2 /\ ~c3
  BY <1>2, NothingStruck
<1> HIDE DEF error
<1>9. s.error = error /\ s.value.index = index
  BY <1>1
<1> HIDE DEF s
<1>10. ASSUME s.error = "ok"
       PROVE  /\ ~Raw!LookupFailed(w)
              /\ given /\ interface.index # None => s.value.index = interface.index
              /\ ~given /\ w.interface # None => s.value.index = w.interface
              /\ bind6 \notin {None, addr6} /\ w.bind # None => s.value.index = w.bind
  BY <1>3, <1>4, <1>5, <1>6, <1>8, <1>9, <1>10, <1>11
<1> QED
  BY <1>7, <1>9, <1>10 DEF s, given, addr6, bind6

\* The raw multicast API.
LEMMA RawOpenAgrees ==
  ASSUME Chosen, api = "raw"
  PROVE  Agrees(open)
<1> DEFINE family == Raw!configured_socket_family(config)
<1>1. /\ open = Raw!open_raw_transmit_socket(platform, config, answers)
      /\ ConfiguredFamily = family
      /\ Supported = Raw!egress_supported(platform, family, config.route_selected)
      /\ Valid = (Raw!validate(config) = "ok")
  BY DEF open, ConfiguredFamily, Supported, Valid
<1>2. config.route_selected \in BOOLEAN /\ config.family \in Families \cup {None}
  BY RawConfigTypes DEF Chosen
<1>3. CASE platform = "other"
  <2>1. open.error = "RawPacketTransmitUnsupported"
    BY <1>1, <1>3 DEF Raw!open_raw_transmit_socket, Raw!Refused
  <2>2. ~Supported
    BY <1>1, <1>2, <1>3 DEF Raw!egress_supported, Raw!raw_route_egress,
                            Raw!raw_ipv6_explicit_interface
  <2> QED
    BY <2>1, <2>2 DEF Agrees
<1>4. CASE platform # "other" /\ Raw!validate(config) # "ok"
  <2>1. open.error # "ok"
    BY <1>1, <1>4 DEF Raw!open_raw_transmit_socket, Raw!Refused
  <2> QED
    BY <1>1, <1>4, <2>1 DEF Agrees
<1>5. CASE platform # "other" /\ Raw!validate(config) = "ok" /\ config.route_selected
  <2>1. open = Raw!OpenRouteSelected(platform, config)
    BY <1>1, <1>5 DEF Raw!open_raw_transmit_socket
  <2>2. config.family # None
    BY <1>5, ValidRouteSelected DEF Raw!validate
  <2>3. family = config.family /\ family \in {4, 6}
    BY <1>2, <2>2 DEF Raw!configured_socket_family, Families
  <2>4. Supported <=> platform = "linux" \/ (platform = "macos" /\ family = 4)
    BY <1>1, <1>5 DEF Raw!egress_supported, Raw!raw_route_egress
  <2> HIDE DEF family
  <2>5. CASE platform \in {"linux", "macos"} /\ family = 4
    <3>1. open.error = "ok"
      BY <2>1, <2>3, <2>5 DEF Raw!OpenRouteSelected, Raw!Opened
    <3> QED
      BY <2>4, <2>5, <3>1 DEF Agrees
  <2>6. CASE platform = "linux" /\ family = 6
    <3>1. open.error # "ok" => config.loopback = TRUE
      BY <2>1, <2>3, <2>6 DEF Raw!OpenRouteSelected, Raw!Opened, Raw!Refused
    <3> QED
      BY <1>1, <2>4, <2>6, <3>1 DEF Agrees
  <2>7. CASE ~(platform \in {"linux", "macos"} /\ family = 4) /\ ~(platform = "linux" /\ family = 6)
    <3>1. open.error # "ok"
      BY <2>1, <2>3, <2>7 DEF Raw!OpenRouteSelected, Raw!Refused
    <3> QED
      BY <2>3, <2>4, <2>7, <3>1 DEF Agrees
  <2> QED
    BY <2>5, <2>6, <2>7
<1>6. CASE platform # "other" /\ Raw!validate(config) = "ok" /\ ~config.route_selected
  <2>1. open = Raw!OpenExplicit(platform, config, answers)
    BY <1>1, <1>6 DEF Raw!open_raw_transmit_socket
  <2>2. family \in {4, 6}
    BY <1>6, ValidExplicit DEF Raw!validate, Families
  <2>3. Supported <=> family = 4 \/ platform \in {"linux", "macos"}
    <3>1. Supported = Raw!egress_supported(platform, family, FALSE)
      BY <1>1, <1>2, <1>6
    <3> HIDE DEF family
    <3>2. CASE family = 4
      <4>1. Raw!egress_supported(platform, family, FALSE) = TRUE
        BY <1>6, <3>2 DEF Raw!egress_supported
      <4> QED
        BY <3>1, <3>2, <4>1
    <3>3. CASE family = 6
      <4>1. Raw!egress_supported(platform, family, FALSE) = (platform \in {"linux", "macos"})
        BY <3>3 DEF Raw!egress_supported, Raw!raw_ipv6_explicit_interface
      <4>2. family # 4
        BY <3>3
      <4> QED
        BY <3>1, <4>1, <4>2, Zenon
    <3> QED
      BY <2>2, <3>2, <3>3
  <2>4. CASE family = 4
    <3>1. PICK b : open = Raw!OpenIpv4(b, config, answers)
      BY <1>6, <2>1, <2>4 DEF Raw!OpenExplicit, Chosen, Platforms
    <3>2. open.error # "RawPacketTransmitUnsupported"
      BY <3>1, Ipv4Selection DEF Raw!OpenIpv4, Raw!Opened, Raw!Refused
    <3> QED
      BY <2>3, <2>4, <3>2 DEF Agrees
  <2>5. CASE family = 6 /\ platform \in {"linux", "macos"}
    <3>1. PICK b : open = Raw!OpenIpv6(b, config, answers)
      BY <1>6, <2>1, <2>5 DEF Raw!OpenExplicit
    <3>2. open.error = "RawPacketTransmitUnsupported" => config.loopback = TRUE
      BY <3>1, Ipv6Selection DEF Raw!OpenIpv6, Raw!Opened, Raw!Refused
    <3> QED
      BY <1>1, <2>3, <2>5, <3>2 DEF Agrees
  <2>6. CASE family = 6 /\ platform \notin {"linux", "macos"}
    <3>1. open.error # "ok"
      BY <2>1, <2>6 DEF Raw!OpenExplicit, Raw!Refused
    <3> QED
      BY <2>3, <2>6, <3>1 DEF Agrees
  <2> QED
    BY <2>2, <2>4, <2>5, <2>6
<1> QED
  BY <1>2, <1>3, <1>4, <1>5, <1>6

\* A valid configuration of the raw-IP API is of a family.
LEMMA ValidRawIp ==
  ASSUME Chosen, api = "raw_ip", RawIp!validate(config) = "ok"
  PROVE  RawIp!resolved_family(config) \in Families
<1> DEFINE bind == config.bind_addr
           addr == config.interface_addr
           c1 == bind = None /\ addr = None /\ config.interface_index = None
           c2 == config.interface_index = 0
           c3 == bind # None /\ RawIp!Unusable(bind)
           c4 == bind # None /\ config.family \notin {None, bind.family}
           c5 == addr # None /\ RawIp!Unusable(addr)
           c6 == addr # None /\ config.family \notin {None, addr.family}
           c7 == bind # None /\ addr # None /\ bind.family # addr.family
           c8 == config.family = None /\ bind = None /\ addr = None
           checks == << <<c1, "RawInterfaceRequired">>,
                        <<c2, "RawInterfaceRequired">>,
                        <<c3, "InvalidRawBindAddress">>,
                        <<c4, "RawBindAddressFamilyMismatch">>,
                        <<c5, "InvalidInterfaceAddress">>,
                        <<c6, "OutgoingInterfaceFamilyMismatch">>,
                        <<c7, "OutgoingInterfaceFamilyMismatch">>,
                        <<c8, "RawPacketTransmitUnsupported">> >>
<1>1. FirstError(checks) = "ok"
  BY DEF RawIp!validate, RawIp!FirstError, FirstError
<1> HIDE DEF c1, c2, c3, c4, c5, c6, c7, c8
<1>2. DOMAIN checks = 1 .. 8 /\ 8 \in Nat
  OBVIOUS
<1>3. checks[8][1] = c8 /\ \A i \in 1 .. 8 : checks[i][2] # "ok"
  OBVIOUS
<1> HIDE DEF checks
<1>4. \A i \in 1 .. 8 : ~checks[i][1]
  BY <1>1, <1>2, <1>3, NoFirstError
<1>5. ~c8
  BY <1>3, <1>4
<1>6. /\ config.family \in Families \cup {None}
      /\ bind # None => bind.family \in Families
      /\ addr # None => addr.family \in Families
  BY RawIpConfigTypes DEF Chosen, IsAddress
<1> QED
  BY <1>5, <1>6 DEF c8, RawIp!resolved_family

\* The selection of the raw-IP API: the index and every look-up name its
\* interface.
LEMMA RawIpSelection ==
  ASSUME NEW c, NEW w
  PROVE  LET s == RawIp!resolve_selection(c, w)
         IN  /\ s.error # "RawPacketTransmitUnsupported"
             /\ s.error = "ok" =>
                  /\ ~RawIp!LookupFailed(c, w)
                  /\ c.interface_index # None => s.value.index = c.interface_index
                  /\ \A x \in Selectors : w[x] # None => s.value.index = w[x]
<1> DEFINE s == RawIp!resolve_selection(c, w)
           indices == RawIp!Indices(c, w)
           index == CHOOSE i \in indices : TRUE
           failed == RawIp!LookupFailed(c, w)
<1>1. s = [error |-> IF failed THEN "InterfaceDiscoveryFailed" ELSE "ok",
           value |-> [bind |-> c.bind_addr, addr |-> c.interface_addr, index |-> index]]
  BY DEF RawIp!resolve_selection
<1>2. /\ c.interface_index # None => c.interface_index \in indices
      /\ \A x \in Selectors : w[x] # None => w[x] \in indices
  BY DEF RawIp!Indices, RawIp!Selectors, Selectors
<1>3. \A i \in indices : index \in indices
  OBVIOUS
<1>4. ~failed => \A i, j \in indices : i = j
  BY DEF RawIp!LookupFailed
<1> HIDE DEF indices, index, failed
<1>5. /\ s.error = IF failed THEN "InterfaceDiscoveryFailed" ELSE "ok"
      /\ s.value.index = index
  BY <1>1
<1> HIDE DEF s
<1>6. s.error = "ok" => ~failed
  BY <1>5
<1>7. ASSUME s.error = "ok"
      PROVE  /\ ~failed
             /\ c.interface_index # None => s.value.index = c.interface_index
             /\ \A x \in Selectors : w[x] # None => s.value.index = w[x]
  BY <1>2, <1>3, <1>4, <1>5, <1>6, <1>7
<1>8. s.error # "RawPacketTransmitUnsupported"
  BY <1>5
<1> QED
  BY <1>7, <1>8 DEF s, failed

\* The raw-IP API.
LEMMA RawIpOpenAgrees ==
  ASSUME Chosen, api = "raw_ip"
  PROVE  Agrees(open)
<1> DEFINE family == RawIp!resolved_family(config)
           selection == RawIp!resolve_selection(config, answers)
           c1 == selection.error # "ok"
           c2 == platform # "windows" /\ ~RawIp!require_unix_ipv6_bind_addr(family, config)
           c3 == platform = "windows" /\ family = 6
           checks == << <<c1, selection.error>>, <<c2, "RawPacketTransmitUnsupported">>,
                        <<c3, "RawPacketTransmitUnsupported">> >>
<1>1. /\ open = RawIp!open_raw_ip_socket(platform, config, answers)
      /\ ConfiguredFamily = family
      /\ Supported = RawIp!egress_supported(platform, family)
      /\ Valid = (RawIp!validate(config) = "ok")
  BY DEF open, ConfiguredFamily, Supported, Valid
<1>2. platform = "other" => ~Supported
  BY <1>1 DEF RawIp!egress_supported
<1>3. platform \in {"linux", "macos"} => Supported
  BY <1>1 DEF RawIp!egress_supported
<1>4. platform = "windows" => (Supported <=> family = 4)
  BY <1>1 DEF RawIp!egress_supported
<1>5. CASE platform = "other"
  <2>1. open.error = "RawPacketTransmitUnsupported"
    BY <1>1, <1>5 DEF RawIp!open_raw_ip_socket, RawIp!Refused
  <2> QED
    BY <1>2, <1>5, <2>1 DEF Agrees
<1>6. CASE platform # "other" /\ RawIp!validate(config) # "ok"
  <2>1. open.error # "ok"
    BY <1>1, <1>6 DEF RawIp!open_raw_ip_socket, RawIp!Refused
  <2> QED
    BY <1>1, <1>6, <2>1 DEF Agrees
<1>7. CASE platform # "other" /\ RawIp!validate(config) = "ok"
  <2>1. open.error = FirstError(checks)
    BY <1>1, <1>7 DEF RawIp!open_raw_ip_socket, RawIp!Refused, RawIp!Opened,
                      RawIp!FirstError, FirstError
  <2>2. selection.error # "RawPacketTransmitUnsupported" /\ (c1 => selection.error # "ok")
    BY RawIpSelection
  <2>3. /\ c2 => family = 6 /\ config.bind_addr = None
        /\ c3 => platform = "windows" /\ family = 6
    BY DEF RawIp!require_unix_ipv6_bind_addr
  <2>4. platform = "windows" /\ ~c3 => family # 6
    OBVIOUS
  <2>9. family \in {4, 6}
    BY <1>7, ValidRawIp DEF Families
  <2> HIDE DEF family, selection, c1, c2, c3
  <2>5. DOMAIN checks = 1 .. 3 /\ 3 \in Nat
    OBVIOUS
  <2>6. /\ checks[1] = <<c1, selection.error>>
        /\ checks[2] = <<c2, "RawPacketTransmitUnsupported">>
        /\ checks[3] = <<c3, "RawPacketTransmitUnsupported">>
    OBVIOUS
  <2> HIDE DEF checks
  <2>7. open.error = "ok" => ~c3
    <3>1. ASSUME FirstError(checks) = "ok" PROVE ~checks[3][1]
      <4>1. \A i \in 1 .. 3 : checks[i][1] => checks[i][2] # "ok"
        BY <2>2, <2>6
      <4>2. \A i \in 1 .. 3 : ~checks[i][1]
        BY <2>5, <3>1, <4>1, NoFirstError
      <4> QED
        BY <4>2
    <3> QED
      BY <2>1, <2>6, <3>1
  <2>8. open.error = "RawPacketTransmitUnsupported" => c2 \/ c3
    <3>1. ASSUME FirstError(checks) = "RawPacketTransmitUnsupported"
          PROVE  checks[2][1] \/ checks[3][1]
      <4>1. PICK i \in 1 .. 3 : checks[i][1] /\ checks[i][2] = "RawPacketTransmitUnsupported"
        BY <2>5, <3>1, FirstErrorStrikes
      <4>2. i # 1
        BY <2>2, <2>6, <4>1
      <4> QED
        BY <4>1, <4>2
    <3> QED
      BY <2>1, <2>6, <3>1
  <2> QED
    BY <1>1, <1>3, <1>4, <1>7, <2>3, <2>4, <2>7, <2>8, <2>9 DEF Agrees, Chosen, Platforms
<1> QED
  BY <1>5, <1>6, <1>7

\* The configuration does not change, and what was said of it stays true.
CapabilitiesInv ==
  /\ Chosen
  /\ stage = "configured" => publication.error = "none"
  /\ stage \in {"resolved", "ready"} => publication.error = "ok"
  /\ Agrees(publication)

\* The capability functions agree with what open does on every platform, for
\* both APIs and for any configuration and addresses.
THEOREM CapabilitiesCorrect == Spec => []CapabilitiesHold
<1>1. Init => CapabilitiesInv
  BY DEF Init, Refused, CapabilitiesInv, Chosen, Agrees
<1>2. CapabilitiesInv /\ [Next]_vars => CapabilitiesInv'
  <2> SUFFICES ASSUME CapabilitiesInv, [Next]_vars PROVE CapabilitiesInv'
    OBVIOUS
  <2>1. ASSUME UNCHANGED fixed PROVE CapabilitiesInv'
    BY <2>1 DEF CapabilitiesInv, fixed, Chosen, Agrees, Supported, ConfiguredFamily, Valid
  <2>2. CASE Resolve
    <3>1. Agrees(open)
      BY RawOpenAgrees, RawIpOpenAgrees DEF CapabilitiesInv, Chosen
    <3>2. /\ UNCHANGED <<api, platform, config>> /\ publication' = open
          /\ stage' = IF open.error = "ok" THEN "resolved" ELSE "refused"
      BY <2>2 DEF Resolve
    <3>3. Agrees(publication)'
      BY <3>1, <3>2 DEF Agrees, Supported, ConfiguredFamily, Valid
    <3> QED
      BY <3>2, <3>3 DEF CapabilitiesInv, Chosen
  <2>3. CASE OpenSockets \/ OpenFails
    <3>1. /\ UNCHANGED <<api, platform, config, publication>> /\ stage = "resolved"
          /\ stage' \in {"ready", "refused"}
      BY <2>3 DEF OpenSockets, OpenFails
    <3>2. Agrees(publication)'
      BY <3>1 DEF CapabilitiesInv, Agrees, Supported, ConfiguredFamily, Valid
    <3> QED
      BY <3>1, <3>2 DEF CapabilitiesInv, Chosen
  <2>4. Resolve \/ OpenSockets \/ OpenFails \/ UNCHANGED fixed
    BY DEF Next, SendStep, Move, LookUp, Begin, Reject, CacheHit, CacheMiss, CreateFails, Transmit,
           TransmitFails, Finish, opening, fixed, vars
  <2> QED
    BY <2>1, <2>2, <2>3, <2>4
<1>3. CapabilitiesInv => CapabilitiesHold
  BY DEF CapabilitiesInv, Agrees, Supported, ConfiguredFamily, Valid, CapabilitiesHold
<1> QED
  BY <1>1, <1>2, <1>3, PTL DEF Spec

----------------------------------------------------------------------------
(* What leaves, and by which interface *)

\* What opening gives a publication besides its family.
Backed(p) ==
  /\ p.backend \in {"raw4", "ip4"} => platform = "linux"
  /\ api = "raw_ip" => (p.backend = "ip6" <=> p.family = 6)

\* Where the look-ups stand: an answer is an interface its address has been on
\* since, and 0 for an address the machine does not have.
LookInv ==
  /\ where \in [OwnAddresses -> Interfaces \cup {0}]
  /\ since \in [OwnAddresses -> SUBSET (Interfaces \cup {0})]
  /\ answers \in [Selectors -> Interfaces \cup {0, None}]
  /\ \A ip \in OwnAddresses : since[ip] # {} => where[ip] \in since[ip]
  /\ \A x \in Selectors :
       answers[x] # None =>
         /\ lookups[x] # None
         /\ IF lookups[x] \in OwnAddresses THEN answers[x] \in since[lookups[x]]
            ELSE answers[x] = 0

\* The interface a publication is bound to is the one all selectors named.
Selected(p) ==
  p.selection.index # None =>
    /\ SelectorIndex \in {None, p.selection.index}
    /\ \A x \in Selectors : answers[x] \in {None, p.selection.index}
    /\ \A ip \in SelectorAddrs : p.selection.index \in since[ip]
    /\ api = "raw" /\ p.family = 4 => /\ p.selection.addr \in SelectorAddrs
                                      /\ p.selection.addr = EgressAddr

\* A socket of this publication: its kind, and what ties it to the interface.
\* IP_MULTICAST_IF was resolved when the socket was opened.
OfPublication(s) ==
  LET selection == publication.selection
  IN  /\ api = "raw" => IF publication.family = 4 THEN s.kind = "raw4"
                        ELSE s.kind \in {"packet", "bpf"} /\ s.device = selection.index
      /\ api = "raw" /\ publication.family = 4 =>
           /\ s.device = None
           /\ selection.index # None => /\ selection.addr \in OwnAddresses
                                        /\ s.multicast_if \in since[selection.addr]
      /\ api = "raw_ip" => s.kind = IF platform = "windows" \/ publication.family = 4
                                    THEN "raw4" ELSE "raw6"
      /\ api = "raw_ip" => IF platform = "windows"
                           THEN s.device = None /\ s.unicast_if = selection.index
                           ELSE s.device = selection.index

\* The publication is opened as configured, with a socket of its own where it
\* keeps one.
OpeningInv ==
  /\ Chosen /\ LookInv
  /\ stage \in {"resolved", "ready"} => Backed(publication) /\ Selected(publication)
  /\ stage = "ready" /\ publication.backend \in {"raw4", "bpf6", "ip4"} => OfPublication(eager)

\* Every socket a thread can get hold of is the publication's own.
OwnSockets == \A k \in Cached(cache) : OfPublication(cache.sockets[k])

\* A thread sends as its datagram asks for, through a socket for that.
SendFits(at, d, p, s) ==
  /\ at # "idle" => /\ publication.backend # "route6" /\ d \in Datagrams
                    /\ p = PlanFor(d) /\ p.error = "ok"
  /\ at = "send" => OfPublication(s) /\ (p.key # None => FitsKey(s, p.key))

\* Of every thread.
SendsInv ==
  /\ DOMAIN datagram = Threads /\ DOMAIN held = Threads
  /\ \A t \in Threads : SendFits(pc[t], datagram[t], plan[t], held[t])

\* What was sent, was sent by a publication that is ready and reported so.
ResultInv ==
  /\ Delivered => stage = "ready" /\ result.report.index = publication.selection.index
  /\ HeaderKept /\ EgressHonoured

\* All of it.
SendInv == OpeningInv /\ OwnSockets /\ SendsInv /\ ResultInv

\* The addresses of the machine.
LEMMA OwnAddressFacts ==
  ASSUME NEW ip \in OwnAddresses
  PROVE  ip # None /\ ~Raw!IsIndex(ip) /\ InterfaceOf(ip, where) = where[ip]
<1>1. ip # None
  BY RawInterfaces
<1>2. PICK f \in Families, h \in {"a", "b"} : ip = [family |-> f, host |-> h]
  BY DEF OwnAddresses, Ip
<1>3. ~Raw!IsIndex(ip)
  BY <1>2 DEF Raw!IsIndex
<1> QED
  BY <1>1, <1>3 DEF InterfaceOf

\* When no look-up is left and none failed, every address that was to be looked
\* up has an answer.
LEMMA Answered ==
  ASSUME LookInv, api \in {"raw", "raw_ip"}, Pending = {}, ~LookupFailed, NEW x \in Selectors
  PROVE  /\ lookups[x] = None => answers[x] = None
         /\ lookups[x] # None => /\ answers[x] # None /\ lookups[x] \in OwnAddresses
                                /\ answers[x] \in since[lookups[x]]
<1>1. answers[x] # 0
  <2>1. 0 # None
    BY RawInterfaces
  <2>2. CASE api = "raw"
    BY <2>2 DEF LookupFailed, Raw!LookupFailed, Raw!Selectors, Selectors
  <2>3. CASE api = "raw_ip"
    BY <2>1, <2>3 DEF LookupFailed, RawIp!LookupFailed, RawIp!Indices, RawIp!Selectors, Selectors
  <2> QED
    BY <2>2, <2>3
<1>2. lookups[x] # None => answers[x] # None
  BY DEF Pending
<1> QED
  BY <1>1, <1>2 DEF LookInv

\* A publication of the raw multicast API with explicit IPv4 egress.
LEMMA OpenIpv4Selects ==
  ASSUME Chosen, api = "raw", LookInv, Pending = {}, lookups = Raw!Ipv4Lookups(config),
         Raw!validate_explicit_egress(config) = "ok",
         Raw!configured_socket_family(config) = 4,
         NEW b, open = Raw!OpenIpv4(b, config, answers), open.error = "ok"
  PROVE  open.backend = b /\ open.family = 4 /\ Selected(open)
<1> DEFINE s == Raw!resolve_raw_ipv4_selection(config, answers)
           bind == config.bind_addr
           interface == config.outgoing_interface
           named == Raw!ipv4_interface_addr(config)
           index == answers["interface"]
<1>1. s.error = "ok" /\ open = Raw!Opened(b, 4, s.value)
  BY DEF Raw!OpenIpv4, Raw!Refused
<1>2. open.backend = b /\ open.family = 4 /\ open.selection = s.value
  BY <1>1 DEF Raw!Opened
<1>3. /\ bind # None \/ interface # None
      /\ bind # None => bind.family = 4
      /\ interface # None => Raw!outgoing_interface_family(interface) = 4
  BY ValidExplicit
<1>4. /\ s.value.addr = named /\ s.value.index = index
      /\ named # None /\ ~Raw!LookupFailed(answers)
      /\ Raw!BindAddr(config, 4) \notin {None, named} => answers["bind"] = index
  BY <1>1, Ipv4Selection
<1>5. interface # None => ~Raw!IsIndex(interface) /\ interface.family = 4
  BY <1>3 DEF Raw!outgoing_interface_family
<1>6. /\ Raw!BindAddr(config, 4) = bind
      /\ named = IF interface # None THEN interface ELSE bind
  BY <1>3, <1>5 DEF Raw!BindAddr, Raw!InterfaceAddr, Raw!ipv4_interface_addr
<1>7. /\ lookups["interface"] = named
      /\ lookups["bind"] = IF bind = named THEN None ELSE bind
  BY <1>6 DEF Raw!Ipv4Lookups, Raw!BySelector
<1>8. ~LookupFailed /\ {"interface", "bind"} \subseteq Selectors
  BY <1>4 DEF LookupFailed, Selectors
<1>9. named \in OwnAddresses /\ index \in since[named] /\ index # None
  BY <1>4, <1>7, <1>8, Answered
<1>10. /\ bind \notin {None, named} => answers["bind"] = index /\ index \in since[bind]
       /\ bind \in {None, named} => answers["bind"] = None
  BY <1>4, <1>6, <1>7, <1>8, Answered
<1>11. SelectorAddrs = {bind, interface} \cap OwnAddresses
  BY DEF SelectorAddrs
<1>12. SelectorIndex = None
  BY <1>5 DEF SelectorIndex
<1>13. EgressAddr = named
  BY <1>6 DEF EgressAddr
<1> HIDE DEF s, index, named
<1>14. ASSUME NEW ip \in SelectorAddrs PROVE index \in since[ip]
  <2>1. ip \in {bind, interface} /\ ip # None
    BY <1>11, RawInterfaces
  <2> QED
    BY <1>6, <1>9, <1>10, <2>1
<1>15. \A x \in Selectors : answers[x] \in {None, index}
  BY <1>10 DEF Selectors, index
<1>16. named \in SelectorAddrs
  BY <1>6, <1>9, <1>11
<1> QED
  BY <1>2, <1>4, <1>12, <1>13, <1>14, <1>15, <1>16 DEF Selected

\* ... and with explicit IPv6 egress.
LEMMA OpenIpv6Selects ==
  ASSUME Chosen, api = "raw", LookInv, Pending = {}, lookups = Raw!Ipv6Lookups(config),
         Raw!validate_explicit_egress(config) = "ok",
         Raw!configured_socket_family(config) = 6,
         NEW b, open = Raw!OpenIpv6(b, config, answers), open.error = "ok"
  PROVE  open.backend = b /\ open.family = 6 /\ Selected(open)
<1> DEFINE s == Raw!resolve_raw_ipv6_selection(config, answers)
           bind == config.bind_addr
           interface == config.outgoing_interface
           given == interface # None /\ Raw!IsIndex(interface)
           addr6 == Raw!InterfaceAddr(config, 6)
           index == s.value.index
<1>1. s.error = "ok" /\ open = Raw!Opened(b, 6, s.value)
  BY DEF Raw!OpenIpv6, Raw!Refused
<1>2. open.backend = b /\ open.family = 6 /\ open.selection = s.value
  BY <1>1 DEF Raw!Opened
<1>3. /\ bind # None => bind.family = 6
      /\ interface # None => Raw!outgoing_interface_family(interface) = 6
  BY ValidExplicit
<1>4. /\ given => interface.index # None
      /\ interface # None /\ ~Raw!IsIndex(interface) => interface.family = 6
  BY <1>3, RawConfigTypes, RawInterfaces DEF Chosen, Raw!outgoing_interface_family
<1>5. /\ Raw!BindAddr(config, 6) = bind
      /\ addr6 = IF interface = None \/ given THEN None ELSE interface
  BY <1>3, <1>4 DEF Raw!BindAddr, Raw!InterfaceAddr
<1>6. /\ ~Raw!LookupFailed(answers)
      /\ given => index = interface.index
      /\ ~given /\ answers["interface"] # None => index = answers["interface"]
      /\ bind \notin {None, addr6} /\ answers["bind"] # None => index = answers["bind"]
  BY <1>1, <1>4, <1>5, Ipv6Selection
<1>7. /\ lookups["interface"] = addr6
      /\ lookups["bind"] = IF bind = addr6 THEN None ELSE bind
  BY <1>5 DEF Raw!Ipv6Lookups, Raw!BySelector
<1>8. ~LookupFailed /\ {"interface", "bind"} \subseteq Selectors
  BY <1>6 DEF LookupFailed, Selectors
<1> HIDE DEF s, index, addr6
<1>9. /\ addr6 # None => answers["interface"] = index /\ index \in since[addr6]
      /\ addr6 = None => answers["interface"] = None
  BY <1>5, <1>6, <1>7, <1>8, Answered
<1>10. /\ bind \notin {None, addr6} => answers["bind"] = index /\ index \in since[bind]
       /\ bind \in {None, addr6} => answers["bind"] = None
  BY <1>6, <1>7, <1>8, Answered
<1>11. SelectorAddrs = {bind, interface} \cap OwnAddresses
  BY DEF SelectorAddrs
<1>12. SelectorIndex \in {None, index}
  BY <1>6 DEF SelectorIndex
<1>14. ASSUME NEW ip \in SelectorAddrs PROVE index \in since[ip]
  <2>1. ip \in {bind, interface} /\ ip # None /\ ~Raw!IsIndex(ip)
    BY <1>11, OwnAddressFacts
  <2>2. ip = interface => ip = addr6
    BY <1>5, <2>1
  <2> QED
    BY <1>9, <1>10, <2>1, <2>2
<1>15. \A x \in Selectors : answers[x] \in {None, index}
  BY <1>9, <1>10 DEF Selectors
<1> QED
  BY <1>2, <1>12, <1>14, <1>15 DEF Selected, index

\* Opening.
LEMMA OpenSelects ==
  ASSUME Chosen, LookInv, Pending = {}, open.error = "ok"
  PROVE  Backed(open) /\ Selected(open)
<1>1. CASE api = "raw"
  <2> DEFINE family == Raw!configured_socket_family(config)
  <2>1. open = Raw!open_raw_transmit_socket(platform, config, answers)
    BY <1>1 DEF open
  <2>2. ASSUME NEW e PROVE open # Raw!Refused(e) \/ e = "ok"
    BY DEF Raw!Refused
  <2>3. platform # "other" /\ Raw!validate(config) = "ok"
    BY <2>1, <2>2 DEF Raw!open_raw_transmit_socket
  <2>4. config.route_selected \in BOOLEAN
    BY <1>1, RawConfigTypes DEF Chosen
  <2>5. CASE config.route_selected
    <3>1. open = Raw!OpenRouteSelected(platform, config)
      BY <2>1, <2>3, <2>5 DEF Raw!open_raw_transmit_socket
    <3>2. PICK bb : /\ bb = "raw4" => platform = "linux"
                    /\ \E f : open = Raw!Opened(bb, f, Raw!NoSelection)
                    /\ bb # "ip4"
      BY <2>2, <3>1 DEF Raw!OpenRouteSelected
    <3>3. open.selection.index = None /\ open.backend = bb
      BY <3>2 DEF Raw!Opened, Raw!NoSelection
    <3> QED
      BY <1>1, <3>2, <3>3 DEF Backed, Selected
  <2>6. CASE ~config.route_selected
    <3>1. open = Raw!OpenExplicit(platform, config, answers)
      BY <2>1, <2>3, <2>6 DEF Raw!open_raw_transmit_socket
    <3>2. Raw!validate_explicit_egress(config) = "ok"
      BY <2>3, <2>6 DEF Raw!validate
    <3>3. family \in {4, 6}
      BY <1>1, <3>2, ValidExplicit DEF Families
    <3>4. CASE family = 4
      <4>1. PICK b : /\ open = Raw!OpenIpv4(b, config, answers)
                     /\ b = "raw4" => platform = "linux"
                     /\ b # "ip4"
        BY <2>2, <3>1, <3>4 DEF Raw!OpenExplicit
      <4>3. lookups = Raw!Ipv4Lookups(config)
        BY <1>1, <2>3, <2>6, <3>4 DEF lookups, Raw!lookups
      <4>2. open.backend = b /\ Selected(open)
        BY <1>1, <3>2, <3>4, <4>1, <4>3, OpenIpv4Selects
      <4> QED
        BY <1>1, <4>1, <4>2 DEF Backed
    <3>5. CASE family = 6
      <4>1. PICK b \in {"packet6", "bpf6"} : open = Raw!OpenIpv6(b, config, answers)
        BY <2>2, <3>1, <3>5 DEF Raw!OpenExplicit
      <4>3. platform # "windows"
        BY <2>2, <3>1, <3>5 DEF Raw!OpenExplicit
      <4>4. lookups = Raw!Ipv6Lookups(config)
        BY <1>1, <2>3, <2>6, <3>5, <4>3 DEF lookups, Raw!lookups
      <4>2. open.backend = b /\ Selected(open)
        BY <1>1, <3>2, <3>5, <4>1, <4>4, OpenIpv6Selects
      <4> QED
        BY <1>1, <4>1, <4>2 DEF Backed
    <3> QED
      BY <3>3, <3>4, <3>5
  <2> QED
    BY <2>4, <2>5, <2>6
<1>2. CASE api = "raw_ip"
  <2> DEFINE family == RawIp!resolved_family(config)
             s == RawIp!resolve_selection(config, answers)
             c1 == s.error # "ok"
             c2 == platform # "windows" /\ ~RawIp!require_unix_ipv6_bind_addr(family, config)
             c3 == platform = "windows" /\ family = 6
  <2>1. open = RawIp!open_raw_ip_socket(platform, config, answers)
    BY <1>2 DEF open
  <2>2. ASSUME NEW e PROVE open # RawIp!Refused(e) \/ e = "ok"
    BY DEF RawIp!Refused
  <2>3. /\ open = RawIp!Opened(RawIp!Backend(platform, family), family, s.value)
        /\ platform # "other"
        /\ FirstError(<< <<c1, s.error>>, <<c2, "RawPacketTransmitUnsupported">>,
                         <<c3, "RawPacketTransmitUnsupported">> >>) = "ok"
    BY <2>1, <2>2 DEF RawIp!open_raw_ip_socket, RawIp!FirstError, FirstError
  <2>4. s.error = "ok"
    <3>1. c1 \in BOOLEAN /\ c2 \in BOOLEAN /\ c3 \in BOOLEAN /\ (c1 <=> s.error # "ok")
      OBVIOUS
    <3> HIDE DEF s, c1, c2, c3
    <3>2. ASSUME s.error # "ok" PROVE ~c1
      BY <2>3, <3>1, <3>2, NothingStruck
    <3> QED
      BY <3>1, <3>2
  <2>5. open.backend = RawIp!Backend(platform, family) /\ open.family = family
        /\ open.selection = s.value
    BY <2>3 DEF RawIp!Opened
  <2>6. Backed(open)
    BY <1>2, <2>5 DEF Backed, RawIp!Backend
  <2>7. /\ ~RawIp!LookupFailed(config, answers)
        /\ config.interface_index # None => s.value.index = config.interface_index
        /\ \A x \in Selectors : answers[x] # None => s.value.index = answers[x]
    BY <2>4, RawIpSelection
  <2>10. lookups["interface"] = config.interface_addr /\ lookups["bind"] = config.bind_addr
    <3>1. RawIp!validate(config) = "ok"
      BY <2>1, <2>2 DEF RawIp!open_raw_ip_socket
    <3> QED
      BY <1>2, <2>3, <3>1 DEF lookups, RawIp!lookups, RawIp!BySelector
  <2>11. ~LookupFailed /\ {"interface", "bind"} \subseteq Selectors
    BY <1>2, <2>7 DEF LookupFailed, Selectors
  <2> HIDE DEF s
  <2>8. SelectorIndex \in {None, s.value.index}
    BY <1>2, <2>7 DEF SelectorIndex
  <2>9. ASSUME NEW ip \in SelectorAddrs PROVE s.value.index \in since[ip]
    <3>1. ip \in {config.bind_addr, config.interface_addr} /\ ip # None
      BY <1>2, RawInterfaces DEF SelectorAddrs
    <3>2. PICK x \in Selectors : lookups[x] = ip
      BY <2>10, <2>11, <3>1
    <3> QED
      BY <1>2, <2>7, <2>11, <3>1, <3>2, Answered
  <2> QED
    BY <1>2, <2>5, <2>6, <2>7, <2>8, <2>9 DEF Selected
<1> QED
  BY <1>1, <1>2 DEF Chosen

\* Every socket that is opened is one of the publication's.
LEMMA NewSocketOurs ==
  ASSUME NEW k, GoodPublication(publication), Selected(publication),
         LookInv, NewSocket(k) # None
  PROVE  OfPublication(NewSocket(k))
<1> DEFINE s == NewSocket(k)
           selection == publication.selection
<1>1. CASE api = "raw"
  <2>1. s = Raw!NewSocket(platform, publication, config, k, where)
    BY <1>1 DEF NewSocket
  <2>2. CASE publication.family = 4
    <3>1. s = Raw!open_raw_ipv4_socket_with_protocol(selection, config.loopback,
                                                    Raw!ProtocolOf(k), where)
      BY <2>1, <2>2 DEF Raw!NewSocket
    <3>2. /\ s.kind = "raw4" /\ s.device = None
          /\ selection.addr # None => s.multicast_if = InterfaceOf(selection.addr, where)
      BY <3>1 DEF Raw!open_raw_ipv4_socket_with_protocol, Raw!BareSocket, Raw!InterfaceOf,
                  InterfaceOf, Raw!OwnAddresses, OwnAddresses, Raw!Ip, Ip, Raw!Families, Families
    <3>3. ASSUME selection.index # None
          PROVE  /\ selection.addr # None /\ selection.addr \in OwnAddresses
                 /\ InterfaceOf(selection.addr, where) \in since[selection.addr]
      <4>1. /\ selection.addr \in OwnAddresses
            /\ selection.index \in since[selection.addr]
        BY <1>1, <2>2, <3>3 DEF Selected, SelectorAddrs
      <4> QED
        BY <4>1, OwnAddressFacts DEF LookInv
    <3> QED
      BY <1>1, <2>2, <3>2, <3>3 DEF OfPublication
  <2>3. CASE publication.family # 4
    <3>1. PICK kind \in {"packet", "bpf"} : s = Raw!OpenLinkSocket(kind, selection.index)
      BY <2>1, <2>3 DEF Raw!NewSocket
    <3>2. s.kind \in {"packet", "bpf"} /\ s.device = selection.index
      BY <3>1 DEF Raw!OpenLinkSocket, Raw!BareSocket
    <3> QED
      BY <1>1, <2>3, <3>2 DEF OfPublication
  <2> QED
    BY <2>2, <2>3
<1>2. CASE api = "raw_ip"
  <2>1. s = RawIp!NewSocket(platform, publication, config, k, where)
    BY <1>2 DEF NewSocket
  <2>2. CASE platform = "windows"
    <3>1. s = RawIp!open_windows_raw_ipv4_socket(selection, RawIp!ProtocolOf(k))
      BY <2>1, <2>2 DEF RawIp!NewSocket
    <3>2. s.kind = "raw4" /\ s.device = None /\ s.unicast_if = selection.index
      BY <3>1 DEF RawIp!open_windows_raw_ipv4_socket, RawIp!BareSocket
    <3> QED
      BY <1>2, <2>2, <3>2 DEF OfPublication
  <2>3. CASE platform # "windows"
    <3>1. PICK h, c :
            s = [RawIp!open_unix_raw_socket(publication.family, selection, RawIp!ProtocolOf(k))
                   EXCEPT !.hops = h, !.traffic_class = c]
      BY <2>1, <2>3 DEF RawIp!NewSocket
    <3>2. /\ s.kind = IF publication.family = 4 THEN "raw4" ELSE "raw6"
          /\ s.device = selection.index
      BY <3>1 DEF RawIp!open_unix_raw_socket, RawIp!BareSocket
    <3> QED
      BY <1>2, <2>3, <3>2 DEF OfPublication
  <2> QED
    BY <2>2, <2>3
<1> QED
  BY <1>1, <1>2 DEF GoodPublication

\* What each backend does with a datagram it takes.
Takes(d, p) ==
  \/ /\ api = "raw" /\ publication.backend = "raw4" /\ d.version = 4 /\ d.total_len = d.len
     /\ p.key = None /\ p.packet = Raw!apply_ttl_or_hop_limit_override(d, config.ttl)
  \/ /\ api = "raw" /\ publication.backend = "raw4_cached" /\ d.version = 4
     /\ d.total_len = d.len
     /\ p.key = Key(d.protocol, None, None)
     /\ p.packet = IF platform = "macos" THEN Raw!prepare_macos_ipv4_header_for_send(d, config.ttl)
                   ELSE Raw!apply_ttl_or_hop_limit_override(d, config.ttl)
  \/ /\ api = "raw" /\ publication.backend \in {"packet6", "bpf6"} /\ d.version = 6
     /\ p.key = IF publication.backend = "bpf6" THEN None ELSE Key(None, None, None)
     /\ config.ttl \in {None, d.ttl} /\ p.packet = d
  \/ /\ api = "raw_ip" /\ publication.backend = "ip4" /\ d.version = 4 /\ publication.family = 4
     /\ d.total_len = d.len /\ d.checksum = "valid" /\ p.key = None /\ p.packet = d
  \/ /\ api = "raw_ip" /\ publication.backend = "ip4_cached" /\ d.version = 4
     /\ publication.family = 4 /\ d.total_len = d.len
     /\ p.key = Key(d.protocol, None, None) /\ d.checksum = "valid"
     /\ p.packet = IF platform = "macos" THEN RawIp!prepare_macos_ipv4_header(d) ELSE d
  \/ /\ api = "raw_ip" /\ publication.backend = "ip6" /\ d.version = 6 /\ publication.family = 6
     /\ p.key = RawIp!Ipv6Key(d) /\ p.packet = d /\ d.src = publication.selection.bind

\* A datagram that is accepted is taken by the backend of the publication.
LEMMA PlanTakes ==
  ASSUME NEW d, GoodPublication(publication), Backed(publication),
         publication.backend # "route6", PlanFor(d).error = "ok"
  PROVE  Takes(d, PlanFor(d))
<1> DEFINE p == PlanFor(d)
<1>1. CASE api = "raw"
  <2>1. p = Raw!send_raw_ip_datagram(platform, publication, config, d)
    BY <1>1 DEF PlanFor
  <2>2. ASSUME NEW e PROVE p # Raw!Rejected(e) \/ e = "ok"
    BY DEF Raw!Rejected
  <2>3. \/ publication.backend = "raw4" /\ p = Raw!send_linux_raw_ipv4_datagram(config, d)
        \/ /\ publication.backend = "packet6"
           /\ p = Raw!send_full_header_ipv6(Raw!PacketKey, config, d)
        \/ publication.backend = "bpf6" /\ p = Raw!send_full_header_ipv6(None, config, d)
        \/ publication.backend = "raw4_cached" /\ p = Raw!send_cached_raw_ipv4(platform, config, d)
    BY <1>1, <2>1, <2>2 DEF Raw!send_raw_ip_datagram, GoodPublication
  <2>9. d.total_len = d.len
    <3>1. Raw!parse_raw_ip_datagram(d)
      BY <2>1, <2>2 DEF Raw!send_raw_ip_datagram
    <3> QED
      BY <3>1 DEF Raw!parse_raw_ip_datagram, Raw!parse_ipv4_datagram, Raw!parse_ipv6_datagram
  <2> HIDE DEF p
  <2>4. CASE publication.backend = "raw4" /\ p = Raw!send_linux_raw_ipv4_datagram(config, d)
    <3>1. /\ d.version = 4
          /\ p = Raw!Planned(None, Raw!apply_ttl_or_hop_limit_override(d, config.ttl), 0)
      BY <2>2, <2>4 DEF Raw!send_linux_raw_ipv4_datagram
    <3> QED
      BY <1>1, <2>4, <2>9, <3>1 DEF Raw!Planned, Takes, p
  <2>5. ASSUME NEW k, p = Raw!send_full_header_ipv6(k, config, d)
        PROVE  d.version = 6 /\ config.ttl \in {None, d.ttl} /\ p.key = k /\ p.packet = d
    <3>1. /\ d.version = 6 /\ Raw!ensure_ipv6_header_is_not_overridden(d, config)
          /\ p = Raw!Planned(k, d, 0)
      BY <2>2, <2>5 DEF Raw!send_full_header_ipv6
    <3> QED
      BY <3>1 DEF Raw!Planned, Raw!ensure_ipv6_header_is_not_overridden
  <2>6. CASE publication.backend = "packet6" /\ p = Raw!send_full_header_ipv6(Raw!PacketKey, config, d)
    BY <1>1, <2>5, <2>6 DEF Raw!PacketKey, Raw!Key, Key, Takes, p
  <2>7. CASE publication.backend = "bpf6" /\ p = Raw!send_full_header_ipv6(None, config, d)
    BY <1>1, <2>5, <2>7 DEF Takes, p
  <2>8. CASE publication.backend = "raw4_cached" /\ p = Raw!send_cached_raw_ipv4(platform, config, d)
    <3>1. /\ d.version = 4
          /\ p = Raw!Planned(Raw!Key(d.protocol, None, None),
                             IF platform = "macos"
                             THEN Raw!prepare_macos_ipv4_header_for_send(d, config.ttl)
                             ELSE Raw!apply_ttl_or_hop_limit_override(d, config.ttl), 0)
      BY <2>2, <2>8 DEF Raw!send_cached_raw_ipv4
    <3> QED
      BY <1>1, <2>8, <2>9, <3>1 DEF Raw!Planned, Raw!Key, Key, Takes, p
  <2> QED
    BY <2>3, <2>4, <2>6, <2>7, <2>8
<1>2. CASE api = "raw_ip"
  <2>1. p = RawIp!send_ip_datagram(platform, publication, d)
    BY <1>2 DEF PlanFor
  <2>2. ASSUME NEW e PROVE p # RawIp!Rejected(e) \/ e = "ok"
    BY DEF RawIp!Rejected
  <2>3. /\ RawIp!parse_complete_ip_datagram(d) /\ d.version = publication.family
        /\ p = CASE publication.backend = "ip6" -> RawIp!send_unix_raw_ipv6_datagram(publication, d)
                 [] publication.backend = "ip4" -> RawIp!Planned(None, d, 0)
                 [] publication.backend = "ip4_cached" ->
                      RawIp!Planned(RawIp!Key(d.protocol, None, None),
                                    IF platform = "macos" THEN RawIp!prepare_macos_ipv4_header(d)
                                    ELSE d, 0)
    BY <2>1, <2>2 DEF RawIp!send_ip_datagram
  <2>4. (d.version = 4 /\ RawIp!parse_ipv4_datagram(d)) \/ d.version = 6
    BY <2>3 DEF RawIp!parse_complete_ip_datagram
  <2>5. publication.backend \in {"ip4", "ip4_cached", "ip6"}
    BY <1>2 DEF GoodPublication
  <2>6. publication.backend = "ip6" <=> publication.family = 6
    BY <1>2 DEF Backed
  <2> HIDE DEF p
  <2>7. CASE publication.backend = "ip6"
    <3>1. p = RawIp!send_unix_raw_ipv6_datagram(publication, d)
      BY <2>3, <2>7
    <3>2. d.src = publication.selection.bind
          /\ \E scope : p = RawIp!Planned(RawIp!Ipv6Key(d), d, scope)
      BY <2>2, <3>1 DEF RawIp!send_unix_raw_ipv6_datagram, RawIp!validate_unix_ipv6_source
    <3>3. p.key = RawIp!Ipv6Key(d) /\ p.packet = d
      BY <3>2 DEF RawIp!Planned
    <3> QED
      BY <1>2, <2>3, <2>6, <2>7, <3>2, <3>3 DEF Takes, p
  <2>8. CASE publication.backend = "ip4"
    <3>1. p.key = None /\ p.packet = d
      BY <2>3, <2>8 DEF RawIp!Planned
    <3> QED
      BY <1>2, <2>3, <2>4, <2>6, <2>8, <3>1 DEF RawIp!parse_ipv4_datagram, Takes, p
  <2>9. CASE publication.backend = "ip4_cached"
    <3>1. /\ p.key = Key(d.protocol, None, None)
          /\ p.packet = IF platform = "macos" THEN RawIp!prepare_macos_ipv4_header(d) ELSE d
      BY <2>3, <2>9 DEF RawIp!Planned, RawIp!Key, Key
    <3>2. d.version = 4 /\ publication.family = 4 /\ d.checksum = "valid" /\ d.total_len = d.len
      BY <2>3, <2>4, <2>6, <2>9 DEF RawIp!parse_ipv4_datagram
    <3> QED
      BY <1>2, <2>9, <3>1, <3>2 DEF Takes, p
  <2> QED
    BY <2>5, <2>7, <2>8, <2>9
<1> QED
  BY <1>1, <1>2 DEF GoodPublication

\* Only the backends that keep a socket send without a key.
LEMMA KeylessSends ==
  ASSUME NEW d \in Datagrams, NEW p, Takes(d, p), p.key = None
  PROVE  publication.backend \in {"raw4", "bpf6", "ip4"}
<1>1. /\ Key(None, None, None) # None /\ Key(d.protocol, None, None) # None
      /\ RawIp!Ipv6Key(d) # None
  BY DatagramTypes
<1> QED
  BY <1>1 DEF Takes

\* A header with another TTL, checksum, flow label and byte order, field by field.
Rewritten(d, ttl, checksum, flow, order) ==
  [version |-> d.version, len |-> d.len, header_len |-> d.header_len,
   total_len |-> d.total_len, checksum |-> checksum, src |-> d.src, dst |-> d.dst,
   protocol |-> d.protocol, ttl |-> ttl, traffic_class |-> d.traffic_class,
   flow |-> flow, order |-> order]

\* The updates of the code.
LEMMA RewrittenFields ==
  ASSUME NEW d \in Datagrams, NEW ttl, NEW checksum
  PROVE  /\ d = Rewritten(d, d.ttl, d.checksum, d.flow, "network")
         /\ [d EXCEPT !.ttl = ttl, !.checksum = checksum] =
              Rewritten(d, ttl, checksum, d.flow, "network")
         /\ [d EXCEPT !.ttl = ttl, !.order = "host", !.checksum = "zero"] =
              Rewritten(d, ttl, "zero", d.flow, "host")
         /\ [d EXCEPT !.order = "host", !.checksum = "zero"] =
              Rewritten(d, d.ttl, "zero", d.flow, "host")
<1>1. d = Rewritten(d, d.ttl, d.checksum, d.flow, "network")
  BY DatagramTypes DEF Rewritten
<1>2. [d EXCEPT !.ttl = ttl, !.checksum = checksum] = Rewritten(d, ttl, checksum, d.flow, "network")
  <2>1. [d EXCEPT !.ttl = ttl, !.checksum = checksum] =
          [[d EXCEPT !.ttl = ttl] EXCEPT !.checksum = checksum]
    OBVIOUS
  <2>2. [d EXCEPT !.ttl = ttl] = Rewritten(d, ttl, d.checksum, d.flow, "network")
    BY <1>1 DEF Rewritten
  <2>3. [Rewritten(d, ttl, d.checksum, d.flow, "network") EXCEPT !.checksum = checksum] =
          Rewritten(d, ttl, checksum, d.flow, "network")
    BY DEF Rewritten
  <2> QED
    BY <2>1, <2>2, <2>3
<1>3. [d EXCEPT !.ttl = ttl, !.order = "host", !.checksum = "zero"] =
        Rewritten(d, ttl, "zero", d.flow, "host")
  <2>1. [d EXCEPT !.ttl = ttl, !.order = "host", !.checksum = "zero"] =
          [[[d EXCEPT !.ttl = ttl] EXCEPT !.order = "host"] EXCEPT !.checksum = "zero"]
    OBVIOUS
  <2>2. [d EXCEPT !.ttl = ttl] = Rewritten(d, ttl, d.checksum, d.flow, "network")
    BY <1>1 DEF Rewritten
  <2>3. [Rewritten(d, ttl, d.checksum, d.flow, "network") EXCEPT !.order = "host"] =
          Rewritten(d, ttl, d.checksum, d.flow, "host")
    BY DEF Rewritten
  <2>4. [Rewritten(d, ttl, d.checksum, d.flow, "host") EXCEPT !.checksum = "zero"] =
          Rewritten(d, ttl, "zero", d.flow, "host")
    BY DEF Rewritten
  <2> QED
    BY <2>1, <2>2, <2>3, <2>4
<1>4. [d EXCEPT !.order = "host", !.checksum = "zero"] =
        Rewritten(d, d.ttl, "zero", d.flow, "host")
  <2>1. [d EXCEPT !.order = "host", !.checksum = "zero"] =
          [[d EXCEPT !.order = "host"] EXCEPT !.checksum = "zero"]
    OBVIOUS
  <2>2. [d EXCEPT !.order = "host"] = Rewritten(d, d.ttl, d.checksum, d.flow, "host")
    BY <1>1 DEF Rewritten
  <2>3. [Rewritten(d, d.ttl, d.checksum, d.flow, "host") EXCEPT !.checksum = "zero"] =
          Rewritten(d, d.ttl, "zero", d.flow, "host")
    BY DEF Rewritten
  <2> QED
    BY <2>1, <2>2, <2>3
<1> QED
  BY <1>1, <1>2, <1>3, <1>4

\* The update of HeaderFor.
LEMMA RewrittenFlow ==
  ASSUME NEW d \in Datagrams, NEW ttl, NEW checksum, NEW flow
  PROVE  [d EXCEPT !.ttl = ttl, !.checksum = checksum, !.flow = flow] =
           Rewritten(d, ttl, checksum, flow, "network")
<1>1. [d EXCEPT !.ttl = ttl, !.checksum = checksum, !.flow = flow] =
        [[d EXCEPT !.ttl = ttl, !.checksum = checksum] EXCEPT !.flow = flow]
  OBVIOUS
<1>2. [d EXCEPT !.ttl = ttl, !.checksum = checksum] =
        Rewritten(d, ttl, checksum, d.flow, "network")
  BY RewrittenFields
<1>3. [Rewritten(d, ttl, checksum, d.flow, "network") EXCEPT !.flow = flow] =
        Rewritten(d, ttl, checksum, flow, "network")
  BY DEF Rewritten
<1> QED
  BY <1>1, <1>2, <1>3

\* The header the kernel builds for a raw IPv6 socket.
LEMMA RewrittenByKernel ==
  ASSUME NEW d \in Datagrams, NEW ttl, NEW flow
  PROVE  [d EXCEPT !.src = d.src, !.protocol = d.protocol,
                   !.traffic_class = d.traffic_class, !.flow = flow, !.ttl = ttl] =
           Rewritten(d, ttl, d.checksum, flow, "network")
<1>1. d = Rewritten(d, d.ttl, d.checksum, d.flow, "network")
  BY RewrittenFields
<1>2. [d EXCEPT !.src = d.src, !.protocol = d.protocol,
                !.traffic_class = d.traffic_class, !.flow = flow, !.ttl = ttl] =
        [[[[[d EXCEPT !.src = d.src] EXCEPT !.protocol = d.protocol] EXCEPT
             !.traffic_class = d.traffic_class] EXCEPT !.flow = flow] EXCEPT !.ttl = ttl]
  OBVIOUS
<1>3. /\ [d EXCEPT !.src = d.src] = d /\ [d EXCEPT !.protocol = d.protocol] = d
      /\ [d EXCEPT !.traffic_class = d.traffic_class] = d
  BY <1>1 DEF Rewritten
<1>4. [d EXCEPT !.flow = flow] = Rewritten(d, d.ttl, d.checksum, flow, "network")
  BY <1>1 DEF Rewritten
<1>5. [Rewritten(d, d.ttl, d.checksum, flow, "network") EXCEPT !.ttl = ttl] =
        Rewritten(d, ttl, d.checksum, flow, "network")
  BY DEF Rewritten
<1> QED
  BY <1>2, <1>3, <1>4, <1>5

\* Darwin's kernel undoes what the macOS branches prepare for it.
LEMMA DarwinRestores ==
  ASSUME NEW d, NEW ttl, NEW flow, NEW s, s.kind = "raw4"
  PROVE  OnTheWire("macos", s, Rewritten(d, ttl, "zero", flow, "host")) =
           Rewritten(d, ttl, "valid", flow, "network")
<1> DEFINE packet == Rewritten(d, ttl, "zero", flow, "host")
<1>1. packet.order = "host"
  BY DEF Rewritten
<1>2. [packet EXCEPT !.order = "network"] = Rewritten(d, ttl, "zero", flow, "network")
  BY DEF Rewritten
<1>5. [Rewritten(d, ttl, "zero", flow, "network") EXCEPT !.checksum = "valid"] =
        Rewritten(d, ttl, "valid", flow, "network")
  BY DEF Rewritten
<1> HIDE DEF packet
<1>3. OnTheWire("macos", s, packet) =
        [packet EXCEPT !.order = IF packet.order = "host" THEN "network" ELSE "swapped",
                       !.checksum = "valid"]
  BY DEF OnTheWire
<1>4. OnTheWire("macos", s, packet) = [[packet EXCEPT !.order = "network"] EXCEPT !.checksum = "valid"]
  BY <1>1, <1>3
<1> QED
  BY <1>2, <1>4, <1>5 DEF packet

\* Linux changes the length only of a header that claims another one.
LEMMA LinuxCompletes ==
  ASSUME NEW d, d.total_len = d.len, NEW ttl, NEW checksum, NEW flow, NEW s, s.kind = "raw4"
  PROVE  OnTheWire("linux", s, Rewritten(d, ttl, checksum, flow, "network")) =
           Rewritten(d, ttl, "valid", flow, "network")
<1> DEFINE packet == Rewritten(d, ttl, checksum, flow, "network")
<1>1. [packet EXCEPT !.total_len = packet.len] = packet
  BY DEF Rewritten
<1>2. [packet EXCEPT !.checksum = "valid"] = Rewritten(d, ttl, "valid", flow, "network")
  BY DEF Rewritten
<1> HIDE DEF packet
<1>3. OnTheWire("linux", s, packet) = [packet EXCEPT !.total_len = packet.len, !.checksum = "valid"]
  BY DEF OnTheWire
<1>4. OnTheWire("linux", s, packet) =
        [[packet EXCEPT !.total_len = packet.len] EXCEPT !.checksum = "valid"]
  BY <1>3
<1> QED
  BY <1>1, <1>2, <1>4 DEF packet

\* What HeaderKept demands, field by field.
LEMMA HeaderForFields ==
  ASSUME NEW d \in Datagrams, NEW left
  PROVE  LET rebuilt == api = "raw_ip" /\ d.version = 6
             ttl == CASE api = "raw" /\ config.ttl # None -> config.ttl
                      [] rebuilt /\ is_multicast(d.dst) -> left.ttl
                      [] OTHER -> d.ttl
             computed == ttl # d.ttl \/ platform \in {"linux", "macos"}
         IN  HeaderFor(d, left) =
               Rewritten(d, ttl, IF d.version = 4 /\ computed THEN "valid" ELSE d.checksum,
                         IF rebuilt THEN left.flow ELSE d.flow, "network")
<1> DEFINE rebuilt == api = "raw_ip" /\ d.version = 6
           ttl == CASE api = "raw" /\ config.ttl # None -> config.ttl
                    [] rebuilt /\ is_multicast(d.dst) -> left.ttl
                    [] OTHER -> d.ttl
           checksum == IF d.version = 4 /\ (ttl # d.ttl \/ platform \in {"linux", "macos"})
                       THEN "valid" ELSE d.checksum
           flow == IF rebuilt THEN left.flow ELSE d.flow
<1>1. HeaderFor(d, left) = [d EXCEPT !.ttl = ttl, !.checksum = checksum, !.flow = flow]
  BY Zenon DEF HeaderFor
<1>2. [d EXCEPT !.ttl = ttl, !.checksum = checksum, !.flow = flow] =
        Rewritten(d, ttl, checksum, flow, "network")
  <2> HIDE DEF ttl, checksum, flow, rebuilt
  <2> QED
    BY RewrittenFlow
<1> QED
  BY <1>1, <1>2, Zenon

\* The TTL override of Linux and Windows.
LEMMA OverrideFields ==
  ASSUME NEW d \in Datagrams, NEW ttl
  PROVE  Raw!apply_ttl_or_hop_limit_override(d, ttl) =
           IF ttl = None \/ ttl = d.ttl THEN Rewritten(d, d.ttl, d.checksum, d.flow, "network")
           ELSE Rewritten(d, ttl, "valid", d.flow, "network")
BY RewrittenFields DEF Raw!apply_ttl_or_hop_limit_override

\* Between the plan and the kernel the header comes out as HeaderKept demands,
\* whichever backend, platform and socket the datagram went through.
LEMMA HeaderLeaves ==
  ASSUME NEW d \in Datagrams, NEW p, Takes(d, p), NEW s, GoodPublication(publication),
         Backed(publication), OfPublication(s), p.key # None => FitsKey(s, p.key),
         platform \in Platforms, NEW left, left = OnTheWire(platform, s, p.packet)
  PROVE  left = HeaderFor(d, left)
<1> DEFINE asked == IF config.ttl = None THEN d.ttl ELSE config.ttl
<1>1. ASSUME s.kind = "raw4", platform \notin {"linux", "macos"} PROVE left = p.packet
  BY <1>1 DEF OnTheWire
<1>2. d = Rewritten(d, d.ttl, d.checksum, d.flow, "network")
  BY RewrittenFields
<1>3. ASSUME api = "raw"
      PROVE  HeaderFor(d, left) =
               Rewritten(d, asked,
                         IF d.version = 4 /\ (asked # d.ttl \/ platform \in {"linux", "macos"})
                         THEN "valid" ELSE d.checksum, d.flow, "network")
  BY <1>3, HeaderForFields
<1>4. ASSUME api = "raw_ip", d.version = 4
      PROVE  HeaderFor(d, left) =
               Rewritten(d, d.ttl, IF platform \in {"linux", "macos"} THEN "valid" ELSE d.checksum,
                         d.flow, "network")
  BY <1>4, HeaderForFields
<1>5. CASE /\ api = "raw" /\ publication.backend \in {"raw4", "raw4_cached"} /\ d.version = 4
           /\ platform # "macos" /\ d.total_len = d.len
           /\ p.packet = Raw!apply_ttl_or_hop_limit_override(d, config.ttl)
  <2>1. s.kind = "raw4"
    BY <1>5 DEF OfPublication, GoodPublication
  <2>2. PICK checksum : /\ p.packet = Rewritten(d, asked, checksum, d.flow, "network")
                        /\ checksum = IF asked # d.ttl THEN "valid" ELSE d.checksum
    BY <1>5, OverrideFields
  <2>3. CASE platform = "linux"
    <3>1. left = Rewritten(d, asked, "valid", d.flow, "network")
      <4> HIDE DEF asked
      <4> QED
        BY <1>5, <2>1, <2>2, <2>3, LinuxCompletes
    <3> QED
      BY <1>3, <1>5, <2>3, <3>1
  <2>4. CASE platform # "linux"
    BY <1>1, <1>3, <1>5, <2>1, <2>2, <2>4
  <2> QED
    BY <2>3, <2>4
<1>6. CASE /\ api = "raw" /\ publication.backend = "raw4_cached" /\ d.version = 4
           /\ platform = "macos"
           /\ p.packet = Raw!prepare_macos_ipv4_header_for_send(d, config.ttl)
  <2>1. s.kind = "raw4"
    BY <1>6 DEF OfPublication, GoodPublication
  <2>2. p.packet = Rewritten(d, asked, "zero", d.flow, "host")
    <3>1. p.packet = [d EXCEPT !.ttl = asked, !.order = "host", !.checksum = "zero"]
      BY <1>6 DEF Raw!prepare_macos_ipv4_header_for_send
    <3> HIDE DEF asked
    <3> QED
      BY <3>1, RewrittenFields
  <2>3. HeaderFor(d, left) = Rewritten(d, asked, "valid", d.flow, "network")
    BY <1>3, <1>6
  <2> HIDE DEF asked
  <2> QED
    BY <1>6, <2>1, <2>2, <2>3, DarwinRestores
<1>7. CASE /\ api = "raw" /\ publication.backend \in {"packet6", "bpf6"} /\ d.version = 6
           /\ config.ttl \in {None, d.ttl} /\ p.packet = d
  <2>1. s.kind \in {"packet", "bpf"}
    BY <1>7 DEF OfPublication, GoodPublication
  <2>2. left = d
    BY <1>7, <2>1 DEF OnTheWire
  <2> QED
    BY <1>2, <1>3, <1>7, <2>2
<1>8. CASE /\ api = "raw_ip" /\ d.version = 4 /\ publication.family = 4 /\ d.total_len = d.len
           /\ platform # "macos" /\ p.packet = d
  <2>1. s.kind = "raw4"
    BY <1>8 DEF OfPublication
  <2>2. CASE platform = "linux"
    <3>1. left = Rewritten(d, d.ttl, "valid", d.flow, "network")
      BY <1>2, <1>8, <2>1, <2>2, LinuxCompletes
    <3> QED
      BY <1>4, <1>8, <2>2, <3>1
  <2>3. CASE platform # "linux"
    BY <1>1, <1>2, <1>4, <1>8, <2>1, <2>3
  <2> QED
    BY <2>2, <2>3
<1>9. CASE /\ api = "raw_ip" /\ d.version = 4 /\ publication.family = 4
           /\ platform = "macos" /\ p.packet = RawIp!prepare_macos_ipv4_header(d)
  <2>1. s.kind = "raw4"
    BY <1>9 DEF OfPublication
  <2>2. p.packet = Rewritten(d, d.ttl, "zero", d.flow, "host")
    BY <1>9, RewrittenFields DEF RawIp!prepare_macos_ipv4_header
  <2>3. HeaderFor(d, left) = Rewritten(d, d.ttl, "valid", d.flow, "network")
    BY <1>4, <1>9
  <2> QED
    BY <1>9, <2>1, <2>2, <2>3, DarwinRestores
<1>10. CASE /\ api = "raw_ip" /\ publication.backend = "ip6" /\ d.version = 6
            /\ publication.family = 6 /\ p.key = RawIp!Ipv6Key(d) /\ p.packet = d
            /\ d.src = publication.selection.bind
  <2>1. s.kind = "raw6"
    BY <1>10 DEF OfPublication, GoodPublication
  <2>2. p.key # None
    BY <1>10, DatagramTypes
  <2>3. /\ s.bind = d.src /\ s.protocol = d.protocol /\ s.hops = d.ttl
        /\ s.traffic_class = d.traffic_class
    BY <1>10, <2>1, <2>2 DEF FitsKey, RawIp!Ipv6Key, RawIp!Key
  <2> DEFINE hops == IF is_multicast(d.dst) THEN DefaultMulticastHops ELSE d.ttl
  <2>4. left = [d EXCEPT !.src = d.src, !.protocol = d.protocol,
                         !.traffic_class = d.traffic_class, !.flow = OsFlowLabel, !.ttl = hops]
    BY <1>10, <2>1, <2>3 DEF OnTheWire
  <2>5. ~is_multicast(d.dst) => hops = d.ttl
    OBVIOUS
  <2> HIDE DEF hops
  <2>6. left = Rewritten(d, hops, d.checksum, OsFlowLabel, "network")
    BY <2>4, RewrittenByKernel
  <2>7. left.ttl = hops /\ left.flow = OsFlowLabel
    BY <2>6 DEF Rewritten
  <2>8. HeaderFor(d, left) = Rewritten(d, hops, d.checksum, OsFlowLabel, "network")
    BY <1>10, <2>5, <2>7, HeaderForFields
  <2> QED
    BY <2>6, <2>8
<1>11. publication.backend \in {"raw4", "ip4"} => platform # "macos"
  BY DEF Backed
<1> QED
  BY <1>5, <1>6, <1>7, <1>8, <1>9, <1>10, <1>11 DEF Takes

\* The device of a socket, or IP_UNICAST_IF, ties a datagram to the interface of
\* the selection; IP_MULTICAST_IF to where the selected address has been.
LEMMA EgressLeaves ==
  ASSUME NEW s, NEW dst, NEW routed, GoodPublication(publication), OfPublication(s), LookInv,
         publication.selection.index # None,
         api = "raw" /\ publication.family = 4 => is_multicast(dst),
         api = "raw_ip" /\ platform = "windows" => ~is_multicast(dst)
  PROVE  IF api = "raw" /\ publication.family = 4
         THEN LeavesBy(s, dst, routed) \in since[publication.selection.addr]
         ELSE LeavesBy(s, dst, routed) = publication.selection.index
<1> DEFINE index == publication.selection.index
<1>1. CASE api = "raw" /\ publication.family = 4
  <2>1. /\ s.device = None /\ publication.selection.addr \in OwnAddresses
        /\ s.multicast_if \in since[publication.selection.addr]
    BY <1>1 DEF OfPublication
  <2>2. since[publication.selection.addr] \subseteq Interfaces \cup {0}
    BY <2>1 DEF LookInv
  <2>3. None \notin Interfaces \cup {0}
    <3>1. 0 # None
      BY RawInterfaces
    <3>2. Interfaces \subseteq Nat /\ None \notin Nat
      BY RawInterfaces
    <3>3. None \notin Interfaces
      BY <3>2, Zenon
    <3> QED
      BY <3>1, <3>3, Zenon
  <2>4. s.multicast_if # None
    BY <2>1, <2>2, <2>3
  <2>5. LeavesBy(s, dst, routed) = s.multicast_if
    BY <1>1, <2>1, <2>4 DEF LeavesBy
  <2> QED
    BY <1>1, <2>1, <2>5
<1>2. CASE s.device = index /\ ~(api = "raw" /\ publication.family = 4)
  BY <1>2 DEF LeavesBy
<1>3. CASE api = "raw_ip" /\ platform = "windows"
  <2>1. s.device = None /\ s.unicast_if = index
    BY <1>3 DEF OfPublication
  <2> QED
    BY <1>3, <2>1 DEF LeavesBy
<1> QED
  BY <1>1, <1>2, <1>3 DEF GoodPublication, OfPublication

\* The history of an address only grows.
Grows == \A ip \in OwnAddresses : since[ip] \subseteq since'[ip]

\* What addresses that move leave as it was.
LEMMA MovesKeep ==
  ASSUME UNCHANGED fixed, Grows
  PROVE  /\ \A s : OfPublication(s) => OfPublication(s)'
         /\ \A at, d, p, s : SendFits(at, d, p, s) => SendFits(at, d, p, s)'
         /\ Backed(publication) => Backed(publication)'
<1>1. ASSUME NEW s, OfPublication(s) PROVE OfPublication(s)'
  BY <1>1 DEF OfPublication, fixed, Grows
<1>2. ASSUME NEW d PROVE PlanFor(d)' = PlanFor(d)
  BY DEF PlanFor, fixed
<1>3. ASSUME NEW at, NEW d, NEW p, NEW s, SendFits(at, d, p, s) PROVE SendFits(at, d, p, s)'
  BY <1>1, <1>2, <1>3, FixedKeepsFits DEF SendFits, fixed
<1>4. Backed(publication) => Backed(publication)'
  BY DEF Backed, fixed
<1> QED
  BY <1>1, <1>3, <1>4

\* The selection stays the one that was made of the answers.
LEMMA MovesKeepOpening ==
  ASSUME OpeningInv, UNCHANGED fixed, UNCHANGED eager, Grows, LookInv',
         stage # "configured" => UNCHANGED answers
  PROVE  OpeningInv'
<1>1. Chosen'
  BY DEF OpeningInv, Chosen, fixed
<1>2. /\ UNCHANGED <<SelectorIndex, SelectorAddrs, EgressAddr>>
      /\ SelectorAddrs \subseteq OwnAddresses
  BY DEF SelectorIndex, SelectorAddrs, EgressAddr, fixed
<1>3. ASSUME stage \in {"resolved", "ready"} PROVE Selected(publication)'
  <2>1. UNCHANGED <<api, publication, answers>> /\ Selected(publication)
    BY <1>3 DEF fixed, OpeningInv
  <2> QED
    BY <1>2, <2>1 DEF Selected, Grows
<1> QED
  BY <1>1, <1>3, MovesKeep DEF OpeningInv, fixed

\* The same for what was already sent.
LEMMA MovesKeepResult ==
  ASSUME OpeningInv, ResultInv, UNCHANGED fixed, UNCHANGED result, Grows,
         stage # "configured" => UNCHANGED answers
  PROVE  ResultInv'
<1>1. UNCHANGED Delivered /\ HeaderKept'
  <2>1. ASSUME NEW d, NEW left PROVE HeaderFor(d, left)' = HeaderFor(d, left)
    BY DEF HeaderFor, fixed
  <2> QED
    BY <2>1 DEF ResultInv, HeaderKept, Delivered
<1>2. EgressHonoured'
  <2> SUFFICES ASSUME Delivered', Pins' PROVE EgressHonoured'
    BY DEF EgressHonoured
  <2>1. Delivered /\ Pins /\ stage = "ready" /\ Selected(publication)
    BY <1>1 DEF Pins, fixed, ResultInv, OpeningInv
  <2>2. /\ UNCHANGED <<SelectorIndex, SelectorAddrs, EgressAddr, answers, api, publication>>
        /\ SelectorAddrs \subseteq OwnAddresses
    BY <2>1 DEF SelectorIndex, SelectorAddrs, EgressAddr, fixed
  <2>3. api = "raw" /\ publication.family = 4 => EgressAddr \in OwnAddresses
    BY <2>1, <2>2 DEF ResultInv, Pins, Selected
  <2>4. /\ SelectorIndex \in {None, result.report.index}
        /\ \A x \in Selectors : answers[x] \in {None, result.report.index}
        /\ \A ip \in SelectorAddrs : result.report.index \in since[ip]
        /\ IF api = "raw" /\ publication.family = 4 THEN result.by \in since[EgressAddr]
           ELSE result.by = result.report.index
    BY <2>1 DEF ResultInv, EgressHonoured
  <2> QED
    BY <2>2, <2>3, <2>4 DEF EgressHonoured, Grows
<1> QED
  BY <1>1, <1>2 DEF ResultInv, fixed

\* Steps that look nothing up while no address moves.
LEMMA QuietKeepsLook ==
  ASSUME UNCHANGED fixed, UNCHANGED <<where, since, answers>>
  PROVE  Grows /\ (LookInv => LookInv')
<1>1. UNCHANGED lookups
  BY DEF lookups, fixed
<1> QED
  BY <1>1 DEF Grows, LookInv

\* The initial states.
LEMMA InitSendInv == Init => SendInv
<1> SUFFICES ASSUME Init PROVE SendInv
  OBVIOUS
<1>1. LookInv
  <2>1. answers \in [Selectors -> {None}]
    BY DEF Init, BySelector, Selectors
  <2>2. since = [ip \in OwnAddresses |-> {}] /\ where \in [OwnAddresses -> Interfaces \cup {0}]
    BY RawInterfaces DEF Init
  <2> QED
    BY <2>1, <2>2 DEF LookInv
<1>2. OpeningInv
  BY <1>1 DEF Init, OpeningInv, Chosen
<1>3. Cached(cache) = {}
  BY InitInv DEF Init, Inv, PublicationInv
<1>4. SendsInv
  BY DEF Init, SendsInv, SendFits
<1>5. ~Delivered
  BY DEF Init, Nothing, Delivered
<1> QED
  BY <1>2, <1>3, <1>4, <1>5 DEF SendInv, OwnSockets, ResultInv, HeaderKept, EgressHonoured

\* An own address moves.
LEMMA MoveKeepsSendInv ==
  ASSUME Inv, SendInv, NEW ip \in OwnAddresses, NEW i \in Interfaces \cup {0}, Move(ip, i)
  PROVE  SendInv'
<1>1. /\ UNCHANGED fixed /\ UNCHANGED <<answers, eager, cache, pc, datagram, plan, held, result>>
      /\ where' = [where EXCEPT ![ip] = i]
      /\ since' = IF since[ip] = {} THEN since ELSE [since EXCEPT ![ip] = @ \cup {i}]
  BY DEF Move, fixed, opening, sending
<1>2. LookInv
  BY DEF SendInv, OpeningInv
<1>3. Grows
  BY <1>1, <1>2 DEF Grows, LookInv
<1>4. LookInv'
  <2>1. UNCHANGED lookups
    BY <1>1 DEF lookups, fixed
  <2>2. /\ where' \in [OwnAddresses -> Interfaces \cup {0}]
        /\ since' \in [OwnAddresses -> SUBSET (Interfaces \cup {0})]
    BY <1>1, <1>2 DEF LookInv
  <2>3. \A own \in OwnAddresses : since'[own] # {} => where'[own] \in since'[own]
    BY <1>1, <1>2 DEF LookInv
  <2> QED
    BY <1>1, <1>2, <1>3, <2>1, <2>2, <2>3 DEF LookInv, Grows
<1>5. OpeningInv' /\ ResultInv'
  BY <1>1, <1>3, <1>4, MovesKeepOpening, MovesKeepResult DEF SendInv
<1>6. OwnSockets' /\ SendsInv'
  BY <1>1, <1>3, MovesKeep DEF SendInv, OwnSockets, SendsInv, Cached
<1> QED
  BY <1>5, <1>6 DEF SendInv

\* A selector is looked up.
LEMMA LookUpKeepsSendInv ==
  ASSUME Inv, SendInv, NEW x \in Selectors, LookUp(x)
  PROVE  SendInv'
<1> DEFINE ip == lookups[x]
<1>1. /\ UNCHANGED fixed /\ UNCHANGED <<where, eager, cache, pc, datagram, plan, held, result>>
      /\ stage = "configured" /\ x \in Pending
      /\ answers' = [answers EXCEPT ![x] = InterfaceOf(ip, where)]
      /\ since' = IF ip \notin OwnAddresses THEN since
                  ELSE [since EXCEPT ![ip] = @ \cup {where[ip]}]
  BY DEF LookUp, fixed, sending
<1>2. LookInv /\ UNCHANGED lookups /\ ip # None
  BY <1>1 DEF SendInv, OpeningInv, lookups, fixed, Pending
<1>3. InterfaceOf(ip, where) = IF ip \in OwnAddresses THEN where[ip] ELSE 0
  BY DEF InterfaceOf
<1> HIDE DEF ip
<1>4. Grows
  BY <1>1, <1>2 DEF Grows, LookInv
<1>5. LookInv'
  <2>1. since' \in [OwnAddresses -> SUBSET (Interfaces \cup {0})]
    BY <1>1, <1>2 DEF LookInv
  <2>2. answers' \in [Selectors -> Interfaces \cup {0, None}]
    BY <1>1, <1>2, <1>3 DEF LookInv
  <2>3. \A own \in OwnAddresses : since'[own] # {} => where'[own] \in since'[own]
    BY <1>1, <1>2 DEF LookInv
  <2>4. ASSUME NEW y \in Selectors, answers'[y] # None
        PROVE  /\ lookups'[y] # None
               /\ IF lookups'[y] \in OwnAddresses THEN answers'[y] \in since'[lookups'[y]]
                  ELSE answers'[y] = 0
    <3>1. CASE y = x
      BY <1>1, <1>2, <1>3, <3>1 DEF LookInv, ip
    <3>2. CASE y # x
      BY <1>1, <1>2, <1>4, <2>4, <3>2 DEF LookInv, Grows
    <3> QED
      BY <3>1, <3>2
  <2> QED
    BY <1>1, <1>2, <2>1, <2>2, <2>3, <2>4 DEF LookInv
<1>6. OpeningInv' /\ ResultInv'
  <2>1. ~Delivered /\ ~Delivered'
    BY <1>1 DEF SendInv, ResultInv, Delivered
  <2> QED
    BY <1>1, <1>4, <1>5, <2>1, MovesKeepOpening
       DEF SendInv, ResultInv, HeaderKept, EgressHonoured
<1>7. OwnSockets' /\ SendsInv'
  BY <1>1, <1>4, MovesKeep DEF SendInv, OwnSockets, SendsInv, Cached
<1> QED
  BY <1>6, <1>7 DEF SendInv

\* The publication is opened; nothing has been sent yet.
LEMMA OpeningKeepsSendInv ==
  ASSUME Inv, SendInv, Resolve \/ OpenSockets \/ OpenFails
  PROVE  SendInv'
<1>1. /\ UNCHANGED <<api, platform, config, where, since, answers, cache, pc, datagram, plan, held,
                     result>>
      /\ stage \in {"configured", "resolved"}
  BY DEF Resolve, OpenSockets, OpenFails, environment, sending
<1>2. /\ Cached(cache) = {} /\ \A t \in Threads : pc[t] = "idle"
      /\ ~Delivered
  BY <1>1 DEF Inv, PublicationInv, SendInv, ResultInv
<1>3. Cached(cache)' = {} /\ ~Delivered'
  BY <1>1, <1>2 DEF Cached, Delivered
<1>4. OwnSockets' /\ SendsInv' /\ ResultInv'
  BY <1>1, <1>2, <1>3
     DEF SendInv, OwnSockets, SendsInv, SendFits, ResultInv, HeaderKept, EgressHonoured
<1>5. Chosen' /\ LookInv'
  BY <1>1 DEF SendInv, OpeningInv, Chosen, LookInv, lookups
<1>6. UNCHANGED <<SelectorIndex, SelectorAddrs, EgressAddr>>
  BY <1>1 DEF SelectorIndex, SelectorAddrs, EgressAddr
<1>7. CASE Resolve
  <2>1. /\ Pending = {} /\ publication' = open
        /\ stage' = IF open.error = "ok" THEN "resolved" ELSE "refused"
    BY <1>7 DEF Resolve
  <2>2. ASSUME open.error = "ok" PROVE Backed(publication)' /\ Selected(publication)'
    <3>1. Backed(open) /\ Selected(open)
      BY <2>1, <2>2, OpenSelects DEF SendInv, OpeningInv
    <3> QED
      BY <1>1, <1>6, <2>1, <3>1 DEF Backed, Selected
  <2> QED
    BY <1>4, <1>5, <2>1, <2>2 DEF SendInv, OpeningInv
<1>8. CASE OpenSockets
  <2>1. /\ stage = "resolved" /\ UNCHANGED publication
        /\ OpensEagerly => NewSocket(None) # None
        /\ eager' = IF OpensEagerly /\ KeepsEager THEN NewSocket(None) ELSE None
    BY <1>8 DEF OpenSockets
  <2>2. GoodPublication(publication) /\ Backed(publication) /\ Selected(publication)
    BY <2>1 DEF Inv, PublicationInv, SendInv, OpeningInv
  <2>3. Backed(publication)' /\ Selected(publication)'
    BY <1>1, <1>6, <2>1, <2>2 DEF Backed, Selected
  <2>4. ASSUME publication.backend \in {"raw4", "bpf6", "ip4"} PROVE OfPublication(eager)'
    <3>1. OpensEagerly /\ KeepsEager
      BY <2>2, <2>4 DEF OpensEagerly, KeepsEager, Raw!OpensEagerly, Raw!KeepsEager,
                        RawIp!OpensEagerly, RawIp!KeepsEager, GoodPublication
    <3>2. OfPublication(NewSocket(None)) /\ eager' = NewSocket(None)
      BY <2>1, <2>2, <3>1, NewSocketOurs DEF SendInv, OpeningInv
    <3> QED
      BY <1>1, <2>1, <3>2 DEF OfPublication
  <2> QED
    BY <1>4, <1>5, <2>1, <2>3, <2>4 DEF SendInv, OpeningInv
<1>9. CASE OpenFails
  BY <1>4, <1>5, <1>9 DEF OpenFails, SendInv, OpeningInv
<1> QED
  BY <1>7, <1>8, <1>9

\* A step of one thread concerns its own send only.
LEMMA ThreadStep ==
  ASSUME SendsInv, UNCHANGED fixed, UNCHANGED since, NEW t \in Threads,
         DOMAIN datagram' = Threads, DOMAIN held' = Threads,
         \A u \in Threads \ {t} : /\ pc'[u] = pc[u] /\ datagram'[u] = datagram[u]
                                  /\ plan'[u] = plan[u] /\ held'[u] = held[u],
         SendFits(pc'[t], datagram'[t], plan'[t], held'[t])
  PROVE  SendsInv'
<1>1. ASSUME NEW u \in Threads PROVE SendFits(pc[u], datagram[u], plan[u], held[u])'
  <2>1. SendFits(pc'[u], datagram'[u], plan'[u], held'[u])
    BY DEF SendsInv
  <2> DEFINE at == pc'[u]
             d == datagram'[u]
             p == plan'[u]
             s == held'[u]
  <2>2. UNCHANGED <<api, platform, config, publication, since>>
    BY DEF fixed
  <2>3. PlanFor(d) = PlanFor(datagram[u])'
    BY <2>2 DEF PlanFor
  <2>4. OfPublication(s) => OfPublication(held[u])'
    BY <2>2 DEF OfPublication
  <2>5. FitsKey(s, p.key) => FitsKey(held[u], plan[u].key)'
    BY <2>2 DEF FitsKey
  <2> QED
    BY <2>1, <2>2, <2>3, <2>4, <2>5 DEF SendFits
<1> QED
  BY <1>1 DEF SendsInv

\* A send begins.
LEMMA BeginKeepsSendInv ==
  ASSUME Inv, SendInv, NEW t \in Threads, NEW d \in Datagrams, Begin(t, d)
  PROVE  SendInv'
<1> DEFINE p == PlanFor(d)
           s == IF p.key = None THEN eager ELSE None
           at == IF p.key = None THEN "send" ELSE "socket"
<1>1. /\ UNCHANGED fixed /\ UNCHANGED <<where, since, answers, eager, cache, result>>
      /\ stage = "ready" /\ publication.backend # "route6" /\ p.error = "ok"
      /\ datagram' = [datagram EXCEPT ![t] = d] /\ plan' = [plan EXCEPT ![t] = p]
      /\ held' = [held EXCEPT ![t] = s] /\ pc' = [pc EXCEPT ![t] = at]
  BY DEF Begin, fixed, environment, opening
<1>2. SendFits(at, d, p, s)
  <2>1. Takes(d, p)
    BY <1>1, PlanTakes DEF Inv, PublicationInv, SendInv, OpeningInv
  <2>2. p.key = None => OfPublication(eager)
    BY <1>1, <2>1, KeylessSends DEF SendInv, OpeningInv
  <2> QED
    BY <1>1, <2>2 DEF SendFits
<1>3. SendsInv'
  <2> HIDE DEF p, s, at
  <2>1. DOMAIN pc = Threads /\ DOMAIN plan = Threads /\ SendsInv
    BY DEF Inv, ThreadInv, SendInv
  <2> QED
    BY <1>1, <1>2, <2>1, ThreadStep DEF SendsInv
<1>4. OpeningInv' /\ ResultInv'
  BY <1>1, QuietKeepsLook, MovesKeepOpening, MovesKeepResult DEF SendInv, OpeningInv
<1>5. OwnSockets'
  BY <1>1, QuietKeepsLook, MovesKeep DEF SendInv, OwnSockets, Cached
<1> QED
  BY <1>3, <1>4, <1>5 DEF SendInv

\* A datagram is refused.
LEMMA RejectKeepsSendInv ==
  ASSUME Inv, SendInv, NEW t \in Threads, NEW d \in Datagrams, Reject(t, d)
  PROVE  SendInv'
<1>1. /\ UNCHANGED fixed /\ UNCHANGED <<where, since, answers, eager, cache, pc, datagram, plan, held>>
      /\ PlanFor(d).error # "ok" /\ result' = Failed(PlanFor(d).error)
  BY DEF Reject, fixed, environment, opening, sending
<1>2. ~Delivered'
  BY <1>1 DEF Delivered, Failed, Nothing
<1>3. ResultInv'
  BY <1>2 DEF ResultInv, HeaderKept, EgressHonoured
<1>4. OpeningInv'
  BY <1>1, QuietKeepsLook, MovesKeepOpening DEF SendInv, OpeningInv
<1>5. OwnSockets' /\ SendsInv'
  BY <1>1, QuietKeepsLook, MovesKeep DEF SendInv, OwnSockets, SendsInv, Cached
<1> QED
  BY <1>3, <1>4, <1>5 DEF SendInv

\* A thread takes the cached socket of its key.
LEMMA HitKeepsSendInv ==
  ASSUME Inv, SendInv, NEW t \in Threads, CacheHit(t)
  PROVE  SendInv'
<1> DEFINE s == cache.sockets[plan[t].key]
<1>1. /\ UNCHANGED fixed /\ UNCHANGED <<where, since, answers, eager, cache, datagram, plan, result>>
      /\ pc[t] = "socket" /\ plan[t].key \in Cached(cache)
      /\ held' = [held EXCEPT ![t] = s] /\ pc' = [pc EXCEPT ![t] = "send"]
  BY DEF CacheHit, fixed, environment, opening
<1>2. SendFits("send", datagram[t], plan[t], s)
  <2>1. OfPublication(s) /\ FitsKey(s, plan[t].key)
    BY <1>1 DEF Inv, SocketsInv, SendInv, OwnSockets
  <2> QED
    BY <1>1, <2>1 DEF SendInv, SendsInv, SendFits
<1>3. SendsInv'
  <2> HIDE DEF s
  <2>1. DOMAIN pc = Threads /\ DOMAIN plan = Threads /\ SendsInv
    BY DEF Inv, ThreadInv, SendInv
  <2> QED
    BY <1>1, <1>2, <2>1, ThreadStep DEF SendsInv
<1>4. stage = "ready"
  BY <1>1 DEF Inv, PublicationInv
<1>5. OpeningInv' /\ ResultInv'
  BY <1>1, <1>4, QuietKeepsLook, MovesKeepOpening, MovesKeepResult DEF SendInv, OpeningInv
<1>6. OwnSockets'
  BY <1>1, QuietKeepsLook, MovesKeep DEF SendInv, OwnSockets, Cached
<1> QED
  BY <1>3, <1>5, <1>6 DEF SendInv

\* A thread opens the socket of its key and puts it into the cache.
LEMMA MissKeepsSendInv ==
  ASSUME Inv, SendInv, NEW t \in Threads, CacheMiss(t)
  PROVE  SendInv'
<1> DEFINE key == plan[t].key
           s == NewSocket(key)
<1>1. /\ UNCHANGED fixed /\ UNCHANGED <<where, since, answers, eager, datagram, plan, result>>
      /\ pc[t] = "socket" /\ key \notin Cached(cache) /\ s # None
      /\ cache' = get_or_try_insert_with(cache, key, s)
      /\ held' = [held EXCEPT ![t] = s] /\ pc' = [pc EXCEPT ![t] = "send"]
  BY DEF CacheMiss, fixed, environment, opening
<1>2. stage = "ready" /\ GoodPublication(publication) /\ FitsPublication(key)
  BY <1>1 DEF Inv, PublicationInv, ThreadInv
<1>3. FitsKey(s, key) /\ OfPublication(s)
  BY <1>1, <1>2, NewSocketFits, NewSocketOurs DEF SendInv, OpeningInv
<1>4. SendFits("send", datagram[t], plan[t], s)
  BY <1>1, <1>3 DEF SendInv, SendsInv, SendFits
<1> HIDE DEF key, s
<1>5. SendsInv'
  <2>1. DOMAIN pc = Threads /\ DOMAIN plan = Threads /\ SendsInv
    BY DEF Inv, ThreadInv, SendInv
  <2> QED
    BY <1>1, <1>4, <2>1, ThreadStep DEF SendsInv
<1>6. OpeningInv' /\ ResultInv'
  BY <1>1, <1>2, QuietKeepsLook, MovesKeepOpening, MovesKeepResult DEF SendInv, OpeningInv
<1>7. OwnSockets'
  <2>1. /\ cache'.sockets[key] = s
        /\ \A k \in Cached(cache') \ {key} :
             k \in Cached(cache) /\ cache'.sockets[k] = cache.sockets[k]
    BY <1>1, InsertionIsGood DEF Inv
  <2>2. \A k \in Cached(cache') : OfPublication(cache'.sockets[k])
    BY <1>3, <2>1 DEF SendInv, OwnSockets
  <2> QED
    BY <1>1, <2>2 DEF OwnSockets, OfPublication, fixed, Cached
<1> QED
  BY <1>5, <1>6, <1>7 DEF SendInv

\* A thread is done, with an error or with a datagram that left as it should.
LEMMA FinishKeepsSendInv ==
  ASSUME Inv, SendInv, NEW t \in Threads, NEW outcome, pc[t] # "idle",
         Finish(t, outcome), UNCHANGED cache, HeaderKept', EgressHonoured',
         Delivered' => result'.report.index = publication.selection.index
  PROVE  SendInv'
<1>1. /\ UNCHANGED fixed /\ UNCHANGED <<where, since, answers, eager>>
      /\ pc' = [pc EXCEPT ![t] = "idle"] /\ datagram' = [datagram EXCEPT ![t] = None]
      /\ plan' = [plan EXCEPT ![t] = None] /\ held' = [held EXCEPT ![t] = None]
  BY DEF Finish, fixed, environment, opening
<1>2. stage = "ready"
  BY DEF Inv, PublicationInv
<1>3. SendsInv'
  <2>1. DOMAIN pc = Threads /\ DOMAIN plan = Threads /\ SendsInv
    BY DEF Inv, ThreadInv, SendInv
  <2>2. SendFits("idle", None, None, None)
    BY DEF SendFits
  <2> QED
    BY <1>1, <2>1, <2>2, ThreadStep DEF SendsInv
<1>4. OpeningInv'
  BY <1>1, QuietKeepsLook, MovesKeepOpening DEF SendInv, OpeningInv
<1>5. OwnSockets'
  BY <1>1, QuietKeepsLook, MovesKeep DEF SendInv, OwnSockets, Cached
<1>6. ResultInv'
  BY <1>1, <1>2 DEF ResultInv, fixed
<1> QED
  BY <1>3, <1>4, <1>5, <1>6 DEF SendInv

\* A send fails: creating its socket, or the system call.
LEMMA FailureKeepsSendInv ==
  ASSUME Inv, SendInv, NEW t \in Threads, CreateFails(t) \/ TransmitFails(t)
  PROVE  SendInv'
<1>1. PICK error \in {"RawSocketCreateFailed", "RawSendFailed"} : Finish(t, Failed(error))
  BY DEF CreateFails, TransmitFails
<1>2. UNCHANGED cache /\ pc[t] # "idle"
  BY DEF CreateFails, TransmitFails
<1>3. ~Delivered'
  BY <1>1 DEF Finish, Failed, Nothing, Delivered
<1> QED
  BY <1>1, <1>2, <1>3, FinishKeepsSendInv DEF HeaderKept, EgressHonoured

\* A datagram leaves.
LEMMA TransmitKeepsSendInv ==
  ASSUME Inv, SendInv, NEW t \in Threads, NEW routed \in Interfaces, Transmit(t, routed)
  PROVE  SendInv'
<1> DEFINE d == datagram[t]
           p == plan[t]
           s == held[t]
           index == publication.selection.index
           outcome == [error |-> "ok", supplied |-> d,
                       left |-> OnTheWire(platform, s, p.packet),
                       by |-> LeavesBy(s, d.dst, routed), report |-> report(t)]
<1>1. pc[t] = "send" /\ Finish(t, outcome) /\ UNCHANGED cache
  BY DEF Transmit
<1>2. /\ UNCHANGED fixed /\ UNCHANGED <<where, since, answers>> /\ result' = outcome
  BY <1>1 DEF Finish, fixed, environment, opening
<1>3. /\ stage = "ready" /\ GoodPublication(publication)
      /\ Backed(publication) /\ Selected(publication)
  BY <1>1 DEF Inv, PublicationInv, SendInv, OpeningInv
<1>4. /\ publication.backend # "route6" /\ d \in Datagrams
      /\ p = PlanFor(d) /\ p.error = "ok"
      /\ OfPublication(s) /\ (p.key # None => FitsKey(s, p.key))
  BY <1>1 DEF SendInv, SendsInv, SendFits
<1>5. HeaderKept'
  <2> DEFINE left == OnTheWire(platform, s, p.packet)
  <2>1. Takes(d, p)
    BY <1>3, <1>4, PlanTakes
  <2>2. left = HeaderFor(d, left)
    <3> HIDE DEF d, p, s
    <3> QED
      BY <1>3, <1>4, <2>1, HeaderLeaves DEF SendInv, OpeningInv, Chosen
  <2>3. result'.left = left /\ result'.supplied = d
    BY <1>2
  <2> HIDE DEF d, left
  <2>4. HeaderFor(result.supplied, result.left)' = HeaderFor(d, left)
    BY <1>2, <2>3 DEF HeaderFor, fixed
  <2> QED
    BY <2>2, <2>3, <2>4 DEF HeaderKept
<1>6. report(t).index = index
  BY DEF report, Raw!Report, RawIp!Report
<1>7. /\ result'.report.index = index /\ result'.by = LeavesBy(s, d.dst, routed)
      /\ result'.supplied.dst = d.dst
  BY <1>2, <1>6
<1>8. EgressHonoured'
  <2> SUFFICES ASSUME Pins' PROVE EgressHonoured'
    BY DEF EgressHonoured
  <2>1. /\ index # None
        /\ api = "raw" /\ publication.family = 4 => is_multicast(d.dst)
        /\ api = "raw_ip" /\ platform = "windows" => ~is_multicast(d.dst)
    BY <1>2, <1>7 DEF Pins, fixed
  <2>2. IF api = "raw" /\ publication.family = 4
        THEN result'.by \in since[publication.selection.addr] ELSE result'.by = index
    BY <1>3, <1>4, <1>7, <2>1, EgressLeaves DEF SendInv, OpeningInv
  <2>3. UNCHANGED <<SelectorIndex, SelectorAddrs, EgressAddr, api, publication, since, answers>>
    BY <1>2 DEF SelectorIndex, SelectorAddrs, EgressAddr, fixed
  <2>4. /\ SelectorIndex \in {None, index}
        /\ \A x \in Selectors : answers[x] \in {None, index}
        /\ \A ip \in SelectorAddrs : index \in since[ip]
        /\ api = "raw" /\ publication.family = 4 => publication.selection.addr = EgressAddr
    BY <1>3, <2>1 DEF Selected
  <2> QED
    BY <1>7, <2>2, <2>3, <2>4 DEF EgressHonoured
<1> HIDE DEF outcome
<1> QED
  BY <1>1, <1>5, <1>7, <1>8, FinishKeepsSendInv

\* No step breaks it.
LEMMA NextKeepsSendInv == Inv /\ SendInv /\ [Next]_vars => SendInv'
<1> SUFFICES ASSUME Inv, SendInv, [Next]_vars PROVE SendInv'
  OBVIOUS
<1>1. CASE UNCHANGED vars
  <2>1. /\ UNCHANGED fixed
        /\ UNCHANGED <<where, since, answers, eager, cache, pc, datagram, plan, held, result>>
    BY <1>1 DEF vars, fixed, environment, opening, sending
  <2>2. OpeningInv' /\ ResultInv'
    BY <2>1, QuietKeepsLook, MovesKeepOpening, MovesKeepResult DEF SendInv, OpeningInv
  <2>3. OwnSockets' /\ SendsInv'
    BY <2>1, QuietKeepsLook, MovesKeep DEF SendInv, OwnSockets, SendsInv, Cached
  <2> QED
    BY <2>2, <2>3 DEF SendInv
<1> QED
  BY <1>1, MoveKeepsSendInv, LookUpKeepsSendInv, OpeningKeepsSendInv, BeginKeepsSendInv,
     RejectKeepsSendInv, HitKeepsSendInv, MissKeepsSendInv, FailureKeepsSendInv,
     TransmitKeepsSendInv
     DEF Next, SendStep

\* All of it, in every reachable state.
THEOREM SendsInductive == Spec => []SendInv
BY Inductive, InitSendInv, NextKeepsSendInv, PTL DEF Spec

\* However many threads send through the publication at the same time, what
\* leaves is what the caller supplied, but for the fields the API and the kernels
\* change: the TTL of the configuration, the checksum where it is computed, and of
\* a header the kernel builds the flow label and the hop limit of multicast.  On
\* every platform, for every backend, configuration and datagram.
THEOREM HeadersCorrect == Spec => []HeaderKept
<1>1. SendInv => HeaderKept
  BY DEF SendInv, ResultInv
<1> QED
  BY <1>1, SendsInductive, PTL

\* Although addresses move between the look-ups, the opening of sockets and the
\* sends: the interface in a report is the configured index and the one each
\* look-up found, the datagram leaves by it where the socket is tied to it, and an
\* IPv4 datagram of the raw multicast API leaves by an interface the configured
\* address has been on since it was looked up.
THEOREM EgressCorrect == Spec => []EgressHonoured
<1>1. SendInv => EgressHonoured
  BY DEF SendInv, ResultInv
<1> QED
  BY <1>1, SendsInductive, PTL
=============================================================================
