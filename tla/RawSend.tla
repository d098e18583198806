------------------------------ MODULE RawSend ------------------------------
(***************************************************************************)
(* One publication of the raw multicast API or of the raw-IP API, from its *)
(* configuration to the datagrams it puts on the wire.  send_raw and       *)
(* send_ip_datagram take &self: threads send through it at the same time   *)
(* and share its socket cache.  Own addresses move between interfaces, or  *)
(* disappear, between any two steps, and system calls fail.                *)
(*                                                                         *)
(* Kernels send a datagram whole or not at all, so the short counts that   *)
(* most backends check for do not occur.                                   *)
(***************************************************************************)
EXTENDS RawNet, SocketCache

CONSTANTS
  Threads,
  RawConfigs,    \* configurations of the raw multicast API
  RawIpConfigs,  \* and of the raw-IP API
  Datagrams,     \* what callers send
  Addressings,   \* the initial interfaces of the own addresses
  MaxMoves       \* bound on the moves of own addresses

VARIABLES
  api,           \* "raw" or "raw_ip"
  platform,
  config,
  where,         \* the interface of each own address, 0 for none
  moves,         \* how many addresses moved
  since,         \* history: the interfaces each has been on since its look-up
  stage,         \* how far the publication has come
  answers,       \* what the look-ups of the selectors found, None before
  publication,   \* its backend, family and interface selection
  eager,         \* the socket opened with it, or None
  cache,         \* the sockets opened later
  pc,            \* per thread: where its send is
  datagram,      \* per thread: what it sends
  plan,          \* per thread: how
  held,          \* per thread: its clone of the Arc, or None
  result         \* the last send that finished

environment == <<where, moves, since>>
opening == <<stage, answers, publication, eager>>
sending == <<pc, datagram, plan, held>>
vars == <<api, platform, config, environment, opening, cache, sending, result>>

Raw == INSTANCE RawPlatform
RawIp == INSTANCE RawIpPlatform

IsAddress(a) == a = Ip(a.family, a.host) /\ a.family \in Families

\* What the types of the code say: an Option is None or a value, an interface
\* is an index or an address, an address is IPv4 or IPv6.
ASSUME RawInterfaces ==
  /\ Interfaces \subseteq Nat \ {0} /\ None \notin Nat \cup OwnAddresses
  /\ Addressings \subseteq [OwnAddresses -> Interfaces \cup {0}]
ASSUME RawConfigTypes ==
  \A c \in RawConfigs :
    /\ c.route_selected \in BOOLEAN
    /\ c.family \in Families \cup {None}
    /\ c.bind_addr = None \/ IsAddress(c.bind_addr)
    /\ \/ c.outgoing_interface = None
       \/ Raw!IsIndex(c.outgoing_interface) /\ c.outgoing_interface.index \in Nat
       \/ ~Raw!IsIndex(c.outgoing_interface) /\ IsAddress(c.outgoing_interface)
ASSUME RawIpConfigTypes ==
  \A c \in RawIpConfigs :
    /\ c.family \in Families \cup {None}
    /\ c.bind_addr = None \/ IsAddress(c.bind_addr)
    /\ c.interface_addr = None \/ IsAddress(c.interface_addr)
ASSUME DatagramTypes ==
  \A d \in Datagrams :
    /\ d = [version |-> d.version, len |-> d.len, header_len |-> d.header_len,
            total_len |-> d.total_len, checksum |-> d.checksum, src |-> d.src, dst |-> d.dst,
            protocol |-> d.protocol, ttl |-> d.ttl, traffic_class |-> d.traffic_class,
            flow |-> d.flow, order |-> "network"]
    /\ None \notin {Key(None, None, None), Key(d.protocol, None, None), RawIp!Ipv6Key(d)}

Nothing == [error |-> "none", supplied |-> None, left |-> None, by |-> None, report |-> None]
Failed(error) == [Nothing EXCEPT !.error = error]

\* Each variable has its type; a thread holds a socket only while it sends.
TypeOK ==
  /\ api \in {"raw", "raw_ip"} /\ platform \in Platforms
  /\ where \in [OwnAddresses -> Interfaces \cup {0}]
  /\ moves \in 0 .. MaxMoves
  /\ since \in [OwnAddresses -> SUBSET (Interfaces \cup {0})]
  /\ answers \in [Selectors -> Interfaces \cup {0, None}]
  /\ stage \in {"configured", "resolved", "ready", "refused"}
  /\ publication.error = "ok" => publication.family \in Families
  /\ pc \in [Threads -> {"idle", "socket", "send"}]
  /\ \A t \in Threads : (held[t] # None) <=> (pc[t] = "send")

Init ==
  /\ \/ api = "raw" /\ config \in RawConfigs
     \/ api = "raw_ip" /\ config \in RawIpConfigs
  /\ platform \in Platforms
  /\ where \in Addressings
  /\ moves = 0 /\ since = [ip \in OwnAddresses |-> {}]
  /\ stage = "configured" /\ answers = BySelector(None, None)
  /\ publication = Refused("none") /\ eager = None
  /\ cache = EmptyCache
  /\ pc = [t \in Threads |-> "idle"]
  /\ datagram = [t \in Threads |-> None]
  /\ plan = [t \in Threads |-> None]
  /\ held = [t \in Threads |-> None]
  /\ result = Nothing

\* An own address moves to another interface or is taken away.
Move(ip, interface) ==
  /\ moves < MaxMoves
  /\ where[ip] # interface
  /\ where' = [where EXCEPT ![ip] = interface]
  /\ moves' = moves + 1
  /\ since' = IF since[ip] = {} THEN since ELSE [since EXCEPT ![ip] = @ \cup {interface}]
  /\ UNCHANGED <<api, platform, config, opening, cache, sending, result>>

----------------------------------------------------------------------------
(* RawPublication::new and RawIpPublication::new *)

lookups ==
  IF api = "raw" THEN Raw!lookups(platform, config) ELSE RawIp!lookups(platform, config)
LookupFailed ==
  IF api = "raw" THEN Raw!LookupFailed(answers) ELSE RawIp!LookupFailed(config, answers)

\* The selectors still to be looked up, and the one that comes first.
Pending == IF LookupFailed THEN {} ELSE {s \in Selectors : lookups[s] # None /\ answers[s] = None}
FirstSelector == IF api = "raw" THEN "interface" ELSE "bind"

\* resolve_ipv4_interface_index or resolve_ipv6_interface_index for one selector.
LookUp(s) ==
  LET ip == lookups[s]
  IN  /\ stage = "configured" /\ s \in Pending
      /\ FirstSelector \in Pending => s = FirstSelector
      /\ answers' = [answers EXCEPT ![s] = InterfaceOf(ip, where)]
      /\ since' = IF ip \notin OwnAddresses THEN since
                  ELSE [since EXCEPT ![ip] = @ \cup {where[ip]}]
      /\ UNCHANGED <<api, platform, config, where, moves, stage, publication, eager, cache,
                     sending, result>>

open ==
  IF api = "raw" THEN Raw!open_raw_transmit_socket(platform, config, answers)
  ELSE RawIp!open_raw_ip_socket(platform, config, answers)

\* Validation, and the selection made of the answers.
Resolve ==
  /\ stage = "configured" /\ Pending = {}
  /\ publication' = open
  /\ stage' = IF open.error = "ok" THEN "resolved" ELSE "refused"
  /\ UNCHANGED <<api, platform, config, environment, answers, eager, cache, sending, result>>

NewSocket(key) ==
  IF api = "raw" THEN Raw!NewSocket(platform, publication, config, key, where)
  ELSE RawIp!NewSocket(platform, publication, config, key, where)

OpensEagerly ==
  IF api = "raw" THEN Raw!OpensEagerly(publication) ELSE RawIp!OpensEagerly(publication)
KeepsEager ==
  IF api = "raw" THEN Raw!KeepsEager(publication) ELSE RawIp!KeepsEager(publication)

\* The socket, or a probe that is dropped again.
OpenSockets ==
  /\ stage = "resolved"
  /\ OpensEagerly => NewSocket(None) # None
  /\ stage' = "ready"
  /\ eager' = IF OpensEagerly /\ KeepsEager THEN NewSocket(None) ELSE None
  /\ UNCHANGED <<api, platform, config, environment, answers, publication, cache, sending,
                 result>>

\* Privileges, descriptors, an address that is gone, a link that is no Ethernet.
OpenFails ==
  /\ stage = "resolved" /\ OpensEagerly
  /\ stage' = "refused"
  /\ UNCHANGED <<api, platform, config, environment, answers, publication, eager, cache,
                 sending, result>>

----------------------------------------------------------------------------
(* send_raw and send_ip_datagram *)

PlanFor(d) ==
  IF api = "raw" THEN Raw!send_raw_ip_datagram(platform, publication, config, d)
  ELSE RawIp!send_ip_datagram(platform, publication, d)

\* Parsing and validation; route-selected IPv6 goes on in RouteEgress.
Begin(t, d) ==
  /\ stage = "ready" /\ publication.backend # "route6" /\ pc[t] = "idle"
  /\ PlanFor(d).error = "ok"
  /\ datagram' = [datagram EXCEPT ![t] = d]
  /\ plan' = [plan EXCEPT ![t] = PlanFor(d)]
  /\ held' = [held EXCEPT ![t] = IF PlanFor(d).key = None THEN eager ELSE None]
  /\ pc' = [pc EXCEPT ![t] = IF PlanFor(d).key = None THEN "send" ELSE "socket"]
  /\ UNCHANGED <<api, platform, config, environment, opening, cache, result>>

Reject(t, d) ==
  /\ stage = "ready" /\ publication.backend # "route6" /\ pc[t] = "idle"
  /\ PlanFor(d).error # "ok"
  /\ result' = Failed(PlanFor(d).error)
  /\ UNCHANGED <<api, platform, config, environment, opening, cache, sending>>

CacheHit(t) ==
  /\ pc[t] = "socket" /\ plan[t].key \in Cached(cache)
  /\ held' = [held EXCEPT ![t] = cache.sockets[plan[t].key]]
  /\ pc' = [pc EXCEPT ![t] = "send"]
  /\ UNCHANGED <<api, platform, config, environment, opening, cache, datagram, plan, result>>

CacheMiss(t) ==
  LET socket == NewSocket(plan[t].key)
  IN  /\ pc[t] = "socket" /\ plan[t].key \notin Cached(cache)
      /\ socket # None
      /\ cache' = get_or_try_insert_with(cache, plan[t].key, socket)
      /\ held' = [held EXCEPT ![t] = socket]
      /\ pc' = [pc EXCEPT ![t] = "send"]
      /\ UNCHANGED <<api, platform, config, environment, opening, datagram, plan, result>>

\* The thread is done: its clone of the Arc is dropped.
Finish(t, outcome) ==
  /\ result' = outcome
  /\ pc' = [pc EXCEPT ![t] = "idle"]
  /\ datagram' = [datagram EXCEPT ![t] = None]
  /\ plan' = [plan EXCEPT ![t] = None]
  /\ held' = [held EXCEPT ![t] = None]
  /\ UNCHANGED <<api, platform, config, environment, opening>>

\* Mutant of CreateFails: room was made before the socket was there.
CreateFailsLate(t) ==
  /\ pc[t] = "socket" /\ plan[t].key \notin Cached(cache)
  /\ cache' = Evicted(cache)
  /\ Finish(t, Failed("RawSocketCreateFailed"))

\* Creating, binding or setting up the socket fails: nothing is evicted.
CreateFails(t) ==
  /\ pc[t] = "socket" /\ plan[t].key \notin Cached(cache)
  /\ UNCHANGED cache
  /\ Finish(t, Failed("RawSocketCreateFailed"))

report(t) ==
  IF api = "raw" THEN Raw!Report(publication, datagram[t])
  ELSE RawIp!Report(publication, datagram[t])

\* `routed` is the interface the routing table would choose.
Transmit(t, routed) ==
  /\ pc[t] = "send"
  /\ ScopeAgrees(held[t], plan[t].scope)
  /\ Finish(t, [error |-> "ok", supplied |-> datagram[t],
                left |-> OnTheWire(platform, held[t], plan[t].packet),
                by |-> LeavesBy(held[t], datagram[t].dst, routed),
                report |-> report(t)])
  /\ UNCHANGED cache

\* RawSendFailed: the cache keeps the socket.
TransmitFails(t) ==
  /\ pc[t] = "send"
  /\ Finish(t, Failed("RawSendFailed"))
  /\ UNCHANGED cache

SendStep(t) ==
  \/ CacheHit(t) \/ CacheMiss(t) \/ CreateFails(t)
  \/ \E i \in Interfaces : Transmit(t, i)
  \/ TransmitFails(t)

Next ==
  \/ \E ip \in OwnAddresses, i \in Interfaces \cup {0} : Move(ip, i)
  \/ \E s \in Selectors : LookUp(s)
  \/ Resolve \/ OpenSockets \/ OpenFails
  \/ \E t \in Threads :
       \/ \E d \in Datagrams : Begin(t, d) \/ Reject(t, d)
       \/ SendStep(t)

Spec == Init /\ [][Next]_vars

----------------------------------------------------------------------------
(* Properties *)

\* After any interleaving of hits, misses, evictions and failures the cache's
\* map and order agree and stay within CAPACITY, and every socket in it is set
\* up for its key and for this publication: two datagrams that need different
\* protocols, hop limits or traffic classes never share one.
CacheSound ==
  /\ CacheInv(cache)
  /\ \A k \in Cached(cache) :
       LET s == cache.sockets[k]
       IN  /\ s.protocol = k.protocol
           /\ s.hops = k.hop_limit /\ s.traffic_class = k.traffic_class
           /\ api = "raw" /\ s.kind = "raw4" => s.loopback = config.loopback
           /\ s.kind \in {"raw4", "raw6"} => s.bind = publication.selection.bind

\* A key leaves the cache only as the oldest one, and only to make room for a
\* new socket that was really created: a failed create costs nothing.
EvictsForNew ==
  [][LET lost == Cached(cache) \ Cached(cache')
     IN  lost # {} =>
           /\ Cached(cache') \ Cached(cache) # {}
           /\ lost = {Head(cache.insertion_order)}]_vars

Delivered == result.error = "ok"

\* Does the selection bind the last send to an interface?  IP_MULTICAST_IF
\* steers multicast only, IP_UNICAST_IF all but multicast.
Pins ==
  /\ result.report.index # None
  /\ api = "raw" /\ publication.family = 4 => is_multicast(result.supplied.dst)
  /\ api = "raw_ip" /\ platform = "windows" => ~is_multicast(result.supplied.dst)

\* The addresses of the configuration that select the interface; an index may
\* stand beside them.
SelectorAddrs ==
  {config.bind_addr, IF api = "raw" THEN config.outgoing_interface
                     ELSE config.interface_addr} \cap OwnAddresses
SelectorIndex ==
  CASE api = "raw_ip" -> config.interface_index
    [] api = "raw" /\ config.outgoing_interface = None -> None
    [] OTHER -> IF Raw!IsIndex(config.outgoing_interface)
                THEN config.outgoing_interface.index ELSE None

\* The interface an IPv4 publication of the raw multicast API asks for.
EgressAddr == IF config.outgoing_interface = None THEN config.bind_addr
              ELSE config.outgoing_interface

\* However addresses move between the look-ups, the opening of sockets and the
\* sends, the interface a report names is the configured index and the answer of
\* every look-up, and each address of the configuration has been on it since its
\* look-up.  The datagram leaves by that interface if the socket is tied to it;
\* IP_MULTICAST_IF is set by address when a socket is opened, so an IPv4 datagram
\* of the raw multicast API may follow the address to where it has moved since
\* its look-up, but leaves by no other interface.
EgressHonoured ==
  Delivered /\ Pins =>
    LET index == result.report.index
    IN  /\ SelectorIndex \in {None, index}
        /\ \A s \in Selectors : answers[s] \in {None, index}
        /\ \A ip \in SelectorAddrs : index \in since[ip]
        /\ IF api = "raw" /\ publication.family = 4 THEN result.by \in since[EgressAddr]
           ELSE result.by = index

\* What leaves for a supplied datagram.  The raw multicast API changes at most an
\* IPv4 TTL, to the configured one.  The raw-IP API sets no field of an IPv4
\* datagram.  The IPv6 header it has the kernel rebuild has the supplied fields
\* but for the flow label, which is the kernel's, and the hop limit of multicast,
\* which HopLimitApplied is about.  An IPv4 checksum is valid after a change and
\* where the kernel computes it.
HeaderFor(supplied, left) ==
  LET rebuilt == api = "raw_ip" /\ supplied.version = 6
      ttl == CASE api = "raw" /\ config.ttl # None -> config.ttl
               [] rebuilt /\ is_multicast(supplied.dst) -> left.ttl
               [] OTHER -> supplied.ttl
      checksum == IF /\ supplied.version = 4
                     /\ ttl # supplied.ttl \/ platform \in {"linux", "macos"}
                  THEN "valid" ELSE supplied.checksum
  IN  [supplied EXCEPT !.ttl = ttl, !.checksum = checksum,
                       !.flow = IF rebuilt THEN left.flow ELSE @]

\* What leaves is what the caller supplied, but for these fields, whatever other
\* threads send at the same time.
HeaderKept == Delivered => result.left = HeaderFor(result.supplied, result.left)

\* The raw-IP API applies the supplied hop limit to every IPv6 datagram it has
\* the kernel build a header for.
HopLimitApplied ==
  Delivered /\ api = "raw_ip" /\ result.supplied.version = 6 =>
    result.left.ttl = result.supplied.ttl

\* The capability functions tell the truth about open: what they call supported
\* is refused as unsupported only for loopback over a link-layer backend, for a
\* malformed configuration or for want of an IPv6 bind address, and what they
\* call unsupported never opens.
CapabilitiesHold ==
  LET family == IF api = "raw" THEN Raw!configured_socket_family(config)
                ELSE RawIp!resolved_family(config)
      supported == IF api = "raw"
                   THEN Raw!egress_supported(platform, family, config.route_selected)
                   ELSE RawIp!egress_supported(platform, family)
      valid == (IF api = "raw" THEN Raw!validate(config) ELSE RawIp!validate(config)) = "ok"
  IN  /\ stage \in {"resolved", "ready"} => supported
      /\ (publication.error = "RawPacketTransmitUnsupported" /\ valid /\ supported) =>
           /\ family = 6
           /\ IF api = "raw" THEN config.loopback = TRUE ELSE config.bind_addr = None
=============================================================================
