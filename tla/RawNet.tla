------------------------------ MODULE RawNet ------------------------------
(***************************************************************************)
(* What the two raw transmit APIs share: addresses, complete IP datagrams, *)
(* sockets, and what the kernel does with a datagram given to a socket.    *)
(*                                                                         *)
(* An address is a family and a host; the hosts "a" and "b" are the ones   *)
(* the machine may own.  `where` gives the interface an own address is on  *)
(* and 0 for an address the machine does not have.  A datagram is its      *)
(* header's fields and its length; total_len is the length its header      *)
(* claims and flow its flow label.  Checksums of the transport are payload *)
(* and left out.                                                           *)
(***************************************************************************)
EXTENDS Naturals

CONSTANTS
  None,        \* Option::None
  Interfaces,  \* the interface indices
  Ethernet     \* the interfaces with an Ethernet link layer

Platforms == {"linux", "macos", "windows", "other"}
Families == {4, 6}
Ip(family, host) == [family |-> family, host |-> host]
OwnAddresses == {Ip(f, h) : f \in Families, h \in {"a", "b"}}

is_multicast(ip) == ip.host \in {"group", "ll_group"}
is_unspecified(ip) == ip.host = "unspecified"
is_link_local(ip) == ip.host \in {"ll_remote", "ll_group"}

\* An address that can name neither an interface nor a source.
Unusable(ip) == is_multicast(ip) \/ is_unspecified(ip)

\* resolve_ipv4_interface_index and resolve_ipv6_interface_index: 0 when no
\* interface has the address.
InterfaceOf(ip, where) == IF ip \in OwnAddresses THEN where[ip] ELSE 0

\* The two addresses a configuration can name an interface by, or what their
\* look-ups answered.
Selectors == {"interface", "bind"}
BySelector(interface, bind) == [interface |-> interface, bind |-> bind]

\* The first of the checks <<condition, error>> that strikes.
FirstError(checks) ==
  LET struck == {i \in DOMAIN checks : checks[i][1]}
  IN  IF struck = {} THEN "ok"
      ELSE checks[CHOOSE i \in struck : \A j \in struck : i <= j][2]

----------------------------------------------------------------------------
(* Results of opening and of preparing a send *)

NoSelection == [bind |-> None, addr |-> None, index |-> None]
Refused(error) ==
  [error |-> error, backend |-> None, family |-> None, selection |-> NoSelection]
Opened(backend, family, selection) ==
  [error |-> "ok", backend |-> backend, family |-> family, selection |-> selection]

\* The key of a cached socket; IPv4 sockets are told apart by protocol only.
Key(protocol, hop_limit, traffic_class) ==
  [protocol |-> protocol, hop_limit |-> hop_limit, traffic_class |-> traffic_class]

\* `key` names the socket a datagram goes through: None is the one opened with
\* the publication, anything else a key of its cache.  `packet` is what is
\* handed to that socket and `scope` the destination's scope identifier.
Rejected(error) == [error |-> error, key |-> None, packet |-> None, scope |-> 0]
Planned(key, packet, scope) ==
  [error |-> "ok", key |-> key, packet |-> packet, scope |-> scope]

----------------------------------------------------------------------------
(* Sockets, and the kernel that sends through them *)

\* The protocol a socket is created with; None stands for IPPROTO_RAW.
ProtocolOf(key) == IF key = None THEN None ELSE key.protocol

BareSocket(kind, protocol) ==
  [kind |-> kind, protocol |-> protocol, bind |-> None, multicast_if |-> None,
   unicast_if |-> None, device |-> None, loopback |-> None,
   hops |-> None, traffic_class |-> None]

\* IP_MULTICAST_IF steers multicast only, IP_UNICAST_IF everything else, a
\* socket tied to a device both; without either the routing table decides.
LeavesBy(socket, destination, routed) ==
  CASE socket.device # None -> socket.device
    [] socket.device = None /\ is_multicast(destination) ->
         IF socket.multicast_if # None THEN socket.multicast_if ELSE routed
    [] OTHER -> IF socket.unicast_if # None THEN socket.unicast_if ELSE routed

\* IPV6_MULTICAST_HOPS of a socket nobody set it on.
DefaultMulticastHops == 1

\* The flow label a kernel picks for a header it builds.
OsFlowLabel == "os"

\* The datagram on the wire.  A link-layer socket sends what it is given.  A
\* header-including IPv4 socket does too on Windows; Linux computes the total
\* length and the checksum, Darwin takes ip_len and ip_off in host order and
\* computes the checksum.  An IPv6 socket is given a payload and builds the
\* header from its own settings; IPV6_UNICAST_HOPS is not the one that counts
\* for a multicast destination.
OnTheWire(platform, socket, packet) ==
  CASE socket.kind \in {"packet", "bpf"} -> packet
    [] socket.kind = "raw4" /\ platform = "macos" ->
         [packet EXCEPT !.order = IF @ = "host" THEN "network" ELSE "swapped",
                        !.checksum = "valid"]
    [] socket.kind = "raw4" /\ platform = "linux" ->
         [packet EXCEPT !.total_len = packet.len, !.checksum = "valid"]
    [] socket.kind = "raw4" /\ platform \notin {"linux", "macos"} -> packet
    [] socket.kind = "raw6" ->
         [packet EXCEPT !.src = socket.bind,
                        !.protocol = socket.protocol,
                        !.traffic_class = socket.traffic_class,
                        !.flow = OsFlowLabel,
                        !.ttl = IF is_multicast(packet.dst) THEN DefaultMulticastHops
                                ELSE socket.hops]

\* A scope that contradicts the socket's device is refused.
ScopeAgrees(socket, scope) == scope = 0 \/ socket.device = None \/ socket.device = scope
=============================================================================
