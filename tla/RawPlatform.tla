---------------------------- MODULE RawPlatform ----------------------------
(***************************************************************************)
(* The raw multicast API (src/raw/config.rs, src/raw/datagram.rs,          *)
(* src/raw/platform.rs, src/raw/macos_bpf.rs, src/raw/capabilities.rs):    *)
(* which configurations open, through which backend, and what each backend *)
(* does with a datagram.  RawSend runs these definitions with threads, a   *)
(* socket cache and addresses that move; the sends of the route-selected   *)
(* IPv6 backend are RouteEgress's.                                         *)
(*                                                                         *)
(* The feature raw-route-egress is on.  A configuration is a record with   *)
(* the fields of RawPublicationConfig; outgoing_interface is an address or *)
(* [index |-> i], strict stands for StrictMulticastDestination.            *)
(***************************************************************************)
EXTENDS RawNet

IsIndex(interface) == "index" \in DOMAIN interface

outgoing_interface_family(interface) ==
  IF interface = None THEN None
  ELSE IF IsIndex(interface) THEN 6 ELSE interface.family

----------------------------------------------------------------------------
(* Configuration *)

validate_route_selected_egress(c) ==
  FirstError(<<
    <<c.bind_addr # None \/ c.outgoing_interface # None, "RawPacketTransmitUnsupported">>,
    <<c.family = None, "RawPacketTransmitUnsupported">>,
    <<c.ttl # None, "RawPacketTransmitUnsupported">> >>)

validate_explicit_egress(c) ==
  LET bind == c.bind_addr
      interface == c.outgoing_interface
      hasBind == bind # None
      hasAddr == interface # None /\ ~IsIndex(interface)
  IN  FirstError(<<
        <<~hasBind /\ interface = None, "RawInterfaceRequired">>,
        <<hasBind /\ Unusable(bind), "InvalidRawBindAddress">>,
        <<hasBind /\ c.family \notin {None, bind.family}, "RawBindAddressFamilyMismatch">>,
        <<hasAddr /\ Unusable(interface), "InvalidInterfaceAddress">>,
        <<interface # None /\ interface = [index |-> 0], "InvalidIpv6InterfaceIndex">>,
        <<interface # None /\ c.family \notin {None, outgoing_interface_family(interface)},
          "OutgoingInterfaceFamilyMismatch">>,
        <<interface # None /\ hasBind /\ outgoing_interface_family(interface) # bind.family,
          "OutgoingInterfaceFamilyMismatch">> >>)

validate(c) ==
  IF c.route_selected THEN validate_route_selected_egress(c) ELSE validate_explicit_egress(c)

configured_socket_family(c) ==
  IF c.family # None THEN c.family
  ELSE IF c.bind_addr # None THEN c.bind_addr.family
  ELSE outgoing_interface_family(c.outgoing_interface)

----------------------------------------------------------------------------
(* Interface selection, from the answers to the look-ups *)

BindAddr(c, family) ==
  IF c.bind_addr # None /\ c.bind_addr.family = family THEN c.bind_addr ELSE None
InterfaceAddr(c, family) ==
  IF c.outgoing_interface = None \/ IsIndex(c.outgoing_interface) THEN None
  ELSE IF c.outgoing_interface.family = family THEN c.outgoing_interface ELSE None

\* The interface address, or else the bind address, names the interface.
ipv4_interface_addr(c) ==
  IF InterfaceAddr(c, 4) # None THEN InterfaceAddr(c, 4) ELSE BindAddr(c, 4)

\* The look-ups: first the interface's address, then the bind address if it is
\* another one.
Ipv4Lookups(c) ==
  BySelector(ipv4_interface_addr(c),
             IF BindAddr(c, 4) = ipv4_interface_addr(c) THEN None ELSE BindAddr(c, 4))
Ipv6Lookups(c) ==
  BySelector(InterfaceAddr(c, 6),
             IF BindAddr(c, 6) = InterfaceAddr(c, 6) THEN None ELSE BindAddr(c, 6))

\* The first look-up that finds no interface is the last one.
LookupFailed(answers) == \E s \in Selectors : answers[s] = 0

\* The bind address defaults to the interface address and must be on it too.
resolve_raw_ipv4_selection(c, answers) ==
  LET interface == ipv4_interface_addr(c)
      bind == IF BindAddr(c, 4) = None THEN interface ELSE BindAddr(c, 4)
      bound == IF bind = interface THEN answers.interface ELSE answers.bind
  IN  [error |-> FirstError(<<
                   <<interface = None, "RawInterfaceRequired">>,
                   <<LookupFailed(answers), "InterfaceDiscoveryFailed">>,
                   <<bound # answers.interface, "InterfaceDiscoveryFailed">> >>),
       value |-> [bind |-> bind, addr |-> interface, index |-> answers.interface]]

resolve_raw_ipv6_selection(c, answers) ==
  LET interface == c.outgoing_interface
      bind == IF BindAddr(c, 6) # None THEN BindAddr(c, 6) ELSE InterfaceAddr(c, 6)
      explicit == IF interface # None /\ IsIndex(interface) THEN interface.index
                  ELSE answers.interface
      bound == IF bind = InterfaceAddr(c, 6) THEN answers.interface ELSE answers.bind
  IN  [error |-> FirstError(<<
                   <<LookupFailed(answers), "InterfaceDiscoveryFailed">>,
                   <<explicit # None /\ bound # None /\ explicit # bound,
                     "Ipv6SourceInterfaceMismatch">>,
                   <<explicit = None /\ bound = None, "RawInterfaceRequired">> >>),
       value |-> [bind |-> bind, addr |-> None,
                  index |-> IF explicit # None THEN explicit ELSE bound]]

----------------------------------------------------------------------------
(* Opening.  A link-layer backend cannot loop multicast back. *)

OpenIpv4(backend, c, answers) ==
  LET selection == resolve_raw_ipv4_selection(c, answers)
  IN  IF selection.error # "ok" THEN Refused(selection.error)
      ELSE Opened(backend, 4, selection.value)

OpenIpv6(backend, c, answers) ==
  LET selection == resolve_raw_ipv6_selection(c, answers)
  IN  IF selection.error # "ok" THEN Refused(selection.error)
      ELSE IF c.loopback = TRUE THEN Refused("RawPacketTransmitUnsupported")
      ELSE Opened(backend, 6, selection.value)

OpenRouteSelected(platform, c) ==
  CASE platform \in {"linux", "macos"} /\ c.family = 4 ->
         Opened(IF platform = "linux" THEN "raw4" ELSE "raw4_cached", 4, NoSelection)
    [] platform = "linux" /\ c.family = 6 ->
         IF c.loopback = TRUE THEN Refused("RawPacketTransmitUnsupported")
         ELSE Opened("route6", 6, NoSelection)
    [] OTHER -> Refused("RawPacketTransmitUnsupported")

OpenExplicit(platform, c, answers) ==
  LET family == configured_socket_family(c)
  IN  CASE platform = "linux" /\ family = 4 -> OpenIpv4("raw4", c, answers)
        [] platform = "linux" /\ family # 4 -> OpenIpv6("packet6", c, answers)
        [] platform = "macos" /\ family = 4 -> OpenIpv4("raw4_cached", c, answers)
        [] platform = "macos" /\ family = 6 -> OpenIpv6("bpf6", c, answers)
        [] platform = "windows" /\ family = 4 -> OpenIpv4("raw4_cached", c, answers)
        [] OTHER -> Refused("RawPacketTransmitUnsupported")

\* Which addresses are looked up: none when a check before it returns.
lookups(platform, c) ==
  LET explicit == platform # "other" /\ validate(c) = "ok" /\ ~c.route_selected
      family == configured_socket_family(c)
  IN  CASE explicit /\ family = 4 -> Ipv4Lookups(c)
        [] explicit /\ family # 4 /\ platform # "windows" -> Ipv6Lookups(c)
        [] OTHER -> BySelector(None, None)

open_raw_transmit_socket(platform, c, answers) ==
  IF platform = "other" THEN Refused("RawPacketTransmitUnsupported")
  ELSE IF validate(c) # "ok" THEN Refused(validate(c))
  ELSE IF c.route_selected THEN OpenRouteSelected(platform, c)
  ELSE OpenExplicit(platform, c, answers)

\* Mutant of egress_supported: macOS is said to follow routes for IPv6 too.
SupportedOnMacos(platform, family, route_selected) ==
  platform \in {"linux", "macos"} \/ (platform = "windows" /\ ~route_selected /\ family = 4)

\* Do raw_ipv6_egress_capabilities and raw_route_egress_capabilities call it
\* supported?  Nothing reports on IPv4 through an explicit interface; what is
\* said of it here is which platforms have a backend.
raw_ipv6_explicit_interface(platform) == platform \in {"linux", "macos"}
raw_route_egress(platform, family) ==
  platform = "linux" \/ (platform = "macos" /\ family = 4)

egress_supported(platform, family, route_selected) ==
  CASE route_selected -> raw_route_egress(platform, family)
    [] ~route_selected /\ family = 6 -> raw_ipv6_explicit_interface(platform)
    [] OTHER -> family = 4 /\ platform # "other"

----------------------------------------------------------------------------
(* The sockets of a publication *)

\* The kernel binds to, and takes as multicast interface, only own addresses.
CanOpenIpv4(selection, where) ==
  /\ selection.bind # None => InterfaceOf(selection.bind, where) # 0
  /\ selection.addr # None => InterfaceOf(selection.addr, where) # 0

\* IP_MULTICAST_IF is set by address, which the kernel resolves there and then.
open_raw_ipv4_socket_with_protocol(selection, loopback, protocol, where) ==
  [BareSocket("raw4", protocol) EXCEPT
     !.bind = selection.bind,
     !.multicast_if = IF selection.addr = None THEN None
                      ELSE InterfaceOf(selection.addr, where),
     !.loopback = loopback]

\* MacosBpfIpv6Socket::open and the AF_PACKET socket of linux_packet.rs are
\* tied to an index.
OpenLinkSocket(kind, index) == [BareSocket(kind, None) EXCEPT !.device = index]

\* ensure_ethernet_datalink, interface_mac and ensure_ethernet_interface
CanOpenLink(index) == index \in Ethernet

\* Is a socket opened with the publication, and kept or only a probe?
OpensEagerly(publication) == publication.backend \in {"raw4", "raw4_cached", "bpf6"}
KeepsEager(publication) == publication.backend \in {"raw4", "bpf6"}

\* The socket for a key, or None when the system refuses it for good reason.
NewSocket(platform, publication, c, key, where) ==
  LET selection == publication.selection
  IN  IF publication.family = 4
      THEN IF CanOpenIpv4(selection, where)
           THEN open_raw_ipv4_socket_with_protocol(selection, c.loopback, ProtocolOf(key), where)
           ELSE None
      ELSE IF CanOpenLink(selection.index)
           THEN OpenLinkSocket(IF publication.backend = "bpf6" THEN "bpf" ELSE "packet",
                               selection.index)
           ELSE None

----------------------------------------------------------------------------
(* Sending *)

parse_ipv4_datagram(d) ==
  /\ d.len >= 20
  /\ d.header_len >= 20 /\ d.len >= d.header_len
  /\ d.total_len >= d.header_len /\ d.total_len = d.len

parse_ipv6_datagram(d) == d.len >= 40 /\ d.total_len = d.len

parse_raw_ip_datagram(d) ==
  \/ d.version = 4 /\ parse_ipv4_datagram(d)
  \/ d.version = 6 /\ parse_ipv6_datagram(d)

validate_datagram_against_config(d, c) ==
  LET interface == outgoing_interface_family(c.outgoing_interface)
  IN  FirstError(<<
        <<c.family \notin {None, d.version}, "InvalidRawIpDatagram">>,
        <<c.bind_addr # None /\ c.bind_addr.family # d.version, "RawBindAddressFamilyMismatch">>,
        <<interface \notin {None, d.version}, "OutgoingInterfaceFamilyMismatch">>,
        <<c.strict /\ ~is_multicast(d.dst), "InvalidRawMulticastDestination">> >>)

\* The TTL of an IPv4 header replaced, with its checksum.
apply_ttl_or_hop_limit_override(d, ttl) ==
  IF ttl = None \/ ttl = d.ttl THEN d
  ELSE [d EXCEPT !.ttl = ttl, !.checksum = "valid"]

\* The macOS copy of the header: TTL replaced, lengths in host order.
prepare_macos_ipv4_header_for_send(d, ttl) ==
  [d EXCEPT !.ttl = IF ttl = None THEN d.ttl ELSE ttl,
            !.order = "host", !.checksum = "zero"]

MulticastOnly(d, c) ==
  FirstError(<<
    <<~is_multicast(d.dst) /\ c.strict, "InvalidRawMulticastDestination">>,
    <<~is_multicast(d.dst), "RawPacketTransmitUnsupported">> >>)

send_linux_raw_ipv4_datagram(c, d) ==
  IF d.version # 4 THEN Rejected("RawPacketTransmitUnsupported")
  ELSE IF MulticastOnly(d, c) # "ok" THEN Rejected(MulticastOnly(d, c))
  ELSE Planned(None, apply_ttl_or_hop_limit_override(d, c.ttl), 0)

\* The one slot of linux_packet_ipv6_socket.
PacketKey == Key(None, None, None)

ensure_ipv6_header_is_not_overridden(d, c) == c.ttl \in {None, d.ttl}

\* Linux packet sockets and macOS BPF: the header is kept or the send refused.
send_full_header_ipv6(key, c, d) ==
  IF d.version # 6 THEN Rejected("InvalidRawIpDatagram")
  ELSE IF MulticastOnly(d, c) # "ok" THEN Rejected(MulticastOnly(d, c))
  ELSE IF ~ensure_ipv6_header_is_not_overridden(d, c)
  THEN Rejected("RawPacketTransmitUnsupported")
  ELSE Planned(key, d, 0)

\* macOS and Windows: one socket per protocol.
send_cached_raw_ipv4(platform, c, d) ==
  IF d.version # 4
  THEN Rejected(IF platform = "macos" THEN "InvalidRawIpDatagram"
                ELSE "RawPacketTransmitUnsupported")
  ELSE Planned(Key(d.protocol, None, None),
               IF platform = "macos" THEN prepare_macos_ipv4_header_for_send(d, c.ttl)
               ELSE apply_ttl_or_hop_limit_override(d, c.ttl), 0)

send_raw_ip_datagram(platform, publication, c, d) ==
  IF ~parse_raw_ip_datagram(d) THEN Rejected("InvalidRawIpDatagram")
  ELSE IF validate_datagram_against_config(d, c) # "ok"
  THEN Rejected(validate_datagram_against_config(d, c))
  ELSE CASE publication.backend = "raw4" -> send_linux_raw_ipv4_datagram(c, d)
         [] publication.backend = "packet6" -> send_full_header_ipv6(PacketKey, c, d)
         [] publication.backend = "bpf6" -> send_full_header_ipv6(None, c, d)
         [] publication.backend = "raw4_cached" -> send_cached_raw_ipv4(platform, c, d)

\* raw_send_report: the fields that do not just repeat the datagram.
Report(publication, d) ==
  [source |-> d.src, destination |-> d.dst, protocol |-> d.protocol,
   bind |-> publication.selection.bind, index |-> publication.selection.index]
=============================================================================
