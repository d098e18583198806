--------------------------- MODULE RawIpPlatform ---------------------------
(***************************************************************************)
(* The generic raw-IP API (src/raw_ip/config.rs, src/raw_ip/datagram.rs,   *)
(* src/raw_ip/platform.rs, src/raw_ip/capabilities.rs): any destination,   *)
(* a mandatory interface, IPv4 with the header included and IPv6 with a    *)
(* header the kernel rebuilds.  RawSend runs these definitions.            *)
(***************************************************************************)
EXTENDS RawNet

validate(c) ==
  LET bind == c.bind_addr
      addr == c.interface_addr
  IN  FirstError(<<
        <<bind = None /\ addr = None /\ c.interface_index = None, "RawInterfaceRequired">>,
        <<c.interface_index = 0, "RawInterfaceRequired">>,
        <<bind # None /\ Unusable(bind), "InvalidRawBindAddress">>,
        <<bind # None /\ c.family \notin {None, bind.family}, "RawBindAddressFamilyMismatch">>,
        <<addr # None /\ Unusable(addr), "InvalidInterfaceAddress">>,
        <<addr # None /\ c.family \notin {None, addr.family}, "OutgoingInterfaceFamilyMismatch">>,
        <<bind # None /\ addr # None /\ bind.family # addr.family,
          "OutgoingInterfaceFamilyMismatch">>,
        <<c.family = None /\ bind = None /\ addr = None, "RawPacketTransmitUnsupported">> >>)

resolved_family(c) ==
  CASE c.family # None -> c.family
    [] c.family = None /\ c.bind_addr # None -> c.bind_addr.family
    [] OTHER -> c.interface_addr.family

\* Mutant of resolve_selection: only the first selector counts.
ResolveFirst(c, answers) ==
  LET index == CASE c.interface_index # None -> c.interface_index
                 [] c.interface_index = None /\ c.bind_addr # None -> answers.bind
                 [] OTHER -> answers.interface
  IN  [error |-> IF index = 0 THEN "InterfaceDiscoveryFailed" ELSE "ok",
       value |-> [bind |-> c.bind_addr, addr |-> c.interface_addr, index |-> index]]

\* What resolved_index has been so far.
Indices(c, answers) ==
  ({answers[s] : s \in Selectors} \cup {c.interface_index}) \ {None}

\* Index, bind address and interface address must name one interface; the loop
\* ends at the first look-up that fails or disagrees.
LookupFailed(c, answers) ==
  \/ 0 \in Indices(c, answers)
  \/ \E i, j \in Indices(c, answers) : i # j

resolve_selection(c, answers) ==
  LET indices == Indices(c, answers)
  IN  [error |-> IF LookupFailed(c, answers) THEN "InterfaceDiscoveryFailed" ELSE "ok",
       value |-> [bind |-> c.bind_addr, addr |-> c.interface_addr,
                  index |-> CHOOSE i \in indices : TRUE]]

\* Linux keeps an IPv4 socket; everything else is opened per key.
Backend(platform, family) ==
  IF family = 6 THEN "ip6" ELSE IF platform = "linux" THEN "ip4" ELSE "ip4_cached"

require_unix_ipv6_bind_addr(family, c) == family = 6 => c.bind_addr # None

\* The loop over the selectors, the bind address first.
lookups(platform, c) ==
  IF platform # "other" /\ validate(c) = "ok" THEN BySelector(c.interface_addr, c.bind_addr)
  ELSE BySelector(None, None)

open_raw_ip_socket(platform, c, answers) ==
  LET family == resolved_family(c)
      selection == resolve_selection(c, answers)
      error == FirstError(<<
        <<selection.error # "ok", selection.error>>,
        <<platform # "windows" /\ ~require_unix_ipv6_bind_addr(family, c),
          "RawPacketTransmitUnsupported">>,
        <<platform = "windows" /\ family = 6, "RawPacketTransmitUnsupported">> >>)
  IN  IF platform = "other" THEN Refused("RawPacketTransmitUnsupported")
      ELSE IF validate(c) # "ok" THEN Refused(validate(c))
      ELSE IF error # "ok" THEN Refused(error)
      ELSE Opened(Backend(platform, family), family, selection.value)

\* raw_ip_capabilities: is the family supported?
egress_supported(platform, family) ==
  platform \in {"linux", "macos"} \/ (platform = "windows" /\ family = 4)

----------------------------------------------------------------------------
(* The sockets of a publication *)

CanBind(selection, where) ==
  selection.bind # None => InterfaceOf(selection.bind, where) # 0

\* Pinned with SO_BINDTOIFINDEX or IP_BOUND_IF.
open_unix_raw_socket(family, selection, protocol) ==
  [BareSocket(IF family = 4 THEN "raw4" ELSE "raw6", protocol) EXCEPT
     !.bind = selection.bind, !.device = selection.index]

\* Pinned with IP_UNICAST_IF.
open_windows_raw_ipv4_socket(selection, protocol) ==
  [BareSocket("raw4", protocol) EXCEPT
     !.bind = selection.bind, !.unicast_if = selection.index]

OpensEagerly(publication) == TRUE

KeepsEager(publication) == publication.backend = "ip4"

\* The socket for a key, or None when the system refuses to bind it.  An IPv6
\* key carries the hop limit and the traffic class its socket gets; the socket
\* opened with the publication (key None, IPPROTO_RAW) has neither.
NewSocket(platform, publication, c, key, where) ==
  LET selection == publication.selection
  IN  IF ~CanBind(selection, where) THEN None
      ELSE IF platform = "windows"
      THEN open_windows_raw_ipv4_socket(selection, ProtocolOf(key))
      ELSE [open_unix_raw_socket(publication.family, selection, ProtocolOf(key)) EXCEPT
              !.hops = IF key = None THEN None ELSE key.hop_limit,
              !.traffic_class = IF key = None THEN None ELSE key.traffic_class]

----------------------------------------------------------------------------
(* Sending *)

parse_ipv4_datagram(d) ==
  /\ d.len >= 20
  /\ d.header_len >= 20 /\ d.len >= d.header_len
  /\ d.total_len = d.len /\ d.total_len >= d.header_len
  /\ d.checksum = "valid"

parse_ipv6_datagram(d) == d.len >= 40 /\ d.total_len = d.len

parse_complete_ip_datagram(d) ==
  /\ \/ d.version = 4 /\ parse_ipv4_datagram(d)
     \/ d.version = 6 /\ parse_ipv6_datagram(d)
  /\ ~is_unspecified(d.src) /\ ~is_unspecified(d.dst)

\* The header copy with lengths in host order.
prepare_macos_ipv4_header(d) == [d EXCEPT !.order = "host", !.checksum = "zero"]

ipv6_destination_scope_id(destination, index) ==
  IF is_link_local(destination) THEN index ELSE 0

\* Mutant of Ipv6Key: the traffic class is left to the first datagram.
Ipv6KeyByHops(d) == Key(d.protocol, d.ttl, 0)

\* RawIpv6ProtocolSocketKey
Ipv6Key(d) == Key(d.protocol, d.ttl, d.traffic_class)

\* The kernel writes the bind address into the header it rebuilds.
validate_unix_ipv6_source(publication, d) == d.src = publication.selection.bind

send_unix_raw_ipv6_datagram(publication, d) ==
  IF ~validate_unix_ipv6_source(publication, d) THEN Rejected("RawDatagramSourceMismatch")
  ELSE Planned(Ipv6Key(d), d, ipv6_destination_scope_id(d.dst, publication.selection.index))

send_ip_datagram(platform, publication, d) ==
  IF ~parse_complete_ip_datagram(d) \/ d.version # publication.family
  THEN Rejected("InvalidRawIpDatagram")
  ELSE CASE publication.backend = "ip6" -> send_unix_raw_ipv6_datagram(publication, d)
         [] publication.backend = "ip4" -> Planned(None, d, 0)
         [] publication.backend = "ip4_cached" ->
              Planned(Key(d.protocol, None, None),
                      IF platform = "macos" THEN prepare_macos_ipv4_header(d) ELSE d, 0)

\* raw_ip_send_report: the fields that do not just repeat the datagram.
Report(publication, d) ==
  [source |-> d.src, destination |-> d.dst, protocol |-> d.protocol,
   bind |-> publication.selection.bind, index |-> publication.selection.index]
=============================================================================
