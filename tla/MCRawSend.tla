----------------------------- MODULE MCRawSend -----------------------------
(* RawSend on two interfaces, the second without an Ethernet link layer, for *)
(* every platform, with configurations of every kind of selector and         *)
(* datagrams of more protocols, hop limits and classes than the cache holds. *)
EXTENDS RawSend, TLC

MCAddressings ==
  {[ip \in OwnAddresses |-> 1],
   [ip \in OwnAddresses |-> IF ip.host = "a" THEN 1 ELSE 2]}

AnyRaw ==
  [family |-> None, outgoing_interface |-> None, bind_addr |-> None, ttl |-> None,
   loopback |-> None, strict |-> FALSE, route_selected |-> FALSE]
a4 == Ip(4, "a")
b4 == Ip(4, "b")
a6 == Ip(6, "a")
b6 == Ip(6, "b")

MCRawConfigs ==
  {AnyRaw,
   [AnyRaw EXCEPT !.bind_addr = a4, !.ttl = 5],
   [AnyRaw EXCEPT !.outgoing_interface = a4, !.bind_addr = b4, !.loopback = FALSE],
   [AnyRaw EXCEPT !.outgoing_interface = a4, !.strict = TRUE],
   [AnyRaw EXCEPT !.outgoing_interface = a6, !.bind_addr = b6, !.ttl = 5, !.strict = TRUE],
   [AnyRaw EXCEPT !.outgoing_interface = [index |-> 1], !.bind_addr = b6],
   [AnyRaw EXCEPT !.outgoing_interface = [index |-> 1], !.loopback = TRUE],
   [AnyRaw EXCEPT !.outgoing_interface = [index |-> 2]],
   [AnyRaw EXCEPT !.route_selected = TRUE, !.family = 4],
   [AnyRaw EXCEPT !.route_selected = TRUE, !.family = 6]}

AnyRawIp ==
  [family |-> None, bind_addr |-> None, interface_addr |-> None, interface_index |-> None]

MCRawIpConfigs ==
  {[AnyRawIp EXCEPT !.interface_index = 1],
   [AnyRawIp EXCEPT !.interface_index = 2, !.family = 4],
   [AnyRawIp EXCEPT !.interface_index = 1, !.family = 6],
   [AnyRawIp EXCEPT !.bind_addr = a4, !.interface_addr = b4],
   [AnyRawIp EXCEPT !.bind_addr = a6, !.interface_addr = b6, !.interface_index = 1]}

V4(dst, protocol, ttl) ==
  [version |-> 4, len |-> 28, header_len |-> 20, total_len |-> 28, checksum |-> "valid",
   src |-> a4, dst |-> Ip(4, dst), protocol |-> protocol, ttl |-> ttl,
   traffic_class |-> 0, flow |-> "none", order |-> "network"]
V6(dst, protocol, ttl, class) ==
  [version |-> 6, len |-> 48, header_len |-> 40, total_len |-> 48, checksum |-> "none",
   src |-> a6, dst |-> Ip(6, dst), protocol |-> protocol, ttl |-> ttl,
   traffic_class |-> class, flow |-> "caller", order |-> "network"]

MCDatagrams ==
  {V4("group", 17, 1), V4("group", 2, 5), V4("remote", 6, 5),
   [V4("group", 17, 1) EXCEPT !.total_len = 27],
   [V4("group", 17, 1) EXCEPT !.checksum = "stale"],
   V6("group", 17, 5, 0), V6("remote", 17, 5, 1), V6("ll_remote", 58, 5, 0),
   [V6("group", 17, 5, 0) EXCEPT !.src = b6]}

\* A datagram to a group and one to a host, from a publication of the raw-IP API.
HopLimitConfigs == {[AnyRawIp EXCEPT !.bind_addr = a6]}
HopLimitDatagrams == {V6("remote", 17, 5, 0), V6("group", 17, 5, 0)}

Symmetry == Permutations(Threads)
=============================================================================
