-------------------------- MODULE PublicationSetup --------------------------
(***************************************************************************)
(* Publication::new, new_with_socket and new_with_udp_socket               *)
(* (src/publication.rs): from a configuration, and perhaps a socket of the *)
(* caller's, to a connected socket; and the local address that is cached   *)
(* afterwards.                                                             *)
(*                                                                         *)
(* The machine's addresses may change between two system calls, so looking *)
(* up an interface, binding, choosing the egress and connecting are steps. *)
(* A call that fails drops the socket, so one step stands for a run of     *)
(* socket options.  Any system call may fail.                              *)
(***************************************************************************)
EXTENDS Integers, FiniteSets

CONSTANTS
  V4, LinkLocals, Globals,  \* unicast addresses: IPv4, IPv6 link-local, other IPv6
  Interfaces,               \* interface indices
  InitialAddrs,             \* the addresses interfaces may have at first
  Ports,                    \* ports that are asked for
  Ephemeral,                \* a port the kernel picks
  MaxMoves,                 \* bound on changes of the machine's addresses
  None

V6 == LinkLocals \cup Globals
Unicast == V4 \cup V6

ASSUME SetupAssumption ==
  /\ Interfaces \subseteq Nat \ {0}
  /\ InitialAddrs \subseteq [Interfaces -> SUBSET Unicast]
  /\ Ports \subseteq Nat \ {0} /\ Ephemeral \in Nat \ (Ports \cup {0})
  /\ MaxMoves \in Nat

VARIABLES
  addrs,        \* the addresses of each interface
  moves,        \* history: how often they changed
  seen,         \* history: the addresses each interface has or had
  config,       \* the PublicationConfig
  existing,     \* existing_socket
  socket,       \* what the kernel knows of the socket, None if there is none
  pc,
  explicit_interface_index, source_interface_index,  \* locals
  destination_scope_id,     \* of Publication.destination
  cached_local_addr

machine == <<addrs, moves, seen>>
locals == <<explicit_interface_index, source_interface_index, destination_scope_id>>
vars == <<machine, config, existing, socket, pc, locals, cached_local_addr>>

----------------------------------------------------------------------------
(* Addresses, configurations and sockets *)

Family(ip) == IF ip \in V4 THEN "v4" ELSE "v6"
OfFamily(f) == IF f = "v4" THEN V4 ELSE V6

\* An interface by address, or by index (0 is what validate refuses).
OutgoingInterface ==
  [addr : Unicast \cup {"multicast"}] \cup [index : Interfaces \cup {0}]
IsAddr(outgoing) == outgoing # None /\ "addr" \in DOMAIN outgoing
IsIndex(outgoing) == outgoing # None /\ "index" \in DOMAIN outgoing

\* `group` says whether the destination is usable and, if it is, whether its
\* scope needs an interface (interface-local and link-local IPv6 groups).
PublicationConfig ==
  [family : {"v4"}, group : {"bad", "wide"},
   outgoing_interface : OutgoingInterface \cup {None},
   source_addr : Unicast \cup {"multicast", None}, source_port : Ports \cup {0, None}]
  \cup
  [family : {"v6"}, group : {"bad", "wide", "scoped"},
   outgoing_interface : OutgoingInterface \cup {None},
   source_addr : Unicast \cup {"multicast", None}, source_port : Ports \cup {0, None}]

\* A local address.  Port 0 with the unspecified address: not bound.
LocalAddr == [ip : Unicast \cup {"any"}, port : Ports \cup {0, Ephemeral},
              scope_id : Interfaces \cup {0}]
Unbound == [ip |-> "any", port |-> 0, scope_id |-> 0]
is_unbound_local_addr(local) == local.port = 0 /\ local.ip = "any"

\* IPv4, link-local and other IPv6 addresses are told apart, and all of them
\* from the unspecified and the multicast ones; None is nothing else.
ASSUME SetupNames ==
  /\ V4 \cap V6 = {} /\ LinkLocals \cap Globals = {}
  /\ {"any", "multicast"} \cap Unicast = {}
  /\ None \notin Unicast \cup Nat \cup {"any", "multicast"} \cup OutgoingInterface \cup LocalAddr

\* local is None where local_addr() fails; options are those that have the
\* configured value; fixed says whether the caller chose the address.
Socket == [family : {"v4", "v6"}, local : LocalAddr \cup {None}, fixed : BOOLEAN,
           multicast_if : Interfaces \cup {0},
           options : SUBSET {"nonblocking", "only_v6", "loop", "ttl"}]

ScopeOf(ip, i) == IF ip \in LinkLocals THEN i ELSE 0

\* Sockets a caller may bring: not bound, with or without a local address to
\* show for it, or bound to a port, for all addresses or for one; and with any
\* interface chosen for multicast.
CallersSockets ==
  LET Made(f, local, fixed, i) == [family |-> f, local |-> local, fixed |-> fixed,
                                   multicast_if |-> i, options |-> {}]
      Chosen == Interfaces \cup {0}
      Bound == UNION {{[ip |-> ip, port |-> p, scope_id |-> ScopeOf(ip, i)] :
                          ip \in addrs[i], p \in Ports} : i \in Interfaces}
  IN  {Made(f, local, FALSE, i) : f \in {"v4", "v6"}, local \in {Unbound, None}, i \in Chosen}
      \cup {Made(f, [Unbound EXCEPT !.port = p], FALSE, i) :
              f \in {"v4", "v6"}, p \in Ports, i \in Chosen}
      \cup {Made(Family(local.ip), local, TRUE, i) : local \in Bound, i \in Chosen}

----------------------------------------------------------------------------
(* The machine *)

\* Address a appears on interface i, or goes.
MoveAddress(a, i) ==
  /\ moves < MaxMoves /\ moves' = moves + 1
  /\ addrs' = [addrs EXCEPT ![i] = IF a \in @ THEN @ \ {a} ELSE @ \cup {a}]
  /\ seen' = [seen EXCEPT ![i] = @ \cup {a}]
  /\ UNCHANGED <<config, existing, socket, pc, locals, cached_local_addr>>

Holders(a) == {i \in Interfaces : a \in addrs[i]}

\* bind(): an address has to be there, a link-local one on its interface.
CanBind(local) ==
  /\ local.ip \in OfFamily(socket.family) \cup {"any"}
  /\ local.ip # "any" =>
       IF local.ip \in LinkLocals THEN local.scope_id \in Holders(local.ip)
                                  ELSE Holders(local.ip) # {}
BoundTo(local) == [local EXCEPT !.port = IF @ = 0 THEN Ephemeral ELSE @]

\* connect() gives an unspecified local address the one of an interface: the
\* one chosen for multicast, or any.
ConnectedFrom(s) ==
  LET ways == IF s.multicast_if = 0 THEN Interfaces ELSE {s.multicast_if}
      port == IF s.local = None \/ s.local.port = 0 THEN Ephemeral ELSE s.local.port
  IN  IF s.local # None /\ s.local.ip # "any" THEN {s.local}
      ELSE UNION {{[ip |-> ip, port |-> port, scope_id |-> ScopeOf(ip, i)] :
                     ip \in addrs[i] \cap OfFamily(s.family)} : i \in ways}

----------------------------------------------------------------------------
(* Setting up *)

\* PublicationConfig::validate
validate(c) ==
  /\ c.group # "bad"
  /\ c.source_port # 0
  /\ c.source_addr # None => c.source_addr \in OfFamily(c.family)
  /\ IsAddr(c.outgoing_interface) => c.outgoing_interface.addr \in OfFamily(c.family)
  /\ IsIndex(c.outgoing_interface) => c.family = "v6" /\ c.outgoing_interface.index # 0

\* validate_existing_socket
validate_existing_socket(s, c) ==
  s.local # None =>
    /\ s.family = c.family
    /\ ~is_unbound_local_addr(s.local) =>
         /\ c.source_addr # None => s.local.ip = c.source_addr
         /\ c.source_port # None => s.local.port = c.source_port

NoLocals ==
  /\ explicit_interface_index = None /\ source_interface_index = None
  /\ destination_scope_id = 0

Init ==
  /\ addrs \in InitialAddrs /\ moves = 0 /\ seen = addrs
  /\ config \in PublicationConfig
  /\ \/ existing = FALSE /\ socket = None
     \/ existing = TRUE /\ socket \in CallersSockets
  /\ pc = "start"
  /\ NoLocals
  /\ cached_local_addr = None

\* Any error: the call returns it and the socket is closed.
Fail ==
  /\ pc' = "failed" /\ socket' = None
  /\ UNCHANGED <<machine, config, existing, locals, cached_local_addr>>

Invalid ==
  /\ pc = "start"
  /\ ~validate(config) \/ (existing /\ ~validate_existing_socket(socket, config))
  /\ Fail

\* A system call or the lookup of an interface fails, at any stage.
SystemCallFails == pc \in {"start", "explicit", "source", "bind", "options", "connect"} /\ Fail

\* validate, the socket, set_nonblocking and, for a new one, set_only_v6
Open ==
  /\ pc = "start" /\ validate(config)
  /\ IF existing
     THEN /\ validate_existing_socket(socket, config)
          /\ socket' = [socket EXCEPT !.options = @ \cup {"nonblocking"}]
     ELSE socket' = [family |-> config.family, local |-> Unbound, fixed |-> FALSE,
                     multicast_if |-> 0,
                     options |-> IF config.family = "v6" THEN {"nonblocking", "only_v6"}
                                 ELSE {"nonblocking"}]
  /\ pc' = IF config.family = "v4" THEN "bind" ELSE "explicit"
  /\ UNCHANGED <<machine, config, existing, locals, cached_local_addr>>

\* resolve_ipv6_interface_index: the one interface with address a.  None or
\* several is an error.
Resolves(a, i) == Holders(a) = {i}

\* explicit_interface_index_v6
ResolveExplicit ==
  /\ pc = "explicit"
  /\ \E i \in Interfaces \cup {0, None} :
       /\ explicit_interface_index' = i
       /\ CASE IsIndex(config.outgoing_interface) -> i = config.outgoing_interface.index
            [] IsAddr(config.outgoing_interface) ->
                 i # None /\ Resolves(config.outgoing_interface.addr, i)
            [] OTHER -> i = None
  /\ pc' = "source"
  /\ UNCHANGED <<machine, config, existing, socket, source_interface_index,
                 destination_scope_id, cached_local_addr>>

\* The interface of the source address, as configure_socket_v6 works it out:
\* a link-local one belongs to the chosen interface, any other is looked up.
SourceIndex(source, i) ==
  CASE source = None -> i = None
    [] source # None /\ config.outgoing_interface = [addr |-> source] ->
         i = explicit_interface_index
    [] source \in LinkLocals /\ config.outgoing_interface # [addr |-> source] ->
         IF explicit_interface_index # None THEN i = explicit_interface_index
         ELSE i # None /\ Resolves(source, i)
    [] source \in Globals /\ config.outgoing_interface # [addr |-> source] ->
         i # None /\ Resolves(source, i)

\* Otherwise Ipv6SourceInterfaceMismatch.
Agree(i) == i = None \/ explicit_interface_index = None \/ i = explicit_interface_index

ResolveSource ==
  /\ pc = "source"
  /\ \E i \in Interfaces \cup {None} :
       /\ SourceIndex(config.source_addr, i)
       /\ Agree(i)
       /\ source_interface_index' = i
  /\ pc' = "bind"
  /\ UNCHANGED <<machine, config, existing, socket, explicit_interface_index,
                 destination_scope_id, cached_local_addr>>

Mismatch ==
  /\ pc = "source"
  /\ \E i \in Interfaces : SourceIndex(config.source_addr, i) /\ ~Agree(i)
  /\ Fail

effective_interface_index ==
  IF explicit_interface_index # None THEN explicit_interface_index ELSE source_interface_index

\* The address to bind: the source, or the address that names the interface
\* (IPv6 only).
bind_source ==
  IF config.source_addr # None THEN config.source_addr
  ELSE IF config.family = "v6" /\ IsAddr(config.outgoing_interface)
  THEN config.outgoing_interface.addr ELSE None

\* bind_addr_v4 and bind_addr_v6, where there is something to bind.
NeedsBind == bind_source # None \/ config.source_port # None
bind_addr ==
  [ip |-> IF bind_source = None THEN "any" ELSE bind_source,
   port |-> IF config.source_port = None THEN 0 ELSE config.source_port,
   scope_id |-> IF bind_source \in LinkLocals THEN effective_interface_index ELSE 0]

\* Mutant of matches_bind_constraints: the scope is not compared.
MatchesAnyScope(local, requested) ==
  /\ requested.ip \in {"any", local.ip}
  /\ requested.port \in {0, local.port}

matches_bind_constraints(local, requested) ==
  /\ requested.ip \in {"any", local.ip}
  /\ requested.port \in {0, local.port}
  /\ requested.scope_id \in {0, local.scope_id}

\* bind_if_needed, if anything is to be bound.  A socket that is bound already
\* has to match.
Bind ==
  /\ pc = "bind"
  /\ IF ~NeedsBind THEN UNCHANGED socket
     ELSE IF socket.local = None \/ is_unbound_local_addr(socket.local)
     THEN /\ CanBind(bind_addr)
          /\ socket' = [socket EXCEPT !.local = BoundTo(bind_addr),
                                      !.fixed = bind_source # None]
     ELSE matches_bind_constraints(socket.local, bind_addr) /\ UNCHANGED socket
  /\ pc' = "options"
  /\ UNCHANGED <<machine, config, existing, locals, cached_local_addr>>

\* Mutant of SetOptions: an IPv4 interface is not set.
OptionsWithoutInterface ==
  /\ pc = "options"
  /\ \E i \in Interfaces \cup {0} :
       /\ i = IF config.family = "v6" /\ effective_interface_index # None
              THEN effective_interface_index ELSE socket.multicast_if
       /\ socket' = [socket EXCEPT !.multicast_if = i, !.options = @ \cup {"loop", "ttl"}]
  /\ pc' = "connect"
  /\ UNCHANGED <<machine, config, existing, locals, cached_local_addr>>

\* The egress interface, loopback, TTL or hop limit.  IPv4 names the interface
\* by an address.
SetOptions ==
  /\ pc = "options"
  /\ \E i \in Interfaces \cup {0} :
       /\ CASE config.family = "v6" /\ effective_interface_index # None ->
                 i = effective_interface_index
            [] config.family = "v4" /\ config.outgoing_interface # None ->
                 i \in Holders(config.outgoing_interface.addr)
            [] OTHER -> i = socket.multicast_if
       /\ socket' = [socket EXCEPT !.multicast_if = i, !.options = @ \cup {"loop", "ttl"}]
  /\ pc' = "connect"
  /\ UNCHANGED <<machine, config, existing, locals, cached_local_addr>>

\* ipv6_destination_scope_id: the scope of the destination's address.
ScopeId ==
  IF config.group = "scoped" /\ effective_interface_index # None
  THEN effective_interface_index ELSE 0

\* Ipv6ScopedMulticastRequiresInterface
ScopeMissing ==
  /\ pc = "connect"
  /\ config.group = "scoped" /\ effective_interface_index = None
  /\ Fail

Connect ==
  /\ pc = "connect"
  /\ config.group = "scoped" => effective_interface_index # None
  /\ socket.family = config.family
  /\ \E local \in ConnectedFrom(socket) : socket' = [socket EXCEPT !.local = local]
  /\ destination_scope_id' = ScopeId
  /\ pc' = "ready"
  /\ UNCHANGED <<machine, config, existing, explicit_interface_index,
                 source_interface_index, cached_local_addr>>

----------------------------------------------------------------------------
(* The local address of a publication *)

\* cached_local_addr, called by local_addr() and by a send for its report
CacheLocalAddr ==
  /\ pc = "ready" /\ cached_local_addr = None
  /\ cached_local_addr' = socket.local
  /\ UNCHANGED <<machine, config, existing, socket, pc, locals>>

\* The caller reconnects through &mut Socket: an address that nobody chose may
\* become another.
Reconnected ==
  /\ pc = "ready" /\ ~socket.fixed
  /\ \E i \in Interfaces : \E ip \in addrs[i] \cap OfFamily(socket.family) :
       socket' = [socket EXCEPT !.local.ip = ip, !.local.scope_id = ScopeOf(ip, i)]

\* Mutant of socket_mut: the cache is not cleared.
SocketMutKeeps ==
  /\ Reconnected
  /\ UNCHANGED <<machine, config, existing, pc, locals, cached_local_addr>>

socket_mut ==
  /\ Reconnected
  /\ cached_local_addr' = None
  /\ UNCHANGED <<machine, config, existing, pc, locals>>

Next ==
  \/ \E a \in Unicast, i \in Interfaces : MoveAddress(a, i)
  \/ Invalid \/ SystemCallFails \/ Open \/ ResolveExplicit \/ ResolveSource \/ Mismatch
  \/ Bind \/ SetOptions \/ ScopeMissing \/ Connect
  \/ CacheLocalAddr \/ socket_mut

Spec == Init /\ [][Next]_vars

----------------------------------------------------------------------------
(* Properties *)

\* Each variable has its type: an interface index is never 0 and a scope is
\* that of an interface.
TypeOK ==
  /\ addrs \in [Interfaces -> SUBSET Unicast] /\ moves \in 0 .. MaxMoves
  /\ seen \in [Interfaces -> SUBSET Unicast]
  /\ config \in PublicationConfig
  /\ existing \in BOOLEAN
  /\ socket \in Socket \cup {None}
  /\ pc \in {"start", "explicit", "source", "bind", "options", "connect", "ready", "failed"}
  /\ explicit_interface_index \in Interfaces \cup {None}
  /\ source_interface_index \in Interfaces \cup {None}
  /\ destination_scope_id \in Interfaces \cup {0}
  /\ cached_local_addr \in LocalAddr \cup {None}

\* A publication's socket does what its configuration says, whoever made the
\* socket and whatever it was bound to: it does not block, has the address
\* family, the source address (or the address that names the interface), the
\* source port and the egress interface asked for, by its index or by an address
\* that it has or had since the call, whatever interface the caller's socket had
\* chosen; and a scoped group is reached through that interface.
ConfigHonoured ==
  pc = "ready" =>
    /\ {"nonblocking", "loop", "ttl"} \subseteq socket.options
    /\ socket.family = config.family
    /\ socket.local.ip # "any" /\ socket.local.port # 0
    /\ bind_source # None => socket.local.ip = bind_source
    /\ config.source_port # None => socket.local.port = config.source_port
    /\ IsIndex(config.outgoing_interface) =>
         socket.multicast_if = config.outgoing_interface.index
    /\ IsAddr(config.outgoing_interface) =>
         /\ socket.multicast_if # 0
         /\ config.outgoing_interface.addr \in seen[socket.multicast_if]
    /\ config.group = "scoped" =>
         destination_scope_id # 0 /\ destination_scope_id = socket.multicast_if

\* Unless the machine's addresses changed meanwhile, an IPv6 source address
\* that was asked for is an address of the interface the packets leave by,
\* however the two were named and even if several interfaces share the address.
SourceOnEgress ==
  pc = "ready" /\ moves = 0 /\ config.family = "v6" /\ bind_source # None =>
    /\ socket.multicast_if # 0
    /\ socket.local.ip \in addrs[socket.multicast_if]
    /\ socket.local.scope_id = ScopeOf(socket.local.ip, socket.multicast_if)

\* The local address in reports is the socket's, also after the caller had the
\* socket through socket_mut.
LocalAddrCurrent == cached_local_addr # None => cached_local_addr = socket.local
=============================================================================
