----------------------- MODULE PublicationSetupProofs -----------------------
(***************************************************************************)
(* Setting up a publication, for any addresses, interfaces, ports and      *)
(* number of changes of the machine: a publication honours its             *)
(* configuration, sends from an address of its egress interface, and       *)
(* reports its current address.                                            *)
(***************************************************************************)
EXTENDS PublicationSetup, TLAPS

----------------------------------------------------------------------------
(* The inductive invariant: what each stage of the set-up has achieved *)

\* The stages that follow each stage of the set-up.
AfterOptions == {"connect", "ready"}
AfterBind == AfterOptions \cup {"options"}
AfterSource == AfterBind \cup {"bind"}
AfterExplicit == AfterSource \cup {"source"}
AfterOpen == AfterExplicit \cup {"explicit"}

\* The configuration was found valid before anything was done, and interfaces
\* are looked up for IPv6 only.
Valid ==
  /\ pc \in AfterOpen => validate(config)
  /\ pc \in {"explicit", "source"} => config.family = "v6"

\* Where an address is: a link-local one on the interface of its scope.  Once
\* addresses moved, it may be anywhere.
Placed(local) ==
  /\ local.ip \in LinkLocals => /\ local.scope_id \in Interfaces
                                /\ moves = 0 => local.ip \in addrs[local.scope_id]
  /\ local.ip \notin LinkLocals => local.scope_id = 0

\* The socket's address, if it has one, has a port and its place.
Located(s) ==
  s.local # None /\ s.local.ip # "any" => s.local.port # 0 /\ Placed(s.local)

\* There is a socket, new or the caller's, and until connect() gives it an
\* address, an address is one that somebody chose.
Held ==
  /\ pc \in AfterOpen \/ (pc = "start" /\ existing) =>
       /\ socket \in Socket /\ Located(socket)
       /\ pc # "ready" /\ socket.local # None /\ socket.local.ip # "any" => socket.fixed
  /\ pc \in AfterOpen => "nonblocking" \in socket.options

\* The interface that was named, by index or by an address it has.
Explicit ==
  pc \in AfterExplicit /\ config.family = "v6" =>
    /\ IsIndex(config.outgoing_interface) =>
         explicit_interface_index = config.outgoing_interface.index
    /\ IsAddr(config.outgoing_interface) =>
         /\ explicit_interface_index \in Interfaces
         /\ moves = 0 => config.outgoing_interface.addr \in addrs[explicit_interface_index]

\* The interface of the source address is the one that was named, if any was.
Source ==
  pc \in AfterSource /\ config.family = "v6" /\ config.source_addr # None =>
    /\ source_interface_index \in Interfaces
    /\ explicit_interface_index \in {None, source_interface_index}
    /\ moves = 0 /\ config.source_addr \in Globals =>
         config.source_addr \in addrs[source_interface_index]

\* The socket is bound to what was asked for, on the interface it was asked on.
Bound ==
  pc \in AfterBind =>
    /\ bind_source # None =>
         /\ socket.local # None /\ socket.local.ip = bind_source /\ socket.fixed
         /\ bind_source \in LinkLocals => socket.local.scope_id = effective_interface_index
    /\ config.source_port # None =>
         socket.local # None /\ socket.local.port = config.source_port

\* Packets leave by that interface.
Egress ==
  pc \in AfterOptions =>
    /\ {"loop", "ttl"} \subseteq socket.options
    /\ config.family = "v6" /\ effective_interface_index # None =>
         socket.multicast_if = effective_interface_index

\* The publication is connected.
Connected ==
  pc = "ready" =>
    /\ socket.family = config.family
    /\ socket.local # None /\ socket.local.ip # "any" /\ socket.local.port # 0
    /\ config.group = "scoped" => effective_interface_index # None
    /\ destination_scope_id = ScopeId

\* Only a publication that is ready has a cached address, and it is the socket's.
Cached == cached_local_addr # None => pc = "ready" /\ cached_local_addr = socket.local

\* All of it.
SetupInv ==
  TypeOK /\ Valid /\ Held /\ Explicit /\ Source /\ Bound /\ Egress /\ Connected /\ Cached

----------------------------------------------------------------------------
(* Configurations *)

\* What a PublicationConfig holds; only an IPv6 group can be scoped.
LEMMA ConfigFacts ==
  ASSUME config \in PublicationConfig
  PROVE  /\ config.family \in {"v4", "v6"} /\ (config.group = "scoped" => config.family = "v6")
         /\ config.outgoing_interface \in OutgoingInterface \cup {None}
         /\ config.source_addr \in Unicast \cup {"multicast", None}
         /\ config.source_port \in Ports \cup {0, None}
  BY DEF PublicationConfig

\* An outgoing interface is an address or an index.
LEMMA InterfaceFacts ==
  ASSUME NEW o \in OutgoingInterface
  PROVE  /\ o # None
         /\ IsAddr(o) \/ IsIndex(o)
         /\ IsAddr(o) => o \in [addr : Unicast \cup {"multicast"}] /\ ~IsIndex(o)
         /\ IsIndex(o) => o \in [index : Interfaces \cup {0}] /\ ~IsAddr(o)
<1>1. o # None  BY SetupNames DEF OutgoingInterface
<1>2. CASE o \in [addr : Unicast \cup {"multicast"}]
  <2>1. DOMAIN o = {"addr"}  BY <1>2
  <2> QED BY <1>1, <1>2, <2>1 DEF IsAddr, IsIndex
<1>3. CASE o \in [index : Interfaces \cup {0}]
  <2>1. DOMAIN o = {"index"}  BY <1>3
  <2> QED BY <1>1, <1>3, <2>1 DEF IsAddr, IsIndex
<1> QED BY <1>2, <1>3 DEF OutgoingInterface

\* A valid configuration binds an address of its family, and names an IPv6
\* interface by an IPv6 address or by its index.
LEMMA ValidFacts ==
  ASSUME config \in PublicationConfig, validate(config)
  PROVE  /\ bind_source # None => bind_source \in OfFamily(config.family)
         /\ config.source_addr # None => config.source_addr \in OfFamily(config.family)
         /\ IsIndex(config.outgoing_interface) => config.outgoing_interface.index \in Interfaces
         /\ config.source_port # None => config.source_port \in Ports
<1>1. config.outgoing_interface # None => config.outgoing_interface \in OutgoingInterface
  BY ConfigFacts
<1>2. IsIndex(config.outgoing_interface) => config.outgoing_interface \in [index : Interfaces \cup {0}]
  BY <1>1, InterfaceFacts DEF IsIndex
<1>3. config.source_port # None => config.source_port \in Ports
  BY ConfigFacts DEF validate
<1>4. IsIndex(config.outgoing_interface) => config.outgoing_interface.index \in Interfaces
  BY <1>2 DEF validate
<1>5. config.source_addr # None => config.source_addr \in OfFamily(config.family)
  BY DEF validate
<1>6. IsAddr(config.outgoing_interface) =>
        config.outgoing_interface.addr \in OfFamily(config.family)
  BY DEF validate
<1> QED BY <1>3, <1>4, <1>5, <1>6 DEF bind_source

----------------------------------------------------------------------------
(* The initial state *)

\* Before the set-up nothing is open, bound or cached.
LEMMA Initially == Init => SetupInv
<1> SUFFICES ASSUME Init PROVE SetupInv  OBVIOUS
<1>1. /\ addrs \in [Interfaces -> SUBSET Unicast] /\ moves = 0 /\ pc = "start"
      /\ seen \in [Interfaces -> SUBSET Unicast]
      /\ explicit_interface_index = None /\ source_interface_index = None
      /\ destination_scope_id = 0 /\ cached_local_addr = None
      /\ config \in PublicationConfig /\ existing \in BOOLEAN
  BY SetupAssumption DEF Init, NoLocals
<1>2. CASE existing = FALSE /\ socket = None
  BY <1>1, <1>2, SetupAssumption DEF SetupInv, TypeOK, Valid, Held, Explicit, Source, Bound, Egress,
     Connected, Cached, AfterOptions, AfterBind, AfterSource, AfterExplicit, AfterOpen
<1>3. CASE existing = TRUE /\ socket \in CallersSockets
  <2>1. ASSUME NEW f \in {"v4", "v6"}, NEW local \in LocalAddr \cup {None}, NEW fixed \in BOOLEAN,
               NEW m \in Interfaces \cup {0},
               socket = [family |-> f, local |-> local, fixed |-> fixed,
                         multicast_if |-> m, options |-> {}]
        PROVE  socket \in Socket /\ socket.local = local /\ socket.fixed = fixed
    BY <2>1 DEF Socket
  <2>2. Unbound \in LocalAddr /\ Unbound.ip = "any"  BY DEF Unbound, LocalAddr
  <2>3. \A p \in Ports : /\ [Unbound EXCEPT !.port = p] \in LocalAddr
                         /\ [Unbound EXCEPT !.port = p].ip = "any"
    BY DEF Unbound, LocalAddr
  <2>4. ASSUME NEW ip \in Unicast, NEW p \in Ports, NEW i \in Interfaces, ip \in addrs[i],
               NEW l, l = [ip |-> ip, port |-> p, scope_id |-> ScopeOf(ip, i)]
        PROVE  l \in LocalAddr /\ l.port # 0 /\ Placed(l)
    <3>1. l \in LocalAddr  BY <2>4 DEF LocalAddr, ScopeOf
    <3>2. l.ip = ip /\ l.port = p /\ l.scope_id = ScopeOf(ip, i)  BY <2>4
    <3>3. p # 0  BY SetupAssumption
    <3> QED BY <2>4, <3>1, <3>2, <3>3 DEF Placed, ScopeOf
  <2>5. socket \in Socket /\ Located(socket)
        /\ (socket.local # None /\ socket.local.ip # "any" => socket.fixed)
    <3> DEFINE Bnd == UNION {{[ip |-> ip, port |-> p, scope_id |-> ScopeOf(ip, i)] :
                                ip \in addrs[i], p \in Ports} : i \in Interfaces}
    <3>1. CASE \E f \in {"v4", "v6"}, local \in {Unbound, None}, m \in Interfaces \cup {0} :
                 socket = [family |-> f, local |-> local, fixed |-> FALSE,
                           multicast_if |-> m, options |-> {}]
      <4>1. PICK f \in {"v4", "v6"}, local \in {Unbound, None}, m \in Interfaces \cup {0} :
                 socket = [family |-> f, local |-> local, fixed |-> FALSE,
                           multicast_if |-> m, options |-> {}]
        BY <3>1
      <4>2. socket \in Socket /\ socket.local = local  BY <2>1, <2>2, <4>1
      <4> QED BY <2>2, <4>2 DEF Located
    <3>2. CASE \E f \in {"v4", "v6"}, p \in Ports, m \in Interfaces \cup {0} :
                 socket = [family |-> f, local |-> [Unbound EXCEPT !.port = p], fixed |-> FALSE,
                           multicast_if |-> m, options |-> {}]
      <4>1. PICK f \in {"v4", "v6"}, p \in Ports, m \in Interfaces \cup {0} :
                 socket = [family |-> f, local |-> [Unbound EXCEPT !.port = p], fixed |-> FALSE,
                           multicast_if |-> m, options |-> {}]
        BY <3>2
      <4>2. socket \in Socket /\ socket.local = [Unbound EXCEPT !.port = p]  BY <2>1, <2>3, <4>1
      <4> QED BY <2>3, <4>2 DEF Located
    <3>3. CASE \E local \in Bnd, m \in Interfaces \cup {0} :
                 socket = [family |-> Family(local.ip), local |-> local, fixed |-> TRUE,
                           multicast_if |-> m, options |-> {}]
      <4> HIDE DEF Bnd
      <4>1. PICK local \in Bnd, m \in Interfaces \cup {0} :
                 socket = [family |-> Family(local.ip), local |-> local, fixed |-> TRUE,
                           multicast_if |-> m, options |-> {}]
        BY <3>3
      <4>2. PICK i \in Interfaces : local \in {[ip |-> ip, port |-> p, scope_id |-> ScopeOf(ip, i)] :
                                                 ip \in addrs[i], p \in Ports}
        BY <4>1 DEF Bnd
      <4>3. PICK ip \in addrs[i], p \in Ports :
              local = [ip |-> ip, port |-> p, scope_id |-> ScopeOf(ip, i)]
        BY <4>2
      <4>4. local \in LocalAddr /\ local.port # 0 /\ Placed(local)  BY <1>1, <2>4, <4>3
      <4>5. Family(local.ip) \in {"v4", "v6"}  BY DEF Family
      <4>6. socket \in Socket /\ socket.local = local /\ socket.fixed = TRUE
        <5>1. local \in LocalAddr \cup {None}  BY <4>4
        <5> QED BY <2>1, <4>1, <5>1, <4>5
      <4> QED BY <4>4, <4>6 DEF Located
    <3> QED BY <1>3, <3>1, <3>2, <3>3 DEF CallersSockets
  <2> QED BY <1>1, <1>3, <2>5, SetupAssumption DEF SetupInv, TypeOK, Valid, Held, Explicit, Source,
       Bound, Egress, Connected, Cached, AfterOptions, AfterBind, AfterSource, AfterExplicit, AfterOpen
<1> QED BY <1>2, <1>3 DEF Init

----------------------------------------------------------------------------
(* The steps *)

\* The locals and the configuration determine what is bound and where.
LEMMA SameChoice ==
  ASSUME UNCHANGED <<config, explicit_interface_index, source_interface_index>>
  PROVE  /\ bind_source' = bind_source
         /\ effective_interface_index' = effective_interface_index
         /\ ScopeId' = ScopeId
  BY DEF bind_source, effective_interface_index, ScopeId, IsAddr

\* An address moves: nothing is known any more of where addresses are.
LEMMA MoveKeeps ==
  ASSUME SetupInv, NEW a \in Unicast, NEW i \in Interfaces, MoveAddress(a, i)
  PROVE  SetupInv'
<1> USE DEF AfterOptions, AfterBind, AfterSource, AfterExplicit, AfterOpen
<1>1. /\ UNCHANGED <<config, existing, socket, pc, explicit_interface_index,
                     source_interface_index, destination_scope_id, cached_local_addr>>
      /\ moves' \in 0 .. MaxMoves /\ moves' # 0 /\ addrs' \in [Interfaces -> SUBSET Unicast]
      /\ seen' \in [Interfaces -> SUBSET Unicast]
  BY SetupAssumption DEF SetupInv, TypeOK, MoveAddress, locals
<1>2. TypeOK' /\ Valid'  BY <1>1 DEF SetupInv, TypeOK, Valid
<1>3. Held'  BY <1>1 DEF SetupInv, Held, Located, Placed
<1>4. Explicit' /\ Source'  BY <1>1 DEF SetupInv, Explicit, Source
<1>5. Bound' /\ Egress' /\ Connected' /\ Cached'
  BY <1>1, SameChoice DEF SetupInv, Bound, Egress, Connected, Cached
<1> QED BY <1>2, <1>3, <1>4, <1>5 DEF SetupInv

\* A failure before the publication is ready leaves nothing to hold.
LEMMA FailKeeps ==
  ASSUME SetupInv, Fail, pc # "ready"
  PROVE  SetupInv'
<1> USE DEF AfterOptions, AfterBind, AfterSource, AfterExplicit, AfterOpen
<1>1. /\ UNCHANGED <<addrs, moves, seen, config, existing, explicit_interface_index,
                     source_interface_index, destination_scope_id, cached_local_addr>>
      /\ pc' = "failed" /\ socket' = None
  BY DEF Fail, machine, locals
<1>2. TypeOK' /\ Cached'  BY <1>1 DEF SetupInv, TypeOK, Cached
<1>3. /\ Valid' /\ Held' /\ Explicit' /\ Source' /\ Bound' /\ Egress' /\ Connected'
  BY <1>1 DEF Valid, Held, Explicit, Source, Bound, Egress, Connected
<1> QED BY <1>2, <1>3 DEF SetupInv

\* The socket is there, does not block and is the one that was validated.
LEMMA OpenKeeps ==
  ASSUME SetupInv, Open
  PROVE  SetupInv'
<1> USE DEF AfterOptions, AfterBind, AfterSource, AfterExplicit, AfterOpen
<1>1. /\ UNCHANGED <<addrs, moves, seen, config, existing, explicit_interface_index,
                     source_interface_index, destination_scope_id, cached_local_addr>>
      /\ pc = "start" /\ validate(config)
      /\ pc' \in {"bind", "explicit"}
      /\ pc' = "explicit" => config.family = "v6"
      /\ pc' = "bind" => config.family = "v4"
  BY ConfigFacts DEF Open, machine, locals, SetupInv, TypeOK
<1>2. /\ socket' \in Socket /\ "nonblocking" \in socket'.options /\ Located(socket)'
      /\ socket'.local # None /\ socket'.local.ip # "any" => socket'.fixed
  <2>1. CASE existing
    <3>1. /\ socket \in Socket /\ Located(socket)
          /\ socket.local # None /\ socket.local.ip # "any" => socket.fixed
      BY <1>1, <2>1 DEF SetupInv, Held
    <3>2. socket' = [socket EXCEPT !.options = @ \cup {"nonblocking"}]  BY <2>1 DEF Open
    <3>3. /\ socket' \in Socket /\ "nonblocking" \in socket'.options
          /\ socket'.local = socket.local /\ socket'.fixed = socket.fixed
      BY <3>1, <3>2 DEF Socket
    <3> QED BY <1>1, <3>1, <3>3 DEF Located, Placed
  <2>2. CASE ~existing
    <3>1. socket' = [family |-> config.family, local |-> Unbound, fixed |-> FALSE,
                     multicast_if |-> 0,
                     options |-> IF config.family = "v6" THEN {"nonblocking", "only_v6"}
                                 ELSE {"nonblocking"}]
      BY <2>2 DEF Open
    <3>2. Unbound \in LocalAddr /\ Unbound.ip = "any"  BY DEF Unbound, LocalAddr
    <3>3. config.family \in {"v4", "v6"}  BY ConfigFacts DEF SetupInv, TypeOK
    <3>4. /\ socket' \in Socket /\ "nonblocking" \in socket'.options
          /\ socket'.local = Unbound
      BY <3>1, <3>2, <3>3 DEF Socket
    <3> QED BY <3>2, <3>4 DEF Located
  <2> QED BY <2>1, <2>2
<1>3. TypeOK' /\ Valid' /\ Cached'
  <2>1. validate(config)'  BY <1>1 DEF validate, IsAddr, IsIndex, OfFamily
  <2>2. cached_local_addr = None  BY <1>1 DEF SetupInv, Cached
  <2> QED BY <1>1, <1>2, <2>1, <2>2 DEF SetupInv, TypeOK, Valid, Cached
<1>4. Held'  BY <1>1, <1>2 DEF Held
<1>5. Explicit' /\ Source' /\ Bound' /\ Egress' /\ Connected'
  BY <1>1 DEF Explicit, Source, Bound, Egress, Connected
<1> QED BY <1>3, <1>4, <1>5 DEF SetupInv

\* The interface is found by its index or its address.
LEMMA ResolveExplicitKeeps ==
  ASSUME SetupInv, ResolveExplicit
  PROVE  SetupInv'
<1> USE DEF AfterOptions, AfterBind, AfterSource, AfterExplicit, AfterOpen
<1>1. /\ UNCHANGED <<addrs, moves, seen, config, existing, socket,
                     source_interface_index, destination_scope_id, cached_local_addr>>
      /\ pc = "explicit" /\ pc' = "source"
  BY DEF ResolveExplicit, machine
<1>2. config \in PublicationConfig /\ validate(config)
      /\ addrs \in [Interfaces -> SUBSET Unicast]
  BY <1>1 DEF SetupInv, TypeOK, Valid
<1>3. /\ explicit_interface_index' \in Interfaces \cup {None}
      /\ IsIndex(config.outgoing_interface) =>
           explicit_interface_index' = config.outgoing_interface.index
      /\ IsAddr(config.outgoing_interface) =>
           /\ explicit_interface_index' \in Interfaces
           /\ config.outgoing_interface.addr \in addrs[explicit_interface_index']
  <2>1. CASE IsIndex(config.outgoing_interface)
    <3>1. ~IsAddr(config.outgoing_interface)
      BY <1>2, <2>1, ConfigFacts, InterfaceFacts DEF IsIndex
    <3>2. explicit_interface_index' = config.outgoing_interface.index
      BY <2>1, <3>1 DEF ResolveExplicit
    <3> QED BY <1>2, <2>1, <3>1, <3>2, ValidFacts
  <2>2. CASE IsAddr(config.outgoing_interface)
    <3>1. ~IsIndex(config.outgoing_interface)
      BY <1>2, <2>2, ConfigFacts, InterfaceFacts DEF IsAddr
    <3>2. Resolves(config.outgoing_interface.addr, explicit_interface_index')
      BY <2>2, <3>1 DEF ResolveExplicit
    <3>3. explicit_interface_index' \in Holders(config.outgoing_interface.addr)
      BY <3>2 DEF Resolves
    <3> QED BY <3>1, <3>3 DEF Holders
  <2>3. CASE ~IsIndex(config.outgoing_interface) /\ ~IsAddr(config.outgoing_interface)
    <3>1. explicit_interface_index' = None  BY <2>3 DEF ResolveExplicit
    <3> QED BY <2>3, <3>1
  <2> QED BY <2>1, <2>2, <2>3
<1>4. TypeOK' /\ Valid' /\ Cached'
  <2>1. validate(config)'  BY <1>1, <1>2 DEF validate, IsAddr, IsIndex, OfFamily
  <2>2. cached_local_addr = None  BY <1>1 DEF SetupInv, Cached
  <2> QED BY <1>1, <1>3, <2>1, <2>2 DEF SetupInv, TypeOK, Valid, Cached
<1>5. Held'  BY <1>1 DEF SetupInv, Held, Located, Placed
<1>6. Explicit'  BY <1>1, <1>3 DEF Explicit, IsIndex, IsAddr
<1>7. Source' /\ Bound' /\ Egress' /\ Connected'
  BY <1>1 DEF Source, Bound, Egress, Connected
<1> QED BY <1>4, <1>5, <1>6, <1>7 DEF SetupInv

\* The source's interface is found, and it is the one that was named.
LEMMA ResolveSourceKeeps ==
  ASSUME SetupInv, ResolveSource
  PROVE  SetupInv'
<1> USE DEF AfterOptions, AfterBind, AfterSource, AfterExplicit, AfterOpen
<1>1. /\ UNCHANGED <<addrs, moves, seen, config, existing, socket,
                     explicit_interface_index, destination_scope_id, cached_local_addr>>
      /\ pc = "source" /\ pc' = "bind"
  BY DEF ResolveSource, machine
<1>2. config \in PublicationConfig /\ validate(config)
      /\ addrs \in [Interfaces -> SUBSET Unicast] /\ config.family = "v6"
  BY <1>1 DEF SetupInv, TypeOK, Valid
<1>3. /\ source_interface_index' \in Interfaces \cup {None}
      /\ SourceIndex(config.source_addr, source_interface_index')
      /\ Agree(source_interface_index')
  BY DEF ResolveSource
<1>4. ASSUME config.source_addr # None
      PROVE  /\ source_interface_index' \in Interfaces
             /\ explicit_interface_index \in {None, source_interface_index'}
             /\ moves = 0 /\ config.source_addr \in Globals =>
                  config.source_addr \in addrs[source_interface_index']
  <2> DEFINE source == config.source_addr
             i == source_interface_index'
  <2>1. source \in LinkLocals \cup Globals
    BY <1>2, <1>4, ValidFacts DEF OfFamily, V6
  <2>2. CASE config.outgoing_interface = [addr |-> source]
    <3>1. IsAddr(config.outgoing_interface) /\ config.outgoing_interface.addr = source
      <4>1. config.outgoing_interface \in OutgoingInterface
        BY <2>1, <2>2 DEF OutgoingInterface, Unicast, V6
      <4>2. DOMAIN [addr |-> source] = {"addr"} /\ [addr |-> source].addr = source  OBVIOUS
      <4> QED BY <2>2, <4>1, <4>2, InterfaceFacts DEF IsAddr
    <3>2. i = explicit_interface_index
      BY <1>3, <1>4, <2>2 DEF SourceIndex
    <3> QED BY <1>1, <1>2, <3>1, <3>2 DEF SetupInv, Explicit
  <2>3. CASE config.outgoing_interface # [addr |-> source] /\ source \in LinkLocals
    <3>1. source \notin Globals  BY <2>3, SetupNames
    <3>2. IF explicit_interface_index # None THEN i = explicit_interface_index
          ELSE i # None /\ Resolves(source, i)
      BY <1>3, <1>4, <2>3, <3>1 DEF SourceIndex
    <3> QED BY <1>3, <3>1, <3>2 DEF SetupInv, TypeOK
  <2>4. CASE config.outgoing_interface # [addr |-> source] /\ source \in Globals
    <3>1. source \notin LinkLocals  BY <2>4, SetupNames
    <3>2. i # None /\ Resolves(source, i)
      BY <1>3, <1>4, <2>4, <3>1 DEF SourceIndex
    <3>3. i \in Holders(source)  BY <3>2 DEF Resolves
    <3>4. i \in Interfaces /\ source \in addrs[i]  BY <3>3 DEF Holders
    <3> QED BY <1>3, <3>2, <3>4 DEF Agree
  <2> QED BY <2>1, <2>2, <2>3, <2>4
<1>5. TypeOK' /\ Valid' /\ Cached'
  <2>1. validate(config)'  BY <1>1, <1>2 DEF validate, IsAddr, IsIndex, OfFamily
  <2>2. cached_local_addr = None  BY <1>1 DEF SetupInv, Cached
  <2> QED BY <1>1, <1>3, <2>1, <2>2 DEF SetupInv, TypeOK, Valid, Cached
<1>6. Held' /\ Explicit'  BY <1>1 DEF SetupInv, Held, Explicit, Located, Placed, IsIndex, IsAddr
<1>7. Source'  BY <1>1, <1>4 DEF Source
<1>8. Bound' /\ Egress' /\ Connected'
  BY <1>1 DEF Bound, Egress, Connected
<1> QED BY <1>5, <1>6, <1>7, <1>8 DEF SetupInv

\* From then on, an IPv6 address to bind is one of the effective interface's; a
\* link-local one that is not the interface's name has yet to be bound there.
LEMMA EffectiveFacts ==
  ASSUME SetupInv, pc \in AfterSource, config.family = "v6", bind_source # None
  PROVE  /\ effective_interface_index \in Interfaces
         /\ moves = 0 /\ bind_source \notin LinkLocals =>
              bind_source \in addrs[effective_interface_index]
<1> USE DEF AfterOptions, AfterBind, AfterSource, AfterExplicit, AfterOpen
<1>1. config \in PublicationConfig /\ validate(config)
  BY DEF SetupInv, TypeOK, Valid
<1>2. CASE config.source_addr # None
  <2>1. /\ source_interface_index \in Interfaces
        /\ explicit_interface_index \in {None, source_interface_index}
        /\ moves = 0 /\ config.source_addr \in Globals =>
             config.source_addr \in addrs[source_interface_index]
    BY <1>2 DEF SetupInv, Source
  <2>2. bind_source = config.source_addr  BY <1>2 DEF bind_source
  <2>3. effective_interface_index = source_interface_index
    BY <2>1 DEF effective_interface_index
  <2>4. bind_source \in LinkLocals \cup Globals  BY <1>1, ValidFacts DEF OfFamily, V6
  <2> QED BY <2>1, <2>2, <2>3, <2>4
<1>3. CASE config.source_addr = None
  <2>1. IsAddr(config.outgoing_interface) /\ bind_source = config.outgoing_interface.addr
    BY <1>3 DEF bind_source
  <2>2. /\ explicit_interface_index \in Interfaces
        /\ moves = 0 => bind_source \in addrs[explicit_interface_index]
    BY <2>1 DEF SetupInv, Explicit
  <2>3. effective_interface_index = explicit_interface_index
    BY <2>2, SetupNames, SetupAssumption DEF effective_interface_index
  <2> QED BY <2>2, <2>3
<1> QED BY <1>2, <1>3

\* An IPv4 address is not a link-local one, an index is not 0 and None no index.
LEMMA NamesApart ==
  /\ \A a \in V4 : a \notin LinkLocals
  /\ None \notin Interfaces /\ 0 \notin Interfaces /\ None # 0 /\ None \notin LocalAddr
  /\ "any" \notin Unicast /\ None \notin Unicast
<1>1. \A a \in V4 : a \notin LinkLocals  BY SetupNames DEF V6
<1>2. None \notin Interfaces /\ 0 \notin Interfaces /\ None # 0
  <2>1. None \notin Nat  BY SetupNames
  <2>2. Interfaces \subseteq Nat \ {0}  BY SetupAssumption
  <2>3. 0 \in Nat  OBVIOUS
  <2> QED BY <2>1, <2>2, <2>3
<1>3. None \notin LocalAddr /\ None \notin Unicast  BY SetupNames
<1>4. "any" \notin Unicast  BY SetupNames
<1> QED BY <1>1, <1>2, <1>3, <1>4

\* What is bound is what was asked for, on its interface.
LEMMA BindKeeps ==
  ASSUME SetupInv, Bind
  PROVE  SetupInv'
<1> USE DEF AfterOptions, AfterBind, AfterSource, AfterExplicit, AfterOpen
<1>1. /\ UNCHANGED <<addrs, moves, seen, config, existing, explicit_interface_index,
                     source_interface_index, destination_scope_id, cached_local_addr>>
      /\ pc = "bind" /\ pc' = "options"
  BY DEF Bind, machine, locals
<1>2. /\ config \in PublicationConfig /\ validate(config)
      /\ addrs \in [Interfaces -> SUBSET Unicast]
      /\ socket \in Socket /\ "nonblocking" \in socket.options /\ Located(socket)
      /\ socket.local # None /\ socket.local.ip # "any" => socket.fixed
      /\ explicit_interface_index \in Interfaces \cup {None}
      /\ source_interface_index \in Interfaces \cup {None}
  BY <1>1 DEF SetupInv, TypeOK, Valid, Held
<1>3. /\ bind_source # None => bind_source \in Unicast
      /\ bind_source \in LinkLocals => bind_source # None /\ effective_interface_index \in Interfaces
      /\ config.source_port # None => config.source_port \in Ports /\ config.source_port # 0
  <2>1. bind_source # None => bind_source \in OfFamily(config.family)  BY <1>2, ValidFacts
  <2>2. config.source_port # None => config.source_port \in Ports  BY <1>2, ValidFacts
  <2>3. bind_source \in LinkLocals => config.family = "v6" /\ bind_source # None
    BY <1>2, <2>1, ConfigFacts, NamesApart DEF OfFamily, Unicast, V6
  <2> QED BY <1>1, <2>1, <2>2, <2>3, EffectiveFacts, SetupAssumption DEF OfFamily, Unicast
<1> DEFINE Asked(s) ==
      /\ bind_source # None =>
           /\ s.local # None /\ s.local.ip = bind_source /\ s.fixed
           /\ bind_source \in LinkLocals => s.local.scope_id = effective_interface_index
      /\ config.source_port # None => s.local # None /\ s.local.port = config.source_port
<1> DEFINE Good(s) ==
      /\ s \in Socket /\ "nonblocking" \in s.options /\ Located(s)
      /\ s.local # None /\ s.local.ip # "any" => s.fixed
<1>4. Good(socket') /\ Asked(socket')
  <2>1. CASE ~NeedsBind
    BY <1>2, <2>1 DEF Bind, NeedsBind
  <2>2. CASE NeedsBind /\ (socket.local = None \/ is_unbound_local_addr(socket.local))
    <3> DEFINE l == BoundTo(bind_addr)
    <3>1. /\ CanBind(bind_addr)
          /\ socket' = [socket EXCEPT !.local = l, !.fixed = (bind_source # None)]
      BY <2>2 DEF Bind
    <3>2. /\ l.ip = IF bind_source = None THEN "any" ELSE bind_source
          /\ l.port = IF config.source_port \in {None, 0} THEN Ephemeral ELSE config.source_port
          /\ l.scope_id = IF bind_source \in LinkLocals THEN effective_interface_index ELSE 0
          /\ l = [ip |-> l.ip, port |-> l.port, scope_id |-> l.scope_id]
      BY DEF BoundTo, bind_addr
    <3>3. bind_addr.ip = l.ip /\ bind_addr.scope_id = l.scope_id
      BY <3>2 DEF bind_addr
    <3> HIDE DEF l
    <3>4. l \in LocalAddr
      <4>1. l.ip \in Unicast \cup {"any"}  BY <1>3, <3>2
      <4>2. l.port \in Ports \cup {0, Ephemeral}  BY <1>3, <3>2
      <4>3. l.scope_id \in Interfaces \cup {0}  BY <1>3, <3>2
      <4> QED BY <3>2, <4>1, <4>2, <4>3 DEF LocalAddr
    <3>5. l.port # 0  BY <1>3, <3>2, SetupAssumption
    <3>6. Placed(l)
      <4>1. CASE l.ip \in LinkLocals
        <5>1. l.ip # "any"  BY <4>1, NamesApart DEF Unicast, V6
        <5>2. l.scope_id \in Holders(l.ip)  BY <3>1, <3>3, <4>1, <5>1 DEF CanBind
        <5> QED BY <4>1, <5>2 DEF Holders, Placed
      <4>2. CASE l.ip \notin LinkLocals
        <5>1. l.scope_id = 0  BY <1>3, <3>2, <4>2
        <5> QED BY <4>2, <5>1 DEF Placed
      <4> QED BY <4>1, <4>2
    <3>7. /\ socket' \in Socket /\ "nonblocking" \in socket'.options /\ socket'.local = l
          /\ socket'.fixed = (bind_source # None)
      <4> DEFINE t == [socket EXCEPT !.local = l]
      <4>1. t \in Socket /\ t.options = socket.options /\ t.local = l
        BY <1>2, <3>4 DEF Socket
      <4>2. socket' = [t EXCEPT !.fixed = (bind_source # None)]  BY <3>1
      <4> HIDE DEF t
      <4> DEFINE fx == bind_source # None
      <4>3. fx \in BOOLEAN /\ socket' = [t EXCEPT !.fixed = fx]  BY <4>2
      <4> HIDE DEF fx
      <4>4. /\ socket' \in Socket /\ socket'.options = t.options /\ socket'.local = t.local
            /\ socket'.fixed = fx
        BY <4>1, <4>3 DEF Socket
      <4> QED BY <1>2, <4>1, <4>4 DEF fx
    <3>8. l # None  BY <3>4, NamesApart
    <3>9. Good(socket')
      BY <3>2, <3>5, <3>6, <3>7 DEF Located
    <3>10. Asked(socket')
      BY <1>3, <3>2, <3>7, <3>8
    <3> QED BY <3>9, <3>10
  <2>3. CASE NeedsBind /\ ~(socket.local = None \/ is_unbound_local_addr(socket.local))
    <3>1. matches_bind_constraints(socket.local, bind_addr) /\ socket' = socket
      BY <2>3 DEF Bind
    <3>2. /\ bind_addr.ip = IF bind_source = None THEN "any" ELSE bind_source
          /\ bind_addr.port = IF config.source_port = None THEN 0 ELSE config.source_port
          /\ bind_addr.scope_id =
               IF bind_source \in LinkLocals THEN effective_interface_index ELSE 0
      BY DEF bind_addr
    <3>3. /\ bind_addr.ip \in {"any", socket.local.ip}
          /\ bind_addr.port \in {0, socket.local.port}
          /\ bind_addr.scope_id \in {0, socket.local.scope_id}
      BY <3>1 DEF matches_bind_constraints
    <3>4. bind_source # None => socket.local.ip = bind_source /\ socket.local.ip # "any"
      BY <1>3, <3>2, <3>3, NamesApart
    <3>5. bind_source \in LinkLocals => socket.local.scope_id = effective_interface_index
      BY <1>3, <3>2, <3>3, NamesApart
    <3>6. config.source_port # None => socket.local.port = config.source_port
      BY <1>3, <3>2, <3>3
    <3>7. Asked(socket)  BY <1>2, <2>3, <3>4, <3>5, <3>6
    <3> QED BY <1>2, <3>1, <3>7
  <2> QED BY <2>1, <2>2, <2>3
<1>5. TypeOK' /\ Valid' /\ Cached'
  <2>1. validate(config)'  BY <1>1, <1>2 DEF validate, IsAddr, IsIndex, OfFamily
  <2>2. cached_local_addr = None  BY <1>1 DEF SetupInv, Cached
  <2> QED BY <1>1, <1>4, <2>1, <2>2 DEF SetupInv, TypeOK, Valid, Cached
<1>6. Held'
  <2>1. Located(socket)'  BY <1>1, <1>4 DEF Located, Placed
  <2> QED BY <1>1, <1>4, <2>1 DEF Held
<1>7. Explicit' /\ Source'
  BY <1>1 DEF SetupInv, Explicit, Source, IsIndex, IsAddr
<1>8. Bound'  BY <1>1, <1>4, SameChoice DEF Bound
<1>9. Egress' /\ Connected'  BY <1>1 DEF Egress, Connected
<1> QED BY <1>5, <1>6, <1>7, <1>8, <1>9 DEF SetupInv

\* The egress interface is the one the addresses were resolved to.
LEMMA SetOptionsKeeps ==
  ASSUME SetupInv, SetOptions
  PROVE  SetupInv'
<1> USE DEF AfterOptions, AfterBind, AfterSource, AfterExplicit, AfterOpen
<1>1. /\ UNCHANGED <<addrs, moves, seen, config, existing, explicit_interface_index,
                     source_interface_index, destination_scope_id, cached_local_addr>>
      /\ pc = "options" /\ pc' = "connect"
  BY DEF SetOptions, machine, locals
<1>2. /\ config \in PublicationConfig /\ validate(config)
      /\ socket \in Socket /\ "nonblocking" \in socket.options /\ Located(socket)
      /\ socket.local # None /\ socket.local.ip # "any" => socket.fixed
  BY <1>1 DEF SetupInv, TypeOK, Valid, Held
<1>3. PICK i \in Interfaces \cup {0} :
        /\ config.family = "v6" /\ effective_interface_index # None =>
             i = effective_interface_index
        /\ socket' = [socket EXCEPT !.multicast_if = i, !.options = @ \cup {"loop", "ttl"}]
  <2>1. PICK i \in Interfaces \cup {0} :
          /\ CASE config.family = "v6" /\ effective_interface_index # None ->
                   i = effective_interface_index
              [] config.family = "v4" /\ config.outgoing_interface # None ->
                   i \in Holders(config.outgoing_interface.addr)
              [] OTHER -> i = socket.multicast_if
          /\ socket' = [socket EXCEPT !.multicast_if = i, !.options = @ \cup {"loop", "ttl"}]
    BY DEF SetOptions
  <2>2. config.family = "v6" /\ effective_interface_index # None => i = effective_interface_index
    BY <2>1
  <2> QED BY <2>1, <2>2
<1>4. /\ socket' \in Socket /\ {"nonblocking", "loop", "ttl"} \subseteq socket'.options
      /\ socket'.local = socket.local /\ socket'.fixed = socket.fixed
      /\ socket'.multicast_if = i
  <2> DEFINE t == [socket EXCEPT !.multicast_if = i]
  <2>1. /\ t \in Socket /\ t.options = socket.options /\ t.local = socket.local
        /\ t.fixed = socket.fixed /\ t.multicast_if = i
    BY <1>2 DEF Socket
  <2>2. socket' = [t EXCEPT !.options = @ \cup {"loop", "ttl"}]  BY <1>3
  <2> HIDE DEF t
  <2>3. /\ socket' \in Socket /\ socket'.options = t.options \cup {"loop", "ttl"}
        /\ socket'.local = t.local /\ socket'.fixed = t.fixed
        /\ socket'.multicast_if = t.multicast_if
    BY <2>1, <2>2 DEF Socket
  <2> QED BY <1>2, <2>1, <2>3
<1>5. TypeOK' /\ Valid' /\ Cached'
  <2>1. validate(config)'  BY <1>1, <1>2 DEF validate, IsAddr, IsIndex, OfFamily
  <2>2. cached_local_addr = None  BY <1>1 DEF SetupInv, Cached
  <2> QED BY <1>1, <1>4, <2>1, <2>2 DEF SetupInv, TypeOK, Valid, Cached
<1>6. Held'
  <2>1. Located(socket)'  BY <1>1, <1>2, <1>4 DEF Located, Placed
  <2> QED BY <1>1, <1>2, <1>4, <2>1 DEF Held
<1>7. Explicit' /\ Source'
  BY <1>1 DEF SetupInv, Explicit, Source, IsIndex, IsAddr
<1>8. Bound'  BY <1>1, <1>4, SameChoice DEF SetupInv, Bound
<1>9. Egress'  BY <1>1, <1>3, <1>4, SameChoice DEF Egress
<1>10. Connected'  BY <1>1 DEF Connected
<1> QED BY <1>5, <1>6, <1>7, <1>8, <1>9, <1>10 DEF SetupInv

\* connect() gives an address where nobody chose one, and keeps the others.
LEMMA ConnectKeeps ==
  ASSUME SetupInv, Connect
  PROVE  SetupInv'
<1> USE DEF AfterOptions, AfterBind, AfterSource, AfterExplicit, AfterOpen
<1>1. /\ UNCHANGED <<addrs, moves, seen, config, existing, explicit_interface_index,
                     source_interface_index, cached_local_addr>>
      /\ pc = "connect" /\ pc' = "ready" /\ destination_scope_id' = ScopeId
      /\ config.group = "scoped" => effective_interface_index # None
      /\ socket.family = config.family
  BY DEF Connect, machine
<1>2. /\ config \in PublicationConfig /\ validate(config)
      /\ socket \in Socket /\ "nonblocking" \in socket.options /\ Located(socket)
      /\ addrs \in [Interfaces -> SUBSET Unicast]
      /\ explicit_interface_index \in Interfaces \cup {None}
      /\ source_interface_index \in Interfaces \cup {None}
  BY <1>1 DEF SetupInv, TypeOK, Valid, Held
<1>3. PICK local \in ConnectedFrom(socket) : socket' = [socket EXCEPT !.local = local]
  BY DEF Connect
<1>4. /\ local \in LocalAddr /\ local.ip # "any" /\ local.port # 0 /\ Placed(local)
      /\ socket.local # None /\ socket.local.ip # "any" => local = socket.local
      /\ socket.local # None /\ socket.local.port # 0 => local.port = socket.local.port
  <2>1. CASE socket.local # None /\ socket.local.ip # "any"
    <3>1. local = socket.local  BY <1>3, <2>1 DEF ConnectedFrom
    <3>2. socket.local \in LocalAddr  BY <1>2, <2>1 DEF Socket
    <3>3. socket.local.port # 0 /\ Placed(socket.local)  BY <1>2, <2>1 DEF Located
    <3> QED BY <2>1, <3>1, <3>2, <3>3
  <2>2. CASE ~(socket.local # None /\ socket.local.ip # "any")
    <3> DEFINE ways == IF socket.multicast_if = 0 THEN Interfaces ELSE {socket.multicast_if}
               port == IF socket.local = None \/ socket.local.port = 0 THEN Ephemeral
                       ELSE socket.local.port
    <3>1. PICK i \in ways : local \in {[ip |-> ip, port |-> port, scope_id |-> ScopeOf(ip, i)] :
                                         ip \in addrs[i] \cap OfFamily(socket.family)}
      BY <1>3, <2>2 DEF ConnectedFrom
    <3>2. ways \subseteq Interfaces  BY <1>2 DEF Socket
    <3>3. socket.local = None \/ socket.local \in LocalAddr  BY <1>2 DEF Socket
    <3>4. /\ port \in Ports \cup {0, Ephemeral} /\ port # 0
          /\ socket.local # None /\ socket.local.port # 0 => port = socket.local.port
      BY <3>3, SetupAssumption DEF LocalAddr
    <3> HIDE DEF ways, port
    <3>5. PICK ip \in addrs[i] \cap OfFamily(socket.family) :
            local = [ip |-> ip, port |-> port, scope_id |-> ScopeOf(ip, i)]
      BY <3>1
    <3>6. i \in Interfaces /\ ip \in Unicast /\ ip \in addrs[i]  BY <1>2, <3>2, <3>5
    <3>7. ScopeOf(ip, i) \in Interfaces \cup {0}  BY <3>6 DEF ScopeOf
    <3>8. /\ local \in LocalAddr /\ local.ip = ip /\ local.port = port
          /\ local.scope_id = ScopeOf(ip, i)
      BY <3>4, <3>5, <3>6, <3>7 DEF LocalAddr
    <3>9. Placed(local)  BY <3>6, <3>8 DEF Placed, ScopeOf
    <3> QED BY <2>2, <3>4, <3>6, <3>8, <3>9, NamesApart
  <2> QED BY <2>1, <2>2
<1>5. /\ socket' \in Socket /\ socket'.options = socket.options /\ socket'.local = local
      /\ socket'.fixed = socket.fixed /\ socket'.multicast_if = socket.multicast_if
      /\ socket'.family = socket.family
  BY <1>2, <1>3, <1>4 DEF Socket
<1>6. local # None  BY <1>4, NamesApart
<1>7. TypeOK' /\ Valid' /\ Cached'
  <2>1. validate(config)'  BY <1>1, <1>2 DEF validate, IsAddr, IsIndex, OfFamily
  <2>2. cached_local_addr = None  BY <1>1 DEF SetupInv, Cached
  <2>3. ScopeId \in Interfaces \cup {0}  BY <1>2 DEF ScopeId, effective_interface_index
  <2> QED BY <1>1, <1>5, <2>1, <2>2, <2>3 DEF SetupInv, TypeOK, Valid, Cached
<1>8. Held'
  <2>1. Located(socket)'  BY <1>1, <1>4, <1>5 DEF Located, Placed
  <2> QED BY <1>1, <1>2, <1>5, <2>1 DEF Held
<1>9. Explicit' /\ Source'
  BY <1>1 DEF SetupInv, Explicit, Source, IsIndex, IsAddr
<1>10. Bound'
  <2>1. ASSUME bind_source # None
        PROVE  /\ local = socket.local /\ socket.local.ip = bind_source /\ socket.fixed
               /\ bind_source \in LinkLocals => socket.local.scope_id = effective_interface_index
    <3>1. bind_source # "any"
      BY <1>2, <2>1, ValidFacts, NamesApart DEF OfFamily, Unicast
    <3> QED BY <1>1, <1>4, <2>1, <3>1 DEF SetupInv, Bound
  <2>2. ASSUME config.source_port # None
        PROVE  local.port = config.source_port
    <3>1. config.source_port # 0  BY <1>2 DEF validate
    <3> QED BY <1>1, <1>4, <2>2, <3>1 DEF SetupInv, Bound
  <2> QED BY <1>1, <1>5, <1>6, <2>1, <2>2, SameChoice DEF Bound
<1>11. Egress'  BY <1>1, <1>5, SameChoice DEF SetupInv, Egress
<1>12. Connected'  BY <1>1, <1>4, <1>5, <1>6, SameChoice DEF Connected
<1> QED BY <1>7, <1>8, <1>9, <1>10, <1>11, <1>12 DEF SetupInv

\* The cache is filled from the socket.
LEMMA CacheKeeps ==
  ASSUME SetupInv, CacheLocalAddr
  PROVE  SetupInv'
<1> USE DEF AfterOptions, AfterBind, AfterSource, AfterExplicit, AfterOpen
<1>1. /\ UNCHANGED <<addrs, moves, seen, config, existing, socket, pc, explicit_interface_index,
                     source_interface_index, destination_scope_id>>
      /\ pc = "ready" /\ cached_local_addr' = socket.local
  BY DEF CacheLocalAddr, machine, locals
<1>2. socket.local \in LocalAddr \cup {None}  BY <1>1 DEF SetupInv, Held, Socket
<1>3. TypeOK' /\ Valid' /\ Cached'
  BY <1>1, <1>2 DEF SetupInv, TypeOK, Valid, Cached, validate, IsAddr, IsIndex, OfFamily
<1>4. Held' /\ Explicit' /\ Source'
  BY <1>1 DEF SetupInv, Held, Explicit, Source, Located, Placed, IsIndex, IsAddr
<1>5. Bound' /\ Egress' /\ Connected'
  BY <1>1, SameChoice DEF SetupInv, Bound, Egress, Connected
<1> QED BY <1>3, <1>4, <1>5 DEF SetupInv

\* Through socket_mut only an address that nobody chose can change, and the
\* cache is emptied.
LEMMA SocketMutSetupKeeps ==
  ASSUME SetupInv, socket_mut
  PROVE  SetupInv'
<1> USE DEF AfterOptions, AfterBind, AfterSource, AfterExplicit, AfterOpen
<1>1. /\ UNCHANGED <<addrs, moves, seen, config, existing, pc, explicit_interface_index,
                     source_interface_index, destination_scope_id>>
      /\ pc = "ready" /\ ~socket.fixed /\ cached_local_addr' = None
  BY DEF socket_mut, Reconnected, machine, locals
<1>2. /\ config \in PublicationConfig /\ validate(config)
      /\ socket \in Socket /\ "nonblocking" \in socket.options
      /\ addrs \in [Interfaces -> SUBSET Unicast]
      /\ socket.local # None /\ socket.local.ip # "any" /\ socket.local.port # 0
  BY <1>1 DEF SetupInv, TypeOK, Valid, Held, Connected
<1>3. PICK i \in Interfaces : \E ip \in addrs[i] \cap OfFamily(socket.family) :
        socket' = [socket EXCEPT !.local.ip = ip, !.local.scope_id = ScopeOf(ip, i)]
  BY DEF socket_mut, Reconnected
<1>4. PICK ip \in addrs[i] \cap OfFamily(socket.family) :
        socket' = [socket EXCEPT !.local.ip = ip, !.local.scope_id = ScopeOf(ip, i)]
  BY <1>3
<1> DEFINE l == [ip |-> ip, port |-> socket.local.port, scope_id |-> ScopeOf(ip, i)]
<1>5. socket.local \in LocalAddr  BY <1>2 DEF Socket
<1>6. socket' = [socket EXCEPT !.local = l]
  <2> DEFINE m == [socket.local EXCEPT !.ip = ip]
             n == [m EXCEPT !.scope_id = ScopeOf(ip, i)]
  <2>1. n = l
    <3>1. socket.local = [ip |-> socket.local.ip, port |-> socket.local.port,
                          scope_id |-> socket.local.scope_id]
      BY <1>5 DEF LocalAddr
    <3>2. m = [ip |-> ip, port |-> socket.local.port, scope_id |-> socket.local.scope_id]
      BY <3>1
    <3> HIDE DEF m
    <3> QED BY <3>2
  <2>2. [socket EXCEPT !.local = m].local = m  BY <1>2 DEF Socket
  <2>3. [[socket EXCEPT !.local = m] EXCEPT !.local = n] = [socket EXCEPT !.local = n]
    BY <1>2 DEF Socket
  <2>4. socket' = [[socket EXCEPT !.local.ip = ip] EXCEPT !.local.scope_id = ScopeOf(ip, i)]
    BY <1>4
  <2>5. [socket EXCEPT !.local.ip = ip] = [socket EXCEPT !.local = m]
    OBVIOUS
  <2> DEFINE t == [socket EXCEPT !.local = m]
  <2>6. socket' = [t EXCEPT !.local.scope_id = ScopeOf(ip, i)]  BY <2>4, <2>5
  <2>7. [t EXCEPT !.local.scope_id = ScopeOf(ip, i)] =
          [t EXCEPT !.local = [t.local EXCEPT !.scope_id = ScopeOf(ip, i)]]
    OBVIOUS
  <2> QED BY <2>1, <2>2, <2>3, <2>6, <2>7
<1>7. i \in Interfaces /\ ip \in Unicast /\ ip \in addrs[i]  BY <1>2, <1>4
<1>8. ScopeOf(ip, i) \in Interfaces \cup {0}  BY <1>7 DEF ScopeOf
<1>9. /\ l \in LocalAddr /\ l.ip = ip /\ l.port = socket.local.port
      /\ l.scope_id = ScopeOf(ip, i)
  BY <1>5, <1>7, <1>8 DEF LocalAddr
<1> HIDE DEF l
<1>10. Placed(l) /\ l.ip # "any" /\ l # None
  BY <1>7, <1>9, NamesApart DEF Placed, ScopeOf
<1>11. /\ socket' \in Socket /\ socket'.options = socket.options /\ socket'.local = l
       /\ socket'.fixed = socket.fixed /\ socket'.multicast_if = socket.multicast_if
       /\ socket'.family = socket.family
  BY <1>2, <1>6, <1>9 DEF Socket
<1>12. TypeOK' /\ Valid' /\ Cached'
  <2>1. validate(config)'  BY <1>1, <1>2 DEF validate, IsAddr, IsIndex, OfFamily
  <2> QED BY <1>1, <1>11, <2>1 DEF SetupInv, TypeOK, Valid, Cached
<1>13. Held'
  <2>1. Located(socket)'  BY <1>1, <1>2, <1>9, <1>10, <1>11 DEF Located, Placed
  <2> QED BY <1>1, <1>2, <1>11, <2>1 DEF Held
<1>14. Explicit' /\ Source'
  BY <1>1 DEF SetupInv, Explicit, Source, IsIndex, IsAddr
<1>15. Bound'
  <2>1. bind_source = None  BY <1>1 DEF SetupInv, Bound
  <2> QED BY <1>1, <1>9, <1>10, <1>11, <2>1, SameChoice DEF SetupInv, Bound
<1>16. Egress' /\ Connected'
  BY <1>1, <1>2, <1>9, <1>10, <1>11, SameChoice DEF SetupInv, Egress, Connected
<1> QED BY <1>12, <1>13, <1>14, <1>15, <1>16 DEF SetupInv

\* Nothing changes.
LEMMA SetupStutters ==
  ASSUME SetupInv, UNCHANGED vars
  PROVE  SetupInv'
<1>1. UNCHANGED <<addrs, moves, seen, config, existing, socket, pc, explicit_interface_index,
                  source_interface_index, destination_scope_id, cached_local_addr>>
  BY DEF vars, machine, locals
<1>2. TypeOK' /\ Valid' /\ Cached'
  BY <1>1 DEF SetupInv, TypeOK, Valid, Cached, validate, IsAddr, IsIndex, OfFamily
<1>3. Held' /\ Explicit' /\ Source'
  BY <1>1 DEF SetupInv, Held, Explicit, Source, Located, Placed, IsIndex, IsAddr
<1>4. Bound' /\ Egress' /\ Connected'
  BY <1>1, SameChoice DEF SetupInv, Bound, Egress, Connected
<1> QED BY <1>2, <1>3, <1>4 DEF SetupInv

----------------------------------------------------------------------------
(* Theorems *)

\* Every stage of the set-up leaves what the later ones rely on.
THEOREM SetupInductive == Spec => []SetupInv
<1>1. Init => SetupInv  BY Initially
<1>2. SetupInv /\ [Next]_vars => SetupInv'
  <2> SUFFICES ASSUME SetupInv, [Next]_vars PROVE SetupInv'  OBVIOUS
  <2>1. ASSUME NEW a \in Unicast, NEW i \in Interfaces, MoveAddress(a, i) PROVE SetupInv'
    BY <2>1, MoveKeeps
  <2>2. CASE Invalid  BY <2>2, FailKeeps DEF Invalid
  <2>3. CASE SystemCallFails  BY <2>3, FailKeeps DEF SystemCallFails
  <2>4. CASE Open  BY <2>4, OpenKeeps
  <2>5. CASE ResolveExplicit  BY <2>5, ResolveExplicitKeeps
  <2>6. CASE ResolveSource  BY <2>6, ResolveSourceKeeps
  <2>7. CASE Mismatch  BY <2>7, FailKeeps DEF Mismatch
  <2>8. CASE Bind  BY <2>8, BindKeeps
  <2>9. CASE SetOptions  BY <2>9, SetOptionsKeeps
  <2>10. CASE ScopeMissing  BY <2>10, FailKeeps DEF ScopeMissing
  <2>11. CASE Connect  BY <2>11, ConnectKeeps
  <2>12. CASE CacheLocalAddr  BY <2>12, CacheKeeps
  <2>13. CASE socket_mut  BY <2>13, SocketMutSetupKeeps
  <2>14. CASE UNCHANGED vars  BY <2>14, SetupStutters
  <2> QED BY <2>1, <2>2, <2>3, <2>4, <2>5, <2>6, <2>7, <2>8, <2>9, <2>10, <2>11, <2>12,
             <2>13, <2>14 DEF Next
<1> QED BY <1>1, <1>2, PTL DEF Spec

\* The interface that an address named had the address when it was looked up,
\* and from then on nothing but that interface is chosen for multicast.
EgressSeen ==
  /\ \A i \in Interfaces : addrs[i] \subseteq seen[i]
  /\ IsAddr(config.outgoing_interface) /\ config.family = "v6" /\ pc \in AfterExplicit =>
       config.outgoing_interface.addr \in seen[explicit_interface_index]
  /\ IsAddr(config.outgoing_interface) /\ pc \in AfterOptions =>
       /\ socket.multicast_if \in Interfaces
       /\ config.outgoing_interface.addr \in seen[socket.multicast_if]

\* Each step keeps that: addresses that were seen stay seen.
LEMMA EgressSeenStep == SetupInv /\ EgressSeen /\ [Next]_vars => EgressSeen'
<1> USE DEF AfterOptions, AfterBind, AfterSource, AfterExplicit, AfterOpen
<1> SUFFICES ASSUME SetupInv, EgressSeen, [Next]_vars PROVE EgressSeen'  OBVIOUS
<1> DEFINE outgoing == config.outgoing_interface
<1>1. ASSUME NEW a \in Unicast, NEW i \in Interfaces, MoveAddress(a, i) PROVE EgressSeen'
  <2>1. /\ UNCHANGED <<config, socket, pc, explicit_interface_index>>
        /\ \A k \in Interfaces : seen[k] \subseteq seen'[k] /\ addrs'[k] \subseteq seen'[k]
    BY <1>1 DEF MoveAddress, locals, SetupInv, TypeOK, EgressSeen
  <2>2. IsAddr(outgoing) /\ config.family = "v6" /\ pc \in AfterExplicit =>
          explicit_interface_index \in Interfaces
    BY DEF SetupInv, Explicit
  <2> QED BY <2>1, <2>2 DEF EgressSeen, IsAddr
<1>2. ASSUME UNCHANGED <<addrs, seen, config>>, pc' \in {"failed", "explicit"} PROVE EgressSeen'
  BY <1>2 DEF EgressSeen
<1>3. CASE Open
  <2>1. UNCHANGED <<addrs, seen, config>> /\ pc' \in {"bind", "explicit"}
        /\ (pc' = "bind" => config.family = "v4")
    BY <1>3 DEF Open, machine
  <2> QED BY <2>1 DEF EgressSeen
<1>4. CASE ResolveExplicit
  <2>1. UNCHANGED <<addrs, seen, config>> /\ pc' = "source"
    BY <1>4 DEF ResolveExplicit, machine
  <2>2. ASSUME IsAddr(outgoing) PROVE outgoing.addr \in seen[explicit_interface_index']
    <3>1. ~IsIndex(outgoing)
      BY <2>2, ConfigFacts, InterfaceFacts DEF SetupInv, TypeOK, IsAddr
    <3>2. Resolves(outgoing.addr, explicit_interface_index')
      BY <1>4, <2>2, <3>1 DEF ResolveExplicit
    <3>3. explicit_interface_index' \in Holders(outgoing.addr)  BY <3>2 DEF Resolves
    <3> QED BY <3>3 DEF Holders, EgressSeen
  <2> QED BY <2>1, <2>2 DEF EgressSeen, IsAddr
<1>5. CASE ResolveSource \/ Bind
  <2>1. /\ UNCHANGED <<addrs, seen, config, explicit_interface_index>>
        /\ pc' \in {"bind", "options"} /\ (config.family = "v6" => pc \in AfterExplicit)
    BY <1>5 DEF ResolveSource, Bind, machine, locals
  <2> QED BY <2>1 DEF EgressSeen, IsAddr
<1>6. CASE SetOptions
  <2>1. /\ UNCHANGED <<addrs, seen, config, explicit_interface_index>>
        /\ pc = "options" /\ pc' = "connect" /\ socket \in Socket
    BY <1>6 DEF SetOptions, machine, locals, SetupInv, Held
  <2>2. PICK i \in Interfaces \cup {0} :
          /\ CASE config.family = "v6" /\ effective_interface_index # None ->
                   i = effective_interface_index
              [] config.family = "v4" /\ config.outgoing_interface # None ->
                   i \in Holders(config.outgoing_interface.addr)
              [] OTHER -> i = socket.multicast_if
          /\ socket' = [socket EXCEPT !.multicast_if = i, !.options = @ \cup {"loop", "ttl"}]
    BY <1>6 DEF SetOptions
  <2>3. socket'.multicast_if = i  BY <2>1, <2>2 DEF Socket
  <2>4. ASSUME IsAddr(outgoing) PROVE i \in Interfaces /\ outgoing.addr \in seen[i]
    <3>1. outgoing # None /\ config.family \in {"v4", "v6"}
      BY <2>4, ConfigFacts DEF IsAddr, SetupInv, TypeOK
    <3>2. CASE config.family = "v4"
      <4>1. i \in Holders(outgoing.addr)  BY <2>2, <3>1, <3>2
      <4> QED BY <4>1 DEF Holders, EgressSeen
    <3>3. CASE config.family = "v6"
      <4>1. explicit_interface_index \in Interfaces
        BY <2>1, <2>4, <3>3 DEF SetupInv, Explicit
      <4>2. /\ effective_interface_index = explicit_interface_index
            /\ effective_interface_index # None
        BY <4>1, NamesApart DEF effective_interface_index
      <4>3. i = explicit_interface_index  BY <2>2, <3>3, <4>2
      <4> QED BY <2>1, <2>4, <3>3, <4>1, <4>3 DEF EgressSeen
    <3> QED BY <3>1, <3>2, <3>3
  <2> QED BY <2>1, <2>3, <2>4 DEF EgressSeen, IsAddr
<1>7. CASE Connect \/ CacheLocalAddr \/ socket_mut
  <2>1. /\ UNCHANGED <<addrs, seen, config, explicit_interface_index>>
        /\ pc \in AfterOptions /\ pc' = "ready" /\ socket \in Socket
    BY <1>7 DEF Connect, CacheLocalAddr, socket_mut, Reconnected, machine, locals, SetupInv, Held
  <2>2. socket'.multicast_if = socket.multicast_if
    BY <1>7, <2>1 DEF Connect, CacheLocalAddr, socket_mut, Reconnected, Socket
  <2> QED BY <2>1, <2>2 DEF EgressSeen, IsAddr
<1>8. CASE UNCHANGED vars
  BY <1>8 DEF vars, machine, locals, EgressSeen, IsAddr
<1>9. CASE Invalid \/ SystemCallFails \/ Mismatch \/ ScopeMissing
  BY <1>2, <1>9 DEF Invalid, SystemCallFails, Mismatch, ScopeMissing, Fail, machine
<1> QED BY <1>1, <1>3, <1>4, <1>5, <1>6, <1>7, <1>8, <1>9 DEF Next

\* It holds throughout.
LEMMA EgressSeenInductive == Spec => []EgressSeen
<1>1. Init => EgressSeen
  BY DEF Init, EgressSeen, AfterOptions, AfterBind, AfterSource, AfterExplicit
<1> QED BY <1>1, EgressSeenStep, SetupInductive, PTL DEF Spec

\* Every variable of the set-up, the caller's socket included, keeps its type.
THEOREM SetupTypeCorrect == Spec => []TypeOK
<1>1. SetupInv => TypeOK  BY DEF SetupInv
<1> QED BY <1>1, SetupInductive, PTL

\* What Publication::new or new_with_socket returns does what its configuration
\* says: source address, port, options, connection and the egress interface,
\* also one named by an IPv4 address and whatever the caller's socket had set.
THEOREM ConfigurationHonoured == Spec => []ConfigHonoured
<1>1. SetupInv /\ EgressSeen => ConfigHonoured
  <2> USE DEF AfterOptions, AfterBind, AfterSource, AfterExplicit, AfterOpen
  <2> SUFFICES ASSUME SetupInv, EgressSeen, pc = "ready"
               PROVE  ConfigHonoured
    BY DEF ConfigHonoured
  <2>1. {"nonblocking", "loop", "ttl"} \subseteq socket.options
    BY DEF SetupInv, Held, Egress
  <2>2. /\ socket.family = config.family
        /\ socket.local.ip # "any" /\ socket.local.port # 0
        /\ config.group = "scoped" => effective_interface_index # None
        /\ destination_scope_id = ScopeId
    BY DEF SetupInv, Connected
  <2>3. /\ bind_source # None => socket.local.ip = bind_source
        /\ config.source_port # None => socket.local.port = config.source_port
    BY DEF SetupInv, Bound
  <2>4. /\ config \in PublicationConfig /\ validate(config)
        /\ explicit_interface_index \in Interfaces \cup {None}
        /\ source_interface_index \in Interfaces \cup {None}
    BY DEF SetupInv, TypeOK, Valid
  <2>5. ASSUME IsIndex(config.outgoing_interface)
        PROVE  socket.multicast_if = config.outgoing_interface.index
    <3>1. config.family = "v6"  BY <2>4, <2>5 DEF validate
    <3>2. config.outgoing_interface.index \in Interfaces  BY <2>4, <2>5, ValidFacts
    <3>3. explicit_interface_index = config.outgoing_interface.index
      BY <2>5, <3>1 DEF SetupInv, Explicit
    <3>4. effective_interface_index = config.outgoing_interface.index
      BY <3>2, <3>3, NamesApart DEF effective_interface_index
    <3> QED BY <3>1, <3>2, <3>4, NamesApart DEF SetupInv, Egress
  <2>6. ASSUME config.group = "scoped"
        PROVE  destination_scope_id # 0 /\ destination_scope_id = socket.multicast_if
    <3>1. config.family = "v6" /\ effective_interface_index # None
      BY <2>2, <2>4, <2>6, ConfigFacts
    <3>2. destination_scope_id = effective_interface_index  BY <2>2, <2>6, <3>1 DEF ScopeId
    <3>3. effective_interface_index \in Interfaces
      BY <2>4, <3>1 DEF effective_interface_index
    <3> QED BY <3>1, <3>2, <3>3, NamesApart DEF SetupInv, Egress
  <2>7. IsAddr(config.outgoing_interface) =>
          /\ socket.multicast_if # 0
          /\ config.outgoing_interface.addr \in seen[socket.multicast_if]
    BY NamesApart DEF EgressSeen
  <2> QED BY <2>1, <2>2, <2>3, <2>5, <2>6, <2>7 DEF ConfigHonoured
<1> QED BY <1>1, SetupInductive, EgressSeenInductive, PTL

\* The source address that an IPv6 publication binds is one of the interface
\* its packets leave by, unless addresses moved during the set-up.
THEOREM SourceAddressOnEgress == Spec => []SourceOnEgress
<1>1. SetupInv => SourceOnEgress
  <2> USE DEF AfterOptions, AfterBind, AfterSource, AfterExplicit, AfterOpen
  <2> SUFFICES ASSUME SetupInv, pc = "ready", moves = 0, config.family = "v6",
                      bind_source # None
               PROVE  /\ socket.multicast_if # 0
                      /\ socket.local.ip \in addrs[socket.multicast_if]
                      /\ socket.local.scope_id = ScopeOf(socket.local.ip, socket.multicast_if)
    BY DEF SourceOnEgress
  <2>1. /\ effective_interface_index \in Interfaces
        /\ bind_source \notin LinkLocals => bind_source \in addrs[effective_interface_index]
    BY EffectiveFacts
  <2>2. socket.multicast_if = effective_interface_index
    BY <2>1, NamesApart DEF SetupInv, Egress
  <2>3. /\ socket.local # None /\ socket.local.ip = bind_source
        /\ bind_source \in LinkLocals => socket.local.scope_id = effective_interface_index
    BY DEF SetupInv, Bound
  <2>4. Placed(socket.local)
    BY DEF SetupInv, Held, Located, Connected
  <2> QED BY <2>1, <2>2, <2>3, <2>4, NamesApart DEF Placed, ScopeOf
<1> QED BY <1>1, SetupInductive, PTL

\* The local address that a publication has cached and reports with each send
\* is the one its socket has now.
THEOREM LocalAddressCurrent == Spec => []LocalAddrCurrent
<1>1. SetupInv => LocalAddrCurrent  BY DEF SetupInv, Cached, LocalAddrCurrent
<1> QED BY <1>1, SetupInductive, PTL
=============================================================================
