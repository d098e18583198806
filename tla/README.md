# A verification project for mctx-core

TLA+ models of mctx-core, a Rust crate that sends IP multicast: UDP
publications, raw multicast datagrams and generic raw-IP datagrams, with
optional metrics, Tokio and Python adapters. TLC checks each model on small
instances; TLAPS proves the central theorems for every value of the constants.
Paths below are relative to the repository.

## 1. Inventory

| Component | State | Operations | What is hard | What makes it correct |
|---|---|---|---|---|
| Sequence guard (`src/metrics.rs`) | one atomic sequence, atomic counters | `write`, guard drop, `read_consistent` | any number of threads, weak memory | no update lost, snapshots atomic, nobody spins for ever |
| Samplers (`src/metrics.rs`) | previous snapshot, monotonic baseline | `sample`, `sample_snapshot`, `sample_snapshot_at`, `reset` | two clocks, held snapshots | nothing reported twice |
| `Context` (`src/context.rs`) | vector of publications, next identifier, counters | add (three ways), take, remove, `send`, `send_all` | threads in `&self` calls, failures half way | identifiers never reused, counters agree |
| `Publication` (`src/publication.rs`) | socket, destination, cached local address, counters | set-up, `send`, `finish_send` | caller's sockets, partial configuration | a socket matches its configuration |
| `RawContext`, `RawIpContext` | vector, index map, next identifier | add, replace, take, remove, send | two structures kept in step by hand | behaves like one map; failures change nothing |
| Route-selected IPv6 egress (`src/raw/linux_route.rs`) | netlink sockets, cached egress, sequence number | `egress`, `invalidate` around a transmit | kernel changes routes meanwhile, late dumps, overruns, broken sockets | packets follow the table; sends recover |
| Raw send dispatch (`src/raw/platform.rs`, `src/raw_ip/platform.rs`) | per-publication sockets and caches | open, send | platform branches, shared caches, addresses that move | right interface and unchanged header for each datagram |
| Socket cache (`src/socket_cache.rs`) | map and insertion order | `get_or_try_insert_with` | eviction while in use | bounded, map and order agree |
| JSONL files (`src/jsonl.rs`) | a shared file and its lock | open, validate, append | processes that race, die or fill the disk | one header, whole lines |
| Tokio adapter (`src/tokio_adapter.rs`) | registration of the socket | `send` in two cfg branches | shared readiness, cancellation | no lost wakeup, sent exactly once |
| Python bindings, asyncio (`mctx-core-py`) | event-loop registrations, duplicated descriptors | add, remove, `AsyncPublication.send` | timeouts, cancellation, removal and a closing loop while waiting; reused descriptor numbers | own registration, closed on every path, removal noticed |
| Tools (`src/bin`) | a send loop with periodic metrics | `mctx_send` main loop | early return on an error, a file others write too | each send in one row; Ok means all of them |

Interactions: the contexts own publications; `Context` and `Publication` each
keep counters behind a sequence guard; samplers and JSONL writers consume
snapshots; the Tokio and asyncio adapters drive `Publication::send` from an
event loop; `RawPublication` sends through the dispatch, which on Linux uses
the route egress for IPv6 datagrams without an explicit interface and on macOS
and Windows, as the raw-IP API does everywhere, takes its sockets from a bounded
cache that its threads share. `mctx_send` puts a context, a sampler and a JSONL
writer together.

PROJECT.json lists the hazards at their lines and the properties aimed at them.

## 2. Modules

| Module | Models | Role |
|---|---|---|
| `MetricsAtomic` | what a metrics state promises: recordings and snapshots in one step | abstract |
| `SendCounters` | the counters and what each kind of send adds | shared |
| `MetricsSequence` | the guard, one action per atomic access; refines `MetricsAtomic` | detailed |
| `MCMetricsSequence` | the counters of one publication for TLC | MC |
| `MetricsSampler` | both samplers | detailed |
| `MetricsProofs` | theorems about the guard and the samplers | proofs |
| `PublicationMap` | what a raw context promises: a map from identifier to publication | abstract |
| `RawContext` | `RawContext` and `RawIpContext`; refines `PublicationMap` | detailed |
| `RawContextProofs` | theorems | proofs |
| `Context` | `Context` with threads inside `send` and `send_all` | composes publications, their counters (recordings atomic, as `MetricsSequence` shows) and the context's |
| `MCContext` | the context and, apart from it, a sampler, for TLC | MC |
| `ContextProofs` | theorems | proofs |
| `RouteEgress`, `MCRouteEgress` | the route-selected send path and the kernel | detailed, MC |
| `RouteEgressProofs` | theorems | proofs |
| `JsonlWriter` | the metrics file and the processes that share it | detailed |
| `PublicationSetup`, `MCPublicationSetup` | how a configuration and perhaps a caller's socket become a publication; its cached local address | detailed, MC |
| `PublicationSetupProofs` | theorems | proofs |
| `TokioSend` | `TokioPublication::send`, both cfg branches, with the socket buffer and the registration | detailed |
| `MctxSend` | `mctx_send`'s main | composes `JsonlWriter` (extended: the command is one of its processes) and `MetricsSampler` (instantiated: the command's samples are its steps) |
| `MctxSendProofs` | theorems about the file and about the command | proofs |
| `RawNet` | addresses, datagrams, sockets, and what kernels do with them | shared |
| `RawPlatform` | configuration, selection, opening and sending of the raw multicast API, per platform | operators |
| `RawIpPlatform` | the same for the raw-IP API | operators |
| `SocketCache` | `BoundedSocketCache` | operators |
| `RawSend`, `MCRawSend` | one publication of either API, its threads, its cache and a machine whose addresses move | composes the four above, MC |
| `RawSendProofs` | theorems | proofs |
| `AsyncioSend` | `AsyncPublication.send` over the Python publication, the event loop and the descriptor table | detailed |
| `AdapterProofs` | theorems about `AsyncioSend` and `TokioSend` | proofs |

How state and actions correspond to the code is said at the head of each
module; definitions keep the code's names where they model a whole function,
and "map" in PROJECT.json gives the lines. Definitions whose comment begins
with "Mutant of" are not part of a specification: each is a plausible slip in
the code, kept to show that a property would notice it.

Choices worth knowing:

- *Exclusive and shared calls.* `&mut self` calls of `Context` happen when no
  thread is inside a `&self` call; that is what the borrow checker enforces.
  `get_publication_mut` and `publications_mut` hand out `&mut Publication`; a
  caller that swaps two publications through them (`std::mem::swap`) can put
  an identifier in another place, which the raw contexts' index map would not
  notice. That is outside the model.
- *Memory order.* `MetricsSequence` has one parameter, `OddStoreOrdered`: does
  the target make the odd store of the sequence visible before the Relaxed
  counter updates that follow it? The Rust memory model does not promise it
  (the compare-exchange is only Acquire), x86-64 does, AArch64 need not.
- *Kernel.* In `RouteEgress` a dump is written message by message as it is
  read, the table may change between two messages, notifications are counted
  or lost to an overrun, and a socket breaks when its interface goes.
  In `TokioSend` readiness is edge-triggered, numbered by a tick, and
  `clear_ready` clears only the tick its guard saw.
- *Files.* In `JsonlWriter` a line is three pieces (half an object, the other
  half, the newline), because `write_all` may be cut off between any two bytes.
- *Platforms.* `RawSend` starts on any of Linux, macOS, Windows and other
  targets; the cfg branches of the code are cases of the operators. The feature
  `raw-route-egress` is on. What a kernel does is in `RawNet`: which socket
  option decides the outgoing interface, and what becomes of a header. With
  `IP_HDRINCL` Linux computes the total length and the checksum (that it also
  fills in a source of 0 does not matter: the parsers refuse one), Darwin takes
  lengths in host order; a rebuilt IPv6 header gets the kernel's flow label.
  Transport checksums are payload and not modelled.
- *Look-ups.* Each selector of a raw publication is looked up in a step of its
  own (`LookUp`), in the order of the code and up to the first that fails or, in
  the raw-IP API, disagrees; addresses move in between. `Resolve` then makes the
  selection from `answers`.
- *Histories.* `issued` (`Context`: every identifier ever handed out), `spoiled`
  (`JsonlWriter`: the file as a process left it invalid), `seen`
  (`PublicationSetup`: the addresses each interface has or had since the call)
  and `since` (`RawSend`: the interfaces an own address has been on since its
  look-up) are variables no guard reads. They let a property speak of what was true
  earlier.
- *Equally good routes.* Entries of a routing table may agree in prefix length
  and priority, for different groups or for one; `Best` is the set of where the
  table may then send. TLC has a default and a host route; tables with more
  entries, ties among them, are covered by the theorems. Of a multipath
  entry the code takes the first hop, and here an entry leads to one interface.
- *Descriptors.* In `AsyncioSend` the code between two awaits is one step, the
  lowest free descriptor number is taken, and the loop keeps one callback per
  number. `wait_for` cancels its future when the time is up; the task resumes
  in a later step, and readiness, a cancellation or `loop.close()` may come
  in between.

## 3. Runs

| Run | Shows | Bounds |
|---|---|---|
| `metrics_ordered` | with an ordered odd store: no lost update, current copies, refinement of `MetricsAtomic`, progress of every update and snapshot | two recorders, one reader, an update begins up to sequence 3: a reader meets a guard being taken, held, dropped and taken again |
| `metrics_unordered` | violation: without that order a snapshot splits a send | same |
| `raw_context` | vector and map in step, unique configurations, refinement of `PublicationMap` | three configurations, identifiers below 4, four sockets: removal from the front, middle and end, replacement after each |
| `context` | identifiers never reused, active count, totals of context and publications agree, `send_all` reports what it sent; of the samplers: baseline and snapshot belong together, no send and no monotonic interval reported twice | two threads, two configurations, two identifiers, two sends in flight; for the sampler two sends, clocks up to 2, the wall clock set at any time. A behaviour is one of the context or one of the sampler |
| `route_egress` | the idle cache agrees with the table, undisturbed sends follow it, sends recover from failures | two threads, two groups, a default and a host route, one table change, one fault, sequence numbers 1 to 5: the least that satisfies the theorems' condition (section 4), and they wrap |
| `route_drain_error` | violation: a drain error forgets a notification | same |
| `mctx_send` | unique header, damage bounded by interruptions, files left damaged never change again, acknowledged rows stay; rows report each send once, and all of them when main returns Ok | the command and another process, two headers, two sends, four rows, two interruptions, a summary interval of one tick, one beyond the clock's range or none, with and without a file |
| `publication_setup` | a publication honours its configuration, sends from an address of its egress interface, reports its current address | two interfaces that share a link-local address, two IPv4 addresses, one address of each other kind, two ports, every configuration (invalid ones too) with a new socket or one of the caller's, bound or not and with an egress interface of its own; two changes of the machine's addresses, enough for one to leave and another to come between two calls |
| `tokio_send` | exactly-once sends, counters, no lost wakeup, every call returns | four tasks, a buffer of three packets, one send error: the buffer fills, blocks two tasks and drains below half between any two steps |
| `raw_send` | datagrams leave with the supplied header; a report names the interface every look-up found, and the datagram leaves by it; the cache stays sound and evicts only for a socket that was created; the capability functions agree with what opens | every platform, fifteen configurations with every kind of selector (one address, two, an index as well, wrong ones), nine datagrams (malformed ones too), two interfaces of which one is no Ethernet, two threads, a cache of two, one address that moves or goes away: between two look-ups, before a socket is opened, or before a send |
| `raw_ip_hop_limit` | violation: IPv6 multicast of the raw-IP API leaves with the default hop limit | one thread |
| `asyncio_send` | each wait has its own registration, nothing stays registered or open, a future is settled once, a removal is noticed | two tasks, two publications, four descriptors (so that `dup` runs out of them and numbers are reused), one unexpected error of `add_writer`, all three kinds of loops |

The bounds are constants of the modules and appear in guards: what they cut off
is more of the same (further updates, identifiers, rows, faults).

Deadlock is checked except in `metrics_ordered`, `context`,
`publication_setup`, `mctx_send`, `raw_send` and `asyncio_send`, where all may
be done and the bounds reached, or the set-up has failed, which is no fault.

### Fairness

- `metrics_ordered`: each recorder and each reader that has begun keeps
  taking steps (the operating system schedules its thread). Recordings are
  finitely many, so a reader is not overtaken for ever; the code itself does
  not promise more.
- `route_egress`: threads inside a send are scheduled and the application goes
  on sending. Nothing makes the kernel change routes or fail.
- `tokio_send`: the kernel sends queued packets, the driver and the executor
  run. Nothing makes a caller call, cancel or fail.
- `asyncio_send`: the event loop runs what is due, timeouts included, and a
  coroutine that a closed loop leaves behind is collected. Nothing says that a
  full socket buffer ever drains: `RemovalNoticed` rests on the timeout alone.

Everything else is safety and needs no fairness.

### Findings and observations

Three runs are violations, each of a sentence of the documentation; PROJECT.json
quotes them.

1. `metrics_unordered`: the write side of the sequence lock needs a release
   fence (or SeqCst) between taking the guard and the Relaxed updates.
2. `route_drain_error`: a receive error in
   `drain_invalidation_notifications` discards what earlier notifications in
   the same drain said, and the stale cache survives.
3. `raw_ip_hop_limit`: `send_unix_raw_ipv6_datagram` sets the unicast hop limit
   of the socket only (`src/raw_ip/platform.rs:542`), so the kernel gives an IPv6
   multicast datagram its default multicast hop limit, while the capability's
   comment and `docs/raw-ip.md` say that the supplied hop limit is applied.

`CacheCurrent`, `FollowsRoute` and `HeaderKept` state what holds nevertheless, with
these exceptions spelled out. Other limits of the code are part of what a passing
property states:

- `DamageBounded`, `RowsKept`: a file that ends in a complete object without its newline
  passes validation (`src/jsonl.rs:254`), and the next row is glued to it: one
  acknowledged row per interruption may be lost that way.
- `HeaderKept`: the flow label of an IPv6 header that the kernel rebuilds is the
  kernel's (`docs/raw-ip.md`); Linux and macOS compute IPv4 checksums.
- `EgressHonoured`: IPv4 of the raw multicast API is steered by an address that is
  resolved when a socket is opened, on macOS and Windows perhaps long after the
  publication was. If the address moved meanwhile, the datagram follows it and
  the report still names the interface of the look-up: the property asks only
  that it leaves by an interface the address has been on since. On Windows
  `IP_UNICAST_IF` does not steer multicast of the raw-IP API (`Pins`).
- `NothingLeft` (through `leaked`): when `add_writer` raises anything but
  `AttributeError` or `NotImplementedError`, the duplicate stays open.
- `RowsAccount`: a failed send or write returns from `mctx_send` at once; the
  sends since the last row are then in no row.
- `open_ipv6` failures on a route-selected publication come back as
  `RawSocketCreateFailed`, `RawSocketBindFailed` or `InterfaceDiscoveryFailed`
  rather than `RawSendFailed`; `Recovers` covers what follows.

## 4. Proofs

`tlapm` checks eight modules. All results hold for every value of the constants
that satisfies the named assumptions of the modules. Two modules hold the proofs
of two components each and extend both, so `MetricsSampler` and `TokioSend` name
their specifications apart (`SamplerSpec`, `TokioSpec`).

**MetricsProofs**, the guard (assumptions: updates are functions from counters to
naturals, the order parameter is Boolean, the bound is a natural number). The
inductive invariant `WriterInv` says that the sequence is odd exactly when one
thread is between taking and dropping the guard, and that the counters equal
the committed total plus what the holder has added so far; mutual exclusion
alone is not inductive, since dropping the guard must be known to leave an
even sequence and complete updates. From it: `TypeCorrect`, `GuardCorrect`
(`GuardExclusive` and `NoLostUpdate`). `CopiesStayCurrent` adds that while the
value a reader saw is still the sequence, each counter it copied is the
committed one. Under `OddStoreOrdered`, a validated copy is then the committed
total (`OrderedSnapshotsCoherent`), snapshots never go back
(`OrderedSnapshotsMonotone`), and the guard implements `MetricsAtomic` with
`total <- committed` (`OrderedImplementsAtomic`).

**MetricsProofs**, the samplers (assumption: the bounds are naturals). The inductive
invariant adds to the types how the sampler's baseline relates to the history:
what was reported lies below the count and the time of the snapshot kept, and a
held or current snapshot is never newer than the counters and the clock.
`BaselineCorrect`, `SendsReportedOnce` and `IntervalsDisjoint` follow from it.

**RawContextProofs** (assumptions: bounds are naturals, the marker for no
publication is none). The inductive invariant is the conjunction of `TypeOK`,
`IndexInv`, `FreshInv` and `ConfigsUnique`; the step that matters is `TakeOk`,
where swap_remove moves the last publication. `ContextImplementsMap` maps the
vector and the index map to the function `live` and shows that each step is a
step of `PublicationMap`. `ConfigurationsUnique` states the part about
configurations by itself: neither an add nor a replacement lets two live
publications share one.

**ContextProofs** (assumptions: bounds are naturals, the threads are finitely
many). `TotalsAgree` speaks of a sum over publications and over threads, and
the library's induction theorems cannot be instantiated here; that a sum over a
finite set grows by what one term grows is proved from the existence of a least
counterexample. The inductive invariant `Inv` adds to `ActiveCounted` and
`TotalsAgree` the types, that identifiers handed out are below the next
one (`Handed`), that
a call under way has a publication in hand (`InHand`), and that `send_all` has
reported exactly the publications before the one in hand while nobody changes
the vector (`Walks`). `ActiveCountCorrect`, `TotalsCorrect` and the action
properties `IdsFresh` and `SendAllCorrect` follow: the context's counters are
those of all its publications, what is recorded in one and not yet in the other
excepted, for any number of concurrent sends.

**MctxSendProofs** (assumptions: bounds and intervals are naturals, nobody is
no process, a sample is no header, the command is a process, the marker for
nothing is no number, snapshot or delta). About the file, the invariant `FileInv` ties what is in the
file to what its writer still has to write (`Buffers`, under the lock: `Locked`)
and keeps an account: each line that is not one object has cost a fault, and a
last line that is not what its writer wrote of it has cost one in advance
(`Charged`). Without that advance `DamageBounded` is not inductive, because the
line is only counted as damaged when the next row is glued to it.
`HeaderPlace` keeps pieces of headers on the first line, at their own place, and gives
`HeaderWrittenOnce`; `DamageCorrect`, `DamageFrozenCorrect` and `RowsKeptCorrect`
follow too, for any number of processes. About the command, `CommandUsesFile` shows that every
behaviour of `MctxSend` is one of `JsonlWriter`, so that the file theorems hold of it
(`CommandFileCorrect`); `CommandInv` says that the rows written and the one
under way add up to the sampler's baseline (`Accounted`), that the baseline is
never ahead of the counters or of the clock (`Sampling`), so that a summary is
never skipped for want of a delta, and in which order the last send, the last summary
and Ok come (`Ending`). `RowsAccountCorrect` and `ReportedInFullCorrect` follow.

**RawSendProofs** (assumptions: a positive capacity, and what the types of the
code say: interface indices are positive, an Option is None or a value, an
interface is an index or an address, an address is IPv4 or IPv6, a
caller's datagram is in network order). `GoodCache` says that the insertion
order lists each key of the map once and is no longer than the capacity;
`ListCounts` turns the code's test on the number of sockets into one on the
length of the order, so that making room always leaves room. `CacheSound` is
not inductive: that a new socket fits its key depends on which keys a
publication can ask for. The strengthening adds that an opened publication has
a backend of its own family (`GoodPublication`, from the open functions), that
a thread at the cache holds a key its publication uses (`FitsPublication`, from
the send functions), and that nothing is cached or sent before the publication
is ready. `CachedSocketsFit` and `EvictionsMakeRoom` follow.

`CapabilitiesCorrect` reads the open functions of both APIs backwards: what
passed validation has one family and selectors of it (`ValidExplicit`,
`ValidRouteSelected`, `ValidRawIp`), so every refusal as unsupported on a
supported platform has one of the stated causes, for any configuration.

`HeadersCorrect` and `EgressCorrect` rest on one more inductive invariant,
`SendInv`, relative to the first. A header is right at the moment of the
transmit only if the plan was made for this datagram and the socket for this
plan, and both were fixed in earlier steps, while other threads used and evicted
sockets: `SendsInv` says what a thread at each point of its send holds,
`OwnSockets` that every cached socket is of the publication's kind and tied to
its interface, `OpeningInv` that the selection is what all selectors named.
`LookInv`, the part about the look-ups, says that an answer is an interface its
address has been on since, and that the address, once looked up, is where the
history `since` has it; so what `IP_MULTICAST_IF` resolves to when a socket is
opened is in that history too (`OfPublication`). `Answered` turns the end of the
look-ups into an answer for every selector.
`Takes` and `HeaderLeaves` then follow a
datagram through each backend and the kernel, `EgressLeaves` does so for the
interface.

**PublicationSetupProofs** (assumptions: address families, link-local and other
addresses are told apart, and the marker for nothing is none of the things it
stands in for). The properties speak of a publication that is ready, and rest
on what eight earlier steps did while addresses came and went; the inductive
invariant `SetupInv` says what each stage has achieved for the later ones. An
address a socket has is on the interface of its scope as long as nothing moved
(`Placed`, `Held`); the interface a configuration names by an address has that
address (`Explicit`); the interface of the source address agrees with it
(`Source`); the socket is bound where it was asked to (`Bound`) and sends by
that interface (`Egress`); and connecting gave it an address and a scope
(`Connected`). The case that needs all of them is a caller's socket that was
bound before: `effective_interface_index` is only right for it because what it
was bound to was compared with the lookup. `ConfigurationHonoured`,
`SourceAddressOnEgress` and `LocalAddressCurrent` follow.

**RouteEgressProofs** (assumptions: prefix lengths and priorities are naturals,
tables lead to interfaces, the marker values are no interfaces; and, as a
hypothesis of each theorem, `SequencesSuffice`). `CacheCurrent` is not true for
every value of the constants: `nlmsg_seq` wraps, and with few numbers a late
answer to an abandoned dump has the number of the one awaited. TLC finds that
for `SequenceLimit` 2 and 3. `SequencesSuffice` says that there are more
numbers than routes, faults and two together, as 2^32 are. The proof shows why
that is enough. `Age` counts the requests since a sequence number was used. The
kernel refuses a new dump while one goes on, and each request that it refuses
takes at least one message off the queue, which the kernel replaces by the next
of the dump; so a dump's age and the routes it has left add up to at most the
number of routes plus the faults (`DumpAge`), and queued messages are hardly
older (`QueueAge`). No queued message is then as old as the range of numbers,
and `Request` never uses a number that is still queued.

On top of that, the invariant `RouteInv` follows one lookup. While the table
does not change under it, or changes and the notification still waits (`Calm`),
what is queued for the lookup is what the table says (`Truthful`), the end
comes last (`EndsLast`), and every route that would beat the candidate so far is
queued or yet to be written (`Complete`); so at `NLMSG_DONE` no route beats the
candidate, and it is one of the best (`UnbeatenIsBest`). The cached interface is right unless a
notification waits or was taken by a drain under way (`CacheRight`); a send that
read it undisturbed has the right one (`Resolved`, `Chosen`). `CacheIsCurrent` and
the action property `RouteFollowed` follow, for any number of threads.

**AdapterProofs**, asyncio (assumptions: the marker for nothing is no publication,
task or descriptor, the bound on descriptors is a natural number). The
inductive invariant ties descriptors to their owners in both directions: a
living publication's descriptor refers to its socket, a waiting task has a
registered duplicate nobody else has, what was leaked stays open and unused,
and whatever is open or registered has one of these owners. A reused number is
then one without an owner (`LowestFreeIsFree`). `WaitsAreOwn`,
`NothingStaysBehind` and `FuturesSettledOnce` follow.

**AdapterProofs**, Tokio (assumptions: a positive buffer, a natural fault bound,
finitely many calls). `NoLostWakeup` is not inductive, because `ClearReady` drops readiness. The
strengthening `BlockedInv` says that a call that found the buffer full, whose
guard is still the newest, has every later drain's event pending; `GuardsPast`
makes a new event invalidate older guards. `WakeupsKept` follows;
`PayloadSentOnce` needs only the types. `CountersCorrect` counts tasks: each
step moves at most one task into or out of the set of those that have sent or
failed, together with the counter.

Only model-checked: the liveness properties (`OperationsFinish`, `SendsFinish`,
`Recovers`, `RemovalNoticed`), which rest on fairness and which TLAPS does not
prove here. Every invariant and every action property of a passing run is also
a theorem, and so are both refinements.

## 5. Not modelled, and the plan

Not modelled, because nothing is at stake that a model would show: argument
parsing (`send_args`, `mctx_raw_send`, `mctx_tokio_send`, which then add one
publication and send in a loop), the content of headers and rows, rates, frame
layout and the ioctls of macOS BPF, the tables in `src/raw/link.rs`, and in the
Python bindings argument conversion, getters and the raw classes, which forward
to modelled calls. Wrap-around of the 64-bit sequence and identifiers is out of
reach of any run of the program.

What could come next: the header checks of `jsonl.rs` field by field instead of
as an opaque validity, and the getters and raw classes of the Python bindings.
