# A TLA+ development for the SDN load balancer

The repository is a POX controller with an IP-hash load balancer of its own
(`new_lb.py`, and an alternative, `hash_lb.py`), a Mininet network with a traffic
generator (`topology.py`), and the POX components the balancer runs beside and
on: learning switches, discovery, the spanning tree, the host tracker, path
forwarding, DHCP, OpenFlow sessions, a software switch and the scheduler with its
threads.  This directory models how they behave: a packet that meets a
half-installed path, a switch that reconnects, a flood that is still allowed by a
stale tree, a wake-up between a look and a wait.  TLC checks the models on small
instances; TLAPS proves nearly all invariants and action properties for all
constants.

Contents: [the system](#the-system) · [modules](#modules-and-their-code) ·
[runs](#what-is-checked) · [proofs](#what-is-proved) ·
[results](#what-the-runs-found) · [limits](#not-modelled) · [plan](#plan).

Modules are checked with `tlc -config X.cfg M` and proved with `tlapm M.tla`;
`PROJECT.json` names the source lines of every definition.

## The system

The recommended launch is `pox.py forwarding.l2_learning openflow.spanning_tree
--no-flood --hold-down openflow.discovery host_tracker info.packet_dump`
(`README.md:55`); `new_lb.py` is a further component.  One thread, the
cooperative scheduler of `lib/recoco`, runs every handler to its end: that is
what `Recoco` is about, and what lets every other module take a handler as one
action.  The rest of the concurrency is in the network: six switches with a TCP
connection each, packets in flight, timers, and switches that come and go.

| Part | State | Operations | Correct when |
|---|---|---|---|
| Balancer `new_lb.py` | none: everything it decides is in the switches' tables | PacketIn: to the virtual address (`_handle_to_vip`), from a server (`_handle_from_server`) | one client is never split between servers, by the shortest path, and whoever retries is served |
| Network `topology.py` | port numbers, by order of `addLink` | iperf clients and servers | the numbers hard-coded in the balancer fit |
| Learning switch `l2_learning.py` | `macToPort` | PacketIn | packets do not loop; does not undo the balancer |
| Discovery `discovery.py` | `adjacency` with time stamps, the LLDP sender's two lists | PacketIn (LLDP), expiry, ConnectionDown | links of switches with a session only; events match `adjacency` |
| Spanning tree `spanning_tree.py` | `_prev`, the last flooding ordered per port; hold-down timers | ConnectionUp, LinkEvent, timer | flooding neither loops nor leaves anyone out |
| OpenFlow sessions `of_01.py`, nexus `openflow/__init__.py` | sockets, handler stage, ports, deferred messages; `_connections` | accept, handshake, port status, send, disconnect | `connections` holds what is up; ConnectionDown once, last; ports right |
| Flow table `flow_table.py` | list of entries by effective priority | add, remove, expire, look up, overlap check | order kept; the first match is the best |
| Software switch `datapaths/switch.py` | table, packet buffer, expiry timer | flow_mod, packet_out, rx_packet, sweep | limits kept, nothing lost or removed silently |
| Scheduler `lib/recoco/recoco.py` | ready queue, event; the hub's queue and tasks; pingers; locks of SyncTasks | cycles of two threads; `callLater`, `schedule`, `synchronized` of others | one handler at a time; no task twice; no wake-up lost; quit ends all |
| Host tracker `host_tracker.py` | `entryByMAC`, `ipAddrs`, their timers and ping counts | PacketIn, `_check_timeouts` | who answers stays known, who is gone is forgotten |
| Path forwarding `l2_multi.py` | its own `adjacency`, `path_map`, flows on switches | LinkEvent, ConnectionUp, PacketIn | links, paths and flows are those of the present topology |
| DHCP `dhcpd.py`, `dhcp_client.py` | pool, offers, leases; client state and four timers | DISCOVER, REQUEST, RELEASE; offers, answers, timeouts | one owner per address, none lost; a client ends bound or says it failed |
| Hash forwarding `hash_lb.py` | `host_ports`, `switch_ports` | PacketIn | ports to switches are recognised, packets forwarded through them |

They interact by *messages* (packet_in, flow_mod, packet_out, port_mod,
port_status and the handshake, over TCP: FIFO per switch and unordered between
switches), by *events* (the nexus first, then the connection; LinkEvent from
discovery to the spanning tree and to l2_multi, synchronously, in the middle of
discovery's own update), and by *shared state* (`core.openflow.connections`,
`discovery.adjacency`, `Connection.ports`).

What makes them hard:

- the rules of one path travel on three connections, and packets run ahead of
  them; a switch with no connection at that moment is passed over silently;
- two applications answer the same packet_in on the same connection, and their
  rules have different precedence on the switch;
- learned rules expire, the balancer's never do; a reconnecting switch is
  emptied while its neighbours keep their rules;
- port settings are cached, and messages are skipped on the cache's word;
- held-down switches are skipped and must catch up; removed links are announced
  while they are still there;
- a connection can be disconnected inside a handler that goes on, read after
  it was disconnected, and closed after its successor came up;
- a table and a buffer at their limits, replacement at the limit, timeouts
  against traffic;
- threads that move one task between four containers without a lock, and a
  condition that is cleared after the wait;
- repeated, lost and late messages between DHCP clients and two servers, with
  handlers that raise after half of their work;
- counters and clocks that run against each other (an address and the host it
  belongs to, a ping and its answer).

`PROJECT.json` lists these under `hazards` with their lines, and every other
component of the repository under `components` with the reason it is not (yet)
modelled.

## Modules and their code

| Module | Code | State and actions |
|---|---|---|
| `FlowTable` | `flow_table.py`, `ofp_match` | operators only: match, precedence, insertion, removal, look-up, overlap |
| `SoftwareSwitch` | `datapaths/switch.py` | `table`, `buffer`, the clock; `RxFlowMod`, `RxPacketOut` (with data or a buffer id), `RxPacketHit`/`Miss`, `RemoveExpiredEntries`, `Tick` |
| `RuleSet` | (abstract) | a set of rules and the decision for a packet |
| `SoftwareSwitchProps` | | properties, and the refinement of `RuleSet` |
| `TableSearch` | the loop of `add_entry` | `searched`, `entry`, `low`, `high`, `inserted`; `SearchLeft`, `SearchRight`, `Insert`; proved, not run |
| `Topology` | `topology.py` | constants: links, port numbers, distances |
| `LoadBalancer` | `new_lb.py` | `HandlePacketIn` as the set of flow_mods it sends |
| `Fabric` | all of the above running, with `l2_learning.py` | see below |
| `FabricProps` | | properties and fairness |
| `SpanningTree` | `discovery.py`, `spanning_tree.py` | `adjacency`, `prev`, `config`, `timers`, the sessions (`latest`, `older`, `connected`); one action per handler, sessions that overlap or fail in a send, cables failing and returning |
| `LLDPSender` | `LLDPSender` in `discovery.py` | `this`, `next` (the lists), `chunkOf`, `clock` (the timer); one action per handler, `TimerHandler`, time; its properties are in the module |
| `L2Multi` | `l2_multi.py`, composed with `SpanningTree` | `links`, `pathsOf`, `flows`; every action of `SpanningTree` with what its event does here; `InstallPath`, `Expires` |
| `Connection` | `of_01.py`, the nexus | sessions of switches: handshake, ports, registry, ends |
| `Recoco` | `recoco.py` | the scheduler's thread, the hub's, and others; one action per operation another thread can see |
| `HostTracker` | `host_tracker.py` | `entry`, `ips`; `PacketIn`, `Tick`; hosts and pings around it |
| `DHCP` | `dhcpd.py`, `dhcp_client.py` | `removed`, `offers`, `leases`; `ExecDiscover`, `ExecRequest`, `ExecRelease`; clients with their timers |
| `HashForwarding` | `hash_lb.py` | `hostPorts`, `switchPorts`, `rules`; `ConnectionUp`, `PacketIn`; its property is in the module |
| `*Props` | | properties and fairness of the module named |
| `MC*` | | instances for TLC |
| `*Proofs` | | theorems; `SoftwareSwitchProofs` has those of `FlowTable` and `TableSearch` too |

`Fabric` composes `LoadBalancer` and `Topology` with switches, connections,
hosts and, if `L2Learning`, a `LearningSwitch` per switch.  `up[d]` and
`down[d]` are the two directions of switch d's connection.  The handlers of one
packet_in are one action, `ControllerPacketIn`: the balancer's flow_mods for
the various switches and then the learning switch's message for the packet's
switch, appended to `down` in that order, because the nexus event comes before
the connection's.  The balancer changes the parsed packet between its flow_mods
(`new_lb.py:132`); that is why the rules behind the first one match the server
as destination, and it does not reach `l2_learning`, which parses a fresh event.
A packet carries the header fields the rules match on, hosts being numbered for
IP and MAC address alike, since the code tests and rewrites both together.
`rules[d]` is a set, as in `RuleSet`, not the list of `SoftwareSwitch`: Mininet's
switches are Open vSwitch, and what a switch promises is what `RuleSet` says.  All
rules here fix every header field; those that fix the port too (`exact`) outrank
the others, which share one priority.  `trail` and `origin` are history.

The MD5 of the addresses is a function `hash` chosen in `Init` from `Hashes`; in
the code it depends on the client only, the other address being the virtual one.
(For the four addresses of this network MD5 gives server 4 for H5 and H6 and
server 3 for H7 and H8, so two servers stay idle.  The README speaks of "the
source IP address and source port"; `_hash` takes neither port.)

`SpanningTree` names a port by what it is cabled to.  The parts of the code that
are deterministic but depend on dictionary order (the breadth-first tree) are
translated with switches in order of dpid.

`L2Multi` extends `SpanningTree`: both listen to the same discovery, and a link
event is handled by both in one step, since discovery raises it synchronously.
`pathsOf` holds the links `path_map` was computed from; the map itself depends on
the order in which the dictionary lists the switches, and `Maps` has one for
every order.  `flows[d]` is where switch d sends packets to, over all matches.
`install_path` towards a switch without a connection raises after the switches
before it have got their entries, which `InstallPath` keeps.

`Recoco` splits a thread's work at every operation another thread can see:
`deque.append`, `Event.set`, a pinger's write, an acquire.  The hub's append and
its set, and those of a `CallBlocking` worker, are one step; other threads'
`ScheduleTask` and `Set` are kept apart.  `CYCLE_MAXIMUM`, the longest the
scheduler waits for the event, is left out: with it a lost wake-up would only be
late, and the runs show that none is lost.  Only a task quits, as `core.quit`
posts itself through `callLater` when it is called from elsewhere
(`core.py:310-345`).

`HostTracker` counts time in rounds of the timer: an age is the number of rounds
since the last refresh.  A host is one of two kinds, chosen in `Init`: a prompt one
answers within a round and its switch stays connected, any other may be silent,
lose packets, disappear.  The parts of an entry nobody reads (`inport`) are left
out, and so are the `HostEvents`.

`DHCP` gives every message the number of messages its client has sent (`xid`).
What the code leaves to listeners (which offer is taken, whether a lease is
refused) is a choice, and so is the free address that is offered.  The clients
are `DHCPClientBase` objects; the subclass that would put one on a switch cannot
be constructed (`dhcp_client.py:503`).  A raised exception ends the handler where
it is raised and what was assigned before stays.  `lapses` is history: how often an
address was put back in the pool while the offer of it stayed.

`HashForwarding` has one `HashLoadBalancer` per connection; the hash may choose
any of the available ports.

`Connection` keeps the session's two stream directions, of which the switch's
side (`Answer`, `PortChange`, `EchoRequest`, `Lose`) is the environment.  A
failing `send` is a choice in `Send`, since the controller may or may not have
been told of the lost peer.  `PortCollection`, a chain of a child over
`original_ports`, is a record with the three sets the code keeps.

## What is checked

Distinct states are those of the listed configuration.

| Run | Instance | Shows |
|---|---|---|
| `switch_table` | 3 matches of 2 fields, 2 priorities, 3 entries, with and without CHECK_OVERLAP | sorted, no duplicates; the switch implements `RuleSet` |
| `switch_limits` | 1 entry, 2 buffers, timeouts of 1, sweep every 2, clock to 4 | both limits kept; no entry outlives its timeout by more than a sweep; no silent removal; a buffered packet leaves only through an answer naming it |
| `balancer` | clients 5 and 7, all servers, switches 5 (a client's) and 1 (two servers') late and losing their connections, two packet_ins and one message per switch in flight | right server, shortest path, whole paths but for switches that were away, requests arriving in the end |
| `learning` | client 5, all servers, floods over a tree, learned rules expiring, answers | answers from the own server only |
| `tree_startup` | ring of 4, both flags, nothing lost | no flooding loop at any time; everyone reached in the end, unless a link was seen one way too late |
| `probing` | 2 switches with 2 ports, cycle 2, a call of the timer every 1 at most, 4 events that set the timer, any number of modifications | every port probed for ever, and within a link's timeout while the timer is not set again |
| `path_forwarding` | triangle, a failing cable, a switch with overlapping and failing sessions, packets from 1 to 3 | cached port states true; links only from switches with a session; l2_multi's links, paths and flows follow discovery |
| `session` | 1 switch, 2 sessions, 2 port changes, 1 echo, 1 refresh | ports right, closed sessions forgotten, live ones hidden by overlap only, ConnectionDown last and always |
| `scheduler` | 1 sleeper, 1 idler, 2 threads with one operation each, one of which may call `core.quit` | one handler at a time, no task in two places, no wake-up lost, orderly end |
| `dhcp` | 2 clients (one eager that leaves and returns, one with a second server in reach), 1 address, 5 and 3 messages | no further owner of an address without a lapse that put it back, nothing lost, bindings stay, clients end |
| `host_tracker` | 1 host with 2 addresses, 2 switches, 1 packet under way | freshness, what is dropped with an entry, who answers stays, who is gone goes |
| `hash_forwarding` | the whole topology, 1 reconnection | **violated**: LLDP never marks a port |

**The properties.**

- `RightServer`: whatever the order of flow_mods, expiries, floods and
  retransmissions, a request is taken by no server but the one its client hashes
  to.  `AnswersFromOwnServer`: the same for what the client gets back.
- `ShortestPath` ties the hard-coded ports to the topology: a wrong port either
  loses the packet (caught by `ReachesServerOnceStable`) or takes a detour.  It is about
  `new_lb.py` alone: beside `l2_learning` it does not hold.
- `PathInstalled`: once the client's switch redirects, every other rule of the
  path has been ordered too, and is installed or on its way unless it was for a
  switch that had no connection, or lost it later with its table.  The history
  variable `lost` holds exactly those flow_mods (a rule leaves it when it is sent
  again); no step reads it.  So the README's "on the switches located on the path
  leading to this server [...] flows are installed" (`src/README.md:26`) is not
  true of this code; the property says when it is.
- `ReachesServerOnceStable` is about what becomes of the clients: the request of
  one that keeps trying is accepted by its server, or the client is `Stranded`
  for ever.  Both ends are met in the instance: with switch 1 away when
  `install_flow` runs, switch 5 redirects for good to a switch without a flow, and
  the misses there are ignored, since the destination is now the server and the
  switch not a client's (`new_lb.py:109-115`).  It says that requests arrive; with
  `new_lb.py` alone no answer comes back, because a server's answer
  misses at a switch that is neither 5 nor 6.
- `NoFloodLoop` is stated over the floodings themselves, not the configured
  tree: no set of steps that keeps itself going.  Both flags are needed.  With
  `--no-flood` alone some ports closed at ConnectionUp stay closed: they
  are open again only if an update comes after discovery, and a link between
  two closed ports is ignored; with `--hold-down` alone switches flood in a ring
  until they are discovered.  `EventuallySpans` is about the same two mechanisms
  where they help each other: what the held-down switches were not told is made up for by
  their timers, in whatever order those end.  Its hypothesis leaves out the one
  start in which that is not so, a link still `HalfSeen` when both timers are over
  (see [Behaviours met on the way](#behaviours-met-on-the-way)); starts with and
  without it are in the instance.
- `TypeOK` of `SpanningTree` has the sessions in it: `_handle_openflow_PacketIn`
  looks up the sender of a probe only (`discovery.py:429`), while the switch that reports it
  may have been hidden by the end of an older session, and yet no link is known
  that would outlive the sessions of either end.
- `CacheFaithful`: `_prev` is kept without asking the switch, and port_mods are
  skipped on its word, across restarts.
- `LinksFollow`, `RightPaths`, `FlowsFollow`: removals are announced one
  direction at a time and before discovery forgets them, a path cached before an
  event is used after it, and `_calc_paths` is a Floyd-Warshall whose result
  depends on the order of a dictionary; still no switch that takes messages forwards over
  a link that is gone, every path is a shortest one in every order, and every
  switch on it has a session.  That is what spares `install_path` its exception:
  a switch hidden from `core.openflow.connections` is still reached, through
  `Switch.connection`.
- `PortsFaithful`, `ClosedForgotten`, `DownIsLast`, `DownFollowsLoss`: see
  `ConnectionProps`.  `HiddenByOverlapOnly` bounds the damage of unregistering
  by dpid: only an earlier session of the same switch can hide a live one.
- `OnePlace` is what the assertions of `fast_schedule` and `_select` need, and
  they would end a thread; `Exclusive` is mutual exclusion of `synchronized`;
  `EverybodyRuns` and `QuitStops` are the liveness of the wake-ups.
- `NoConflict` and `NoLeak` relate the pool, the offers, the leases and what the
  clients believe; the lapses the first allows for, each good for one further
  owner, are explained under
  [Behaviours met on the way](#behaviours-met-on-the-way); `BindingStays` and `Ends` are about timers that race answers.
- `Freshest` is why an entry never expires before its ARP-aware addresses;
  `OnlySilentLeft` is what remains of the comment at its removal ("there should be
  no IP addresses left"), which addresses seen in IP packets only break (see
  [Behaviours met on the way](#behaviours-met-on-the-way)); `AnsweringStays` and `GoneForgotten` are the purpose of the pings,
  though each is counted twice.
- `WithinTimeout`: a link is forgotten when its packet was not seen for
  `LinkTimeout`, so the lists have to come round in that time whatever jumps the
  queue.  It is said of states without a stray (`NoStray`, see the LLDP sender below).
  `EveryPortProbed`: ports stay in the lists and the timer stays on through
  every order of events; a switch whose earlier session ended after its new one
  began is the exception (`hidden`), since nothing can be sent to it.
- `ImplementsRuleSet` is the refinement: the list, the binary search and the
  in-place modification implement a set of rules in which a highest-ranked
  covering rule decides every packet.

**Bounds.**  In `balancer` each switch has at most two packet_ins (one of each
client, so that neither waits for room) and one message in flight (`MaxUp`,
`MaxDown`); a connection is FIFO, so longer queues
change which rules are late but not which orders of two switches' messages are
possible, and one path sends one message per switch.  The switches that come and
go are a client's own, and one of its path that the other client's path has too.  In `learning` `MaxDown` is
2, which the two applications together send.  The spanning tree is the one
`_calc_spanning_tree` computes when all links are known.  The trail of a packet
is a set of places, so that states stay finite even where packets circle.  Two
clients, one behind either client switch, share s2, s3 and s4 or s1; clients of
one switch do not share rules, which name the source.  A host has at most one
copy of a packet in the network: the retransmission timer outlasts a traversal
(named in `HostSends`).  `balancer` leaves the answers out, `learning` the second
client and the virtual host's answers, for size.

Two sessions of one switch are what can overlap; registry entries of different
switches are independent.  Three switches are the smallest ring, and the
smallest network with a path and a detour, four the smallest ring in which two
undiscovered links can close it.  In `path_forwarding` packets come to switch 1
for a host behind 3 (`Asked`), over one link or two; paths of other pairs are
computed from the same map and `RightPaths` looks at all of them; one cable
(`Fragile`) fails.  One switch, which the longer path leads over, restarts,
reconnects and loses sessions (`Leaving`); its sessions may overlap, up to two
(`MaxOlder`), and fail in a send (`Flaky`).  The theorems about these properties
have no such bounds.

`scheduler`: each of the hazards there takes one task and one or two threads, and
every kind of task is present; a sleeper woken by time is one expired before or
during the select (`Ways`), a readable descriptor is tried by the calls' pinger.
`dhcp`: one address makes the pool empty at once, so that both clients want the
same; five messages (`MaxSent`) let a client be served, release, return and be
served again, three let the other repeat a DISCOVER or take two offers in turn.  `host_tracker`: intervals of 0 and 1 rounds and a `PingLim`
of 2 keep the order of the real ones (an address that was seen in IP only lives
longer) and let an address be pinged twice before it is given up, as the real
limit of 3 does; ages stop past their interval.
`hash_forwarding`: `Reconnects` bounds the connections of a switch.
`probing`: one port and two are sent one at a time (the cycle of 2 divides evenly
there; in general `Interval` rounds down to whole units of time, which may be as
small as one likes, where the code divides floats), three make a broken chunk,
four a chunk of two; `MaxChanges` lets both switches connect, one again, and the
end of its earlier session come late, which is what makes a stray, while modifications
are unlimited; the two clocks of the properties stop past a link's timeout.

**Fairness.**  `FabricProps!Fairness`: a client keeps retrying (TCP), packets in
flight move on (weakly fair per origin), connections deliver, the controller
reads each socket (its select loop handles every readable socket each round),
and a lost switch reconnects (Open vSwitch does).  `ReachesServerOnceStable` assumes in
its own text that connections are lost only finitely often.  `SpanningTree`:
switches connect, an LLDP packet that can arrive arrives each cycle, a timer
fires.  `Connection`: the task's loop serves every readable socket.
`tree_startup` uses `StartupSpec`, in which no cable and no connection is lost, and
the hold-down of a switch ends when each of its links to a switch that is as old
has been seen, one way at least (`Probed`).  That is an assumption about time and not a guard of
the code: `add_port` sends a probe through every port at once (`discovery.py:127`),
the hold-down is a whole discovery cycle and a second longer, and of two neighbours
the one that connected later was heard at the other.  Nothing is assumed of the other direction, whose next
probe waits for a timer that every new port sets anew (`:130`).  In `Next`, which
`path_forwarding` and the theorems about it use, `HoldDownOver` has no such condition;
`path_forwarding` checks safety only.
`LLDPSender`: time passes and a timer that is due runs; port and switch events
have no fairness.  `Recoco`: the scheduler and the hub
are threads that go on, and another thread finishes an operation it has begun;
nothing is assumed of tasks, descriptors and times.  `DHCP`: only the total timer
is fair, so `Ends` holds even if every message is lost.  `HostTracker`: rounds go
by, and what is under way arrives or is lost.  No run uses strong fairness.

Runs without deadlock checking are those whose system stops: the
sessions of the instance are used up, the discovered tree is at rest, the
program has quit, the clients have sent all they may.

## What is proved

TLAPS checks the following, for every value of the constants allowed by the
named assumptions.  Every theorem about a run's property states that property
itself; where it has a hypothesis, the hypothesis is named here.

- **`FabricProofs`**, for all hashes, clients, ports, reconnecting switches,
  flood ports and queue bounds, with and without `l2_learning`.
  `RightServer` and `AnswersFromOwnServer` look only at accepted packets and are
  not inductive.  The invariant adds `Consistent`: every packet to the iperf
  port, wherever it is (on a wire, in an `up` or `down` queue, accepted), comes
  from a client and goes to the virtual address or to that client's server, and
  every other one comes from the virtual host or from its receiver's server
  (`GoodFrom`, by the origin of the packet); and every rule for such packets,
  installed or in flight, rewrites the destination to that server or leaves it.
  `Shape` gives the typing it needs.  Each action moves packets and rules between
  those places or makes them from one another; the only one that makes a
  rewriting rule is the balancer's handler.  The proof does not expand the
  topology: these two hold in any network.
  `PathInstalled` holds whichever switches come and go (`Late` is any set).
  `PathInv` says that a
  redirecting rule, installed or on its way, has the other hops of its path
  installed, on their way or in `lost`, and that nothing else with the same match is ever
  sent to a switch behind the clients' (`HopAlone`), so that nothing replaces them.
  What the handler orders for a switch is sent if it is connected, and only then
  leaves `lost` (`HandledSent`).
  `ShortestPath` has the hypothesis `~L2Learning`: a redirected packet that misses
  behind the client's switch is otherwise flooded along the tree, and arrives by a
  longer way (TLC finds this at once with the constants of `l2_learning`).
  `RouteInv` says that a request's trail is the part of its path up to where it
  is, and that every rule for one leads along the path (`RuleOnRoute`).  Here the
  topology is computed: `Number` gives the ports their numbers, `PortLeads` says
  where the ports of `new_lb.py` lead, `TwoLinks` that every server's switch is
  two links from every client's.
- **`SoftwareSwitchProofs`**: all the safety properties of the switch.  `TypeOK`
  (with both limits), `TableSorted` and `UniqueRules` need each other, and lemmas
  on insertion and removal in a sorted sequence, which open the module.
  `LifetimeBounded` needs to know when the last sweep was: `EInv` says that an
  entry still there had not expired at that moment (`LastSweep`, `Survived`).
  `NoSilentRemoval`, `BufferedUntilReleased` and **`ImplementsRuleSet`** rest on
  the *effect* of each operation on the set of entries (`FlowModEffect`,
  `HitEffect`, `SweepEffect`): what is in the table afterwards and what was sent.
  The refinement then maps each step of the list to the step of the set it is, or
  to a stutter, and the first match of a sorted list is a highest covering rule
  (`HitDecision`).
  `SearchCorrect` and `SearchComputesAddEntry` are about the loop of `add_entry`, for
  tables of every length, from the hypothesis `SortedTables`; `FlowTable!InsertIndex`,
  chosen as *the* position with the property, is what this loop computes.
- **`SpanningTreeProofs`**, for all networks.  `TypeOK` and `CacheFaithful`, with
  either setting of the flags, any number of reconnections, failing cables and pending timers; the
  invariant is their conjunction, split by part of the state (`Stores`, `Sessions`,
  `Live`, `FaithfulAt`).
  `NoFloodLoop` under `StartupSpec` with both flags (hypotheses
  `NoFlood /\ HoldDown`; when cables or connections are lost it is not claimed), and so
  from the assumption `Probed` about the end of a hold-down.
  First, of `_calc_spanning_tree`: a switch is put in the tree together with all its new
  neighbours, and leaves hung on one switch close no loop
  (`LeavesMakeNoLoop`), so the ports of the tree are a `Forest` throughout; and
  2n rounds empty the queue, since each takes one from it or adds only switches
  new to the tree (`Left`), so every switch of a link seen both ways is in it, and
  nobody else (`TreeOK`).  A forest is a set of edges in which no set of directed steps keeps
  itself going, which avoids speaking of cycles.  Then `StartupInv`: young switches
  and those without a link seen both ways flood nothing, each link among the others has been
  seen one way, so that its ports are no edge ports, and what these flood makes no loop.
- **`SpanningTreeProofs`, `l2_multi`**: `L2KeepsTree`, that with `l2_multi`
  listening discovery does what it did, so that the above holds of both;
  `LinksFollow`, `RightPaths` and `FlowsFollow`.  `RightPaths` is the correctness of
  `_calc_paths` for any number of switches and any order of the loop: an entry is
  never shorter than a walk there is (`Plausible`), and after the loop over k no
  longer than any walk whose inner switches have been k (`Settled`);
  `_get_raw_path` then yields a walk of the length in the entry (`RawPathOK`).
  `FlowsFollow` needs `RightPaths`, since flows are made from paths, and
  `LinksOfAttached`: a link seen both ways was probed from both ends, so both have a
  session, and flows are deleted at all whose session takes messages.
- **`ConnectionProofs`**: all the safety properties.  For `ClosedForgotten` and
  `DownIsLast` the strengthening is that a registered session is watched, established and
  of that switch (`RegistrySound`), and a session whose end was announced is neither
  watched nor registered (`DownFinal`).  It needs `Close` to unregister by dpid,
  the very thing that also removes another session.  For `HiddenByOverlapOnly` a
  session is added to the invariant as the newest of its switch while it is open
  (`Young`): whatever step of session k changes the registry, it does so for k's
  switch, and a live session it hides is newer than k (`StepHides`).
  `PortsFaithful` is about a session that has read everything; its invariant
  `View` says of any other what it will know then: the last message about a port in
  the stream, else in the deferred messages, else what it knows already, is the
  port as the switch has it (`Leads`).  `ReplaySays` carries this through the
  replay of deferred messages, of any number.
- **`RecocoProofs`**: `Exclusive` and `OnePlace`, for any number of sleepers,
  idlers, threads and operations.  `Exclusive` follows from `Handshake`, in which
  every thread inside `synchronized` holds its own outer lock and, once its inner
  lock is free, has the scheduler waiting at the outer one; it needs nothing of
  other threads.  `OnePlace` is not inductive: `Places` types the queues (the hub
  never gets an idler, what it is about to return is among its tasks) and
  `FirstTime` says that a task made by another thread is nowhere until its one
  ScheduleTask has run, which is why that may put it in the queue.  Lemmas on
  sequences in which an element occurs once (`AppendOnce`, `PrependOnce`,
  `TailOnce`) carry each move.
  `NoLostWakeup` is what `EverybodyRuns` rests on without fairness: a queue that is
  not empty has been announced, or the thread that let it grow is about to
  announce it (`Announced`); the CallLaterTask stays once it was made, and the
  SyncTask of a waiting thread until it lets the thread in (`Held`); a sleeper whose
  time has come is in the hub's queue or among its tasks (`DueFound`).  It needs
  `PInv` (each move is from one queue to another, nothing is dropped), `Handshake`
  (a SyncTask that is let go is nobody's any more) and `InHand`.
  `QuitEnds` is the safety half of `QuitStops`: after quit no other task gets a
  slice, the threads do not end without it, and a scheduler that has stopped has
  pinged the hub.
- **`DHCPProofs`**: `TypeOK`, `NoConflict`, `NoLeak` and `BindingStays`, for any
  number of clients, addresses, retries and messages.  The server's part is
  `PoolOK`: a step of the server changes what one client holds by one address, and
  the pool and the lapses change along with the number of its holders, which is
  counted with the theorems on finite sets (`HoldersStep`).
  The client's is `BindingOf`: what a client holds, or an
  acknowledgement under way to it promises, is leased to it.  No message carries a
  number its client has not used yet (`MessagesOK`), so an old answer cannot bind.
- **`HostTrackerProofs`**: `Freshest`, `OnlySilentLeft` and `AnsweringStays`, for any
  hosts, addresses, timeouts and `pingLim`.  `Freshest` is inductive and gives
  `OnlySilentLeft`.  For `AnsweringStays` the ping count of a prompt host is bounded by
  what is under way to it (`UnderWay`, `Staying`): a ping or its answer is in the
  network, or the address was refreshed since the last round.

- **`LLDPSenderProofs`**: `WithinTimeout` (`ProbedInTime`), for any ports, cycle,
  highest rate and number of events, from the hypothesis `LinkTimeout % MinInterval
  = 0`.  The code's 15 packets in a second satisfy it for any timeout of whole
  seconds; without it the division of the cycle into whole calls leaves a port out
  (TLC shows it with a cycle of 4 and an interval of 3).  `WithinTimeout` is far
  from inductive: it says nothing of how soon a port will be sent.  `Due` bounds
  that by the number of packets before it, in which, for a port of the next
  cycle, each packet of this cycle counts twice, since once sent it can be modified and
  go in front again; and `InTurn` says of every port that it is due
  within the next j calls of the timer and that these are over before the port, or
  the timer, has waited too long.  `SendsAfter` shows that a call of k packets brings
  every port k nearer, `ModifiedDue` that a port put in front puts no other off by a
  packet, since its own old place is gone, and `Ample` that two rounds fit into a
  link's timeout.  `Counted` (no more ports in the lists than the timer was set
  for) is where `NoStray` is needed.  `ProbedPortsKept` is the safety half of
  `EveryPortProbed`, without the hypothesis: the ports of a session are in the lists,
  and the timer runs, after any overlap of sessions.

The assumptions are typing (`Switches` are finitely many numbers, timeouts are
naturals, the ports `Known` are finitely many), that the value `None` is no value of the type it stands beside
(`NoneAssumption`, `DeferredAssumption`, `None \notin Switches`), and in
`SpanningTreeAssumption` that a cable joins two switches and a host's port has no
switch's name.  TLC evaluates each in a passing run.

*Recursion.*  The provers cannot instantiate the library's induction theorems, but
a recursive function over `0 .. n` can be unfolded: the set of all k up to which
such a function exists has 0 and with k also k + 1, and `UpTo` (proved by taking
the least number outside) makes that everything.  `CalcPaths`,
`CalcSpanningTree` and `Replay` are written as such functions; `RawPath` is
unfolded along the order in which its intermediate switches were entered.

**Only model-checked**:

- liveness (`ReachesServerOnceStable`, `EventuallySpans`, `DownFollowsLoss`,
  `EveryPortProbed`, `EverybodyRuns`, `QuitStops`, `Ends`, `GoneForgotten`), which is
  out of the prover's reach here;
- `NoFloodLoop` after a cable or a connection was lost: it does not hold, since
  removals are announced too early.

## What the runs found

`hash_forwarding`: `hash_lb.py` returns for every packet that is not IPv4 before
it classifies the port it came from (`hash_lb.py:24-30`), and LLDP packets are not
IPv4.  So `switch_ports` stays empty, there is never a port to forward through,
and no packet is forwarded (`:39-41`), although "Port prowadzi do switcha, jesli
odbieramy LLDP" (`:61`: a port leads to a switch if LLDP is received on it).
Discovery, when it runs, halts the event of its LLDP packets besides; and a port
is classified once, by its first packet, for the life of the connection.

### Behaviours met on the way

None of these contradicts a property above; each was seen in a model or while
writing one.

- *The balancer's paths and the learning switches.*  The redirected rule of s2
  sends a client's packet over s2-s3, but s3 connected after `install_flow`
  passed it over, and misses.  There `l2_learning` learns the client behind the
  link to s2 and floods along the tree, s3-s1-s2; s2 now sees the client's
  address come from s1 and learns that.  The server's MAC is unknown everywhere
  (before the first request only the virtual host has been asked for by ARP), so
  nothing stops the flood earlier.  The exact rules for the virtual host's next
  answer to that client then point from s2 to s1, from s1 to s3 and from s3 to
  s2: a circle.  The tree does not bind the balancer's paths, which use links
  outside it.
- *A switch of the path without connection.*  `install_flow` sends to the
  switches it finds in `core.openflow.connections` and passes over the others
  (`new_lb.py:68-76`).  The redirect of the client's switch has no timeout, so its
  retransmissions never come to the controller from there again, and their misses
  further on are ignored: a client whose path went over a switch that was away
  gets no further on that source port until its own switch reconnects and forgets
  the redirect.
  `forwarding.l2_learning`, where it is loaded, forwards such packets instead.
- *The virtual host* is an address from which traffic is redirected.  With
  `l2_learning`, which the README's launch command loads, the first packet of
  each connection goes to the virtual host itself, and so does every later one
  while the learned exact rule lives: it outranks the balancer's rule.  Without
  `l2_learning` nobody forwards the first packet of a connection or of its
  answer, which get through only by retransmission; with it the first answer of
  a server reaches the client with the server's own address.
- *Removed links.*  Discovery announces the removal of links while they are
  still in `adjacency`, so the spanning tree is recomputed with them, and not
  again.  `l2_multi` keeps a map of its own and is not misled, except where two
  switches have several cables (not modelled): its look for "another way to
  connect these" finds the cable that is going.
- *Overlapping sessions.*  Disconnecting unregisters by dpid; an old session that
  ends after its successor came up removes the successor from
  `core.openflow.connections`, so that the balancer and the spanning tree pass
  an attached switch over.  A features reply read from a session that was
  already disconnected registers it until its close.
- *A link seen one way.*  The hold-down timers of two switches end
  (`spanning_tree.py:151-153`) whatever has been discovered by then.  If a link between
  them was seen one way only, it is no edge and not in the tree: both ports are
  closed, `_prev` says so at both ends, and the event of the other way is ignored
  for that reason (`:159-164`).  Nothing opens the link until another event brings an update.
  It can happen because the first probe is sent when the neighbour may not be
  connected yet, and the timer for the next is set anew with every port that comes
  (`discovery.py:130`), while the hold-down runs on; "all of their links should have
  been discovered" (`spanning_tree.py:181-183`) is hoped, not waited for.  Without the
  hypothesis `[]~HalfSeen`, TLC finds a start of the ring in which a switch is cut off for good.
- *Overlapping rules.*  `check_for_overlapping_entry` sees containment only, so
  two rules of one priority, each wildcarding what the other fixes, are both
  accepted under `OFPFF_CHECK_OVERLAP`.
- *DHCP.*  A second REQUEST for another address than the one leased and offered
  appends the same address to the pool twice; `append` raises half-way
  (`dhcpd.py:467`) and the client gets no answer.  A refused lease is kept
  (`nak` leaves it).  Granting an offer does not forget it, and a RELEASE returns
  the address to the pool but leaves the offer (`:455`): when the client comes back
  it is offered the address without the pool being asked, and another client may
  have it by then or get it next.  The half-way REQUEST leaves such an offer too.
  These are the two lapses `NoConflict` counts: each lets one more client hold the
  address, and in the instance of `dhcp` both do end up bound to it.  In the client a NAK raises
  NameError (`dhcp_client.py:452`) and the request timeout fails an assertion
  (`:290`); `Ends` holds by the total timer alone.
- *LLDP sender.*  "send_cycle_time is the time (in seconds) that this sender will
  take to send every discovery packet" (`discovery.py:60`) is true of a timer left
  alone.  Every port or switch that comes or goes sets it anew (`:130`), for all
  ports: where that happens more often than the interval, no other port's packet
  is sent at all, and links that are well time out; hence `quiet` in
  `WithinTimeout`, which fails without it when `MaxChanges` is taken away.
  Modified ports do not set the timer but go first in the next cycle, which can
  put another port's packet off by nearly two cycles, a link's timeout; with more
  ports than `_sends_per_sec` can serve one at a time and rounding that always
  goes down, by more.  A port of a hidden switch, one whose earlier session ended
  late, is gone from the lists, but a modification puts it back (`:93`) without
  setting the timer: such a stray takes turns that the interval did not count, and
  with it another switch's port can be late.  TLC found this with a fourth event;
  `NoStray` takes these states out of `WithinTimeout`.
- *Host tracker.*  A ping is counted by `sendPing` and by its caller (`:405`), so
  an address is given up after about half of the attempts the documentation of
  `pingLim` promises (`:39`, `:134`): two for the limit of 3, one for 1.  No
  property states that number.  An address that was first seen
  in an IP packet stays `arpSilent` when it is seen in ARP.  A host's entry lives
  `arpAware` (120 s), such an address `arpSilent` (1200 s): when only they are left
  the entry expires, the check at `:409` ("there should be no IP addresses left")
  finds them and warns (`:412`), and they are dropped without a ping.  A move sets `inport`
  (`:380`), which nobody reads, and so the port in the entry stays the old one and
  pings go there; every packet after a move counts as a move.

## Not modelled

Wire formats, parsing and checksums; ARP (`_handle_arp` has no caller; the
exchange that warms the learning switches is an initial state); statistics,
port_mod on the software switch, header-rewriting actions on it, output to
`OFPP_TABLE`, actions of an unknown type (which end the list of actions), and that
it sends nothing back to a packet's own port; the thread that
finishes partial writes; SSL; multicast in
`l2_learning`, and its hold-down.  The software switch's clock is taken to be
punctual.

Of the scheduler: `Lock`, `Again`, the functions `Recv` and `Send` return,
priorities below 1, the hub without a thread, epoll.  Of `l2_multi`: barriers and
`WaitingPath`, `mac_map`, ICMP unreachable, several cables between two switches,
`topo_proactive`.  Of the host tracker: `HostEvents`, the test for edge ports,
configuration.  Of DHCP: options, the client on a switch, the spy; the network
keeps the order of a client's messages and duplicates none, and an answer that
waits across a later one to the same client is lost.

Of discovery and the spanning tree: the TLVs of a packet, several cables between
two switches, the coalesced features request, the expiry of links that are well
(probes are not lost in `SpanningTree`; what delays them is `LLDPSender`'s
matter), and a features reply of a disconnected session registering it again, which
`Connection` has.  A message sent on a session that has not failed is taken to
arrive at once.

Everything listed as `not_modelled` in `PROJECT.json`, with the reason there.

## Plan

1. `ip_loadbalancer`, with "a client keeps its server while that is live" as an
   abstract specification; its reply of a server declared down in the meantime is
   looked up where it no longer is (`ip_loadbalancer.py:254`).
2. `DeferredSender`'s thread against `Connection.send` and `disconnect`.
3. The software switch and its controller together: buffer ids reused while an
   answer is under way.

The order followed so far: the flow table and the software switch, since every
other model relies on what a table promises; the network with the balancer, the
program's purpose; the spanning tree; the sessions; the scheduler, on which all
handlers run; then the components beside the balancer that keep state of their
own: DHCP, the host tracker, path forwarding, hash forwarding; the LLDP sender.
