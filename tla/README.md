# TLA+ specifications of tailproxy

tailproxy sends each connection of a host directly, into a tailnet, or out through a Tailscale exit node or a relay,
by rules on names and addresses. These modules model the parts of it that keep state between calls, from the Go source
under `src/`; TLC checks them on small instances and TLAPS proves the main invariants for every size.

## The system

| component (source) | state it keeps | operations | what is hard |
|---|---|---|---|
| FakeIP pool (`internal/fakeip`) | per address family a ring of addresses, name <-> address maps, `fakeip.json` | `V4`, `V6`, `Lookup`, `Save`, `Load` | recycling, two savers on one temporary file, crash between write and rename, clients that cached an answer |
| Bacarra kernel (`internal/kernel/bacarra`) | routes in the host's table, `RouteManager.applied`, the record on disk | `Start`, `Reload`, `Close`, `TeardownStale`, `capture down` | kill between two system calls, failing calls, two locks, a second process |
| Egress slots (`internal/egress` `manager.go`, `slot.go`) | one tsnet node per slot, a goroutine that refreshes it, its state, the state directory, the auth key | `Manager.Start`, `Apply`, `SetAuthKey`, `Close`; `Slot.start`, `stop`, `run`, `refresh`, `setSpec` | reads under a lock used after it, stop/start races, cancelled calls |
| Relay egresses (`internal/egress/relay.go`) | token, address, probe loop with a one-slot kick channel, state | `configure`, `setToken`, `probe`, `Dial` | late results of calls begun with the old token |
| Egress groups (`manager.go`, `pick`) | none: reads the members' states | `Dial` | which member is preferred; nothing usable must fail, not go direct |
| Panel configuration (`internal/panel`, `internal/config/rewrite.go`) | the YAML file, its `.bak`, the served configuration, its revision | `GET`/`PUT` of rules and egress, `reload` | lost updates, kills in a save, configuration and egresses out of step |
| Router, tracker (`internal/proxy`) | active and recent connections | `Connect`, `Relay`, `Track` | every connection finished exactly once on every path |
| UDP inbounds (`udp.go`, `socks5_udp.go`) | flow table, a queue and three pumps per flow | `dispatch`, `setup`, `run`, `finish`, `expire` | packets for dying flows, bounded tables, shutdown |
| Transparent TCP, sniffing (`transparent.go`, `sniff`) | the bytes looked at, fragments of a QUIC hello | `handle`, `Peek`, `Add` | which name a captured address stands for; hellos in pieces, cut short, out of order, with ECH |
| DNS front end (`dnsserver`), learned addresses (`iplearn`), DoH list (`antibypass`) | learned table with expiry and generation, block list and its cache | `Answer`, `Observe`, `Lookup`, `Update` | stale names, lists and nft rules out of step |
| Capture runtime (`cmd/tailproxy/capture.go`) | applied prefixes, learned generation, `dohDirty` | the two-second loop, `apply`, `Close` | a change that comes while rules are being installed, a failed installation |
| Rule engine (`internal/rule`) | none: compiled rules | `Match`, `DomainMayRoute`, `RoutedPrefixes` | DNS, routes and connections must agree on what a rule catches |
| Service and tokens (`internal/service`, `internal/token`, `cmd/tailproxy/main.go`) | state file, token files | `start`, `run`, `stop`, `LoadOrCreate`, `Rotate` | several processes, stale state files |
| Relay server (`internal/relay`), SOCKS handshake (`socks5`) | counters | one goroutine per connection | deadlines at both ends, half-closes, answers that come late, which addresses may be reached |
| DoH at the exit (`egress/doh.go`), panel on the tailnet (`serve_tailnet.go`) | a cache of answers; a listener | `Lookup`; `serveNode` | one family failing, two lookups storing in either order; a node replaced between two looks |
| `tpctl`, SDK, browser policies, schema, panel pages | none of their own | wrap the above | - |

How they interact. `cmdRun` builds the panel, then one kernel. The **Davin** kernel owns `egress.Manager`, the router and
the capture runtime: the DNS front end answers names that may be routed from the FakeIP pool, captured connections look
the address up again, the router asks the rule engine for a target and dials it through a slot, a relay, the tailnet or
directly. The **Bacarra** kernel instead injects host routes for the prefixes the rules name. The panel rewrites the
configuration, and both kernels take it from the panel: `Manager.Apply` for egresses, `Engine.Reload` for routes, the
two-second loop for capture rules. `stop` or a signal cancels one context; `Close` of each part follows.

What makes each part correct:
*FakeIP* - an address leads to the name it was given for until the ring has gone round, over restarts too; the file is
always one whole table. *Bacarra* - routes that are believed to be installed are; nothing is left behind. *Slots* - one
node per slot, a ready slot leaves by its own exit node, stops are final, the device survives restarts. *Panel* - what is
served is valid and is what the file says; no save undoes another's. *UDP flows, tracker* - a bounded table from which every
flow goes, each connection finished once, sockets closed. *Capture and DNS* - what the installed rules catch becomes
what the current rules, names and lists ask for. *Rule engine* - a name `DomainMayRoute` denies is never matched by a
domain rule. *Relay* - the state ends up being that of the current token. *Service* - one serving instance per state
directory, and its state file is its own.

## Modules

| module | models | checked by | proved in |
|---|---|---|---|
| `FakeIPFamily` | one address family: record and pure operators of `pool.go` | through the two below | `Names_proofs` |
| `FakeIPPool` | the table under `Pool.mu`: one call, one step | `parts` | `Names_proofs` |
| `NameQueue` | what the table promises: names wait in line for their address to be given away | as a refinement, `FollowsQueue` | `Names_proofs` |
| `FakeIPStore` | the pool over restarts: answers held by clients, `Save`, `Load` | `fakeip_store`, `fakeip_two_savers` | `Names_proofs` |
| `BacarraRoutes` | the route manager, its record, daemon, reloads, `capture down` | `bacarra_routes` | `BacarraRoutes_proofs` |
| `EgressSlots` | one egress name: its slots, tsnet servers, refresh goroutines, callers | `egress_slots`, `egress_switched` | `EgressSlots_proofs` |
| `RelayEgress` | the relays of one name, its token file and variable, callers, probes, dials, a group's health check | `relay` | `RelayEgress_proofs` |
| `EgressGroups` | which member `pick` prefers, as pure operators | through `RelayEgress` | `RelayEgress_proofs` |
| `Tracker`, `Proxy` | the connections the panel shows; what the inbounds share | through `Inbounds` | `Inbounds_proofs` |
| `UDPFlows` | captured UDP: listener, flow table, flows with their sockets and pumps | through `Inbounds` | `Inbounds_proofs` |
| `SocksUDP` | one SOCKS5 UDP association: handler, flows, answers, expiry | through `Inbounds` | `Inbounds_proofs` |
| `TCPConns` | captured and SOCKS TCP connections from the handler to the end of `Relay` | through `Inbounds` | `Inbounds_proofs` |
| `Inbounds` | the three above with one tracker and one context | `inbounds` | `Inbounds_proofs` |
| `RuleEngine` | the questions asked of a rule set, as pure operators | through `Capture` | `Capture_proofs` |
| `Capture` | what nftables divert, and the rules, learned addresses and block lists it follows | `capture`, `capture_closed` | `Capture_proofs` |
| `PanelConfig` | file, backup, served configuration, applied egresses, sessions | `panel_config`, `panel_stale` | `PanelConfig_proofs` |
| `ServiceInstance` | the processes of `start`, `run`, `stop`, `token --rotate` and the files they share | `parts` | `Parts_proofs` |
| `Links` | TCP connections: half-closes, resets, loss | through `RelayPath` | `Parts_proofs` |
| `RelayPath` | one connection from an application through the daemon and a relay to its destination | `parts` | `Parts_proofs` |
| `Sniff`, `QUICHello` | the name in the first bytes of a TCP stream, in the first datagrams of a QUIC client | `parts` | `Names_proofs` |
| `DNSQueries` | the DNS front end: listeners, queries over UDP and TCP, upstreams | `parts` | `Names_proofs` |
| `DoHCache` | lookups of a name at an exit node and their cache | `parts` | `Names_proofs` |
| `TailnetListener` | the panel's listener on a node that comes, goes and is replaced | `parts` | - |

`MC*` modules give the constants their values. Definitions keep the names of the Go functions they model where one
function is one action; where a function lets a lock go, or makes a system call another goroutine can come before, it is
split there and the actions carry the function's name (`StopCancel`, `StopClear`, `StopClose` are `Slot.stop`).

**Circumstances.** `BacarraRoutes`, `EgressSlots`, `RelayEgress`, `PanelConfig`, `Inbounds`, `Capture`, `ServiceInstance` and `FakeIPStore` have a variable `env`, chosen once in
`Init` from the constant `Envs`: which calls may fail, which threads take part, whether the process may be killed. The modules about the wire have a variable for the whole scenario of one connection, stream,
client or zone, chosen from a constant in the same way. Each run
lists the combinations it explores, and a property that holds only without some failure names it in its antecedent
(`Orderly`, `OneSaver`, `KilledLate`, ...), so what a promise depends on can be read off the property. The theorems hold for
every `Envs` of the declared type.

**Faulty variants.** Definitions marked "Faulty variant" are not used by any specification. Put in the place of the
definition they vary (`PROJECT.json`, "mutants") they break the property named beside them: that is how we know each
property can fail.

### FakeIPFamily, FakeIPPool, FakeIPStore

Addresses are offsets from the prefix; the big-integer and `netip` arithmetic of `addr` and `offset` is counting.
`FakeIPPool` keeps two history variables, `given` (allocations so far) and `born` (when each offset was given), to say
that an address changes hands exactly `Size` allocations later. `FakeIPStore` models the file system by inodes, since a
saver goes on writing to the inode it opened after another saver has renamed it; `ver` stands for the table's age.
A client's answer carries the allocation number until which it must keep working. Configuration changes of the prefixes
between runs, crashes, failed writes and DNS connections that outlive `Close` are circumstances.

`NameQueue` is what the table is for, without cursor or offsets: the names that have an address wait in line, and a new name takes the
place of the one that has waited longest. `line` is the refinement mapping: the names in use, read from the oldest address on
(`Place`), the cursor being the oldest once the ring is full.

### BacarraRoutes

`host` is the kernel's routing table restricted to our routes, `applied` the route manager's belief, `file` the record. Every
`AddRoute`, `DelRoute`, write, rename and removal of the record is a step, with a failing outcome where the call can fail (`RemoveRouteState` leaves the record, and its callers go on). `emu` and `rmu`
are `Engine.mu` and `RouteManager.mu`; `Engine.Reload` takes its prefixes under the first and applies them under the second
only. `TeardownStale` is run by the next start and, without any lock, by `capture down` of another process. Left out: other
people's routes, which the code neither records nor deletes, and the details of the adapter.

### EgressSlots

One egress name. `slots` has every `Slot` ever made for it (a removed one may still be running), `servers` every
`tsnet.Server` with the goroutine `Slot.run` serving it, `thr` the callers. A step is one critical section of `Slot.mu` or
`Manager.mu`, or one call of tsnet. `RefreshStatus` ... `RefreshPending` are the sections of `refresh` in order. The
backend of a server is off, on, waiting for a login, or closed; tsnet's own intermediate states and "needs machine
authorisation" count as waiting. A server works (`Works`) while its goroutine runs or tsnet has it open, and is `Closing` once a caller of `stop` has taken
it out of its slot and not yet closed it. `crossed` is a history variable: a slot was started while somebody still waited in `stop` for its former
server. The code allows it (two auth keys saved at once, the finding on `slot.go:162`), and nothing is promised of that slot afterwards. Saving the key and
removing the directory may fail. Left out: the device list, the health checks of slots, `ClearAuthKey`, DoH URLs, and the ways in
which the main slot differs.

### RelayEgress, EgressGroups

The relays made for one egress name: `Apply` replaces one when the type of the egress changes and configures it when it stays. `relays` has each
with its token, state, probe loop and the one place of its `kick` channel; `file` is the token file and `env.variable` the
environment; `thr` are `Apply`, `SetRelayToken` and what they wait for, `conn` the dials and the health check. `accepts` says
which token the relay at each address takes, or that none is there, and changes while calls are out. The token file may hold what is no token (`BadToken`), or fail to be read
(`loadToken` answers an error, with an empty token), to be written (`SaveToken` ends there, and the old token stays in file and memory) or to be removed (`Forget` goes on, and
the token stays for a relay added again). `Close` takes the relays there are before it waits for the loop of health checks (`Drain`). A
probe or dial carries the token it began with (`asks`, `tok`) and records its result a step later (`Report`, `ReportConn`), whatever has changed in between. The group has one
relay as its member; `PickIsBest` is about three members of any state. What a group promises (`Best`) is stated apart from how
`pick` finds it (`Preferred`).

### PanelConfig

A configuration is the set of egresses it defines and the set its rules name; a file may also be unreadable as one.
The revision of a file is a hash of it, so a revision is the content it names. `Rewrite` replaces one section
and keeps the other, which is what the line-based rewriting of `rewrite.go` is for; its handling of YAML is not modelled.
Sessions hold a form (`shown`, `rev`) between requests; handlers run under `writeMu` from `Lock` to `Unlock`, except
`ApplyEgress`, which the code does after letting it go. Left out: authentication, status pages and events.

### Tracker, UDPFlows, SocksUDP, TCPConns, Inbounds

`Proxy` holds what the inbounds share: the tracker, the context, and a budget of failing calls. Each inbound is a module of its own
and `Inbounds` interleaves them: they meet in the tracker and end with the context. `flows` and `sflows` have
every flow ever made, `table` and `stable` the Go maps. A flow's `pc` is where its goroutine is, `pumps` the pump
goroutines that run, `c` the connection the goroutine has yet to finish. Packets are numbered in the order the listener returned them;
what the kernel delivers straight to a reply socket shows only in `idle`. `fin` is the `sync.Once` of a SOCKS flow,
split where the code closes the socket, so that the other callers of `finish` can be seen waiting. Times are abstracted: `idle` and `old` say
that the timeout has passed since `last`. What a destination turns out to be (a name, a lost FakeIP, a blocked name,
an address to be sniffed) and whether its target can be dialed are choices. A packet that a pump has received
but not written when the sockets close is left in the queue instead, which nothing can tell apart: neither is ever written.

### RuleEngine, Capture

`RuleEngine` is `internal/rule` without strings: a condition is the set of names that match it, a prefix the set of its
addresses, and the order of `RoutedPrefixes` is abstracted (a reordering makes the loop install the same rules once more).
`Capture` has the goroutines around it. `table` and `routing` are the kernel's nft table and policy routing; `loop` and `job`
are `Serve`'s loop and the locals of `apply`, which reads the rules twice, the learned addresses once, and changes the kernel in two
calls; `applied`, `appliedGen` and `ticks` are what it notes. `learned` and `gen` are `iplearn.Table`: an entry loses `fresh`
when its lifetime ends and is removed by the next sweep. `asking` are DNS queries that are with the upstream, `hosts` what is
left of a round of `preResolve`, `fetch` where `refreshDoH` is. `judged`, a history variable, is the rule set by which
`apply` last chose addresses. After a crash or an end, `capture down` or the next start cleans up.

Abstracted: an answer of several addresses is as many queries; a list of DoH resolvers is a set of names, which stands for
their addresses; times are choices, but for the ten seconds between two changes for learned addresses, which are ticks. `edits`, `news`,
`failures` and `starts` bound a run, the theorems hold without bounds. Left out: TUN mode, the scope `all` (it captures
everything), `exclude_cidr`, port 853, text of rules and of DNS messages. A `tailproxy capture down` beside a running daemon is
in `BacarraRoutes` only.

### ServiceInstance

No lock is held between processes: `ReadState`, `CleanRead` and `CleanRemove` (`Running`), `ReadToken`, `CreateToken`, `WriteToken`, and `WriteState` are steps of their own.
A daemon (`Daemon`) looks for another, gets its token, then `Listen`, `Setup`, `WriteState`, `Report`, `StartKernel` and, ended by a signal or an error, the deferred calls from the last
to the first: `Cleanup`, `Forget`, `Close`, `Exit`. `start` waits for the report in a pipe, for the death of its daemon, or for its time to pass (`Read`, `Timeout`); `stop` sends the signal, looks at the
state file, and gives up in time (`Terminate`, `GiveUp`). A daemon whose report cannot be written has closed the pipe and ends; its `start` waits a second for that (`Read`) and kills it otherwise (`Timeout`). `rules` is who last installed capture rules and routes. A kill can come anywhere, and files of the past
may be there at the beginning. Left out: systemd, Windows, the `status` command, pids given again to strangers.

### RelayPath, Links

A path is a scenario: where it starts (`at` the daemon's SOCKS port, or straight at the relay, with whatever a client may write), what the
client sends, what the rules answer, what the name resolves to, how each address and the relay behave. `link` has the
four parties' three connections, whose messages are whole units of the SOCKS protocol; `stage` is where each handler is. `Links` gives the
connections their life: closing with something unread resets, a lost connection drops what is on its way. Deadlines pass only
where the code sets one (`Expire`). `seen` is what the daemon notes about the relay.

### Sniff, QUICHello

A stream is cut into cells: what the code reads in one go, or in two where a head cut there means something else (a `Host` line in two
halves). `Peek` reads what has arrived until the head is whole, the buffer full, the stream ended or the deadline passed.
`QUICHello` has datagrams of packets of `CRYPTO` pieces: any order, any number of times, packets of other types and with other keys among them.
Decryption is whether the keys belong to the connection identifier.

### DNSQueries, DoHCache, TailnetListener

`DNSQueries` has `Listen` with its attempts at a pair of ports, a goroutine for each datagram, one for the TCP connection, and `forward`
to each upstream in turn over UDP, with TCP after a truncated answer. A name is the lists it is on. In `DoHCache` time is counted in units of
ten seconds, the most a lookup can take; `held` records what the zone said when. `TailnetListener` is `serveNode`'s loop.

## Runs

| run | question | instance and bounds |
|---|---|---|
| `fakeip_store` | do files and tables survive crashes, full disks, restarts? | 3 names for 2 addresses, 3 inodes (a temporary file, the file, one being replaced), 3 allocations (`MaxVersion`), 2 answers held at once |
| `fakeip_two_savers` | is `Save` safe for concurrent use? | the same, ticker and `Close` both saving; violated |
| `bacarra_routes` | does a process that ends leave nothing, does the next start heal a kill, do calls return? | 2 prefixes (one added while another is deleted), 2 reloaders, 1 operator, a record that cannot be written, read or removed |
| `egress_slots` | does a server that works belong to its slot or to a stop about to close it, one at a time in its directory; final stops, eventual readiness on the exit last configured | 2 exit nodes, 2 `Apply` calls, 2 `SetAuthKey` calls, so up to 5 servers |
| `egress_switched` | is a ready slot always on its exit node, switches included? | one `Apply` that switches; violated |
| `relay` | does a relay's state come to tell the truth, is the saved token in use, do calls return, does the group take a member back? | 2 tokens and one that is refused, a token file that cannot be written, read or removed, 2 addresses (loopback and tailnet), up to 3 `Apply` or token requests, 1 dial at a time, up to 2 changes outside |
| `inbounds` | connections finished once, packets in order, every flow ends | 3 clients' destinations and a table of 2 (full with the third), queues of 2, up to 3 packets or datagrams, an association of 1 flow, a ring of 2 recent connections, 1 or 2 failing calls |
| `capture` | do capture, DNS and matcher agree while everything changes? | 2 names, 2 addresses, 2 ports, 4 rule sets, 2 lists; up to 2 edits, 2 changes of the learned table (`news`), 2 failing calls, 1 restart; 1 tick for ten seconds (`ApplyEvery`) |
| `capture_closed` | does `Close` leave nothing behind? | the daemon is stopped while the rules change; violated |
| `panel_config` | no lost edit; egresses that run are the configured ones | 2 sessions, one egress name (defined or not, used by rules or not) |
| `panel_stale` | does a save ever overwrite a change made since editing began? | 2 sessions, 2 names, egress forms only; violated |
| `parts` | what eight components that share no state promise, each in its own scenarios | see below |

`MCParts` puts `ServiceInstance`, `FakeIPPool`, `RelayPath`, `Sniff`, `QUICHello`, `DNSQueries`, `DoHCache` and `TailnetListener` side by side. They have no
variable in common, so nothing is composed: `Init` chooses one of them and one of its scenarios, and the others are given the empty scenario and never
move. Each property is about one of them and says nothing while another has its turn. The instances: 2 starts, 1 run and 2 stops, of which up to four take part, with a kill or a failure; 5 names for 4 addresses and `MaxGiven` = 9 allocations, more
than twice round the ring; 28 paths, of up to three addresses; 14 streams, shorter and longer than the buffer (`MaxPeek` = 10 cells) and the HTTP limit; 3 QUIC
clients with five datagrams each, of which `MaxPackets` = 4 are read; up to 3 queries and 3 upstreams; 2 lookups while the zone changes; up to 3 nodes.

The bounds suffice for the interleavings in question: each property relates at most two actors of a kind to one piece of shared state
(two savers and a file, two callers and a slot, two sessions and a file, two starts and a state file), two data values tell "mine" from "another's", and
the rings wrap within the bound. Reachability of the interesting states is shown by the mutants and by the coverage of every action.

The violated runs are disagreements between code and documentation, described in `PROJECT.json` ("findings"): `Pool` is
said to be safe for concurrent use, but two savers may leave a torn table; `Close` removes the capture rules, but the loop it does not wait for may install
them again before the process is gone; a switch of the exit node can be answered by "ready" for the old one; an egress
form can carry the revision of a newer file.

The other findings have no run of their own. Most were met as a counterexample to a stronger form of a property, which now names
the case in its antecedent (`KilledLate`, `env.serial`, `front.slow`, `OneLength`, ...); of the rest, a step of a model would show no more than
the lines quoted. Among them: a kill between adding a route and writing the record leaves a route nobody removes; rules saved in the panel do not
reach a Bacarra kernel; an edit of names alone does not make the loop judge the learned addresses again (`judged`); `configure` may put an old relay
token back; two auth keys saved at once leave a tsnet server that no slot names; a relay is blamed for a slow destination; the state file goes before the rules do; a token file may stay empty after a kill.

Deadlock checking is off where the system may stop: a pool with a bound on allocations, a process that has ended, requests that
have all been sent, a connection that is over.

**Fairness.** `WF` on the steps of goroutines and handlers: Go schedules runnable goroutines and system calls return. `SF` on taking a
`sync.Mutex` (`Lock`, `CloseLock`): its starvation mode hands the lock to a goroutine that has waited for a
millisecond. No request, login, failure, kill, edit or signal is ever assumed to come; a UDP pump is made to return only
once its socket is closed; of `Capture` only the loop is fair: its ticker never stops and the calls it makes return, while failing
installations are bounded by `failures` and may come at any time; `EgressSlots` assumes that
`Start` follows `New` and that `Close` follows the signal, which is the straight line of `cmdRun`, and so does `RelayEgress`, where health checks and probes are
timers and every dial ends by its deadline. In `parts`, handlers and copy loops run, and a deadline that is set passes if nothing else happens; both ends of a
`RelayPath` read what they are sent and finish what they began, since `DataArrives` is about what is under way and not about a peer that stops for ever.
`TailnetListener` assumes that a node that is coming up comes up. `panel_config` and the rest of `parts` are safety only.

## Proofs

Assumptions are those named in the modules: sizes positive, special values distinct from members, `Envs` of its type.

* `Names_proofs`, the table: first the operators of `FakeIPFamily`: `allocate` and `get` preserve the type, `Bijective` and `FilledInOrder`; where the cursor
  stands after one step (`%` is dealt with in two small lemmas). Then `IInv`, which is inductive. `TablesAgree` alone is not enough for the recycling property: it needs
  `FilledInOrder`, which says that addresses below the cursor are in use, and `Ring`, which ties each address's age to its distance from the cursor.
  From it, `AnswerRoundTrip`, `NoEvictionWhileFree` and `KeepsAddressForSize` follow. `PoolFollowsQueue` is the refinement: a call for a name with an address
  stutters; while addresses are free `line` grows by one (the cursor has not gone round, `FilledInOrder`); when none is, its head, which is the name
  at the cursor, leaves and every other place moves up by one.
* `Names_proofs`, the table and its file (`FakeIPStore`): `StoreInv` has the types; that every table there is, in memory, in a snapshot and in each inode, agrees with itself
  (`TablesAgreeEverywhere`, with any number of savers: `Save` copies under the mutex, and `Load` refuses what is torn); for one saver, where it is and what it holds (`LoneSaver`: the file has the
  newest table that was reported written, the temporary file is never the one at the path, and what is about to be renamed is whole); and for clean restarts, that every answer a client
  still holds is in the table, in memory or in the file the next process loads (`Clean`). `FileWhole`, `NoTableRegression` and `AnswersKeepWorking` follow; the first needs one saver, as the finding says.
* `Names_proofs`, TCP: `SniffInv` says what has been looked at at each step of `Peek`, in particular that the lines of a request that are about to be parsed are all that is buffered or as many as are ever looked at, and what
  the host of a result may be (`TrueHost`). `HelloHost` and `RequestHost` are about the parsers, given any prefix of a stream: a whole head gives its name, a part gives that name, the one cut short, or none. What "its name" means is in
  `SniffAssumption`, which relates the annotations of a scenario to its cells (`HelloNames`: a hello has one server_name, for show if it has an ech; `RequestNames`: the first Host line before the blank one); TLC evaluates it for
  the streams of `parts`. A hello with several server_names, which RFC 6066 forbids, and a head beyond the limits have no name to be held to. The outer name of a hello cut before its ech is the finding, and is left out of `NameIsTrue` by name (`outer`).
* `Names_proofs`, QUIC: `HelloInv` says that the fragments held begin where all those heard do, though only the first at an offset is kept. `PutTogether` is about the loop of `clientHello`: in whatever order the
  fragments are put together, it stops where no fragment goes on, so that it reads the whole stream if, and only if, every cell has come.
* `Names_proofs`, DNS: `AnswerInv` says that an upstream is asked only after all before it had no reply (`AsksInTurn`), that queries of a connection are handled one at a time and in order (`ConnInv`), what each stage of a query
  holds (`QueryInv`) and that what was sent stays right (`GivenInv`), though the server may be cancelled and more be learned meanwhile. `LeastTTL` is the loop of `answerAddrs`, for records whose TTL is not 0 (the finding).
* `Names_proofs`, DoH: `ResolveInv` says of each answer in hand since when the name has held it (`AskingTrue`, `ReturnedTrue`), and of the entry that it ends at most `MaxTTL` after it was stored and is no older than one
  unit more (`EntryTrue`); an entry is stored only with both families, so a family it says nothing of had none.
* `BacarraRoutes_proofs`: type correctness, and two inductive invariants. `ExitInv` (for a process that ends by itself) says that
  nothing is in the host that is not tracked, where the main thread can be and what it still has to remove; `HealInv` (for a
  process killed outside Apply) that the record names every route there is and is given up when none is left. Without them
  `CleanExit` and `SelfHeal` say nothing of the states in between. Threads that take no part stay idle (`AbsentAlways`), so only the main thread counts.
* `PanelConfig_proofs`: `PanelInvariant` has three parts beside the type: who is inside `writeMu` (`HolderMoves`), what the
  holder knows (`HolderSaving`: what it read is still the file, what it will write is valid), and that without a holder
  memory is the file. `ConfigValid`, `MemoryIsDisk`, `NoLostEdit` follow. `EgressFollowsConfig` is about requests that come one at a time: then one session
  at most is inside a handler (`Turns`), and what it will apply is what has been configured (`Forms`, `Follows`).
* `EgressSlots_proofs`: `IInv` says that what is marked as started has been: a goroutine about to set `started` holds a server
  that is up, the flag of a slot and a caller about to close both point at such a server. `CloseOnlyStarted` alone is not
  inductive: the caller read the flag steps before. `KeepsDevice` needs `Waiters` and `Removing` too: while requests take turns,
  only the removal of a name passes by its directory, and until it is over the name has no slot. `OneServer` and `StopsAreFinal` rest on `OInv`, whose parts need
  more and more: where each caller and server is (`Held`, `Placed`, `Fresh`), whatever callers do; as long as nothing has crossed, a caller that waits in `stop` waits for the server its slot has, or finds none,
  and a server that works is its slot's or is being closed (`Met`, `Accounted`); with `Orderly`, nothing crosses, because before the signal no two callers stop one slot (`Waits`), and a
  slot that has lost its name is empty or being emptied (`Left`); and while requests take turns too, whoever removes a slot is done with it before the name has another, so one server works at most (`Alone`).
* `RelayEgress_proofs`: the type says that every index a caller, a connection or the group keeps leads to a relay that was made. `IInv` has what `RemovedAreStopped`
  and `SavedTokenIsUsed` leave out while somebody is on the way: a loop that runs has an owner or someone who waits for it (`LiveOwned`, so a `stop` that finds no
  owner may return at once), a removed relay never comes back (`GoneIsGone`), and who will stop it is still to come (`Waited`); memory and file differ only between the
  two halves of one call, or where a read has failed, and then the relay has no token (`TokenOK`), and while requests take turns what a call has read stays true (`RequestOK`). Steps of loops and connections are one case (`Calm`).
  `PickKeepsPromise` is about `EgressGroups` alone, and for groups of any size: whatever the loop of `pick` has chosen among the first n members keeps the promise of the group for these (`Promised`).
* `Parts_proofs`, the daemons: type correctness, and `TokenAgreed`: two daemons that have read or made the token in the file have the same one, if nothing rotates or removes it.
  The invariant adds that only one daemon can be between creating the file and writing it (`OneWriter`), and that a file somebody has read is neither absent nor empty (`Agreed`).
  `StartTellsTruth` needs what a start knows at each of its steps (`StarterOK`): whom it will kill and whether the report it has is still true. `ServingHasRules` is about a fixed port and commands in
  turns; then `Turns` says who may be under way at once: at most one daemon has the port, one that was told to stop keeps the others from starting, and the rules are those of the daemon that has the port or nobody's.
  `StateNamesServer` needs in addition that nobody is killed (by hand, by a start that lost patience, or by a signal before it listens or while it ends): a state file left behind names a dead process, which the next stop
  removes, beside a daemon that may already be writing its own. `Named` adds that nobody is at that removal, and that the file names none but a daemon that is serving or about to end.
* `Parts_proofs`, the relay: `RelayInv` says what each connection may carry (`LinksOK`): until the relay has answered, only the application's script or the daemon's own messages go to the relay, and
  nothing that looks like a success comes back before the relay sends it; and where each end is (`Control`): copying begins only after the answer, a relay that has read a request has seen the
  credentials, and it has dialed only addresses that `dial` kept. Without the first part a handler could read a request that nobody made. The loop over the addresses is a recursive function; that it exists, and what it keeps, is shown by a least counterexample.
* `Parts_proofs`, the answer: `AnswersTrue` needs to follow one reply through both connections and both handshakes. `AnswersInv` adds three parts to `RelayInv`. `Outcome` is what the relay has said and what it has
  to show for it: success only with a connection to the destination, and a deadline passes only where something is slow or lost. `Lockstep` says that daemon and relay are one message apart: for each place
  of the client's handshake, where the relay can be, what is on its way each way, and that behind the one reply comes nothing but data. Its hardest clause is that a refusal cannot be lost while nothing is slow or cut:
  the daemon has not closed, and the relay has read all it was sent, so nobody may reset the connection. `OneTruth` is the property itself, said of everything the application has read or has on its way (`Heading`): at most one reply, a true one,
  none before the handler has answered, and every piece of data behind a success. Each step of the model has a lemma; those that do not touch a part share one (`OutcomeKept`, `LockstepKept`, `TruthKept`).
* `Inbounds_proofs`: `ConnsAddUp` and `InOrder`, for any number of flows, packets and destinations. The tracker adds up if only active connections are finished (`FinishKeeps`; the
  ring of recent ones is a lemma about `Newest`), so `IInv` says at which `pc` a goroutine has a connection: a captured flow from `Router.connect` to the end of its
  pumps (`Carries`), a handler from the dial to the end of `Relay`, a SOCKS flow while its socket is open, or while the handler dials for it (`Holds`, which also says that who is inside
  `once.Do` finds the socket open, and that a closed socket means `finish` is over). `OwnerStep` is the argument all steps share: each goroutine takes a new connection, finishes the one it has, or leaves the tracker alone.
  `InOrder` needs `Order`: a flow that has not ended is the one its key has in the table, its pumps start after its pending packets, and nothing in its line is later
  than the last packet queued (`LastQueued`: the one `dispatch` has in hand is not in line yet). Lemmas about sequences (`LineMoves`, `LineGrows`, ...) do the rest.
* `Capture_proofs`: `MayRouteSound` is about `RuleEngine` alone: whatever accepted rules are, a name that `DomainMayRoute` denies goes
  direct on every port. It needs `Accepted`: a final rule in the middle would end one scan and not the other. `RoutedIsCaptured` says
  nothing while `apply` works, so the invariant adds `TableIsApplied` (the kernel has what was noted, and if the generation is
  still the same, every entry the rules route is in it) and `JobIsComplete` (the same of the addresses `apply` holds).
  Both rest on one fact: the table of names may shrink without a new generation, but never gains or renames an entry.
  For `ListsInForce`, `ListsFollow` names who has the new lists still before it: `refreshDoH`, the loop that will see the flag, or `apply`, which holds them.

Some of what is proved is not among the runs' properties (`ConfigValid`, `MemoryIsDisk`, `NoEvictionWhileFree`, `CloseOnlyStarted`, `KeepsDevice`, `ForwardOnlyDirect`, the
type invariants): the theorem covers every instance a run could.

Recursive functions (`pick`, `usableIn`, `answerTTL`, the loops over addresses) are handled without an induction schema: a statement about every n that fails has a least n at which it does, and the step before
leads there (`Least`, `Unfolds`, from `WFMin`). What the library's induction theorems would give in one line takes a page this way, but it is the same argument.

Only model-checked: every liveness property (`CallsReturn`, `EventuallyPinned`, `KeyReachesWaiting`, `FlowsEnd`, `LoopFollows`, `StateFollows`, `HealthRecovers`,
`DataArrives`, `PathEnds`, `AllReplayed`, `AllAnswered`, `PanelFollowsNode`), which is outside what the prover does. Every safety invariant of a passing run is stated by a theorem.

## Plan

What is left, in this order:

1. `EgressSlots`: the main slot, `ClearAuthKey`, health checks of slots; groups whose members are of both kinds.
2. Configuration: which documents `Validate` accepts, beyond egresses and the rules that name them.

## Not modelled

The user-space stack, transparent sockets, netlink and the registry (`tunstack`, `capture/udp_linux.go`, `discovery*.go`, `browserpolicy`): system calls and third-party
code, where the daemon keeps no state of its own. The pages, cookies and JSON views of the panel, `tpctl` and the `relay` command's flags: they send requests or print what the modules have. The
SDK and the mobile binding: they wrap the egress manager and the router, and leave the order of calls to their user. systemd units and Windows services (`service_*.go`, `spawn_windows.go`): the
service manager's behaviour, not this code's. Parsing of YAML, DNS messages, TLS and QUIC bytes is modelled by what it yields; that the bytes are read correctly is for unit tests.

Each hazard in `PROJECT.json` names the properties that would catch it, or the reason why none can: some are races the code does not exclude (a
stop beside two starts, an editor beside a save), which the properties exclude by name.
