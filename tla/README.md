# mac-gate: TLA+ models and proofs

mac-gate is a daemon for macOS. It routes the domains and subnets of its lists into
AmneziaWG tunnels and lets everything else go direct. This directory holds TLA+ models
of its core logic, the TLC configurations that check them on small instances, and
proofs checked by TLAPS for every instance. Sources are named relative to the
repository (`src/resolver.rs` and so on).

- [The system](#the-system-an-inventory): its parts, their state, what is hard
- [Modules](#modules): what models what, and how it corresponds to the code
- [Runs](#runs): what is checked, with which bounds
- [Findings](#findings): where the code disagrees with what it says of itself
- [Proofs](#proofs): what is proved, from what, along which argument
- [Limits](#what-is-only-checked-and-what-is-not-modelled) and [plan](#plan)

## The system: an inventory

One process, one thread (a tokio current-thread runtime): between two awaits a task
runs alone, so a data race cannot happen and every hard behaviour comes from an
await, an external command, or the kernel. The tasks are one per DNS query, one per
tunnel ("link"), the watch, the network tracker, and short ones that fetch lists or ask
for the country.

| component | state | operations | talks to |
|---|---|---|---|
| resolver (`resolver.rs`) | the core: rules, links as published, hosts, subnets, owner, use_fakeip, stopped; pf_stale, pf_shape | handle/listed, route_host, reconcile, expire, remove_all, sync_pf, set_* | the kernel's routes, pf, everybody below |
| kill switch (`pf.rs`) | the lock of pf; in the kernel, the anchor's ruleset and its tables | enable, load, add, delete, held_hosts, release | pfctl |
| routes (`route.rs`) | none of its own; the kernel's routing table | add, set, delete | the routing socket |
| link (`link.rs`, `degraded.rs`) | its tunnel, generation, health, works, attempts, patience | step, connect, check, degraded, down | the resolver, amneziawg-go, probes |
| watch (`daemon.rs`) | network, country, timers, what the links are told | step, stop | everything |
| tracker (`daemon.rs`, `net.rs`) | the network as it is now | track_network | the resolver, watch, links |
| lists and sources (`lists.rs`, `sources.rs`) | copies on disk, due times, file stamps | poll, follow_files, take_in, build | the watch |
| country (`geo.rs`) | the last answer | ask, majority | the watch |
| system DNS (`sysdns.rs`) | the saved servers | take_over, give_back | networksetup |
| saved hosts (`state.rs`) | the file | load, save | the watch |
| install (`install.rs`), commands (`main.rs`), configuration (`config.rs`) | files | once | the owner |

How they interact. A query task locks the core, chooses a rule, lets go, asks upstream
through the tunnel of that rule, locks the core again to route the addresses, and then
waits for `pf.add` under the lock of pf before the answer goes out. A link publishes
its state (`Link::sync`), which locks the core, reconciles every rule, host and subnet
with it, and then brings pf in line (`sync_pf`). The watch does the same once a second
for the owner's switch, the country and the lists, and sweeps hosts whose window is
over. The tracker runs beside both and resets what depends on the network.

What is hard, and what would make each component correct:

| component | hard behaviour | correct when |
|---|---|---|
| kill switch | commands queue behind each other while the core changes; a load takes its tables late; pfctl fails having gone through | what the resolver hands out is held back by pf, before it is handed out; nothing else is; a failure is not forgotten |
| tunnel of a rule | links change one by one, each followed by a pick | no rule stays on a dead tunnel next to one that carries, and none flaps between two that carry |
| routes | a mark (link, generation) stands for a route over exits, reconnects and failing calls; hosts and subnets share the kernel's table | hosts and subnets are where the rules and tunnels say, no route is left that nobody knows, servers are reached directly |
| link | failures, wakes and new networks in any order; patience that grows | it tries again, not too often; names held back after a wake are let go |
| watch, tracker, country | answers that belong to a network the Mac has left | what depends on the network is that of the network it is on |
| saved hosts, start and stop | a crash between an answer and a save; links that outlive the stop | after a restart the hosts of before are held and routed for their rule; after a stop nothing is |
| system DNS | a crash between saving and setting | the owner gets back what they had |
| sources | due times set by a fetch and by its result; files read while written | every source is asked again; a half-written file is not taken in |

PROJECT.json lists the components with what is modelled of each, and the hazards at the
lines where they bite.

## Modules

| module | what it models |
|---|---|
| `KillSwitch` | queries, links and the watch over the lock of pf: `listed`, `route_host`, `expire`, `tables`, `shape`, `sync_pf`; `Pf::load`, `add`, `delete` |
| `HostTable` | what the kill switch promises of its tables, as an abstract specification that `KillSwitch` implements |
| `Picks` | `pick`: the tunnel of a rule, as an operator |
| `Routing` | `reconcile` (`pick_tunnels`, `place_hosts`, `place_subnets`), `route_host`, `expire`, `remove_all` over the kernel's routes, with the steps of `Link::connect`. Extends `Picks` |
| `Degradation` | `degraded.rs`: the patience with a tunnel whose peer answers and which carries nothing |
| `Link` | the task of a tunnel, `link.rs`, from await to await. Instantiates `Degradation` |
| `LinkPromise` | what a link promises the resolver, as an abstract specification that `Link` implements |
| `Watch` | the network tracker, the detection of fake addresses, the country: `daemon.rs`, `net.rs`, `geo.rs` |
| `SysDns` | `sysdns.rs`: the DNS of the Mac taken over and given back |
| `Lifecycle` | start, crash, restart, stop and sweep: `daemon.rs`, `state.rs`, `enable`, `held_hosts` and `release` of `pf.rs`, `on` and `off` of `install.rs`. Extends `SysDns` |
| `Sources` | files and a URL, their copies, and what is built of them: `sources.rs`, `follow_sources` of `daemon.rs` |
| `MCKillSwitch`, `MCRouting`, `MCLink`, `MCWatch`, `MCLifecycle`, `MCSources` | the instances TLC checks |
| `KillSwitchProofs`, `PicksProofs`, `RoutingProofs`, `RoutePlaceProofs`, `LinkProofs`, `WatchProofs`, `LifecycleProofs`, `SourcesProofs` | theorems and their proofs |

`KillSwitch` and `Routing` cut the resolver along its two outputs. `KillSwitch` keeps the
awaits of a query and of `sync_pf`, and takes what a tunnel is worth as an input;
`Routing` has the links, the picks and the kernel's routes, and takes each locked
section as a step, since nothing in it awaits. The host table is in both.

The others stand around these two. `Link` says which states a link publishes and in
which order; `Routing` allows more of them (`Check` publishes any health, and a tunnel that
is down may be replaced), so what it shows holds for those links. `Watch` and `Sources`
end where the rules in force and the lists change, which `Routing` takes as `Tick` and
`NewLists`. `Lifecycle` has what outlives the process, and takes an answer, a sweep and a
load of pf as one step each: their steps are those of `KillSwitch`.

### KillSwitch

A step is what a task does from one await to the next. `pc` says where each task
stands, `queue` is the tokio mutex `Pf::lock` (fair: first come, first served), `job`
the command a task is going to run under it, `syncing` and `taken` the mutex `pf_shape`
and the shape its holder took, `snap` the tables that `Pf::load` takes once it has the
lock. `ruleset` and `table` are the kernel's. A shape is reduced, per rule, to "not in
force", "no tunnel interface", "an interface".

Two choices need a word. A mutex that is free is taken at once in the code and in a
step of its own here: more interleavings, none lost. And `Expirable` leaves the
addresses of an answer under way alone: a window is minutes and more and was renewed by
that answer, which takes seconds.

`HostTable` is the same kill switch without a lock: the hosts, the rules in force, and what pf
holds back for each, or that this is not known. An answer is held in the step that makes its
addresses hosts, a sweep lets go in the step that forgets them, and a reload makes known what is
unknown. The mapping (`Held`) is what pf will hold when the queued commands and the load in flight
have run (`Settled`, `Blocked`), and unknown while `pf_stale` is set. That it is a refinement says
what the lock is for: where a command stands in the queue, and when a load takes its tables, change
nothing but the moment.

### Picks and Routing

`Pick` is a function of what the links publish, of the rule's order and of the tunnel
it has. `Routing` has one step for each locked section: `Answer` (the routes of an
answer, in turn, ended by the first that fails), `Tick` (`Watch::step` from the answer
about the fake range to the end of `reconcile`: between the two there is no await),
`NewLists`, `Expire`, `RemoveAll`, `NewNetwork`, and per link `Check`, `Stand`, `Connect`,
`LetOut`, `ConnectFails`, `Raised`, `OldDown`, `Exit`, `Down`. The five that call
`Link::sync` carry the whole of `Reconcile` with them.

- `connect` is split at its awaits: the number is taken (`Connect`), the server's
  address comes and is let out (`LetOut`), amneziawg-go comes up and the routes are
  handed over (`Raised`), the old one goes (`OldDown`).
- An interface is named by the number of the amneziawg-go that made it. macOS may give
  its index to a later one, but its routes went with it, so no two are confused.
- `Targets`, `Want` and the like are what `Core` computes on demand. `Reconcile` says what
  holds after it, host by host and subnet by subnet; the order in which it visits them
  matters only where a host and a subnet are one route, and there hosts come first.
- A failing call is a member of `failed`. `RouteSocket::set` looks the interface up, then
  adds, and when a route is there deletes it and adds again: a call that fails leaves the
  old route, or none (`lost`). A put on an interface that is gone always fails, at its
  first add.
- The window of a host, the journal and the tables of pf are left out; whether a host is
  swept is a choice.

### Link, Degradation, LinkPromise

`me` holds the fields of the task (`struct Link`), `pc` the await it is in: `idle` is the
wait of `run` for a tick or a change, `raising` is `Tunnel::up`, `confirm` the probe of
`connect`, `ping`, `tls` and `direct` those of `check`. `published` is what `Link::sync` told the
resolver last. A step of the task (`Stop`, `Unwanted`, `Wanted`, `Raised`, ...) is everything
from one await to the next, the small methods it calls included: `Followed` is what it
makes of wakes and networks, `Present` of a process that exited, `Healthy`, `Lost`, `Failed`,
`Aborted` are the methods of those names.

- Wakes, networks and exits come in any step (`Wakes`, `Moves`, `Exits`), and the probes may end
  any way that the code can tell apart: that is the whole of `probe.rs` here.
- An `Instant` is what the code compares it with: a connect is due never, now or after a
  pause, a check now or later, a tunnel is young or not. The actions `PauseEnds`, `CheckDue`,
  `Ages` and `Degrades` are time. A degradation's age counts in units of the setting
  (`Degradation`), so that "longer than the patience" is told for any patience.
- `calm` is the assumption of the liveness property, not a state of the code: from `Calms` on
  nothing disturbs the link, and its probes get through. `tried` counts what `PausesKept`
  speaks of.
- `LinkPromise` has two variables, the interface and the health as published. It says in which
  order they may change, and that a suspicion is settled. The mapping of `Link` is what it
  published.

### Watch

A step of `Watch::step` is cut at its await: `Begin` (wake, `follow_network`), `Detected` (the
answer to the question for a fake address, `detect_upstream_fakeip`), `FollowCountry`
(the owner's file, `take_country`, the next question, the rules). `Track` is the tracker, a
task of its own that tells the resolver at once; `Answered` the task of `geo::country`. `mac` is
the network the Mac is on, `net` what the tracker found last, `network` what the watch has
taken up: three values that differ while things move. A question is bound to the
interface of the network it was asked for (`Reaches`), so an answer comes from the network the
Mac is on, if that has the same interface, or not at all.

### SysDns and Lifecycle

`SysDns` has `take_over` and `give_back` as a start (which reads or writes the file) and a `set` for
each service, in the order of `networksetup`, any of them failing. `Lifecycle` has where the
daemon is (`pc`), what is in its memory (`hosts`, `strays`), and what is not: the file of hosts
(`saved`), the table and rules of pf, references on pf (`refs`) and the file with the daemon's
own (`token`), the tunnels that run. `Dies` may come at any await, `Reboots` takes away what the
kernel holds and leaves the files. `off` is the command of that name: it waits for the daemon
and then sweeps, pf only if the file with the reference is there.

`known` is history: the addresses handed out, until `Expires` or until what a stop and a sweep
drop on purpose. A crash loses no more of it than `SweepsPf` takes.

### Sources

A step of `follow_sources` has no await, but others write the files between its reads, so each
read is a step: `Poll` (the flag, a fetch that ended, the next one), `Look` of each file,
`Read` of each source, `TakeIn`. `open` is a file an editor has truncated and not yet written:
`Unsettled` is how the code waits for it, by two looks at the time of the file.
Reading the time and reading whether a file holds a list are one step here, two calls
in the code (`src/sources.rs:304`); a write between them shows in the next look. A file that is
gone has no time (`0`, the `None` of a stamp). `Current` says which sources the next look would pass
over: a file whose time is that of the stamp, and the URL, whose copy only a fetch changes.

## Runs

All runs take from seconds to two minutes with two workers.

The types of `Watch` and `Sources` and the lock of `KillSwitch` (`LockKept`) hold in these instances
too; they are proved, and no run repeats them.

| run | shows | instance |
|---|---|---|
| `kill_switch_held` | `TypeOK`, `HostsHeld`: while pfctl may fail at any call, whatever the resolver holds for a rule in force is in pf once the queued commands have run, or pf is known to be stale. Under `FairSpec` `HeldInTheEnd`: no address of a rule in force stays out of pf for good; and `HoldsAtOnce`: `KillSwitch` implements `HostTable`, its fairness included | 1 rule that comes and goes, 1 address, 2 queries, 1 link, the watch; 66,000 states |
| `kill_switch_faults` | `NothingElseHeld`, `LastIsLoaded`, with every fault: failing routes, failing pfctl, sweeps of several rules | 2 rules, 2 addresses, 1 query, the watch |
| `kill_switch_answer` | `AnswerHeld`: an answer goes out only with all its addresses in pf; `HostsInHand`: no host waits for a reload to get there | 2 rules, 2 addresses, 1 query, 1 link, no faults; 459,000 states |
| `routing_hosts` | `TypeOK`, `HostsInLine`, `RulesCarried`, `StaysWithCarrying`: hosts are routed where the tunnel of their rule is; rules are on tunnels that carry and do not flap | 2 rules sharing a backup tunnel, 2 links, exits nobody has told of |
| `routing_subnets` | `SubnetsInLine`, `SubnetRoutesKnown`, `ServersDirect`: lists, rules, links, servers and the fake range in any order leave a subnet routed as they say | the same rules, a subnet that holds one of 2 servers |
| `routing_handover` | `HostsOwnTunnels`, `ServersDirect`: a tunnel replaced while its old interface stands, an answer that carries a server's address | the same rules, 2 addresses of which one is a server |
| `link` | `TypeOK`, `PatienceKept`, `GivenUp`, `KeptInformed`, `PausesKept`; under `FairSpec` `KeepsPromise` (it implements `LinkPromise`) and `Recovers`: once nothing goes wrong the tunnel carries for good and no rule waits | 1 network or none, 2 tunnels, the setting 1 and growth 2, 2 fast tries; 324,000 states |
| `watch` | `FakeipKnown`, `SeenOnItsNetwork`; under `FairSpec` `CountrySettles`, `FakeipSettles`: once the Mac stays, the rules are those of its country and the fake range is that of its network | 2 networks with an interface and a country each, one of them faking, 3 services; 68,000 states |
| `lifecycle` | `TypeOK`, `HostsKept`, `HeldAcross`, `PfReferenced`, `TakenBack`, `ServersKept`, `NamesFirst`; under `FairSpec` `TakenInTheEnd`: through crashes, restarts of the Mac, failing starts and sweeps | 2 addresses, 3 references, a service with a server of its own and one that has the resolver's among its own; 238,000 states |
| `sources` | `CopiesAreLists`, `NothingMissed`: between two steps, no source is out of date that the next look would pass over; under `FairSpec` `EndsInPlace`, `EndsFetched`: once nobody writes, the lists in place are those of the files that are there and of the URL, and the copy of the URL is what the URL has | 1 file, 1 URL, 2 lists, 2 edits, 1 restart; 569,000 states |
| `kill_switch_mixed_sweep`, `routing_old_goes` | violations, see [Findings](#findings) | the smallest that show each |

### Bounds, and why they are enough

- Two rules: what rules do to each other is pairwise (an earlier one keeps an address, a
  later one loses it; a subnet goes to the first that claims it).
- One or two addresses: nothing in the code relates two addresses, but for one answer
  that carries both (`kill_switch_answer`, `kill_switch_faults`) and the server's
  (`routing_handover`).
- Two queries, a link and the watch: three tasks are the least for an add that waits
  behind a load while another answer comes; with the fourth every kind of command (add,
  load, delete) can be in the queue at once.
- `kill_switch_held` has one rule, so that the liveness property is checked where the hazards
  are (two queries, a link, failing pfctl) and not in a smaller instance of its own. What two
  rules do to each other is in the other two runs, and `HostsHeld` is proved for any number.
- `MaxSeq = 2`: two numbers are what it takes for a tunnel and its successor, or for the
  tunnels of two links. `routing_hosts` and `routing_subnets` pass with `MaxSeq = 3` too
  (602,000 and 775,000 states), where one link is replaced while the other stands.
  `MaxSeq` bounds `Connect` alone, and the proofs do not use its value.
- `routing_subnets` has `Handover = FALSE` for `SubnetsInLine` alone. The other two pass with
  `Handover = TRUE` as well (289,000 states), and are proved for both.
- In `routing_subnets` the view `NoOwner` leaves the variable `owner` out: it is read by
  `Carries` alone, which only `Answer` reads, of addresses, and that instance has none.
- `link`: two tunnels tell one from the one it replaces, one network and none tell a move from
  a stay, and growth 2 over a setting of 1 has the first, the grown and the last patience. Two
  fast tries are the least at which a fast one, and a pause, follow a failure. The proofs
  are for any of these.
- `watch`: two networks are the least for an answer of another one, and three services for a
  majority that one of them is not in.
- `lifecycle`: three references are one that a crash left, one in the file and a new one.
  `EnableCut` leaves one behind only while another is free: a bound of the model (`Tokens`).
- `kill_switch_held` and `kill_switch_answer` share the rest: with two rules of which one may go out
  of force and one address, `HostsInHand` passes for two queries (641,000 states) and
  `HoldsAtOnce` for one and a failing pfctl (500,000 states).
- `sources`: `EDITS = 2` is a save (truncated, then written, where the writing is not bounded) and
  another change, or a file that comes and goes; `RESTARTS = 1` is one start that finds what an
  earlier run left. It passes with three edits too (1,279,000 states without a restart, 2,749,000 with
  one), and the invariants with two files (6,840,000 states, by symmetry). With one, the
  source that is written while another sets off a build is that file, and the other the URL.
- No run uses symmetry: those whose state would allow it check liveness.

Deadlock is checked for all but the Routing and Link runs. Those say `CHECK_DEADLOCK
FALSE`: after `remove_all` the daemon is over, and with every link idle and its numbers used up
`Routing` may stop; a link that was told to stop does stop.

### Fairness

Every `FairSpec` rests on the same facts of the code: the runtime polls every task that is
ready, each await has a time limit, and the watch's timer fires once a second.

- `KillSwitch`: weak fairness of a query that waits for pf, of a syncer, of the sweep and of the
  watch's step; strong fairness of `Loaded`, a load tried again and again goes through some
  time. Without it pfctl could fail for ever and nothing could be said. A query that
  comes, a link that changes and a sweep are not fair: nothing makes them happen.
- `Link`: weak fairness of the task's steps and of time. Strong fairness of the end of a ping and of
  a TLS try: not every check falls into a wake or a move. What the probes find is a
  choice until `calm`; `Recovers` speaks of what comes after, and `calm` itself is not fair.
- `Watch`: weak fairness of the tracker, the steps, the timers and the country's task; strong
  fairness of an answer that comes: a network asked again and again answers some time.
  The Mac moves and the owner writes as they like; the properties speak of a Mac that
  stays.
- `Lifecycle`: weak fairness of the daemon's steps (`launchd` starts it again), strong fairness of
  `networksetup` working. Crashes, restarts of the Mac and `off` are not fair.
- `Sources`: weak fairness of the step, of an editor that finishes, of a fetch's end and of the
  clock; strong fairness of a fetch that works and of the write of its copy.

What the time limit does not cover is the writing of a command's input (`src/command.rs:54`); a
pfctl that never reads would hold the lock of pf, and the model does not have it.

## Findings

Each of these is a run that must find its property violated.

1. `kill_switch_mixed_sweep` (`src/resolver.rs:1233`). A sweep forgets the hosts of several
   rules at once and deletes their pf entries rule by rule, awaiting pfctl in between. A
   query that routes an address of a later rule again meanwhile queues its add before
   that delete. The address is out of pf, and nothing is marked stale.
2. `routing_old_goes` (`src/link.rs:469`). `connect` takes its generation and then syncs the
   server's address. If the old tunnel still stands, that reconcile puts every host on
   the old interface and marks it with the new generation; when the new tunnel is up,
   the marks fit and nothing moves; the old interface takes the routes along.

Others were met while modelling. They have no run of their own; the constants or the
formula named here show each to who wants to see it.

Kill switch and routes:

- Half an answer (`src/resolver.rs:926`). The route of an answer's second address fails; the
  first stays routed and known, but was never added to pf, and pf is not marked stale. The
  next answer that has it finds nothing new and hands it out. `AnswerHeld` in `KillSwitch` with
  `RouteMayFail = TRUE`, `NRules = 1`, `Always = {1}`, two addresses; also with `PfMayFail`.
- A shared route (`src/resolver.rs:1227`). A list may name an address by itself; if an answer
  had it too, the two are one kernel route, which goes with the host. `SubnetsInLine` with one
  tunnel and `Addrs = Subnets = {s1}`.
- A failed move (`src/resolver.rs:975`). `set` deletes and adds; when the add fails the host
  keeps its mark, and no reconcile places it again. `HostsWherePlaced` with `OneRule`,
  `RouteMayFail = TRUE`.
- `AnswerHeld` needs one query at a time: with two, the second finds the address of the
  first already a host and answers while the first still waits for the lock of pf
  (`src/resolver.rs:934`). `HostsHeld` holds all the same: the add is ahead. And it needs rules
  that stay in force (`Always`): between the step of the watch that brings a rule into force
  and the load that follows it, a host of before is handed out that pf does not block yet.
- `SubnetRoutesKnown` needs `ExitsUnseen = FALSE` and no failing calls: `place_subnets` drops
  its entry before a put that may fail (`src/resolver.rs:1162`), and a route over a
  tunnel that stands is then one the resolver does not know. Nothing deletes it any more: not when
  a server inside is told of later either, although "a subnet that holds a tunnel server is not
  routed" (`src/resolver.rs:1126`). `ServersDirect` on the instance of `routing_subnets` with
  `MaxSeq = 3`, `ExitsUnseen = TRUE`: rule 2, which now has the
  subnet, has a tunnel that exited unseen; the put fails; that tunnel connects again, to the
  server inside.

Links:

- `works` (`src/link.rs:315`), set by a wake, is let go of by a check. While connects fail there is
  none, and the names of the rule are held back for as long (`src/link.rs:581`).
- `LeftAlone`: the reconnect after degradation that did not confirm is to be left alone "once it
  is past the young window" (`src/link.rs:537`); a cut seen by its counters brings the
  check forward (`src/link.rs:287`). `LeftAlone` under `Spec` of `Link`.
- `after_degraded`, set for the next connect, is lost when that connect is aborted or finds no
  address, and kept over a time when no rule wants the tunnel.

Watch:

- With two networks on one interface `FakeipKnown` and `SeenOnItsNetwork` fail: an answer may
  then come from the other one. `EachItsOwn` in `WatchProofs` names the assumption.
- An answer about fake addresses that comes after the Mac moved is applied, and lasts until the
  next step of the watch (`src/daemon.rs:784`): `FakeipKnown` has `\/ unseen` for that.
- A country's task that panics is not asked again.

Sources:

- A build set off by one source reads every other, one that was just found truncated
  included, whose entries are then missing until it settles (`src/sources.rs:161`,
  `src/sources.rs:304`, `src/daemon.rs:745`). `WaitedOut` under `Spec` with two files, `EDITS = 2`.
- A file that was gone, came back emptied and went again between a look and the read has no time at
  either (`src/sources.rs:304`): what the read saw of it stays in place until the file is there
  again or another source changes. `IsThere` in `EndsInPlace` and `NothingMissed` leaves it out.
- An `update` asked for while a fetch runs is taken by the step that sees it, and when the
  fetch ends its own time replaces it: no other fetch is made.

Start, stop, DNS:

- Hosts are lost when pf cannot be read at a start or the file not written at a stop
  (`Failing` with `"show"` or `"save at stop"` violates `HostsKept`); a crash followed by `off` forgets the
  hosts answered since the last save.
- `release` removes the file with the reference also when a flush failed; the next `off` finds no
  file and leaves pf's rules where they are (`src/pf.rs:282`, `src/install.rs:440`). `Failing` with
  `"flush"` violates `TakenBack`.
- A crash between `pfctl -E` and the write of the token leaves a reference nobody releases
  (`EnableCut`). After a restart of the Mac the first `off` fails on the stale token, before
  it comes to the DNS; a second one does it all.
- A service that vanishes while the daemon's file is gone, and a change that the owner makes to
  the DNS while it has a file, are not honoured when the servers go back. `SysDns` has a fixed set
  of services, and the owner does not change them.

## Proofs

`tlapm` checks them with no step left open. The theorems hold for any number of rules,
tunnels, addresses, subnets, networks, services and tasks, and any number of steps.

Assumptions on the constants, which TLC evaluates in the runs:

| assumption | says |
|---|---|
| `RulesAssumption` | a rule names no tunnel twice (configuration loading refuses it); in `Routing`, a server listed by itself is inside that list entry |
| `LinksAssumption`, `TasksAssumption`, `LinkAssumption`, `WatchAssumption`, `LifecycleAssumption`, `SourcesAssumption` | the marks for "none" are not values; settings are numbers, factors and limits not zero; every network has a country and an interface |
| `TasksAssumption`, `SourcesAssumption` also | "nothing" is not a table of hosts; the URL is not a file, and the states of a fetch are not what it may bring |
| `DnsAssumption` | the services are finite and each has servers of the owner's; the mark for "no file" is not the content of one |
| `FaultsAssumption` | the switches of faults are Boolean |

| theorem | says | needs |
|---|---|---|
| `KillSwitchProofs!TypeCorrect`, `LockAlwaysKept` | types; the queue is exactly the tasks with a command to run; one load at a time | - |
| `LastAlwaysLoaded`, `AlwaysBlocked` | the shape taken for loaded is the one pf runs; every rule in force is blocked, or pf is known to be stale | - |
| `NothingElseAlwaysHeld` | pf keeps no address its rule let go, but with its deletion ahead or pf known to be stale | - |
| `HostsAlwaysHeld` | every host of a rule in force is held by pf, or pf is known to be stale | `~RouteMayFail`, `~MixedSweep` |
| `HostsAlwaysInHand` | no host waits for a reload: it is in its table, or its add is queued behind whatever takes it out | `~RouteMayFail`, `~PfMayFail`, `~MixedSweep` |
| `AnswersAlwaysHeld` | an answer goes out only with all its addresses held by pf | those three; `Always = Rules` and one query |
| `ExactAtRest` | with no command waiting for pf, and pf not known to be stale, the rules in force are blocked and each table is exactly its hosts | `~RouteMayFail`, `~MixedSweep` |
| `TableImplemented` | every initial state and step of `KillSwitch` is one, or a stutter, of `HostTable` | `~RouteMayFail`, `~MixedSweep` |
| `PicksProofs!PickHasIface`, `PickKeepsFit`, `PickTakesFit`, `PickStays` | what `pick` takes, leaves and keeps | - |
| `RoutingProofs!TypeCorrect` | types; routes lead to interfaces that stand | - |
| `RulesAlwaysCarried`, `StaysCorrect` | no rule stays on a dead tunnel next to one of its own that carries; none leaves one that carries but for a better one | - |
| `HostsAlwaysInLine` | every host of a rule whose tunnel stands is marked with it and routed into it | `Calm`: `~Handover`, `~RouteMayFail`, no list names an address |
| `RoutePlaceProofs!SubnetsAlwaysInLine` | every subnet is where the lists and tunnels say | `Quiet`: `Clean` and `~Handover`, `~ExitsUnseen` |
| `SubnetRoutesAlwaysKnown` | no subnet route is unknown | `Steady`: `Clean` and `~ExitsUnseen` |
| `ServersAlwaysDirect` | no tunnel's server is routed into a tunnel, nor a subnet that holds one | `Clean`: `~RouteMayFail`, no list names an address; and `~ExitsUnseen` or no subnets |
| `HostsAlwaysOwnTunnels` | a host is routed only into a tunnel of its own rule, an address nobody holds not at all | `Clean` |
| `LinkProofs!TypeCorrect`, `PatienceAlwaysKept`, `AlwaysGivenUp`, `AlwaysInformed`, `PausesAlwaysKept` | types; the patience in its bounds; a tunnel is given up before it is replaced; the resolver knows what the task knows; not too many tries without a pause | - |
| `PromiseHeld` | every initial state and step of `Link` is one, or a stutter, of `LinkPromise` | - |
| `RecoveredForGood` | a tunnel that carries, with nothing left to see, carries for good once nothing goes wrong | - |
| `WatchProofs!TypeCorrect` | types | - |
| `FakeipAlwaysKnown`, `CountryAlwaysOfItsNetwork` | fake addresses go only where they are known; a country is its network's own | `EachItsOwn`: no two networks share an interface |
| `CountryStaysSettled` | the rules of a network's country, once in force, stay so while the Mac and the owner's file stay | `EachItsOwn` |
| `FakeipStaysSettled` | what the resolver knows of a network's fake addresses, once right, stays so while the Mac stays | - |
| `LifecycleProofs!TypeCorrect`, `ServersAlwaysKept`, `NamesAlwaysFirst`, `PfAlwaysReferenced` | types; the owner's servers are kept; the DNS goes back before links and pf do; pf stays referenced | - |
| `HostsAlwaysKept` | a host handed out stays known until its window ends | pf is read at a start, the file written at a stop |
| `TakenUnlessDue` | a daemon that is up with no services to look at has set them all | - |
| `TakenForGood` | services that are all set stay set for as long as the daemon is up | - |
| `AlwaysTakenBack` | `off` leaves nothing behind | pf can be flushed |
| `AlwaysHeldAcross` | while pf has rules it holds every host handed out | all three of these |
| `SourcesProofs!TypeCorrect`, `CopiesAlwaysLists` | types; no file in the middle of a save and no error page takes the place of a list that is kept | - |
| `NothingEverMissed` | between two steps, no source is out of date that the next look would pass over | - |
| `InPlaceForGood` | lists that have settled stay in place, and the URL's copy current, while nobody writes | - |

The hypotheses are needed: with one of them dropped TLC finds a counterexample, on the instance
of the runs unless said otherwise here. `~MixedSweep` is finding 1; `~Handover` of `HostsInLine`
and `SubnetsInLine` is finding 2; `~RouteMayFail` is half an answer or a failed move; "no list names
an address" is the shared route; `~ExitsUnseen` is the route that `place_subnets` forgets, which
takes `MaxSeq = 3` to lead around a server. Those of the answers are the notes on the kill switch
above; `HostsAlwaysInHand` and `TableImplemented` show theirs with two rules, of which one may go out of
force, and two addresses (`NRules = 2`, `Always = {1}`); `ExactAtRest` shows `~RouteMayFail` with two addresses. Those of `Watch` and `Lifecycle` are the notes under their names.
How they go:

- **KillSwitch.** `HostsHeld` speaks of what the queue will have done (`Settled`): it is
  false of `table` at any one moment. To carry it over a step one must know that the
  queue holds each waiting task once and with the right command (`LockKept`), that the
  load in flight takes its tables under the lock (`OneLoad`), and the types: together
  `Inv`, which is inductive. The lemmas on the queue (what asking and being done do to
  it) are stated once, over `SequenceTheorems`, and so is what serving a queue does to one entry
  (`Served`, `ServedAppend`): for tasks that put it and tasks that cut it, whoever they are.
- **KillSwitch, answers.** `HostsInHand` is `Served` again, with the adds alone as those that put:
  a load does not count, so it is stronger than `HostsHeld` and needs that no call fails. An
  answer leaves when its task is at the head and its add is done; then its addresses are in
  their tables if they are hosts (`AnswersKnown`, by `Expirable`: and with every rule always in
  force nothing else drops them), and the tables block (`AlwaysOn`).
- **KillSwitch, the abstract table.** While pf is not stale, `HostsHeld` and `NothingElseHeld` say together
  that `Held` is the hosts of the rules in force (`Exact`). So a step maps to one of `HostTable` by
  what it does to `active`, `hosts` and `pfStale` alone, and the queue does not appear: an answer,
  a sweep and a switch of rules by their own, a step that only sets `pfStale` to `Forget`, a
  load that begins (`Sync` clears `pfStale`) to `Reload`, the rest to a stutter. `TunnelsInForce` says that an answer goes to
  a rule in force.
- **Picks.** `Pick` chooses by least positions in an order; the lemmas say that the least
  of a nonempty set of positions exists and is in it.
- **Routing, types.** `Numbers` is added to `TypeOK`: no link has a number above `seq`, and
  one that comes up has a number. Without it the interface that `Raised` brings need not
  be one of `1 .. seq`.
- **Routing, rules.** `RulesCarried` is not inductive by itself: a rule that comes into
  force or a link that starts to carry is picked for only by the reconcile in the same
  step. `CarryInv` adds that a rule has only tunnels of its own order; then each step
  either reconciles (and `PickTakesFit` and `PickKeepsFit` speak) or leaves links, rules
  and tunnels alone (`Steps`).
- **Routing, hosts.** `HostsInLine` compares a mark with a target and a route, and what
  breaks it is a mark that fits a tunnel its route does not lead to. `HostInv` has four
  parts. `LinksTell`: a link publishes the interface it holds, by its number, and takes
  no new one while it stands. `Distinct`: no number is given twice. `Marks`: a mark is a
  number of the past; its host's route leads to that interface while it stands and
  nowhere afterwards; and it is not the number of an interface still to come (so that
  none can make an old mark true). `MarkedRight`: while the daemon runs, each host has
  the mark of its rule's tunnel. Every step does one of three things to a host
  (`HostStep`): it takes the mark away, it marks and routes it into a target that stands,
  or it leaves it, and then either nothing about targets has changed or the mark was
  right. The invariant follows from that and from what a step does to the numbers
  (`NumbersStep`).
- **Routing, subnets.** `SubnetInv` adds to `LinksTell` and `Distinct` that what a link
  publishes stands (`HeldStand`, true only when exits are seen first) and that the resolver's table of
  subnets is the kernel's and in place (`SubnetsPlaced`). A reconcile makes the table what it
  should be; a step that does not reconcile leaves everything that this depends on alone. A mark
  tells the interface, so a mark that has not changed means a route that need not.
- **Routing, subnet routes while tunnels are replaced.** `LinksTell` is false then. `KnownInv` keeps of it
  that a link publishes the interface it holds (`LinksHold`), and adds that no two links have a
  number in common, held, about to go or to come, and that a link does not raise what it holds (`Apart`): so the old
  interface that goes is nobody's, and what is held stands. A put then never fails,
  and the table of subnets loses none that is routed (`SubnetsKnown`). Marks do not matter here,
  which is why finding 2 does not break it.
- **Routing, own tunnels.** `OwnInv`: a link publishes the interface it holds, and holds a second one
  only while it hands over (`LinksHold`); a host that is routed is known, marked, and routed into an
  interface that a tunnel of its rule holds (`HostsRouted`). It does not say which, so it
  outlives handovers and unseen exits.
- **Link.** `IInv` ties the program counter to the fields (`Fits`): which awaits have a tunnel,
  which health; to what is published (`KeptInformed`); and the tries since the last pause to the
  failures counted (`Counted`). A step is a chain of functional updates of the task's record `me`, so
  the lemmas speak of those (what `Down`, `Sync`, `Paused` keep), and each action cites its own.
- **Watch.** `FakeipInv`: what is let is let for a network that fakes, and the network the watch
  has is the Mac's but for `unseen`. `CountryInv` adds that an answer under way is that of its network; the lemma
  `MajorityRight` says so of any number of services, by counting: those that are wrong are
  assumed (`Said`) no more than those that are right.
- **Lifecycle.** `Control` has the types and where each program counter leaves pf and the
  files. `DnsInv` says that, whatever moment the daemon dies in, the file or the service
  has the owner's servers (`DnsSafe`), and that a give-back only ever takes the file away
  once they are back (`PutBack`). `HostsInv` follows a host from `hosts` to the file to pf's table and back; `PfInv`
  says when pf is already empty. The three share the lemmas on what a command
  that fails leaves.
- **Sources.** `NothingMissed` speaks of the moment between two steps. `SeenInv` carries it through one:
  while files are looked at and none was found changed it still holds, and from the first
  that was, each source read so far was read as it is or is not current any more (`ReadRight`), since
  the stamp was taken before the read. A writer can only take sources out of `Current`
  (`NoneTaken`): every write has a time of its own.

- **What stays.** A property "in the end always" has a half that is safety: what was reached stays. It
  is proved of a state that no step leaves while the disturbances stop: `Recovered` of `Link`,
  `CountrySettled` and `FakeipSettled` of `Watch`, `Settled` of `Sources`, `AllTaken` of `Lifecycle`, each
  stronger than what is promised, since it must rule out what is under way (an answer not yet in, a
  detection that was started, an exit not yet seen, a fetch that has ended but was not taken). The
  theorems say `Spec => [](Settled /\ []Undisturbed => []Promised)`: from any moment, not from the start.
  `TakenInv` of `Lifecycle` adds why the daemon may stop looking at services: what a pass has left to
  do, and that it failed, is never lost (`TakenUnlessDue`).
- **KillSwitch, at rest.** `HostsHeld` and `NothingElseHeld` speak of what queued commands will do. With none
  queued no load is under way either (`LockKept`), so they speak of what pf has (`ExactAtRest`).

## What is only checked, and what is not modelled

Only model-checked is what is liveness, which is out of the prover's reach: that what is promised comes. That it
stays is proved, as above; with the runs' instances and fairness TLC finds that the states called settled are
reached, whenever the disturbances stop. So by runs alone: `HeldInTheEnd`, `Recovers`,
`CountrySettles`, `FakeipSettles`, `TakenInTheEnd`, `EndsInPlace`, `EndsFetched`, and the fairness
that `KeepsPromise` says of `LinkPromise` and `HoldsAtOnce` of `HostTable`. `PromiseHeld` and
`TableImplemented` are their safety parts.

Not modelled:

- Settings (`config.rs`), the command line (`main.rs`), the parsing of lists: functions from text to values, whose
  results are constants of the models.
- The packets of probes and of the country's services, amneziawg-go's set-up commands, DNS
  messages: only their outcomes are, as choices.
- Names outside the lists and answers with fake addresses: they leave no state in the resolver.
- The copying of files by `install` and `uninstall`, and logging.
- The pipe to pfctl (`src/command.rs:54`): the model's commands end.

Within the modelled parts: `KillSwitch` leaves out the subnets and servers of the ruleset, which
change only with a load, and the start and stop, which are in `Lifecycle`; `Routing` the windows
of hosts (a host may be swept at any time); `Lifecycle` launchd's patience of 60 s with a stop against the 15 s
per link, so that a stop is never cut short by a kill that is not a crash; `SysDns` services that come and go.

## Plan

The core, links, watch, start and stop, DNS and sources are modelled. What is left, in order:

1. `Link` composed with `Routing`: `Routing` takes what a link publishes as a choice of its own;
   the composition would show that each of its choices is one that a `Link` has a reason for.
2. Settings: what `config.rs` refuses, and that what it lets through meets the assumptions here.
