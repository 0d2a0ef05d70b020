----------------------------- MODULE KillSwitch -----------------------------
(***************************************************************************)
(* How the tables of the kill switch in pf follow the addresses the        *)
(* resolver hands out: resolver.rs (listed, route_host, expire, tables,    *)
(* sync_pf) over pf.rs (load, add, delete and their lock).                 *)
(*                                                                         *)
(* The daemon is one thread: between two awaits a task runs alone.  A step *)
(* below is what a task does from one await to the next.  The awaits that  *)
(* matter are the DNS exchange of a query, the mutex pf_shape of sync_pf,  *)
(* and Pf::lock with the pfctl command run under it.  tokio mutexes are    *)
(* fair, so the lock is a queue, and a task is queued at its first poll,   *)
(* in the very step that asks for it.  A mutex that is free is taken       *)
(* without a pause in the code; here that is a step of its own, which      *)
(* adds interleavings and loses none.                                      *)
(*                                                                         *)
(* Left out: subnets, tunnel servers, the interfaces' names.  Whether a    *)
(* rule has a tunnel interface, and whether it carries, comes from the     *)
(* link tasks as an input.                                                 *)
(***************************************************************************)
EXTENDS Naturals, Sequences

CONSTANTS
    NRules,        \* rules of the settings, 1..NRules in order of priority
    Always,        \* the rules with when = "always"
    Addrs,         \* addresses that answers carry
    Queries,       \* query tasks (main.rs serve spawns one per query)
    Links,         \* link tasks
    Watch,         \* the task of daemon.rs
    RouteMayFail,  \* routes.set may fail
    PfMayFail,     \* pfctl may fail or time out
    MixedSweep,    \* one sweep may find hosts of several rules
    Nothing        \* no task, no shape, no tables

Rules == 1 .. NRules
NoRule == 0
Syncers == Links \cup {Watch}
Tasks == Queries \cup Syncers

ASSUME RulesAssumption ==
    /\ NRules \in Nat
    /\ Always \subseteq Rules
ASSUME TasksAssumption ==
    /\ Queries \cap Syncers = {}
    /\ Watch \notin Links
    /\ Nothing \notin Tasks
    /\ Nothing \notin [Rules -> SUBSET Addrs]
ASSUME FaultsAssumption ==
    /\ RouteMayFail \in BOOLEAN
    /\ PfMayFail \in BOOLEAN
    /\ MixedSweep \in BOOLEAN

VARIABLES
    active,    \* the rules in force
    tunnel,    \* rule -> what its current tunnel is worth
    hosts,     \* address -> the rule that holds it, or NoRule
    pfStale,   \* the tables in pf may be out of date
    last,      \* the shape loaded last, or Nothing
    syncing,   \* who holds pf_shape, or Nothing
    taken,     \* the shape the holder of pf_shape took, or Nothing
    snap,      \* the tables a running load took, or Nothing
    queue,     \* who waits for Pf::lock; the head holds it
    job,       \* task -> what it does with the lock
    pc,        \* task -> where it stands
    rule,      \* query -> the rule picked when it came
    ips,       \* query -> the addresses of its answer
    turn,      \* what the watch syncs pf for: the rules, or new lists
    sweep,     \* rule -> expired addresses still to be deleted from pf
    ruleset,   \* kernel: the loaded ruleset, by the shape it was made from
    table      \* kernel: rule -> its table of hosts

core == <<active, tunnel, hosts>>
syncVars == <<pfStale, last, syncing, taken>>
lockVars == <<snap, queue, job>>
queryVars == <<rule, ips>>
kernel == <<ruleset, table>>
watchVars == <<turn, sweep>>
vars == <<core, syncVars, lockVars, pc, queryVars, watchVars, kernel>>

TunnelStates == {"none", "iface", "carries"}
ShapeStates == {"off", "none", "on"}
Shapes == [Rules -> ShapeStates]
Tables == [Rules -> SUBSET Addrs]
Empty == [r \in Rules |-> {}]
Idle == [op |-> "none", rule |-> NoRule, ips |-> {}]
Jobs == [op : {"none", "add", "delete", "load"},
         rule : Rules \cup {NoRule},
         ips : SUBSET Addrs]

-----------------------------------------------------------------------------
(* The resolver's view, read under its core lock.                          *)

Carries(r) == r \in active /\ tunnel[r] = "carries"

(* What Resolver::shape says of the rules. *)
ShapeAsIs == [r \in Rules |-> IF r \in active THEN tunnel[r] ELSE "off"] \* broken
Shape ==
    [r \in Rules |-> IF r \notin active THEN "off"
                     ELSE IF tunnel[r] = "none" THEN "none" ELSE "on"]

(* What Resolver::tables says of the hosts. *)
HostTables == [r \in Rules |-> {a \in Addrs : hosts[a] = r}]

(* Core::choose for a name in the lists of the rules L, when it finds a    *)
(* tunnel to ask: the first rule in force that carries.                    *)
Chosen(L, r) ==
    /\ r \in L
    /\ Carries(r)
    /\ \A s \in L : s < r => ~Carries(s)

-----------------------------------------------------------------------------
(* The lock of pf.                                                         *)

Holder(t) == queue # <<>> /\ Head(queue) = t

Request(t, op, r, as) ==
    /\ queue' = Append(queue, t)
    /\ job' = [job EXCEPT ![t] = [op |-> op, rule |-> r, ips |-> as]]

Release(t) ==
    /\ queue' = Tail(queue)
    /\ job' = [job EXCEPT ![t] = Idle]

(* The table after the command of job j has run. *)
Applied(j) ==
    IF j.op = "add" THEN [table EXCEPT ![j.rule] = @ \cup j.ips]
    ELSE [table EXCEPT ![j.rule] = @ \ j.ips]

(* The tables after a load: the ruleset declares those of the rules in     *)
(* force in the shape, and pf leaves any other as it is.                   *)
Replaced == [r \in Rules |-> IF taken[r] = "off" THEN table[r] ELSE snap[r]]

(* A pfctl that failed or timed out, whatever it did by then. *)
PfFailsUnseen == UNCHANGED pfStale                      \* broken: not said
PfFails == pfStale' = TRUE

-----------------------------------------------------------------------------
Init ==
    /\ active \in SUBSET Rules
    /\ Always \subseteq active
    /\ tunnel = [r \in Rules |-> "none"]
    /\ hosts \in [Addrs -> Rules \cup {NoRule}]
    /\ pfStale = FALSE
    /\ last = Shape
    /\ syncing = Nothing
    /\ taken = Nothing
    /\ snap = Nothing
    /\ queue = <<>>
    /\ job = [t \in Tasks |-> Idle]
    /\ pc = [t \in Tasks |-> "idle"]
    /\ rule = [q \in Queries |-> NoRule]
    /\ ips = [q \in Queries |-> {}]
    /\ turn = "rules"
    /\ sweep = Empty
    /\ ruleset = Shape
    /\ table = HostTables

-----------------------------------------------------------------------------
(* A query of a listed name.                                               *)

(* The rule is picked once, when the query comes, and kept over the        *)
(* exchange.                                                               *)
Ask(q) ==
    /\ pc[q] = "idle"
    /\ \E L \in SUBSET Rules, r \in Rules :
        /\ Chosen(L, r)
        /\ rule' = [rule EXCEPT ![q] = r]
    /\ pc' = [pc EXCEPT ![q] = "asking"]
    /\ UNCHANGED <<core, syncVars, lockVars, ips, watchVars, kernel>>

(* No answer through the tunnel: SERVFAIL. *)
NoAnswer(q) ==
    /\ pc[q] = "asking"
    /\ pc' = [pc EXCEPT ![q] = "idle"]
    /\ rule' = [rule EXCEPT ![q] = NoRule]
    /\ UNCHANGED <<core, syncVars, lockVars, ips, watchVars, kernel>>

(* route_host leaves an address to an earlier rule that carries. *)
Kept(r, as) == {a \in as : hosts[a] # NoRule /\ hosts[a] < r /\ Carries(hosts[a])}

(* The addresses that are new to the table of r. *)
NewToAnyRule(r, as) == {a \in as : hosts[a] = NoRule}   \* broken: not the moved ones
NewTo(r, as) == {a \in as : hosts[a] # r}

(* What route_host does to the hosts for the addresses as of rule r.  One  *)
(* that another rule had is still in the table of that rule.               *)
RouteHostsOnly(r, as) ==                                \* broken: pf not stale
    /\ hosts' = [a \in Addrs |-> IF a \in as THEN r ELSE hosts[a]]
    /\ UNCHANGED pfStale
RouteHosts(r, as) ==
    /\ hosts' = [a \in Addrs |-> IF a \in as THEN r ELSE hosts[a]]
    /\ pfStale' = (pfStale \/ \E a \in as : hosts[a] \notin {NoRule, r})

(* The answer is in: its addresses are routed in one go, and those new to  *)
(* the rule go to its table in pf; with none new, nothing is waited for.   *)
RouteAnswer(q) ==
    /\ pc[q] = "asking"
    /\ \E as \in SUBSET Addrs :
        LET r == rule[q]
            rest == as \ Kept(r, as)
            new == NewTo(r, rest)
        IN  /\ rest = {} \/ tunnel[r] # "none"
            /\ RouteHosts(r, rest)
            /\ ips' = [ips EXCEPT ![q] = as]
            /\ \/ /\ new = {}
                  /\ pc' = [pc EXCEPT ![q] = "answered"]
                  /\ UNCHANGED <<queue, job>>
               \/ /\ new # {}
                  /\ pc' = [pc EXCEPT ![q] = "adding"]
                  /\ Request(q, "add", r, new)
    /\ UNCHANGED <<active, tunnel, last, syncing, taken, snap, rule, watchVars, kernel>>

(* A route fails, or the rule has no tunnel any more: SERVFAIL at once,    *)
(* with the addresses before the failing one routed already.               *)
RouteFails(q) ==
    /\ pc[q] = "asking"
    /\ \E as \in SUBSET Addrs :
        LET r == rule[q]
            rest == as \ Kept(r, as)
        IN  /\ rest # {}
            /\ \E done \in SUBSET rest :
                /\ done # rest
                /\ IF tunnel[r] = "none" THEN done = {} ELSE RouteMayFail
                /\ RouteHosts(r, done)
    /\ pc' = [pc EXCEPT ![q] = "idle"]
    /\ rule' = [rule EXCEPT ![q] = NoRule]
    /\ UNCHANGED <<active, tunnel, last, syncing, taken, lockVars, ips, watchVars, kernel>>

(* pf.add is done: now the answer goes out. *)
Added(q) ==
    /\ pc[q] = "adding"
    /\ Holder(q)
    /\ table' = Applied(job[q])
    /\ Release(q)
    /\ pc' = [pc EXCEPT ![q] = "answered"]
    /\ UNCHANGED <<core, syncVars, snap, queryVars, watchVars, ruleset>>

(* pf.add failed or timed out: SERVFAIL. *)
AddFails(q) ==
    /\ PfMayFail
    /\ pc[q] = "adding"
    /\ Holder(q)
    /\ table' \in {table, Applied(job[q])}
    /\ Release(q)
    /\ PfFails
    /\ pc' = [pc EXCEPT ![q] = "idle"]
    /\ rule' = [rule EXCEPT ![q] = NoRule]
    /\ ips' = [ips EXCEPT ![q] = {}]
    /\ UNCHANGED <<core, last, syncing, taken, snap, watchVars, ruleset>>

(* The task of an answered query ends. *)
Done(q) ==
    /\ pc[q] = "answered"
    /\ pc' = [pc EXCEPT ![q] = "idle"]
    /\ rule' = [rule EXCEPT ![q] = NoRule]
    /\ ips' = [ips EXCEPT ![q] = {}]
    /\ UNCHANGED <<core, syncVars, lockVars, watchVars, kernel>>

-----------------------------------------------------------------------------
(* The watch and the links change the core and call sync_pf.               *)

(* Watch::step from its start to sync_pf: set_owner, set_country and       *)
(* reconcile.  The hosts of rules out of force are dropped; a rule that    *)
(* comes into force takes a tunnel as it finds it, and one that stays in   *)
(* force may start or stop to carry, for the owner of the DNS.             *)
WatchTick ==
    /\ pc[Watch] = "idle"
    /\ \E A \in SUBSET Rules, T \in [Rules -> TunnelStates] :
        /\ Always \subseteq A
        /\ \A r \in Rules : r \notin A => T[r] = "none"
        /\ \A r \in A \cap active : T[r] = "none" <=> tunnel[r] = "none"
        /\ active' = A
        /\ tunnel' = T
        /\ hosts' = [a \in Addrs |-> IF hosts[a] \in A THEN hosts[a] ELSE NoRule]
        /\ pfStale' = (pfStale \/ A # active \/ hosts' # hosts)
    /\ pc' = [pc EXCEPT ![Watch] = "shape"]
    /\ turn' = "rules"
    /\ UNCHANGED <<last, syncing, taken, lockVars, queryVars, sweep, kernel>>

(* Watch::follow_sources: new lists, then sync_pf again. *)
NewLists ==
    /\ pc[Watch] \in {"ticked", "swept"}
    /\ pfStale' = TRUE
    /\ pc' = [pc EXCEPT ![Watch] = "shape"]
    /\ turn' = "sources"
    /\ UNCHANGED <<core, last, syncing, taken, lockVars, queryVars, sweep, kernel>>

EndTick ==
    /\ pc[Watch] \in {"ticked", "swept"}
    /\ pc' = [pc EXCEPT ![Watch] = "idle"]
    /\ UNCHANGED <<core, syncVars, lockVars, queryVars, watchVars, kernel>>

(* Link::sync: set_link and reconcile change what the tunnels are worth. *)
LinkSync(l) ==
    /\ pc[l] = "idle"
    /\ \E T \in [Rules -> TunnelStates] :
        /\ T # tunnel
        /\ \A r \in Rules : r \notin active => T[r] = "none"
        /\ tunnel' = T
    /\ pc' = [pc EXCEPT ![l] = "shape"]
    /\ UNCHANGED <<active, hosts, syncVars, lockVars, queryVars, watchVars, kernel>>

Rest(s) == IF s = Watch /\ turn = "rules" THEN "ticked" ELSE "idle"

(* sync_pf once it holds pf_shape: the shape is taken and pf_stale taken   *)
(* down; with nothing changed it is done, or else the load is queued: also *)
(* when only a part of the shape that is left out here has changed (the    *)
(* interfaces' names, the network, the servers, use_fakeip).               *)
SyncNothing(s) ==
    /\ pc[s] = "shape"
    /\ syncing = Nothing
    /\ ~pfStale
    /\ last = Shape
    /\ pc' = [pc EXCEPT ![s] = Rest(s)]
    /\ UNCHANGED <<core, syncVars, lockVars, queryVars, watchVars, kernel>>

SyncLoad(s) ==
    /\ pc[s] = "shape"
    /\ syncing = Nothing
    /\ syncing' = s
    /\ taken' = Shape
    /\ pfStale' = FALSE
    /\ Request(s, "load", NoRule, {})
    /\ pc' = [pc EXCEPT ![s] = "loading"]
    /\ UNCHANGED <<core, last, snap, queryVars, watchVars, kernel>>

(* Pf::load has the lock: the tables are taken as they are now. *)
LoadTakes(s) ==
    /\ pc[s] = "loading"
    /\ Holder(s)
    /\ snap = Nothing
    /\ snap' = HostTables
    /\ UNCHANGED <<core, syncVars, queue, job, pc, queryVars, watchVars, kernel>>

(* pfctl replaces the ruleset and every table at once. *)
Loaded(s) ==
    /\ pc[s] = "loading"
    /\ Holder(s)
    /\ snap # Nothing
    /\ ruleset' = taken
    /\ table' = Replaced
    /\ snap' = Nothing
    /\ Release(s)
    /\ last' = taken
    /\ syncing' = Nothing
    /\ taken' = Nothing
    /\ pc' = [pc EXCEPT ![s] = Rest(s)]
    /\ UNCHANGED <<core, pfStale, queryVars, watchVars>>

(* After a failed load nothing is known to be loaded. *)
LastKept == UNCHANGED last                              \* broken
LastLost == last' = Nothing

(* The load failed or timed out, whatever pfctl did. *)
LoadFails(s) ==
    /\ PfMayFail
    /\ pc[s] = "loading"
    /\ Holder(s)
    /\ snap # Nothing
    /\ \/ UNCHANGED kernel
       \/ ruleset' = taken /\ table' = Replaced
    /\ snap' = Nothing
    /\ Release(s)
    /\ LastLost
    /\ PfFails
    /\ syncing' = Nothing
    /\ taken' = Nothing
    /\ pc' = [pc EXCEPT ![s] = Rest(s)]
    /\ UNCHANGED <<core, queryVars, watchVars>>

-----------------------------------------------------------------------------
(* The sweep of hosts whose window is over, in Watch::housekeeping.        *)

(* The window is minutes and more, an answer takes seconds: the addresses  *)
(* of an answer under way were renewed too late to be over it.             *)
Expirable == {a \in Addrs : hosts[a] # NoRule /\ \A q \in Queries : a \notin ips[q]}

(* Expired hosts are forgotten at once; their table entries go rule by     *)
(* rule, one pfctl after another.                                          *)
Expire ==
    /\ pc[Watch] = "ticked"
    /\ \E gone \in SUBSET Expirable :
        \E r \in Rules :
            LET batch(s) == {a \in gone : hosts[a] = s}
            IN  /\ batch(r) # {}
                /\ ~MixedSweep => gone = batch(r)
                /\ hosts' = [a \in Addrs |-> IF a \in gone THEN NoRule ELSE hosts[a]]
                /\ Request(Watch, "delete", r, batch(r))
                /\ sweep' = [s \in Rules |-> IF s = r THEN {} ELSE batch(s)]
    /\ pc' = [pc EXCEPT ![Watch] = "sweeping"]
    /\ UNCHANGED <<active, tunnel, syncVars, snap, queryVars, turn, kernel>>

(* One rule's entries are deleted, or pfctl failed and pf is stale: the    *)
(* next rule's in any case.                                                *)
Swept ==
    /\ pc[Watch] = "sweeping"
    /\ Holder(Watch)
    /\ \/ table' = Applied(job[Watch]) /\ UNCHANGED pfStale
       \/ /\ PfMayFail
          /\ table' \in {table, Applied(job[Watch])}
          /\ PfFails
    /\ \/ /\ sweep = Empty
          /\ Release(Watch)
          /\ pc' = [pc EXCEPT ![Watch] = "swept"]
          /\ UNCHANGED sweep
       \/ \E r \in Rules :
          /\ sweep[r] # {}
          /\ queue' = Append(Tail(queue), Watch)
          /\ job' = [job EXCEPT ![Watch] = [op |-> "delete", rule |-> r, ips |-> sweep[r]]]
          /\ sweep' = [sweep EXCEPT ![r] = {}]
          /\ UNCHANGED pc
    /\ UNCHANGED <<core, last, syncing, taken, snap, queryVars, turn, ruleset>>

-----------------------------------------------------------------------------
Query(q) ==
    Ask(q) \/ NoAnswer(q) \/ RouteAnswer(q) \/ RouteFails(q)
        \/ Added(q) \/ AddFails(q) \/ Done(q)

Sync(s) ==
    SyncNothing(s) \/ SyncLoad(s) \/ LoadTakes(s) \/ Loaded(s) \/ LoadFails(s)

Next ==
    \/ \E q \in Queries : Query(q)
    \/ \E l \in Links : LinkSync(l)
    \/ \E s \in Syncers : Sync(s)
    \/ WatchTick
    \/ NewLists
    \/ EndTick
    \/ Expire
    \/ Swept

Spec == Init /\ [][Next]_vars

-----------------------------------------------------------------------------
PC == {"idle", "asking", "adding", "answered", "shape", "loading", "ticked",
       "sweeping", "swept"}

TypeOK ==
    /\ active \in SUBSET Rules
    /\ tunnel \in [Rules -> TunnelStates]
    /\ hosts \in [Addrs -> Rules \cup {NoRule}]
    /\ pfStale \in BOOLEAN
    /\ last \in Shapes \cup {Nothing}
    /\ syncing \in Syncers \cup {Nothing}
    /\ taken \in Shapes \cup {Nothing}
    /\ snap \in Tables \cup {Nothing}
    /\ queue \in Seq(Tasks)
    /\ job \in [Tasks -> Jobs]
    /\ pc \in [Tasks -> PC]
    /\ rule \in [Queries -> Rules \cup {NoRule}]
    /\ ips \in [Queries -> SUBSET Addrs]
    /\ turn \in {"rules", "sources"}
    /\ sweep \in Tables
    /\ ruleset \in Shapes
    /\ table \in Tables

-----------------------------------------------------------------------------
(* How the tasks, the lock and the load stand to each other.               *)

WaitStates == {"adding", "loading", "sweeping"}
Waits(t) == pc[t] \in WaitStates

Roles ==
    /\ \A q \in Queries : pc[q] \in {"idle", "asking", "adding", "answered"}
    /\ \A l \in Links : pc[l] \in {"idle", "shape", "loading"}
    /\ pc[Watch] \in {"idle", "shape", "loading", "ticked", "sweeping", "swept"}
    /\ \A q \in Queries : pc[q] = "asking" => rule[q] \in Rules

QueueIsWaiting ==
    /\ \A i, j \in 1 .. Len(queue) : queue[i] = queue[j] => i = j
    /\ \A i \in 1 .. Len(queue) : Waits(queue[i])
    /\ \A t \in Tasks : Waits(t) => \E i \in 1 .. Len(queue) : queue[i] = t

JobsFit ==
    \A t \in Tasks :
        /\ pc[t] = "adding" => job[t].op = "add" /\ job[t].rule \in Rules
        /\ pc[t] = "loading" => job[t].op = "load"
        /\ pc[t] = "sweeping" => job[t].op = "delete" /\ job[t].rule \in Rules
        /\ ~Waits(t) => job[t] = Idle

OneLoad ==
    /\ \A s \in Syncers : pc[s] = "loading" <=> syncing = s
    /\ syncing # Nothing => taken \in Shapes
    /\ snap # Nothing => syncing # Nothing /\ Holder(syncing)

SweepsInTurn ==
    /\ pc[Watch] # "sweeping" => sweep = Empty
    /\ ~MixedSweep => sweep = Empty

(* At most one load is on its way, of the task that holds pf_shape, and no *)
(* tables are taken for it but under Pf::lock; a task waits for the lock   *)
(* exactly while it has a command to run there.                            *)
LockKept == Roles /\ QueueIsWaiting /\ JobsFit /\ OneLoad /\ SweepsInTurn

-----------------------------------------------------------------------------
(* The tables the load in flight, or the next one, brings. *)
Coming == IF snap = Nothing THEN HostTables ELSE snap

(* What the pending commands will do to the table entry of a for r.        *)
Puts(t, a, r) ==
    \/ job[t].op = "add" /\ job[t].rule = r /\ a \in job[t].ips
    \/ job[t].op = "load" /\ a \in Coming[r]

Cuts(t, a, r) ==
    \/ job[t].op = "delete" /\ job[t].rule = r /\ a \in job[t].ips
    \/ job[t].op = "load" /\ a \notin Coming[r]

(* Once the queue is served, a is in the table of r. *)
Settled(a, r) ==
    \/ a \in table[r] /\ \A i \in 1 .. Len(queue) : ~Cuts(queue[i], a, r)
    \/ \E i \in 1 .. Len(queue) :
          /\ Puts(queue[i], a, r)
          /\ \A j \in i + 1 .. Len(queue) : ~Cuts(queue[j], a, r)

(* The task t is going to add a to the table of r. *)
Adds(t, a, r) == job[t].op = "add" /\ job[t].rule = r /\ a \in job[t].ips

(* The entry is there to stay, or an add that stays is on its way. *)
InHand(a, r) ==
    \/ a \in table[r] /\ \A i \in 1 .. Len(queue) : ~Cuts(queue[i], a, r)
    \/ \E i \in 1 .. Len(queue) :
          /\ Adds(queue[i], a, r)
          /\ \A j \in i + 1 .. Len(queue) : ~Cuts(queue[j], a, r)

(* Once the load in flight is done, pf blocks the hosts of r. *)
Blocked(r) == IF syncing = Nothing THEN ruleset[r] # "off" ELSE taken[r] # "off"

(* A rule in force is blocked, or pf is known to be stale. *)
ActiveBlocked == \A r \in active : ~pfStale => Blocked(r)

-----------------------------------------------------------------------------
(* Every address the resolver holds for a rule in force is held back by pf *)
(* or about to be: it is in the table of its rule once the queued pfctl    *)
(* commands have run and the ruleset blocks that table, or else pf is      *)
(* known to be stale and the next sync_pf reloads it.  The code: listed    *)
(* adds only what route_host calls new, expire deletes what a query may    *)
(* add again, and a load takes its tables while adds wait behind it.       *)
HostsHeld ==
    \A a \in Addrs, r \in active :
        hosts[a] = r /\ ~pfStale => Settled(a, r) /\ Blocked(r)

(* As long as routes and pfctl work, no host of a rule waits for a reload: *)
(* it is in the table of its rule, and no queued command takes it out, or  *)
(* its add is queued behind all that do.  So what a query finds routed for *)
(* its rule (route_host: not new) is held, or another query is adding it.  *)
HostsInHand == \A a \in Addrs, r \in Rules : hosts[a] = r => InHand(a, r)

(* pf lets go what the resolver let go: an entry of a blocked table that   *)
(* is not a host of that rule has its deletion or a reload ahead.  An add  *)
(* queued before its address was dropped must not outlive the drop.        *)
NothingElseHeld ==
    \A a \in Addrs, r \in active :
        hosts[a] # r /\ ~pfStale => ~Settled(a, r) \/ a \in sweep[r]

(* What sync_pf takes for loaded is what pf runs: a load that failed, and  *)
(* may have gone through all the same, is never taken for the last shape.  *)
LastIsLoaded == last # Nothing /\ syncing = Nothing => ruleset = last

(* An answer goes out only with every address of it held by pf in the      *)
(* table of its rule: "Routed, but not held by the kill switch: not handed *)
(* out" (Resolver::listed).                                                *)
HeldNow(a, r) == a \in table[r] /\ ruleset[r] # "off"
Answers(q) == pc[q] # "answered" /\ pc'[q] = "answered"
AnswerHeld ==
    [][\A q \in Queries : Answers(q) =>
            \A a \in ips'[q] : hosts'[a] # NoRule /\ HeldNow(a, hosts[a])']_vars

(* An address stays out of pf only for a while: unless pfctl fails for     *)
(* ever, it is let go, or blocked outside the tunnels of its rule.         *)
Pending(a, r) == hosts[a] = r /\ r \in active
HeldInTheEnd ==
    \A a \in Addrs, r \in Rules :
        Pending(a, r) ~> ~Pending(a, r) \/ HeldNow(a, r)

(* The runtime polls every ready task, pfctl ends or times out, and the    *)
(* watch steps once a second; a load that is tried again and again goes    *)
(* through.  Queries, link changes and sweeps come as they come.           *)
Fairness ==
    /\ \A q \in Queries : WF_vars(Added(q) \/ AddFails(q))
    /\ \A s \in Syncers : WF_vars(Sync(s)) /\ SF_vars(Loaded(s))
    /\ WF_vars(Swept)
    /\ WF_vars(EndTick)
    /\ WF_vars(WatchTick)

FairSpec == Spec /\ Fairness

(* What pf will hold for the rules in force, as far as it is known. *)
Held ==
    IF pfStale THEN Nothing
    ELSE [r \in Rules |->
             IF r \in active THEN {a \in Addrs : Settled(a, r) /\ Blocked(r)} ELSE {}]

(* The lock, its queue and a load that takes its tables late make no       *)
(* difference: what pf will hold changes in the very step that changes the *)
(* hosts (HostTable), and by nothing but an answer, a sweep or a reload.   *)
Table == INSTANCE HostTable WITH held <- Held, Unknown <- Nothing
HoldsAtOnce == Table!Spec
=============================================================================
