-------------------------- MODULE KillSwitchProofs --------------------------
(***************************************************************************)
(* What holds of KillSwitch for any rules, addresses, queries and links.   *)
(***************************************************************************)
EXTENDS KillSwitch, SequenceTheorems, TLAPS

-----------------------------------------------------------------------------
(* The lock's queue: how it changes when a task asks and when one is done. *)

(* A task that asks comes last; nobody before it moves. *)
LEMMA Appended ==
    ASSUME NEW q \in Seq(Tasks), NEW t \in Tasks
    PROVE  /\ Append(q, t) \in Seq(Tasks)
           /\ Len(Append(q, t)) = Len(q) + 1
           /\ Len(q) \in Nat
           /\ \A i \in 1 .. Len(q) : Append(q, t)[i] = q[i] /\ q[i] \in Tasks
           /\ Append(q, t)[Len(q) + 1] = t
BY AppendProperties, LenProperties, ElementOfSeq

(* When the first is done everybody moves up by one. *)
LEMMA MovedUp ==
    ASSUME NEW q \in Seq(Tasks), q # <<>>
    PROVE  /\ Tail(q) \in Seq(Tasks)
           /\ Len(Tail(q)) = Len(q) - 1
           /\ Len(q) \in Nat \ {0}
           /\ Head(q) = q[1] /\ Head(q) \in Tasks
           /\ \A i \in 1 .. Len(q) : q[i] \in Tasks
           /\ \A i \in 1 .. Len(q) - 1 : Tail(q)[i] = q[i + 1]
<1>1. Len(q) \in Nat \ {0}
  BY EmptySeq, LenProperties
<1>2. Tail(q) \in Seq(Tasks) /\ Len(Tail(q)) = Len(q) - 1 /\ Head(q) \in Tasks
  BY HeadTailProperties
<1>3. \A i \in 1 .. Len(q) - 1 : Tail(q)[i] = q[i + 1]
  BY HeadTailProperties, <1>2
<1>4. Head(q) = q[1]
  BY SMT
<1>5. \A i \in 1 .. Len(q) : q[i] \in Tasks
  BY ElementOfSeq
<1> QED
  BY <1>1, <1>2, <1>3, <1>4, <1>5

(* Nothing is asked of the lock and nobody is done: all stays in order.    *)
LEMMA QueueUnmoved ==
    ASSUME QueueIsWaiting, UNCHANGED queue, \A t \in Tasks : Waits(t)' <=> Waits(t),
           TypeOK
    PROVE  QueueIsWaiting'
<1>1. \A i \in 1 .. Len(queue) : queue[i] \in Tasks
  BY ElementOfSeq DEF TypeOK
<1> QED
  BY <1>1 DEF QueueIsWaiting

(* A task that did not wait asks for the lock. *)
LEMMA QueueAsked ==
    ASSUME TypeOK, QueueIsWaiting,
           NEW t \in Tasks, ~Waits(t), Waits(t)',
           \A u \in Tasks \ {t} : pc'[u] = pc[u],
           queue' = Append(queue, t)
    PROVE  QueueIsWaiting'
<1> USE DEF Waits
<1>1. queue \in Seq(Tasks)
  BY DEF TypeOK
<1> DEFINE n == Len(queue)
<1>2. /\ n \in Nat /\ Len(queue') = n + 1 /\ queue'[n + 1] = t
      /\ \A i \in 1 .. n : queue'[i] = queue[i] /\ queue[i] \in Tasks
  BY <1>1, Appended
<1>3. \A i \in 1 .. n : Waits(queue[i]) /\ queue[i] # t
  BY DEF QueueIsWaiting
<1>4. 1 .. (n + 1) = (1 .. n) \cup {n + 1} /\ n + 1 \notin 1 .. n
  BY <1>2
<1> HIDE DEF n
<1>5. \A i, j \in 1 .. n + 1 : queue'[i] = queue'[j] => i = j
  BY <1>2, <1>3, <1>4 DEF QueueIsWaiting, n
<1>6. \A i \in 1 .. n + 1 : pc'[queue'[i]] \in WaitStates
  BY <1>2, <1>3, <1>4
<1>7. \A u \in Tasks : Waits(u)' => \E i \in 1 .. n + 1 : queue'[i] = u
  <2> SUFFICES ASSUME NEW u \in Tasks, Waits(u)'
               PROVE  \E i \in 1 .. n + 1 : queue'[i] = u
    OBVIOUS
  <2>1. CASE u = t
    BY <2>1, <1>2, <1>4
  <2>2. CASE u # t
    BY <2>2, <1>2, <1>4 DEF QueueIsWaiting, n
  <2> QED
    BY <2>1, <2>2
<1> QED
  BY <1>2, <1>5, <1>6, <1>7 DEF QueueIsWaiting

(* The holder is done with the lock. *)
LEMMA QueueReleased ==
    ASSUME TypeOK, QueueIsWaiting,
           NEW t \in Tasks, Holder(t), ~Waits(t)',
           \A u \in Tasks \ {t} : pc'[u] = pc[u],
           queue' = Tail(queue)
    PROVE  QueueIsWaiting'
<1> USE DEF Waits
<1>1. queue \in Seq(Tasks) /\ queue # <<>> /\ Head(queue) = t
  BY DEF TypeOK, Holder
<1> DEFINE n == Len(queue)
<1>2. /\ n \in Nat \ {0} /\ Len(queue') = n - 1 /\ queue[1] = t
      /\ \A i \in 1 .. n - 1 : queue'[i] = queue[i + 1]
      /\ \A i \in 1 .. n : queue[i] \in Tasks
  BY <1>1, MovedUp
<1> HIDE DEF n
<1>3. \A i, j \in 1 .. n : queue[i] = queue[j] => i = j
  BY DEF QueueIsWaiting, n
<1>4. \A i \in 1 .. n - 1 : i + 1 \in 1 .. n /\ i + 1 # 1 /\ 1 \in 1 .. n
  BY <1>2
<1>5. \A i, j \in 1 .. n - 1 : queue'[i] = queue'[j] => i = j
  BY <1>2, <1>3, <1>4
<1>6. \A i \in 1 .. n - 1 : pc'[queue'[i]] \in WaitStates
  BY <1>2, <1>3, <1>4 DEF QueueIsWaiting, n
<1>7. \A u \in Tasks : Waits(u)' => \E i \in 1 .. n - 1 : queue'[i] = u
  <2> SUFFICES ASSUME NEW u \in Tasks, Waits(u)'
               PROVE  \E i \in 1 .. n - 1 : queue'[i] = u
    OBVIOUS
  <2>1. PICK i \in 1 .. n : queue[i] = u
    BY DEF QueueIsWaiting, n
  <2>2. i # 1
    BY <2>1, <1>2
  <2>3. i - 1 \in 1 .. n - 1 /\ (i - 1) + 1 = i
    BY <2>2, <1>2
  <2> QED
    BY <2>1, <2>3, <1>2
<1> QED
  BY <1>2, <1>5, <1>6, <1>7 DEF QueueIsWaiting

(* The holder is done with one command and asks for the next. *)
LEMMA QueueAskedAgain ==
    ASSUME TypeOK, QueueIsWaiting,
           NEW t \in Tasks, Holder(t), UNCHANGED pc,
           queue' = Append(Tail(queue), t)
    PROVE  QueueIsWaiting'
<1>1. queue \in Seq(Tasks) /\ queue # <<>> /\ Head(queue) = t
  BY DEF TypeOK, Holder
<1> DEFINE n == Len(queue)
<1>2. /\ n \in Nat \ {0} /\ Len(Tail(queue)) = n - 1 /\ queue[1] = t
      /\ Tail(queue) \in Seq(Tasks)
      /\ \A i \in 1 .. n - 1 : Tail(queue)[i] = queue[i + 1]
      /\ \A i \in 1 .. n : queue[i] \in Tasks
  BY <1>1, MovedUp
<1>3. /\ Len(queue') = n /\ queue'[n] = t
      /\ \A i \in 1 .. n - 1 : queue'[i] = queue[i + 1]
  BY <1>2, Appended
<1> HIDE DEF n
<1>4. \A i, j \in 1 .. n : queue[i] = queue[j] => i = j
  BY DEF QueueIsWaiting, n
<1>5. \A i \in 1 .. n : Waits(queue[i])
  BY DEF QueueIsWaiting, n
<1>6. \A i \in 1 .. n : i = n \/ (i \in 1 .. n - 1 /\ i + 1 \in 1 .. n /\ i + 1 # 1)
  BY <1>2
<1>7. \A i, j \in 1 .. n : queue'[i] = queue'[j] => i = j
  BY <1>2, <1>3, <1>4, <1>6
<1>8. \A i \in 1 .. n : pc'[queue'[i]] \in WaitStates
  BY <1>2, <1>3, <1>5, <1>6 DEF Waits
<1>9. \A u \in Tasks : Waits(u)' => \E i \in 1 .. n : queue'[i] = u
  <2> SUFFICES ASSUME NEW u \in Tasks, Waits(u)
               PROVE  \E i \in 1 .. n : queue'[i] = u
    BY DEF Waits
  <2>1. PICK i \in 1 .. n : queue[i] = u
    BY DEF QueueIsWaiting, n
  <2>2. CASE i = 1
    BY <2>1, <2>2, <1>2, <1>3
  <2>3. CASE i # 1
    <3>1. i - 1 \in 1 .. n - 1 /\ (i - 1) + 1 = i /\ i - 1 \in 1 .. n
      BY <2>3, <1>2
    <3> QED
      BY <2>1, <3>1, <1>3
  <2> QED
    BY <2>2, <2>3
<1> QED
  BY <1>3, <1>7, <1>8, <1>9 DEF QueueIsWaiting, Waits

-----------------------------------------------------------------------------
(* Types.                                                                  *)

(* What the resolver tells pf is a shape and tables. *)
LEMMA ShapeType ==
    ASSUME tunnel \in [Rules -> TunnelStates]
    PROVE  Shape \in Shapes /\ HostTables \in Tables /\ Empty \in Tables
BY DEF Shape, Shapes, ShapeStates, HostTables, Tables, Empty

(* A command makes tables of tables, and so does a load. *)
LEMMA AppliedType ==
    ASSUME table \in Tables, NEW j \in Jobs
    PROVE  Applied(j) \in Tables
<1>1. j.ips \in SUBSET Addrs
  BY DEF Jobs
<1>2. CASE j.op = "add"
  BY <1>1, <1>2 DEF Applied, Tables
<1>3. CASE j.op # "add"
  BY <1>1, <1>3 DEF Applied, Tables
<1> QED
  BY <1>2, <1>3

LEMMA ReplacedType ==
    ASSUME table \in Tables, snap \in Tables
    PROVE  Replaced \in Tables
BY DEF Replaced, Tables

(* The command a task asks the lock for, and none. *)
LEMMA JobType ==
    ASSUME NEW r \in Rules \cup {NoRule}, NEW as \in SUBSET Addrs,
           NEW op \in {"none", "add", "delete", "load"}
    PROVE  [op |-> op, rule |-> r, ips |-> as] \in Jobs /\ Idle \in Jobs
BY DEF Jobs, Idle

LEMMA RequestType ==
    ASSUME TypeOK, NEW t \in Tasks, NEW r \in Rules \cup {NoRule},
           NEW as \in SUBSET Addrs, NEW op \in {"add", "delete", "load"},
           Request(t, op, r, as)
    PROVE  queue' \in Seq(Tasks) /\ job' \in [Tasks -> Jobs]
<1>1. queue' \in Seq(Tasks)
  BY Appended DEF TypeOK, Request
<1>2. [op |-> op, rule |-> r, ips |-> as] \in Jobs
  BY JobType
<1> QED
  BY <1>1, <1>2 DEF TypeOK, Request

LEMMA ReleaseType ==
    ASSUME TypeOK, NEW t \in Tasks, Holder(t), Release(t)
    PROVE  queue' \in Seq(Tasks) /\ job' \in [Tasks -> Jobs]
<1>1. queue' \in Seq(Tasks)
  BY MovedUp DEF TypeOK, Holder, Release
<1>2. Idle \in Jobs
  BY JobType DEF Idle
<1> QED
  BY <1>1, <1>2 DEF TypeOK, Release

-----------------------------------------------------------------------------
(* The types are kept, with the help of LockKept: what a load puts into    *)
(* the kernel is a shape that was taken, and tables that were taken.       *)

LEMMA TypeInit == Init => TypeOK
<1> SUFFICES ASSUME Init PROVE TypeOK
  OBVIOUS
<1>1. active \in SUBSET Rules /\ tunnel \in [Rules -> TunnelStates]
  BY DEF Init, TunnelStates
<1>2. Shape \in Shapes /\ HostTables \in Tables /\ Empty \in Tables
  BY <1>1, ShapeType
<1>3. queue \in Seq(Tasks)
  BY EmptySeq DEF Init
<1>4. Idle \in Jobs
  BY JobType DEF Idle
<1> QED
  BY <1>1, <1>2, <1>3, <1>4 DEF Init, TypeOK, PC

LEMMA TypeOfQuery ==
    ASSUME TypeOK, NEW q \in Queries, Query(q)
    PROVE  TypeOK'
<1> USE DEF TypeOK, core, syncVars, lockVars, queryVars, watchVars, kernel
<1>0. q \in Tasks
  BY DEF Tasks
<1>1. CASE Ask(q)
  BY <1>1 DEF Ask, PC
<1>2. CASE NoAnswer(q)
  BY <1>2 DEF NoAnswer, PC
<1>3. CASE RouteAnswer(q)
  <2>1. PICK as \in SUBSET Addrs :
           LET r == rule[q]
               rest == as \ Kept(r, as)
               new == NewTo(r, rest)
           IN  /\ RouteHosts(r, rest)
               /\ ips' = [ips EXCEPT ![q] = as]
               /\ \/ pc' = [pc EXCEPT ![q] = "answered"] /\ UNCHANGED <<queue, job>>
                  \/ pc' = [pc EXCEPT ![q] = "adding"] /\ Request(q, "add", r, new)
    BY <1>3 DEF RouteAnswer
  <2> DEFINE r == rule[q]
             rest == as \ Kept(r, as)
             new == NewTo(r, rest)
  <2>2. r \in Rules \cup {NoRule} /\ new \in SUBSET Addrs
    BY DEF NewTo
  <2>3. hosts' \in [Addrs -> Rules \cup {NoRule}] /\ pfStale' \in BOOLEAN
    BY <2>1, <2>2 DEF RouteHosts
  <2>4. ips' \in [Queries -> SUBSET Addrs] /\ pc' \in [Tasks -> PC]
    BY <2>1, <1>0 DEF PC
  <2>5. queue' \in Seq(Tasks) /\ job' \in [Tasks -> Jobs]
    <3>1. CASE UNCHANGED <<queue, job>>
      BY <3>1
    <3>2. CASE Request(q, "add", r, new)
      BY <3>2, <2>2, <1>0, RequestType
    <3> QED
      BY <2>1, <3>1, <3>2
  <2> QED
    BY <1>3, <2>3, <2>4, <2>5 DEF RouteAnswer
<1>4. CASE RouteFails(q)
  <2>1. hosts' \in [Addrs -> Rules \cup {NoRule}] /\ pfStale' \in BOOLEAN
    BY <1>4 DEF RouteFails, RouteHosts
  <2> QED
    BY <1>4, <2>1 DEF RouteFails, PC
<1>5. CASE Added(q)
  <2>1. Applied(job[q]) \in Tables
    BY <1>0, AppliedType
  <2>2. queue' \in Seq(Tasks) /\ job' \in [Tasks -> Jobs]
    BY <1>0, <1>5, ReleaseType DEF Added
  <2> QED
    BY <1>5, <2>1, <2>2 DEF Added, PC
<1>6. CASE AddFails(q)
  <2>1. Applied(job[q]) \in Tables
    BY <1>0, AppliedType
  <2>2. queue' \in Seq(Tasks) /\ job' \in [Tasks -> Jobs]
    BY <1>0, <1>6, ReleaseType DEF AddFails
  <2> QED
    BY <1>6, <2>1, <2>2 DEF AddFails, PC, PfFails
<1>7. CASE Done(q)
  BY <1>7 DEF Done, PC
<1> QED
  BY <1>1, <1>2, <1>3, <1>4, <1>5, <1>6, <1>7 DEF Query

LEMMA TypeOfSync ==
    ASSUME TypeOK, OneLoad, NEW s \in Syncers, Sync(s)
    PROVE  TypeOK'
<1> USE DEF TypeOK, core, syncVars, lockVars, queryVars, watchVars, kernel
<1>0. s \in Tasks /\ Rest(s) \in PC /\ Shape \in Shapes /\ HostTables \in Tables
  BY ShapeType DEF Tasks, Rest, PC
<1>1. CASE SyncNothing(s)
  BY <1>0, <1>1 DEF SyncNothing
<1>2. CASE SyncLoad(s)
  <2>1. queue' \in Seq(Tasks) /\ job' \in [Tasks -> Jobs]
    BY <1>0, <1>2, RequestType DEF SyncLoad
  <2> QED
    BY <1>0, <1>2, <2>1 DEF SyncLoad, PC
<1>3. CASE LoadTakes(s)
  BY <1>0, <1>3 DEF LoadTakes
<1>4. ASSUME pc[s] = "loading", snap # Nothing
      PROVE  taken \in Shapes /\ Replaced \in Tables
  BY <1>4, ReplacedType DEF OneLoad
<1>5. CASE Loaded(s)
  <2>1. queue' \in Seq(Tasks) /\ job' \in [Tasks -> Jobs]
    BY <1>0, <1>5, ReleaseType DEF Loaded
  <2> QED
    BY <1>0, <1>4, <1>5, <2>1 DEF Loaded
<1>6. CASE LoadFails(s)
  <2>1. queue' \in Seq(Tasks) /\ job' \in [Tasks -> Jobs]
    BY <1>0, <1>6, ReleaseType DEF LoadFails
  <2> QED
    BY <1>0, <1>4, <1>6, <2>1 DEF LoadFails, PfFails, LastLost
<1> QED
  BY <1>1, <1>2, <1>3, <1>5, <1>6 DEF Sync

LEMMA TypeOfOthers ==
    ASSUME TypeOK,
           \/ \E l \in Links : LinkSync(l)
           \/ WatchTick \/ NewLists \/ EndTick \/ Expire \/ Swept
    PROVE  TypeOK'
<1> USE DEF TypeOK, core, syncVars, lockVars, queryVars, watchVars, kernel
<1>0. Watch \in Tasks /\ Links \subseteq Tasks
  BY DEF Tasks, Syncers
<1>1. CASE \E l \in Links : LinkSync(l)
  BY <1>0, <1>1 DEF LinkSync, PC
<1>2. CASE WatchTick
  BY <1>0, <1>2 DEF WatchTick, PC
<1>3. CASE NewLists
  BY <1>0, <1>3 DEF NewLists, PC
<1>4. CASE EndTick
  BY <1>0, <1>4 DEF EndTick, PC
<1>5. CASE Expire
  <2> DEFINE batch(gone, s) == {a \in gone : hosts[a] = s}
  <2>1. PICK gone \in SUBSET Expirable, r \in Rules :
           /\ hosts' = [a \in Addrs |-> IF a \in gone THEN NoRule ELSE hosts[a]]
           /\ Request(Watch, "delete", r, batch(gone, r))
           /\ sweep' = [s \in Rules |-> IF s = r THEN {} ELSE batch(gone, s)]
    BY <1>5 DEF Expire
  <2>2. gone \subseteq Addrs
    BY DEF Expirable
  <2>3. queue' \in Seq(Tasks) /\ job' \in [Tasks -> Jobs]
    BY <1>0, <2>1, <2>2, RequestType
  <2>4. hosts' \in [Addrs -> Rules \cup {NoRule}] /\ sweep' \in Tables
    BY <2>1, <2>2 DEF Tables
  <2> QED
    BY <1>0, <1>5, <2>3, <2>4 DEF Expire, PC
<1>6. CASE Swept
  <2>1. Applied(job[Watch]) \in Tables
    BY <1>0, AppliedType
  <2>2. table' \in Tables /\ pfStale' \in BOOLEAN
    BY <1>6, <2>1 DEF Swept, PfFails
  <2>3. CASE Release(Watch) /\ UNCHANGED sweep /\ pc' = [pc EXCEPT ![Watch] = "swept"]
    <3>1. queue' \in Seq(Tasks) /\ job' \in [Tasks -> Jobs]
      BY <1>0, <1>6, <2>3, ReleaseType DEF Swept
    <3> QED
      BY <1>0, <1>6, <2>2, <2>3, <3>1 DEF Swept, PC
  <2>4. ASSUME NEW r \in Rules,
               queue' = Append(Tail(queue), Watch),
               job' = [job EXCEPT ![Watch] = [op |-> "delete", rule |-> r, ips |-> sweep[r]]],
               sweep' = [sweep EXCEPT ![r] = {}],
               UNCHANGED pc
        PROVE  TypeOK'
    <3>1. queue' \in Seq(Tasks)
      BY <1>0, <1>6, <2>4, MovedUp, Appended DEF Swept, Holder
    <3>2. [op |-> "delete", rule |-> r, ips |-> sweep[r]] \in Jobs /\ sweep' \in Tables
      BY <2>4, JobType DEF Tables
    <3> QED
      BY <1>0, <1>6, <2>2, <2>4, <3>1, <3>2 DEF Swept
  <2> QED
    BY <1>6, <2>3, <2>4 DEF Swept
<1> QED
  BY <1>1, <1>2, <1>3, <1>4, <1>5, <1>6

-----------------------------------------------------------------------------
(* The order of the tasks, the lock and the load is kept.                  *)

(* Who has the lock keeps it while others ask for it. *)
LEMMA HolderStays ==
    ASSUME TypeOK, NEW t \in Tasks, NEW u \in Tasks,
           queue' = Append(queue, t), Holder(u)
    PROVE  Holder(u)'
BY Appended, HeadTailAppend DEF TypeOK, Holder

LEMMA LockInit == Init => LockKept
<1> SUFFICES ASSUME Init PROVE LockKept
  OBVIOUS
<1> USE DEF Init
<1>1. Roles
  BY DEF Roles, Tasks, Syncers
<1>2. QueueIsWaiting
  <2>1. Len(queue) = 0 /\ 1 .. 0 = {}
    BY EmptySeq
  <2> QED
    BY <2>1 DEF QueueIsWaiting, Waits, WaitStates
<1>3. JobsFit /\ OneLoad /\ SweepsInTurn
  BY TasksAssumption DEF JobsFit, OneLoad, SweepsInTurn, Tasks, Syncers
<1> QED
  BY <1>1, <1>2, <1>3 DEF LockKept

(* A query alone moves, and keeps its part. *)
LEMMA RolesOfQuery ==
    ASSUME TypeOK, Roles, NEW q \in Queries,
           \A t \in Tasks \ {q} : pc'[t] = pc[t],
           pc'[q] \in {"idle", "asking", "adding", "answered"},
           \A p \in Queries \ {q} : rule'[p] = rule[p],
           pc'[q] = "asking" => rule'[q] \in Rules
    PROVE  Roles' /\ Watch \in Tasks \ {q} /\ Links \subseteq Tasks \ {q}
           /\ Syncers \subseteq Tasks \ {q} /\ q \in Tasks
<1>1. q \notin Syncers /\ Queries \subseteq Tasks /\ Syncers \subseteq Tasks
  BY TasksAssumption DEF Tasks
<1>2. Watch \in Syncers /\ Links \subseteq Syncers
  BY DEF Syncers
<1> QED
  BY <1>1, <1>2 DEF Roles

(* What goes for the lock and the load when a query moves without them. *)
LEMMA LockOfQueryAlone ==
    ASSUME TypeOK, LockKept, NEW q \in Queries,
           pc' = [pc EXCEPT ![q] = pc'[q]], ~Waits(q), ~Waits(q)',
           pc'[q] \in {"idle", "asking", "answered"},
           rule' = [rule EXCEPT ![q] = rule'[q]],
           pc'[q] = "asking" => rule'[q] \in Rules,
           UNCHANGED <<queue, job, syncing, taken, snap, sweep>>
    PROVE  LockKept'
<1>0. \A t \in Tasks \ {q} : pc'[t] = pc[t]
  BY DEF TypeOK
<1>1. Roles' /\ Watch \in Tasks \ {q} /\ Syncers \subseteq Tasks \ {q} /\ q \in Tasks
  BY <1>0, RolesOfQuery DEF LockKept, TypeOK
<1>2. \A t \in Tasks : Waits(t)' <=> Waits(t)
  BY <1>0 DEF Waits
<1>3. QueueIsWaiting'
  BY <1>2, QueueUnmoved DEF LockKept
<1>4. JobsFit'
  BY <1>0, <1>2 DEF LockKept, JobsFit, Waits, WaitStates
<1>5. OneLoad' /\ SweepsInTurn'
  BY <1>0, <1>1 DEF LockKept, OneLoad, SweepsInTurn, Holder
<1> QED
  BY <1>1, <1>3, <1>4, <1>5 DEF LockKept

LEMMA LockOfQuery ==
    ASSUME TypeOK, LockKept, NEW q \in Queries, Query(q)
    PROVE  LockKept'
<1> USE DEF core, syncVars, lockVars, queryVars, watchVars, kernel
<1>0. q \in Tasks /\ pc \in [Tasks -> PC] /\ rule \in [Queries -> Rules \cup {NoRule}]
  BY DEF Tasks, TypeOK
<1>1. CASE Ask(q)
  <2>1. ~Waits(q) /\ ~Waits(q)'
    BY <1>0, <1>1 DEF Ask, Waits, WaitStates
  <2> QED
    BY <1>0, <1>1, <2>1, LockOfQueryAlone DEF Ask
<1>2. CASE NoAnswer(q)
  <2>1. ~Waits(q) /\ ~Waits(q)'
    BY <1>0, <1>2 DEF NoAnswer, Waits, WaitStates
  <2> QED
    BY <1>0, <1>2, <2>1, LockOfQueryAlone DEF NoAnswer
<1>3. CASE RouteAnswer(q)
  <2>1. PICK as \in SUBSET Addrs :
           \/ pc' = [pc EXCEPT ![q] = "answered"] /\ UNCHANGED <<queue, job>>
           \/ /\ pc' = [pc EXCEPT ![q] = "adding"]
              /\ Request(q, "add", rule[q], NewTo(rule[q], as \ Kept(rule[q], as)))
    BY <1>3 DEF RouteAnswer
  <2>2. CASE pc' = [pc EXCEPT ![q] = "answered"] /\ UNCHANGED <<queue, job>>
    <3>1. ~Waits(q) /\ ~Waits(q)'
      BY <1>0, <1>3, <2>2 DEF RouteAnswer, Waits, WaitStates
    <3> QED
      BY <1>0, <1>3, <2>2, <3>1, LockOfQueryAlone DEF RouteAnswer
  <2> DEFINE new == NewTo(rule[q], as \ Kept(rule[q], as))
  <2>3. CASE /\ pc' = [pc EXCEPT ![q] = "adding"]
             /\ Request(q, "add", rule[q], new)
    <3>1. ~Waits(q) /\ Waits(q)' /\ pc[q] = "asking"
      BY <1>0, <1>3, <2>3 DEF RouteAnswer, Waits, WaitStates
    <3>2. Roles' /\ Watch \in Tasks \ {q} /\ Syncers \subseteq Tasks \ {q}
      BY <1>0, <1>3, <2>3, RolesOfQuery DEF LockKept, RouteAnswer
    <3>3. QueueIsWaiting'
      BY <1>0, <2>3, <3>1, QueueAsked DEF LockKept, Request
    <3>4. JobsFit'
      <4>1. rule[q] \in Rules
        BY <3>1 DEF LockKept, Roles
      <4>2. job' = [job EXCEPT ![q] = [op |-> "add", rule |-> rule[q], ips |-> new]]
        BY <2>3 DEF Request
      <4> HIDE DEF new
      <4> QED
        BY <1>0, <2>3, <3>1, <4>1, <4>2
        DEF LockKept, JobsFit, TypeOK, Waits, WaitStates
    <3>5. OneLoad'
      <4>1. \A s \in Syncers : pc'[s] = pc[s]
        BY <1>0, <2>3, <3>2
      <4>2. ASSUME snap # Nothing PROVE Holder(syncing)'
        <5>1. syncing \in Tasks /\ Holder(syncing)
          BY <4>2 DEF LockKept, OneLoad, TypeOK, Tasks
        <5>2. queue' = Append(queue, q) /\ syncing' = syncing
          BY <1>3, <2>3 DEF Request, RouteAnswer
        <5>3. \A u \in Tasks : Holder(u) => (queue' # <<>> /\ Head(queue') = u)
          BY <1>0, <5>2, HolderStays DEF Holder
        <5> QED
          BY <5>1, <5>2, <5>3 DEF Holder
      <4> QED
        BY <1>3, <4>1, <4>2 DEF LockKept, OneLoad, RouteAnswer
    <3>6. SweepsInTurn'
      BY <1>0, <1>3, <2>3, <3>2 DEF LockKept, SweepsInTurn, RouteAnswer
    <3> QED
      BY <3>2, <3>3, <3>4, <3>5, <3>6 DEF LockKept
  <2> QED
    BY <2>1, <2>2, <2>3
<1>4. CASE RouteFails(q)
  <2>1. ~Waits(q) /\ ~Waits(q)'
    BY <1>0, <1>4 DEF RouteFails, Waits, WaitStates
  <2> QED
    BY <1>0, <1>4, <2>1, LockOfQueryAlone DEF RouteFails
<1>5. ASSUME Holder(q), Release(q), pc[q] = "adding",
             pc' = [pc EXCEPT ![q] = pc'[q]], pc'[q] \in {"idle", "answered"},
             rule' = [rule EXCEPT ![q] = rule'[q]],
             UNCHANGED <<syncing, taken, snap, sweep>>
      PROVE  LockKept'
  <2>1. ~Waits(q)'
    BY <1>5 DEF Waits, WaitStates
  <2>2. Roles' /\ Watch \in Tasks \ {q} /\ Syncers \subseteq Tasks \ {q}
    BY <1>0, <1>5, RolesOfQuery DEF LockKept
  <2>3. QueueIsWaiting'
    BY <1>0, <1>5, <2>1, QueueReleased DEF LockKept, Release
  <2>4. JobsFit'
    BY <1>0, <1>5, <2>1 DEF LockKept, JobsFit, Release, TypeOK, Waits, WaitStates
  <2>5. snap = Nothing
    BY <1>0, <1>5, <2>2 DEF LockKept, OneLoad, Holder, TypeOK
  <2>6. OneLoad' /\ SweepsInTurn'
    BY <1>0, <1>5, <2>2, <2>5 DEF LockKept, OneLoad, SweepsInTurn
  <2> QED
    BY <2>2, <2>3, <2>4, <2>6 DEF LockKept
<1>6. CASE Added(q)
  BY <1>0, <1>5, <1>6 DEF Added
<1>7. CASE AddFails(q)
  BY <1>0, <1>5, <1>7 DEF AddFails
<1>8. CASE Done(q)
  <2>1. ~Waits(q) /\ ~Waits(q)'
    BY <1>0, <1>8 DEF Done, Waits, WaitStates
  <2> QED
    BY <1>0, <1>8, <2>1, LockOfQueryAlone DEF Done
<1> QED
  BY <1>1, <1>2, <1>3, <1>4, <1>6, <1>7, <1>8 DEF Query

(* A syncer alone moves, and keeps its part. *)
LEMMA RolesOfSyncer ==
    ASSUME TypeOK, Roles, NEW s \in Syncers,
           pc' = [pc EXCEPT ![s] = pc'[s]], UNCHANGED rule,
           \/ pc'[s] \in {"idle", "shape", "loading"}
           \/ s = Watch /\ pc'[s] \in {"ticked", "sweeping", "swept"}
    PROVE  Roles' /\ s \in Tasks /\ Watch \in Tasks /\ Syncers \subseteq Tasks
           /\ (\A t \in Tasks \ {s} : pc'[t] = pc[t])
<1>1. s \notin Queries /\ Queries \subseteq Tasks /\ Syncers \subseteq Tasks
  BY TasksAssumption DEF Tasks
<1>2. Watch \in Syncers /\ Links \subseteq Syncers /\ Watch \notin Links
  BY TasksAssumption DEF Syncers
<1>3. \A t \in Tasks \ {s} : pc'[t] = pc[t]
  BY <1>1 DEF TypeOK
<1> QED
  BY <1>1, <1>2, <1>3 DEF Roles

(* What goes for the lock and the load when a syncer moves without them. *)
LEMMA LockOfSyncerAlone ==
    ASSUME TypeOK, LockKept, NEW s \in Syncers,
           pc' = [pc EXCEPT ![s] = pc'[s]], ~Waits(s), ~Waits(s)',
           \/ pc'[s] \in {"idle", "shape"}
           \/ s = Watch /\ pc'[s] \in {"ticked", "swept"},
           UNCHANGED <<rule, queue, job, syncing, taken, snap, sweep>>
    PROVE  LockKept'
<1>1. /\ Roles' /\ s \in Tasks /\ Watch \in Tasks /\ Syncers \subseteq Tasks
      /\ \A t \in Tasks \ {s} : pc'[t] = pc[t]
  BY RolesOfSyncer DEF LockKept
<1>2. \A t \in Tasks : Waits(t)' <=> Waits(t)
  BY <1>1 DEF Waits
<1>3. QueueIsWaiting'
  BY <1>2, QueueUnmoved DEF LockKept
<1>4. JobsFit'
  BY <1>1, <1>2 DEF LockKept, JobsFit, Waits, WaitStates
<1>5. OneLoad' /\ SweepsInTurn'
  BY <1>1 DEF LockKept, OneLoad, SweepsInTurn, Holder, Waits, WaitStates
<1> QED
  BY <1>1, <1>3, <1>4, <1>5 DEF LockKept

LEMMA LockOfSync ==
    ASSUME TypeOK, LockKept, NEW s \in Syncers, Sync(s)
    PROVE  LockKept'
<1> USE DEF core, syncVars, lockVars, queryVars, watchVars, kernel
<1>0. /\ s \in Tasks /\ pc \in [Tasks -> PC] /\ Syncers \subseteq Tasks
      /\ Rest(s) = "idle" \/ (s = Watch /\ Rest(s) = "ticked")
      /\ s # Nothing
  BY TasksAssumption DEF Tasks, TypeOK, Rest
<1>1. CASE SyncNothing(s)
  <2>1. ~Waits(s) /\ ~Waits(s)'
    BY <1>0, <1>1 DEF SyncNothing, Waits, WaitStates
  <2> QED
    BY <1>0, <1>1, <2>1, LockOfSyncerAlone DEF SyncNothing
<1>2. CASE SyncLoad(s)
  <2>1. ~Waits(s) /\ Waits(s)' /\ pc[s] = "shape" /\ pc'[s] = "loading"
    BY <1>0, <1>2 DEF SyncLoad, Waits, WaitStates
  <2>2. Roles' /\ \A t \in Tasks \ {s} : pc'[t] = pc[t]
    BY <1>0, <1>2, RolesOfSyncer DEF LockKept, SyncLoad
  <2>3. QueueIsWaiting'
    BY <1>0, <1>2, <2>1, <2>2, QueueAsked DEF LockKept, SyncLoad, Request
  <2>4. JobsFit'
    <3>1. job' = [job EXCEPT ![s] = [op |-> "load", rule |-> NoRule, ips |-> {}]]
      BY <1>2 DEF SyncLoad, Request
    <3> QED
      BY <1>0, <2>1, <2>2, <3>1 DEF LockKept, JobsFit, TypeOK, Waits, WaitStates
  <2>5. OneLoad'
    <3>1. snap = Nothing /\ \A u \in Syncers : pc[u] # "loading"
      BY <1>2, TasksAssumption DEF LockKept, OneLoad, SyncLoad, Tasks
    <3>2. Shape \in Shapes
      BY ShapeType DEF TypeOK
    <3> QED
      BY <1>0, <1>2, <2>1, <2>2, <3>1, <3>2 DEF OneLoad, SyncLoad
  <2>6. SweepsInTurn'
    BY <1>0, <1>2, <2>1, <2>2 DEF LockKept, SweepsInTurn, SyncLoad, Syncers
  <2> QED
    BY <2>2, <2>3, <2>4, <2>5, <2>6 DEF LockKept
<1>3. CASE LoadTakes(s)
  <2>1. \A t \in Tasks : Waits(t)' <=> Waits(t)
    BY <1>3 DEF LoadTakes, Waits
  <2>2. QueueIsWaiting'
    BY <1>3, <2>1, QueueUnmoved DEF LockKept, LoadTakes
  <2>3. OneLoad'
    BY <1>0, <1>3 DEF LockKept, OneLoad, LoadTakes, Holder
  <2> QED
    BY <1>3, <2>1, <2>2, <2>3
    DEF LockKept, LoadTakes, Roles, JobsFit, SweepsInTurn, Waits, WaitStates
<1>4. ASSUME Holder(s), Release(s), pc[s] = "loading", snap' = Nothing,
             syncing' = Nothing, pc' = [pc EXCEPT ![s] = Rest(s)],
             UNCHANGED <<rule, sweep>>
      PROVE  LockKept'
  <2>1. pc'[s] = Rest(s) /\ ~Waits(s)'
    BY <1>0, <1>4 DEF Waits, WaitStates
  <2>2. Roles' /\ \A t \in Tasks \ {s} : pc'[t] = pc[t]
    BY <1>0, <1>4, <2>1, RolesOfSyncer DEF LockKept
  <2>3. QueueIsWaiting'
    BY <1>0, <1>4, <2>1, <2>2, QueueReleased DEF LockKept, Release
  <2>4. JobsFit'
    BY <1>0, <1>4, <2>1, <2>2 DEF LockKept, JobsFit, Release, TypeOK, Waits, WaitStates
  <2>5. OneLoad'
    <3>1. \A u \in Syncers : pc[u] = "loading" <=> syncing = u
      BY DEF LockKept, OneLoad
    <3>2. \A u \in Syncers : pc'[u] # "loading" /\ u # Nothing
      BY <1>0, <1>4, <2>1, <2>2, <3>1, TasksAssumption DEF Tasks
    <3> QED
      BY <1>4, <3>2 DEF OneLoad
  <2>6. SweepsInTurn'
    BY <1>0, <1>4, <2>1, <2>2 DEF LockKept, SweepsInTurn, Syncers
  <2> QED
    BY <2>2, <2>3, <2>4, <2>5, <2>6 DEF LockKept
<1>5. CASE Loaded(s)
  BY <1>4, <1>5 DEF Loaded
<1>6. CASE LoadFails(s)
  BY <1>4, <1>6 DEF LoadFails
<1> QED
  BY <1>1, <1>2, <1>3, <1>5, <1>6 DEF Sync

LEMMA LockOfOthers ==
    ASSUME TypeOK, LockKept,
           \/ \E l \in Links : LinkSync(l)
           \/ WatchTick \/ NewLists \/ EndTick \/ Expire \/ Swept
    PROVE  LockKept'
<1> USE DEF core, syncVars, lockVars, queryVars, watchVars, kernel
<1>0. /\ Watch \in Tasks /\ Links \subseteq Tasks /\ Watch \in Syncers
      /\ Syncers \subseteq Tasks /\ Links \subseteq Syncers /\ pc \in [Tasks -> PC]
  BY DEF Tasks, Syncers, TypeOK
<1>1. CASE \E l \in Links : LinkSync(l)
  <2>1. PICK l \in Links : LinkSync(l)
    BY <1>1
  <2>2. ~Waits(l) /\ ~Waits(l)'
    BY <1>0, <2>1 DEF LinkSync, Waits, WaitStates
  <2> QED
    BY <1>0, <2>1, <2>2, LockOfSyncerAlone DEF LinkSync
<1>2. CASE WatchTick
  <2>1. ~Waits(Watch) /\ ~Waits(Watch)'
    BY <1>0, <1>2 DEF WatchTick, Waits, WaitStates
  <2> QED
    BY <1>0, <1>2, <2>1, LockOfSyncerAlone DEF WatchTick
<1>3. CASE NewLists
  <2>1. ~Waits(Watch) /\ ~Waits(Watch)'
    BY <1>0, <1>3 DEF NewLists, Waits, WaitStates
  <2> QED
    BY <1>0, <1>3, <2>1, LockOfSyncerAlone DEF NewLists
<1>4. CASE EndTick
  <2>1. ~Waits(Watch) /\ ~Waits(Watch)'
    BY <1>0, <1>4 DEF EndTick, Waits, WaitStates
  <2> QED
    BY <1>0, <1>4, <2>1, LockOfSyncerAlone DEF EndTick
<1>5. CASE Expire
  <2> DEFINE batch(gone, s) == {a \in gone : hosts[a] = s}
  <2>1. PICK gone \in SUBSET Expirable, r \in Rules :
           /\ ~MixedSweep => gone = batch(gone, r)
           /\ Request(Watch, "delete", r, batch(gone, r))
           /\ sweep' = [s \in Rules |-> IF s = r THEN {} ELSE batch(gone, s)]
    BY <1>5 DEF Expire
  <2>2. pc' = [pc EXCEPT ![Watch] = "sweeping"] /\ pc[Watch] = "ticked"
        /\ UNCHANGED <<rule, syncing, taken, snap>>
    BY <1>5 DEF Expire
  <2>3. ~Waits(Watch) /\ Waits(Watch)' /\ pc'[Watch] = "sweeping"
    BY <1>0, <2>2 DEF Waits, WaitStates
  <2>4. Roles' /\ \A t \in Tasks \ {Watch} : pc'[t] = pc[t]
    BY <1>0, <2>2, <2>3, RolesOfSyncer DEF LockKept
  <2>5. QueueIsWaiting'
    BY <1>0, <2>1, <2>3, <2>4, QueueAsked DEF LockKept, Request
  <2>6. JobsFit'
    <3>1. job' = [job EXCEPT ![Watch] =
                     [op |-> "delete", rule |-> r, ips |-> batch(gone, r)]]
      BY <2>1 DEF Request
    <3> HIDE DEF batch
    <3> QED
      BY <1>0, <2>3, <2>4, <3>1 DEF LockKept, JobsFit, TypeOK, Waits, WaitStates
  <2>7. OneLoad'
    <3>1. \A u \in Syncers : pc'[u] = "loading" <=> syncing' = u
      BY <1>0, <2>2, <2>3, <2>4 DEF LockKept, OneLoad
    <3>2. ASSUME snap # Nothing PROVE Holder(syncing)'
      <4>1. syncing \in Tasks /\ Holder(syncing)
        BY <3>2 DEF LockKept, OneLoad, TypeOK, Tasks
      <4>2. queue' = Append(queue, Watch)
        BY <2>1 DEF Request
      <4>3. \A u \in Tasks : Holder(u) => (queue' # <<>> /\ Head(queue') = u)
        BY <1>0, <4>2, HolderStays DEF Holder
      <4> QED
        BY <2>2, <4>1, <4>3 DEF Holder
    <3> QED
      BY <2>2, <3>1, <3>2 DEF LockKept, OneLoad
  <2>8. SweepsInTurn'
    BY <2>1, <2>3 DEF SweepsInTurn, Empty
  <2> QED
    BY <2>4, <2>5, <2>6, <2>7, <2>8 DEF LockKept
<1>6. CASE Swept
  <2>1. Holder(Watch) /\ pc[Watch] = "sweeping" /\ UNCHANGED <<rule, syncing, taken, snap>>
    BY <1>6 DEF Swept
  <2>2. snap = Nothing /\ syncing # Watch
    BY <1>0, <2>1 DEF LockKept, OneLoad, Holder
  <2>3. CASE Release(Watch) /\ UNCHANGED sweep /\ pc' = [pc EXCEPT ![Watch] = "swept"]
             /\ sweep = Empty
    <3>1. pc'[Watch] = "swept" /\ ~Waits(Watch)'
      BY <1>0, <2>3 DEF Waits, WaitStates
    <3>2. Roles' /\ \A t \in Tasks \ {Watch} : pc'[t] = pc[t]
      BY <1>0, <2>1, <2>3, <3>1, RolesOfSyncer DEF LockKept
    <3>3. QueueIsWaiting'
      BY <1>0, <2>1, <2>3, <3>1, <3>2, QueueReleased DEF LockKept, Release
    <3>4. JobsFit'
      BY <1>0, <2>1, <2>3, <3>1, <3>2
      DEF LockKept, JobsFit, Release, TypeOK, Waits, WaitStates
    <3>5. OneLoad'
      <4>1. \A u \in Syncers : pc'[u] = "loading" <=> syncing' = u
        BY <1>0, <2>1, <2>2, <3>1, <3>2 DEF LockKept, OneLoad
      <4> QED
        BY <2>1, <2>2, <4>1 DEF LockKept, OneLoad
    <3>6. SweepsInTurn'
      BY <2>3 DEF SweepsInTurn
    <3> QED
      BY <3>2, <3>3, <3>4, <3>5, <3>6 DEF LockKept
  <2>4. ASSUME NEW r \in Rules, sweep[r] # {},
               queue' = Append(Tail(queue), Watch),
               job' = [job EXCEPT ![Watch] = [op |-> "delete", rule |-> r, ips |-> sweep[r]]],
               sweep' = [sweep EXCEPT ![r] = {}],
               UNCHANGED pc
        PROVE  LockKept'
    <3>1. Roles'
      BY <2>1, <2>4 DEF LockKept, Roles
    <3>2. QueueIsWaiting'
      BY <1>0, <2>1, <2>4, QueueAskedAgain DEF LockKept
    <3>3. JobsFit'
      BY <1>0, <2>1, <2>4 DEF LockKept, JobsFit, TypeOK, Waits, WaitStates
    <3>4. OneLoad'
      BY <2>1, <2>2, <2>4 DEF LockKept, OneLoad
    <3>5. SweepsInTurn'
      BY <2>1, <2>4 DEF LockKept, SweepsInTurn, Empty
    <3> QED
      BY <3>1, <3>2, <3>3, <3>4, <3>5 DEF LockKept
  <2> QED
    BY <1>6, <2>3, <2>4 DEF Swept
<1> QED
  BY <1>1, <1>2, <1>3, <1>4, <1>5, <1>6

-----------------------------------------------------------------------------
(* The types and the lock's order together are inductive. *)
Inv == TypeOK /\ LockKept

LEMMA InvStep == Inv /\ [Next]_vars => Inv'
<1> SUFFICES ASSUME Inv, [Next]_vars PROVE Inv'
  OBVIOUS
<1> USE DEF Inv
<1>1. ASSUME NEW q \in Queries, Query(q) PROVE Inv'
  BY <1>1, TypeOfQuery, LockOfQuery
<1>2. ASSUME NEW s \in Syncers, Sync(s) PROVE Inv'
  BY <1>2, TypeOfSync, LockOfSync DEF LockKept
<1>3. CASE \/ \E l \in Links : LinkSync(l)
           \/ WatchTick \/ NewLists \/ EndTick \/ Expire \/ Swept
  BY <1>3, TypeOfOthers, LockOfOthers
<1>4. CASE UNCHANGED vars
  <2>1. TypeOK'
    BY <1>4 DEF vars, core, syncVars, lockVars, queryVars, watchVars, kernel, TypeOK
  <2>2. LockKept'
    BY <1>4 DEF vars, core, syncVars, lockVars, queryVars, watchVars, kernel, LockKept,
       Roles, QueueIsWaiting, JobsFit, OneLoad, SweepsInTurn, Waits, Holder
  <2> QED
    BY <2>1, <2>2
<1> QED
  BY <1>1, <1>2, <1>3, <1>4 DEF Next

(* The tasks, the lock of pf and the load of sync_pf stay in order in      *)
(* every behaviour, for any rules, addresses, queries and links.           *)
THEOREM InvHolds == Spec => []Inv
<1>1. Init => Inv
  BY TypeInit, LockInit DEF Inv
<1> QED
  BY <1>1, InvStep, PTL DEF Spec

(* Every variable keeps its type. *)
THEOREM TypeCorrect == Spec => []TypeOK
BY InvHolds, PTL DEF Inv

(* At most one load is on its way, under the lock of its own task. *)
THEOREM LockAlwaysKept == Spec => []LockKept
BY InvHolds, PTL DEF Inv

-----------------------------------------------------------------------------
(* What pf loaded last, and what it blocks.                                *)

LEMMA LastStep == Inv /\ LastIsLoaded /\ [Next]_vars => LastIsLoaded'
<1> SUFFICES ASSUME Inv, LastIsLoaded, [Next]_vars PROVE LastIsLoaded'
  OBVIOUS
<1> USE DEF LastIsLoaded, Inv, core, syncVars, lockVars, queryVars, watchVars, kernel
<1>1. ASSUME NEW q \in Queries, Query(q) PROVE LastIsLoaded'
  BY <1>1 DEF Query, Ask, NoAnswer, RouteAnswer, RouteFails, Added, AddFails, Done
<1>2. ASSUME NEW s \in Syncers, Sync(s) PROVE LastIsLoaded'
  <2>1. s # Nothing
    BY TasksAssumption DEF Tasks
  <2> QED
    BY <1>2, <2>1 DEF Sync, SyncNothing, SyncLoad, LoadTakes, Loaded, LoadFails, LastLost
<1>3. CASE \/ \E l \in Links : LinkSync(l)
           \/ WatchTick \/ NewLists \/ EndTick \/ Expire \/ Swept
  BY <1>3 DEF LinkSync, WatchTick, NewLists, EndTick, Expire, Swept
<1>4. CASE UNCHANGED vars
  BY <1>4 DEF vars
<1> QED
  BY <1>1, <1>2, <1>3, <1>4 DEF Next

(* What sync_pf takes for loaded is what pf runs, whenever no load is on   *)
(* its way and however many loads failed.                                  *)
THEOREM LastAlwaysLoaded == Spec => []LastIsLoaded
<1>1. Init => LastIsLoaded
  BY DEF Init, LastIsLoaded
<1> QED
  BY <1>1, InvHolds, LastStep, PTL DEF Spec

LEMMA BlockedStep == Inv /\ ActiveBlocked /\ [Next]_vars => ActiveBlocked'
<1> SUFFICES ASSUME Inv, ActiveBlocked, [Next]_vars PROVE ActiveBlocked'
  OBVIOUS
<1> USE DEF ActiveBlocked, Blocked, core, syncVars, lockVars, queryVars, watchVars, kernel
<1>0. active \subseteq Rules /\ pfStale \in BOOLEAN
  BY DEF Inv, TypeOK
<1>a. ASSUME UNCHANGED <<active, syncing, taken, ruleset>>, pfStale => pfStale'
      PROVE  ActiveBlocked'
  BY <1>0, <1>a
<1>1. ASSUME NEW q \in Queries, Query(q) PROVE ActiveBlocked'
  <2>1. CASE RouteAnswer(q) \/ RouteFails(q)
    <3>1. pfStale => pfStale'
      BY <2>1 DEF RouteAnswer, RouteFails, RouteHosts
    <3> QED
      BY <1>a, <2>1, <3>1 DEF RouteAnswer, RouteFails
  <2>2. CASE AddFails(q)
    BY <1>a, <2>2 DEF AddFails, PfFails
  <2> QED
    BY <1>a, <1>1, <2>1, <2>2 DEF Query, Ask, NoAnswer, Added, Done
<1>2. ASSUME NEW s \in Syncers, Sync(s) PROVE ActiveBlocked'
  <2>0. s # Nothing
    BY TasksAssumption DEF Tasks
  <2>1. CASE SyncNothing(s) \/ LoadTakes(s)
    BY <2>1 DEF SyncNothing, LoadTakes
  <2>2. CASE SyncLoad(s)
    <3>1. \A r \in active : Shape[r] # "off"
      BY <1>0 DEF Shape
    <3> QED
      BY <2>0, <2>2, <3>1 DEF SyncLoad
  <2>3. CASE Loaded(s)
    <3>1. syncing = s
      BY <2>3 DEF Loaded, Inv, LockKept, OneLoad
    <3> QED
      BY <2>0, <2>3, <3>1 DEF Loaded
  <2>4. CASE LoadFails(s)
    BY <2>4 DEF LoadFails, PfFails
  <2> QED
    BY <1>2, <2>1, <2>2, <2>3, <2>4 DEF Sync
<1>3. CASE \/ \E l \in Links : LinkSync(l)
           \/ WatchTick \/ NewLists \/ EndTick \/ Expire \/ Swept
  <2>1. CASE WatchTick
    BY <1>0, <2>1 DEF WatchTick
  <2>2. CASE Swept
    <3>1. pfStale => pfStale'
      BY <2>2 DEF Swept, PfFails
    <3> QED
      BY <1>a, <2>2, <3>1 DEF Swept
  <2> QED
    BY <1>a, <1>3, <2>1, <2>2 DEF LinkSync, NewLists, EndTick, Expire
<1>4. CASE UNCHANGED vars
  BY <1>4 DEF vars
<1> QED
  BY <1>1, <1>2, <1>3, <1>4 DEF Next

(* Every rule in force is blocked, or pf is known to be stale. *)
THEOREM AlwaysBlocked == Spec => []ActiveBlocked
<1>1. Init => ActiveBlocked
  BY DEF Init, ActiveBlocked, Blocked, Shape
<1> QED
  BY <1>1, InvHolds, BlockedStep, PTL DEF Spec

-----------------------------------------------------------------------------
(* What becomes of a table entry when a queue of commands is served: T is  *)
(* the table, P the tasks that put the entry, C those that cut it.         *)

Served(q, a, T, P, C) ==
    \/ a \in T /\ \A i \in 1 .. Len(q) : q[i] \notin C
    \/ \E i \in 1 .. Len(q) : q[i] \in P /\ \A j \in i + 1 .. Len(q) : q[j] \notin C

(* The last command has the last word. *)
LEMMA ServedAppend ==
    ASSUME NEW q \in Seq(Tasks), NEW t \in Tasks, NEW a, NEW T, NEW P, NEW C
    PROVE  Served(Append(q, t), a, T, P, C)
               <=> (t \in P \/ (t \notin C /\ Served(q, a, T, P, C)))
<1> DEFINE n == Len(q)
           p == Append(q, t)
<1>1. /\ n \in Nat /\ Len(p) = n + 1 /\ p[n + 1] = t
      /\ \A i \in 1 .. n : p[i] = q[i]
  BY Appended
<1>2. /\ \A i \in 1 .. n + 1 : i \in 1 .. n \/ i = n + 1
      /\ \A i \in 1 .. n : i \in 1 .. n + 1 /\ n + 1 \in i + 1 .. n + 1
      /\ n + 1 \in 1 .. n + 1
      /\ (n + 1) + 1 .. n + 1 = {}
      /\ \A i \in 1 .. n : \A j \in i + 1 .. n + 1 : j = n + 1 \/ (j \in i + 1 .. n /\ j \in 1 .. n)
      /\ \A i \in 1 .. n : \A j \in i + 1 .. n : j \in i + 1 .. n + 1 /\ j \in 1 .. n
  BY <1>1
<1> HIDE DEF n, p
<1>3. ASSUME Served(p, a, T, P, C), t \notin P
      PROVE  t \notin C /\ Served(q, a, T, P, C)
  <2>1. CASE a \in T /\ \A i \in 1 .. n + 1 : p[i] \notin C
    <3>1. t \notin C /\ \A i \in 1 .. n : q[i] \notin C
      BY <1>1, <1>2, <2>1
    <3> QED
      BY <2>1, <3>1 DEF Served, n
  <2>2. CASE \E i \in 1 .. n + 1 : p[i] \in P /\ \A j \in i + 1 .. n + 1 : p[j] \notin C
    <3>1. PICK i \in 1 .. n + 1 : p[i] \in P /\ \A j \in i + 1 .. n + 1 : p[j] \notin C
      BY <2>2
    <3>2. i \in 1 .. n
      BY <1>1, <1>2, <1>3, <3>1
    <3>3. t \notin C /\ q[i] \in P /\ \A j \in i + 1 .. n : q[j] \notin C
      BY <1>1, <1>2, <3>1, <3>2
    <3> QED
      BY <3>2, <3>3 DEF Served, n
  <2> QED
    BY <1>1, <1>3, <2>1, <2>2 DEF Served
<1>4. ASSUME t \in P PROVE Served(p, a, T, P, C)
  BY <1>1, <1>2, <1>4 DEF Served
<1>5. ASSUME t \notin C, Served(q, a, T, P, C)
      PROVE  Served(p, a, T, P, C)
  <2>1. CASE a \in T /\ \A i \in 1 .. n : q[i] \notin C
    BY <1>1, <1>2, <1>5, <2>1 DEF Served
  <2>2. CASE \E i \in 1 .. n : q[i] \in P /\ \A j \in i + 1 .. n : q[j] \notin C
    <3>1. PICK i \in 1 .. n : q[i] \in P /\ \A j \in i + 1 .. n : q[j] \notin C
      BY <2>2
    <3>2. i \in 1 .. n + 1 /\ p[i] \in P /\ \A j \in i + 1 .. n + 1 : p[j] \notin C
      BY <1>1, <1>2, <1>5, <3>1
    <3> QED
      BY <1>1, <3>2 DEF Served
  <2> QED
    BY <1>5, <2>1, <2>2 DEF Served, n
<1> QED
  BY <1>3, <1>4, <1>5 DEF p

(* Serving the first one changes the table, and not what comes of it. *)
LEMMA ServedTail ==
    ASSUME NEW q \in Seq(Tasks), q # <<>>, NEW a, NEW T, NEW U, NEW P, NEW C,
           a \in U <=> (Head(q) \in P \/ (a \in T /\ Head(q) \notin C))
    PROVE  Served(Tail(q), a, U, P, C) <=> Served(q, a, T, P, C)
<1> DEFINE n == Len(q)
           p == Tail(q)
<1>1. /\ n \in Nat \ {0} /\ Len(p) = n - 1 /\ Head(q) = q[1]
      /\ \A i \in 1 .. n - 1 : p[i] = q[i + 1]
  BY MovedUp
<1>2. /\ \A i \in 1 .. n : i = 1 \/ (i - 1 \in 1 .. n - 1 /\ (i - 1) + 1 = i)
      /\ \A i \in 1 .. n - 1 : i + 1 \in 1 .. n /\ i + 1 \in 1 + 1 .. n
      /\ \A i \in 1 .. n - 1 : \A j \in (i + 1) + 1 .. n :
             j - 1 \in i + 1 .. n - 1 /\ j - 1 \in 1 .. n - 1 /\ (j - 1) + 1 = j
      /\ \A i \in 1 .. n - 1 : \A j \in i + 1 .. n - 1 :
             j + 1 \in (i + 1) + 1 .. n /\ j \in 1 .. n - 1
      /\ 1 \in 1 .. n
      /\ \A j \in 1 + 1 .. n : j - 1 \in 1 .. n - 1 /\ (j - 1) + 1 = j
  BY <1>1
<1> HIDE DEF n, p
<1>3. ASSUME Served(p, a, U, P, C) PROVE Served(q, a, T, P, C)
  <2>1. CASE a \in U /\ \A i \in 1 .. n - 1 : p[i] \notin C
    <3>1. \A j \in 1 + 1 .. n : q[j] \notin C
      BY <1>1, <1>2, <2>1
    <3>2. CASE q[1] \in P
      BY <1>2, <3>1, <3>2 DEF Served, n
    <3>3. CASE a \in T /\ q[1] \notin C
      <4>1. \A i \in 1 .. n : q[i] \notin C
        BY <1>1, <1>2, <2>1, <3>3
      <4> QED
        BY <3>3, <4>1 DEF Served, n
    <3> QED
      BY <1>1, <2>1, <3>2, <3>3
  <2>2. CASE \E i \in 1 .. n - 1 : p[i] \in P /\ \A j \in i + 1 .. n - 1 : p[j] \notin C
    <3>1. PICK i \in 1 .. n - 1 : p[i] \in P /\ \A j \in i + 1 .. n - 1 : p[j] \notin C
      BY <2>2
    <3>2. i + 1 \in 1 .. n /\ q[i + 1] \in P
      BY <1>1, <1>2, <3>1
    <3>3. \A j \in (i + 1) + 1 .. n : q[j] \notin C
      BY <1>1, <1>2, <3>1
    <3> QED
      BY <3>2, <3>3 DEF Served, n
  <2> QED
    BY <1>1, <1>3, <2>1, <2>2 DEF Served
<1>4. ASSUME Served(q, a, T, P, C) PROVE Served(p, a, U, P, C)
  <2>1. CASE a \in T /\ \A i \in 1 .. n : q[i] \notin C
    <3>1. a \in U /\ \A i \in 1 .. n - 1 : p[i] \notin C
      BY <1>1, <1>2, <2>1
    <3> QED
      BY <1>1, <3>1 DEF Served
  <2>2. CASE \E i \in 1 .. n : q[i] \in P /\ \A j \in i + 1 .. n : q[j] \notin C
    <3>1. PICK i \in 1 .. n : q[i] \in P /\ \A j \in i + 1 .. n : q[j] \notin C
      BY <2>2
    <3>2. CASE i = 1
      <4>1. a \in U /\ \A j \in 1 .. n - 1 : p[j] \notin C
        BY <1>1, <1>2, <3>1, <3>2
      <4> QED
        BY <1>1, <4>1 DEF Served
    <3>3. CASE i # 1
      <4>1. i - 1 \in 1 .. n - 1 /\ p[i - 1] \in P
        BY <1>1, <1>2, <3>1, <3>3
      <4>2. \A j \in (i - 1) + 1 .. n - 1 : p[j] \notin C
        <5>1. \A j \in (i - 1) + 1 .. n - 1 : j + 1 \in i + 1 .. n /\ j \in 1 .. n - 1
          BY <1>1, <4>1
        <5> QED
          BY <1>1, <3>1, <5>1
      <4> QED
        BY <1>1, <4>1, <4>2 DEF Served
    <3> QED
      BY <3>2, <3>3
  <2> QED
    BY <1>4, <2>1, <2>2 DEF Served, n
<1> QED
  BY <1>3, <1>4 DEF p

(* Only the tasks in the queue matter. *)
LEMMA ServedSame ==
    ASSUME NEW q \in Seq(Tasks), NEW a, NEW T, NEW P, NEW C, NEW P2, NEW C2,
           \A i \in 1 .. Len(q) : /\ q[i] \in P <=> q[i] \in P2
                                  /\ q[i] \in C <=> q[i] \in C2
    PROVE  Served(q, a, T, P, C) <=> Served(q, a, T, P2, C2)
<1> DEFINE n == Len(q)
<1>1. \A i \in 1 .. n : \A j \in i + 1 .. n : j \in 1 .. n
  BY LenProperties
<1> HIDE DEF n
<1>2. (\A i \in 1 .. n : q[i] \notin C) <=> (\A i \in 1 .. n : q[i] \notin C2)
  BY DEF n
<1>3. ASSUME NEW i \in 1 .. n
      PROVE  (q[i] \in P /\ \A j \in i + 1 .. n : q[j] \notin C)
                 <=> (q[i] \in P2 /\ \A j \in i + 1 .. n : q[j] \notin C2)
  <2>1. \A j \in i + 1 .. n : q[j] \in C <=> q[j] \in C2
    BY <1>1, <1>3 DEF n
  <2> QED
    BY <1>3, <2>1 DEF n
<1> QED
  BY <1>2, <1>3 DEF Served, n

-----------------------------------------------------------------------------
(* The same of Settled, for the queue, the table and the commands.         *)

PutSet(a, r) == {t \in Tasks : Puts(t, a, r)}
CutSet(a, r) == {t \in Tasks : Cuts(t, a, r)}

LEMMA SettledIsServed ==
    TypeOK => \A a, r : Settled(a, r)
                  <=> Served(queue, a, table[r], PutSet(a, r), CutSet(a, r))
<1> SUFFICES ASSUME TypeOK, NEW a, NEW r
             PROVE  Settled(a, r)
                        <=> Served(queue, a, table[r], PutSet(a, r), CutSet(a, r))
  OBVIOUS
<1> DEFINE n == Len(queue)
<1>1. n \in Nat /\ \A i \in 1 .. n : queue[i] \in Tasks
  BY LenProperties, ElementOfSeq DEF TypeOK
<1>2. \A i \in 1 .. n : \A j \in i + 1 .. n : j \in 1 .. n
  BY <1>1
<1> HIDE DEF n
<1>3. \A i \in 1 .. n : /\ queue[i] \in PutSet(a, r) <=> Puts(queue[i], a, r)
                        /\ queue[i] \in CutSet(a, r) <=> Cuts(queue[i], a, r)
  BY <1>1 DEF PutSet, CutSet
<1>4. (\A i \in 1 .. n : queue[i] \notin CutSet(a, r))
          <=> (\A i \in 1 .. n : ~Cuts(queue[i], a, r))
  BY <1>3
<1>5. ASSUME NEW i \in 1 .. n
      PROVE  (\A j \in i + 1 .. n : queue[j] \notin CutSet(a, r))
                 <=> (\A j \in i + 1 .. n : ~Cuts(queue[j], a, r))
  BY <1>2, <1>3
<1> HIDE DEF Puts, Cuts, PutSet, CutSet
<1> QED
  BY <1>3, <1>4, <1>5 DEF Settled, Served, n

LEMMA SettledIsServedNext ==
    TypeOK' => \A a, r : Settled(a, r)'
                   <=> Served(queue', a, table'[r], PutSet(a, r)', CutSet(a, r)')
<1>1. (TypeOK => \A a, r : Settled(a, r)
                     <=> Served(queue, a, table[r], PutSet(a, r), CutSet(a, r)))'
  BY SettledIsServed, PTL
<1> QED
  BY <1>1 DEF Served

(* The commands of all who wait do to the entry what they did before. *)
SameCommands(a, r) ==
    \A t \in Tasks : Waits(t) => /\ t \in PutSet(a, r)' <=> t \in PutSet(a, r)
                                 /\ t \in CutSet(a, r)' <=> t \in CutSet(a, r)

LEMMA SettledUnmoved ==
    ASSUME TypeOK, TypeOK', QueueIsWaiting, NEW a, NEW r, SameCommands(a, r),
           UNCHANGED queue, a \in table'[r] <=> a \in table[r]
    PROVE  Settled(a, r)' <=> Settled(a, r)
<1> DEFINE P == PutSet(a, r)
           C == CutSet(a, r)
           P2 == PutSet(a, r)'
           C2 == CutSet(a, r)'
<1>1. queue \in Seq(Tasks) /\ \A i \in 1 .. Len(queue) : queue[i] \in Tasks
  BY ElementOfSeq DEF TypeOK
<1>2. \A i \in 1 .. Len(queue) : /\ queue[i] \in P2 <=> queue[i] \in P
                                 /\ queue[i] \in C2 <=> queue[i] \in C
  BY <1>1 DEF QueueIsWaiting, SameCommands
<1>3. Settled(a, r) <=> Served(queue, a, table[r], P, C)
  BY SettledIsServed
<1>4. Settled(a, r)' <=> Served(queue, a, table'[r], P2, C2)
  BY SettledIsServedNext
<1> HIDE DEF P, C, P2, C2
<1>5. Served(queue, a, table[r], P2, C2) <=> Served(queue, a, table[r], P, C)
  BY <1>1, <1>2, ServedSame
<1>6. Served(queue, a, table'[r], P2, C2) <=> Served(queue, a, table[r], P2, C2)
  BY DEF Served
<1> QED
  BY <1>3, <1>4, <1>5, <1>6

LEMMA SettledAsked ==
    ASSUME TypeOK, TypeOK', QueueIsWaiting, NEW a, NEW r, SameCommands(a, r),
           NEW t \in Tasks, queue' = Append(queue, t), UNCHANGED table
    PROVE  Settled(a, r)'
               <=> (t \in PutSet(a, r)' \/ (t \notin CutSet(a, r)' /\ Settled(a, r)))
<1> DEFINE P == PutSet(a, r)
           C == CutSet(a, r)
           P2 == PutSet(a, r)'
           C2 == CutSet(a, r)'
<1>1. queue \in Seq(Tasks) /\ \A i \in 1 .. Len(queue) : queue[i] \in Tasks
  BY ElementOfSeq DEF TypeOK
<1>2. \A i \in 1 .. Len(queue) : /\ queue[i] \in P2 <=> queue[i] \in P
                                 /\ queue[i] \in C2 <=> queue[i] \in C
  BY <1>1 DEF QueueIsWaiting, SameCommands
<1>3. Settled(a, r) <=> Served(queue, a, table[r], P, C)
  BY SettledIsServed
<1>4. Settled(a, r)' <=> Served(Append(queue, t), a, table[r], P2, C2)
  BY SettledIsServedNext
<1> HIDE DEF P, C, P2, C2
<1>5. Served(queue, a, table[r], P2, C2) <=> Served(queue, a, table[r], P, C)
  BY <1>1, <1>2, ServedSame
<1>6. Served(Append(queue, t), a, table[r], P2, C2)
          <=> (t \in P2 \/ (t \notin C2 /\ Served(queue, a, table[r], P2, C2)))
  BY <1>1, ServedAppend
<1>7. Settled(a, r)' <=> (t \in P2 \/ (t \notin C2 /\ Settled(a, r)))
  BY <1>3, <1>4, <1>5, <1>6
<1> QED
  BY <1>7 DEF P2, C2

(* The commands of all who wait behind the holder t are what they were. *)
SameBehind(t, a, r) ==
    \A u \in Tasks \ {t} : Waits(u) => /\ u \in PutSet(a, r)' <=> u \in PutSet(a, r)
                                       /\ u \in CutSet(a, r)' <=> u \in CutSet(a, r)

(* What the table of r becomes when the holder's command has run. *)
Served1(t, a, r) ==
    a \in table'[r] <=> (t \in PutSet(a, r) \/ (a \in table[r] /\ t \notin CutSet(a, r)))

LEMMA SettledBehind ==
    ASSUME TypeOK, TypeOK', QueueIsWaiting, NEW a, NEW r,
           NEW t \in Tasks, Holder(t), SameBehind(t, a, r), Served1(t, a, r)
    PROVE  Served(Tail(queue), a, table'[r], PutSet(a, r)', CutSet(a, r)') <=> Settled(a, r)
<1> DEFINE P == PutSet(a, r)
           C == CutSet(a, r)
           P2 == PutSet(a, r)'
           C2 == CutSet(a, r)'
           n == Len(queue)
<1>1. /\ queue \in Seq(Tasks) /\ queue # <<>> /\ Head(queue) = t
      /\ Tail(queue) \in Seq(Tasks) /\ Len(Tail(queue)) = n - 1
      /\ n \in Nat \ {0} /\ queue[1] = t
      /\ \A i \in 1 .. n : queue[i] \in Tasks
      /\ \A i \in 1 .. n - 1 : Tail(queue)[i] = queue[i + 1]
  BY MovedUp DEF TypeOK, Holder
<1>2. \A i \in 1 .. n - 1 : i + 1 \in 1 .. n /\ 1 \in 1 .. n /\ i + 1 # 1
  BY <1>1
<1>3. \A i \in 1 .. n - 1 : /\ queue[i + 1] \in Tasks \ {t}
                            /\ Waits(queue[i + 1])
  BY <1>1, <1>2 DEF QueueIsWaiting
<1>4. \A i \in 1 .. n - 1 : /\ queue[i + 1] \in P2 <=> queue[i + 1] \in P
                            /\ queue[i + 1] \in C2 <=> queue[i + 1] \in C
  BY <1>3 DEF SameBehind
<1>5. Settled(a, r) <=> Served(queue, a, table[r], P, C)
  BY SettledIsServed
<1>6. a \in table'[r] <=> (t \in P \/ (a \in table[r] /\ t \notin C))
  BY DEF Served1
<1> HIDE DEF P, C, P2, C2, n
<1>7. Served(Tail(queue), a, table'[r], P, C) <=> Served(queue, a, table[r], P, C)
  BY <1>1, <1>6, ServedTail
<1>8. Served(Tail(queue), a, table'[r], P2, C2) <=> Served(Tail(queue), a, table'[r], P, C)
  <2> DEFINE p == Tail(queue)
  <2>1. \A i \in 1 .. Len(p) : p[i] \in P2 <=> p[i] \in P
    BY <1>1, <1>4
  <2>2. \A i \in 1 .. Len(p) : p[i] \in C2 <=> p[i] \in C
    BY <1>1, <1>4
  <2>3. p \in Seq(Tasks)
    BY <1>1
  <2> HIDE DEF p
  <2>4. Served(p, a, table'[r], P2, C2) <=> Served(p, a, table'[r], P, C)
    BY <2>1, <2>2, <2>3, ServedSame
  <2> QED
    BY <2>4 DEF p
<1>9. Served(Tail(queue), a, table'[r], P2, C2) <=> Settled(a, r)
  BY <1>5, <1>7, <1>8
<1> QED
  BY <1>9 DEF P2, C2

LEMMA SettledReleased ==
    ASSUME TypeOK, TypeOK', QueueIsWaiting, NEW a, NEW r,
           NEW t \in Tasks, Holder(t), SameBehind(t, a, r), Served1(t, a, r),
           queue' = Tail(queue)
    PROVE  Settled(a, r)' <=> Settled(a, r)
BY SettledBehind, SettledIsServedNext

LEMMA SettledAskedAgain ==
    ASSUME TypeOK, TypeOK', QueueIsWaiting, NEW a, NEW r,
           NEW t \in Tasks, Holder(t), SameBehind(t, a, r), Served1(t, a, r),
           queue' = Append(Tail(queue), t)
    PROVE  Settled(a, r)'
               <=> (t \in PutSet(a, r)' \/ (t \notin CutSet(a, r)' /\ Settled(a, r)))
<1> DEFINE P2 == PutSet(a, r)'
           C2 == CutSet(a, r)'
<1>1. Tail(queue) \in Seq(Tasks)
  BY MovedUp DEF TypeOK, Holder
<1>2. Served(Tail(queue), a, table'[r], P2, C2) <=> Settled(a, r)
  BY SettledBehind
<1>3. Settled(a, r)' <=> Served(Append(Tail(queue), t), a, table'[r], P2, C2)
  BY SettledIsServedNext
<1> HIDE DEF P2, C2
<1>4. Served(Append(Tail(queue), t), a, table'[r], P2, C2)
          <=> (t \in P2 \/ (t \notin C2 /\ Served(Tail(queue), a, table'[r], P2, C2)))
  BY <1>1, ServedAppend
<1>5. Settled(a, r)' <=> (t \in P2 \/ (t \notin C2 /\ Settled(a, r)))
  BY <1>2, <1>3, <1>4
<1> QED
  BY <1>5 DEF P2, C2

(* Who asks last has the last word, whatever the others will do. *)
LEMMA LastWord ==
    ASSUME TypeOK, TypeOK', NEW a, NEW r, NEW t \in Tasks, queue' = Append(queue, t)
    PROVE  /\ t \in PutSet(a, r)' => Settled(a, r)'
           /\ t \in CutSet(a, r)' /\ t \notin PutSet(a, r)' => ~Settled(a, r)'
<1> DEFINE P2 == PutSet(a, r)'
           C2 == CutSet(a, r)'
<1>1. queue \in Seq(Tasks)
  BY DEF TypeOK
<1>2. Settled(a, r)' <=> Served(Append(queue, t), a, table'[r], P2, C2)
  BY SettledIsServedNext
<1> HIDE DEF P2, C2
<1>3. Served(Append(queue, t), a, table'[r], P2, C2)
          <=> (t \in P2 \/ (t \notin C2 /\ Served(queue, a, table'[r], P2, C2)))
  BY <1>1, ServedAppend
<1>4. /\ t \in P2 => Settled(a, r)'
      /\ t \in C2 /\ t \notin P2 => ~Settled(a, r)'
  BY <1>2, <1>3
<1> QED
  BY <1>4 DEF P2, C2

(* A load brings the entry as before when the hosts say of it what they did. *)
LEMMA ComingSame ==
    ASSUME NEW a \in Addrs, NEW r \in Rules, UNCHANGED snap,
           hosts'[a] = r <=> hosts[a] = r
    PROVE  a \in Coming'[r] <=> a \in Coming[r]
BY DEF Coming, HostTables

LEMMA CommandsSame ==
    ASSUME NEW a, NEW r, \A t \in Tasks : Waits(t) => job'[t] = job[t],
           a \in Coming'[r] <=> a \in Coming[r]
    PROVE  SameCommands(a, r)
BY DEF SameCommands, PutSet, CutSet, Puts, Cuts

LEMMA CommandsBehindSame ==
    ASSUME NEW a, NEW r, NEW t \in Tasks,
           \A u \in Tasks \ {t} : job'[u] = job[u],
           \/ a \in Coming'[r] <=> a \in Coming[r]
           \/ \A u \in Tasks \ {t} : Waits(u) => job[u].op # "load"
    PROVE  SameBehind(t, a, r)
BY DEF SameBehind, PutSet, CutSet, Puts, Cuts

-----------------------------------------------------------------------------
(* What the steps do to one address and one rule, as far as pf is not      *)
(* known to be stale afterwards.                                           *)

(* The hosts say of the pair what they said, and so do pf's commands. *)
PairKept(a, r) ==
    /\ hosts'[a] = r <=> hosts[a] = r
    /\ Settled(a, r)' <=> Settled(a, r)

(* The address is routed for the rule; it goes to pf too. *)
PairAdded(a, r) == hosts[a] # r /\ hosts'[a] = r /\ (Settled(a, r)' \/ RouteMayFail)

LEMMA PairOfQuery ==
    ASSUME Inv, Inv', NEW q \in Queries, Query(q), ~pfStale',
           NEW a \in Addrs, NEW r \in Rules
    PROVE  /\ ~pfStale /\ UNCHANGED <<active, sweep>>
           /\ PairKept(a, r) \/ PairAdded(a, r)
<1> USE DEF core, syncVars, lockVars, queryVars, watchVars, kernel
<1>0. /\ q \in Tasks /\ pc \in [Tasks -> PC] /\ job \in [Tasks -> Jobs]
      /\ TypeOK /\ TypeOK' /\ QueueIsWaiting /\ hosts \in [Addrs -> Rules \cup {NoRule}]
  BY DEF Tasks, Inv, TypeOK, LockKept
<1>1. ASSUME UNCHANGED <<hosts, queue, job, snap, table>> PROVE PairKept(a, r)
  <2>1. SameCommands(a, r)
    BY <1>1, ComingSame, CommandsSame
  <2> QED
    BY <1>0, <1>1, <2>1, SettledUnmoved DEF PairKept
<1>2. CASE Ask(q) \/ NoAnswer(q) \/ Done(q)
  BY <1>1, <1>2 DEF Ask, NoAnswer, Done
<1>3. CASE RouteAnswer(q)
  <2>1. PICK as \in SUBSET Addrs :
           LET rest == as \ Kept(rule[q], as)
           IN  /\ RouteHosts(rule[q], rest)
               /\ \/ NewTo(rule[q], rest) = {} /\ UNCHANGED <<queue, job>>
                  \/ Request(q, "add", rule[q], NewTo(rule[q], rest))
    BY <1>3 DEF RouteAnswer
  <2> DEFINE rest == as \ Kept(rule[q], as)
             new == NewTo(rule[q], rest)
  <2>2. /\ ~pfStale /\ rest \subseteq Addrs
        /\ hosts' = [b \in Addrs |-> IF b \in rest THEN rule[q] ELSE hosts[b]]
        /\ \A b \in rest : hosts[b] \in {NoRule, rule[q]}
        /\ new = {b \in rest : hosts[b] # rule[q]}
    BY <2>1 DEF RouteHosts, NewTo
  <2>3. UNCHANGED <<active, sweep, snap, table>> /\ ~Waits(q)
    BY <1>0, <1>3 DEF RouteAnswer, Waits, WaitStates
  <2>4. CASE new = {} /\ UNCHANGED <<queue, job>>
    <3>1. hosts'[a] = hosts[a]
      BY <2>2, <2>4
    <3>2. SameCommands(a, r)
      BY <2>3, <2>4, <3>1, ComingSame, CommandsSame
    <3>3. PairKept(a, r)
      BY <1>0, <2>3, <2>4, <3>1, <3>2, SettledUnmoved DEF PairKept
    <3> QED
      BY <2>2, <2>3, <3>3
  <2>5. CASE Request(q, "add", rule[q], new)
    <3> HIDE DEF rest, new
    <3>1. /\ queue' = Append(queue, q)
          /\ job'[q] = [op |-> "add", rule |-> rule[q], ips |-> new]
          /\ \A t \in Tasks \ {q} : job'[t] = job[t]
      BY <1>0, <2>5 DEF Request
    <3>2. /\ q \in PutSet(a, r)' <=> (rule[q] = r /\ a \in new)
          /\ q \notin CutSet(a, r)'
      BY <1>0, <3>1 DEF PutSet, CutSet, Puts, Cuts
    <3>3. CASE rule[q] = r /\ a \in new
      <4>1. hosts[a] # r /\ hosts'[a] = r
        BY <2>2, <3>3
      <4>2. Settled(a, r)'
        BY <1>0, <3>1, <3>2, <3>3, LastWord
      <4> QED
        BY <2>2, <2>3, <4>1, <4>2 DEF PairAdded
    <3>4. CASE ~(rule[q] = r /\ a \in new)
      <4>1. hosts'[a] = r <=> hosts[a] = r
        BY <1>0, <2>2, <3>4 DEF Rules, NoRule
      <4>2. SameCommands(a, r)
        <5>1. \A t \in Tasks : Waits(t) => job'[t] = job[t]
          BY <2>3, <3>1
        <5> QED
          BY <2>3, <4>1, <5>1, ComingSame, CommandsSame
      <4>3. Settled(a, r)' <=> Settled(a, r)
        BY <1>0, <2>3, <3>1, <3>2, <3>4, <4>2, SettledAsked
      <4> QED
        BY <2>2, <2>3, <4>1, <4>3 DEF PairKept
    <3> QED
      BY <3>3, <3>4
  <2> QED
    BY <2>1, <2>4, <2>5
<1>4. CASE RouteFails(q)
  <2>1. PICK done \in SUBSET Addrs :
           /\ RouteHosts(rule[q], done)
           /\ done = {} \/ RouteMayFail
    BY <1>4 DEF RouteFails
  <2>2. /\ ~pfStale
        /\ hosts' = [b \in Addrs |-> IF b \in done THEN rule[q] ELSE hosts[b]]
        /\ \A b \in done : hosts[b] \in {NoRule, rule[q]}
    BY <2>1 DEF RouteHosts
  <2>3. UNCHANGED <<active, sweep, snap, table, queue, job>>
    BY <1>4 DEF RouteFails
  <2>4. CASE hosts'[a] = r /\ hosts[a] # r
    BY <2>1, <2>2, <2>3, <2>4 DEF PairAdded
  <2>5. CASE ~(hosts'[a] = r /\ hosts[a] # r)
    <3>1. hosts'[a] = r <=> hosts[a] = r
      BY <1>0, <2>2, <2>5 DEF Rules, NoRule
    <3>2. SameCommands(a, r)
      BY <2>3, <3>1, ComingSame, CommandsSame
    <3>3. PairKept(a, r)
      BY <1>0, <2>3, <3>1, <3>2, SettledUnmoved DEF PairKept
    <3> QED
      BY <2>2, <2>3, <3>3
  <2> QED
    BY <2>4, <2>5
<1>5. CASE Added(q)
  <2>1. /\ Holder(q) /\ table' = Applied(job[q]) /\ queue' = Tail(queue)
        /\ \A u \in Tasks \ {q} : job'[u] = job[u]
        /\ UNCHANGED <<hosts, snap, active, sweep, pfStale>> /\ pc[q] = "adding"
    BY <1>0, <1>5 DEF Added, Release
  <2>2. SameBehind(q, a, r)
    BY <1>0, <2>1, ComingSame, CommandsBehindSame
  <2>3. Served1(q, a, r)
    <3>1. job[q].op = "add" /\ table \in Tables
      BY <1>0, <2>1 DEF Inv, LockKept, JobsFit, TypeOK
    <3>2. /\ q \in PutSet(a, r) <=> (job[q].rule = r /\ a \in job[q].ips)
          /\ q \notin CutSet(a, r)
      BY <1>0, <3>1 DEF PutSet, CutSet, Puts, Cuts
    <3>3. table'[r] = IF job[q].rule = r THEN table[r] \cup job[q].ips ELSE table[r]
      BY <2>1, <3>1 DEF Applied, Tables
    <3> QED
      BY <3>2, <3>3 DEF Served1
  <2>4. Settled(a, r)' <=> Settled(a, r)
    BY <1>0, <2>1, <2>2, <2>3, SettledReleased
  <2> QED
    BY <2>1, <2>4 DEF PairKept
<1>6. CASE AddFails(q)
  BY <1>6 DEF AddFails, PfFails
<1> QED
  BY <1>1, <1>2, <1>3, <1>4, <1>5, <1>6 DEF Query, Ask, NoAnswer, Done

(* A load about to come makes pf what the hosts say. *)
PairRenewed(a, r) == Settled(a, r)' <=> hosts'[a] = r

LEMMA PairOfSync ==
    ASSUME Inv, Inv', ActiveBlocked, NEW s \in Syncers, Sync(s), ~pfStale',
           NEW a \in Addrs, NEW r \in active
    PROVE  /\ UNCHANGED <<active, hosts, sweep>>
           /\ PairRenewed(a, r) \/ (PairKept(a, r) /\ ~pfStale)
<1> USE DEF core, syncVars, lockVars, queryVars, watchVars, kernel
<1>0. /\ s \in Tasks /\ pc \in [Tasks -> PC] /\ job \in [Tasks -> Jobs]
      /\ TypeOK /\ TypeOK' /\ QueueIsWaiting /\ hosts \in [Addrs -> Rules \cup {NoRule}]
      /\ r \in Rules /\ pfStale \in BOOLEAN /\ s # Nothing
  BY TasksAssumption DEF Tasks, Inv, TypeOK, LockKept
<1>1. CASE SyncNothing(s)
  <2>1. SameCommands(a, r)
    BY <1>0, <1>1, ComingSame, CommandsSame DEF SyncNothing
  <2> QED
    BY <1>0, <1>1, <2>1, SettledUnmoved DEF PairKept, SyncNothing
<1>2. CASE SyncLoad(s)
  <2>1. /\ queue' = Append(queue, s)
        /\ job'[s] = [op |-> "load", rule |-> NoRule, ips |-> {}]
        /\ UNCHANGED <<active, hosts, sweep, snap>>
    BY <1>0, <1>2 DEF SyncLoad, Request
  <2>2. snap = Nothing
    BY <1>2 DEF SyncLoad, Inv, LockKept, OneLoad
  <2>3. a \in Coming'[r] <=> hosts'[a] = r
    BY <1>0, <2>1, <2>2 DEF Coming, HostTables
  <2>4. /\ s \in PutSet(a, r)' <=> hosts'[a] = r
        /\ s \in CutSet(a, r)' <=> hosts'[a] # r
    BY <1>0, <2>1, <2>3 DEF PutSet, CutSet, Puts, Cuts
  <2>5. Settled(a, r)' <=> hosts'[a] = r
    BY <1>0, <2>1, <2>4, LastWord
  <2> QED
    BY <2>1, <2>5 DEF PairRenewed
<1>3. CASE LoadTakes(s)
  <2>1. a \in Coming'[r] <=> a \in Coming[r]
    BY <1>3 DEF LoadTakes, Coming, HostTables
  <2>2. SameCommands(a, r)
    BY <1>3, <2>1, CommandsSame DEF LoadTakes
  <2> QED
    BY <1>0, <1>3, <2>2, SettledUnmoved DEF PairKept, LoadTakes
<1>4. CASE Loaded(s)
  <2>1. /\ Holder(s) /\ table' = Replaced /\ queue' = Tail(queue) /\ snap # Nothing
        /\ \A u \in Tasks \ {s} : job'[u] = job[u]
        /\ UNCHANGED <<hosts, active, sweep, pfStale>> /\ pc[s] = "loading"
    BY <1>0, <1>4 DEF Loaded, Release
  <2>2. syncing = s /\ \A u \in Syncers \ {s} : pc[u] # "loading"
    BY <2>1 DEF Inv, LockKept, OneLoad
  <2>3. \A u \in Tasks \ {s} : Waits(u) => job[u].op # "load"
    <3> SUFFICES ASSUME NEW u \in Tasks \ {s}, Waits(u) PROVE job[u].op # "load"
      OBVIOUS
    <3>1. pc[u] \in {"adding", "sweeping"}
      BY <2>2 DEF Waits, WaitStates, Inv, LockKept, Roles, Tasks
    <3> QED
      BY <3>1 DEF Inv, LockKept, JobsFit
  <2>4. SameBehind(s, a, r)
    BY <1>0, <2>1, <2>3, CommandsBehindSame
  <2>5. Served1(s, a, r)
    <3>1. job[s].op = "load"
      BY <1>0, <2>1 DEF Inv, LockKept, JobsFit
    <3>2. taken[r] # "off"
      BY <1>0, <1>4, <2>1, <2>2 DEF ActiveBlocked, Blocked
    <3>3. table'[r] = snap[r]
      BY <1>0, <2>1, <3>2 DEF Replaced
    <3>4. /\ s \in PutSet(a, r) <=> a \in snap[r]
          /\ s \in CutSet(a, r) <=> a \notin snap[r]
      BY <1>0, <2>1, <3>1 DEF PutSet, CutSet, Puts, Cuts, Coming
    <3> QED
      BY <3>3, <3>4 DEF Served1
  <2>6. Settled(a, r)' <=> Settled(a, r)
    BY <1>0, <2>1, <2>4, <2>5, SettledReleased
  <2> QED
    BY <1>0, <2>1, <2>6 DEF PairKept
<1>5. CASE LoadFails(s)
  BY <1>5 DEF LoadFails, PfFails
<1> QED
  BY <1>1, <1>2, <1>3, <1>4, <1>5 DEF Sync

(* The address is forgotten: its entry is being deleted, or will be. *)
PairDropped(a, r) ==
    /\ hosts'[a] # r
    /\ ~Settled(a, r)' \/ a \in sweep'[r]

(* The address is still to be deleted from the table, or no more. *)
PairSwept(a, r) ==
    /\ ~MixedSweep => PairKept(a, r)
    /\ hosts'[a] = hosts[a]
    /\ PairKept(a, r) \/ (a \in sweep[r] /\ ~Settled(a, r)')
    /\ a \in sweep[r] /\ a \notin sweep'[r] => ~Settled(a, r)'

LEMMA PairOfExpire ==
    ASSUME Inv, Inv', Expire, ~pfStale', NEW a \in Addrs, NEW r \in Rules
    PROVE  /\ ~pfStale /\ UNCHANGED active /\ sweep = Empty
           /\ PairKept(a, r) \/ PairDropped(a, r)
<1> USE DEF core, syncVars, lockVars, queryVars, watchVars, kernel
<1>0. /\ Watch \in Tasks /\ pc \in [Tasks -> PC] /\ job \in [Tasks -> Jobs]
      /\ TypeOK /\ TypeOK' /\ QueueIsWaiting /\ hosts \in [Addrs -> Rules \cup {NoRule}]
  BY DEF Tasks, Syncers, Inv, TypeOK, LockKept
<1> DEFINE batch(gone, s) == {b \in gone : hosts[b] = s}
<1>1. PICK gone \in SUBSET Expirable, d \in Rules :
         /\ hosts' = [b \in Addrs |-> IF b \in gone THEN NoRule ELSE hosts[b]]
         /\ Request(Watch, "delete", d, batch(gone, d))
         /\ sweep' = [s \in Rules |-> IF s = d THEN {} ELSE batch(gone, s)]
  BY DEF Expire
<1>2. /\ queue' = Append(queue, Watch)
      /\ job'[Watch] = [op |-> "delete", rule |-> d, ips |-> batch(gone, d)]
      /\ \A t \in Tasks \ {Watch} : job'[t] = job[t]
  BY <1>0, <1>1 DEF Request
<1>3. /\ ~pfStale /\ UNCHANGED <<active, snap, table>> /\ ~Waits(Watch) /\ sweep = Empty
  BY <1>0 DEF Expire, Waits, WaitStates, Inv, LockKept, SweepsInTurn
<1>4. /\ Watch \in CutSet(a, r)' <=> (d = r /\ a \in gone /\ hosts[a] = r)
      /\ Watch \notin PutSet(a, r)'
  BY <1>0, <1>2 DEF PutSet, CutSet, Puts, Cuts
<1>5. CASE a \in gone /\ hosts[a] = r
  <2>1. hosts'[a] # r
    BY <1>1, <1>5 DEF Rules, NoRule
  <2>2. CASE d = r
    <3>1. ~Settled(a, r)'
      BY <1>0, <1>2, <1>4, <1>5, <2>2, LastWord
    <3> QED
      BY <1>3, <2>1, <3>1 DEF PairDropped
  <2>3. CASE d # r
    BY <1>1, <1>3, <1>5, <2>1, <2>3 DEF PairDropped
  <2> QED
    BY <2>2, <2>3
<1>6. CASE ~(a \in gone /\ hosts[a] = r)
  <2>1. hosts'[a] = r <=> hosts[a] = r
    BY <1>0, <1>1, <1>6 DEF Rules, NoRule
  <2>2. SameCommands(a, r)
    <3>1. \A t \in Tasks : Waits(t) => job'[t] = job[t]
      BY <1>2, <1>3
    <3> QED
      BY <1>3, <2>1, <3>1, ComingSame, CommandsSame
  <2>3. Settled(a, r)' <=> Settled(a, r)
    BY <1>0, <1>2, <1>3, <1>4, <1>6, <2>2, SettledAsked
  <2> QED
    BY <1>3, <2>1, <2>3 DEF PairKept
<1> QED
  BY <1>5, <1>6

LEMMA PairOfSwept ==
    ASSUME Inv, Inv', Swept, ~pfStale', NEW a \in Addrs, NEW r \in Rules
    PROVE  ~pfStale /\ UNCHANGED active /\ PairSwept(a, r)
<1> USE DEF core, syncVars, lockVars, queryVars, watchVars, kernel
<1>0. /\ Watch \in Tasks /\ pc \in [Tasks -> PC] /\ job \in [Tasks -> Jobs]
      /\ TypeOK /\ TypeOK' /\ QueueIsWaiting /\ sweep \in Tables
      /\ hosts \in [Addrs -> Rules \cup {NoRule}]
  BY DEF Tasks, Syncers, Inv, TypeOK, LockKept
<1>1. /\ Holder(Watch) /\ table' = Applied(job[Watch]) /\ ~pfStale
      /\ UNCHANGED <<hosts, snap, active>> /\ pc[Watch] = "sweeping"
  BY DEF Swept, PfFails
<1>2. Served1(Watch, a, r)
  <2>1. job[Watch].op = "delete" /\ table \in Tables
    BY <1>0, <1>1 DEF Inv, LockKept, JobsFit, TypeOK
  <2>2. /\ Watch \in CutSet(a, r) <=> (job[Watch].rule = r /\ a \in job[Watch].ips)
        /\ Watch \notin PutSet(a, r)
    BY <1>0, <2>1 DEF PutSet, CutSet, Puts, Cuts
  <2>3. table'[r] = IF job[Watch].rule = r THEN table[r] \ job[Watch].ips ELSE table[r]
    BY <1>1, <2>1 DEF Applied, Tables
  <2> QED
    BY <2>2, <2>3 DEF Served1
<1>3. CASE Release(Watch) /\ UNCHANGED sweep
  <2>1. queue' = Tail(queue) /\ \A u \in Tasks \ {Watch} : job'[u] = job[u]
    BY <1>0, <1>3 DEF Release
  <2>2. SameBehind(Watch, a, r)
    BY <1>0, <1>1, <2>1, ComingSame, CommandsBehindSame
  <2>3. Settled(a, r)' <=> Settled(a, r)
    BY <1>0, <1>1, <1>2, <2>1, <2>2, SettledReleased
  <2> QED
    BY <1>1, <1>3, <2>3 DEF PairKept, PairSwept
<1>4. ASSUME NEW d \in Rules, sweep[d] # {},
             queue' = Append(Tail(queue), Watch),
             job' = [job EXCEPT ![Watch] = [op |-> "delete", rule |-> d, ips |-> sweep[d]]],
             sweep' = [sweep EXCEPT ![d] = {}]
      PROVE  PairSwept(a, r)
  <2>1. MixedSweep
    BY <1>4 DEF Inv, LockKept, SweepsInTurn, Empty
  <2>2. \A u \in Tasks \ {Watch} : job'[u] = job[u]
    BY <1>0, <1>4
  <2>3. SameBehind(Watch, a, r)
    BY <1>0, <1>1, <2>2, ComingSame, CommandsBehindSame
  <2>4. job'[Watch] = [op |-> "delete", rule |-> d, ips |-> sweep[d]]
    BY <1>0, <1>4
  <2>5. /\ Watch \in CutSet(a, r)' <=> (d = r /\ a \in sweep[r])
        /\ Watch \notin PutSet(a, r)'
    BY <1>0, <2>4 DEF PutSet, CutSet, Puts, Cuts
  <2>6. Settled(a, r)' <=> (Settled(a, r) /\ ~(d = r /\ a \in sweep[r]))
    BY <1>0, <1>1, <1>2, <1>4, <2>3, <2>5, SettledAskedAgain
  <2>7. a \in sweep[r] /\ a \notin sweep'[r] => d = r
    BY <1>0, <1>4 DEF Tables
  <2> QED
    BY <1>1, <2>1, <2>6, <2>7 DEF PairSwept, PairKept
<1> QED
  BY <1>1, <1>3, <1>4 DEF Swept

LEMMA PairOfOthers ==
    ASSUME Inv, Inv', ~pfStale', NEW a \in Addrs, NEW r \in Rules,
           (\E l \in Links : LinkSync(l)) \/ WatchTick \/ NewLists \/ EndTick
    PROVE  ~pfStale /\ UNCHANGED <<active, sweep, hosts>> /\ PairKept(a, r)
<1> USE DEF core, syncVars, lockVars, queryVars, watchVars, kernel
<1>0. TypeOK /\ TypeOK' /\ QueueIsWaiting /\ pfStale \in BOOLEAN
  BY DEF Inv, LockKept, TypeOK
<1>1. ~pfStale /\ UNCHANGED <<active, sweep, hosts, queue, job, snap, table>>
  BY <1>0 DEF LinkSync, WatchTick, NewLists, EndTick
<1>2. SameCommands(a, r)
  BY <1>1, ComingSame, CommandsSame
<1> QED
  BY <1>0, <1>1, <1>2, SettledUnmoved DEF PairKept

-----------------------------------------------------------------------------
(* Every address the resolver holds is held by pf.                         *)

LEMMA HeldStep ==
    ASSUME ~RouteMayFail, ~MixedSweep
    PROVE  Inv /\ Inv' /\ ActiveBlocked /\ ActiveBlocked' /\ HostsHeld /\ [Next]_vars
               => HostsHeld'
<1> SUFFICES ASSUME Inv, Inv', ActiveBlocked, ActiveBlocked', HostsHeld, [Next]_vars,
                    NEW a \in Addrs, NEW r \in active', hosts'[a] = r, ~pfStale'
             PROVE  Settled(a, r)' /\ Blocked(r)'
  BY DEF HostsHeld
<1>1. r \in Rules /\ r \in active'
  BY DEF Inv, TypeOK
<1>2. Blocked(r)'
  BY <1>1 DEF ActiveBlocked
<1>3. ASSUME ~pfStale, UNCHANGED active, PairKept(a, r) PROVE Settled(a, r)'
  BY <1>1, <1>3 DEF PairKept, HostsHeld
<1>4. ASSUME NEW q \in Queries, Query(q) PROVE Settled(a, r)'
  BY <1>1, <1>3, <1>4, PairOfQuery DEF PairAdded
<1>5. ASSUME NEW s \in Syncers, Sync(s) PROVE Settled(a, r)'
  <2>1. UNCHANGED active
    BY <1>5 DEF Sync, SyncNothing, SyncLoad, LoadTakes, Loaded, LoadFails, core
  <2> QED
    BY <1>1, <1>3, <1>5, <2>1, PairOfSync DEF PairRenewed
<1>6. CASE Expire
  BY <1>1, <1>2, <1>3, <1>6, PairOfExpire DEF PairDropped
<1>7. CASE Swept
  BY <1>1, <1>2, <1>3, <1>7, PairOfSwept DEF PairSwept
<1>8. CASE (\E l \in Links : LinkSync(l)) \/ WatchTick \/ NewLists \/ EndTick
  BY <1>1, <1>2, <1>3, <1>8, PairOfOthers
<1>9. CASE UNCHANGED vars
  <2>1. UNCHANGED <<hosts, snap, queue, job, table, active, pfStale>>
    BY <1>9 DEF vars, core, syncVars, lockVars, kernel
  <2>2. SameCommands(a, r)
    BY <1>1, <2>1, ComingSame, CommandsSame
  <2> QED
    BY <1>1, <1>2, <1>3, <2>1, <2>2, SettledUnmoved DEF PairKept, Inv, LockKept
<1> QED
  BY <1>2, <1>4, <1>5, <1>6, <1>7, <1>8, <1>9 DEF Next

(* While routes do not fail and a sweep has one rule's hosts, an address   *)
(* the resolver holds for a rule in force is held back by pf, or pf is     *)
(* known to be stale: for any rules, addresses, queries, links, and        *)
(* whatever pfctl does.                                                    *)
THEOREM HostsAlwaysHeld ==
    ASSUME ~RouteMayFail, ~MixedSweep
    PROVE  Spec => []HostsHeld
<1>1. Init => HostsHeld
  <2> SUFFICES ASSUME Init, NEW a \in Addrs, NEW r \in active, hosts[a] = r
               PROVE  Settled(a, r) /\ Blocked(r)
    BY DEF HostsHeld
  <2>1. r \in Rules
    BY DEF Init
  <2>2. a \in table[r] /\ 1 .. Len(queue) = {}
    BY <2>1, EmptySeq DEF Init, HostTables
  <2>3. Blocked(r)
    BY <2>1 DEF Init, Blocked, Shape
  <2> QED
    BY <2>2, <2>3 DEF Settled
<1> QED
  BY <1>1, InvHolds, AlwaysBlocked, HeldStep, PTL DEF Spec

-----------------------------------------------------------------------------
(* Nothing but what the resolver holds is held by pf.                      *)

LEMMA NothingElseStep ==
    Inv /\ Inv' /\ ActiveBlocked /\ NothingElseHeld /\ [Next]_vars => NothingElseHeld'
<1> SUFFICES ASSUME Inv, Inv', ActiveBlocked, NothingElseHeld, [Next]_vars,
                    NEW a \in Addrs, NEW r \in active', hosts'[a] # r, ~pfStale'
             PROVE  ~Settled(a, r)' \/ a \in sweep'[r]
  BY DEF NothingElseHeld
<1>0. r \in Rules
  BY DEF Inv, TypeOK
<1> USE <1>0
<1> DEFINE LetGo == ~Settled(a, r)' \/ a \in sweep'[r]
<1>1. ASSUME ~pfStale, UNCHANGED <<active, sweep>>, PairKept(a, r) PROVE LetGo
  BY <1>1 DEF PairKept, NothingElseHeld
<1>2. ASSUME NEW q \in Queries, Query(q) PROVE LetGo
  BY <1>1, <1>2, PairOfQuery DEF PairAdded
<1>3. ASSUME NEW s \in Syncers, Sync(s) PROVE LetGo
  <2>1. UNCHANGED active
    BY <1>3 DEF Sync, SyncNothing, SyncLoad, LoadTakes, Loaded, LoadFails, core
  <2> QED
    BY <1>1, <1>3, <2>1, PairOfSync DEF PairRenewed
<1>4. CASE Expire
  <2>1. /\ ~pfStale /\ UNCHANGED active /\ sweep = Empty
        /\ PairKept(a, r) \/ PairDropped(a, r)
    BY <1>4, PairOfExpire
  <2>2. a \notin sweep[r]
    BY <2>1 DEF Empty
  <2> QED
    BY <2>1, <2>2 DEF PairKept, PairDropped, NothingElseHeld
<1>5. CASE Swept
  <2>1. ~pfStale /\ UNCHANGED active /\ PairSwept(a, r)
    BY <1>5, PairOfSwept
  <2>2. ~Settled(a, r) \/ a \in sweep[r]
    BY <2>1 DEF PairSwept, NothingElseHeld
  <2> QED
    BY <2>1, <2>2 DEF PairSwept, PairKept
<1>6. CASE (\E l \in Links : LinkSync(l)) \/ WatchTick \/ NewLists \/ EndTick
  BY <1>1, <1>6, PairOfOthers
<1>7. CASE UNCHANGED vars
  <2>1. UNCHANGED <<hosts, snap, queue, job, table, active, pfStale, sweep>>
    BY <1>7 DEF vars, core, syncVars, lockVars, watchVars, kernel
  <2>2. SameCommands(a, r)
    BY <2>1, ComingSame, CommandsSame
  <2> QED
    BY <1>1, <2>1, <2>2, SettledUnmoved DEF PairKept, Inv, LockKept
<1> QED
  BY <1>2, <1>3, <1>4, <1>5, <1>6, <1>7 DEF Next

(* A table of pf never keeps an address its rule has let go, unless its    *)
(* deletion is ahead or pf is known to be stale: with every fault.         *)
THEOREM NothingElseAlwaysHeld == Spec => []NothingElseHeld
<1>1. Init => NothingElseHeld
  <2> SUFFICES ASSUME Init, NEW a \in Addrs, NEW r \in active, hosts[a] # r
               PROVE  ~Settled(a, r)
    BY DEF NothingElseHeld
  <2>0. r \in Rules
    BY DEF Init
  <2>1. a \notin table[r] /\ 1 .. Len(queue) = {}
    BY <2>0, EmptySeq DEF Init, HostTables
  <2> QED
    BY <2>1 DEF Settled
<1> QED
  BY <1>1, InvHolds, AlwaysBlocked, NothingElseStep, PTL DEF Spec
-----------------------------------------------------------------------------
(* Every host of a rule is in its table, or its add waits.                 *)

(* More commands that put the entry, fewer that cut it. *)
LEMMA ServedMore ==
    ASSUME NEW q \in Seq(Tasks), NEW a, NEW T, NEW U, NEW P, NEW C, NEW P2, NEW C2,
           a \in T => a \in U,
           \A i \in 1 .. Len(q) : /\ q[i] \in P => q[i] \in P2
                                  /\ q[i] \in C2 => q[i] \in C,
           Served(q, a, T, P, C)
    PROVE  Served(q, a, U, P2, C2)
<1> DEFINE n == Len(q)
<1>1. \A i \in 1 .. n : \A j \in i + 1 .. n : j \in 1 .. n
  BY LenProperties
<1> HIDE DEF n
<1>2. CASE a \in T /\ \A i \in 1 .. n : q[i] \notin C
  BY <1>2 DEF Served, n
<1>3. CASE \E i \in 1 .. n : q[i] \in P /\ \A j \in i + 1 .. n : q[j] \notin C
  <2>1. PICK i \in 1 .. n : q[i] \in P /\ \A j \in i + 1 .. n : q[j] \notin C
    BY <1>3
  <2>2. q[i] \in P2 /\ \A j \in i + 1 .. n : q[j] \notin C2
    BY <1>1, <2>1 DEF n
  <2> QED
    BY <2>2 DEF Served, n
<1> QED
  BY <1>2, <1>3 DEF Served, n

(* The first one is served, and its table has the entry if it put it, or   *)
(* did not cut what was there.                                             *)
LEMMA ServedOn ==
    ASSUME NEW q \in Seq(Tasks), q # <<>>, NEW a, NEW T, NEW U, NEW P, NEW C,
           Head(q) \in P \/ (a \in T /\ Head(q) \notin C) => a \in U,
           Served(q, a, T, P, C)
    PROVE  Served(Tail(q), a, U, P, C)
<1> DEFINE V == {b \in {a} : Head(q) \in P \/ (a \in T /\ Head(q) \notin C)}
<1>1. a \in V <=> (Head(q) \in P \/ (a \in T /\ Head(q) \notin C))
  OBVIOUS
<1>2. a \in V => a \in U
  BY <1>1
<1>3. Tail(q) \in Seq(Tasks)
  BY MovedUp
<1> HIDE DEF V
<1>4. Served(Tail(q), a, V, P, C)
  BY <1>1, ServedTail
<1> QED
  BY <1>2, <1>3, <1>4, ServedMore

AddSet(a, r) == {t \in Tasks : Adds(t, a, r)}

LEMMA InHandIsServed ==
    TypeOK => \A a, r : InHand(a, r)
                  <=> Served(queue, a, table[r], AddSet(a, r), CutSet(a, r))
<1> SUFFICES ASSUME TypeOK, NEW a, NEW r
             PROVE  InHand(a, r)
                        <=> Served(queue, a, table[r], AddSet(a, r), CutSet(a, r))
  OBVIOUS
<1> DEFINE n == Len(queue)
<1>1. n \in Nat /\ \A i \in 1 .. n : queue[i] \in Tasks
  BY LenProperties, ElementOfSeq DEF TypeOK
<1>2. \A i \in 1 .. n : \A j \in i + 1 .. n : j \in 1 .. n
  BY <1>1
<1> HIDE DEF n
<1>3. \A i \in 1 .. n : /\ queue[i] \in AddSet(a, r) <=> Adds(queue[i], a, r)
                        /\ queue[i] \in CutSet(a, r) <=> Cuts(queue[i], a, r)
  BY <1>1 DEF AddSet, CutSet
<1>4. (\A i \in 1 .. n : queue[i] \notin CutSet(a, r))
          <=> (\A i \in 1 .. n : ~Cuts(queue[i], a, r))
  BY <1>3
<1>5. ASSUME NEW i \in 1 .. n
      PROVE  (\A j \in i + 1 .. n : queue[j] \notin CutSet(a, r))
                 <=> (\A j \in i + 1 .. n : ~Cuts(queue[j], a, r))
  BY <1>2, <1>3
<1> HIDE DEF Adds, Cuts, AddSet, CutSet
<1> QED
  BY <1>3, <1>4, <1>5 DEF InHand, Served, n

LEMMA InHandIsServedNext ==
    TypeOK' => \A a, r : InHand(a, r)'
                   <=> Served(queue', a, table'[r], AddSet(a, r)', CutSet(a, r)')
<1>1. (TypeOK => \A a, r : InHand(a, r)
                     <=> Served(queue, a, table[r], AddSet(a, r), CutSet(a, r)))'
  BY InHandIsServed, PTL
<1> QED
  BY <1>1 DEF Served

(* Of those who wait but t, none that was to add the entry is no more, and *)
(* none that was not to cut it is now.                                     *)
HandKept(t, a, r) ==
    \A u \in Tasks \ {t} :
        Waits(u) => /\ u \in AddSet(a, r) => u \in AddSet(a, r)'
                    /\ u \in CutSet(a, r)' => u \in CutSet(a, r)

(* Nobody is queued and nobody is done. *)
LEMMA InHandUnmoved ==
    ASSUME TypeOK, TypeOK', QueueIsWaiting, NEW a, NEW r,
           NEW t, t \notin Tasks \/ ~Waits(t),
           HandKept(t, a, r), UNCHANGED <<queue, table>>, InHand(a, r)
    PROVE  InHand(a, r)'
<1>1. queue \in Seq(Tasks) /\ \A i \in 1 .. Len(queue) : queue[i] \in Tasks
  BY ElementOfSeq DEF TypeOK
<1>2. \A i \in 1 .. Len(queue) : Waits(queue[i]) /\ queue[i] # t
  BY <1>1 DEF QueueIsWaiting
<1>3. \A i \in 1 .. Len(queue) :
         /\ queue[i] \in AddSet(a, r) => queue[i] \in AddSet(a, r)'
         /\ queue[i] \in CutSet(a, r)' => queue[i] \in CutSet(a, r)
  BY <1>1, <1>2 DEF HandKept
<1>4. Served(queue, a, table[r], AddSet(a, r), CutSet(a, r))
  BY InHandIsServed
<1>5. Served(queue, a, table'[r], AddSet(a, r)', CutSet(a, r)')
  <2> DEFINE P == AddSet(a, r)
             C == CutSet(a, r)
             P2 == AddSet(a, r)'
             C2 == CutSet(a, r)'
  <2> HIDE DEF P, C, P2, C2
  <2>1. Served(queue, a, table'[r], P2, C2)
    <3>1. Served(queue, a, table[r], P, C)
      BY <1>4 DEF P, C
    <3>2. \A i \in 1 .. Len(queue) : /\ queue[i] \in P => queue[i] \in P2
                                     /\ queue[i] \in C2 => queue[i] \in C
      BY <1>3 DEF P, C, P2, C2
    <3> QED
      BY <1>1, <3>1, <3>2, ServedMore
  <2> QED
    BY <2>1 DEF P2, C2
<1> QED
  BY <1>5, InHandIsServedNext

(* One who did not wait asks for the lock: what was in hand stays so, if   *)
(* its command does not cut the entry.                                     *)
LEMMA InHandAsked ==
    ASSUME TypeOK, TypeOK', QueueIsWaiting, NEW a, NEW r, NEW t \in Tasks, ~Waits(t),
           HandKept(t, a, r), queue' = Append(queue, t), UNCHANGED table,
           t \in AddSet(a, r)' \/ (InHand(a, r) /\ t \notin CutSet(a, r)')
    PROVE  InHand(a, r)'
<1> DEFINE P == AddSet(a, r)
           C == CutSet(a, r)
           P2 == AddSet(a, r)'
           C2 == CutSet(a, r)'
<1>1. queue \in Seq(Tasks) /\ \A i \in 1 .. Len(queue) : queue[i] \in Tasks
  BY ElementOfSeq DEF TypeOK
<1>2. \A i \in 1 .. Len(queue) : Waits(queue[i]) /\ queue[i] # t
  BY DEF QueueIsWaiting
<1>3. \A i \in 1 .. Len(queue) : /\ queue[i] \in P => queue[i] \in P2
                                 /\ queue[i] \in C2 => queue[i] \in C
  BY <1>1, <1>2 DEF HandKept
<1>4. InHand(a, r) <=> Served(queue, a, table[r], P, C)
  BY InHandIsServed
<1>5. InHand(a, r)' <=> Served(Append(queue, t), a, table[r], P2, C2)
  BY InHandIsServedNext
<1> HIDE DEF P, C, P2, C2
<1>6. Served(queue, a, table[r], P, C) => Served(queue, a, table[r], P2, C2)
  BY <1>1, <1>3, ServedMore
<1>7. Served(Append(queue, t), a, table[r], P2, C2)
          <=> (t \in P2 \/ (t \notin C2 /\ Served(queue, a, table[r], P2, C2)))
  BY <1>1, ServedAppend
<1>8. t \in P2 \/ (InHand(a, r) /\ t \notin C2)
  BY DEF P2, C2
<1> QED
  BY <1>4, <1>5, <1>6, <1>7, <1>8

(* The holder's command has run. *)
LEMMA InHandReleased ==
    ASSUME TypeOK, TypeOK', QueueIsWaiting, NEW a, NEW r, NEW t \in Tasks, Holder(t),
           HandKept(t, a, r), queue' = Tail(queue), InHand(a, r),
           t \in AddSet(a, r) \/ (a \in table[r] /\ t \notin CutSet(a, r))
               => a \in table'[r]
    PROVE  InHand(a, r)'
<1> DEFINE P == AddSet(a, r)
           C == CutSet(a, r)
           P2 == AddSet(a, r)'
           C2 == CutSet(a, r)'
           n == Len(queue)
<1>1. /\ queue \in Seq(Tasks) /\ queue # <<>> /\ Head(queue) = t
      /\ Tail(queue) \in Seq(Tasks) /\ Len(Tail(queue)) = n - 1
      /\ n \in Nat \ {0} /\ queue[1] = t
      /\ \A i \in 1 .. n : queue[i] \in Tasks
      /\ \A i \in 1 .. n - 1 : Tail(queue)[i] = queue[i + 1]
  BY MovedUp DEF TypeOK, Holder
<1>2. \A i \in 1 .. n - 1 : i + 1 \in 1 .. n /\ 1 \in 1 .. n /\ i + 1 # 1
  BY <1>1
<1>3. \A i \in 1 .. n - 1 : /\ queue[i + 1] \in Tasks \ {t}
                            /\ Waits(queue[i + 1])
  BY <1>1, <1>2 DEF QueueIsWaiting
<1>4. \A i \in 1 .. Len(Tail(queue)) :
         /\ Tail(queue)[i] \in P => Tail(queue)[i] \in P2
         /\ Tail(queue)[i] \in C2 => Tail(queue)[i] \in C
  BY <1>1, <1>3 DEF HandKept
<1>5. Served(queue, a, table[r], P, C)
  BY InHandIsServed
<1>6. t \in P \/ (a \in table[r] /\ t \notin C) => a \in table'[r]
  OBVIOUS
<1>7. InHand(a, r)' <=> Served(Tail(queue), a, table'[r], P2, C2)
  BY InHandIsServedNext
<1> HIDE DEF P, C, P2, C2, n
<1>8. Served(Tail(queue), a, table'[r], P, C)
  BY <1>1, <1>5, <1>6, ServedOn
<1>9. Served(Tail(queue), a, table'[r], P2, C2)
  BY <1>1, <1>4, <1>8, ServedMore
<1> QED
  BY <1>7, <1>9

(* What the others do to the entry of a host is no worse, as long as their *)
(* commands stay: a load brings what the hosts say.                        *)
LEMMA HandOfHost ==
    ASSUME NEW a \in Addrs, NEW r \in Rules, NEW t, hosts'[a] = r, UNCHANGED snap,
           \A u \in Tasks \ {t} : Waits(u) => job'[u] = job[u]
    PROVE  HandKept(t, a, r)
<1>1. a \in Coming[r] => a \in Coming'[r]
  BY DEF Coming, HostTables
<1> QED
  BY <1>1 DEF HandKept, AddSet, CutSet, Adds, Cuts

(* While routes and pfctl work and a sweep has one rule's hosts.           *)
Working == ~RouteMayFail /\ ~PfMayFail /\ ~MixedSweep

LEMMA InHandOfQuery ==
    ASSUME Working, Inv, Inv', HostsInHand, NEW q \in Queries, Query(q),
           NEW a \in Addrs, NEW r \in Rules, hosts'[a] = r
    PROVE  InHand(a, r)'
<1> USE DEF core, syncVars, lockVars, queryVars, watchVars, kernel
<1>0. /\ q \in Tasks /\ pc \in [Tasks -> PC] /\ job \in [Tasks -> Jobs]
      /\ TypeOK /\ TypeOK' /\ QueueIsWaiting /\ hosts \in [Addrs -> Rules \cup {NoRule}]
  BY DEF Tasks, Inv, TypeOK, LockKept
<1>1. ASSUME UNCHANGED <<hosts, queue, job, snap, table>>, ~Waits(q) PROVE InHand(a, r)'
  <2>1. HandKept(q, a, r)
    BY <1>1, HandOfHost
  <2> QED
    BY <1>0, <1>1, <2>1, InHandUnmoved DEF HostsInHand
<1>2. CASE Ask(q) \/ NoAnswer(q) \/ Done(q)
  BY <1>1, <1>2 DEF Ask, NoAnswer, Done, Waits, WaitStates
<1>3. CASE RouteAnswer(q)
  <2>1. PICK as \in SUBSET Addrs :
           LET rest == as \ Kept(rule[q], as)
           IN  /\ RouteHosts(rule[q], rest)
               /\ \/ NewTo(rule[q], rest) = {} /\ UNCHANGED <<queue, job>>
                  \/ Request(q, "add", rule[q], NewTo(rule[q], rest))
    BY <1>3 DEF RouteAnswer
  <2> DEFINE rest == as \ Kept(rule[q], as)
             new == NewTo(rule[q], rest)
  <2>2. /\ hosts' = [b \in Addrs |-> IF b \in rest THEN rule[q] ELSE hosts[b]]
        /\ new = {b \in rest : hosts[b] # rule[q]}
    BY <2>1 DEF RouteHosts, NewTo
  <2>3. UNCHANGED <<snap, table>> /\ ~Waits(q)
    BY <1>0, <1>3 DEF RouteAnswer, Waits, WaitStates
  <2>4. (rule[q] = r /\ a \in new) \/ hosts[a] = r
    BY <2>2
  <2>5. \A t \in Tasks \ {q} : job'[t] = job[t]
    BY <1>0, <2>1 DEF Request
  <2>6. HandKept(q, a, r)
    BY <2>3, <2>5, HandOfHost
  <2>7. CASE new = {} /\ UNCHANGED <<queue, job>>
    BY <1>0, <2>3, <2>4, <2>6, <2>7, InHandUnmoved DEF HostsInHand
  <2>8. CASE Request(q, "add", rule[q], new)
    <3> HIDE DEF rest, new
    <3>1. /\ queue' = Append(queue, q)
          /\ job'[q] = [op |-> "add", rule |-> rule[q], ips |-> new]
      BY <1>0, <2>8 DEF Request
    <3>2. /\ q \in AddSet(a, r)' <=> (rule[q] = r /\ a \in new)
          /\ q \notin CutSet(a, r)'
      BY <1>0, <3>1 DEF AddSet, CutSet, Adds, Cuts
    <3> QED
      BY <1>0, <2>3, <2>4, <2>6, <3>1, <3>2, InHandAsked DEF HostsInHand
  <2> QED
    BY <2>1, <2>7, <2>8
<1>4. CASE RouteFails(q)
  <2>1. PICK done \in SUBSET Addrs :
           /\ RouteHosts(rule[q], done)
           /\ done = {} \/ RouteMayFail
    BY <1>4 DEF RouteFails
  <2>2. hosts' = [b \in Addrs |-> IF b \in done THEN rule[q] ELSE hosts[b]] /\ done = {}
    BY <2>1 DEF RouteHosts, Working
  <2>3. hosts' = hosts
    BY <1>0, <2>2
  <2> QED
    BY <1>1, <1>4, <2>3 DEF RouteFails, Waits, WaitStates
<1>5. CASE Added(q)
  <2>1. /\ Holder(q) /\ table' = Applied(job[q]) /\ queue' = Tail(queue)
        /\ \A u \in Tasks \ {q} : job'[u] = job[u]
        /\ UNCHANGED <<hosts, snap>> /\ pc[q] = "adding"
    BY <1>0, <1>5 DEF Added, Release
  <2>2. HandKept(q, a, r)
    BY <2>1, HandOfHost
  <2>3. q \in AddSet(a, r) \/ (a \in table[r] /\ q \notin CutSet(a, r)) => a \in table'[r]
    <3>1. job[q].op = "add" /\ table \in Tables
      BY <1>0, <2>1 DEF Inv, LockKept, JobsFit, TypeOK
    <3>2. table'[r] = IF job[q].rule = r THEN table[r] \cup job[q].ips ELSE table[r]
      BY <2>1, <3>1 DEF Applied, Tables
    <3> QED
      BY <3>2 DEF AddSet, Adds
  <2> QED
    BY <1>0, <2>1, <2>2, <2>3, InHandReleased DEF HostsInHand
<1>6. CASE AddFails(q)
  BY <1>6 DEF AddFails, Working
<1> QED
  BY <1>2, <1>3, <1>4, <1>5, <1>6 DEF Query

LEMMA InHandOfSync ==
    ASSUME Working, Inv, Inv', HostsInHand, NEW s \in Syncers, Sync(s),
           NEW a \in Addrs, NEW r \in Rules, hosts'[a] = r
    PROVE  InHand(a, r)'
<1> USE DEF core, syncVars, lockVars, queryVars, watchVars, kernel
<1>0. /\ s \in Tasks /\ pc \in [Tasks -> PC] /\ job \in [Tasks -> Jobs]
      /\ TypeOK /\ TypeOK' /\ QueueIsWaiting /\ hosts \in [Addrs -> Rules \cup {NoRule}]
      /\ s # Nothing
  BY TasksAssumption DEF Tasks, Inv, TypeOK, LockKept
<1>a. hosts[a] = r /\ InHand(a, r)
  BY DEF Sync, SyncNothing, SyncLoad, LoadTakes, Loaded, LoadFails, HostsInHand
<1>1. CASE SyncNothing(s)
  <2>1. ~Waits(s) /\ UNCHANGED <<queue, job, snap, table>>
    BY <1>1 DEF SyncNothing, Waits, WaitStates
  <2>2. HandKept(s, a, r)
    BY <2>1, HandOfHost
  <2> QED
    BY <1>0, <1>a, <2>1, <2>2, InHandUnmoved
<1>2. CASE SyncLoad(s)
  <2>1. /\ queue' = Append(queue, s) /\ ~Waits(s)
        /\ job'[s] = [op |-> "load", rule |-> NoRule, ips |-> {}]
        /\ \A u \in Tasks \ {s} : job'[u] = job[u]
        /\ UNCHANGED <<snap, table>>
    BY <1>0, <1>2 DEF SyncLoad, Request, Waits, WaitStates
  <2>2. snap = Nothing
    BY <1>2 DEF SyncLoad, Inv, LockKept, OneLoad
  <2>3. a \in Coming'[r]
    BY <2>1, <2>2 DEF Coming, HostTables
  <2>4. s \notin CutSet(a, r)'
    BY <2>1, <2>3 DEF CutSet, Cuts
  <2>5. HandKept(s, a, r)
    BY <2>1, HandOfHost
  <2> QED
    BY <1>0, <1>a, <2>1, <2>4, <2>5, InHandAsked
<1>3. CASE LoadTakes(s)
  <2>1. Coming' = Coming /\ UNCHANGED <<queue, job, table>>
    BY <1>3 DEF LoadTakes, Coming, HostTables
  <2>2. HandKept(Nothing, a, r)
    BY <2>1 DEF HandKept, AddSet, CutSet, Adds, Cuts
  <2>3. Nothing \notin Tasks
    BY TasksAssumption
  <2> QED
    BY <1>0, <1>a, <2>1, <2>2, <2>3, InHandUnmoved
<1>4. CASE Loaded(s)
  <2>1. /\ Holder(s) /\ table' = Replaced /\ queue' = Tail(queue) /\ snap # Nothing
        /\ \A u \in Tasks \ {s} : job'[u] = job[u]
        /\ pc[s] = "loading"
    BY <1>0, <1>4 DEF Loaded, Release
  <2>2. syncing = s /\ \A u \in Syncers \ {s} : pc[u] # "loading"
    BY <2>1 DEF Inv, LockKept, OneLoad
  <2>3. \A u \in Tasks \ {s} : Waits(u) => job[u].op # "load"
    <3> SUFFICES ASSUME NEW u \in Tasks \ {s}, Waits(u) PROVE job[u].op # "load"
      OBVIOUS
    <3>1. pc[u] \in {"adding", "sweeping"}
      BY <2>2 DEF Waits, WaitStates, Inv, LockKept, Roles, Tasks
    <3> QED
      BY <3>1 DEF Inv, LockKept, JobsFit
  <2>4. HandKept(s, a, r)
    BY <2>1, <2>3 DEF HandKept, AddSet, CutSet, Adds, Cuts
  <2>5. job[s].op = "load"
    BY <1>0, <2>1 DEF Inv, LockKept, JobsFit
  <2>6. s \in AddSet(a, r) \/ (a \in table[r] /\ s \notin CutSet(a, r)) => a \in table'[r]
    BY <1>0, <2>1, <2>5 DEF AddSet, Adds, CutSet, Cuts, Coming, Replaced
  <2> QED
    BY <1>0, <1>a, <2>1, <2>4, <2>6, InHandReleased
<1>5. CASE LoadFails(s)
  BY <1>5 DEF LoadFails, Working
<1> QED
  BY <1>1, <1>2, <1>3, <1>4, <1>5 DEF Sync

LEMMA InHandOfSweep ==
    ASSUME Working, Inv, Inv', HostsInHand, Expire \/ Swept,
           NEW a \in Addrs, NEW r \in Rules, hosts'[a] = r
    PROVE  InHand(a, r)'
<1> USE DEF core, syncVars, lockVars, queryVars, watchVars, kernel
<1>0. /\ Watch \in Tasks /\ pc \in [Tasks -> PC] /\ job \in [Tasks -> Jobs]
      /\ TypeOK /\ TypeOK' /\ QueueIsWaiting /\ hosts \in [Addrs -> Rules \cup {NoRule}]
      /\ sweep = Empty
  BY DEF Tasks, Syncers, Inv, TypeOK, LockKept, SweepsInTurn, Working
<1> DEFINE batch(gone, s) == {b \in gone : hosts[b] = s}
<1>1. CASE Expire
  <2>1. PICK gone \in SUBSET Expirable, d \in Rules :
           /\ hosts' = [b \in Addrs |-> IF b \in gone THEN NoRule ELSE hosts[b]]
           /\ Request(Watch, "delete", d, batch(gone, d))
    BY <1>1 DEF Expire
  <2>2. a \notin gone /\ hosts[a] = r
    BY <2>1 DEF Rules, NoRule
  <2>3. /\ queue' = Append(queue, Watch)
        /\ job'[Watch] = [op |-> "delete", rule |-> d, ips |-> batch(gone, d)]
        /\ \A t \in Tasks \ {Watch} : job'[t] = job[t]
        /\ UNCHANGED <<snap, table>> /\ ~Waits(Watch)
    BY <1>0, <1>1, <2>1 DEF Request, Expire, Waits, WaitStates
  <2>4. Watch \notin CutSet(a, r)'
    BY <2>2, <2>3 DEF CutSet, Cuts
  <2>5. HandKept(Watch, a, r)
    BY <2>3, HandOfHost
  <2> QED
    BY <1>0, <2>2, <2>3, <2>4, <2>5, InHandAsked DEF HostsInHand
<1>2. CASE Swept
  <2>1. Holder(Watch) /\ table' = Applied(job[Watch]) /\ Release(Watch)
    BY <1>0, <1>2 DEF Swept, Working, Empty
  <2>2. /\ queue' = Tail(queue) /\ \A u \in Tasks \ {Watch} : job'[u] = job[u]
        /\ UNCHANGED <<snap, hosts>> /\ pc[Watch] = "sweeping"
    BY <1>0, <1>2, <2>1 DEF Swept, Release
  <2>3. HandKept(Watch, a, r)
    BY <2>2, HandOfHost
  <2>4. \/ Watch \in AddSet(a, r)
        \/ a \in table[r] /\ Watch \notin CutSet(a, r)
        => a \in table'[r]
    <3>1. job[Watch].op = "delete" /\ table \in Tables
      BY <1>0, <2>2 DEF Inv, LockKept, JobsFit, TypeOK
    <3>2. table'[r] = IF job[Watch].rule = r THEN table[r] \ job[Watch].ips ELSE table[r]
      BY <2>1, <3>1 DEF Applied, Tables
    <3> QED
      BY <1>0, <3>1, <3>2 DEF AddSet, Adds, CutSet, Cuts
  <2> QED
    BY <1>0, <2>1, <2>2, <2>3, <2>4, InHandReleased DEF HostsInHand
<1> QED
  BY <1>1, <1>2

LEMMA InHandStep == Working /\ Inv /\ Inv' /\ HostsInHand /\ [Next]_vars => HostsInHand'
<1> SUFFICES ASSUME Working, Inv, Inv', HostsInHand, [Next]_vars,
                    NEW a \in Addrs, NEW r \in Rules, hosts'[a] = r
             PROVE  InHand(a, r)'
  BY DEF HostsInHand
<1>0. TypeOK /\ TypeOK' /\ QueueIsWaiting /\ Nothing \notin Tasks
  BY TasksAssumption DEF Inv, LockKept
<1>1. ASSUME hosts[a] = r, UNCHANGED <<queue, job, snap, table>> PROVE InHand(a, r)'
  <2>1. HandKept(Nothing, a, r)
    BY <1>1, HandOfHost
  <2> QED
    BY <1>0, <1>1, <2>1, InHandUnmoved DEF HostsInHand
<1>2. ASSUME NEW q \in Queries, Query(q) PROVE InHand(a, r)'
  BY <1>2, InHandOfQuery
<1>3. ASSUME NEW s \in Syncers, Sync(s) PROVE InHand(a, r)'
  BY <1>3, InHandOfSync
<1>4. CASE Expire \/ Swept
  BY <1>4, InHandOfSweep
<1>5. CASE WatchTick
  <2>1. hosts[a] = r
    BY <1>5 DEF WatchTick, Rules, NoRule
  <2> QED
    BY <1>1, <1>5, <2>1 DEF WatchTick, lockVars, kernel
<1>6. CASE (\E l \in Links : LinkSync(l)) \/ NewLists \/ EndTick
  BY <1>1, <1>6 DEF LinkSync, NewLists, EndTick, core, lockVars, kernel
<1>7. CASE UNCHANGED vars
  BY <1>1, <1>7 DEF vars, core, lockVars, kernel
<1> QED
  BY <1>2, <1>3, <1>4, <1>5, <1>6, <1>7 DEF Next

(* While routes and pfctl work and a sweep has one rule's hosts, no host   *)
(* waits for a reload to be held: it is in the table of its rule, or its   *)
(* add is queued behind all that would take it out.                        *)
THEOREM HostsAlwaysInHand ==
    ASSUME ~RouteMayFail, ~PfMayFail, ~MixedSweep
    PROVE  Spec => []HostsInHand
<1>1. Init => HostsInHand
  <2> SUFFICES ASSUME Init, NEW a \in Addrs, NEW r \in Rules, hosts[a] = r
               PROVE  InHand(a, r)
    BY DEF HostsInHand
  <2>1. a \in table[r] /\ 1 .. Len(queue) = {}
    BY EmptySeq DEF Init, HostTables
  <2> QED
    BY <2>1 DEF InHand
<1>2. Working
  BY DEF Working
<1> QED
  BY <1>1, <1>2, InvHolds, InHandStep, PTL DEF Spec

-----------------------------------------------------------------------------
(* An answer goes out held.                                                *)

(* A rule that is always in force is always blocked. *)
AlwaysOn ==
    /\ Always \subseteq active
    /\ \A r \in Always : ruleset[r] # "off" /\ (syncing # Nothing => taken[r] # "off")

LEMMA AlwaysOnStep == Inv /\ AlwaysOn /\ [Next]_vars => AlwaysOn'
<1> SUFFICES ASSUME Inv, AlwaysOn, [Next]_vars PROVE AlwaysOn'
  OBVIOUS
<1> USE DEF AlwaysOn, core, syncVars, lockVars, queryVars, watchVars, kernel
<1>0. Always \subseteq Rules
  BY RulesAssumption
<1>1. ASSUME NEW q \in Queries, Query(q) PROVE AlwaysOn'
  BY <1>1 DEF Query, Ask, NoAnswer, RouteAnswer, RouteFails, Added, AddFails, Done
<1>2. ASSUME NEW s \in Syncers, Sync(s) PROVE AlwaysOn'
  <2>1. CASE SyncNothing(s) \/ LoadTakes(s)
    BY <2>1 DEF SyncNothing, LoadTakes
  <2>2. CASE SyncLoad(s)
    <3>1. \A r \in Always : Shape[r] # "off"
      BY <1>0 DEF Shape
    <3> QED
      BY <2>2, <3>1 DEF SyncLoad
  <2>3. CASE Loaded(s) \/ LoadFails(s)
    <3>1. syncing # Nothing
      BY <2>3, TasksAssumption DEF Loaded, LoadFails, Inv, LockKept, OneLoad, Tasks
    <3> QED
      BY <2>3, <3>1 DEF Loaded, LoadFails
  <2> QED
    BY <1>2, <2>1, <2>2, <2>3 DEF Sync
<1>3. CASE \/ \E l \in Links : LinkSync(l)
           \/ WatchTick \/ NewLists \/ EndTick \/ Expire \/ Swept
  BY <1>3 DEF LinkSync, WatchTick, NewLists, EndTick, Expire, Swept
<1>4. CASE UNCHANGED vars
  BY <1>4 DEF vars
<1> QED
  BY <1>1, <1>2, <1>3, <1>4 DEF Next

(* What an answer on its way out carries is known to the resolver. *)
AnswersKnown ==
    \A q \in Queries : pc[q] \in {"adding", "answered"} =>
        \A a \in ips[q] : hosts[a] # NoRule

LEMMA AnswersKnownStep ==
    ASSUME Always = Rules
    PROVE  Inv /\ AnswersKnown /\ [Next]_vars => AnswersKnown'
<1> SUFFICES ASSUME Inv, AnswersKnown, [Next]_vars,
                    NEW q \in Queries, pc'[q] \in {"adding", "answered"}, NEW a \in ips'[q]
             PROVE  hosts'[a] # NoRule
  BY DEF AnswersKnown
<1> USE DEF core, syncVars, lockVars, queryVars, watchVars, kernel
<1>0. /\ pc \in [Tasks -> PC] /\ ips \in [Queries -> SUBSET Addrs] /\ q \in Tasks
      /\ hosts \in [Addrs -> Rules \cup {NoRule}] /\ q \notin Syncers
      /\ Queries \subseteq Tasks /\ Syncers \subseteq Tasks /\ Watch \in Syncers
      /\ Links \subseteq Syncers
  BY TasksAssumption DEF Inv, TypeOK, Tasks, Syncers
<1>r. NoRule \notin Rules
  BY DEF Rules, NoRule
<1>1. ASSUME pc'[q] = pc[q], ips'[q] = ips[q],
             \A b \in ips[q] : hosts[b] # NoRule => hosts'[b] # NoRule
      PROVE  hosts'[a] # NoRule
  BY <1>1 DEF AnswersKnown
<1>2. ASSUME NEW p \in Queries, Query(p) PROVE hosts'[a] # NoRule
  <2>1. \A b \in Addrs : hosts[b] # NoRule => hosts'[b] # NoRule
    <3>1. CASE RouteAnswer(p) \/ RouteFails(p)
      <4>1. rule[p] # NoRule
        BY <1>r, <3>1 DEF RouteAnswer, RouteFails, Inv, LockKept, Roles
      <4>2. \E as : RouteHosts(rule[p], as)
        BY <3>1 DEF RouteAnswer, RouteFails
      <4> QED
        BY <4>1, <4>2 DEF RouteHosts
    <3> QED
      BY <1>2, <3>1 DEF Query, Ask, NoAnswer, Added, AddFails, Done
  <2>2. CASE p # q
    <3>1. pc'[q] = pc[q] /\ ips'[q] = ips[q]
      BY <1>0, <1>2, <2>2 DEF Query, Ask, NoAnswer, RouteAnswer, RouteFails, Added, AddFails, Done
    <3> QED
      BY <1>0, <1>1, <2>1, <3>1
  <2>3. CASE p = q
    <3>1. CASE RouteAnswer(q)
      <4>1. PICK as \in SUBSET Addrs :
               /\ RouteHosts(rule[q], as \ Kept(rule[q], as))
               /\ ips' = [ips EXCEPT ![q] = as]
        BY <3>1 DEF RouteAnswer
      <4>2. rule[q] # NoRule /\ a \in as
        <5>1. rule[q] \in Rules
          BY <3>1 DEF RouteAnswer, Inv, LockKept, Roles
        <5>2. a \in as
          BY <1>0, <4>1
        <5> QED
          BY <1>r, <5>1, <5>2
      <4>3. a \in Kept(rule[q], as) => hosts[a] # NoRule
        BY DEF Kept
      <4> QED
        BY <4>1, <4>2, <4>3 DEF RouteHosts
    <3>2. CASE Added(q)
      BY <1>0, <3>2 DEF Added, AnswersKnown
    <3>3. CASE Ask(q) \/ NoAnswer(q) \/ RouteFails(q) \/ AddFails(q) \/ Done(q)
      BY <1>0, <3>3 DEF Ask, NoAnswer, RouteFails, AddFails, Done
    <3> QED
      BY <1>2, <2>3, <3>1, <3>2, <3>3 DEF Query
  <2> QED
    BY <2>2, <2>3
<1>3. ASSUME NEW s \in Syncers, Sync(s) PROVE hosts'[a] # NoRule
  <2>1. pc'[q] = pc[q] /\ UNCHANGED <<ips, hosts>>
    BY <1>0, <1>3 DEF Sync, SyncNothing, SyncLoad, LoadTakes, Loaded, LoadFails
  <2> QED
    BY <1>1, <2>1
<1>4. CASE Expire
  <2>1. pc'[q] = pc[q] /\ UNCHANGED ips
    BY <1>0, <1>4 DEF Expire
  <2>2. PICK gone \in SUBSET Expirable :
           hosts' = [b \in Addrs |-> IF b \in gone THEN NoRule ELSE hosts[b]]
    BY <1>4 DEF Expire
  <2>3. \A b \in ips[q] : b \in Addrs /\ b \notin gone
    BY <1>0, <2>2 DEF Expirable
  <2> QED
    BY <1>1, <2>1, <2>2, <2>3
<1>5. CASE WatchTick
  <2>1. pc'[q] = pc[q] /\ UNCHANGED <<ips, hosts>>
    <3>1. PICK A \in SUBSET Rules :
             /\ Always \subseteq A
             /\ hosts' = [b \in Addrs |-> IF hosts[b] \in A THEN hosts[b] ELSE NoRule]
      BY <1>5 DEF WatchTick
    <3>2. hosts' = hosts
      BY <1>0, <3>1
    <3> QED
      BY <1>0, <1>5, <3>2 DEF WatchTick
  <2> QED
    BY <1>1, <2>1
<1>6. CASE (\E l \in Links : LinkSync(l)) \/ NewLists \/ EndTick \/ Swept
  <2>1. pc'[q] = pc[q] /\ UNCHANGED <<ips, hosts>>
    BY <1>0, <1>6 DEF LinkSync, NewLists, EndTick, Swept
  <2> QED
    BY <1>1, <2>1
<1>7. CASE UNCHANGED vars
  BY <1>1, <1>7 DEF vars
<1> QED
  BY <1>2, <1>3, <1>4, <1>5, <1>6, <1>7 DEF Next

(* With one query at a time, rules that are always in force, routes and a  *)
(* pfctl that work and sweeps of one rule each, an answer goes out only    *)
(* with every address of it held by pf (Resolver::listed): for any rules,  *)
(* addresses and links.                                                    *)
THEOREM AnswersAlwaysHeld ==
    ASSUME ~RouteMayFail, ~PfMayFail, ~MixedSweep, Always = Rules,
           \A p, q \in Queries : p = q
    PROVE  Spec => AnswerHeld
<1>1. Init => AlwaysOn /\ AnswersKnown
  BY RulesAssumption DEF Init, AlwaysOn, AnswersKnown, Shape, Tasks
<1>2. Inv /\ Inv' /\ HostsInHand' /\ AlwaysOn' /\ AnswersKnown' =>
        [\A q \in Queries : Answers(q) =>
            \A a \in ips'[q] : hosts'[a] # NoRule /\ HeldNow(a, hosts[a])']_vars
  <2> SUFFICES ASSUME Inv, Inv', HostsInHand', AlwaysOn', AnswersKnown',
                      NEW q \in Queries, pc'[q] = "answered", NEW a \in ips'[q]
               PROVE  hosts'[a] # NoRule /\ HeldNow(a, hosts[a])'
    BY DEF Answers
  <2>1. TypeOK' /\ a \in Addrs /\ hosts'[a] \in Rules /\ hosts'[a] # NoRule
    BY DEF AnswersKnown, Inv, TypeOK
  <2>2. PICK r \in Rules : hosts'[a] = r
    BY <2>1
  <2>3. InHand(a, r)'
    BY <2>1, <2>2 DEF HostsInHand
  <2>4. \A t \in Tasks : ~Adds(t, a, r)'
    <3> SUFFICES ASSUME NEW t \in Tasks, job'[t].op = "add" PROVE FALSE
      BY DEF Adds
    <3>1. pc'[t] = "adding"
      BY DEF Inv, LockKept, JobsFit, Waits, WaitStates, Idle
    <3>2. t \in Queries
      BY <3>1 DEF Inv, LockKept, Roles, Tasks, Syncers
    <3> QED
      BY <3>1, <3>2
  <2>5. \A i \in 1 .. Len(queue') : queue'[i] \in Tasks
    BY <2>1, ElementOfSeq DEF TypeOK
  <2>6. a \in table'[r]
    BY <2>3, <2>4, <2>5 DEF InHand
  <2>7. ruleset'[r] # "off"
    BY DEF AlwaysOn
  <2> QED
    BY <2>1, <2>2, <2>6, <2>7 DEF HeldNow
<1> QED
  BY <1>1, <1>2, InvHolds, HostsAlwaysInHand, AlwaysOnStep, AnswersKnownStep, PTL
     DEF Spec, AnswerHeld

-----------------------------------------------------------------------------
(* The lock makes no difference: KillSwitch implements HostTable.          *)

(* Only a rule in force has a tunnel. *)
TunnelsInForce == \A r \in Rules : r \notin active => tunnel[r] = "none"

LEMMA TunnelsStep == Inv /\ TunnelsInForce /\ [Next]_vars => TunnelsInForce'
<1> SUFFICES ASSUME Inv, TunnelsInForce, [Next]_vars PROVE TunnelsInForce'
  OBVIOUS
<1> USE DEF TunnelsInForce, core, syncVars, lockVars, queryVars, watchVars, kernel
<1>1. ASSUME NEW q \in Queries, Query(q) PROVE TunnelsInForce'
  BY <1>1 DEF Query, Ask, NoAnswer, RouteAnswer, RouteFails, Added, AddFails, Done
<1>2. ASSUME NEW s \in Syncers, Sync(s) PROVE TunnelsInForce'
  BY <1>2 DEF Sync, SyncNothing, SyncLoad, LoadTakes, Loaded, LoadFails
<1>3. CASE \/ \E l \in Links : LinkSync(l)
           \/ WatchTick \/ NewLists \/ EndTick \/ Expire \/ Swept
  BY <1>3 DEF LinkSync, WatchTick, NewLists, EndTick, Expire, Swept
<1>4. CASE UNCHANGED vars
  BY <1>4 DEF vars
<1> QED
  BY <1>1, <1>2, <1>3, <1>4 DEF Next

(* What is known of pf is what the hosts say. *)
Exact == Held = IF pfStale THEN Nothing ELSE Table!AsHosts

LEMMA ExactHolds ==
    ASSUME ~MixedSweep
    PROVE  Inv /\ ActiveBlocked /\ HostsHeld /\ NothingElseHeld => Exact
<1> SUFFICES ASSUME Inv, ActiveBlocked, HostsHeld, NothingElseHeld, ~pfStale,
                    NEW a \in Addrs, NEW r \in active
             PROVE  Settled(a, r) /\ Blocked(r) <=> hosts[a] = r
  <2>1. ASSUME \A a \in Addrs, r \in active : Settled(a, r) /\ Blocked(r) <=> hosts[a] = r
        PROVE  [r \in Rules |->
                   IF r \in active THEN {a \in Addrs : Settled(a, r) /\ Blocked(r)} ELSE {}]
                   = Table!AsHosts
    <3>1. \A r \in active : {a \in Addrs : Settled(a, r) /\ Blocked(r)}
                               = {a \in Addrs : hosts[a] = r}
      BY <2>1
    <3> QED
      BY <3>1 DEF Table!AsHosts
  <2> QED
    BY <2>1 DEF Exact, Held
<1>1. r \in Rules /\ sweep = Empty
  BY DEF Inv, TypeOK, LockKept, SweepsInTurn
<1>2. a \notin sweep[r]
  BY <1>1 DEF Empty
<1> QED
  BY <1>2 DEF ActiveBlocked, HostsHeld, NothingElseHeld

(* A step of the abstract table, or a stutter. *)
TableStep == [Table!Next]_(Table!table)

LEMMA SameHosts ==
    ASSUME Inv, Inv', Exact, Exact', UNCHANGED <<active, hosts>>
    PROVE  TableStep
<1>1. Table!AsHosts' = Table!AsHosts
  BY DEF Table!AsHosts
<1>2. pfStale \in BOOLEAN /\ pfStale' \in BOOLEAN
  BY DEF Inv, TypeOK
<1>3. CASE pfStale' = pfStale
  <2>1. Held' = Held
    BY <1>1, <1>3 DEF Exact
  <2> QED
    BY <2>1 DEF TableStep, Table!table
<1>4. CASE pfStale' /\ ~pfStale
  <2>1. Held' = Nothing
    BY <1>4 DEF Exact
  <2> QED
    BY <2>1 DEF TableStep, Table!Next, Table!Forget
<1>5. CASE pfStale /\ ~pfStale'
  <2>1. Held = Nothing /\ Held' = Table!AsHosts
    BY <1>1, <1>5 DEF Exact
  <2> QED
    BY <2>1 DEF TableStep, Table!Next, Table!Reload
<1> QED
  BY <1>2, <1>3, <1>4, <1>5

(* The addresses of an answer become hosts of its rule. *)
LEMMA AnswerOfTable ==
    ASSUME Inv, Inv', Exact, Exact', TunnelsInForce,
           NEW q \in Queries, pc[q] = "asking", UNCHANGED active,
           NEW as \in SUBSET Addrs, RouteHosts(rule[q], as),
           as = {} \/ tunnel[rule[q]] # "none"
    PROVE  TableStep
<1> DEFINE r == rule[q]
<1>0. /\ r \in Rules /\ hosts \in [Addrs -> Rules \cup {NoRule}] /\ active \subseteq Rules
      /\ pfStale \in BOOLEAN /\ pfStale' \in BOOLEAN
  BY DEF Inv, TypeOK, LockKept, Roles
<1>1. /\ hosts' = [a \in Addrs |-> IF a \in as THEN r ELSE hosts[a]]
      /\ pfStale' <=> (pfStale \/ \E a \in as : hosts[a] \notin {NoRule, r})
  BY DEF RouteHosts
<1> HIDE DEF r
<1>2. CASE as = {}
  <2>1. hosts' = hosts
    BY <1>0, <1>1, <1>2
  <2> QED
    BY <2>1, SameHosts
<1>3. CASE as # {}
  <2>1. r \in active
    BY <1>0, <1>3 DEF TunnelsInForce, r
  <2>2. CASE pfStale'
    <3>1. Held' = Nothing
      BY <2>2 DEF Exact
    <3>2. Held = Nothing \/ \E a \in as : hosts[a] \notin {NoRule, r}
      BY <1>1, <2>2 DEF Exact
    <3>3. Table!Answer(r, as)
      BY <1>1, <2>1, <3>1, <3>2 DEF Table!Answer
    <3> QED
      BY <1>0, <3>3 DEF TableStep, Table!Next
  <2>3. CASE ~pfStale'
    <3>1. /\ ~pfStale /\ \A a \in as : hosts[a] \in {NoRule, r}
          /\ Held = Table!AsHosts /\ Held' = Table!AsHosts'
      BY <1>0, <1>1, <2>3 DEF Exact
    <3>2. Table!AsHosts' = [Table!AsHosts EXCEPT ![r] = @ \cup as]
      <4> DEFINE new == [Table!AsHosts EXCEPT ![r] = @ \cup as]
      <4>1. ASSUME NEW s \in Rules PROVE Table!AsHosts'[s] = new[s]
        <5>1. CASE s = r
          BY <1>0, <1>1, <2>1, <5>1 DEF Table!AsHosts
        <5>2. CASE s # r
          <6>1. \A a \in Addrs : hosts'[a] = s <=> hosts[a] = s
            <7>1. NoRule \notin Rules
              BY DEF NoRule, Rules
            <7> QED
              BY <1>0, <1>1, <3>1, <4>1, <5>2, <7>1
          <6> QED
            BY <1>0, <5>2, <6>1 DEF Table!AsHosts
        <5> QED
          BY <5>1, <5>2
      <4>2. /\ Table!AsHosts' = [s \in Rules |-> Table!AsHosts'[s]]
            /\ new = [s \in Rules |-> new[s]]
        BY DEF Table!AsHosts
      <4> HIDE DEF new
      <4>3. Table!AsHosts' = new
        BY <4>1, <4>2
      <4> QED
        BY <4>3 DEF new
    <3>3. Held # Nothing /\ ~\E a \in as : hosts[a] \notin {NoRule, r}
      <4>1. Table!AsHosts \in [Rules -> SUBSET Addrs]
        BY DEF Table!AsHosts
      <4> QED
        BY <3>1, <4>1, TasksAssumption
    <3>4. Table!Answer(r, as)
      BY <1>1, <2>1, <3>1, <3>2, <3>3 DEF Table!Answer
    <3> QED
      BY <1>0, <3>4 DEF TableStep, Table!Next
  <2> QED
    BY <2>2, <2>3
<1> QED
  BY <1>2, <1>3

(* The hosts of one rule are forgotten. *)
LEMMA SweepOfTable ==
    ASSUME ~MixedSweep, Inv, Inv', Exact, Exact', Expire
    PROVE  TableStep
<1>0. \E gone \in SUBSET Addrs, r \in Rules :
         /\ gone = {a \in gone : hosts[a] = r}
         /\ hosts' = [a \in Addrs |-> IF a \in gone THEN NoRule ELSE hosts[a]]
  <2> DEFINE batch(G, s) == {a \in G : hosts[a] = s}
  <2>1. Expirable \subseteq Addrs
    BY DEF Expirable
  <2>2. PICK gone \in SUBSET Expirable, r \in Rules :
           /\ ~MixedSweep => gone = batch(gone, r)
           /\ hosts' = [a \in Addrs |-> IF a \in gone THEN NoRule ELSE hosts[a]]
    BY DEF Expire
  <2>3. gone \in SUBSET Addrs
    BY <2>1
  <2>4. gone = {a \in gone : hosts[a] = r}
    BY <2>2
  <2> QED
    BY <2>2, <2>3, <2>4
<1> USE DEF core, syncVars, lockVars, queryVars, watchVars, kernel
<1>1. PICK gone \in SUBSET Addrs, r \in Rules :
         /\ gone = {a \in gone : hosts[a] = r}
         /\ hosts' = [a \in Addrs |-> IF a \in gone THEN NoRule ELSE hosts[a]]
  BY <1>0
<1>2. UNCHANGED <<active, pfStale>>
  BY DEF Expire
<1>3. /\ hosts \in [Addrs -> Rules \cup {NoRule}] /\ active \subseteq Rules
      /\ \A a \in gone : hosts[a] = r
  BY <1>1 DEF Inv, TypeOK
<1>4. CASE pfStale
  <2>1. Held = Nothing /\ Held' = Nothing
    BY <1>2, <1>4 DEF Exact
  <2>2. Table!Sweep(r, gone)
    BY <1>1, <1>2, <1>3, <2>1 DEF Table!Sweep
  <2> QED
    BY <1>1, <2>2 DEF TableStep, Table!Next
<1>5. CASE ~pfStale
  <2>1. Held = Table!AsHosts /\ Held' = Table!AsHosts'
    BY <1>2, <1>5 DEF Exact
  <2>2. Table!AsHosts' = [Table!AsHosts EXCEPT ![r] = @ \ gone]
    <3> DEFINE new == [Table!AsHosts EXCEPT ![r] = @ \ gone]
    <3>1. ASSUME NEW s \in Rules PROVE Table!AsHosts'[s] = new[s]
      <4>1. \A a \in Addrs : hosts'[a] = s <=> hosts[a] = s /\ a \notin gone
        <5>1. s # NoRule
          BY RulesAssumption DEF NoRule, Rules
        <5>2. \A a \in Addrs : hosts'[a] = IF a \in gone THEN NoRule ELSE hosts[a]
          BY <1>1
        <5> QED
          BY <5>1, <5>2
      <4>2. s # r => \A a \in Addrs : hosts[a] = s => a \notin gone
        BY <1>3
      <4>3. CASE s = r
        BY <1>2, <4>1, <4>3 DEF Table!AsHosts
      <4>4. CASE s # r
        <5>1. \A a \in Addrs : hosts'[a] = s <=> hosts[a] = s
          BY <4>1, <4>2, <4>4
        <5> QED
          BY <1>2, <4>4, <5>1 DEF Table!AsHosts
      <4> QED
        BY <4>3, <4>4
    <3>2. /\ Table!AsHosts' = [s \in Rules |-> Table!AsHosts'[s]]
          /\ new = [s \in Rules |-> new[s]]
      BY DEF Table!AsHosts
    <3> HIDE DEF new
    <3>3. Table!AsHosts' = new
      BY <3>1, <3>2
    <3> QED
      BY <3>3 DEF new
  <2>3. Held # Nothing
    <3>1. Table!AsHosts \in [Rules -> SUBSET Addrs]
      BY DEF Table!AsHosts
    <3> QED
      BY <2>1, <3>1, TasksAssumption
  <2>4. Table!Sweep(r, gone)
    BY <1>1, <1>2, <1>3, <2>1, <2>2, <2>3 DEF Table!Sweep
  <2> QED
    BY <1>1, <2>4 DEF TableStep, Table!Next
<1> QED
  BY <1>4, <1>5

(* Other rules come into force. *)
LEMMA SwitchOfTable ==
    ASSUME Inv, Inv', Exact, Exact', WatchTick
    PROVE  TableStep
<1>1. PICK A \in SUBSET Rules :
         /\ active' = A
         /\ hosts' = [a \in Addrs |-> IF hosts[a] \in A THEN hosts[a] ELSE NoRule]
         /\ pfStale' = (pfStale \/ A # active \/ hosts' # hosts)
  BY DEF WatchTick
<1>2. CASE A = active /\ hosts' = hosts
  BY <1>1, <1>2, SameHosts
<1>3. CASE ~(A = active /\ hosts' = hosts)
  <2>1. Held' = Nothing
    BY <1>1, <1>3 DEF Exact
  <2>2. Table!Switch(A)
    BY <1>1, <1>3, <2>1 DEF Table!Switch
  <2> QED
    BY <2>2 DEF TableStep, Table!Next
<1> QED
  BY <1>2, <1>3

LEMMA TableStepHolds ==
    ASSUME ~RouteMayFail, ~MixedSweep
    PROVE  Inv /\ Inv' /\ Exact /\ Exact' /\ TunnelsInForce /\ [Next]_vars => TableStep
<1> SUFFICES ASSUME Inv, Inv', Exact, Exact', TunnelsInForce, [Next]_vars PROVE TableStep
  OBVIOUS
<1> USE DEF core, syncVars, lockVars, queryVars, watchVars, kernel
<1>1. ASSUME NEW q \in Queries, Query(q) PROVE TableStep
  <2>1. CASE RouteAnswer(q)
    <3>1. PICK as \in SUBSET Addrs :
             LET rest == as \ Kept(rule[q], as)
             IN  /\ RouteHosts(rule[q], rest)
                 /\ rest = {} \/ tunnel[rule[q]] # "none"
      BY <2>1 DEF RouteAnswer
    <3> DEFINE rest == as \ Kept(rule[q], as)
    <3>2. rest \in SUBSET Addrs /\ pc[q] = "asking" /\ UNCHANGED active
      BY <2>1 DEF RouteAnswer
    <3> QED
      BY <3>1, <3>2, AnswerOfTable
  <2>2. CASE RouteFails(q)
    <3>1. pc[q] = "asking" /\ UNCHANGED active /\ RouteHosts(rule[q], {})
      BY <2>2 DEF RouteFails
    <3> QED
      BY <3>1, AnswerOfTable
  <2>3. CASE Ask(q) \/ NoAnswer(q) \/ Added(q) \/ AddFails(q) \/ Done(q)
    BY <2>3, SameHosts DEF Ask, NoAnswer, Added, AddFails, Done
  <2> QED
    BY <1>1, <2>1, <2>2, <2>3 DEF Query
<1>2. ASSUME NEW s \in Syncers, Sync(s) PROVE TableStep
  BY <1>2, SameHosts DEF Sync, SyncNothing, SyncLoad, LoadTakes, Loaded, LoadFails
<1>3. CASE Expire
  BY <1>3, SweepOfTable
<1>4. CASE WatchTick
  BY <1>4, SwitchOfTable
<1>5. CASE (\E l \in Links : LinkSync(l)) \/ NewLists \/ EndTick \/ Swept
  BY <1>5, SameHosts DEF LinkSync, NewLists, EndTick, Swept
<1>6. CASE UNCHANGED vars
  BY <1>6, SameHosts DEF vars
<1> QED
  BY <1>1, <1>2, <1>3, <1>4, <1>5, <1>6 DEF Next

(* While routes do not fail and a sweep has one rule's hosts, KillSwitch   *)
(* implements HostTable, whatever pfctl does and in whatever order the     *)
(* lock is taken: the safety part of the refinement.  That what is unknown *)
(* does not stay so is left to TLC.                                        *)
THEOREM TableImplemented ==
    ASSUME ~RouteMayFail, ~MixedSweep
    PROVE  Spec => Table!Init /\ [][Table!Next]_(Table!table)
<1>1. Init => TunnelsInForce
  BY DEF Init, TunnelsInForce
<1>2. Init /\ Exact => Table!Init
  BY DEF Init, Exact, Table!Init
<1>3. Inv /\ ActiveBlocked /\ HostsHeld /\ NothingElseHeld => Exact
  BY ExactHolds
<1>4. Inv /\ Inv' /\ Exact /\ Exact' /\ TunnelsInForce /\ [Next]_vars
          => [Table!Next]_(Table!table)
  BY TableStepHolds DEF TableStep
<1> QED
  BY <1>1, <1>2, <1>3, <1>4, InvHolds, AlwaysBlocked, HostsAlwaysHeld,
     NothingElseAlwaysHeld, TunnelsStep, PTL DEF Spec

-----------------------------------------------------------------------------
(* What pf has when no command waits for it.                               *)

InPf(r) == ruleset[r] # "off" /\ table[r] = {a \in Addrs : hosts[a] = r}

LEMMA AtRestExact ==
    ASSUME Inv, ActiveBlocked, HostsHeld, NothingElseHeld, queue = <<>>, ~pfStale,
           ~MixedSweep,
           NEW r \in active
    PROVE  InPf(r)
<1>1. r \in Rules /\ table[r] \subseteq Addrs
  BY DEF Inv, TypeOK, Tables
<1>2. syncing = Nothing
  <2> SUFFICES ASSUME syncing # Nothing PROVE FALSE
    OBVIOUS
  <2>1. syncing \in Syncers /\ pc[syncing] = "loading"
    BY DEF Inv, TypeOK, LockKept, OneLoad
  <2>2. syncing \in Tasks /\ Waits(syncing)
    BY <2>1 DEF Tasks, Waits, WaitStates
  <2>3. \E i \in 1 .. Len(queue) : queue[i] = syncing
    BY <2>2 DEF Inv, LockKept, QueueIsWaiting
  <2> QED
    BY <2>3
<1>3. ruleset[r] # "off"
  BY <1>2 DEF ActiveBlocked, Blocked
<1>4. ASSUME NEW a \in Addrs
      PROVE  Settled(a, r) <=> a \in table[r]
  BY DEF Settled
<1>5. sweep[r] = {}
  BY <1>1 DEF Inv, LockKept, SweepsInTurn, Empty
<1>6. ASSUME NEW a \in Addrs, hosts[a] = r PROVE a \in table[r]
  BY <1>4, <1>6 DEF HostsHeld
<1>7. ASSUME NEW a \in Addrs, hosts[a] # r PROVE a \notin table[r]
  BY <1>4, <1>5, <1>7 DEF NothingElseHeld
<1> QED
  BY <1>1, <1>3, <1>6, <1>7 DEF InPf

(* When no command waits for the lock of pf and pf is not known to be      *)
(* stale, the rules in force are blocked and the table of each is exactly  *)
(* its hosts, whatever order queries, sweeps and loads came in.            *)
THEOREM ExactAtRest ==
    ASSUME ~RouteMayFail, ~MixedSweep
    PROVE  Spec => [](queue = <<>> /\ ~pfStale => \A r \in active : InPf(r))
<1>1. /\ Inv /\ ActiveBlocked /\ HostsHeld /\ NothingElseHeld
      => (queue = <<>> /\ ~pfStale => \A r \in active : InPf(r))
  BY AtRestExact
<1> QED
  BY <1>1, InvHolds, AlwaysBlocked, HostsAlwaysHeld, NothingElseAlwaysHeld, PTL
=============================================================================
