--------------------------- MODULE LifecycleProofs ---------------------------
(***************************************************************************)
(* What holds of Lifecycle for any addresses, services and servers, and    *)
(* for any of the commands failing that a theorem does not exclude.        *)
(***************************************************************************)
EXTENDS Lifecycle, TLAPS

-----------------------------------------------------------------------------
(* The DNS. *)

(* The file has what the owner had of each service that it has, and the    *)
(* services it has not are the owner's.                                    *)
DnsSafe ==
    /\ DnsTypeOK
    /\ todo \subseteq Keeps
    /\ \A s \in Keeps : Entry(s) = Kept(Had[s])
    /\ \A s \in Services \ Keeps : HasItsOwn(s)

(* What was put back so far is what the file has. *)
PutBack == ~dnsFailed => \A s \in Keeps \ todo : dns[s] = Entry(s)

AllItsOwn == \A s \in Services : HasItsOwn(s)

LEMMA HadServers ==
    ASSUME NEW s \in Services
    PROVE  Had[s] \subseteq Servers /\ Kept(Had[s]) \subseteq Servers
<1>1. Had[s] \subseteq Servers
  BY DEF Servers
<1> QED
  BY <1>1 DEF Kept

LEMMA ResolverServes == Resolver \in Servers
BY DEF Servers

LEMMA KeptOfOwn ==
    ASSUME NEW s \in Services, HasItsOwn(s)
    PROVE  Kept(dns[s]) = Kept(Had[s])
BY DEF HasItsOwn, Kept

LEMMA DnsInitially == DnsInit => DnsSafe /\ AllItsOwn
<1> SUFFICES ASSUME DnsInit PROVE DnsSafe /\ AllItsOwn
  OBVIOUS
<1>1. dns \in [Services -> SUBSET Servers]
  <2>1. dns = Had /\ Had = [s \in Services |-> Had[s]]
    BY DnsAssumption DEF DnsInit
  <2> QED
    BY <2>1, HadServers
<1>2. Keeps = {} /\ todo = {}
  BY DEF DnsInit, Keeps
<1> QED
  BY <1>1, <1>2 DEF DnsInit, DnsSafe, DnsTypeOK, AllItsOwn, HasItsOwn

LEMMA DnsDiesKeeps ==
    ASSUME DnsSafe, DnsDies \/ UNCHANGED dnsVars
    PROVE  DnsSafe' /\ (AllItsOwn => AllItsOwn')
<1>1. /\ dns' = dns /\ dnsSaved' = dnsSaved /\ todo' \subseteq todo
      /\ dnsFailed' \in BOOLEAN
  BY DEF DnsDies, dnsVars, DnsSafe, DnsTypeOK
<1>2. Keeps' = Keeps /\ \A s : Entry(s)' = Entry(s)
  BY <1>1 DEF Keeps, Entry
<1> QED
  BY <1>1, <1>2 DEF DnsSafe, DnsTypeOK, AllItsOwn, HasItsOwn

LEMMA TakeStartKeeps ==
    ASSUME DnsSafe, TakeStart
    PROVE  DnsSafe'
<1>1. PICK read \in SUBSET Services :
        /\ IF read \subseteq Keeps
           THEN UNCHANGED dnsSaved
           ELSE dnsSaved' = File(read)
        /\ todo' = {s \in read : dns[s] # {Resolver}}
        /\ dnsFailed' = (read # Services)
        /\ UNCHANGED dns
  BY DEF TakeStart
<1>2. dnsFailed' \in BOOLEAN /\ dns' \in [Services -> SUBSET Servers]
  BY <1>1 DEF DnsSafe, DnsTypeOK
<1>3. CASE read \subseteq Keeps
  <2>1. UNCHANGED dnsSaved
    BY <1>1, <1>3
  <2>2. Keeps' = Keeps /\ \A s : Entry(s)' = Entry(s)
    BY <2>1 DEF Keeps, Entry
  <2> QED
    BY <1>1, <1>2, <1>3, <2>1, <2>2 DEF DnsSafe, DnsTypeOK, HasItsOwn
<1>4. CASE ~(read \subseteq Keeps)
  <2>1. dnsSaved' = File(read)
    BY <1>1, <1>4
  <2>2. Keeps \cup read \subseteq Services
    BY DEF DnsSafe, DnsTypeOK, Keeps
  <2>3. \A s \in Keeps \cup read :
            (IF s \in Keeps THEN Entry(s) ELSE Kept(dns[s])) = Kept(Had[s])
    BY <2>2, KeptOfOwn DEF DnsSafe
  <2>4. File(read) = [s \in Keeps \cup read |-> Kept(Had[s])]
    BY <2>3 DEF File
  <2>5. File(read) \in [Keeps \cup read -> SUBSET Servers]
    BY <2>2, <2>4, HadServers
  <2>6. File(read) # NoFile
    BY <2>2, <2>5, DnsAssumption
  <2>7. Keeps' = Keeps \cup read
    BY <2>1, <2>4, <2>6 DEF Keeps
  <2>8. \A s \in Keeps' : Entry(s)' = Kept(Had[s])
    BY <2>1, <2>4, <2>7 DEF Entry
  <2>9. \A s \in Keeps' : Entry(s)' \subseteq Servers
    BY <2>2, <2>7, <2>8, HadServers
  <2> QED
    BY <1>1, <1>2, <2>2, <2>7, <2>8, <2>9 DEF DnsSafe, DnsTypeOK, HasItsOwn
<1> QED
  BY <1>3, <1>4

(* A command that fails, or a give_back that begins, sets nothing. *)
LEMMA DnsBeginsKeeps ==
    ASSUME DnsSafe, TakeFails \/ GiveStart \/ GiveFails
    PROVE  /\ DnsSafe'
           /\ GiveStart \/ GiveFails => PutBack'
           /\ AllItsOwn => AllItsOwn'
<1>1. /\ dns' = dns /\ dnsSaved' = dnsSaved /\ todo' \subseteq Keeps
      /\ dnsFailed' \in BOOLEAN
  BY DEF TakeFails, GiveStart, GiveFails
<1>2. Keeps' = Keeps /\ \A s : Entry(s)' = Entry(s)
  BY <1>1 DEF Keeps, Entry
<1>3. DnsSafe' /\ (AllItsOwn => AllItsOwn')
  <2>1. DnsTypeOK'
    <3>1. todo' \subseteq Services
      BY <1>1 DEF DnsSafe, DnsTypeOK, Keeps
    <3> QED
      BY <1>1, <1>2, <3>1 DEF DnsSafe, DnsTypeOK
  <2> QED
    BY <1>1, <1>2, <2>1 DEF DnsSafe, AllItsOwn, HasItsOwn
<1>4. GiveStart \/ GiveFails => PutBack'
  BY <1>2 DEF GiveStart, GiveFails, PutBack
<1> QED
  BY <1>3, <1>4

LEMMA TakeSetKeeps ==
    ASSUME DnsSafe, NEW s \in Services, NEW ok \in BOOLEAN, TakeSet(s, ok)
    PROVE  DnsSafe'
<1>1. /\ s \in todo /\ todo' = todo \ {s} /\ dnsSaved' = dnsSaved
      /\ dns' = IF ok THEN [dns EXCEPT ![s] = {Resolver}] ELSE dns
      /\ dnsFailed' \in BOOLEAN
  BY DEF TakeSet, DnsSafe, DnsTypeOK
<1>2. Keeps' = Keeps /\ \A t : Entry(t)' = Entry(t)
  BY <1>1 DEF Keeps, Entry
<1>3. dns \in [Services -> SUBSET Servers] /\ {Resolver} \subseteq Servers
  BY ResolverServes DEF DnsSafe, DnsTypeOK
<1>4. /\ dns' \in [Services -> SUBSET Servers]
      /\ \A t \in Services \ {s} : dns'[t] = dns[t]
  BY <1>1, <1>3
<1>5. s \in Keeps
  BY <1>1 DEF DnsSafe
<1>6. \A t \in Services \ Keeps : HasItsOwn(t)'
  BY <1>4, <1>5 DEF DnsSafe, HasItsOwn
<1> QED
  BY <1>1, <1>2, <1>4, <1>6 DEF DnsSafe, DnsTypeOK

LEMMA GiveSetKeeps ==
    ASSUME DnsSafe, NEW s \in Services, NEW ok \in BOOLEAN, GiveSet(s, ok)
    PROVE  /\ DnsSafe'
           /\ PutBack => PutBack'
           /\ AllItsOwn => AllItsOwn'
<1>1. /\ s \in todo /\ todo' = todo \ {s} /\ dnsSaved' = dnsSaved
      /\ dns' = IF ok THEN [dns EXCEPT ![s] = Entry(s)] ELSE dns
      /\ dnsFailed' = (dnsFailed \/ ~ok)
  BY DEF GiveSet
<1>2. Keeps' = Keeps /\ \A t : Entry(t)' = Entry(t)
  BY <1>1 DEF Keeps, Entry
<1>3. s \in Keeps /\ Entry(s) = Kept(Had[s])
  BY <1>1 DEF DnsSafe
<1>4. dns \in [Services -> SUBSET Servers] /\ Entry(s) \subseteq Servers
  BY <1>3, HadServers DEF DnsSafe, DnsTypeOK
<1>5. /\ dns' \in [Services -> SUBSET Servers]
      /\ \A t \in Services \ {s} : dns'[t] = dns[t]
      /\ ok => dns'[s] = Entry(s)
      /\ ~ok => dns'[s] = dns[s]
  BY <1>1, <1>4
<1>6. \A t \in Services \ Keeps : HasItsOwn(t)'
  BY <1>3, <1>5 DEF DnsSafe, HasItsOwn
<1>7. dnsFailed' \in BOOLEAN
  BY <1>1 DEF DnsSafe, DnsTypeOK
<1>8. DnsSafe'
  BY <1>1, <1>2, <1>5, <1>6, <1>7 DEF DnsSafe, DnsTypeOK
<1>9. ASSUME PutBack PROVE PutBack'
  <2> SUFFICES ASSUME ~dnsFailed', NEW t \in Keeps \ todo'
               PROVE  dns'[t] = Entry(t)
    BY <1>2 DEF PutBack
  <2>1. ok /\ ~dnsFailed
    BY <1>1
  <2>2. CASE t = s
    BY <1>5, <2>1, <2>2
  <2>3. CASE t # s
    <3>1. t \in Services /\ t \in Keeps \ todo
      BY <1>1, <2>3 DEF DnsSafe, DnsTypeOK, Keeps
    <3> QED
      BY <1>5, <1>9, <2>1, <2>3, <3>1 DEF PutBack
  <2> QED
    BY <2>2, <2>3
<1>10. ASSUME AllItsOwn PROVE AllItsOwn'
  <2> SUFFICES ASSUME NEW t \in Services PROVE HasItsOwn(t)'
    BY DEF AllItsOwn
  <2>1. CASE t = s
    BY <1>3, <1>5, <1>10, <2>1 DEF AllItsOwn, HasItsOwn
  <2>2. CASE t # s
    BY <1>5, <1>10, <2>2 DEF AllItsOwn, HasItsOwn
  <2> QED
    BY <2>1, <2>2
<1> QED
  BY <1>8, <1>9, <1>10

(* A give_back with no failure has put everything back. *)
LEMMA GiveEndKeeps ==
    ASSUME DnsSafe, PutBack, GiveEnd
    PROVE  DnsSafe' /\ (~dnsFailed => AllItsOwn') /\ UNCHANGED dnsFailed
<1>1. /\ todo = {} /\ UNCHANGED <<dns, todo, dnsFailed>>
      /\ dnsSaved' = IF dnsFailed THEN dnsSaved ELSE NoFile
  BY DEF GiveEnd
<1>2. CASE dnsFailed
  <2>1. UNCHANGED dnsVars
    BY <1>1, <1>2 DEF dnsVars
  <2> QED
    BY <1>1, <1>2, <2>1, DnsDiesKeeps
<1>3. CASE ~dnsFailed
  <2>1. \A s \in Keeps : dns[s] = Kept(Had[s])
    BY <1>1, <1>3 DEF PutBack, DnsSafe
  <2>2. AllItsOwn
    BY <2>1 DEF AllItsOwn, HasItsOwn, DnsSafe
  <2>3. Keeps' = {} /\ AllItsOwn'
    BY <1>1, <1>3, <2>2 DEF Keeps, AllItsOwn, HasItsOwn
  <2>4. DnsTypeOK'
    BY <1>1, <1>3 DEF DnsSafe, DnsTypeOK
  <2> QED
    BY <1>1, <2>3, <2>4 DEF DnsSafe, AllItsOwn
<1> QED
  BY <1>2, <1>3

-----------------------------------------------------------------------------
(* The daemon, launchd and the commands of install.rs. *)

(* The reference in the file keeps pf enabled from the start of the daemon *)
(* to the end of its stop, and a sweep runs only when the daemon is gone   *)
(* and does not come back.                                                 *)
Control ==
    /\ job \in BOOLEAN
    /\ term \in BOOLEAN
    /\ pc \in {"down"} \cup Starting \cup Serving \cup Stopping
    /\ off \in {"none", "waits", "pf", "dns", "done", "failed"}
    /\ hosts \subseteq Addrs
    /\ saved \subseteq Addrs
    /\ table \subseteq Addrs
    /\ known \subseteq Addrs
    /\ anchor \in BOOLEAN
    /\ refs \subseteq Tokens
    /\ token \in Tokens \cup {NoToken}
    /\ tunnels \subseteq {"ours", "strays"}
    /\ strays \in BOOLEAN
    /\ dnsAt \in BOOLEAN
    /\ off \in {"waits", "pf", "dns", "done"} => ~job
    /\ off \in {"pf", "dns", "done"} => pc = "down" /\ tunnels = {}
    /\ pc \in {"restore", "load"} \cup Serving \cup Stopping => token \in refs

LEMMA ControlInitially == Init => Control
BY DEF Init, Control, Starting, Serving, Stopping

LEMMA ControlOfStart ==
    ASSUME Control, DnsTypeOK,
           Starts \/ Enables \/ EnableCut \/ Restores \/ Loads \/ LoadFails
    PROVE  Control'
<1> USE DEF Control, Starting, Serving, Stopping, pf, links
<1>1. CASE Starts
  BY <1>1 DEF Starts
<1>2. CASE Enables
  <2>1. PICK new \in Tokens \ refs : refs' = RefsWith(new) /\ token' = new
    BY <1>2 DEF Enables
  <2>2. refs' \subseteq Tokens /\ token' \in refs' /\ token' \in Tokens
    BY <2>1 DEF RefsWith
  <2> QED
    BY <1>2, <2>2 DEF Enables
<1>3. CASE EnableCut
  BY <1>3 DEF EnableCut, Exits
<1>4. CASE Restores
  <2>1. hosts' \subseteq Addrs
    BY <1>4 DEF Restores, Restored
  <2> QED
    BY <1>4, <2>1 DEF Restores
<1>5. CASE Loads
  BY <1>5 DEF Loads
<1>6. CASE LoadFails
  BY <1>6 DEF LoadFails, Exits
<1> QED
  BY <1>1, <1>2, <1>3, <1>4, <1>5, <1>6

LEMMA ControlOfService ==
    ASSUME Control, DnsTypeOK,
           \/ \E a \in Addrs : Answers(a) \/ Expires(a)
           \/ Saves \/ StopsStrays \/ NetworkNew
           \/ TakesDns \/ TookDns
           \/ \E s \in Services, ok \in Outcome : SetsDns(s, ok)
    PROVE  Control'
<1> USE DEF Control, Starting, Serving, Stopping, pf, links
<1>1. ASSUME NEW a \in Addrs, Answers(a) PROVE Control'
  BY <1>1 DEF Answers
<1>2. ASSUME NEW a \in Addrs, Expires(a) PROVE Control'
  BY <1>2 DEF Expires
<1>3. CASE Saves
  BY <1>3 DEF Saves
<1>7. CASE StopsStrays
  BY <1>7 DEF StopsStrays
<1>8. CASE NetworkNew
  BY <1>8 DEF NetworkNew
<1>4. CASE TakesDns
  BY <1>4 DEF TakesDns
<1>5. CASE TookDns
  BY <1>5 DEF TookDns, DnsTypeOK
<1>6. ASSUME NEW s \in Services, NEW ok \in Outcome, SetsDns(s, ok)
      PROVE  Control'
  BY <1>6 DEF SetsDns
<1> QED
  BY <1>1, <1>2, <1>3, <1>4, <1>5, <1>6, <1>7, <1>8

LEMMA ControlOfStop ==
    ASSUME Control,
           \/ Terminates \/ GaveDns
           \/ \E s \in Services, ok \in Outcome : GivesDns(s, ok)
           \/ StopSaves \/ FlushesRules \/ FlushesTables \/ Unrefs
           \/ Dies \/ Reboots
    PROVE  Control'
<1> USE DEF Control, Starting, Serving, Stopping, pf, links
<1>1. CASE Terminates
  BY <1>1 DEF Terminates
<1>9. CASE GaveDns
  BY <1>9 DEF GaveDns
<1>2. ASSUME NEW s \in Services, NEW ok \in Outcome, GivesDns(s, ok)
      PROVE  Control'
  BY <1>2 DEF GivesDns
<1>3. CASE StopSaves
  <2>1. saved' \subseteq Addrs
    BY <1>3 DEF StopSaves
  <2> QED
    BY <1>3, <2>1 DEF StopSaves
<1>4. CASE FlushesRules
  BY <1>4 DEF FlushesRules
<1>5. CASE FlushesTables
  <2>1. table' \subseteq Addrs
    BY <1>5 DEF FlushesTables
  <2> QED
    BY <1>5, <2>1 DEF FlushesTables
<1>6. CASE Unrefs
  BY <1>6 DEF Unrefs, Exits
<1>7. CASE Dies
  BY <1>7 DEF Dies, Exits
<1>8. CASE Reboots
  BY <1>8 DEF Reboots, Exits
<1> QED
  BY <1>1, <1>2, <1>3, <1>4, <1>5, <1>6, <1>7, <1>8, <1>9

LEMMA ControlOfOff ==
    ASSUME Control,
           \/ On \/ Off \/ SweepsTunnels \/ SweepsPf \/ LeavesPf \/ Swept
           \/ \E s \in Services, ok \in Outcome : SweepsDns(s, ok)
           \/ UNCHANGED vars
    PROVE  Control'
<1> USE DEF Control, Starting, Serving, Stopping, pf, links
<1>1. CASE On \/ Off
  BY <1>1 DEF On, Off
<1>2. CASE SweepsTunnels
  BY <1>2 DEF SweepsTunnels
<1>3. CASE SweepsPf
  <2>1. /\ table' \subseteq Addrs /\ known' \subseteq Addrs
        /\ anchor' \in BOOLEAN /\ off' \in {"dns", "failed"}
    BY <1>3 DEF SweepsPf
  <2> QED
    BY <1>3, <2>1 DEF SweepsPf
<1>4. CASE LeavesPf
  BY <1>4 DEF LeavesPf
<1>7. CASE Swept
  BY <1>7 DEF Swept
<1>5. ASSUME NEW s \in Services, NEW ok \in Outcome, SweepsDns(s, ok)
      PROVE  Control'
  BY <1>5 DEF SweepsDns
<1>6. CASE UNCHANGED vars
  BY <1>6 DEF vars
<1> QED
  BY <1>1, <1>2, <1>3, <1>4, <1>5, <1>6, <1>7

LEMMA ControlStep == Control /\ DnsTypeOK /\ [Next]_vars => Control'
BY ControlOfStart, ControlOfService, ControlOfStop, ControlOfOff
   DEF Next, StepOfDaemon

-----------------------------------------------------------------------------
(* The DNS within the life of the daemon. *)

DnsInv ==
    /\ DnsSafe
    /\ pc = "give" \/ off = "dns" => PutBack
    /\ NamesFirst
    /\ off = "done" => AllItsOwn

(* A step that does nothing about the DNS. *)
Quiet ==
    /\ DnsDies \/ UNCHANGED dnsVars
    /\ pc' = "give" \/ off' = "dns"
           => UNCHANGED dnsVars /\ (pc = "give" \/ off = "dns")
    /\ pc' \in {"links"} \cup Stopping
           => UNCHANGED dnsVars /\ pc \in {"links"} \cup Stopping
    /\ off' = "done" => off = "done"

LEMMA QuietKeeps ==
    ASSUME DnsInv, Quiet
    PROVE  DnsInv'
<1>1. DnsSafe' /\ (AllItsOwn => AllItsOwn')
  BY DnsDiesKeeps DEF DnsInv, Quiet
<1>2. UNCHANGED dnsVars => (PutBack => PutBack')
  BY DEF dnsVars, PutBack, Keeps, Entry
<1>3. NamesFirst <=> (pc \in {"links"} \cup Stopping /\ ~dnsFailed => AllItsOwn)
  BY DEF NamesFirst, AllItsOwn
<1>4. NamesFirst' <=> (pc' \in {"links"} \cup Stopping /\ ~dnsFailed' => AllItsOwn')
  BY DEF NamesFirst, AllItsOwn
<1>5. UNCHANGED dnsVars => dnsFailed' = dnsFailed
  BY DEF dnsVars
<1> QED
  BY <1>1, <1>2, <1>3, <1>4, <1>5 DEF DnsInv, Quiet

LEMMA QuietSteps ==
    ASSUME Control,
           \/ Starts \/ Enables \/ EnableCut \/ Restores \/ Loads \/ LoadFails
           \/ \E a \in Addrs : Answers(a) \/ Expires(a)
           \/ Saves \/ StopsStrays \/ NetworkNew
           \/ StopSaves \/ FlushesRules \/ FlushesTables \/ Unrefs
           \/ Dies \/ Reboots \/ On \/ Off \/ SweepsTunnels
           \/ UNCHANGED vars
    PROVE  Quiet
<1> USE DEF Quiet, Control, Starting, Serving, Stopping
<1>1. CASE Starts \/ Enables \/ Restores \/ Loads
  BY <1>1 DEF Starts, Enables, Restores, Loads
<1>2. CASE EnableCut \/ LoadFails
  BY <1>2 DEF EnableCut, LoadFails, Exits
<1>3. ASSUME NEW a \in Addrs, Answers(a) \/ Expires(a) PROVE Quiet
  BY <1>3 DEF Answers, Expires
<1>4. CASE Saves \/ StopsStrays \/ NetworkNew
  BY <1>4 DEF Saves, StopsStrays, NetworkNew
<1>5. CASE StopSaves \/ FlushesRules \/ FlushesTables
  BY <1>5 DEF StopSaves, FlushesRules, FlushesTables
<1>6. CASE Unrefs
  BY <1>6 DEF Unrefs, Exits
<1>7. CASE Dies
  BY <1>7 DEF Dies, Exits
<1>8. CASE Reboots
  BY <1>8 DEF Reboots, Exits
<1>9. CASE On \/ Off \/ SweepsTunnels
  BY <1>9 DEF On, Off, SweepsTunnels
<1>10. CASE UNCHANGED vars
  BY <1>10 DEF vars
<1> QED
  BY <1>1, <1>2, <1>3, <1>4, <1>5, <1>6, <1>7, <1>8, <1>9, <1>10

LEMMA OutcomeIs == Outcome \subseteq BOOLEAN
BY DEF Outcome

LEMMA DaemonKeepsDns ==
    ASSUME Control, DnsInv,
           \/ TakesDns \/ TookDns \/ Terminates \/ GaveDns
           \/ \E s \in Services, ok \in Outcome :
                 SetsDns(s, ok) \/ GivesDns(s, ok)
    PROVE  DnsInv'
<1>1. CASE TakesDns
  <2>1. DnsSafe'
    BY <1>1, TakeStartKeeps, DnsBeginsKeeps DEF DnsInv, TakesDns
  <2>2. pc' = "take" /\ off' \notin {"dns", "done"}
    BY <1>1 DEF TakesDns, Control
  <2> QED
    BY <2>1, <2>2 DEF DnsInv, NamesFirst, Stopping
<1>2. CASE TookDns
  <2>1. pc' = "up" /\ off' \notin {"dns", "done"}
    BY <1>2 DEF TookDns, Control
  <2>2. dns' = dns /\ dnsSaved' = dnsSaved /\ todo' = todo /\ dnsFailed' = FALSE
    BY <1>2 DEF TookDns
  <2>3. Keeps' = Keeps /\ \A s : Entry(s)' = Entry(s)
    BY <2>2 DEF Keeps, Entry
  <2>4. DnsSafe'
    BY <2>2, <2>3 DEF DnsInv, DnsSafe, DnsTypeOK, HasItsOwn
  <2> QED
    BY <2>1, <2>4 DEF DnsInv, NamesFirst, Stopping
<1>3. CASE Terminates
  <2>1. DnsSafe' /\ PutBack'
    BY <1>3, DnsBeginsKeeps DEF DnsInv, Terminates
  <2>2. pc' = "give" /\ off' \notin {"dns", "done"}
    BY <1>3 DEF Terminates, Control
  <2> QED
    BY <2>1, <2>2 DEF DnsInv, NamesFirst, Stopping
<1>4. CASE GaveDns
  <2>1. DnsSafe' /\ (~dnsFailed' => AllItsOwn')
    BY <1>4, GiveEndKeeps DEF DnsInv, GaveDns
  <2>2. pc' = "links" /\ off' \notin {"dns", "done"}
    BY <1>4 DEF GaveDns, Control
  <2> QED
    BY <2>1, <2>2 DEF DnsInv, NamesFirst, AllItsOwn
<1>5. ASSUME NEW s \in Services, NEW ok \in Outcome, SetsDns(s, ok)
      PROVE  DnsInv'
  <2>1. DnsSafe'
    BY <1>5, OutcomeIs, TakeSetKeeps DEF DnsInv, SetsDns
  <2>2. pc' = "take" /\ off' \notin {"dns", "done"}
    BY <1>5 DEF SetsDns, Control
  <2> QED
    BY <2>1, <2>2 DEF DnsInv, NamesFirst, Stopping
<1>6. ASSUME NEW s \in Services, NEW ok \in Outcome, GivesDns(s, ok)
      PROVE  DnsInv'
  <2>1. DnsSafe' /\ PutBack'
    BY <1>6, OutcomeIs, GiveSetKeeps DEF DnsInv, GivesDns
  <2>2. pc' = "give" /\ off' \notin {"dns", "done"}
    BY <1>6 DEF GivesDns, Control
  <2> QED
    BY <2>1, <2>2 DEF DnsInv, NamesFirst, Stopping
<1> QED
  BY <1>1, <1>2, <1>3, <1>4, <1>5, <1>6

LEMMA OffKeepsDns ==
    ASSUME Control, DnsInv,
           \/ SweepsPf \/ LeavesPf \/ Swept
           \/ \E s \in Services, ok \in Outcome : SweepsDns(s, ok)
    PROVE  DnsInv'
<1>1. CASE SweepsPf
  <2>1. /\ pc = "down" /\ pc' = "down" /\ off' \in {"dns", "failed"}
        /\ IF off' = "dns" THEN GiveStart \/ GiveFails ELSE UNCHANGED dnsVars
    BY <1>1 DEF SweepsPf, Control
  <2>2. DnsSafe' /\ (off' = "dns" => PutBack')
    BY <2>1, DnsBeginsKeeps, DnsDiesKeeps DEF DnsInv
  <2> QED
    BY <2>1, <2>2 DEF DnsInv, NamesFirst, Stopping
<1>2. CASE LeavesPf
  <2>1. pc' = "down" /\ off' = "dns"
    BY <1>2 DEF LeavesPf, Control
  <2>2. DnsSafe' /\ PutBack'
    BY <1>2, DnsBeginsKeeps DEF DnsInv, LeavesPf
  <2> QED
    BY <2>1, <2>2 DEF DnsInv, NamesFirst, Stopping
<1>3. CASE Swept
  <2>1. /\ pc' = "down" /\ off' = IF dnsFailed THEN "failed" ELSE "done"
    BY <1>3 DEF Swept, Control
  <2>2. DnsSafe' /\ (~dnsFailed => AllItsOwn')
    BY <1>3, GiveEndKeeps DEF DnsInv, Swept
  <2> QED
    BY <2>1, <2>2 DEF DnsInv, NamesFirst, Stopping
<1>4. ASSUME NEW s \in Services, NEW ok \in Outcome, SweepsDns(s, ok)
      PROVE  DnsInv'
  <2>1. DnsSafe' /\ PutBack'
    BY <1>4, OutcomeIs, GiveSetKeeps DEF DnsInv, SweepsDns
  <2>2. pc' = "down" /\ off' = "dns"
    BY <1>4 DEF SweepsDns, Control
  <2> QED
    BY <2>1, <2>2 DEF DnsInv, NamesFirst, Stopping
<1> QED
  BY <1>1, <1>2, <1>3, <1>4

LEMMA DnsStep == Control /\ DnsInv /\ [Next]_vars => DnsInv'
BY QuietSteps, QuietKeeps, DaemonKeepsDns, OffKeepsDns DEF Next, StepOfDaemon

LEMMA Inductive == Spec => [](Control /\ DnsInv)
<1>1. Init => Control /\ DnsInv
  <2> SUFFICES ASSUME Init PROVE Control /\ DnsInv
    OBVIOUS
  <2>1. DnsSafe /\ pc = "down" /\ off = "none"
    BY DnsInitially DEF Init
  <2> QED
    BY <2>1, ControlInitially DEF DnsInv, NamesFirst, Stopping
<1>2. Control /\ DnsInv /\ [Next]_vars => (Control /\ DnsInv)'
  BY ControlStep, DnsStep DEF DnsInv, DnsSafe
<1> QED
  BY <1>1, <1>2, PTL DEF Spec

(* The variables keep their types. *)
THEOREM TypeCorrect == Spec => []TypeOK
<1>1. Control /\ DnsInv => TypeOK
  BY DEF Control, DnsInv, DnsSafe, TypeOK
<1> QED
  BY <1>1, Inductive, PTL

(* Through crashes between any two commands, commands that fail, stops and *)
(* sweeps, the servers of the owner are never lost: a service has them or  *)
(* the file does.                                                          *)
THEOREM ServersAlwaysKept == Spec => []ServersKept
<1>1. DnsInv => ServersKept
  BY DEF DnsInv, DnsSafe, ServersKept
<1> QED
  BY <1>1, Inductive, PTL

(* A daemon that stops gives the DNS back before anything else goes.       *)
THEOREM NamesAlwaysFirst == Spec => []NamesFirst
<1>1. DnsInv => NamesFirst
  BY DEF DnsInv
<1> QED
  BY <1>1, Inductive, PTL

(* pf stays enabled as long as the daemon relies on it, whichever crash    *)
(* left which reference behind.                                            *)
THEOREM PfAlwaysReferenced == Spec => []PfReferenced
<1>1. Control => PfReferenced
  BY DEF Control, PfReferenced
<1> QED
  BY <1>1, Inductive, PTL

-----------------------------------------------------------------------------
(* The addresses handed out.                                               *)
(*                                                                         *)
(* A daemon that serves has them among its hosts and in pf; one that stops *)
(* has saved them; and one that starts finds them in the file or in pf.    *)
HostsInv ==
    /\ pc \in {"enable", "restore"} => hosts = saved
    /\ pc \in Serving \cup {"load"} => known \subseteq hosts
    /\ pc \in {"down"} \cup Starting => known \subseteq saved \cup table
    /\ pc \in Serving => known \subseteq table
    /\ pc \in Stopping => known \subseteq saved

LEMMA HostsStep ==
    ASSUME "show" \notin Failing, "save at stop" \notin Failing
    PROVE  Control /\ HostsInv /\ [Next]_vars => HostsInv'
<1> SUFFICES ASSUME Control, HostsInv, [Next]_vars PROVE HostsInv'
  OBVIOUS
<1> USE DEF HostsInv, Starting, Serving, Stopping, pf, links
<1>1. CASE Starts
  BY <1>1 DEF Starts
<1>2. CASE Enables
  BY <1>2 DEF Enables
<1>3. CASE EnableCut
  BY <1>3 DEF EnableCut, Exits
<1>4. CASE Restores
  <2>1. hosts' = hosts \cup table
    BY <1>4 DEF Restores, Restored, May
  <2> QED
    BY <1>4, <2>1 DEF Restores
<1>5. CASE Loads
  BY <1>5 DEF Loads
<1>6. CASE LoadFails
  BY <1>6 DEF LoadFails, Exits
<1>7. ASSUME NEW a \in Addrs, Answers(a) PROVE HostsInv'
  BY <1>7 DEF Answers
<1>8. ASSUME NEW a \in Addrs, Expires(a) PROVE HostsInv'
  BY <1>8 DEF Expires
<1>9. CASE Saves
  BY <1>9 DEF Saves
<1>10. CASE StopsStrays \/ NetworkNew \/ TakesDns
  BY <1>10 DEF StopsStrays, NetworkNew, TakesDns
<1>11. CASE TookDns
  BY <1>11 DEF TookDns
<1>12. ASSUME NEW s \in Services, NEW ok \in Outcome,
              SetsDns(s, ok) \/ GivesDns(s, ok) \/ SweepsDns(s, ok)
       PROVE  HostsInv'
  BY <1>12 DEF SetsDns, GivesDns, SweepsDns
<1>13. CASE Terminates \/ GaveDns
  BY <1>13 DEF Terminates, GaveDns
<1>14. CASE StopSaves
  <2>1. saved' = hosts
    BY <1>14 DEF StopSaves, May
  <2> QED
    BY <1>14, <2>1 DEF StopSaves
<1>15. CASE FlushesRules
  BY <1>15 DEF FlushesRules
<1>16. CASE FlushesTables
  BY <1>16 DEF FlushesTables
<1>17. CASE Unrefs
  BY <1>17 DEF Unrefs, Exits
<1>18. CASE Dies
  BY <1>18 DEF Dies, Exits, Control
<1>19. CASE Reboots
  BY <1>19 DEF Reboots, Exits
<1>20. CASE On \/ Off \/ SweepsTunnels
  BY <1>20 DEF On, Off, SweepsTunnels
<1>21. CASE SweepsPf
  <2>1. /\ pc = "down"
        /\ \/ table' = {} /\ known' = known \cap saved
           \/ table' = table /\ known' = known
    BY <1>21 DEF SweepsPf, Control
  <2> QED
    BY <1>21, <2>1 DEF SweepsPf
<1>22. CASE LeavesPf \/ Swept
  BY <1>22 DEF LeavesPf, Swept
<1>23. CASE UNCHANGED vars
  BY <1>23 DEF vars
<1> QED
  BY <1>1, <1>2, <1>3, <1>4, <1>5, <1>6, <1>7, <1>8, <1>9, <1>10, <1>11,
     <1>12, <1>13, <1>14, <1>15, <1>16, <1>17, <1>18, <1>19, <1>20, <1>21,
     <1>22, <1>23 DEF Next, StepOfDaemon

LEMMA HostsInductive ==
    ASSUME "show" \notin Failing, "save at stop" \notin Failing
    PROVE  Spec => []HostsInv
<1>1. Init => HostsInv
  BY DEF Init, HostsInv, Starting, Serving, Stopping
<1> QED
  BY <1>1, HostsStep, Inductive, PTL DEF Spec

(* Between the files, pf and the daemon, an address handed out stays known *)
(* until its window ends, through crashes and failing starts, as long as   *)
(* pf can be read at a start and the file written at a stop.               *)
THEOREM HostsAlwaysKept ==
    ASSUME "show" \notin Failing, "save at stop" \notin Failing
    PROVE  Spec => []HostsKept
<1>1. Control /\ HostsInv => HostsKept
  BY DEF Control, HostsInv, HostsKept, Starting, Serving, Stopping
<1> QED
  BY <1>1, HostsInductive, Inductive, PTL

-----------------------------------------------------------------------------
(* pf without a daemon. *)

(* Without a reference of a daemon pf has nothing of it, nor once `off`    *)
(* has swept it.                                                           *)
PfInv ==
    /\ pc \in {"tables", "unref"} => ~anchor
    /\ pc = "unref" => table = {}
    /\ token = NoToken \/ off \in {"dns", "done"} => ~anchor /\ table = {}

LEMMA PfStep ==
    ASSUME "flush" \notin Failing
    PROVE  Control /\ PfInv /\ [Next]_vars => PfInv'
<1> SUFFICES ASSUME Control, PfInv, [Next]_vars PROVE PfInv'
  OBVIOUS
<1> USE DEF PfInv, Starting, Serving, Stopping, pf, links
<1>1. CASE Starts
  BY <1>1 DEF Starts
<1>2. CASE Enables
  <2>1. token' # NoToken /\ off \notin {"dns", "done"}
    BY <1>2, LifecycleAssumption DEF Enables, Control
  <2> QED
    BY <1>2, <2>1 DEF Enables
<1>3. CASE EnableCut
  BY <1>3 DEF EnableCut, Exits
<1>4. CASE Restores
  BY <1>4 DEF Restores
<1>5. CASE Loads
  <2>1. token # NoToken /\ off \notin {"dns", "done"}
    BY <1>5, LifecycleAssumption DEF Loads, Control
  <2> QED
    BY <1>5, <2>1 DEF Loads
<1>6. CASE LoadFails
  BY <1>6 DEF LoadFails, Exits
<1>7. ASSUME NEW a \in Addrs, Answers(a) \/ Expires(a) PROVE PfInv'
  <2>1. token # NoToken /\ off \notin {"dns", "done"} /\ pc \in Serving
    BY <1>7, LifecycleAssumption DEF Answers, Expires, Control
  <2>2. UNCHANGED <<token, off, pc>>
    BY <1>7 DEF Answers, Expires
  <2> QED
    BY <2>1, <2>2
<1>8. CASE Saves \/ StopsStrays \/ NetworkNew \/ TakesDns
  BY <1>8 DEF Saves, StopsStrays, NetworkNew, TakesDns
<1>9. CASE TookDns
  BY <1>9 DEF TookDns
<1>10. ASSUME NEW s \in Services, NEW ok \in Outcome,
              SetsDns(s, ok) \/ GivesDns(s, ok) \/ SweepsDns(s, ok)
       PROVE  PfInv'
  BY <1>10 DEF SetsDns, GivesDns, SweepsDns
<1>11. CASE Terminates \/ GaveDns
  BY <1>11 DEF Terminates, GaveDns
<1>21. CASE StopSaves
  BY <1>21 DEF StopSaves
<1>12. CASE FlushesRules
  <2>1. ~anchor'
    BY <1>12 DEF FlushesRules, May
  <2> QED
    BY <1>12, <2>1 DEF FlushesRules
<1>13. CASE FlushesTables
  <2>1. table' = {}
    BY <1>13 DEF FlushesTables, May
  <2> QED
    BY <1>13, <2>1 DEF FlushesTables
<1>14. CASE Unrefs
  BY <1>14 DEF Unrefs, Exits
<1>15. CASE Dies
  BY <1>15 DEF Dies, Exits
<1>16. CASE Reboots
  BY <1>16 DEF Reboots, Exits
<1>17. CASE On \/ Off \/ SweepsTunnels
  BY <1>17 DEF On, Off, SweepsTunnels
<1>18. CASE SweepsPf
  <2>1. ~anchor' /\ table' = {}
    BY <1>18 DEF SweepsPf, May
  <2> QED
    BY <1>18, <2>1 DEF SweepsPf
<1>19. CASE LeavesPf \/ Swept
  BY <1>19 DEF LeavesPf, Swept
<1>20. CASE UNCHANGED vars
  BY <1>20 DEF vars
<1> QED
  BY <1>1, <1>2, <1>3, <1>4, <1>5, <1>6, <1>7, <1>8, <1>9, <1>10, <1>11,
     <1>12, <1>13, <1>14, <1>15, <1>16, <1>17, <1>18, <1>19, <1>20,
     <1>21 DEF Next, StepOfDaemon

LEMMA PfInductive ==
    ASSUME "flush" \notin Failing
    PROVE  Spec => []PfInv
<1>1. Init => PfInv
  BY DEF Init, PfInv
<1> QED
  BY <1>1, PfStep, Inductive, PTL DEF Spec

(* When `off` says that it is done, nothing of the daemon is left, whether *)
(* it stopped, died, or failed to start, as long as pf can be flushed.     *)
THEOREM AlwaysTakenBack ==
    ASSUME "flush" \notin Failing
    PROVE  Spec => []TakenBack
<1>1. Control /\ DnsInv /\ PfInv => TakenBack
  BY DEF Control, DnsInv, PfInv, TakenBack, AllItsOwn
<1> QED
  BY <1>1, PfInductive, Inductive, PTL

LEMMA HeldStep ==
    ASSUME "flush" \notin Failing
    PROVE  Control /\ HostsInv /\ PfInv /\ HeldAcross /\ [Next]_vars
               => HeldAcross'
<1> SUFFICES ASSUME Control, HostsInv, PfInv, HeldAcross, [Next]_vars
             PROVE  HeldAcross'
  OBVIOUS
<1> USE DEF HeldAcross, pf, links
<1>1. CASE Loads
  BY <1>1 DEF Loads, HostsInv
<1>2. ASSUME NEW a \in Addrs, Answers(a) \/ Expires(a) PROVE HeldAcross'
  BY <1>2 DEF Answers, Expires
<1>3. CASE FlushesRules
  BY <1>3 DEF FlushesRules
<1>4. CASE FlushesTables
  BY <1>4 DEF FlushesTables, PfInv
<1>5. CASE SweepsPf
  <2>1. ~anchor'
    BY <1>5 DEF SweepsPf, May
  <2> QED
    BY <2>1
<1>6. CASE Reboots
  BY <1>6 DEF Reboots
<1>7. CASE \/ Starts \/ Enables \/ EnableCut \/ Restores \/ LoadFails
           \/ Saves \/ StopsStrays \/ NetworkNew \/ TakesDns \/ TookDns
           \/ Terminates \/ GaveDns \/ StopSaves \/ Unrefs \/ Dies
           \/ On \/ Off \/ SweepsTunnels \/ LeavesPf \/ Swept
           \/ \E s \in Services, ok \in Outcome :
                 SetsDns(s, ok) \/ GivesDns(s, ok) \/ SweepsDns(s, ok)
           \/ UNCHANGED vars
  <2>1. UNCHANGED <<table, anchor, known>>
    BY <1>7 DEF Starts, Enables, EnableCut, Restores, LoadFails, Saves,
        StopsStrays, NetworkNew, TakesDns, TookDns, Terminates, GaveDns,
        StopSaves, Unrefs, Dies, On, Off, SweepsTunnels, LeavesPf, Swept,
        SetsDns, GivesDns, SweepsDns, vars
  <2> QED
    BY <2>1
<1> QED
  BY <1>1, <1>2, <1>3, <1>4, <1>5, <1>6, <1>7 DEF Next, StepOfDaemon

(* As long as pf has the rules, it holds every address handed out, also    *)
(* while no daemon runs, provided pf can be read and flushed and the file  *)
(* of hosts written at a stop.                                             *)
THEOREM AlwaysHeldAcross ==
    ASSUME "show" \notin Failing, "save at stop" \notin Failing,
           "flush" \notin Failing
    PROVE  Spec => []HeldAcross
<1>1. Init => HeldAcross
  BY DEF Init, HeldAcross
<1> QED
  BY <1>1, HeldStep, HostsInductive, PfInductive, Inductive, PTL DEF Spec

-----------------------------------------------------------------------------
(* What of TakenInTheEnd is safety: what a pass over the services that did *)
(* not fail has set stays set while the daemon is up, and one that failed  *)
(* is due again.  That such a pass comes is for TLC.                       *)

AllTaken == \A s \in Services : dns[s] = {Resolver}

TakenInv ==
    /\ pc = "take" /\ ~dnsFailed =>
          \A s \in Services \ todo : dns[s] = {Resolver}
    /\ pc = "up" /\ ~dnsAt => AllTaken

(* A step that leaves the DNS as it is.  The command `off` does so while   *)
(* the daemon is there, and so does every other step of it.                *)
LEMMA UpLeavesDns ==
    ASSUME Control, pc' \in Up, [Next]_vars
    PROVE  \/ /\ UNCHANGED dnsVars
              /\ pc' = "up" /\ ~dnsAt' => pc = "up" /\ ~dnsAt
              /\ pc' = "take" => pc = "take"
           \/ TakesDns \/ TookDns
           \/ \E s \in Services, ok \in Outcome : SetsDns(s, ok)
<1> DEFINE Left == /\ UNCHANGED dnsVars
                   /\ pc' = "up" /\ ~dnsAt' => pc = "up" /\ ~dnsAt
                   /\ pc' = "take" => pc = "take"
<1>1. CASE Starts \/ Enables \/ Restores \/ EnableCut \/ LoadFails
  BY <1>1 DEF Starts, Enables, Restores, EnableCut, LoadFails, Exits, Up
<1>2. CASE Loads
  BY <1>2 DEF Loads
<1>3. CASE StopsStrays \/ NetworkNew \/ Saves
  BY <1>3 DEF StopsStrays, NetworkNew, Saves
<1>4. ASSUME NEW a \in Addrs, Answers(a) \/ Expires(a) PROVE Left
  BY <1>4 DEF Answers, Expires
<1>5. CASE Terminates \/ GaveDns \/ StopSaves \/ FlushesRules \/ FlushesTables
  BY <1>5 DEF Terminates, GaveDns, StopSaves, FlushesRules, FlushesTables, Up
<1>6. ASSUME NEW s \in Services, NEW ok \in Outcome, GivesDns(s, ok)
      PROVE  FALSE
  BY <1>6 DEF GivesDns, Up
<1>7. CASE Unrefs \/ Dies \/ Reboots
  BY <1>7 DEF Unrefs, Dies, Reboots, Exits, Up
<1>8. CASE On \/ Off \/ SweepsTunnels
  BY <1>8 DEF On, Off, SweepsTunnels
<1>9. CASE SweepsPf \/ LeavesPf \/ Swept
  BY <1>9 DEF SweepsPf, LeavesPf, Swept, Control, Up
<1>10. ASSUME NEW s \in Services, NEW ok \in Outcome, SweepsDns(s, ok)
       PROVE  FALSE
  BY <1>10 DEF SweepsDns, Control, Up
<1>11. CASE UNCHANGED vars
  BY <1>11 DEF vars
<1> QED
  BY <1>1, <1>2, <1>3, <1>4, <1>5, <1>6, <1>7, <1>8, <1>9, <1>10, <1>11
     DEF Next, StepOfDaemon

LEMMA SetsTake ==
    ASSUME DnsTypeOK, NEW s \in Services, NEW ok \in Outcome, SetsDns(s, ok)
    PROVE  /\ pc' = "take"
           /\ todo' = todo \ {s}
           /\ dnsFailed' = (dnsFailed \/ ~ok)
           /\ ok => dns'[s] = {Resolver}
           /\ ok \/ dns' = dns
           /\ \A t \in Services \ {s} : dns'[t] = dns[t]
<1>1. pc' = "take" /\ TakeSet(s, ok)
  BY DEF SetsDns
<1>2. ok \in BOOLEAN
  BY OutcomeIs
<1> QED
  BY <1>1, <1>2 DEF TakeSet, DnsTypeOK

LEMMA StayTakenStep ==
    ASSUME Control, DnsTypeOK, pc' \in Up, [Next]_vars,
           NEW s \in Services, dns[s] = {Resolver}
    PROVE  dns'[s] = {Resolver}
<1>1. CASE UNCHANGED dnsVars
  BY <1>1 DEF dnsVars
<1>2. CASE TakesDns
  BY <1>2 DEF TakesDns, TakeStart, TakeFails
<1>3. CASE TookDns
  BY <1>3 DEF TookDns
<1>4. ASSUME NEW t \in Services, NEW ok \in Outcome, SetsDns(t, ok)
      PROVE  dns'[s] = {Resolver}
  BY <1>4, SetsTake
<1> QED
  BY <1>1, <1>2, <1>3, <1>4, UpLeavesDns

LEMMA TakenStep == Control /\ DnsTypeOK /\ TakenInv /\ [Next]_vars => TakenInv'
<1> SUFFICES ASSUME Control, DnsTypeOK, TakenInv, [Next]_vars, pc' \in Up
             PROVE  TakenInv'
  BY DEF TakenInv, Up
<1>1. CASE /\ UNCHANGED dnsVars
           /\ pc' = "up" /\ ~dnsAt' => pc = "up" /\ ~dnsAt
           /\ pc' = "take" => pc = "take"
  BY <1>1 DEF TakenInv, AllTaken, dnsVars
<1>2. CASE TakesDns
  <2>1. pc' = "take" /\ (TakeStart \/ TakeFails)
    BY <1>2 DEF TakesDns
  <2>2. CASE TakeFails
    BY <2>1, <2>2 DEF TakeFails, TakenInv
  <2>3. ASSUME TakeStart, ~dnsFailed', NEW s \in Services \ todo'
        PROVE  dns'[s] = {Resolver}
    BY <2>3 DEF TakeStart
  <2> QED
    BY <2>1, <2>2, <2>3 DEF TakenInv
<1>3. CASE TookDns
  <2>1. /\ pc = "take" /\ todo = {} /\ dns' = dns
        /\ pc' = "up" /\ dnsAt' = dnsFailed
    BY <1>3 DEF TookDns
  <2> QED
    BY <2>1 DEF TakenInv, AllTaken
<1>4. ASSUME NEW t \in Services, NEW ok \in Outcome, SetsDns(t, ok)
      PROVE  TakenInv'
  <2>1. pc = "take"
    BY <1>4 DEF SetsDns
  <2>2. ASSUME ~dnsFailed', NEW s \in Services \ todo'
        PROVE  dns'[s] = {Resolver}
    BY <1>4, <2>1, <2>2, SetsTake DEF TakenInv
  <2> QED
    BY <1>4, <2>2, SetsTake DEF TakenInv
<1> QED
  BY <1>1, <1>2, <1>3, <1>4, UpLeavesDns

(* A daemon that is up and has no services to look at has set them all: a  *)
(* command that failed, or a service that could not be read, leaves them   *)
(* due (take_dns).                                                         *)
THEOREM TakenUnlessDue == Spec => [](pc = "up" /\ ~dnsAt => AllTaken)
<1>1. Init => TakenInv
  BY DEF Init, TakenInv
<1>2. Control /\ DnsInv => DnsTypeOK
  BY DEF DnsInv, DnsSafe
<1>3. TakenInv => (pc = "up" /\ ~dnsAt => AllTaken)
  BY DEF TakenInv
<1> QED
  BY <1>1, <1>2, <1>3, TakenStep, Inductive, PTL DEF Spec

(* And what is set stays set for as long as the daemon is up, whatever     *)
(* fails in a later pass.                                                  *)
THEOREM TakenForGood == Spec => [](AllTaken /\ [](pc \in Up) => []AllTaken)
<1>1. Control /\ DnsInv /\ AllTaken /\ (pc \in Up)' /\ [Next]_vars => AllTaken'
  BY StayTakenStep DEF DnsInv, DnsSafe, AllTaken
<1> QED
  BY <1>1, Inductive, PTL DEF Spec
=============================================================================
