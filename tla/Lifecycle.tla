------------------------------ MODULE Lifecycle ------------------------------
(***************************************************************************)
(* The life of the daemon: run and stop of daemon.rs, what pf.rs, state.rs *)
(* and sysdns.rs leave outside the process, and `on` and `off` of          *)
(* install.rs.  The daemon is started by launchd, dies at any await, is    *)
(* started again, or is told to stop; the Mac restarts; `off` stops it and *)
(* sweeps up what a crash left.                                            *)
(*                                                                         *)
(* Outside the process are the file of hosts, the rules and tables of pf,  *)
(* the references that keep pf enabled and the file with the daemon's own, *)
(* the DNS of the services and its file (SysDns), and the tunnels.         *)
(* Inside are the hosts.  How an answer, an expiry and a reload of pf work *)
(* in detail is in KillSwitch: here each is one step.  The rules are one   *)
(* rule, a host goes with it.                                              *)
(*                                                                         *)
(* pf's lock is held from the first command of release to the end of the   *)
(* process, which has one thread: no other task loads pf after it, one     *)
(* that outlives LINKS_EXIT included.                                      *)
(***************************************************************************)
EXTENDS SysDns

CONSTANTS
    Addrs,      \* addresses of listed names
    Tokens,     \* what pfctl -E may give
    NoToken,
    Failing     \* commands that may fail, of "enable", "load", "show",
                \* "flush" and "save at stop"

ASSUME LifecycleAssumption ==
    /\ NoToken \notin Tokens
    /\ IsFiniteSet(Addrs)

VARIABLES
    job,        \* launchd has the service: it starts it when it is not up
    term,       \* the daemon is told to stop
    pc,         \* where the daemon is
    off,        \* where the command `off` is
    hosts,      \* the hosts of the daemon
    saved,      \* the file of hosts
    table,      \* the table of hosts in pf
    anchor,     \* pf has the rules
    refs,       \* references on pf being enabled
    token,      \* the file with the daemon's
    tunnels,    \* running: "ours", "strays"
    strays,     \* the daemon knows of strays
    dnsAt,      \* the services are to be looked at again
    known       \* addresses handed out, within their window

pf == <<table, anchor, refs, token>>
links == <<tunnels, strays>>
vars == <<job, term, pc, off, hosts, saved, pf, links, dnsAt, known, dnsVars>>

Starting == {"enable", "restore", "load"}
Serving == {"up", "take", "give", "links"}
Stopping == {"rules", "tables", "unref"}
Up == {"up", "take"}

May(command) == IF command \in Failing THEN BOOLEAN ELSE {TRUE}

Init ==
    /\ job = TRUE
    /\ term = FALSE
    /\ pc = "down"
    /\ off = "none"
    /\ hosts = {}
    /\ saved = {}
    /\ table = {}
    /\ anchor = FALSE
    /\ refs = {}
    /\ token = NoToken
    /\ tunnels = {}
    /\ strays = FALSE
    /\ dnsAt = FALSE
    /\ known = {}
    /\ DnsInit

-----------------------------------------------------------------------------
(* The process is gone, and with it what it knew. *)
Exits ==
    /\ pc' = "down"
    /\ term' = FALSE
    /\ hosts' = {}
    /\ strays' = FALSE
    /\ dnsAt' = FALSE

(* launchd starts the daemon; it loads its settings and the hosts. *)
Starts ==
    /\ pc = "down"
    /\ job
    /\ pc' = "enable"
    /\ hosts' = saved
    /\ UNCHANGED <<job, term, off, saved, pf, links, dnsAt, known, dnsVars>>

(* Mutant: the reference in the file is not released. *)
RefsKeepingOld(new) == refs \cup {new, token}

(* Mutant: the reference of the file is released, whichever it is. *)
RefsReleasingAny(new) == (refs \cup {new}) \ {token}

(* Pf::enable: a new reference, and without that of a dead daemon, which   *)
(* may have had the same number before the Mac restarted.                  *)
RefsWith(new) ==
    (refs \cup {new}) \ (IF token = new THEN {} ELSE {token})

Enables ==
    /\ pc = "enable"
    /\ \E new \in Tokens \ refs :
        /\ refs' = RefsWith(new)
        /\ token' = new
    /\ pc' = "restore"
    /\ UNCHANGED <<job, term, off, hosts, saved, table, anchor, links, dnsAt,
                   known, dnsVars>>

(* pfctl or the write of the file fails, or it dies between the two: a     *)
(* reference that nothing will release.  The model lets that happen as     *)
(* long as Tokens still has one for a daemon that lives, and one more.     *)
EnableCut ==
    /\ pc = "enable"
    /\ "enable" \in Failing
    /\ \/ refs' = refs
       \/ \E new \in Tokens \ refs :
            /\ Cardinality(refs) + 1 < Cardinality(Tokens)
            /\ refs' = refs \cup {new}
    /\ Exits
    /\ UNCHANGED <<job, off, saved, table, anchor, token, tunnels, known,
                   dnsVars>>

(* Mutant: only the hosts of the file. *)
RestoredSaved(shown) == hosts

(* hosts_to_restore: the saved hosts, and those that pf holds. *)
Restored(shown) == hosts \cup (IF shown THEN table ELSE {})

Restores ==
    /\ pc = "restore"
    /\ \E shown \in May("show") : hosts' = Restored(shown)
    /\ pc' = "load"
    /\ UNCHANGED <<job, term, off, saved, pf, links, dnsAt, known, dnsVars>>

(* The first sync_pf, and with it the daemon serves; it looks for strays   *)
(* before it raises tunnels, and takes the DNS.                            *)
Loads ==
    /\ pc = "load"
    /\ anchor' = TRUE
    /\ table' = hosts
    /\ strays' = ("strays" \in tunnels)
    /\ tunnels' = tunnels \cup {"ours"}
    /\ pc' = "up"
    /\ dnsAt' = TRUE
    /\ UNCHANGED <<job, term, off, hosts, saved, refs, token, known, dnsVars>>

(* It fails: run returns the error. *)
LoadFails ==
    /\ pc = "load"
    /\ "load" \in Failing
    /\ Exits
    /\ UNCHANGED <<job, off, saved, pf, tunnels, known, dnsVars>>

-----------------------------------------------------------------------------
(* While it serves. *)

(* Resolver::route_host and Pf::add, up to the answer handed out. *)
Answers(a) ==
    /\ pc \in Serving
    /\ hosts' = hosts \cup {a}
    /\ table' = table \cup {a}
    /\ known' = known \cup {a}
    /\ UNCHANGED <<job, term, pc, off, saved, anchor, refs, token, links,
                   dnsAt, dnsVars>>

(* Resolver::expire, in housekeeping. *)
Expires(a) ==
    /\ pc = "up"
    /\ a \in hosts
    /\ hosts' = hosts \ {a}
    /\ table' = table \ {a}
    /\ known' = known \ {a}
    /\ UNCHANGED <<job, term, pc, off, saved, anchor, refs, token, links,
                   dnsAt, dnsVars>>

(* Watch::save, in housekeeping; one that fails leaves the old file. *)
Saves ==
    /\ pc = "up"
    /\ saved' = hosts
    /\ UNCHANGED <<job, term, pc, off, hosts, pf, links, dnsAt, known, dnsVars>>

(* Watch::stop_strays *)
StopsStrays ==
    /\ pc = "up"
    /\ strays
    /\ strays' = FALSE
    /\ tunnels' = tunnels \ {"strays"}
    /\ UNCHANGED <<job, term, pc, off, hosts, saved, pf, dnsAt, known, dnsVars>>

(* The network is another one: the services are looked at. *)
NetworkNew ==
    /\ pc = "up"
    /\ ~dnsAt
    /\ dnsAt' = TRUE
    /\ UNCHANGED <<job, term, pc, off, hosts, saved, pf, links, known, dnsVars>>

(* Watch::take_dns *)
TakesDns ==
    /\ pc = "up"
    /\ dnsAt
    /\ TakeStart \/ TakeFails
    /\ pc' = "take"
    /\ UNCHANGED <<job, term, off, hosts, saved, pf, links, dnsAt, known>>

SetsDns(s, ok) ==
    /\ pc = "take"
    /\ TakeSet(s, ok)
    /\ UNCHANGED <<job, term, pc, off, hosts, saved, pf, links, dnsAt, known>>

(* Mutant: a failure waits for the next network. *)
TookDnsAnyhow ==
    /\ pc = "take"
    /\ todo = {}
    /\ pc' = "up"
    /\ dnsAt' = FALSE
    /\ dnsFailed' = FALSE
    /\ UNCHANGED <<job, term, off, hosts, saved, pf, links, known, dns,
                   dnsSaved, todo>>

(* A failure is tried again after a while. *)
TookDns ==
    /\ pc = "take"
    /\ todo = {}
    /\ pc' = "up"
    /\ dnsAt' = dnsFailed
    /\ dnsFailed' = FALSE
    /\ UNCHANGED <<job, term, off, hosts, saved, pf, links, known, dns,
                   dnsSaved, todo>>

-----------------------------------------------------------------------------
(* Watch::stop *)

(* Mutant: the links first. *)
TerminatesLinksFirst ==
    /\ pc = "up"
    /\ term
    /\ pc' = "links"
    /\ UNCHANGED <<job, term, off, hosts, saved, pf, links, dnsAt, known,
                   dnsVars>>

Terminates ==
    /\ pc = "up"
    /\ term
    /\ GiveStart \/ GiveFails
    /\ pc' = "give"
    /\ UNCHANGED <<job, term, off, hosts, saved, pf, links, dnsAt, known>>

GivesDns(s, ok) ==
    /\ pc = "give"
    /\ GiveSet(s, ok)
    /\ UNCHANGED <<job, term, pc, off, hosts, saved, pf, links, dnsAt, known>>

GaveDns ==
    /\ pc = "give"
    /\ GiveEnd
    /\ pc' = "links"
    /\ UNCHANGED <<job, term, off, hosts, saved, pf, links, dnsAt, known>>

(* The links have gone, or LINKS_EXIT has passed and a tunnel goes with    *)
(* the process; no answer is handed out from here on (remove_all).         *)
StopSaves ==
    /\ pc = "links"
    /\ \/ tunnels' = tunnels \ {"ours"}
       \/ tunnels' = tunnels
    /\ \E ok \in May("save at stop") : saved' = IF ok THEN hosts ELSE saved
    /\ pc' = "rules"
    /\ UNCHANGED <<job, term, off, hosts, pf, strays, dnsAt, known, dnsVars>>

(* Mutant: the tables go before the rules. *)
FlushesTablesFirst ==
    /\ pc = "rules"
    /\ table' = {}
    /\ pc' = "tables"
    /\ UNCHANGED <<job, term, off, hosts, saved, anchor, refs, token, links,
                   dnsAt, known, dnsVars>>

(* Pf::release: every part is tried. *)
FlushesRules ==
    /\ pc = "rules"
    /\ \E ok \in May("flush") : anchor' = (anchor /\ ~ok)
    /\ pc' = "tables"
    /\ UNCHANGED <<job, term, off, hosts, saved, table, refs, token, links,
                   dnsAt, known, dnsVars>>

FlushesTables ==
    /\ pc = "tables"
    /\ \E ok \in May("flush") : table' = IF ok THEN {} ELSE table
    /\ pc' = "unref"
    /\ UNCHANGED <<job, term, off, hosts, saved, anchor, refs, token, links,
                   dnsAt, known, dnsVars>>

(* The reference and its file, and the end of the process, which takes a   *)
(* tunnel of its own along.                                                *)
Unrefs ==
    /\ pc = "unref"
    /\ refs' = refs \ {token}
    /\ token' = NoToken
    /\ tunnels' = tunnels \ {"ours"}
    /\ Exits
    /\ DnsDies
    /\ UNCHANGED <<job, off, saved, table, anchor, known>>

-----------------------------------------------------------------------------
(* What the daemon may not expect. *)

(* It dies at an await; its tunnels may go along. *)
Dies ==
    /\ pc # "down"
    /\ \/ tunnels' = tunnels \ {"ours"}
       \/ /\ "ours" \in tunnels
          /\ tunnels' = {"strays"}
    /\ Exits
    /\ DnsDies
    /\ UNCHANGED <<job, off, saved, pf, known>>

(* The Mac restarts, and with it whatever held an address. *)
Reboots ==
    /\ Exits
    /\ DnsDies
    /\ off' = "none"
    /\ table' = {}
    /\ anchor' = FALSE
    /\ refs' = {}
    /\ tunnels' = {}
    /\ known' = {}
    /\ UNCHANGED <<job, saved, token>>

-----------------------------------------------------------------------------
(* install.rs *)

On ==
    /\ ~job
    /\ off \in {"none", "done", "failed"}
    /\ job' = TRUE
    /\ off' = "none"
    /\ UNCHANGED <<term, pc, hosts, saved, pf, links, dnsAt, known, dnsVars>>

(* stop: launchd lets the service go and ends it. *)
Off ==
    /\ off \in {"none", "done", "failed"}
    /\ off' = "waits"
    /\ job' = FALSE
    /\ term' = (job /\ pc # "down")
    /\ UNCHANGED <<pc, hosts, saved, pf, links, dnsAt, known, dnsVars>>

(* sweep, once the daemon is gone: the tunnels, then pf *)
SweepsTunnels ==
    /\ off = "waits"
    /\ pc = "down"
    /\ tunnels' = {}
    /\ off' = "pf"
    /\ UNCHANGED <<job, term, pc, hosts, saved, pf, strays, dnsAt, known,
                   dnsVars>>

(* ... if the file with the reference is there.  A reference that is not   *)
(* there, as after a restart of the Mac, is an error.  The addresses that  *)
(* only pf knew after a crash are forgotten with it.                       *)
SweepsPf ==
    /\ off = "pf"
    /\ token # NoToken
    /\ \E rules \in May("flush"), tables \in May("flush") :
        /\ anchor' = (anchor /\ ~rules)
        /\ table' = IF tables THEN {} ELSE table
        /\ known' = IF tables THEN known \cap saved ELSE known
        /\ off' = IF rules /\ tables /\ token \in refs THEN "dns" ELSE "failed"
    /\ refs' = refs \ {token}
    /\ token' = NoToken
    /\ IF off' = "dns" THEN GiveStart \/ GiveFails ELSE UNCHANGED dnsVars
    /\ UNCHANGED <<job, term, pc, hosts, saved, links, dnsAt>>

LeavesPf ==
    /\ off = "pf"
    /\ token = NoToken
    /\ off' = "dns"
    /\ GiveStart \/ GiveFails
    /\ UNCHANGED <<job, term, pc, hosts, saved, pf, links, dnsAt, known>>

(* Mutant: it is done, whatever came of the DNS. *)
SweptAnyhow ==
    /\ off = "dns"
    /\ GiveEnd
    /\ off' = "done"
    /\ UNCHANGED <<job, term, pc, hosts, saved, pf, links, dnsAt, known>>

(* ... and the DNS. *)
SweepsDns(s, ok) ==
    /\ off = "dns"
    /\ GiveSet(s, ok)
    /\ UNCHANGED <<job, term, pc, off, hosts, saved, pf, links, dnsAt, known>>

Swept ==
    /\ off = "dns"
    /\ GiveEnd
    /\ off' = IF dnsFailed THEN "failed" ELSE "done"
    /\ UNCHANGED <<job, term, pc, hosts, saved, pf, links, dnsAt, known>>

-----------------------------------------------------------------------------
StepOfDaemon ==
    \/ Starts \/ Enables \/ EnableCut \/ Restores \/ Loads \/ LoadFails
    \/ StopsStrays
    \/ TakesDns \/ TookDns
    \/ \E s \in Services, ok \in Outcome : SetsDns(s, ok)
    \/ Terminates \/ GaveDns
    \/ \E s \in Services, ok \in Outcome : GivesDns(s, ok)
    \/ StopSaves \/ FlushesRules \/ FlushesTables \/ Unrefs

Next ==
    \/ StepOfDaemon
    \/ \E a \in Addrs : Answers(a) \/ Expires(a)
    \/ Saves
    \/ NetworkNew
    \/ Dies
    \/ Reboots
    \/ On
    \/ Off \/ SweepsTunnels \/ SweepsPf \/ LeavesPf \/ Swept
    \/ \E s \in Services, ok \in Outcome : SweepsDns(s, ok)

Spec == Init /\ [][Next]_vars

(* launchd starts the daemon, its steps end, and a command tried again and *)
(* again works at last.                                                    *)
Fairness ==
    /\ WF_vars(StepOfDaemon)
    /\ SF_vars(TakesDns /\ ~dnsFailed')
    /\ \A s \in Services : SF_vars(SetsDns(s, TRUE))

FairSpec == Spec /\ Fairness

-----------------------------------------------------------------------------
TypeOK ==
    /\ job \in BOOLEAN
    /\ term \in BOOLEAN
    /\ pc \in {"down"} \cup Starting \cup Serving \cup Stopping
    /\ off \in {"none", "waits", "pf", "dns", "done", "failed"}
    /\ hosts \subseteq Addrs
    /\ saved \subseteq Addrs
    /\ table \subseteq Addrs
    /\ known \subseteq Addrs
    /\ anchor \in BOOLEAN
    /\ refs \subseteq Tokens
    /\ token \in Tokens \cup {NoToken}
    /\ tunnels \subseteq {"ours", "strays"}
    /\ strays \in BOOLEAN
    /\ dnsAt \in BOOLEAN
    /\ DnsTypeOK

(* An address handed out stays known until its window ends: to the daemon  *)
(* once it serves, and to the files and pf while there is none.            *)
HostsKept ==
    known \subseteq IF pc \in Serving \cup {"load"} THEN hosts
                    ELSE saved \cup table

(* Whatever dies, as long as pf has the rules, it holds those addresses.   *)
HeldAcross == anchor => known \subseteq table

(* pf stays enabled while the daemon relies on it. *)
PfReferenced == pc \in {"restore", "load"} \cup Serving => token \in refs

(* While the daemon takes itself back, and after, the Mac asks the servers *)
(* it had: the DNS goes back first, but for services that fail.            *)
NamesFirst ==
    pc \in {"links"} \cup Stopping /\ ~dnsFailed =>
        \A s \in Services : HasItsOwn(s)

(* When `off` has said that it is done, nothing is left. *)
TakenBack ==
    off = "done" =>
        /\ \A s \in Services : HasItsOwn(s)
        /\ ~anchor
        /\ table = {}
        /\ tunnels = {}
        /\ pc = "down"

(* A daemon that stays up has every service ask its resolver at last.      *)
TakenInTheEnd ==
    <>[](pc \in Up) => <>[](\A s \in Services : dns[s] = {Resolver})
=============================================================================
