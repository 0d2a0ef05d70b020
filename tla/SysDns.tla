------------------------------- MODULE SysDns -------------------------------
(***************************************************************************)
(* The DNS of the Mac: sysdns.rs.  Every network service is set to the     *)
(* resolver, and what each had is kept in a file until it is put back.     *)
(*                                                                         *)
(* networksetup is a command, and each one an await: between two of them   *)
(* the daemon may die, and each may fail.  take_over reads the services    *)
(* and writes the file (TakeStart), then sets one service after another    *)
(* (TakeSet); give_back puts one back after another (GiveSet), and removes *)
(* the file when all went back (GiveEnd).  The daemon of Lifecycle calls   *)
(* them, and the command `off` does.                                       *)
(*                                                                         *)
(* The order of servers and how the file is written down are left out, and *)
(* so is a service that goes while its servers are kept; one that comes is *)
(* one that could not be read until then.                                  *)
(***************************************************************************)
EXTENDS Naturals, FiniteSets

CONSTANTS
    Services,   \* network services of the Mac
    Had,        \* [Services -> sets of servers]: before the first start
    Resolver,      \* the resolver
    NoFile,
    DnsMayFail  \* networksetup, or the write of the file, may fail

Servers == {Resolver} \cup UNION {Had[s] : s \in Services}

ASSUME DnsAssumption ==
    /\ IsFiniteSet(Services)
    /\ Had = [s \in Services |-> Had[s]]
    /\ DnsMayFail \in BOOLEAN
    /\ \A some \in SUBSET Services : NoFile \notin [some -> SUBSET Servers]

VARIABLES
    dns,        \* the servers of each service
    dnsSaved,   \* the file: what it keeps of which services
    todo,       \* the services still to be set
    dnsFailed   \* and whether one failed

dnsVars == <<dns, dnsSaved, todo, dnsFailed>>

(* What is kept of a service: without the resolver's own address. *)
Kept(servers) == servers \ {Resolver}

(* A service has the servers of its owner. *)
HasItsOwn(s) == dns[s] \in {Had[s], Kept(Had[s])}

(* The services that the file keeps something of. *)
Keeps == IF dnsSaved = NoFile THEN {} ELSE DOMAIN dnsSaved

Entry(s) == dnsSaved[s]

(* The outcomes of a command. *)
Outcome == IF DnsMayFail THEN BOOLEAN ELSE {TRUE}

DnsInit ==
    /\ dns = Had
    /\ dnsSaved = NoFile
    /\ todo = {}
    /\ dnsFailed = FALSE

(* The process dies: only what is on the disk and in the settings stays. *)
DnsDies ==
    /\ todo' = {}
    /\ dnsFailed' = FALSE
    /\ UNCHANGED <<dns, dnsSaved>>

-----------------------------------------------------------------------------
(* Mutant: what the services have now is kept, whatever the file has. *)
FileOfNow(read) ==
    [s \in Keeps \cup read |-> IF s \in read THEN Kept(dns[s]) ELSE Entry(s)]

(* The file once the services in `read` were read: an entry stays. *)
File(read) ==
    [s \in Keeps \cup read |-> IF s \in Keeps THEN Entry(s) ELSE Kept(dns[s])]

(* take_over, up to the first service: those read are kept, unless the     *)
(* file has them, and are to be set, unless they have the resolver alone.  *)
TakeStart ==
    \E read \in IF DnsMayFail THEN SUBSET Services ELSE {Services} :
        /\ IF read \subseteq Keeps
           THEN UNCHANGED dnsSaved
           ELSE dnsSaved' = File(read)
        /\ todo' = {s \in read : dns[s] # {Resolver}}
        /\ dnsFailed' = (read # Services)
        /\ UNCHANGED dns

(* It fails before anything is set: the file, the list of services. *)
TakeFails ==
    /\ DnsMayFail
    /\ todo' = {}
    /\ dnsFailed' = TRUE
    /\ UNCHANGED <<dns, dnsSaved>>

TakeSet(s, ok) ==
    /\ s \in todo
    /\ todo' = todo \ {s}
    /\ dns' = IF ok THEN [dns EXCEPT ![s] = {Resolver}] ELSE dns
    /\ dnsFailed' = (dnsFailed \/ ~ok)
    /\ UNCHANGED dnsSaved

-----------------------------------------------------------------------------
(* give_back: without a file there is nothing to do. *)
GiveStart ==
    /\ todo' = Keeps
    /\ dnsFailed' = FALSE
    /\ UNCHANGED <<dns, dnsSaved>>

GiveFails ==
    /\ DnsMayFail
    /\ dnsSaved # NoFile
    /\ todo' = {}
    /\ dnsFailed' = TRUE
    /\ UNCHANGED <<dns, dnsSaved>>

GiveSet(s, ok) ==
    /\ s \in todo
    /\ todo' = todo \ {s}
    /\ dns' = IF ok THEN [dns EXCEPT ![s] = Entry(s)] ELSE dns
    /\ dnsFailed' = (dnsFailed \/ ~ok)
    /\ UNCHANGED dnsSaved

(* Mutant: the file goes, whether or not every service went back. *)
GiveEndAnyway ==
    /\ todo = {}
    /\ dnsSaved' = NoFile
    /\ UNCHANGED <<dns, todo, dnsFailed>>

GiveEnd ==
    /\ todo = {}
    /\ dnsSaved' = IF dnsFailed THEN dnsSaved ELSE NoFile
    /\ UNCHANGED <<dns, todo, dnsFailed>>

-----------------------------------------------------------------------------
DnsTypeOK ==
    /\ dns \in [Services -> SUBSET Servers]
    /\ \/ dnsSaved = NoFile
       \/ /\ Keeps \subseteq Services
          /\ \A s \in Keeps : Entry(s) \subseteq Servers
    /\ todo \subseteq Services
    /\ dnsFailed \in BOOLEAN

(* The servers of the owner are never lost: a service has them, without    *)
(* the resolver's own address if it was among them, or the file does.      *)
ServersKept ==
    \A s \in Services :
        \/ HasItsOwn(s)
        \/ s \in Keeps /\ Entry(s) = Kept(Had[s])
=============================================================================
