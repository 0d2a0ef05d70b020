------------------------------- MODULE Sources -------------------------------
(***************************************************************************)
(* The sources of the lists: sources.rs, and the step of the watch that    *)
(* takes them in (follow_sources of daemon.rs).  File sources are looked   *)
(* at in every step, the URL is fetched when due by a task of its own, and *)
(* a change of any builds the lists from all of them.                      *)
(*                                                                         *)
(* A step has no await, but the owner and his editor are other processes:  *)
(* they write between any two reads.  A step is Poll (the flag, a finished *)
(* fetch, the next one), Look for every file, and, when something changed, *)
(* Read for every source and TakeIn.  A start of the daemon looks at the   *)
(* times and builds.                                                       *)
(*                                                                         *)
(* A text is a list of some entries or no list at all (Nothing).  Which    *)
(* lines are entries, the way a fetch goes (the tunnel, else directly),    *)
(* the names of the copies and several URLs, each of which is due by       *)
(* itself, are left out.                                                   *)
(***************************************************************************)
EXTENDS Naturals, FiniteSets

CONSTANTS
    Files,      \* file sources
    Texts,      \* texts that are lists
    Nothing,    \* a text that is none
    Gone,       \* no file, no copy
    EDITS,      \* bound: how often the owner and the server change a text
    RESTARTS    \* bound: how often the daemon is started again

URL == "url"
Idle == "idle"
Running == "running"
Failed == "failed"

ASSUME SourcesAssumption ==
    /\ Nothing \notin Texts
    /\ Gone \notin Texts \cup {Nothing}
    /\ {Idle, Running, Failed} \cap (Texts \cup {Nothing}) = {}
    /\ IsFiniteSet(Files)
    /\ URL \notin Files
    /\ EDITS \in Nat
    /\ RESTARTS \in Nat

VARIABLES
    text,       \* the text of each file, or Gone
    time,       \* and when it was written: the edit, or 0 without a file
    open,       \* an editor has truncated it: "no", "yes", and "looked" at
    edits,
    emptied,    \* files that their owner emptied
    server,     \* the text at the URL
    flag,       \* UPDATE_FLAG
    restarts,
    seen,       \* Stamp::seen of each file
    taken,      \* Stamp::taken
    copy,       \* the copies of the files in the cache
    cached,     \* that of the URL
    due,        \* the URL is due
    task,       \* the fetch: Idle, Running, or what it brought
    pc,         \* where the step is
    todo,       \* files still to be looked at, or sources to be read
    changed,    \* a source has changed in this step
    unsettled,  \* files found to hold nothing as yet
    built,      \* what was read
    lists       \* the lists in place

owner == <<text, time, open, edits, emptied, server, flag>>
stamps == <<seen, taken>>
vars == <<owner, restarts, stamps, copy, cached, due, task, pc, todo,
          changed, unsettled, built, lists>>

AllSources == Files \cup {URL}
AnyText == Texts \cup {Nothing}
OrGone == AnyText \cup {Gone}

(* check *)
IsList(t) == t \in Texts

Entries(built_) == {s \in AllSources : IsList(built_[s])}

-----------------------------------------------------------------------------
Init ==
    /\ text \in [Files -> Texts]
    /\ time = [f \in Files |-> 1]
    /\ open = [f \in Files |-> "no"]
    /\ edits = 1
    /\ emptied = {}
    /\ server \in Texts
    /\ flag = FALSE
    /\ restarts = 0
    /\ seen = time
    /\ taken = time
    /\ copy = [f \in Files |-> Gone]
    /\ cached = Gone
    /\ due = TRUE
    /\ task = Idle
    /\ pc = "start"
    /\ todo = AllSources
    /\ changed = FALSE
    /\ unsettled = {}
    /\ built = [s \in AllSources |-> Gone]
    /\ lists = [s \in AllSources |-> Gone]

-----------------------------------------------------------------------------
(* The owner, his editor and the server. *)
MayEdit == edits <= EDITS

Puts(f, t) ==
    /\ text' = [text EXCEPT ![f] = t]
    /\ time' = [time EXCEPT ![f] = edits + 1]
    /\ edits' = edits + 1

daemon == <<restarts, stamps, copy, cached, due, task, pc, todo, changed,
            unsettled, built, lists>>

(* The owner puts another file in place, or empties it. *)
Replaces(f) ==
    /\ MayEdit
    /\ open[f] = "no"
    /\ \E t \in AnyText \ {text[f]} :
        /\ Puts(f, t)
        /\ emptied' = emptied \cup (IF t = Nothing THEN {f} ELSE {})
    /\ UNCHANGED <<open, server, flag, daemon>>

(* ... takes it away *)
Removes(f) ==
    /\ MayEdit
    /\ open[f] = "no"
    /\ text[f] # Gone
    /\ text' = [text EXCEPT ![f] = Gone]
    /\ time' = [time EXCEPT ![f] = 0]
    /\ edits' = edits + 1
    /\ UNCHANGED <<open, emptied, server, flag, daemon>>

(* ... or saves it with an editor that truncates it in place first, and is *)
(* done before the second look.                                            *)
Truncates(f) ==
    /\ MayEdit
    /\ open[f] = "no"
    /\ text[f] \in Texts
    /\ Puts(f, Nothing)
    /\ open' = [open EXCEPT ![f] = "yes"]
    /\ UNCHANGED <<emptied, server, flag, daemon>>

Finishes(f) ==
    /\ open[f] # "no"
    /\ \E t \in Texts : Puts(f, t)
    /\ open' = [open EXCEPT ![f] = "no"]
    /\ UNCHANGED <<emptied, server, flag, daemon>>

Asks ==
    /\ ~flag
    /\ flag' = TRUE
    /\ UNCHANGED <<text, time, open, edits, emptied, server, daemon>>

(* The list at the URL is another one, or an error page. *)
Publishes ==
    /\ MayEdit
    /\ server' \in AnyText \ {server}
    /\ edits' = edits + 1
    /\ UNCHANGED <<text, time, open, emptied, flag, daemon>>

-----------------------------------------------------------------------------
(* What take_in keeps of a fetch. *)

Fetched(got) == IF IsList(got) THEN got ELSE cached

Finished == task \notin {Idle, Running}

(* Whether the URL is due once the flag and the result were looked at: the *)
(* result makes it due in an hour or in a day, whatever the flag said.     *)
DueNow == ~Finished /\ (due \/ flag)

(* Updater::poll, but for the files.  The write of the copy may fail. *)
Poll ==
    /\ pc = "idle"
    /\ flag' = FALSE
    /\ cached' \in {cached} \cup (IF Finished THEN {Fetched(task)} ELSE {})
    /\ changed' = (cached' # cached)
    /\ IF task = Running
       THEN task' = task /\ due' = DueNow
       ELSE task' = (IF DueNow THEN Running ELSE Idle) /\ due' = FALSE
    /\ pc' = "look"
    /\ todo' = Files
    /\ unsettled' = {}
    /\ UNCHANGED <<text, time, open, edits, emptied, server, restarts,
                   stamps, copy, built, lists>>

(* The fetch ends: with what is at the URL, or not. *)
Fetches ==
    /\ task = Running
    /\ task' \in {server, Failed}
    /\ UNCHANGED <<owner, restarts, stamps, copy, cached, due, pc, todo,
                   changed, unsettled, built, lists>>

(* Mutant: a URL that has a copy is not due again. *)
DueOnce ==
    /\ ~due
    /\ cached = Gone
    /\ due' = TRUE
    /\ UNCHANGED <<owner, restarts, stamps, copy, cached, task, pc, todo,
                   changed, unsettled, built, lists>>

DueComes ==
    /\ ~due
    /\ due' = TRUE
    /\ UNCHANGED <<owner, restarts, stamps, copy, cached, task, pc, todo,
                   changed, unsettled, built, lists>>

-----------------------------------------------------------------------------
(* Updater::follow_files, of one file: its time has not held still and it  *)
(* is no list.                                                             *)
Unsettled(f) == time[f] # seen[f] /\ ~IsList(text[f])

LookedAt(f) == [open EXCEPT ![f] = IF @ = "yes" THEN "looked" ELSE @]

(* Mutant: a time once seen is a time taken in. *)
LookSeen(f) ==
    /\ pc = "look"
    /\ f \in todo
    /\ open[f] # "looked"
    /\ seen' = [seen EXCEPT ![f] = time[f]]
    /\ taken' = [taken EXCEPT ![f] = time[f]]
    /\ unsettled' = unsettled \cup (IF Unsettled(f) THEN {f} ELSE {})
    /\ changed' = (changed \/ (time[f] # taken[f] /\ ~Unsettled(f)))
    /\ todo' = todo \ {f}
    /\ open' = LookedAt(f)
    /\ UNCHANGED <<text, time, edits, emptied, server, flag, restarts, copy,
                   cached, due, task, pc, built, lists>>

Look(f) ==
    /\ pc = "look"
    /\ f \in todo
    /\ open[f] # "looked"
    /\ seen' = [seen EXCEPT ![f] = time[f]]
    /\ CASE time[f] = taken[f] -> UNCHANGED <<taken, unsettled, changed>>
         [] time[f] # taken[f] /\ Unsettled(f) ->
                /\ unsettled' = unsettled \cup {f}
                /\ UNCHANGED <<taken, changed>>
         [] OTHER ->
                /\ taken' = [taken EXCEPT ![f] = time[f]]
                /\ changed' = TRUE
                /\ UNCHANGED unsettled
    /\ todo' = todo \ {f}
    /\ open' = LookedAt(f)
    /\ UNCHANGED <<text, time, edits, emptied, server, flag, restarts, copy,
                   cached, due, task, pc, built, lists>>

(* follow_sources: nothing has changed, or the lists are built. *)
Looked ==
    /\ pc = "look"
    /\ todo = {}
    /\ changed' = FALSE
    /\ IF changed
       THEN pc' = "read" /\ todo' = AllSources
       ELSE pc' = "idle" /\ UNCHANGED todo
    /\ UNCHANGED <<owner, restarts, stamps, copy, cached, due, task,
                   unsettled, built, lists>>

-----------------------------------------------------------------------------
(* Mutant: the copy follows the file. *)
CopiesAny(f) == {copy[f], text[f]}

(* What read_file leaves as the copy; its write may fail. *)
Copies(f) == {copy[f]} \cup (IF IsList(text[f]) THEN {text[f]} ELSE {})

(* What a build takes of a source: the file, else its copy. *)
Reads(s) ==
    CASE s = URL -> cached
      [] s # URL /\ text[s] = Gone -> copy[s]
      [] OTHER -> text[s]

Read(s) ==
    /\ pc \in {"start", "read"}
    /\ s \in todo
    /\ built' = [built EXCEPT ![s] = Reads(s)]
    /\ IF s = URL THEN UNCHANGED copy
       ELSE \E t \in Copies(s) : copy' = [copy EXCEPT ![s] = t]
    /\ todo' = todo \ {s}
    /\ UNCHANGED <<owner, restarts, stamps, cached, due, task, pc, changed,
                   unsettled, lists>>

NothingBuilt == [s \in AllSources |-> Gone]

(* The lists of a start are taken as they are, those of a step only with   *)
(* an entry.                                                               *)
TakeIn ==
    /\ pc \in {"start", "read"}
    /\ todo = {}
    /\ lists' = IF pc = "start" \/ Entries(built) # {} THEN built ELSE lists
    /\ built' = NothingBuilt
    /\ pc' = "idle"
    /\ UNCHANGED <<owner, restarts, stamps, copy, cached, due, task, todo,
                   changed, unsettled>>

(* The daemon is started again: Updater::new, and the build of run.  When  *)
(* the URL is due, the time of the copy tells.                             *)
Restart ==
    /\ restarts < RESTARTS
    /\ restarts' = restarts + 1
    /\ seen' = time
    /\ taken' = time
    /\ due' \in {TRUE, cached = Gone}
    /\ task' = Idle
    /\ pc' = "start"
    /\ todo' = AllSources
    /\ changed' = FALSE
    /\ unsettled' = {}
    /\ built' = NothingBuilt
    /\ lists' = NothingBuilt
    /\ UNCHANGED <<owner, copy, cached>>

-----------------------------------------------------------------------------
Step ==
    \/ Poll
    \/ \E f \in Files : Look(f)
    \/ Looked
    \/ \E s \in AllSources : Read(s)
    \/ TakeIn

Next ==
    \/ \E f \in Files : Replaces(f) \/ Removes(f) \/ Truncates(f) \/ Finishes(f)
    \/ Asks
    \/ Publishes
    \/ Step
    \/ Fetches
    \/ DueComes
    \/ Restart

Spec == Init /\ [][Next]_vars

(* The watch ticks, an editor is done, a fetch has a time limit, an hour   *)
(* and a day end; a fetch and the write of a copy tried again and again    *)
(* work at last.                                                           *)
Fairness ==
    /\ WF_vars(Step)
    /\ \A f \in Files : WF_vars(Finishes(f))
    /\ WF_vars(Fetches)
    /\ SF_vars(Fetches /\ task' = server)
    /\ SF_vars(Poll /\ cached' = task)
    /\ WF_vars(DueComes)

FairSpec == Spec /\ Fairness

-----------------------------------------------------------------------------
TypeOK ==
    /\ text \in [Files -> OrGone]
    /\ time \in [Files -> 0 .. edits]
    /\ open \in [Files -> {"no", "yes", "looked"}]
    /\ edits \in Nat
    /\ emptied \subseteq Files
    /\ server \in AnyText
    /\ flag \in BOOLEAN
    /\ restarts \in 0 .. RESTARTS
    /\ seen \in [Files -> 0 .. edits]
    /\ taken \in [Files -> 0 .. edits]
    /\ copy \in [Files -> OrGone]
    /\ cached \in OrGone
    /\ due \in BOOLEAN
    /\ task \in AnyText \cup {Idle, Running, Failed}
    /\ pc \in {"start", "idle", "look", "read"}
    /\ todo \subseteq AllSources
    /\ changed \in BOOLEAN
    /\ unsettled \subseteq Files
    /\ built \in [AllSources -> OrGone]
    /\ lists \in [AllSources -> OrGone]

(* What is kept for the day when a file is gone or a fetch fails is a      *)
(* list: neither an editor in the middle of a save nor an error page at    *)
(* the URL takes its place, in whatever order they are read.               *)
CopiesAreLists ==
    \A t \in {copy[f] : f \in Files} \cup {cached} : IsList(t) \/ t = Gone

(* What sources.rs says at 305: "an editor that truncates in place leaves  *)
(* the file holding nothing for a moment, and reading it there drops the   *)
(* entries of that source and the routes of its subnets".  A step that     *)
(* finds a file so does not take its entries away.                         *)
WaitedOut ==
    [][\A f \in unsettled \ emptied :
            pc = "read" /\ IsList(lists[f]) => IsList(lists'[f])]_vars

(* A source that is there, and as it was when it was last taken in.  A     *)
(* file that is gone has no time: one that came and went is not told from  *)
(* one that stayed away.                                                   *)
IsThere(s) == s = URL \/ text[s] # Gone
Current(s) == IsThere(s) /\ (s = URL \/ time[s] = taken[s])

InPlace(some) ==
    (\E s \in some : IsList(Reads(s))) => \A s \in some : lists[s] = Reads(s)

(* No change is missed for good: between two steps, each source that the   *)
(* next look would pass over is in place as it is now, unless none of them *)
(* has an entry.  The stamps are taken before the files are read, by       *)
(* follow_files, new and build, and writers come at any moment.            *)
NothingMissed == pc = "idle" => InPlace({s \in AllSources : Current(s)})

(* Once nobody writes any more, the lists in place are those of the files  *)
(* that are there and of the URL.                                          *)
EndsInPlace == <>[]InPlace({s \in AllSources : IsThere(s)})

(* And the copy of the URL is what is there, if that is a list. *)
EndsFetched == <>[](IsList(server) => cached = server)
=============================================================================
