--------------------------- MODULE SourcesProofs ---------------------------
(***************************************************************************)
(* What holds of Sources for any files and texts, however often they are   *)
(* written and the daemon is started again.                                *)
(***************************************************************************)
EXTENDS Sources, TLAPS

-----------------------------------------------------------------------------
(* The types. *)

(* What a build takes of a source, and what it may leave as a copy. *)
LEMMA ReadsTyped ==
    ASSUME TypeOK, NEW s \in AllSources
    PROVE  Reads(s) \in OrGone
BY DEF TypeOK, Reads, AllSources, OrGone

LEMMA CopiesTyped ==
    ASSUME TypeOK, NEW f \in Files
    PROVE  Copies(f) \subseteq OrGone
BY DEF TypeOK, Copies, OrGone

LEMMA FetchedTyped ==
    ASSUME TypeOK, Finished
    PROVE  Fetched(task) \in OrGone
BY DEF TypeOK, Fetched, IsList, OrGone, AnyText

(* An edit gives a later time than any before. *)
LEMMA Later ==
    ASSUME TypeOK
    PROVE  /\ edits + 1 \in Nat
           /\ edits + 1 \in 0 .. edits + 1
           /\ 0 .. edits \subseteq 0 .. edits + 1
BY DEF TypeOK

LEMMA PutsTyped ==
    ASSUME TypeOK, NEW f \in Files, NEW t \in OrGone, Puts(f, t)
    PROVE  /\ text' \in [Files -> OrGone]
           /\ time' \in [Files -> 0 .. edits']
           /\ edits' = edits + 1
<1>1. edits' = edits + 1
  BY DEF Puts
<1>2. text' \in [Files -> OrGone]
  BY DEF Puts, TypeOK
<1>3. time \in [Files -> 0 .. edits + 1]
  BY Later DEF TypeOK
<1>4. time' = [time EXCEPT ![f] = edits + 1]
  BY DEF Puts
<1>5. time' \in [Files -> 0 .. edits + 1]
  BY <1>3, <1>4, Later
<1> QED
  BY <1>1, <1>2, <1>5

(* The stamps stay in range when the edits go on. *)
LEMMA StampsTyped ==
    ASSUME TypeOK, edits' = edits + 1
    PROVE  /\ seen \in [Files -> 0 .. edits']
           /\ taken \in [Files -> 0 .. edits']
BY Later DEF TypeOK

LEMMA TypeStep == TypeOK /\ [Next]_vars => TypeOK'
<1> SUFFICES ASSUME TypeOK, [Next]_vars PROVE TypeOK'
  OBVIOUS
<1> USE DEF owner, stamps, daemon
<1>1. ASSUME NEW f \in Files,
             Replaces(f) \/ Removes(f) \/ Truncates(f) \/ Finishes(f)
      PROVE  TypeOK'
  <2>1. CASE Replaces(f) \/ Truncates(f) \/ Finishes(f)
    <3>1. PICK t \in OrGone : Puts(f, t)
      BY <2>1 DEF Replaces, Truncates, Finishes, OrGone, AnyText
    <3>2. /\ text' \in [Files -> OrGone]
          /\ time' \in [Files -> 0 .. edits']
          /\ edits' \in Nat
          /\ seen \in [Files -> 0 .. edits']
          /\ taken \in [Files -> 0 .. edits']
      BY <3>1, PutsTyped, StampsTyped, Later
    <3>3. open' \in [Files -> {"no", "yes", "looked"}] /\ emptied' \subseteq Files
      BY <2>1 DEF Replaces, Truncates, Finishes, TypeOK
    <3> QED
      BY <2>1, <3>2, <3>3 DEF Replaces, Truncates, Finishes, TypeOK
  <2>2. CASE Removes(f)
    <3>1. /\ text' = [text EXCEPT ![f] = Gone]
          /\ time' = [time EXCEPT ![f] = 0]
          /\ edits' = edits + 1
      BY <2>2 DEF Removes
    <3>2. time \in [Files -> 0 .. edits + 1] /\ 0 \in 0 .. edits + 1
      BY Later DEF TypeOK
    <3>3. time' \in [Files -> 0 .. edits']
      BY <3>1, <3>2
    <3>4. text' \in [Files -> OrGone]
      BY <3>1 DEF TypeOK, OrGone
    <3> QED
      BY <2>2, <3>1, <3>3, <3>4, StampsTyped, Later DEF Removes, TypeOK
  <2> QED
    BY <1>1, <2>1, <2>2
<1>2. CASE Asks
  BY <1>2 DEF Asks, TypeOK
<1>3. CASE Publishes
  <2>1. edits' \in Nat /\ time \in [Files -> 0 .. edits']
    BY <1>3, Later DEF Publishes, TypeOK
  <2> QED
    BY <1>3, <2>1, StampsTyped DEF Publishes, TypeOK
<1>4. CASE Poll
  <2>1. cached' \in OrGone
    BY <1>4, FetchedTyped DEF Poll, TypeOK
  <2>2. task' \in AnyText \cup {Idle, Running, Failed} /\ due' \in BOOLEAN
    BY <1>4 DEF Poll, TypeOK, DueNow
  <2> QED
    BY <1>4, <2>1, <2>2 DEF Poll, TypeOK, AllSources
<1>5. ASSUME NEW f \in Files, Look(f)
      PROVE  TypeOK'
  BY <1>5 DEF Look, LookedAt, TypeOK
<1>6. CASE Looked
  BY <1>6 DEF Looked, TypeOK
<1>7. ASSUME NEW s \in AllSources, Read(s)
      PROVE  TypeOK'
  <2>1. built' \in [AllSources -> OrGone]
    BY <1>7, ReadsTyped DEF Read, TypeOK
  <2>2. copy' \in [Files -> OrGone]
    <3>1. CASE s = URL
      BY <1>7, <3>1 DEF Read, TypeOK
    <3>2. CASE s # URL
      <4>1. s \in Files
        BY <3>2 DEF AllSources
      <4>2. PICK t \in Copies(s) : copy' = [copy EXCEPT ![s] = t]
        BY <1>7, <3>2 DEF Read
      <4> QED
        BY <4>1, <4>2, CopiesTyped DEF TypeOK
    <3> QED
      BY <3>1, <3>2
  <2> QED
    BY <1>7, <2>1, <2>2 DEF Read, TypeOK
<1>8. NothingBuilt \in [AllSources -> OrGone]
  BY DEF NothingBuilt, OrGone
<1>9. CASE TakeIn
  <2>1. lists' \in [AllSources -> OrGone]
    BY <1>9 DEF TakeIn, TypeOK
  <2> QED
    BY <1>8, <1>9, <2>1 DEF TakeIn, TypeOK
<1>10. CASE Fetches
  BY <1>10 DEF Fetches, TypeOK
<1>11. CASE DueComes
  BY <1>11 DEF DueComes, TypeOK
<1>12. CASE Restart
  <2>1. restarts' \in 0 .. RESTARTS
    BY <1>12, SourcesAssumption DEF Restart, TypeOK
  <2> QED
    BY <1>8, <1>12, <2>1 DEF Restart, TypeOK
<1>13. CASE UNCHANGED vars
  BY <1>13 DEF vars, TypeOK
<1> QED
  BY <1>1, <1>2, <1>3, <1>4, <1>5, <1>6, <1>7, <1>9, <1>10, <1>11, <1>12,
     <1>13 DEF Next, Step

LEMMA TypeInit == Init => TypeOK
<1> SUFFICES ASSUME Init PROVE TypeOK
  OBVIOUS
<1>1. time \in [Files -> 0 .. edits] /\ edits \in Nat
  BY DEF Init
<1>2. text \in [Files -> OrGone] /\ server \in AnyText
  BY DEF Init, OrGone, AnyText
<1>3. restarts \in 0 .. RESTARTS
  BY SourcesAssumption DEF Init
<1>4. copy \in [Files -> OrGone] /\ cached \in OrGone
  BY DEF Init, OrGone
<1>5. built \in [AllSources -> OrGone] /\ lists \in [AllSources -> OrGone]
  BY DEF Init, OrGone
<1>6. open \in [Files -> {"no", "yes", "looked"}]
  BY DEF Init
<1> QED
  BY <1>1, <1>2, <1>3, <1>4, <1>5, <1>6 DEF Init, TypeOK

(* Every variable of Sources keeps its type, whatever is written when.     *)
THEOREM TypeCorrect == Spec => []TypeOK
BY TypeInit, TypeStep, PTL DEF Spec

-----------------------------------------------------------------------------
(* What is kept for the day when a file is gone or a fetch fails. *)

LEMMA CopiesStep == TypeOK /\ CopiesAreLists /\ [Next]_vars => CopiesAreLists'
<1> SUFFICES ASSUME TypeOK, CopiesAreLists, [Next]_vars
             PROVE  /\ \A f \in Files : IsList(copy'[f]) \/ copy'[f] = Gone
                    /\ IsList(cached') \/ cached' = Gone
  BY DEF CopiesAreLists, IsList
<1>1. /\ \A f \in Files : IsList(copy[f]) \/ copy[f] = Gone
      /\ IsList(cached) \/ cached = Gone
  BY DEF CopiesAreLists
<1>2. CASE UNCHANGED <<copy, cached>>
  BY <1>1, <1>2
<1>3. CASE Poll
  BY <1>1, <1>3 DEF Poll, Fetched, IsList, stamps
<1>4. ASSUME NEW s \in AllSources, Read(s)
      PROVE  /\ \A f \in Files : IsList(copy'[f]) \/ copy'[f] = Gone
             /\ IsList(cached') \/ cached' = Gone
  <2>1. cached' = cached
    BY <1>4 DEF Read
  <2>2. CASE s = URL
    BY <1>1, <1>4, <2>1, <2>2 DEF Read
  <2>3. CASE s # URL
    <3>1. s \in Files
      BY <2>3 DEF AllSources
    <3>2. PICK t \in Copies(s) : copy' = [copy EXCEPT ![s] = t]
      BY <1>4, <2>3 DEF Read
    <3>3. IsList(t) \/ t = Gone
      BY <1>1, <3>1, <3>2 DEF Copies
    <3> QED
      BY <1>1, <2>1, <3>1, <3>2, <3>3 DEF TypeOK
  <2> QED
    BY <2>2, <2>3
<1>5. Next => Poll \/ (\E s \in AllSources : Read(s)) \/ UNCHANGED <<copy, cached>>
  BY DEF Next, Step, Replaces, Removes, Truncates, Finishes, Asks, Publishes,
         Look, Looked, TakeIn, Fetches, DueComes, Restart, daemon
<1> QED
  BY <1>2, <1>3, <1>4, <1>5 DEF vars

(* Neither an editor in the middle of a save nor an error page at the URL  *)
(* takes the place of a list that is kept (read_file, take_in).            *)
THEOREM CopiesAlwaysLists == Spec => []CopiesAreLists
<1>1. Init => CopiesAreLists
  BY DEF Init, CopiesAreLists
<1> QED
  BY <1>1, CopiesStep, TypeCorrect, PTL DEF Spec

-----------------------------------------------------------------------------
(* No change is missed. *)

Now == {s \in AllSources : Current(s)}

(* The sources read so far were read as they are now, or their times have  *)
(* changed since.                                                          *)
ReadRight == \A s \in AllSources \ todo : Current(s) => built[s] = Reads(s)

(* What is out of place is about to be read, or is read now. *)
SeenInv ==
    /\ pc = "idle" => InPlace(Now)
    /\ pc = "look" /\ ~changed => InPlace(Now)
    /\ pc \in {"start", "read"} => ReadRight

(* A step after which no source is current that was not, and those that    *)
(* are are what they were.                                                 *)
NoneTaken ==
    /\ \A s \in AllSources : Current(s)' => Current(s) /\ Reads(s)' = Reads(s)
    /\ UNCHANGED <<pc, todo, changed, built, lists>>

LEMMA NoneTakenKeeps == SeenInv /\ NoneTaken => SeenInv'
<1> SUFFICES ASSUME SeenInv, NoneTaken PROVE SeenInv'
  OBVIOUS
<1>1. InPlace(Now) => InPlace(Now)'
  <2> SUFFICES ASSUME InPlace(Now), NEW t \in Now', IsList(Reads(t)')
               PROVE  \A s \in Now' : lists'[s] = Reads(s)'
    BY DEF InPlace
  <2>1. \A s \in Now' : s \in Now /\ Reads(s)' = Reads(s)
    BY DEF NoneTaken, Now
  <2> QED
    BY <2>1 DEF InPlace, NoneTaken
<1>2. ReadRight => ReadRight'
  BY DEF ReadRight, NoneTaken
<1> QED
  BY <1>1, <1>2 DEF SeenInv, NoneTaken

(* A file whose time is later than every stamp, or that is gone, is not    *)
(* current.                                                                *)
LEMMA EditTakesNone ==
    ASSUME TypeOK, NEW f \in Files, UNCHANGED daemon,
           \A g \in Files \ {f} : text'[g] = text[g] /\ time'[g] = time[g],
           text'[f] = Gone \/ time'[f] = edits + 1
    PROVE  NoneTaken
<1>1. taken'[f] # edits + 1
  BY DEF TypeOK, daemon, stamps
<1>2. ~Current(f)'
  BY <1>1, SourcesAssumption DEF Current, IsThere
<1>3. ASSUME NEW s \in AllSources, s # f
      PROVE  Current(s)' = Current(s) /\ Reads(s)' = Reads(s)
  BY <1>3 DEF AllSources, Current, IsThere, Reads, daemon, stamps
<1> QED
  BY <1>2, <1>3 DEF NoneTaken, daemon

(* A step that leaves the files, their stamps and the copies alone. *)
LEMMA LeftTakesNone ==
    ASSUME UNCHANGED <<text, time, stamps, copy, cached, pc, todo, changed,
                       built, lists>>
    PROVE  NoneTaken
BY DEF NoneTaken, Current, IsThere, Reads, stamps

LEMMA EditsTakeNone ==
    ASSUME TypeOK, NEW f \in Files,
           Replaces(f) \/ Removes(f) \/ Truncates(f) \/ Finishes(f)
    PROVE  NoneTaken
<1>1. UNCHANGED daemon
  BY DEF Replaces, Removes, Truncates, Finishes
<1>2. CASE Replaces(f) \/ Truncates(f) \/ Finishes(f)
  <2>1. PICK t : Puts(f, t)
    BY <1>2 DEF Replaces, Truncates, Finishes
  <2>2. /\ \A g \in Files \ {f} : text'[g] = text[g] /\ time'[g] = time[g]
        /\ time'[f] = edits + 1
    BY <2>1 DEF Puts, TypeOK
  <2> QED
    BY <1>1, <2>2, EditTakesNone
<1>3. CASE Removes(f)
  <2>1. /\ \A g \in Files \ {f} : text'[g] = text[g] /\ time'[g] = time[g]
        /\ text'[f] = Gone
    BY <1>3 DEF Removes, TypeOK
  <2> QED
    BY <1>1, <2>1, EditTakesNone
<1> QED
  BY <1>2, <1>3

(* A poll has the lists built when it has a new copy. *)
LEMMA PollKeeps == TypeOK /\ SeenInv /\ Poll => SeenInv'
<1> SUFFICES ASSUME TypeOK, SeenInv, Poll PROVE SeenInv'
  OBVIOUS
<1>1. /\ pc = "idle" /\ pc' = "look"
      /\ changed' = (cached' # cached)
      /\ UNCHANGED <<text, time, stamps, copy, built, lists>>
  BY DEF Poll
<1>2. ASSUME ~changed'
      PROVE  InPlace(Now)'
  <2>1. cached' = cached
    BY <1>1, <1>2
  <2>2. Now' = Now /\ \A s : Reads(s)' = Reads(s)
    BY <1>1, <2>1 DEF Now, Current, IsThere, Reads, stamps
  <2>3. InPlace(Now)
    BY <1>1 DEF SeenInv
  <2> QED
    BY <1>1, <2>2, <2>3 DEF InPlace
<1> QED
  BY <1>1, <1>2 DEF SeenInv

(* A look takes a time in only to have the lists built. *)
LEMMA LookKeeps ==
    ASSUME TypeOK, SeenInv, NEW f \in Files, Look(f)
    PROVE  SeenInv'
<1>1. /\ pc = "look" /\ pc' = "look"
      /\ UNCHANGED <<text, time, copy, cached, built, lists>>
      /\ changed' \/ (taken' = taken /\ changed' = changed)
  BY DEF Look
<1>2. ASSUME ~changed'
      PROVE  InPlace(Now)'
  <2>1. taken' = taken /\ ~changed
    BY <1>1, <1>2
  <2>2. Now' = Now /\ \A s : Reads(s)' = Reads(s)
    BY <1>1, <2>1 DEF Now, Current, IsThere, Reads
  <2>3. InPlace(Now)
    BY <1>1, <2>1 DEF SeenInv
  <2> QED
    BY <1>1, <2>2, <2>3 DEF InPlace
<1> QED
  BY <1>1, <1>2 DEF SeenInv

LEMMA LookedKeeps == SeenInv /\ Looked => SeenInv'
<1> SUFFICES ASSUME SeenInv, Looked PROVE SeenInv'
  OBVIOUS
<1>1. /\ pc = "look"
      /\ UNCHANGED <<owner, stamps, copy, cached, built, lists>>
  BY DEF Looked
<1>2. Now' = Now /\ \A s : Reads(s)' = Reads(s)
  BY <1>1 DEF Now, Current, IsThere, Reads, owner, stamps
<1>3. CASE changed
  BY <1>3 DEF Looked, SeenInv, ReadRight
<1>4. CASE ~changed
  <2>1. pc' = "idle" /\ InPlace(Now)
    BY <1>1, <1>4 DEF Looked, SeenInv
  <2> QED
    BY <1>1, <1>2, <2>1 DEF SeenInv, InPlace
<1> QED
  BY <1>3, <1>4

(* A source that is there is read as it is, whatever becomes of its copy.  *)
LEMMA ReadKeeps ==
    ASSUME TypeOK, SeenInv, NEW s \in AllSources, Read(s)
    PROVE  SeenInv'
<1>1. /\ pc \in {"start", "read"} /\ pc' = pc
      /\ built' = [built EXCEPT ![s] = Reads(s)]
      /\ todo' = todo \ {s}
      /\ UNCHANGED <<owner, stamps, cached, lists>>
  BY DEF Read
<1>2. \A t : Current(t)' = Current(t)
  BY <1>1 DEF Current, IsThere, owner, stamps
<1>3. \A t \in AllSources : Current(t) => Reads(t)' = Reads(t)
  BY <1>1 DEF Current, IsThere, Reads, owner
<1>4. ReadRight
  BY <1>1 DEF SeenInv
<1>5. ReadRight'
  BY <1>1, <1>2, <1>3, <1>4 DEF ReadRight, TypeOK
<1> QED
  BY <1>1, <1>5 DEF SeenInv

(* What was read is what is there, or has changed since and is seen. *)
LEMMA TakeInKeeps == TypeOK /\ SeenInv /\ TakeIn => SeenInv'
<1> SUFFICES ASSUME TypeOK, SeenInv, TakeIn PROVE SeenInv'
  OBVIOUS
<1>1. /\ pc \in {"start", "read"} /\ todo = {} /\ pc' = "idle"
      /\ lists' = IF pc = "start" \/ Entries(built) # {} THEN built ELSE lists
      /\ UNCHANGED <<owner, stamps, copy, cached>>
  BY DEF TakeIn
<1>2. Now' = Now /\ \A s : Reads(s)' = Reads(s)
  BY <1>1 DEF Now, Current, IsThere, Reads, owner, stamps
<1>3. \A s \in Now : built[s] = Reads(s)
  BY <1>1 DEF SeenInv, ReadRight, Now
<1>4. ASSUME NEW t \in Now, IsList(Reads(t))
      PROVE  \A s \in Now : lists'[s] = Reads(s)
  <2>1. t \in Entries(built)
    BY <1>3, <1>4 DEF Entries, Now
  <2> QED
    BY <1>1, <1>3, <2>1
<1>5. InPlace(Now)'
  BY <1>2, <1>4 DEF InPlace
<1> QED
  BY <1>1, <1>5 DEF SeenInv

LEMMA RestartKeeps == Restart => SeenInv'
<1> SUFFICES ASSUME Restart PROVE SeenInv'
  OBVIOUS
<1>1. pc' = "start" /\ todo' = AllSources
  BY DEF Restart
<1> QED
  BY <1>1 DEF SeenInv, ReadRight

LEMMA SeenStep == TypeOK /\ SeenInv /\ [Next]_vars => SeenInv'
<1> SUFFICES ASSUME TypeOK, SeenInv, [Next]_vars PROVE SeenInv'
  OBVIOUS
<1>1. ASSUME NEW f \in Files,
             Replaces(f) \/ Removes(f) \/ Truncates(f) \/ Finishes(f)
      PROVE  SeenInv'
  BY <1>1, EditsTakeNone, NoneTakenKeeps
<1>2. CASE Asks \/ Publishes \/ Fetches \/ DueComes \/ UNCHANGED vars
  BY <1>2, LeftTakesNone, NoneTakenKeeps
     DEF Asks, Publishes, Fetches, DueComes, vars, owner, daemon
<1> QED
  BY <1>1, <1>2, PollKeeps, LookKeeps, LookedKeeps, ReadKeeps, TakeInKeeps,
     RestartKeeps DEF Next, Step

(* Between two steps every source that the next look would pass over is in *)
(* place as it is, or none of them has an entry: a file is looked at       *)
(* before it is read, whoever writes in between (follow_files, build).     *)
THEOREM NothingEverMissed == Spec => []NothingMissed
<1>1. Init => SeenInv
  BY DEF Init, SeenInv, ReadRight
<1>2. SeenInv => NothingMissed
  BY DEF SeenInv, NothingMissed, Now
<1> QED
  BY <1>1, <1>2, SeenStep, TypeCorrect, PTL DEF Spec

-----------------------------------------------------------------------------
(* What of EndsInPlace and EndsFetched is safety: lists that are in place  *)
(* stay so while nobody writes.  That they come to be so is for TLC.       *)

There == {s \in AllSources : IsThere(s)}

(* No file and nothing at the URL changes, and the daemon is not started   *)
(* again; an update may be asked for at any time.                          *)
NobodyWrites == UNCHANGED <<text, time, server, restarts>>

(* No file has a time that was not taken in, no fetch brings anything new, *)
(* and nothing is being read.                                              *)
Settled ==
    /\ \A f \in Files : time[f] = taken[f]
    /\ task \in {Idle, Running, Failed, server}
    /\ IsList(server) => cached = server
    /\ pc = "idle" \/ (pc = "look" /\ ~changed)
    /\ InPlace(There)

(* What is read of the sources, and what is in place, stays as it is. *)
LEMMA PlaceKept ==
    ASSUME InPlace(There), UNCHANGED <<text, copy, cached, lists>>
    PROVE  InPlace(There)'
<1>1. There' = There /\ \A s : Reads(s)' = Reads(s)
  BY DEF There, IsThere, Reads
<1> QED
  BY <1>1 DEF InPlace

LEMMA SettledStep ==
    ASSUME TypeOK, Settled, [Next]_vars, NobodyWrites
    PROVE  Settled'
<1> USE DEF Settled
<1>1. CASE Poll
  <2>1. cached' = cached
    <3>1. cached' \in {cached, Fetched(task)} /\ (cached' # cached => Finished)
      BY <1>1 DEF Poll
    <3>2. Finished => task \in {Failed, server}
      BY DEF Finished
    <3>3. ~IsList(Failed)
      BY SourcesAssumption DEF IsList
    <3> QED
      BY <3>1, <3>2, <3>3 DEF Fetched
  <2>2. /\ pc' = "look" /\ changed' = (cached' # cached)
        /\ task' \in {task, Running, Idle}
        /\ UNCHANGED <<text, time, server, stamps, copy, lists>>
    BY <1>1 DEF Poll
  <2>3. InPlace(There)'
    BY <2>1, <2>2, PlaceKept
  <2> QED
    BY <2>1, <2>2, <2>3 DEF stamps
<1>2. ASSUME NEW f \in Files, Look(f) PROVE Settled'
  <2>1. /\ pc = "look" /\ pc' = pc
        /\ time[f] = taken[f]
        /\ UNCHANGED <<text, time, server, copy, cached, task, lists>>
    BY <1>2 DEF Look
  <2>2. UNCHANGED <<taken, changed>>
    BY <1>2, <2>1 DEF Look
  <2>3. InPlace(There)'
    BY <2>1, PlaceKept
  <2> QED
    BY <2>1, <2>2, <2>3
<1>3. CASE Looked
  <2>1. /\ pc' = "idle"
        /\ UNCHANGED <<owner, stamps, copy, cached, task, lists>>
    BY <1>3 DEF Looked
  <2>2. InPlace(There)'
    BY <2>1, PlaceKept DEF owner
  <2> QED
    BY <2>1, <2>2 DEF owner, stamps
<1>4. CASE Fetches
  <2>1. /\ task' \in {server, Failed}
        /\ UNCHANGED <<owner, stamps, copy, cached, pc, changed, lists>>
    BY <1>4 DEF Fetches
  <2>2. InPlace(There)'
    BY <2>1, PlaceKept DEF owner
  <2> QED
    BY <2>1, <2>2 DEF owner, stamps
<1>5. CASE DueComes \/ Asks \/ UNCHANGED vars
  <2>1. UNCHANGED <<text, time, server, stamps, copy, cached, task, pc,
                    changed, lists>>
    BY <1>5 DEF DueComes, Asks, vars, owner, daemon
  <2>2. InPlace(There)'
    BY <2>1, PlaceKept
  <2> QED
    BY <2>1, <2>2 DEF stamps
<1>6. ASSUME NEW f \in Files,
             Replaces(f) \/ Removes(f) \/ Truncates(f) \/ Finishes(f)
      PROVE  FALSE
  <2>1. UNCHANGED <<text, time>>
    BY DEF NobodyWrites
  <2>2. CASE Replaces(f) \/ Truncates(f) \/ Finishes(f)
    <3>1. PICK t : Puts(f, t)
      BY <1>6, <2>2 DEF Replaces, Truncates, Finishes
    <3>2. time'[f] = edits + 1
      BY <3>1 DEF Puts, TypeOK
    <3> QED
      BY <2>1, <3>2 DEF TypeOK
  <2>3. CASE Removes(f)
    <3>1. text[f] # Gone /\ text'[f] = Gone
      BY <2>3 DEF Removes, TypeOK
    <3> QED
      BY <2>1, <3>1
  <2> QED
    BY <1>6, <2>2, <2>3
<1>7. ~Publishes
  BY DEF Publishes, NobodyWrites
<1>8. ~Restart
  <2>1. restarts + 1 # restarts
    BY DEF TypeOK
  <2> QED
    BY <2>1 DEF Restart, NobodyWrites
<1>9. ~TakeIn /\ \A s \in AllSources : ~Read(s)
  BY DEF TakeIn, Read
<1> QED
  BY <1>1, <1>2, <1>3, <1>4, <1>5, <1>6, <1>7, <1>8, <1>9 DEF Next, Step

(* Lists that have settled stay in place for as long as nobody writes: no  *)
(* due time, update that is asked for or fetch that fails takes a source   *)
(* out, or puts what is at the URL out of its copy.                        *)
THEOREM InPlaceForGood ==
    Spec => [](Settled /\ [][NobodyWrites]_vars
                 => [](InPlace(There) /\ (IsList(server) => cached = server)))
<1>1. TypeOK /\ Settled /\ [Next]_vars /\ [NobodyWrites]_vars => Settled'
  <2>1. UNCHANGED vars => NobodyWrites
    BY DEF vars, owner, NobodyWrites
  <2> QED
    BY <2>1, SettledStep
<1>2. Settled => InPlace(There) /\ (IsList(server) => cached = server)
  BY DEF Settled
<1> QED
  BY <1>1, <1>2, TypeCorrect, PTL DEF Spec
=============================================================================
