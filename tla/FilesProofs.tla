----------------------------- MODULE FilesProofs -----------------------------
(***************************************************************************)
(* What holds of Files for any number of files, edits, moves, failures and *)
(* writes of another program: its types, that a document nothing is        *)
(* pending for is on disk as it is in the buffer, that a move keeps the    *)
(* text of every file and leaves nothing where it is refused, and that no  *)
(* write passes over a file the page has not looked at.  And of Acts, for  *)
(* any paths, folders, acts and sessions: that acts taken one at a time    *)
(* leave a tree that is the folder, and that an act changes nothing of     *)
(* another session.                                                        *)
(*                                                                         *)
(* The invariant of Files has one conjunct for each thing the code relies  *)
(* on. The steps are proved by what they have in common: those of the      *)
(* editor touch no file (EditorStep), those of a move no buffer            *)
(* (MoverStep), and the steps of a write are its own. Acts has its own     *)
(* invariant, in the second part. And of Walk, in the third: that what it  *)
(* lists of any folder is what a read of the same folder serves.           *)
(***************************************************************************)
EXTENDS Files, Acts, Walk, SequenceTheorems, FiniteSetTheorems, WellFoundedInduction, TLAPS

-----------------------------------------------------------------------------
(* The operators of Files: the least of the files, the paths, the fields.  *)

\* Min, of a set of numbers with something in it, is in it and no larger than any.
LEMMA MinIn ==
    ASSUME NEW S, S \subseteq Nat, S # {}
    PROVE  Min(S) \in S /\ \A m \in S : Min(S) <= m
<1> DEFINE R == OpToRel(<, Nat)
<1>1. \A y, x \in Nat : y < x => <<y, x>> \in R
  BY DEF OpToRel
<1>2. IsWellFoundedOn(R, Nat)
  BY NatLessThanWellFounded
<1> HIDE DEF R
<1>3. PICK x \in S : \A y \in S : ~ (<<y, x>> \in R)
  <2>1. \E x \in S : \A y \in S : ~ (<<y, x>> \in R)
    BY <1>2, WFMin
  <2> QED BY <2>1
<1>4. ASSUME NEW y \in S PROVE x <= y
  <2>1. x \in Nat /\ y \in Nat
    OBVIOUS
  <2>2. ~(y < x)
    BY <1>1, <1>3, <2>1, Zenon
  <2> QED BY <2>1, <2>2
<1> QED BY <1>4 DEF Min

\* A path is a name in one of the two folders.
LEMMA PathsAre ==
    /\ \A n \in Names, dir \in {From, To} :
          At(n, dir) \in Path /\ At(n, dir)[1] = dir /\ At(n, dir)[2] = n
    /\ \A p \in Path : p[1] \in {From, To} /\ p[2] \in Names /\ p = At(p[2], p[1])
    /\ \A dir \in {From, To} : Under(dir) \subseteq Path
    /\ \A dir \in {From, To}, n \in Names : At(n, dir) \in Under(dir)
    /\ \A dir \in {From, To} : \A p \in Under(dir) : p[1] = dir
    /\ \A n, m \in Names, d, e \in {From, To} : At(n, d) = At(m, e) => n = m /\ d = e
    /\ \A n \in Names : At(n, From) # NoJob.path
    /\ From # To
BY NamesAssumption DEF Path, At, Under, From, To, NoJob

\* The table has a row for every file and one for the move.
LEMMA NoJobIsAJob ==
    /\ NoJob \in Job /\ NoJob.pc = "none"
    /\ Names \subseteq Jobs /\ Mover \in Jobs /\ Mover \notin Names
BY NamesAssumption DEF NoJob, Job, Empty, Jobs, Mover

\* No move at all, whatever the last one came to, is a move.
LEMMA IdleIsAMove ==
    Idle \in Move /\ \A why \in Outcomes \cup Refusals : [Idle EXCEPT !.outcome = why] \in Move
<1>1. Idle \in Move
  <2>1. Empty \in Int /\ "none" \in Outcomes /\ "idle" \in MovePc
    BY DEF Empty, Outcomes, MovePc
  <2> QED BY <2>1 DEF Idle, Move
<1>2. ASSUME NEW why \in Outcomes \cup Refusals PROVE [Idle EXCEPT !.outcome = why] \in Move
  BY <1>1 DEF Move
<1> QED BY <1>1, <1>2

\* What a field of the folder is, and what may be put in it.
LEMMA Fields ==
    ASSUME NEW d \in Folder
    PROVE  /\ d.disk \in Disk /\ d.stamps \in Stamps /\ d.listed \subseteq Path
           /\ d.dirs \subseteq {From, To} /\ d.text \in Texts /\ d.models \subseteq Names
           /\ d.timers \subseteq Names /\ d.deadlines \subseteq Names
           /\ d.remote \subseteq Names /\ d.jobs \in Table /\ d.slot \in Slots
           /\ d.move \in Move
BY DEF Folder

LEMMA Puts ==
    ASSUME NEW d \in Folder
    PROVE  /\ \A x \in Disk : [d EXCEPT !.disk = x] \in Folder
           /\ \A x \in Stamps : [d EXCEPT !.stamps = x] \in Folder
           /\ \A x \in SUBSET Path : [d EXCEPT !.listed = x] \in Folder
           /\ \A x \in SUBSET {From, To} : [d EXCEPT !.dirs = x] \in Folder
           /\ \A x \in Texts : [d EXCEPT !.text = x] \in Folder
           /\ \A x \in SUBSET Names : [d EXCEPT !.models = x] \in Folder
           /\ \A x \in SUBSET Names : [d EXCEPT !.timers = x] \in Folder
           /\ \A x \in SUBSET Names : [d EXCEPT !.deadlines = x] \in Folder
           /\ \A x \in SUBSET Names : [d EXCEPT !.remote = x] \in Folder
           /\ \A x \in Table : [d EXCEPT !.jobs = x] \in Folder
           /\ \A x \in Slots : [d EXCEPT !.slot = x] \in Folder
           /\ \A x \in Move : [d EXCEPT !.move = x] \in Folder
BY DEF Folder

\* The saves make a folder of a folder.
LEMMA FailedType ==
    ASSUME NEW d \in Folder, NEW n \in Names
    PROVE  Failed(d, n) \in Folder
<1> DEFINE e == [d EXCEPT !.jobs[n] = NoJob, !.remote = @ \cup {n}]
           i == [Idle EXCEPT !.outcome = "unwritten"]
<1>1. [d.jobs EXCEPT ![n] = NoJob] \in Table /\ d.remote \cup {n} \in SUBSET Names
  BY Fields, NoJobIsAJob DEF Table
<1>2. e \in Folder
  BY <1>1 DEF Folder
<1>3. i \in Move
  BY IdleIsAMove DEF Outcomes
<1> HIDE DEF e, i
<1>4. [e EXCEPT !.move = i] \in Folder
  BY <1>2, <1>3, Puts
<1> QED BY <1>2, <1>4 DEF Failed, e, i

LEMMA StartedType ==
    ASSUME NEW d \in Folder, NEW w \in Jobs, NEW p \in Path, NEW txt \in Int
    PROVE  Started(d, w, p, txt) \in Folder
<1>1. [d.jobs EXCEPT ![w] = [pc |-> "check", path |-> p, text |-> txt, seen |-> d.stamps[p]]] \in Table
  BY Fields DEF Table, Stamps, Job
<1> QED BY <1>1, Puts DEF Started

LEMMA PassType ==
    ASSUME NEW d \in Folder, NEW n \in Names, NEW txt \in Int
    PROVE  Pass(d, n, txt) \in Folder
BY FailedType, StartedType, PathsAre, NoJobIsAJob DEF Pass

LEMMA SaveType ==
    ASSUME NEW d \in Folder, NEW n \in Names
    PROVE  Save(d, n) \in Folder
<1> DEFINE e == [d EXCEPT !.remote = @ \ {n}]
           g == [e EXCEPT !.slot[n] = [text |-> d.text[n], again |-> FALSE]]
<1>1. e \in Folder /\ e.text = d.text
  BY Fields, Puts DEF Folder
<1> HIDE DEF e
<1>2. [e.slot EXCEPT ![n] = [text |-> e.text[n], again |-> TRUE]] \in Slots
  BY <1>1, Fields DEF Slots, Slot, Texts
<1>3. Joins(e, n) \in Folder
  BY <1>1, <1>2, Puts DEF Joins
<1>4. /\ [e.slot EXCEPT ![n] = [text |-> d.text[n], again |-> FALSE]] \in Slots
      /\ d.text[n] \in Int
  BY <1>1, Fields DEF Slots, Slot, Texts
<1>5. g \in Folder
  BY <1>1, <1>4, Puts
<1> HIDE DEF g
<1>6. Pass(g, n, d.text[n]) \in Folder
  BY <1>4, <1>5, PassType
<1> QED BY <1>1, <1>3, <1>6, Zenon DEF Save, e, g

LEMMA WrittenType ==
    ASSUME NEW d \in Folder, NEW n \in Names
    PROVE  PassWritten(d, n) \in Folder
<1> DEFINE g == [d EXCEPT !.slot[n].again = FALSE]
           j == [d EXCEPT !.jobs[n] = NoJob]
<1>1. [d.slot EXCEPT ![n].again = FALSE] \in Slots
  BY Fields DEF Slots, Slot
<1>2. g \in Folder
  BY <1>1, Puts
<1>3. Current(d, n) \in Int
  BY Fields DEF Current, Texts, Slots, Slot
<1>4. [d.jobs EXCEPT ![n] = NoJob] \in Table
  BY Fields, NoJobIsAJob DEF Table
<1>5. j \in Folder
  BY <1>4, Puts
<1> HIDE DEF g, j
<1>6. [j.move EXCEPT !.awaits = @ /\ j.move.at # n] \in Move
  BY <1>5, Fields DEF Move
<1>7. Woken(j, n) \in Folder
  BY <1>5, <1>6, Puts DEF Woken
<1> QED BY <1>2, <1>3, <1>7, PassType DEF PassWritten, Finished, g, j

-----------------------------------------------------------------------------
(* What a save changes: the write, the slot and the debt of its document,  *)
(* and the move that waits for it.                                         *)

\* The move is told of the end of the write it waits for, if of anything.
MoveApart(a, b) ==
    \/ b = a
    \/ a.awaits /\ (b = [Idle EXCEPT !.outcome = "unwritten"] \/ b = [a EXCEPT !.awaits = FALSE])

\* A save of n leaves the disk, the buffers and every other document alone.
Apart(d, e, n) ==
    /\ e.disk = d.disk /\ e.stamps = d.stamps /\ e.listed = d.listed /\ e.dirs = d.dirs
    /\ e.text = d.text /\ e.models = d.models /\ e.timers = d.timers /\ e.deadlines = d.deadlines
    /\ \A w \in Jobs \ {n} : e.jobs[w] = d.jobs[w]
    /\ \A m \in Names \ {n} : e.slot[m] = d.slot[m] /\ (m \in e.remote <=> m \in d.remote)
    /\ MoveApart(d.move, e.move)

\* A pass begins with the stamp the page has, or leaves a debt.
Begun(d, e, n, txt) ==
    e.jobs[n] = [pc |-> "check", path |-> At(n, From), text |-> txt, seen |-> d.stamps[At(n, From)]]
Owed(e, n) == e.jobs[n] = NoJob /\ n \in e.remote

\* A save joins the write under way, or begins one of its own with the text of the buffer.
SavedAs(d, e, n) ==
    IF Writing(d, n)
    THEN e.jobs[n] = d.jobs[n] /\ e.slot[n] = [text |-> d.text[n], again |-> TRUE]
    ELSE /\ e.slot[n] = [text |-> d.text[n], again |-> FALSE]
         /\ Begun(d, e, n, d.text[n]) \/ Owed(e, n)

\* What each of the saves makes of its document.
LEMMA FailedEffect ==
    ASSUME NEW d \in Folder, NEW n \in Names
    PROVE  Apart(d, Failed(d, n), n) /\ Failed(d, n).slot = d.slot /\ Owed(Failed(d, n), n)
<1> DEFINE e == [d EXCEPT !.jobs[n] = NoJob, !.remote = @ \cup {n}]
           i == [Idle EXCEPT !.outcome = "unwritten"]
<1>1. d.jobs \in [Jobs -> Job] /\ n \in Jobs
  BY Fields, NoJobIsAJob DEF Table
<1>2. /\ e.disk = d.disk /\ e.stamps = d.stamps /\ e.listed = d.listed /\ e.dirs = d.dirs
      /\ e.text = d.text /\ e.models = d.models /\ e.timers = d.timers /\ e.deadlines = d.deadlines
      /\ e.slot = d.slot /\ e.move = d.move /\ e.remote = d.remote \cup {n}
      /\ e.jobs = [d.jobs EXCEPT ![n] = NoJob]
  BY DEF Folder
<1>3. e \in Folder
  <2>1. [d.jobs EXCEPT ![n] = NoJob] \in Table /\ d.remote \cup {n} \in SUBSET Names
    BY Fields, NoJobIsAJob DEF Table
  <2> QED BY <2>1 DEF Folder
<1>4. Failed(d, n) = IF d.move.awaits /\ d.move.at = n THEN [e EXCEPT !.move = i] ELSE e
  BY DEF Failed
<1> HIDE DEF e, i
<1>5. LET g == [e EXCEPT !.move = i]
      IN  /\ g.disk = e.disk /\ g.stamps = e.stamps /\ g.listed = e.listed /\ g.dirs = e.dirs
          /\ g.text = e.text /\ g.models = e.models /\ g.timers = e.timers
          /\ g.deadlines = e.deadlines /\ g.slot = e.slot /\ g.remote = e.remote
          /\ g.jobs = e.jobs /\ g.move = i
  BY <1>3 DEF Folder
<1>6. CASE d.move.awaits /\ d.move.at = n
  BY <1>1, <1>2, <1>4, <1>5, <1>6 DEF Apart, MoveApart, Owed, i
<1>7. CASE ~(d.move.awaits /\ d.move.at = n)
  BY <1>1, <1>2, <1>4, <1>7 DEF Apart, MoveApart, Owed
<1> QED BY <1>6, <1>7

LEMMA StartedEffect ==
    ASSUME NEW d \in Folder, NEW w \in Jobs, NEW p \in Path, NEW txt \in Int
    PROVE  LET e == Started(d, w, p, txt)
           IN  /\ \A x \in {"disk", "stamps", "listed", "dirs", "text", "models", "timers",
                             "deadlines", "remote", "slot", "move"} : e[x] = d[x]
               /\ e.jobs[w] = [pc |-> "check", path |-> p, text |-> txt, seen |-> d.stamps[p]]
               /\ \A v \in Jobs \ {w} : e.jobs[v] = d.jobs[v]
<1>1. d.jobs \in [Jobs -> Job]
  BY Fields DEF Table
<1> QED BY <1>1 DEF Started, Folder

LEMMA PassEffect ==
    ASSUME NEW d \in Folder, NEW n \in Names, NEW txt \in Int
    PROVE  /\ Apart(d, Pass(d, n, txt), n) /\ Pass(d, n, txt).slot = d.slot
           /\ Begun(d, Pass(d, n, txt), n, txt) \/ Owed(Pass(d, n, txt), n)
           /\ Pass(d, n, txt).remote = d.remote \/ Owed(Pass(d, n, txt), n)
<1>1. CASE d.stamps[At(n, From)] = 0
  BY <1>1, FailedEffect DEF Pass
<1>2. CASE d.stamps[At(n, From)] # 0
  <2>1. n \in Jobs /\ At(n, From) \in Path
    BY PathsAre, NoJobIsAJob
  <2>2. Pass(d, n, txt) = Started(d, n, At(n, From), txt)
    BY <1>2 DEF Pass
  <2> QED BY <2>1, <2>2, StartedEffect DEF Apart, MoveApart, Begun
<1> QED BY <1>1, <1>2

LEMMA SaveEffect ==
    ASSUME NEW d \in Folder, NEW n \in Names
    PROVE  /\ Apart(d, Save(d, n), n)
           /\ n \in d.models => SavedAs(d, Save(d, n), n)
           /\ n \notin d.models => Save(d, n).jobs = d.jobs /\ Save(d, n).slot = d.slot
                                   /\ Save(d, n).move = d.move
<1> DEFINE e == [d EXCEPT !.remote = @ \ {n}]
           txt == d.text[n]
           g == [e EXCEPT !.slot[n] = [text |-> txt, again |-> FALSE]]
<1>1. /\ e \in Folder /\ Apart(d, e, n) /\ e.jobs = d.jobs /\ e.slot = d.slot /\ e.text = d.text
      /\ e.models = d.models /\ e.move = d.move /\ e.stamps = d.stamps
  <2>1. d.remote \ {n} \in SUBSET Names
    BY Fields
  <2>2. e \in Folder
    BY <2>1, Puts
  <2>3. \A x \in {"disk", "stamps", "listed", "dirs", "text", "models", "timers", "deadlines",
                  "jobs", "slot", "move"} : e[x] = d[x]
    BY DEF Folder
  <2>4. e.remote = d.remote \ {n}
    BY DEF Folder
  <2> HIDE DEF e
  <2> QED BY <2>2, <2>3, <2>4 DEF Apart, MoveApart
<1>2. txt \in Int
  BY Fields DEF Texts
<1>3. Save(d, n) = IF n \notin d.models THEN e ELSE IF Writing(d, n) THEN Joins(e, n) ELSE Pass(g, n, txt)
  BY <1>1 DEF Save, Writing
<1>4. d.slot \in [Names -> Slot] /\ [text |-> txt, again |-> FALSE] \in Slot /\ [text |-> txt, again |-> TRUE] \in Slot
  BY Fields DEF Slots, Slot, Texts
<1> HIDE DEF e, txt
<1>5. /\ g \in Folder /\ Apart(e, g, n) /\ g.jobs = e.jobs /\ g.stamps = e.stamps
      /\ g.slot[n] = [text |-> txt, again |-> FALSE] /\ g.move = e.move
  <2>1. [e.slot EXCEPT ![n] = [text |-> txt, again |-> FALSE]] \in Slots
    BY <1>1, <1>4 DEF Slots
  <2>2. g \in Folder
    BY <1>1, <2>1, Puts
  <2> QED BY <1>1, <1>4, <2>2 DEF Folder, Apart, MoveApart
<1>6. CASE n \notin d.models
  BY <1>1, <1>3, <1>6
<1>7. CASE n \in d.models /\ Writing(d, n)
  <2>1. Apart(e, Joins(e, n), n) /\ Joins(e, n).jobs = e.jobs /\ Joins(e, n).slot[n] = [text |-> e.text[n], again |-> TRUE]
    BY <1>1, <1>4 DEF Joins, Folder, Apart, MoveApart
  <2>2. e.text[n] = txt
    BY <1>1 DEF txt
  <2> QED BY <1>1, <1>3, <1>7, <2>1, <2>2 DEF Apart, MoveApart, SavedAs, txt
<1>8. CASE n \in d.models /\ ~Writing(d, n)
  <2>1. /\ Apart(g, Pass(g, n, txt), n) /\ Pass(g, n, txt).slot = g.slot
        /\ Begun(g, Pass(g, n, txt), n, txt) \/ Owed(Pass(g, n, txt), n)
    BY <1>2, <1>5, PassEffect
  <2> HIDE DEF g
  <2>2. Apart(d, Pass(g, n, txt), n)
    BY <1>1, <1>5, <2>1 DEF Apart, MoveApart
  <2>3. SavedAs(d, Pass(g, n, txt), n)
    BY <1>1, <1>5, <1>8, <2>1 DEF SavedAs, Begun, Owed, txt
  <2> QED BY <1>3, <1>8, <2>2, <2>3
<1> QED BY <1>6, <1>7, <1>8

LEMMA WrittenEffect ==
    ASSUME NEW d \in Folder, NEW n \in Names
    PROVE  LET e == PassWritten(d, n)
           IN  /\ Apart(d, e, n) /\ e.slot[n].text = d.slot[n].text
               /\ IF d.slot[n].again /\ Current(d, n) # d.jobs[n].text
                  THEN /\ ~e.slot[n].again /\ (Begun(d, e, n, Current(d, n)) \/ Owed(e, n))
                       /\ e.remote = d.remote \/ Owed(e, n)
                  ELSE e.slot = d.slot /\ e.jobs[n] = NoJob /\ e.remote = d.remote
<1> DEFINE g == [d EXCEPT !.slot[n].again = FALSE]
           j == [d EXCEPT !.jobs[n] = NoJob]
           txt == Current(d, n)
<1>1. d.slot \in [Names -> Slot] /\ d.jobs \in [Jobs -> Job] /\ n \in Jobs /\ txt \in Int
  BY Fields, NoJobIsAJob DEF Slots, Slot, Table, Current, Texts
<1>2. g \in Folder /\ j \in Folder
  <2>1. [d.slot EXCEPT ![n].again = FALSE] \in Slots /\ [d.jobs EXCEPT ![n] = NoJob] \in Table
    BY <1>1, NoJobIsAJob DEF Slots, Slot, Table
  <2> QED BY <2>1, Puts
<1>3. /\ \A x \in {"disk", "stamps", "listed", "dirs", "text", "models", "timers", "deadlines",
                   "jobs", "remote", "move"} : g[x] = d[x]
      /\ \A x \in {"disk", "stamps", "listed", "dirs", "text", "models", "timers", "deadlines",
                   "slot", "remote", "move"} : j[x] = d[x]
  BY DEF Folder
<1>4. /\ ~g.slot[n].again /\ g.slot[n].text = d.slot[n].text
      /\ \A m \in Names \ {n} : g.slot[m] = d.slot[m]
      /\ j.jobs[n] = NoJob /\ \A w \in Jobs \ {n} : j.jobs[w] = d.jobs[w]
  BY <1>1 DEF Folder, Slot
<1>5. PassWritten(d, n) = IF d.slot[n].again /\ txt # d.jobs[n].text THEN Pass(g, n, txt) ELSE Woken(j, n)
  BY DEF PassWritten, Finished
<1> HIDE DEF g, j, txt
<1>6. CASE d.slot[n].again /\ txt # d.jobs[n].text
  <2>1. /\ Apart(g, Pass(g, n, txt), n) /\ Pass(g, n, txt).slot = g.slot
        /\ Begun(g, Pass(g, n, txt), n, txt) \/ Owed(Pass(g, n, txt), n)
        /\ Pass(g, n, txt).remote = g.remote \/ Owed(Pass(g, n, txt), n)
    BY <1>1, <1>2, PassEffect
  <2>2. Apart(d, Pass(g, n, txt), n)
    BY <1>3, <1>4, <2>1 DEF Apart
  <2> QED BY <1>3, <1>4, <1>5, <1>6, <2>1, <2>2 DEF Begun, txt
<1>7. CASE ~(d.slot[n].again /\ txt # d.jobs[n].text)
  <2> DEFINE e == Woken(j, n)
  <2>1. /\ \A x \in {"disk", "stamps", "listed", "dirs", "text", "models", "timers", "deadlines",
                     "jobs", "slot", "remote"} : e[x] = j[x]
        /\ e.move = [j.move EXCEPT !.awaits = @ /\ j.move.at # n]
    BY <1>2 DEF Woken, Folder
  <2>2. j.move \in Move
    BY <1>2, Fields
  <2>3. MoveApart(j.move, e.move)
    <3>1. CASE j.move.awaits /\ j.move.at = n
      BY <2>1, <3>1, <2>2 DEF MoveApart, Move
    <3>2. CASE ~(j.move.awaits /\ j.move.at = n)
      BY <2>1, <3>2, <2>2 DEF MoveApart, Move
    <3> QED BY <3>1, <3>2
  <2> HIDE DEF e
  <2>4. Apart(d, e, n)
    BY <1>3, <1>4, <2>1, <2>3 DEF Apart
  <2>5. e.slot = d.slot /\ e.jobs[n] = NoJob /\ e.remote = d.remote
    BY <1>3, <1>4, <2>1
  <2> QED BY <1>5, <1>7, <2>4, <2>5 DEF e, txt
<1> QED BY <1>6, <1>7

\* The flush saves each document that has anything pending, and no other.
LEMMA FlushedEffect ==
    ASSUME NEW d \in Folder
    PROVE  LET e == Flushed(d)
           IN  /\ e \in Folder
               /\ e.disk = d.disk /\ e.stamps = d.stamps /\ e.listed = d.listed
               /\ e.dirs = d.dirs /\ e.text = d.text
               /\ e.jobs[Mover] = d.jobs[Mover]
               /\ MoveApart(d.move, e.move)
               /\ \A n \in Names :
                     IF Pending(d, n) /\ n \in d.models
                     THEN SavedAs(d, e, n)
                     ELSE e.jobs[n] = d.jobs[n] /\ e.slot[n] = d.slot[n]
<1> DEFINE due == {n \in Names : Pending(d, n)}
           saved == [n \in Names |-> Save(d, n)]
           jobs == [w \in Jobs |-> IF w \in due THEN saved[w].jobs[w] ELSE d.jobs[w]]
           slot == [n \in Names |-> IF n \in due THEN saved[n].slot[n] ELSE d.slot[n]]
           remote == {n \in due : n \in saved[n].remote}
           move == IF d.move.awaits /\ d.move.at \in due THEN saved[d.move.at].move ELSE d.move
           e == [d EXCEPT !.jobs = jobs, !.slot = slot, !.remote = remote, !.move = move]
<1>1. Flushed(d) = e
  BY DEF Flushed
<1>2. \A n \in Names : saved[n] = Save(d, n) /\ Save(d, n) \in Folder
  BY SaveType
<1>3. due \subseteq Names /\ Names \subseteq Jobs /\ Mover \in Jobs /\ Mover \notin due
  BY NoJobIsAJob
<1> HIDE DEF saved
<1>4. jobs \in Table /\ slot \in Slots /\ remote \in SUBSET Names
  BY <1>2, <1>3, Fields DEF Table, Slots
<1>5. move \in Move /\ MoveApart(d.move, move)
  BY <1>2, <1>3, Fields, SaveEffect DEF Apart, MoveApart
<1>6. jobs[Mover] = d.jobs[Mover]
  BY <1>3
<1>7. ASSUME NEW n \in Names
      PROVE  /\ jobs[n] = IF n \in due THEN Save(d, n).jobs[n] ELSE d.jobs[n]
             /\ slot[n] = IF n \in due THEN Save(d, n).slot[n] ELSE d.slot[n]
             /\ n \in remote <=> n \in due /\ n \in Save(d, n).remote
             /\ n \in due <=> Pending(d, n)
  BY <1>2, <1>3
<1> HIDE DEF jobs, slot, remote, move, due
<1>8. /\ e \in Folder
      /\ \A x \in {"disk", "stamps", "listed", "dirs", "text"} : e[x] = d[x]
      /\ e.jobs = jobs /\ e.slot = slot /\ e.remote = remote /\ e.move = move
  BY <1>4, <1>5 DEF Folder
<1> HIDE DEF e
<1>9. ASSUME NEW n \in Names
      PROVE  IF Pending(d, n) /\ n \in d.models THEN SavedAs(d, e, n)
             ELSE e.jobs[n] = d.jobs[n] /\ e.slot[n] = d.slot[n]
  BY <1>7, <1>8, SaveEffect DEF SavedAs, Begun, Owed
<1> QED BY <1>1, <1>5, <1>6, <1>8, <1>9

-----------------------------------------------------------------------------
(* The invariant.                                                          *)

\* The stages at which a folder's move is at one of its files; the names no other program has
\* touched; and a file that holds what a move must keep, at its old name or its new one.
Stages == {"read", "probe", "make", "write", "undo", "drop", "abandon"}
Honest     == Names \ theirs
There(n, dir) == f.disk[At(n, dir)].there
InFrom(n)  == There(n, From)
InTo(n)    == There(n, To) /\ f.disk[At(n, To)].text >= floor[n]

\* A write of a document is to its old name, and the write of the move to the new name of the
\* file it is at, with the text it read.
JobsInPlace ==
    \A w \in Jobs : f.jobs[w] # NoJob =>
        /\ f.jobs[w].pc # "none"
        /\ w \in Names => f.jobs[w].path = At(w, From) /\ f.jobs[w].text \in Nat
        /\ w = Mover => /\ f.move.pc = "write" /\ f.jobs[w].path = At(Now, To)
                        /\ f.jobs[w].text = f.move.text

\* A stamp the page has is no later than the file's, and earlier where another program wrote
\* since: so a write that took its stamp before can not pass its guard.
Looks ==
    /\ \A p \in Path : /\ f.stamps[p] <= f.disk[p].stamp
                       /\ p \in unlooked => f.stamps[p] < f.disk[p].stamp
    /\ \A w \in Jobs : f.jobs[w] # NoJob =>
          /\ f.jobs[w].seen <= f.disk[f.jobs[w].path].stamp
          /\ f.jobs[w].path \in unlooked /\ f.jobs[w].pc = "check" =>
                f.jobs[w].seen < f.disk[f.jobs[w].path].stamp

\* What each stage of a move has yet to do; a file is in a folder that is there; and nothing is
\* armed, and no model is left, once the binding is disposed.
Shape ==
    /\ f.move.awaits => f.move.pc = "settle"
    /\ f.move.pc # "idle" => f.move.kind \in {"file", "folder"}
    /\ f.move.pc \in {"survey", "mkdir", "abandon"} => f.move.kind = "folder"
    /\ f.move.pc \in {"settle", "survey", "mkdir", "abandon"} => f.move.moved = {}
    /\ f.move.pc \in {"settle", "probe", "make", "write", "undo", "drop"} => f.move.left # {}
    /\ f.move.pc = "read" /\ f.move.kind = "file" => f.move.left # {}
    /\ f.move.pc = "publish" => f.move.outcome \in {"moved", "partial"}
    /\ f.move.pc = "make" => To \in f.dirs
    /\ \A p \in Path : f.disk[p].there => p[1] \in f.dirs
    /\ disposed => f.timers = {} /\ f.deadlines = {} /\ f.models = {}

\* What the page lists is what is there, and a document's text is in the file, or in the write
\* under way, or in the pass asked for after it, unless a timer or a debt is armed for it.
Saved ==
    \A n \in Honest :
       /\ There(n, From) <=> At(n, From) \in f.listed
       /\ There(n, From) =>
            /\ n \in f.models \/ disposed
            /\ f.jobs[n].pc = "restamp" => f.disk[At(n, From)].text = f.jobs[n].text
            /\ n \notin f.timers \cup f.remote =>
                 IF Writing(f, n)
                 THEN IF f.slot[n].again THEN f.slot[n].text = f.text[n]
                      ELSE f.jobs[n].text = f.text[n]
                 ELSE f.disk[At(n, From)].text = f.text[n]

\* No buffer, write or file has less than the move began with, and a move that settles has
\* every file it is to move still under its old name.
Floors ==
    /\ \A n \in Names : /\ f.text[n] >= floor[n]
                        /\ Writing(f, n) => /\ f.jobs[n].text >= floor[n]
                                            /\ f.slot[n].again => f.slot[n].text >= floor[n]
    /\ \A n \in Honest : There(n, From) => f.disk[At(n, From)].text >= floor[n]
    /\ f.move.pc = "settle" => /\ f.move.live \subseteq f.move.left
                               /\ ~disposed => f.move.live \subseteq f.models
                               /\ \A n \in f.move.left \ theirs : There(n, From)

\* Where the text of a file is at each stage of a move: under the old name until the new one is
\* written and read back, under the new name from there on.
Steps ==
    \A n \in Honest : floor[n] >= 0 =>
       /\ InFrom(n) \/ InTo(n)
       /\ f.move.kind = "folder" /\ f.move.pc \in Stages =>
            IF n \in f.move.left THEN InFrom(n) ELSE n \in f.move.moved /\ InTo(n)
       /\ f.move.pc \in {"probe", "make", "write", "undo"} /\ n = Now => InFrom(n)
       /\ f.move.pc \in {"probe", "make", "write"} /\ n = Now => f.move.text >= floor[n]
       /\ f.move.pc = "make" /\ n = Now => ~There(n, To)
       /\ f.move.pc = "drop" /\ n = Now => InTo(n)
       /\ f.move.pc = "write" /\ n = Now /\ f.jobs[Mover].pc = "restamp" => InTo(n)

\* Until a move has put a first file in place, what is in the new folder was there when it was
\* asked for, but for the file it is writing.
Nothing ==
    permitted =>
       /\ \/ f.move.pc \in {"settle", "survey", "mkdir"}
          \/ f.move.kind = "file" /\ f.move.pc \in {"read", "probe", "make", "write", "undo"}
          =>
            /\ To \in f.dirs => stood.dir
            /\ \A n \in Honest : There(n, To) =>
                 n \in stood.names \/ (f.move.pc \in {"write", "undo"} /\ n = Now)
       /\ LeavesNothing
Inv == TypeOK /\ JobsInPlace /\ Looks /\ Shape /\ Saved /\ Floors /\ Steps /\ Nothing

\* The file a move is at is one of those it has left.
LEMMA NowIsLeft == TypeOK /\ f.move.left # {} => Now \in f.move.left /\ Now \in Names
<1> SUFFICES ASSUME TypeOK, f.move.left # {} PROVE Now \in f.move.left /\ Now \in Names
  OBVIOUS
<1>1. f.move.left \subseteq Names
  BY Fields DEF TypeOK, Move
<1> QED BY <1>1, MinIn, NamesAssumption DEF Now

-----------------------------------------------------------------------------
(* Steps of the editor: they touch no file and no stamp.                   *)

\* What such a step makes of a document: nothing but an armed timer, an edit, a save, nothing
\* at all where its model is gone, or a debt.
DocStep(d, e, m) ==
    \/ /\ e.jobs[m] = d.jobs[m] /\ e.slot[m] = d.slot[m]
       /\ \/ e.text[m] = d.text[m] /\ (m \in d.timers \cup d.remote => m \in e.timers \cup e.remote)
          \/ e.text[m] = d.text[m] + 1 /\ m \in e.timers \cup e.remote
    \/ m \in d.models /\ e.text[m] = d.text[m] /\ SavedAs(d, e, m)
    \/ /\ m \notin d.models /\ ~disposed
       /\ e.jobs[m] = d.jobs[m] /\ e.slot[m] = d.slot[m] /\ e.text[m] = d.text[m]
    \/ Owed(e, m) /\ e.slot[m] = d.slot[m] /\ e.text[m] = d.text[m]

\* A move that settles goes on, or ends; any other is left as it is.
MoveWaits(a, b) ==
    \/ b = a
    \/ a.pc = "settle" /\ b.awaits = FALSE /\ b.pc = "idle" /\ b.outcome \in {"unwritten", "ended"}
    \/ /\ a.pc = "settle" /\ b.pc = "settle" /\ b.kind = a.kind /\ b.live = a.live
       /\ b.left = a.left /\ b.moved = a.moved /\ b.outcome = a.outcome

\* The files, the listing and the move's own write stay.
QuietStep ==
    /\ f' \in Folder /\ f'.disk = f.disk /\ f'.listed = f.listed /\ f'.dirs = f.dirs
    /\ f'.jobs[Mover] = f.jobs[Mover]
    /\ MoveWaits(f.move, f'.move)
    /\ \/ disposed' /\ f'.models = {} /\ f'.timers = {} /\ f'.deadlines = {}
       \/ /\ disposed' = disposed /\ f'.models = f.models
          /\ disposed => f'.timers = {} /\ f'.deadlines = {}
    /\ disposed \in BOOLEAN /\ disposed' \in BOOLEAN
    /\ UNCHANGED <<permitted, theirs, floor, stood>>

\* A step of the editor: the stamps stay too.
EditorStep ==
    /\ QuietStep /\ f'.stamps = f.stamps /\ UNCHANGED unlooked
    /\ \A m \in Names : DocStep(f, f', m)

\* The actions of the editor are such steps.
LEMMA TypeStep ==
    ASSUME Inv, NEW n \in Names, Type(n)
    PROVE  EditorStep
<1>1. f \in Folder /\ f.text \in [Names -> Nat] /\ disposed \in BOOLEAN
  BY Fields DEF Inv, TypeOK, Texts
<1>2. /\ [f.text EXCEPT ![n] = @ + 1] \in Texts /\ f.timers \cup {n} \in SUBSET Names
  BY <1>1, Fields DEF Texts
<1>3. f' \in Folder
  BY <1>1, <1>2 DEF Type, Folder
<1>4. /\ \A x \in {"disk", "stamps", "listed", "dirs", "models", "deadlines", "jobs", "remote",
                   "slot", "move"} : f'[x] = f[x]
      /\ f'.text = [f.text EXCEPT ![n] = @ + 1] /\ f'.timers = f.timers \cup {n}
  BY <1>1 DEF Type, Folder
<1>5. ~disposed /\ UNCHANGED <<permitted, disposed, unlooked, theirs, floor, stood>>
  BY DEF Type, ghosts
<1>6. ASSUME NEW m \in Names PROVE DocStep(f, f', m)
  BY <1>1, <1>4 DEF DocStep
<1> QED BY <1>1, <1>3, <1>4, <1>5, <1>6 DEF EditorStep, QuietStep, MoveWaits

LEMMA ApplyChangeStep ==
    ASSUME Inv, NEW n \in Names, ApplyChange(n)
    PROVE  EditorStep
<1>1. f \in Folder /\ f.text \in [Names -> Nat] /\ disposed \in BOOLEAN
  BY Fields DEF Inv, TypeOK, Texts
<1>2. /\ [f.text EXCEPT ![n] = @ + 1] \in Texts /\ f.remote \cup {n} \in SUBSET Names
      /\ f.deadlines \cup {n} \in SUBSET Names
  BY <1>1, Fields DEF Texts
<1>3. f' \in Folder
  BY <1>1, <1>2 DEF ApplyChange, Folder
<1>4. /\ \A x \in {"disk", "stamps", "listed", "dirs", "models", "timers", "jobs", "slot", "move"} : f'[x] = f[x]
      /\ f'.text = [f.text EXCEPT ![n] = @ + 1] /\ f'.remote = f.remote \cup {n}
  BY <1>1 DEF ApplyChange, Folder
<1>5. ~disposed /\ UNCHANGED <<permitted, disposed, unlooked, theirs, floor, stood>>
  BY DEF ApplyChange, ghosts
<1>6. ASSUME NEW m \in Names PROVE DocStep(f, f', m)
  BY <1>1, <1>4 DEF DocStep
<1> QED BY <1>1, <1>3, <1>4, <1>5, <1>6 DEF EditorStep, QuietStep, MoveWaits

\* A save tells a move only while it settles.
LEMMA Waits ==
    ASSUME Inv, NEW b, MoveApart(f.move, b)
    PROVE  MoveWaits(f.move, b)
<1>1. f.move \in Move /\ (f.move.awaits => f.move.pc = "settle")
  BY Fields DEF Inv, TypeOK, Shape
<1> QED BY <1>1 DEF MoveApart, MoveWaits, Move, Idle

\* A save of n, of a folder d that differs from f in what arms it.
LEMMA SaveStep ==
    ASSUME Inv, ~disposed, NEW n \in Names, NEW d \in Folder,
           \A x \in {"disk", "stamps", "listed", "dirs", "text", "models", "remote", "jobs", "slot"} : d[x] = f[x],
           f.timers \ {n} \subseteq d.timers, f' = Save(d, n),
           MoveWaits(f.move, Save(d, n).move),
           UNCHANGED <<permitted, disposed, unlooked, theirs, floor, stood>>
    PROVE  EditorStep
<1>1. f' \in Folder /\ Apart(d, f', n)
  BY SaveType, SaveEffect
<1>2. Mover \in Jobs \ {n} /\ \A m \in Names \ {n} : m \in Jobs \ {n}
  BY NoJobIsAJob
<1>3. ASSUME NEW m \in Names \ {n} PROVE DocStep(f, f', m)
  BY <1>1, <1>2 DEF Apart, DocStep
<1>4. DocStep(f, f', n)
  <2>1. CASE n \in f.models
    BY <1>1, <2>1, SaveEffect DEF Apart, DocStep, SavedAs, Writing, Begun, Owed
  <2>2. CASE n \notin f.models
    BY <1>1, <2>2, SaveEffect DEF Apart, DocStep
  <2> QED BY <2>1, <2>2
<1>5. disposed \in BOOLEAN
  BY DEF Inv, TypeOK
<1> QED BY <1>1, <1>2, <1>3, <1>4, <1>5 DEF EditorStep, QuietStep, Apart

LEMMA WriteTimerStep ==
    ASSUME Inv, NEW n \in Names, WriteTimer(n)
    PROVE  EditorStep
<1> DEFINE d == [f EXCEPT !.timers = @ \ {n}]
<1>1. f \in Folder /\ f.timers \ {n} \in SUBSET Names
  BY Fields DEF Inv, TypeOK
<1>2. d \in Folder
  BY <1>1, Puts
<1>3. /\ \A x \in {"disk", "stamps", "listed", "dirs", "text", "models", "remote", "jobs", "slot", "move"} : d[x] = f[x]
      /\ d.timers = f.timers \ {n}
  BY <1>1 DEF Folder
<1>4. f' = Save(d, n) /\ UNCHANGED <<permitted, disposed, unlooked, theirs, floor, stood>> /\ ~disposed
  BY DEF WriteTimer, ghosts, Inv, Shape
<1> HIDE DEF d
<1>5. MoveApart(f.move, Save(d, n).move)
  BY <1>2, <1>3, SaveEffect DEF Apart
<1> QED BY <1>2, <1>3, <1>4, <1>5, Waits, SaveStep

LEMMA SaveOnDeadlineStep ==
    ASSUME Inv, NEW n \in Names, SaveOnDeadline(n)
    PROVE  EditorStep
<1> DEFINE d == [f EXCEPT !.deadlines = @ \ {n}]
<1>1. f \in Folder /\ f.deadlines \ {n} \in SUBSET Names
  BY Fields DEF Inv, TypeOK
<1>2. d \in Folder
  BY <1>1, Puts
<1>3. \A x \in {"disk", "stamps", "listed", "dirs", "text", "models", "timers", "remote", "jobs",
                "slot", "move"} : d[x] = f[x]
  BY <1>1 DEF Folder
<1>4. /\ f' = IF Pending(d, n) THEN Save(d, n) ELSE d
      /\ UNCHANGED <<permitted, disposed, unlooked, theirs, floor, stood>> /\ ~disposed /\ disposed \in BOOLEAN
  BY DEF SaveOnDeadline, ghosts, Inv, Shape, TypeOK
<1> HIDE DEF d
<1>5. MoveApart(f.move, Save(d, n).move)
  BY <1>2, <1>3, SaveEffect DEF Apart
<1>6. CASE Pending(d, n)
  BY <1>2, <1>3, <1>4, <1>5, <1>6, Waits, SaveStep
<1>7. CASE ~Pending(d, n)
  BY <1>2, <1>3, <1>4, <1>7 DEF EditorStep, QuietStep, DocStep, MoveWaits
<1> QED BY <1>6, <1>7

LEMMA DisposeStep ==
    ASSUME Inv, Dispose
    PROVE  EditorStep
<1> DEFINE e == Flushed(f)
<1>1. f \in Folder /\ e \in Folder
  BY FlushedEffect DEF Inv, TypeOK
<1>2. /\ f' = [e EXCEPT !.timers = {}, !.deadlines = {}, !.models = {}] /\ ~disposed /\ disposed'
      /\ UNCHANGED <<permitted, unlooked, theirs, floor, stood>>
  BY DEF Dispose, ghosts
<1> HIDE DEF e
<1>3. /\ f' \in Folder /\ f'.timers = {} /\ f'.deadlines = {} /\ f'.models = {}
      /\ \A x \in {"disk", "stamps", "listed", "dirs", "text", "remote", "jobs", "slot", "move"} : f'[x] = e[x]
  BY <1>1, <1>2 DEF Folder
<1>4. ASSUME NEW m \in Names PROVE DocStep(f, f', m)
  BY <1>1, <1>2, <1>3, FlushedEffect DEF e, DocStep, SavedAs, Begun, Owed, Pending
<1>5. MoveWaits(f.move, f'.move)
  BY <1>1, <1>3, FlushedEffect, Waits DEF e
<1>6. f'.disk = f.disk /\ f'.stamps = f.stamps /\ f'.listed = f.listed /\ f'.dirs = f.dirs /\ f'.jobs[Mover] = f.jobs[Mover]
  BY <1>1, <1>3, FlushedEffect DEF e
<1>7. disposed \in BOOLEAN /\ disposed' \in BOOLEAN
  BY <1>2 DEF Dispose, Inv, TypeOK
<1> QED BY <1>2, <1>3, <1>4, <1>5, <1>6, <1>7 DEF EditorStep, QuietStep

\* The step of Settle at which nothing is pending any more; the others are saves.
SettleDrains ==
    /\ f.move.pc = "settle" /\ ~f.move.awaits /\ ~disposed
    /\ Unsettled = {} /\ Drained(f.move.live)
    /\ f' = [f EXCEPT !.move.at = 0, !.move.pc = IF f.move.kind = "folder" THEN "survey" ELSE "read"]
    /\ floor' = [n \in Names |-> IF n \in f.move.live THEN f.text[n] ELSE floor[n]]
    /\ UNCHANGED <<permitted, disposed, unlooked, theirs, stood>>

LEMMA SettleStep ==
    ASSUME Inv, Settle
    PROVE  EditorStep \/ SettleDrains
<1>1. /\ f \in Folder /\ f.move \in Move /\ ~disposed /\ disposed \in BOOLEAN /\ f.timers \subseteq Names
      /\ f.move.pc = "settle" /\ UNCHANGED <<permitted, disposed, unlooked, theirs, stood>>
  BY Fields DEF Inv, TypeOK, Settle, counts
<1>2. CASE Unsettled # {}
  <2> DEFINE n == Min(Unsettled)
             d == [f EXCEPT !.timers = @ \ {n}, !.move.at = n, !.move.awaits = TRUE]
             mv == [f.move EXCEPT !.at = n, !.awaits = TRUE]
  <2>1. f' = Save(d, n) /\ floor' = floor
    BY <1>2 DEF Settle
  <2>2. n \in Names
    <3>1. Unsettled \subseteq Names
      BY <1>1 DEF Unsettled, Move
    <3> QED BY <1>2, <3>1, MinIn, NamesAssumption
  <2> HIDE DEF n
  <2>3. mv \in Move /\ mv.pc = "settle" /\ mv.kind = f.move.kind /\ mv.live = f.move.live
        /\ mv.left = f.move.left /\ mv.moved = f.move.moved /\ mv.outcome = f.move.outcome
    BY <1>1, <2>2 DEF Move
  <2>4. f.timers \ {n} \in SUBSET Names
    BY <1>1
  <2>5. d \in Folder
    BY <1>1, <2>3, <2>4 DEF Folder
  <2>6. /\ \A x \in {"disk", "stamps", "listed", "dirs", "text", "models", "remote", "jobs", "slot"} : d[x] = f[x]
        /\ d.timers = f.timers \ {n} /\ d.move = mv
    BY <1>1 DEF Folder
  <2> HIDE DEF d, mv
  <2>7. MoveApart(mv, Save(d, n).move)
    BY <2>2, <2>5, <2>6, SaveEffect DEF Apart
  <2>8. MoveWaits(f.move, Save(d, n).move)
    BY <1>1, <2>3, <2>7 DEF MoveApart, MoveWaits, Move, Idle
  <2> QED BY <1>1, <2>1, <2>2, <2>5, <2>6, <2>8, SaveStep
<1>3. CASE Unsettled = {} /\ ~Drained(f.move.live)
  <2> DEFINE mv == [f.move EXCEPT !.at = 0]
  <2>1. f' = [f EXCEPT !.move = mv] /\ floor' = floor
    BY <1>3 DEF Settle
  <2>2. mv \in Move /\ mv.pc = "settle" /\ mv.kind = f.move.kind /\ mv.live = f.move.live
        /\ mv.left = f.move.left /\ mv.moved = f.move.moved /\ mv.outcome = f.move.outcome
    BY <1>1 DEF Move
  <2> HIDE DEF mv
  <2>3. /\ f' \in Folder /\ f'.move = mv
        /\ \A x \in {"disk", "stamps", "listed", "dirs", "text", "models", "remote", "jobs", "slot", "timers", "deadlines"} : f'[x] = f[x]
    BY <1>1, <2>1, <2>2 DEF Folder
  <2> QED BY <1>1, <2>1, <2>2, <2>3 DEF EditorStep, QuietStep, MoveWaits, DocStep
<1>4. CASE Unsettled = {} /\ Drained(f.move.live)
  BY <1>1, <1>4 DEF SettleDrains, Settle
<1> QED BY <1>2, <1>3, <1>4

LEMMA SettleEndedStep ==
    ASSUME Inv, SettleEnded
    PROVE  EditorStep
<1>1. /\ f \in Folder /\ f.move.pc = "settle" /\ disposed /\ disposed \in BOOLEAN
      /\ f.timers = {} /\ f.deadlines = {} /\ f.models = {}
      /\ UNCHANGED <<permitted, disposed, unlooked, theirs, floor, stood>>
  BY DEF Inv, TypeOK, SettleEnded, ghosts, Shape
<1> DEFINE mv == [Idle EXCEPT !.outcome = "ended"]
<1>2. f' = [f EXCEPT !.move = mv]
  BY DEF SettleEnded
<1>3. mv \in Move /\ mv.awaits = FALSE /\ mv.pc = "idle" /\ mv.outcome = "ended"
  BY IdleIsAMove DEF Outcomes, Idle
<1> HIDE DEF mv
<1>4. /\ f' \in Folder /\ f'.move = mv
      /\ \A x \in {"disk", "stamps", "listed", "dirs", "text", "models", "remote", "jobs", "slot", "timers", "deadlines"} : f'[x] = f[x]
  BY <1>1, <1>2, <1>3 DEF Folder
<1> QED BY <1>1, <1>3, <1>4 DEF EditorStep, QuietStep, MoveWaits, DocStep

-----------------------------------------------------------------------------
\* What a document's step makes of its write.
LEMMA DocJob ==
    ASSUME NEW d, NEW e, NEW m \in Names, DocStep(d, e, m)
    PROVE  e.jobs[m] = d.jobs[m] \/ e.jobs[m] = NoJob \/ Begun(d, e, m, d.text[m])
BY DEF DocStep, SavedAs, Owed

\* A step of the editor keeps the invariant.
LEMMA EditorJobs ==
    ASSUME Inv, EditorStep
    PROVE  JobsInPlace' /\ Looks'
<1>1. /\ f'.jobs[Mover] = f.jobs[Mover] /\ f'.disk = f.disk /\ f'.stamps = f.stamps
      /\ \A m \in Names : f'.jobs[m] = f.jobs[m] \/ f'.jobs[m] = NoJob \/ Begun(f, f', m, f.text[m])
      /\ UNCHANGED <<unlooked, theirs>> /\ MoveWaits(f.move, f'.move)
  BY DocJob DEF EditorStep, QuietStep
<1>2. /\ f.disk \in [Path -> File] /\ f.stamps \in [Path -> Nat] /\ f.text \in [Names -> Nat]
      /\ f \in Folder
  BY Fields DEF Inv, TypeOK, Disk, Stamps, Texts
<1>3. Mover \notin Names /\ Jobs = Names \cup {Mover}
  BY NoJobIsAJob DEF Jobs
<1>4. ASSUME NEW w \in Jobs, f'.jobs[w] # NoJob
      PROVE  /\ f'.jobs[w].pc # "none"
             /\ w \in Names => f'.jobs[w].path = At(w, From) /\ f'.jobs[w].text \in Nat
             /\ w = Mover => /\ f'.move.pc = "write" /\ f'.jobs[w].path = At(Now, To)'
                             /\ f'.jobs[w].text = f'.move.text
             /\ f'.jobs[w].seen <= f'.disk[f'.jobs[w].path].stamp
             /\ f'.jobs[w].path \in unlooked' /\ f'.jobs[w].pc = "check" =>
                   f'.jobs[w].seen < f'.disk[f'.jobs[w].path].stamp
  <2>1. CASE f'.jobs[w] = f.jobs[w]
    <3>1. /\ f.jobs[w].pc # "none"
          /\ w \in Names => f.jobs[w].path = At(w, From) /\ f.jobs[w].text \in Nat
          /\ w = Mover => /\ f.move.pc = "write" /\ f.jobs[w].path = At(Now, To)
                          /\ f.jobs[w].text = f.move.text
          /\ f.jobs[w].seen <= f.disk[f.jobs[w].path].stamp
          /\ f.jobs[w].path \in unlooked /\ f.jobs[w].pc = "check" =>
                f.jobs[w].seen < f.disk[f.jobs[w].path].stamp
      BY <1>4, <2>1 DEF Inv, JobsInPlace, Looks
    <3>2. w = Mover => f'.move = f.move
      BY <1>1, <3>1 DEF MoveWaits
    <3> QED BY <1>1, <2>1, <3>1, <3>2 DEF Now
  <2>2. CASE w \in Names /\ Begun(f, f', w, f.text[w])
    <3>1. /\ f'.jobs[w].pc = "check" /\ f'.jobs[w].path = At(w, From) /\ f'.jobs[w].text = f.text[w]
          /\ f'.jobs[w].seen = f.stamps[At(w, From)]
      BY <2>2 DEF Begun
    <3>2. At(w, From) \in Path
      BY <2>2, PathsAre
    <3>3. /\ f.stamps[At(w, From)] <= f.disk[At(w, From)].stamp
          /\ At(w, From) \in unlooked => f.stamps[At(w, From)] < f.disk[At(w, From)].stamp
      BY <3>2 DEF Inv, Looks
    <3> QED BY <1>1, <1>2, <1>3, <2>2, <3>1, <3>3
  <2> QED BY <1>1, <1>3, <1>4, <2>1, <2>2
<1>5. JobsInPlace'
  BY <1>4 DEF JobsInPlace
<1> QED BY <1>1, <1>4, <1>5 DEF Looks, Inv

LEMMA EditorShape ==
    ASSUME Inv, QuietStep
    PROVE  Shape'
<1>1. f.move \in Move /\ f'.move \in Move /\ f.models \subseteq Names
  BY Fields DEF EditorStep, QuietStep, Inv, TypeOK
<1> QED BY <1>1 DEF EditorStep, QuietStep, Shape, Inv, MoveWaits, Move

LEMMA EditorSaved ==
    ASSUME Inv, EditorStep
    PROVE  Saved' /\ Floors'
<1>1. /\ f \in Folder /\ f' \in Folder /\ f.disk \in [Path -> File] /\ f.text \in [Names -> Nat]
      /\ f'.text \in [Names -> Nat] /\ f.slot \in [Names -> Slot] /\ floor \in [Names -> Int]
      /\ f.jobs \in [Jobs -> Job]
  BY Fields DEF Inv, TypeOK, EditorStep, QuietStep, Disk, Texts, Slots, Table
<1>2. /\ f'.disk = f.disk /\ f'.listed = f.listed /\ MoveWaits(f.move, f'.move)
      /\ UNCHANGED <<theirs, floor>>
      /\ \A m \in Names : DocStep(f, f', m)
      /\ \A m \in f.models : m \in f'.models \/ disposed'
      /\ disposed => disposed'
      /\ ~disposed' => f'.models = f.models
  BY DEF EditorStep, QuietStep
<1>3. ASSUME NEW m \in Names
      PROVE  /\ f'.text[m] >= f.text[m]
             /\ f'.text[m] >= floor[m]
             /\ Writing(f', m) => /\ f'.jobs[m].text >= floor[m]
                                  /\ f'.slot[m].again => f'.slot[m].text >= floor[m]
  <2>1. /\ f.text[m] >= floor[m] /\ f.text[m] \in Nat /\ floor[m] \in Int
        /\ f.jobs[m] # NoJob => /\ f.jobs[m].text >= floor[m]
                                /\ f.slot[m].again => f.slot[m].text >= floor[m]
    BY <1>1 DEF Inv, Floors, Writing
  <2>2. DocStep(f, f', m)
    BY <1>2
  <2> QED BY <2>1, <2>2 DEF DocStep, SavedAs, Begun, Owed, Writing
<1>4. ASSUME NEW m \in Honest, There(m, From)
      PROVE  /\ m \in f'.models \/ disposed'
             /\ f'.jobs[m].pc = "restamp" => f.disk[At(m, From)].text = f'.jobs[m].text
             /\ m \notin f'.timers \cup f'.remote =>
                  IF Writing(f', m)
                  THEN IF f'.slot[m].again THEN f'.slot[m].text = f'.text[m]
                       ELSE f'.jobs[m].text = f'.text[m]
                  ELSE f.disk[At(m, From)].text = f'.text[m]
  <2>1. /\ m \in Names /\ (m \in f.models \/ disposed)
        /\ f.jobs[m].pc = "restamp" => f.disk[At(m, From)].text = f.jobs[m].text
        /\ m \notin f.timers \cup f.remote =>
             IF f.jobs[m] # NoJob
             THEN IF f.slot[m].again THEN f.slot[m].text = f.text[m] ELSE f.jobs[m].text = f.text[m]
             ELSE f.disk[At(m, From)].text = f.text[m]
    BY <1>4 DEF Inv, Saved, Honest, Writing
  <2>2. DocStep(f, f', m)
    BY <1>2, <2>1
  <2>3. NoJob.pc = "none"
    BY NoJobIsAJob
  <2>4. m \in f'.models \/ disposed'
    BY <1>2, <2>1
  <2>5. CASE /\ f'.jobs[m] = f.jobs[m] /\ f'.slot[m] = f.slot[m] /\ f'.text[m] = f.text[m]
             /\ m \in f.timers \cup f.remote => m \in f'.timers \cup f'.remote
    BY <2>1, <2>4, <2>5 DEF Writing
  <2>6. CASE f'.jobs[m] = f.jobs[m] /\ m \in f'.timers \cup f'.remote
    BY <2>1, <2>4, <2>6
  <2>7. CASE f'.text[m] = f.text[m] /\ SavedAs(f, f', m)
    <3>1. CASE Writing(f, m)
      BY <2>1, <2>4, <2>7, <3>1 DEF Writing, SavedAs
    <3>2. CASE Begun(f, f', m, f.text[m])
      <4>1. f'.jobs[m].pc = "check" /\ f'.jobs[m].text = f.text[m]
        BY <3>2 DEF Begun
      <4>2. f'.jobs[m] # NoJob
        BY <2>3, <4>1
      <4>3. IF f'.slot[m].again THEN f'.slot[m].text = f'.text[m]
            ELSE f'.jobs[m].text = f'.text[m]
        BY <2>7, <4>1 DEF SavedAs
      <4> QED BY <2>4, <4>1, <4>2, <4>3 DEF Writing
    <3>3. CASE Owed(f', m)
      BY <2>3, <2>4, <3>3 DEF Owed
    <3> QED BY <2>7, <3>1, <3>2, <3>3 DEF SavedAs
  <2>8. CASE m \notin f.models /\ ~disposed
    BY <2>1, <2>8
  <2>9. CASE Owed(f', m)
    BY <2>3, <2>4, <2>9 DEF Owed
  <2> QED BY <2>2, <2>5, <2>6, <2>7, <2>8, <2>9 DEF DocStep
<1>5. Saved'
  BY <1>2, <1>4 DEF Saved, Honest, There, Writing, Inv
<1>6. /\ \A n \in Honest : There(n, From) => f.disk[At(n, From)].text >= floor[n]
      /\ f.move.pc = "settle" => /\ f.move.live \subseteq f.move.left
                                 /\ ~disposed => f.move.live \subseteq f.models
                                 /\ \A n \in f.move.left \ theirs : There(n, From)
  BY DEF Inv, Floors
<1>7. f'.move.pc = "settle" =>
         /\ f'.move.live \subseteq f'.move.left
         /\ ~disposed' => f'.move.live \subseteq f'.models
         /\ \A n \in f'.move.left \ theirs : There(n, From)
  BY <1>2, <1>6 DEF MoveWaits
<1> QED BY <1>2, <1>3, <1>5, <1>6, <1>7 DEF Floors, Honest, There

LEMMA EditorMove ==
    ASSUME Inv, QuietStep
    PROVE  Steps' /\ Nothing'
<1>1. /\ f'.disk = f.disk /\ f'.dirs = f.dirs /\ f'.jobs[Mover] = f.jobs[Mover]
      /\ MoveWaits(f.move, f'.move) /\ UNCHANGED <<permitted, theirs, floor, stood>>
  BY DEF EditorStep, QuietStep
<1>2. Steps'
  <2>1. CASE f'.move = f.move
    BY <1>1, <2>1 DEF Inv, Steps, Honest, InFrom, InTo, There, Now
  <2>2. CASE f'.move.pc \in {"idle", "settle"}
    BY <1>1, <2>2 DEF Inv, Steps, Honest, InFrom, InTo, There, Stages
  <2> QED BY <1>1, <2>1, <2>2 DEF MoveWaits
<1>3. Nothing'
  <2>1. CASE f'.move = f.move
    BY <1>1, <2>1 DEF Inv, Nothing, LeavesNothing, Honest, There, Now
  <2>2. CASE f'.move.pc = "idle" /\ f'.move.outcome \in {"unwritten", "ended"}
    BY <1>1, <2>2 DEF Nothing, LeavesNothing, Refusals
  <2>3. CASE f.move.pc = "settle" /\ f'.move.pc = "settle"
    BY <1>1, <2>3 DEF Inv, Nothing, LeavesNothing, Honest, There
  <2> QED BY <1>1, <2>1, <2>2, <2>3 DEF MoveWaits
<1> QED BY <1>2, <1>3

LEMMA EditorKeeps ==
    ASSUME Inv, EditorStep
    PROVE  Inv'
<1>1. TypeOK'
  BY DEF EditorStep, QuietStep, Inv, TypeOK
<1>2. QuietStep
  BY DEF EditorStep
<1> QED BY <1>1, <1>2, EditorJobs, EditorShape, EditorSaved, EditorMove DEF Inv

-----------------------------------------------------------------------------
(* The steps of a write.                                                   *)

\* A step that leaves the folder, the move and what is known of the texts as they are.
LEMMA MoveStays ==
    ASSUME Inv, f'.move = f.move, f'.dirs = f.dirs,
           \A n \in Names, dir \in {From, To} : There(n, dir)' => There(n, dir),
           \A n \in Honest : floor[n] >= 0 /\ InFrom(n) => InFrom(n)',
           \A n \in Honest : floor[n] >= 0 /\ InTo(n) => InTo(n)',
           \A n \in Honest : f'.jobs[Mover].pc = "restamp" /\ n = Now /\ f.move.pc = "write" /\ floor[n] >= 0 =>
                               InTo(n)',
           f'.models = f.models, f'.timers = f.timers, f'.deadlines = f.deadlines,
           UNCHANGED <<permitted, disposed, theirs, floor, stood>>
    PROVE  Shape' /\ Steps' /\ Nothing'
<1>1. Now' = Now
  BY DEF Now
<1>2. Shape'
  <2>1. \A p \in Path : f'.disk[p].there => f.disk[p].there
    BY PathsAre DEF There
  <2> QED BY <2>1 DEF Inv, Shape
<1>3. Steps'
  BY <1>1 DEF Inv, Steps, Honest, Stages, There, InTo, InFrom
<1>4. Nothing'
  BY <1>1 DEF Inv, Nothing, LeavesNothing, Honest, There
<1> QED BY <1>2, <1>3, <1>4

\* Steps at the write w alone: a guard that passes, and a file replaced.
LEMMA PassesStep ==
    ASSUME Inv, NEW w \in Jobs, f.jobs[w].pc = "check", f' = [f EXCEPT !.jobs[w].pc = "replace"],
           UNCHANGED <<permitted, disposed, unlooked, theirs, floor, stood>>
    PROVE  Inv'
<1>1. f \in Folder /\ f.jobs \in [Jobs -> Job]
  BY Fields DEF Inv, TypeOK, Table
<1>2. [f.jobs EXCEPT ![w].pc = "replace"] \in Table
  BY <1>1 DEF Table, Job
<1>3. f' \in Folder
  BY <1>1, <1>2, Puts
<1>4. /\ \A x \in {"disk", "stamps", "listed", "dirs", "text", "models", "timers", "deadlines",
                   "remote", "slot", "move"} : f'[x] = f[x]
      /\ f'.jobs[w] = [f.jobs[w] EXCEPT !.pc = "replace"]
      /\ \A v \in Jobs \ {w} : f'.jobs[v] = f.jobs[v]
  BY <1>1 DEF Folder
<1>5. /\ f'.jobs[w].pc = "replace" /\ f'.jobs[w].path = f.jobs[w].path /\ f'.jobs[w].text = f.jobs[w].text
      /\ f'.jobs[w].seen = f.jobs[w].seen /\ f.jobs[w] # NoJob /\ f'.jobs[w] # NoJob
  BY <1>1, <1>4, NoJobIsAJob DEF Job
<1>6. Names \subseteq Jobs /\ Mover \in Jobs
  BY NoJobIsAJob
<1>7. JobsInPlace' /\ Looks'
  <2>1. Now' = Now
    BY <1>4 DEF Now
  <2>2. JobsInPlace'
    BY <1>4, <1>5, <2>1 DEF Inv, JobsInPlace
  <2>3. Looks'
    BY <1>4, <1>5, SMTT(30) DEF Inv, Looks
  <2> QED BY <2>2, <2>3
<1>8. \A n \in Names : Writing(f', n) <=> Writing(f, n)
  BY <1>4, <1>5, <1>6 DEF Writing
<1>9. Saved' /\ Floors'
  <2>1. \A n \in Names : f'.jobs[n].text = f.jobs[n].text /\ (f'.jobs[n].pc = "restamp" => f.jobs[n].pc = "restamp")
    BY <1>4, <1>5, <1>6
  <2>2. Saved'
    BY <1>4, <1>8, <2>1 DEF Inv, Saved, Honest, There
  <2>3. Floors'
    BY <1>4, <1>8, <2>1 DEF Inv, Floors, Honest, There
  <2> QED BY <2>2, <2>3
<1>10. Shape' /\ Steps' /\ Nothing'
  <2>1. f'.jobs[Mover].pc = "restamp" => f.jobs[Mover].pc = "restamp"
    BY <1>4, <1>5, <1>6
  <2>2. \A n \in Honest : f'.jobs[Mover].pc = "restamp" /\ n = Now /\ f.move.pc = "write" /\ floor[n] >= 0 => InTo(n)
    BY <2>1 DEF Inv, Steps
  <2> QED BY <1>4, <2>2, MoveStays DEF There, InFrom, InTo
<1> QED BY <1>3, <1>7, <1>9, <1>10 DEF Inv, TypeOK

\* The write that goes through: the file has the text of the job.
Replaces(w) ==
    /\ f.jobs[w].pc = "replace" /\ f.disk[f.jobs[w].path].there
    /\ f' = [f EXCEPT !.jobs[w].pc = "restamp", !.disk[f.jobs[w].path] = Put(@, f.jobs[w].text)]
    /\ unlooked' = unlooked \ {f.jobs[w].path}
    /\ UNCHANGED <<permitted, disposed, theirs, floor, stood>>

LEMMA ReplacesStep ==
    ASSUME Inv, NEW w \in Jobs, Replaces(w)
    PROVE  Inv'
<1> DEFINE p == f.jobs[w].path
           txt == f.jobs[w].text
<1>1. /\ f \in Folder /\ f.jobs \in [Jobs -> Job] /\ f.disk \in [Path -> File] /\ unlooked \subseteq Path
      /\ f.stamps \in [Path -> Nat]
  BY Fields DEF Inv, TypeOK, Table, Disk, Stamps
<1>2. /\ f.jobs[w] # NoJob /\ Names \subseteq Jobs /\ Mover \in Jobs /\ Jobs = Names \cup {Mover}
      /\ UNCHANGED <<permitted, disposed, theirs, floor, stood>> /\ unlooked' = unlooked \ {p}
  BY NoJobIsAJob DEF Jobs, Replaces
<1>3. txt \in Int /\ f.disk[p].there
  BY <1>1 DEF Job, Replaces
<1>4. /\ w \in Names => p = At(w, From)
      /\ w = Mover => p = At(Now, To) /\ f.move.pc = "write" /\ txt = f.move.text
  BY <1>2 DEF Inv, JobsInPlace
<1>5. w = Mover => Now \in Names
  BY <1>4, NowIsLeft DEF Inv, Shape
<1>6. p \in Path
  BY <1>2, <1>4, <1>5, PathsAre
<1> HIDE DEF p, txt
<1>7. /\ [f.jobs EXCEPT ![w].pc = "restamp"] \in Table
      /\ [f.disk EXCEPT ![p] = Put(@, txt)] \in Disk
  BY <1>1, <1>3, <1>6 DEF Table, Job, Disk, File, Put
<1>8. f' \in Folder
  BY <1>1, <1>7 DEF Folder, p, txt, Replaces
<1>9. /\ \A x \in {"stamps", "listed", "dirs", "text", "models", "timers", "deadlines",
                   "remote", "slot", "move"} : f'[x] = f[x]
      /\ f'.jobs = [f.jobs EXCEPT ![w].pc = "restamp"]
      /\ f'.disk = [f.disk EXCEPT ![p] = Put(@, txt)]
  BY <1>1 DEF Folder, p, txt, Replaces
<1>10. /\ f'.jobs[w].pc = "restamp" /\ f'.jobs[w].path = p /\ f'.jobs[w].text = txt
       /\ f'.jobs[w].seen = f.jobs[w].seen /\ f'.jobs[w] # NoJob
       /\ \A v \in Jobs \ {w} : f'.jobs[v] = f.jobs[v]
  BY <1>1, <1>9, NoJobIsAJob DEF Job, p, txt, Replaces
<1>11. /\ f'.disk[p].there /\ f'.disk[p].text = txt /\ f'.disk[p].stamp = f.disk[p].stamp + 1
       /\ f.disk[p].stamp \in Nat
       /\ \A q \in Path \ {p} : f'.disk[q] = f.disk[q]
  BY <1>1, <1>3, <1>6, <1>9 DEF File, Put
<1>12. Now' = Now
  BY <1>9 DEF Now
<1>13. JobsInPlace'
  BY <1>2, <1>9, <1>10, <1>12 DEF Inv, JobsInPlace, p, txt
<1>14. Looks'
  <2>1. ASSUME NEW q \in Path
        PROVE  f'.stamps[q] <= f'.disk[q].stamp /\ (q \in unlooked' => f'.stamps[q] < f'.disk[q].stamp)
    <3>1. f.stamps[q] <= f.disk[q].stamp /\ (q \in unlooked => f.stamps[q] < f.disk[q].stamp) /\ f.stamps[q] \in Nat
      BY <1>1 DEF Inv, Looks
    <3> QED BY <1>2, <1>9, <1>11, <3>1
  <2>2. ASSUME NEW v \in Jobs, f'.jobs[v] # NoJob
        PROVE  /\ f'.jobs[v].seen <= f'.disk[f'.jobs[v].path].stamp
               /\ f'.jobs[v].path \in unlooked' /\ f'.jobs[v].pc = "check" =>
                    f'.jobs[v].seen < f'.disk[f'.jobs[v].path].stamp
    <3>1. f.jobs[v] # NoJob /\ f'.jobs[v].seen = f.jobs[v].seen /\ f'.jobs[v].path = f.jobs[v].path
          /\ f.jobs[v].seen \in Nat
      BY <1>1, <1>2, <1>10, <2>2 DEF Job, p
    <3>2. /\ f.jobs[v].seen <= f.disk[f.jobs[v].path].stamp
          /\ f.jobs[v].path \in unlooked /\ f.jobs[v].pc = "check" => f.jobs[v].seen < f.disk[f.jobs[v].path].stamp
      BY <3>1 DEF Inv, Looks
    <3>3. v # w => f'.jobs[v] = f.jobs[v]
      BY <1>10
    <3>4. f.jobs[v].path \in Path
      <4>1. v \in Names => f.jobs[v].path = At(v, From)
        BY <3>1 DEF Inv, JobsInPlace
      <4>2. v = Mover => f.jobs[v].path = At(Now, To) /\ f.move.pc = "write"
        BY <3>1 DEF Inv, JobsInPlace
      <4>3. v = Mover => Now \in Names
        BY <4>2, NowIsLeft DEF Inv, Shape
      <4> QED BY <1>2, <4>1, <4>2, <4>3, PathsAre
    <3>5. CASE f.jobs[v].path = p
      BY <1>2, <1>11, <3>1, <3>2, <3>5
    <3>6. CASE f.jobs[v].path # p
      <4>1. f'.disk[f.jobs[v].path] = f.disk[f.jobs[v].path] /\ v # w
        BY <1>11, <3>4, <3>6 DEF p
      <4>2. f.jobs[v].path \in unlooked' => f.jobs[v].path \in unlooked
        BY <1>2
      <4> QED BY <3>1, <3>2, <3>3, <4>1, <4>2
    <3> QED BY <3>5, <3>6
  <2> QED BY <2>1, <2>2 DEF Looks
<1>15. \A n \in Names : (Writing(f', n) <=> Writing(f, n)) /\ f'.jobs[n].text = f.jobs[n].text
  BY <1>2, <1>10 DEF Writing, txt
<1>16. \A n \in Names, dir \in {From, To} : There(n, dir)' <=> There(n, dir)
  BY <1>3, <1>11, PathsAre DEF There
<1>17. ASSUME NEW n \in Names, n # w
       PROVE  f'.disk[At(n, From)] = f.disk[At(n, From)] /\ f'.jobs[n] = f.jobs[n]
  <2>1. At(n, From) # p /\ At(n, From) \in Path
    BY <1>2, <1>4, <1>5, <1>17, PathsAre
  <2>2. n \in Jobs \ {w}
    BY <1>2, <1>17
  <2> QED BY <1>10, <1>11, <2>1, <2>2
<1>18. Saved'
  <2>1. ASSUME NEW n \in Honest
        PROVE  /\ There(n, From)' <=> At(n, From) \in f'.listed
               /\ There(n, From)' =>
                    /\ n \in f'.models \/ disposed'
                    /\ f'.jobs[n].pc = "restamp" => f'.disk[At(n, From)].text = f'.jobs[n].text
                    /\ n \notin f'.timers \cup f'.remote =>
                         IF Writing(f', n)
                         THEN IF f'.slot[n].again THEN f'.slot[n].text = f'.text[n]
                              ELSE f'.jobs[n].text = f'.text[n]
                         ELSE f'.disk[At(n, From)].text = f'.text[n]
    <3>1. n \in Names
      BY DEF Honest
    <3>2. CASE n = w
      <4>1. Writing(f, n) /\ p = At(n, From)
        BY <1>2, <1>4, <3>1, <3>2 DEF Writing
      <4> QED BY <1>2, <1>9, <1>10, <1>11, <1>15, <1>16, <3>1, <3>2, <4>1 DEF Inv, Saved
    <3>3. CASE n # w
      <4>1. f'.disk[At(n, From)] = f.disk[At(n, From)] /\ f'.jobs[n] = f.jobs[n]
        BY <1>17, <3>1, <3>3
      <4>2. /\ There(n, From) <=> At(n, From) \in f.listed
            /\ There(n, From) =>
                 /\ n \in f.models \/ disposed
                 /\ f.jobs[n].pc = "restamp" => f.disk[At(n, From)].text = f.jobs[n].text
                 /\ n \notin f.timers \cup f.remote =>
                      IF Writing(f, n)
                      THEN IF f.slot[n].again THEN f.slot[n].text = f.text[n]
                           ELSE f.jobs[n].text = f.text[n]
                      ELSE f.disk[At(n, From)].text = f.text[n]
        BY DEF Inv, Saved
      <4>3. (There(n, From)' <=> There(n, From)) /\ (Writing(f', n) <=> Writing(f, n))
        BY <1>15, <1>16, <3>1
      <4> QED BY <1>2, <1>9, <4>1, <4>2, <4>3
    <3> QED BY <3>2, <3>3
  <2>2. Honest' = Honest
    BY <1>2 DEF Honest
  <2> QED BY <2>1, <2>2 DEF Saved
<1>19. \A n \in Names : n = w => txt >= floor[n]
  BY <1>2 DEF Inv, Floors, Writing, txt
<1>20. Floors'
  <2>1. \A n \in Honest : There(n, From) => f'.disk[At(n, From)].text >= floor[n]
    <3>1. TAKE n \in Honest
    <3>2. n \in Names
      BY DEF Honest
    <3>3. CASE n = w
      BY <1>4, <1>11, <1>19, <3>2, <3>3
    <3>4. CASE n # w
      BY <1>17, <3>2, <3>4 DEF Inv, Floors
    <3> QED BY <3>3, <3>4
  <2>2. \A n \in Names : /\ f'.text[n] >= floor[n]
                         /\ Writing(f', n) => /\ f'.jobs[n].text >= floor[n]
                                              /\ f'.slot[n].again => f'.slot[n].text >= floor[n]
    BY <1>9, <1>15 DEF Inv, Floors
  <2>3. f.move \in Move /\ f'.move = f.move /\ f'.models = f.models
    BY <1>1, <1>9, Fields
  <2>4. f.move.pc = "settle" => \A n \in f.move.left \ theirs : There(n, From)'
    BY <1>16, <2>3 DEF Inv, Floors, Move
  <2> QED BY <1>2, <1>16, <2>1, <2>2, <2>3, <2>4 DEF Inv, Floors, Honest
<1>21. Shape' /\ Steps' /\ Nothing'
  <2>1. ASSUME NEW n \in Honest PROVE n \in Names /\ (InFrom(n) => InFrom(n)')
    BY <1>2, <1>16 DEF InFrom, Honest
  <2>2. ASSUME NEW n \in Honest, floor[n] >= 0, w = Mover, n = Now PROVE InTo(n)'
    <3>1. txt >= floor[n] /\ p = At(n, To) /\ n \in Names
      BY <1>4, <2>2 DEF Inv, Steps, Honest
    <3> QED BY <1>2, <1>11, <3>1 DEF InTo, There
  <2>3. ASSUME NEW n \in Honest, floor[n] >= 0, InTo(n) PROVE InTo(n)'
    <3>1. n \in Names /\ There(n, To)'
      BY <1>16, <2>3 DEF Honest, InTo
    <3>2. CASE At(n, To) = p
      <4>1. w = Mover /\ n = Now
        BY <1>2, <1>4, <1>5, <3>1, <3>2, PathsAre
      <4> QED BY <2>2, <2>3, <4>1
    <3>3. CASE At(n, To) # p
      <4>1. f'.disk[At(n, To)] = f.disk[At(n, To)]
        BY <1>11, <3>1, <3>3, PathsAre
      <4> QED BY <1>2, <2>3, <3>1, <4>1 DEF InTo
    <3> QED BY <3>2, <3>3
  <2>4. ASSUME NEW n \in Honest, f'.jobs[Mover].pc = "restamp", n = Now, f.move.pc = "write", floor[n] >= 0
        PROVE  InTo(n)'
    <3>1. CASE w = Mover
      BY <2>2, <2>4, <3>1
    <3>2. CASE w # Mover
      <4>1. f.jobs[Mover].pc = "restamp"
        BY <1>2, <1>10, <2>4, <3>2
      <4>2. InTo(n)
        BY <2>4, <4>1 DEF Inv, Steps
      <4> QED BY <2>3, <2>4, <4>2
    <3> QED BY <3>1, <3>2
  <2> QED BY <1>2, <1>9, <1>16, <2>1, <2>3, <2>4, MoveStays
<1> QED BY <1>2, <1>8, <1>13, <1>14, <1>18, <1>20, <1>21 DEF Inv, TypeOK

\* A write that fails: its document is a debt again.
LEMMA FailsStep ==
    ASSUME Inv, NEW n \in Names, f' = Failed(f, n),
           UNCHANGED <<permitted, disposed, unlooked, theirs, floor, stood>>
    PROVE  Inv'
<1>1. f \in Folder /\ f' \in Folder /\ disposed \in BOOLEAN
  BY FailedType DEF Inv, TypeOK
<1>2. Apart(f, f', n) /\ f'.slot = f.slot /\ Owed(f', n)
  BY <1>1, FailedEffect
<1>3. Mover \in Jobs \ {n} /\ \A m \in Names \ {n} : m \in Jobs \ {n}
  BY NoJobIsAJob
<1>4. \A m \in Names : DocStep(f, f', m)
  BY <1>2, <1>3 DEF Apart, DocStep, Owed
<1>5. MoveWaits(f.move, f'.move)
  BY <1>2, Waits DEF Apart
<1>6. disposed => f'.timers = {} /\ f'.deadlines = {}
  BY <1>2 DEF Apart, Inv, Shape
<1>7. EditorStep
  BY <1>1, <1>2, <1>3, <1>4, <1>5, <1>6 DEF EditorStep, QuietStep, Apart
<1> QED BY <1>7, EditorKeeps

\* The last step of a write, before its caller takes the end of it.
Stamp(w) == IF f.disk[f.jobs[w].path].there THEN f.disk[f.jobs[w].path].stamp ELSE f.jobs[w].seen
Restamped(w) == [f EXCEPT !.stamps[f.jobs[w].path] = Stamp(w)]

LEMMA RestampedFacts ==
    ASSUME Inv, NEW w \in Jobs, f.jobs[w].pc = "restamp"
    PROVE  LET d == Restamped(w)
           IN  /\ d \in Folder
               /\ \A x \in {"disk", "listed", "dirs", "text", "models", "timers", "deadlines", "jobs",
                             "remote", "slot", "move"} : d[x] = f[x]
               /\ f.jobs[w].path \in Path
               /\ \A p \in Path : /\ d.stamps[p] <= f.disk[p].stamp /\ d.stamps[p] \in Nat
                                  /\ p \in unlooked \ {f.jobs[w].path} => d.stamps[p] < f.disk[p].stamp
<1> DEFINE p == f.jobs[w].path
<1>1. f \in Folder /\ f.jobs \in [Jobs -> Job] /\ f.disk \in [Path -> File] /\ f.stamps \in [Path -> Nat]
  BY Fields DEF Inv, TypeOK, Table, Disk, Stamps
<1>2. f.jobs[w] # NoJob
  BY NoJobIsAJob
<1>3. p \in Path
  <2>1. w \in Names => p = At(w, From)
    BY <1>2 DEF Inv, JobsInPlace
  <2>2. w = Mover => p = At(Now, To) /\ f.move.pc = "write"
    BY <1>2 DEF Inv, JobsInPlace
  <2>3. w = Mover => Now \in Names
    BY <2>2, NowIsLeft DEF Inv, Shape
  <2> QED BY <2>1, <2>2, <2>3, PathsAre DEF Jobs
<1>4. Stamp(w) \in Nat /\ Stamp(w) <= f.disk[p].stamp
  BY <1>1, <1>2, <1>3 DEF Stamp, Job, File, Inv, Looks
<1> HIDE DEF p
<1>5. [f.stamps EXCEPT ![p] = Stamp(w)] \in Stamps
  BY <1>1, <1>4 DEF Stamps
<1>6. /\ Restamped(w) \in Folder
      /\ \A x \in {"disk", "listed", "dirs", "text", "models", "timers", "deadlines", "jobs",
                   "remote", "slot", "move"} : Restamped(w)[x] = f[x]
      /\ Restamped(w).stamps = [f.stamps EXCEPT ![p] = Stamp(w)]
  BY <1>1, <1>5 DEF Restamped, Folder, p
<1>7. ASSUME NEW q \in Path
      PROVE  /\ Restamped(w).stamps[q] <= f.disk[q].stamp /\ Restamped(w).stamps[q] \in Nat
             /\ q \in unlooked \ {p} => Restamped(w).stamps[q] < f.disk[q].stamp
  BY <1>1, <1>4, <1>6 DEF Inv, Looks
<1> QED BY <1>3, <1>6, <1>7 DEF p

LEMMA DocWritten ==
    ASSUME Inv, NEW n \in Names, f.jobs[n].pc = "restamp", f' = PassWritten(Restamped(n), n),
           unlooked' = unlooked \ {f.jobs[n].path},
           UNCHANGED <<permitted, disposed, theirs, floor, stood>>
    PROVE  Inv'
<1> DEFINE d == Restamped(n)
           p == f.jobs[n].path
           txt == Current(f, n)
<1>1. /\ d \in Folder /\ p \in Path
      /\ \A x \in {"disk", "listed", "dirs", "text", "models", "timers", "deadlines", "jobs",
                   "remote", "slot", "move"} : d[x] = f[x]
      /\ \A q \in Path : /\ d.stamps[q] <= f.disk[q].stamp /\ d.stamps[q] \in Nat
                         /\ q \in unlooked' => d.stamps[q] < f.disk[q].stamp
  BY NoJobIsAJob, RestampedFacts
<1>2. Current(d, n) = txt
  BY <1>1 DEF Current
<1>3. f' = PassWritten(d, n)
  OBVIOUS
<1> HIDE DEF d, txt
<1>4. /\ f' \in Folder /\ Apart(d, f', n) /\ f'.slot[n].text = f.slot[n].text
      /\ IF f.slot[n].again /\ txt # f.jobs[n].text
         THEN /\ ~f'.slot[n].again /\ (Begun(d, f', n, txt) \/ Owed(f', n))
              /\ f'.remote = f.remote \/ Owed(f', n)
         ELSE f'.slot = f.slot /\ f'.jobs[n] = NoJob /\ f'.remote = f.remote
  BY <1>1, <1>2, <1>3, WrittenType, WrittenEffect
<1>5. /\ f'.disk = f.disk /\ f'.stamps = d.stamps /\ f'.listed = f.listed /\ f'.dirs = f.dirs
      /\ f'.text = f.text /\ f'.models = f.models /\ f'.timers = f.timers /\ f'.deadlines = f.deadlines
      /\ \A w \in Jobs \ {n} : f'.jobs[w] = f.jobs[w]
      /\ \A m \in Names \ {n} : f'.slot[m] = f.slot[m] /\ (m \in f'.remote <=> m \in f.remote)
      /\ MoveWaits(f.move, f'.move)
  BY <1>1, <1>4, Waits DEF Apart
<1>6. /\ Names \subseteq Jobs /\ Mover \in Jobs \ {n} /\ \A m \in Names \ {n} : m \in Jobs \ {n}
      /\ NoJob.pc = "none" /\ f.jobs[n] # NoJob /\ p = At(n, From) /\ Jobs = Names \cup {Mover}
  BY NoJobIsAJob DEF Inv, JobsInPlace, Jobs
<1>7. /\ f.text \in [Names -> Nat] /\ floor \in [Names -> Int] /\ f.slot \in [Names -> Slot] /\ f.jobs \in [Jobs -> Job]
  BY Fields DEF Inv, TypeOK, Texts, Slots, Table
<1>8. f.slot[n].again => txt \in Nat /\ txt >= floor[n]
  BY <1>6, <1>7 DEF Inv, Floors, Writing, txt, Current, Slot
<1>9. f'.jobs[n] = NoJob \/ (f.slot[n].again /\ Begun(d, f', n, txt))
  BY <1>4 DEF Owed
<1>10. Begun(d, f', n, txt) => /\ f'.jobs[n].pc = "check" /\ f'.jobs[n].path = p
                               /\ f'.jobs[n].text = txt /\ f'.jobs[n].seen = d.stamps[p]
                               /\ f'.jobs[n] # NoJob
  <2>1. Begun(d, f', n, txt) => f'.jobs[n].pc = "check" /\ f'.jobs[n].path = p
                                /\ f'.jobs[n].text = txt /\ f'.jobs[n].seen = d.stamps[p]
    BY <1>6 DEF Begun
  <2> QED BY <1>6, <2>1
<1>11. QuietStep
  <2>1. disposed \in BOOLEAN /\ (disposed => f.timers = {} /\ f.deadlines = {})
    BY DEF Inv, TypeOK, Shape
  <2> QED BY <1>4, <1>5, <1>6, <2>1 DEF QuietStep
<1>12. Shape' /\ Steps' /\ Nothing'
  BY <1>11, EditorShape, EditorMove
<1>13. TypeOK'
  BY <1>4 DEF Inv, TypeOK
<1>14. ASSUME NEW w \in Jobs, w # n, f'.jobs[w] # NoJob
       PROVE  /\ f.jobs[w] # NoJob /\ f'.jobs[w] = f.jobs[w]
              /\ w = Mover => f'.move = f.move
  <2>1. f'.jobs[w] = f.jobs[w]
    BY <1>5, <1>14
  <2>2. w = Mover => f.move.pc = "write"
    BY <1>14, <2>1 DEF Inv, JobsInPlace
  <2> QED BY <1>5, <1>14, <2>1, <2>2 DEF MoveWaits
<1>15. JobsInPlace'
  <2>1. ASSUME NEW w \in Jobs, f'.jobs[w] # NoJob
        PROVE  /\ f'.jobs[w].pc # "none"
               /\ w \in Names => f'.jobs[w].path = At(w, From) /\ f'.jobs[w].text \in Nat
               /\ w = Mover => /\ f'.move.pc = "write" /\ f'.jobs[w].path = At(Now, To)'
                               /\ f'.jobs[w].text = f'.move.text
    <3>1. CASE w = n
      BY <1>6, <1>8, <1>9, <1>10, <2>1, <3>1
    <3>2. CASE w # n
      BY <1>14, <2>1, <3>2 DEF Inv, JobsInPlace, Now
    <3> QED BY <3>1, <3>2
  <2> QED BY <2>1 DEF JobsInPlace
<1>16. Looks'
  <2>1. ASSUME NEW w \in Jobs, f'.jobs[w] # NoJob
        PROVE  /\ f'.jobs[w].seen <= f'.disk[f'.jobs[w].path].stamp
               /\ f'.jobs[w].path \in unlooked' /\ f'.jobs[w].pc = "check" =>
                    f'.jobs[w].seen < f'.disk[f'.jobs[w].path].stamp
    <3>1. CASE w = n
      BY <1>1, <1>5, <1>9, <1>10, <2>1, <3>1
    <3>2. CASE w # n
      <4>1. f.jobs[w] # NoJob /\ f'.jobs[w] = f.jobs[w]
        BY <1>14, <2>1, <3>2
      <4>2. /\ f.jobs[w].seen <= f.disk[f.jobs[w].path].stamp
            /\ f.jobs[w].path \in unlooked /\ f.jobs[w].pc = "check" =>
                 f.jobs[w].seen < f.disk[f.jobs[w].path].stamp
        BY <4>1 DEF Inv, Looks
      <4> QED BY <1>5, <4>1, <4>2
    <3> QED BY <3>1, <3>2
  <2> QED BY <1>1, <1>5, <2>1 DEF Looks
<1>17. \A m \in Names \ {n} : /\ (Writing(f', m) <=> Writing(f, m))
                             /\ f'.jobs[m] = f.jobs[m] /\ f'.slot[m] = f.slot[m]
                             /\ (m \in f'.remote <=> m \in f.remote)
  BY <1>5, <1>6 DEF Writing
<1>18. Saved'
  <2>1. ASSUME NEW m \in Honest, There(m, From)
        PROVE  /\ m \in f'.models \/ disposed'
               /\ f'.jobs[m].pc = "restamp" => f.disk[At(m, From)].text = f'.jobs[m].text
               /\ m \notin f'.timers \cup f'.remote =>
                    IF Writing(f', m)
                    THEN IF f'.slot[m].again THEN f'.slot[m].text = f'.text[m]
                         ELSE f'.jobs[m].text = f'.text[m]
                    ELSE f.disk[At(m, From)].text = f'.text[m]
    <3>1. /\ m \in Names /\ (m \in f.models \/ disposed)
          /\ f.jobs[m].pc = "restamp" => f.disk[At(m, From)].text = f.jobs[m].text
          /\ m \notin f.timers \cup f.remote =>
               IF Writing(f, m)
               THEN IF f.slot[m].again THEN f.slot[m].text = f.text[m] ELSE f.jobs[m].text = f.text[m]
               ELSE f.disk[At(m, From)].text = f.text[m]
      BY <2>1 DEF Inv, Saved, Honest
    <3>2. CASE m # n
      BY <1>5, <1>17, <3>1, <3>2
    <3>3. CASE m = n /\ f.slot[n].again /\ txt # f.jobs[n].text
      <4>1. m \notin f.timers \cup f.remote => txt = f.text[n]
        <5>1. CASE m \in f.models
          BY <3>3, <5>1 DEF txt, Current
        <5>2. CASE m \notin f.models
          BY <1>6, <3>1, <3>3, <5>2 DEF Writing, txt, Current
        <5> QED BY <5>1, <5>2
      <4>2. CASE Owed(f', n)
        BY <1>5, <1>6, <3>1, <3>3, <4>2 DEF Owed
      <4>3. CASE Begun(d, f', n, txt) /\ f'.remote = f.remote
        BY <1>4, <1>5, <1>10, <3>1, <3>3, <4>1, <4>3 DEF Writing
      <4> QED BY <1>4, <3>3, <4>2, <4>3
    <3>4. CASE m = n /\ ~(f.slot[n].again /\ txt # f.jobs[n].text)
      <4>1. m \notin f.timers \cup f.remote => f.jobs[n].text = f.text[n]
        BY <1>6, <3>1, <3>4 DEF Writing, txt, Current
      <4>2. f'.jobs[n] = NoJob /\ f'.remote = f.remote
        BY <1>4, <3>4
      <4> QED BY <1>5, <1>6, <3>1, <3>4, <4>1, <4>2 DEF Writing
    <3> QED BY <3>2, <3>3, <3>4
  <2> QED BY <1>5, <2>1 DEF Saved, Honest, There, Writing, Inv
<1>19. Floors'
  <2>1. ASSUME NEW m \in Names
        PROVE  /\ f'.text[m] >= floor[m]
               /\ Writing(f', m) => /\ f'.jobs[m].text >= floor[m]
                                    /\ f'.slot[m].again => f'.slot[m].text >= floor[m]
    <3>1. CASE m # n
      BY <1>5, <1>17, <3>1 DEF Inv, Floors
    <3>2. CASE m = n
      BY <1>4, <1>5, <1>8, <1>9, <1>10, <3>2 DEF Inv, Floors, Writing, Owed
    <3> QED BY <3>1, <3>2
  <2>2. f'.move.pc = "settle" =>
           /\ f'.move.live \subseteq f'.move.left
           /\ ~disposed' => f'.move.live \subseteq f'.models
           /\ \A m \in f'.move.left \ theirs : There(m, From)
    BY <1>5 DEF MoveWaits, Inv, Floors
  <2> QED BY <1>5, <2>1, <2>2 DEF Inv, Floors, Honest, There
<1> QED BY <1>12, <1>13, <1>15, <1>16, <1>18, <1>19 DEF Inv

-----------------------------------------------------------------------------
(* The steps of a move, and of another program: the documents' buffers,    *)
(* slots and writes stay.                                                  *)

\* The buffers, slots, timers and writes of the documents stay, and no stamp of a file goes back.
MoverStep ==
    /\ f' \in Folder /\ f'.text = f.text /\ f'.slot = f.slot /\ f'.timers = f.timers
    /\ f'.deadlines = f.deadlines /\ \A n \in Names : f'.jobs[n] = f.jobs[n]
    /\ \A p \in Path : f'.disk[p].stamp >= f.disk[p].stamp
    /\ disposed' = disposed /\ floor' = floor /\ theirs \subseteq theirs'

\* What becomes of the files under their old names,
DiskKept ==
    \A n \in Honest' :
        /\ There(n, From)' <=> At(n, From) \in f'.listed
        /\ There(n, From)' => /\ There(n, From) /\ f'.disk[At(n, From)].text = f.disk[At(n, From)].text
                              /\ n \in f.models => n \in f'.models
                              /\ n \in f.remote => n \in f'.remote

\* of the move that settles,
SettleKept ==
    f'.move.pc = "settle" =>
        /\ f'.move.live \subseteq f'.move.left /\ (~disposed => f'.move.live \subseteq f'.models)
        /\ \A n \in f'.move.left \ theirs' : There(n, From)'

\* of what the page knows of the stamps,
StampsKept ==
    \A p \in Path :
        /\ f'.stamps[p] <= f'.disk[p].stamp
        /\ p \in unlooked' => /\ f'.stamps[p] < f'.disk[p].stamp
                              /\ p \in unlooked \/ f.disk[p].stamp < f'.disk[p].stamp

\* and of the write of the move.
MoverJob ==
    \/ f'.jobs[Mover] = NoJob
    \/ f'.jobs[Mover] = f.jobs[Mover] /\ f'.move = f.move
    \/ /\ f'.jobs[Mover].pc = "check" /\ f'.move.pc = "write" /\ f'.jobs[Mover].path = At(Now', To)
       /\ f'.jobs[Mover].path \in Path /\ f'.jobs[Mover].text = f'.move.text
       /\ f'.jobs[Mover].seen = f'.stamps[At(Now', To)]

\* The path of a write is the path of a file.
LEMMA JobPath ==
    ASSUME Inv, NEW w \in Jobs, f.jobs[w] # NoJob
    PROVE  f.jobs[w].path \in Path
<1>1. w \in Names => f.jobs[w].path = At(w, From)
  BY DEF Inv, JobsInPlace
<1>2. w = Mover => f.jobs[w].path = At(Now, To) /\ f.move.pc = "write"
  BY DEF Inv, JobsInPlace
<1>3. w = Mover => Now \in Names
  BY <1>2, NowIsLeft DEF Inv, Shape
<1> QED BY <1>1, <1>2, <1>3, PathsAre DEF Jobs

\* The move has a write only at the stage of one.
LEMMA MoverWaits ==
    ASSUME Inv, f.move.pc # "write"
    PROVE  f.jobs[Mover] = NoJob
BY NoJobIsAJob DEF Inv, JobsInPlace

\* With these, the parts of the invariant about writes, stamps and texts are kept.
LEMMA MoverJobs ==
    ASSUME Inv, MoverStep, MoverJob, StampsKept
    PROVE  JobsInPlace' /\ Looks'
<1>1. /\ \A n \in Names : f'.jobs[n] = f.jobs[n]
      /\ \A p \in Path : f'.disk[p].stamp >= f.disk[p].stamp
      /\ Jobs = Names \cup {Mover} /\ Mover \notin Names /\ NoJob.pc = "none" /\ At(Now', To) = At(Now, To)'
  BY NoJobIsAJob DEF MoverStep, Jobs
<1>2. /\ f.disk \in [Path -> File] /\ f'.disk \in [Path -> File]
      /\ f.jobs \in [Jobs -> Job] /\ f'.jobs \in [Jobs -> Job] /\ f'.stamps \in [Path -> Nat]
  BY Fields DEF Inv, TypeOK, MoverStep, Disk, Table, Stamps
<1>3. f'.move = f.move => Now' = Now
  BY DEF Now
<1>4. JobsInPlace'
  <2>1. ASSUME NEW w \in Jobs, f'.jobs[w] # NoJob
        PROVE  /\ f'.jobs[w].pc # "none"
               /\ w \in Names => f'.jobs[w].path = At(w, From) /\ f'.jobs[w].text \in Nat
               /\ w = Mover => /\ f'.move.pc = "write" /\ f'.jobs[w].path = At(Now, To)'
                               /\ f'.jobs[w].text = f'.move.text
    BY <1>1, <1>3, <2>1 DEF Inv, JobsInPlace, MoverJob
  <2> QED BY <2>1 DEF JobsInPlace
<1>5. ASSUME NEW w \in Jobs, f'.jobs[w] # NoJob
      PROVE  /\ f'.jobs[w].seen <= f'.disk[f'.jobs[w].path].stamp
             /\ f'.jobs[w].path \in unlooked' /\ f'.jobs[w].pc = "check" =>
                    f'.jobs[w].seen < f'.disk[f'.jobs[w].path].stamp
  <2>1. CASE f'.jobs[w] = f.jobs[w]
    <3> DEFINE p == f.jobs[w].path
    <3>1. f.jobs[w] # NoJob
      BY <1>5, <2>1
    <3>2. p \in Path /\ f.jobs[w].seen \in Nat
      BY <1>2, <3>1, JobPath DEF Job
    <3>3. /\ f.jobs[w].seen <= f.disk[p].stamp
          /\ p \in unlooked /\ f.jobs[w].pc = "check" => f.jobs[w].seen < f.disk[p].stamp
      BY <3>1 DEF Inv, Looks
    <3>4. /\ f.disk[p].stamp \in Nat /\ f'.disk[p].stamp \in Nat /\ f'.disk[p].stamp >= f.disk[p].stamp
          /\ p \in unlooked' => p \in unlooked \/ f.disk[p].stamp < f'.disk[p].stamp
      BY <1>1, <1>2, <3>2 DEF StampsKept, File
    <3> HIDE DEF p
    <3>5. f.jobs[w].seen <= f'.disk[p].stamp
      BY <3>2, <3>3, <3>4
    <3>6. p \in unlooked' /\ f.jobs[w].pc = "check" => f.jobs[w].seen < f'.disk[p].stamp
      BY <3>2, <3>3, <3>4
    <3> QED BY <2>1, <3>5, <3>6 DEF p
  <2>2. CASE w = Mover /\ f'.jobs[w].seen = f'.stamps[f'.jobs[w].path] /\ f'.jobs[w].path \in Path
    BY <2>2 DEF StampsKept
  <2> QED BY <1>1, <1>5, <2>1, <2>2 DEF MoverJob
<1>6. Looks'
  BY <1>5 DEF StampsKept, Looks
<1> QED BY <1>4, <1>6

LEMMA MoverSaved ==
    ASSUME Inv, MoverStep, DiskKept, SettleKept
    PROVE  Saved' /\ Floors'
<1>1. /\ \A n \in Names : f'.jobs[n] = f.jobs[n] /\ (Writing(f', n) <=> Writing(f, n))
      /\ f'.text = f.text /\ f'.slot = f.slot /\ f'.timers = f.timers /\ disposed' = disposed
      /\ floor' = floor /\ \A n \in Honest' : n \in Honest /\ n \in Names
  BY DEF MoverStep, Writing, Honest
<1>2. Saved'
  <2>1. ASSUME NEW n \in Honest'
        PROVE  /\ There(n, From)' <=> At(n, From) \in f'.listed
               /\ There(n, From)' =>
                    /\ n \in f'.models \/ disposed'
                    /\ f'.jobs[n].pc = "restamp" => f'.disk[At(n, From)].text = f'.jobs[n].text
                    /\ n \notin f'.timers \cup f'.remote =>
                         IF Writing(f', n)
                         THEN IF f'.slot[n].again THEN f'.slot[n].text = f'.text[n]
                              ELSE f'.jobs[n].text = f'.text[n]
                         ELSE f'.disk[At(n, From)].text = f'.text[n]
    <3>1. There(n, From) =>
            /\ n \in f.models \/ disposed
            /\ f.jobs[n].pc = "restamp" => f.disk[At(n, From)].text = f.jobs[n].text
            /\ n \notin f.timers \cup f.remote =>
                 IF Writing(f, n)
                 THEN IF f.slot[n].again THEN f.slot[n].text = f.text[n] ELSE f.jobs[n].text = f.text[n]
                 ELSE f.disk[At(n, From)].text = f.text[n]
      BY <1>1 DEF Inv, Saved
    <3> QED BY <1>1, <3>1 DEF DiskKept
  <2> QED BY <2>1 DEF Saved
<1>3. Floors'
  <2>1. \A n \in Honest' : There(n, From)' => f'.disk[At(n, From)].text >= floor[n]
    BY <1>1 DEF DiskKept, Inv, Floors
  <2>2. \A n \in Names : /\ f'.text[n] >= floor[n]
                         /\ Writing(f', n) => /\ f'.jobs[n].text >= floor[n]
                                              /\ f'.slot[n].again => f'.slot[n].text >= floor[n]
    BY <1>1 DEF Inv, Floors
  <2> QED BY <1>1, <2>1, <2>2 DEF Floors, SettleKept
<1> QED BY <1>2, <1>3

\* A step that changes the move and its own write alone.
PlainStep ==
    /\ MoverStep /\ f'.disk = f.disk /\ f'.stamps = f.stamps /\ f'.listed = f.listed
    /\ f'.models = f.models /\ f'.remote = f.remote /\ unlooked' = unlooked /\ theirs' = theirs

\* Such a step keeps what the files and the stamps say.
LEMMA PlainKeeps ==
    ASSUME Inv, PlainStep, MoverJob, SettleKept
    PROVE  JobsInPlace' /\ Looks' /\ Saved' /\ Floors'
<1>1. StampsKept
  BY DEF PlainStep, StampsKept, Inv, Looks
<1>2. DiskKept
  BY DEF PlainStep, DiskKept, Inv, Saved, Honest, There
<1> QED BY <1>1, <1>2, MoverJobs, MoverSaved DEF PlainStep

\* A step that leaves all but the move.
LEMMA MoveTo ==
    ASSUME Inv, NEW mv \in Move, f' = [f EXCEPT !.move = mv],
           UNCHANGED <<disposed, unlooked, theirs, floor>>
    PROVE  PlainStep /\ f'.move = mv /\ f'.dirs = f.dirs /\ f'.jobs = f.jobs
<1>1. f \in Folder /\ f.disk \in [Path -> File]
  BY Fields DEF Inv, TypeOK, Disk
<1>2. f' \in Folder
  BY <1>1, Puts
<1>3. /\ f'.move = mv
      /\ \A x \in {"disk", "stamps", "listed", "dirs", "text", "models", "remote", "jobs", "slot",
                   "timers", "deadlines"} : f'[x] = f[x]
  BY <1>1 DEF Folder
<1>4. \A p \in Path : f'.disk[p].stamp >= f.disk[p].stamp
  BY <1>1, <1>3 DEF File
<1> QED BY <1>2, <1>3, <1>4 DEF PlainStep, MoverStep

\* How a file that is refused ends its move.
FileEnds(a, b, why) ==
    /\ b.awaits = a.awaits \/ b.awaits = FALSE
    /\ \/ a.kind = "file" /\ b.pc = "idle" /\ b.outcome = why
       \/ /\ a.kind # "file" /\ a.moved = {} /\ b.pc = "abandon" /\ b.kind = a.kind
          /\ b.left = a.left /\ b.moved = a.moved /\ b.outcome = why
       \/ a.kind # "file" /\ b.pc = "publish" /\ b.kind = a.kind /\ b.outcome = "partial"

\* A refused file ends its move in one of those ways.
LEMMA FileRefusedEffect ==
    ASSUME NEW d \in Folder, NEW why \in Outcomes \cup Refusals
    PROVE  \E mv \in Move : /\ FileRefused(d, why) = [d EXCEPT !.move = mv]
                            /\ FileEnds(d.move, mv, why)
<1>1. d.move \in Move
  BY Fields
<1>2. CASE d.move.kind = "file"
  <2> DEFINE mv == [Idle EXCEPT !.outcome = why]
  <2>1. mv \in Move /\ mv.awaits = FALSE /\ mv.pc = "idle" /\ mv.outcome = why
    BY IdleIsAMove DEF Idle
  <2>2. FileRefused(d, why) = [d EXCEPT !.move = mv]
    BY <1>2 DEF FileRefused
  <2> QED BY <1>2, <2>1, <2>2 DEF FileEnds
<1>3. CASE d.move.kind # "file" /\ d.move.moved = {}
  <2> DEFINE mv == [d.move EXCEPT !.pc = "abandon", !.outcome = why]
  <2>1. /\ mv \in Move /\ mv.awaits = d.move.awaits /\ mv.pc = "abandon" /\ mv.outcome = why
        /\ mv.kind = d.move.kind /\ mv.left = d.move.left /\ mv.moved = d.move.moved
    BY <1>1 DEF Move, MovePc
  <2>2. FileRefused(d, why) = [d EXCEPT !.move = mv]
    BY <1>3 DEF FileRefused
  <2> HIDE DEF mv
  <2> QED BY <1>3, <2>1, <2>2 DEF FileEnds
<1>4. CASE d.move.kind # "file" /\ d.move.moved # {}
  <2> DEFINE mv == [d.move EXCEPT !.pc = "publish", !.outcome = "partial"]
  <2>1. /\ mv \in Move /\ mv.awaits = d.move.awaits /\ mv.pc = "publish" /\ mv.outcome = "partial"
        /\ mv.kind = d.move.kind
    BY <1>1 DEF Move, MovePc, Outcomes
  <2>2. FileRefused(d, why) = [d EXCEPT !.move = mv]
    BY <1>4 DEF FileRefused
  <2> HIDE DEF mv
  <2> QED BY <1>4, <2>1, <2>2 DEF FileEnds
<1> QED BY <1>2, <1>3, <1>4

\* The end of a file's move is the end the invariant allows.
LEMMA FileEndsWell ==
    ASSUME Inv, NEW why \in Outcomes \cup Refusals, FileEnds(f.move, f'.move, why), f'.dirs = f.dirs,
           f.move.pc \in {"read", "probe", "make", "undo"}, MoverStep, f'.models = f.models,
           UNCHANGED <<permitted, theirs, stood>>,
           \A n \in Names : f'.disk[At(n, From)] = f.disk[At(n, From)],
           \A n \in Names : n # Now \/ f.move.pc # "undo" => f'.disk[At(n, To)] = f.disk[At(n, To)],
           f'.disk[At(Now, To)].there => There(Now, To) /\ ~ (f.move.pc = "undo" /\ permitted)
    PROVE  Shape' /\ Steps' /\ Nothing'
<1>1. /\ f.move \in Move /\ f.move.awaits = FALSE /\ f.move.kind \in {"file", "folder"}
      /\ \A n \in Honest : n \in Names
      /\ disposed' = disposed /\ floor' = floor /\ f'.timers = f.timers /\ f'.deadlines = f.deadlines
  BY Fields DEF Inv, TypeOK, Shape, Move, Honest, MoverStep
<1>2. \A n \in Names, dir \in {From, To} : f'.disk[At(n, dir)].there => There(n, dir)
  BY DEF There
<1>3. Shape'
  <2>1. \A p \in Path : f'.disk[p].there => p[1] \in f'.dirs
    <3> TAKE p \in Path
    <3>1. p[1] \in {From, To} /\ p[2] \in Names /\ p = At(p[2], p[1])
      BY PathsAre
    <3>2. f'.disk[p].there => f.disk[p].there
      BY <1>2, <3>1 DEF There
    <3> QED BY <3>2 DEF Inv, Shape
  <2>2. disposed' => f'.timers = {} /\ f'.deadlines = {} /\ f'.models = {}
    BY <1>1 DEF Inv, Shape
  <2> QED BY <1>1, <2>1, <2>2 DEF FileEnds, Shape
<1>4. Steps'
  <2>1. ASSUME NEW n \in Honest, floor[n] >= 0
        PROVE  /\ InFrom(n) => InFrom(n)'
               /\ InTo(n) /\ ~InFrom(n) => InTo(n)'
               /\ n # Now /\ InTo(n) => InTo(n)'
               /\ InFrom(n) \/ InTo(n)
    <3>1. f.move.pc = "undo" /\ n = Now => InFrom(n)
      BY <2>1 DEF Inv, Steps
    <3> QED BY <1>1, <2>1, <3>1 DEF InFrom, InTo, There, Inv, Steps
  <2>2. ASSUME NEW n \in Honest, floor[n] >= 0, f'.move.pc = "abandon"
        PROVE  n \in f'.move.left /\ InFrom(n)'
    <3>1. f'.move.left = f.move.left /\ f.move.moved = {} /\ f.move.kind = "folder"
      BY <1>1, <2>2 DEF FileEnds
    <3>2. f.move.pc \in Stages
      BY DEF Stages
    <3>3. n \in f.move.left /\ InFrom(n)
      BY <2>2, <3>1, <3>2 DEF Inv, Steps
    <3> QED BY <2>1, <2>2, <3>1, <3>3
  <2>3. f'.move.pc \in {"idle", "abandon", "publish"}
    BY DEF FileEnds
  <2> QED BY <1>1, <2>1, <2>2, <2>3 DEF Steps, Honest, Stages
<1>5. Nothing'
  <2>1. CASE f'.move.pc = "idle"
    <3>1. f.move.kind = "file"
      BY <2>1 DEF FileEnds
    <3>2. ASSUME permitted
          PROVE  (To \in f'.dirs => stood.dir) /\ \A n \in Honest : There(n, To)' => n \in stood.names
      <4>1. /\ To \in f.dirs => stood.dir
            /\ \A n \in Honest : There(n, To) => n \in stood.names \/ (f.move.pc \in {"write", "undo"} /\ n = Now)
        BY <3>1, <3>2 DEF Inv, Nothing
      <4>2. ASSUME NEW n \in Honest, There(n, To)' PROVE n \in stood.names
        <5>1. There(n, To)
          BY <1>1, <1>2, <4>2 DEF There
        <5>2. n = Now => f.move.pc # "undo"
          BY <3>2, <4>2 DEF There
        <5>3. f.move.pc # "write"
          OBVIOUS
        <5> QED BY <3>2, <4>1, <4>2, <5>1, <5>2, <5>3
      <4> QED BY <4>1, <4>2
    <3> QED BY <2>1, <3>2 DEF Nothing, LeavesNothing, Honest, There
  <2>2. CASE f'.move.pc \in {"abandon", "publish"}
    BY <2>2 DEF Nothing, LeavesNothing
  <2> QED BY <2>1, <2>2 DEF FileEnds
<1> QED BY <1>3, <1>4, <1>5

\* A file refused with nothing of it on disk to take back, or no leave to.
LEMMA RefusesKeeps ==
    ASSUME Inv, NEW why \in Outcomes \cup Refusals, f' = FileRefused(f, why),
           f.move.pc \in {"read", "probe", "make", "undo"}, f.move.pc = "undo" => ~permitted,
           UNCHANGED <<permitted, disposed, unlooked, theirs, floor, stood>>
    PROVE  Inv' /\ MoverJob /\ MoverStep
<1>1. f \in Folder
  BY DEF Inv, TypeOK
<1>2. PICK mv \in Move : f' = [f EXCEPT !.move = mv] /\ FileEnds(f.move, mv, why)
  BY <1>1, FileRefusedEffect
<1>3. PlainStep /\ f'.move = mv /\ f'.dirs = f.dirs /\ f'.jobs = f.jobs
  BY <1>2, MoveTo
<1>4. MoverJob
  BY <1>3, MoverWaits DEF MoverJob
<1>5. SettleKept
  BY <1>2, <1>3 DEF SettleKept, FileEnds
<1>6. Shape' /\ Steps' /\ Nothing'
  <2>1. FileEnds(f.move, f'.move, why)
    BY <1>2, <1>3
  <2>2. MoverStep /\ f'.disk = f.disk /\ f'.models = f.models
    BY <1>3 DEF PlainStep
  <2>3. f'.disk[At(Now, To)].there => There(Now, To) /\ ~ (f.move.pc = "undo" /\ permitted)
    BY <2>2 DEF There
  <2> QED BY <1>3, <2>1, <2>2, <2>3, FileEndsWell
<1>7. TypeOK'
  BY <1>3 DEF Inv, TypeOK, PlainStep, MoverStep
<1> QED BY <1>3, <1>4, <1>5, <1>6, <1>7, PlainKeeps DEF Inv, PlainStep

\* How the write of a move ends it: refused, thrown, or with the old file to drop.
WriteEnds(a, b) ==
    \/ /\ b.pc \in {"undo", "drop"} /\ b.kind = a.kind /\ b.left = a.left /\ b.moved = a.moved
       /\ b.awaits = a.awaits
    \/ b.pc = "idle" /\ b.awaits = FALSE /\ b.outcome = "threw"

\* The end of the write of a move keeps the invariant.
LEMMA MoverEnds ==
    ASSUME Inv, f.jobs[Mover] # NoJob, NEW mv \in Move, WriteEnds(f.move, mv), NEW d \in Folder,
           mv.pc = "drop" => f.jobs[Mover].pc = "restamp",
           \A x \in {"disk", "listed", "dirs", "text", "models", "timers", "deadlines", "jobs",
                     "remote", "slot"} : d[x] = f[x],
           \A p \in Path : /\ d.stamps[p] <= f.disk[p].stamp
                           /\ p \in unlooked' => d.stamps[p] < f.disk[p].stamp,
           f' = [d EXCEPT !.jobs[Mover] = NoJob, !.move = mv],
           unlooked' \subseteq unlooked, UNCHANGED <<permitted, disposed, theirs, floor, stood>>
    PROVE  Inv' /\ MoverStep /\ MoverJob
<1>1. /\ Mover \in Jobs /\ Mover \notin Names /\ NoJob \in Job /\ Names \subseteq Jobs
      /\ f.jobs \in [Jobs -> Job] /\ f.disk \in [Path -> File]
      /\ f.move.pc = "write" /\ f.move.left # {} /\ f.move.left \subseteq Names
  BY NoJobIsAJob, Fields DEF Inv, TypeOK, Table, Disk, JobsInPlace, Shape, Move
<1>2. [d.jobs EXCEPT ![Mover] = NoJob] \in Table
  BY <1>1 DEF Table
<1>3. f' \in Folder
  BY <1>2 DEF Folder
<1>4. /\ \A x \in {"disk", "listed", "dirs", "text", "models", "timers", "deadlines", "remote", "slot"} : f'[x] = f[x]
      /\ f'.stamps = d.stamps /\ f'.move = mv /\ f'.jobs = [d.jobs EXCEPT ![Mover] = NoJob] /\ d.jobs = f.jobs
  BY DEF Folder
<1>5. f'.jobs[Mover] = NoJob /\ \A n \in Names : f'.jobs[n] = f.jobs[n]
  BY <1>1, <1>4
<1>6. MoverStep
  BY <1>1, <1>3, <1>4, <1>5 DEF MoverStep, File
<1>7. MoverJob /\ SettleKept
  BY <1>4, <1>5 DEF MoverJob, SettleKept, WriteEnds
<1>8. StampsKept
  BY <1>4 DEF StampsKept
<1>9. DiskKept
  BY <1>4 DEF DiskKept, Inv, Saved, Honest, There
<1>10. Shape'
  BY <1>1, <1>4 DEF Inv, Shape, WriteEnds
<1>11. Steps'
  <2>1. CASE mv.pc = "idle"
    BY <1>4, <2>1 DEF Inv, Steps, Honest, There, InFrom, InTo, Stages
  <2>2. CASE mv.pc \in {"undo", "drop"}
    <3>1. mv.kind = f.move.kind /\ mv.left = f.move.left /\ mv.moved = f.move.moved /\ Now' = Now
      BY <1>4, <2>2 DEF WriteEnds, Now
    <3>2. \A n \in Names : (InFrom(n)' <=> InFrom(n)) /\ (InTo(n)' <=> InTo(n))
      BY <1>4 DEF InFrom, InTo, There
    <3>3. f.move.pc \in Stages /\ mv.pc \in Stages /\ Honest' = Honest /\ Honest \subseteq Names
      BY <1>1, <2>2 DEF Stages, Honest
    <3>4. CASE mv.pc = "undo"
      BY <1>1, <1>4, <1>5, <3>1, <3>2, <3>3, <3>4 DEF Inv, Steps
    <3>5. CASE mv.pc = "drop"
      BY <1>1, <1>4, <1>5, <3>1, <3>2, <3>3, <3>5 DEF Inv, Steps
    <3> QED BY <2>2, <3>4, <3>5
  <2> QED BY <2>1, <2>2 DEF WriteEnds
<1>12. Nothing'
  <2>1. CASE mv.pc = "idle"
    BY <1>4, <2>1 DEF Nothing, LeavesNothing, Refusals, WriteEnds
  <2>2. CASE mv.pc = "drop"
    BY <1>4, <2>2 DEF Nothing, LeavesNothing
  <2>3. CASE mv.pc = "undo"
    <3>1. mv.kind = f.move.kind /\ Now' = Now
      BY <1>4, <2>3 DEF WriteEnds, Now
    <3> QED BY <1>1, <1>4, <2>3, <3>1 DEF Inv, Nothing, LeavesNothing, Honest, There
  <2> QED BY <2>1, <2>2, <2>3 DEF WriteEnds
<1> QED BY <1>3, <1>4, <1>6, <1>7, <1>8, <1>9, <1>10, <1>11, <1>12, MoverJobs, MoverSaved DEF Inv, TypeOK

\* A write that is refused or throws, of the move or of a document.
LEMMA RefusedStep ==
    ASSUME Inv, NEW w \in Jobs, f.jobs[w] # NoJob, NEW why \in Refusals, f' = Refused(f, w, why),
           UNCHANGED <<permitted, disposed, unlooked, theirs, floor, stood>>
    PROVE  Inv'
<1>1. CASE w = Mover
  <2> DEFINE mv == [f.move EXCEPT !.pc = "undo", !.outcome = why]
  <2>1. f \in Folder /\ f.move \in Move
    BY Fields DEF Inv, TypeOK
  <2>2. mv \in Move /\ WriteEnds(f.move, mv) /\ mv.pc = "undo"
    BY <2>1 DEF Move, MovePc, WriteEnds
  <2>3. f' = [f EXCEPT !.jobs[Mover] = NoJob, !.move = mv]
    BY <1>1 DEF Refused
  <2>4. \A p \in Path : /\ f.stamps[p] <= f.disk[p].stamp
                        /\ p \in unlooked' => f.stamps[p] < f.disk[p].stamp
    BY DEF Inv, Looks
  <2> HIDE DEF mv
  <2> QED BY <1>1, <2>1, <2>2, <2>3, <2>4, MoverEnds
<1>2. CASE w \in Names
  BY <1>2, NoJobIsAJob, FailsStep DEF Refused
<1> QED BY <1>1, <1>2 DEF Jobs

LEMMA ThrewStep ==
    ASSUME Inv, NEW w \in Jobs, f.jobs[w] # NoJob, f' = Threw(f, w),
           UNCHANGED <<permitted, disposed, unlooked, theirs, floor, stood>>
    PROVE  Inv'
<1>1. CASE w = Mover
  <2> DEFINE mv == [Idle EXCEPT !.outcome = "threw"]
  <2>1. f \in Folder
    BY DEF Inv, TypeOK
  <2>2. mv \in Move /\ WriteEnds(f.move, mv) /\ mv.pc = "idle"
    BY IdleIsAMove DEF Idle, Outcomes, WriteEnds
  <2>3. f' = [f EXCEPT !.jobs[Mover] = NoJob, !.move = mv]
    BY <1>1 DEF Threw
  <2>4. \A p \in Path : /\ f.stamps[p] <= f.disk[p].stamp
                        /\ p \in unlooked' => f.stamps[p] < f.disk[p].stamp
    BY DEF Inv, Looks
  <2> HIDE DEF mv
  <2> QED BY <1>1, <2>1, <2>2, <2>3, <2>4, MoverEnds
<1>2. CASE w \in Names
  BY <1>2, NoJobIsAJob, FailsStep DEF Threw
<1> QED BY <1>1, <1>2 DEF Jobs

\* A write that is done, of the move or of a document.
LEMMA WrittenStep ==
    ASSUME Inv, NEW w \in Jobs, f.jobs[w].pc = "restamp", f' = Written(Restamped(w), w),
           unlooked' = unlooked \ {f.jobs[w].path},
           UNCHANGED <<permitted, disposed, theirs, floor, stood>>
    PROVE  Inv'
<1>1. CASE w = Mover
  <2> DEFINE d == Restamped(w)
             mv == [f.move EXCEPT !.pc = "drop"]
  <2>1. /\ d \in Folder
        /\ \A x \in {"disk", "listed", "dirs", "text", "models", "timers", "deadlines", "jobs",
                     "remote", "slot", "move"} : d[x] = f[x]
        /\ \A p \in Path : /\ d.stamps[p] <= f.disk[p].stamp
                           /\ p \in unlooked' => d.stamps[p] < f.disk[p].stamp
    BY RestampedFacts
  <2>2. f.move \in Move /\ f.jobs[w] # NoJob
    BY Fields, NoJobIsAJob DEF Inv, TypeOK
  <2>3. mv \in Move /\ WriteEnds(f.move, mv)
    BY <2>2 DEF Move, MovePc, WriteEnds
  <2>4. f' = Written(d, Mover)
    BY <1>1
  <2> HIDE DEF d
  <2>5. f' = [d EXCEPT !.jobs[Mover] = NoJob, !.move = mv]
    <3>1. d.move = f.move
      BY <2>1
    <3>2. f' = [d EXCEPT !.jobs[Mover] = NoJob, !.move.pc = "drop"]
      BY <2>4 DEF Written
    <3> QED BY <3>1, <3>2
  <2> HIDE DEF mv
  <2>6. /\ f.jobs[Mover] # NoJob /\ f.jobs[Mover].pc = "restamp" /\ unlooked' \subseteq unlooked
        /\ \A x \in {"disk", "listed", "dirs", "text", "models", "timers", "deadlines", "jobs",
                      "remote", "slot"} : d[x] = f[x]
    BY <1>1, <2>1, <2>2
  <2> QED BY <2>1, <2>3, <2>5, <2>6, MoverEnds
<1>2. CASE w \in Names
  <2>1. w # Mover
    BY <1>2, NoJobIsAJob
  <2>2. f' = PassWritten(Restamped(w), w)
    BY <2>1 DEF Written
  <2> QED BY <1>2, <2>2, DocWritten
<1> QED BY <1>1, <1>2 DEF Jobs

\* Every step of a write keeps the invariant.
LEMMA WritesKeep ==
    ASSUME Inv, NEW w \in Jobs, Writes(w) \/ WriteFails(w)
    PROVE  Inv'
<1>1. {"missing", "stale", "not-permitted"} \subseteq Refusals /\ NoJob.pc = "none"
  BY NoJobIsAJob DEF Refusals
<1>2. CASE WriteCheck(w)
  <2>1. f.jobs[w].pc = "check" /\ f.jobs[w] # NoJob
        /\ UNCHANGED <<permitted, disposed, unlooked, theirs, floor, stood>>
    BY <1>1, <1>2 DEF WriteCheck, ghosts
  <2>2. \/ f' = Refused(f, w, "missing") \/ f' = Refused(f, w, "stale")
        \/ f' = [f EXCEPT !.jobs[w].pc = "replace"]
    BY <1>2 DEF WriteCheck
  <2> QED BY <1>1, <2>1, <2>2, PassesStep, RefusedStep
<1>3. CASE WriteReplace(w)
  <2>1. f.jobs[w].pc = "replace" /\ f.jobs[w] # NoJob /\ UNCHANGED <<permitted, disposed, theirs, floor, stood>>
    BY <1>1, <1>3 DEF WriteReplace
  <2>2. CASE permitted /\ f.disk[f.jobs[w].path].there
    <3>1. Replaces(w)
      BY <1>3, <2>1, <2>2 DEF WriteReplace, Replaces, Looked
    <3> QED BY <3>1, ReplacesStep
  <2>3. CASE ~(permitted /\ f.disk[f.jobs[w].path].there)
    <3>1. unlooked' = unlooked /\ (f' = Refused(f, w, "missing") \/ f' = Refused(f, w, "not-permitted"))
      BY <1>3, <2>3 DEF WriteReplace
    <3> QED BY <1>1, <2>1, <3>1, RefusedStep
  <2> QED BY <2>2, <2>3
<1>4. CASE WriteRestamp(w)
  <2>1. /\ f.jobs[w].pc = "restamp" /\ f' = Written(Restamped(w), w)
        /\ unlooked' = unlooked \ {f.jobs[w].path} /\ UNCHANGED <<permitted, disposed, theirs, floor, stood>>
    BY <1>4 DEF WriteRestamp, Restamped, Stamp, Looked
  <2> QED BY <2>1, WrittenStep
<1>5. CASE WriteFails(w)
  <2>1. f.jobs[w] # NoJob /\ f' = Threw(f, w) /\ UNCHANGED <<permitted, disposed, unlooked, theirs, floor, stood>>
    BY <1>1, <1>5 DEF WriteFails, ghosts
  <2> QED BY <2>1, ThrewStep
<1> QED BY <1>2, <1>3, <1>4, <1>5 DEF Writes

-----------------------------------------------------------------------------
(* The steps of a move.                                                    *)

\* A plain step keeps every file where and as it was.
LEMMA PlainFiles ==
    ASSUME Inv, PlainStep
    PROVE  /\ Honest' = Honest /\ Honest \subseteq Names
           /\ \A n \in Names, dir \in {From, To} : There(n, dir)' <=> There(n, dir)
           /\ \A n \in Names : (InFrom(n)' <=> InFrom(n)) /\ (InTo(n)' <=> InTo(n))
BY DEF PlainStep, MoverStep, Honest, There, InFrom, InTo

\* The steps between two stages at which nothing is promised of a file in particular.
LEMMA PlainShape ==
    ASSUME Inv, PlainStep, \A p \in Path : f.disk[p].there => p[1] \in f'.dirs,
           f'.move.awaits = FALSE,
           f'.move.pc # "idle" => f'.move.kind = f.move.kind /\ f.move.kind \in {"file", "folder"},
           f'.move.pc \in {"survey", "mkdir", "abandon"} => f.move.kind = "folder" /\ f'.move.moved = {},
           f'.move.pc = "settle" => f'.move.moved = {},
           f'.move.pc \in {"settle", "probe", "make", "write", "undo", "drop"} => f'.move.left # {},
           f'.move.pc = "read" /\ f.move.kind = "file" => f'.move.left # {},
           f'.move.pc = "publish" => f'.move.outcome \in {"moved", "partial"},
           f'.move.pc = "make" => To \in f'.dirs
    PROVE  Shape'
<1>1. disposed' => f'.timers = {} /\ f'.deadlines = {} /\ f'.models = {}
  BY DEF Inv, Shape, PlainStep, MoverStep
<1> QED BY <1>1 DEF Shape, PlainStep

\* and the types.
LEMMA PlainType ==
    ASSUME Inv, PlainStep, permitted' \in BOOLEAN, stood' \in [dir : BOOLEAN, names : SUBSET Names]
    PROVE  TypeOK'
BY DEF Inv, TypeOK, PlainStep, MoverStep

\* The steps of moveEntry(), one by one.
LEMMA AskMoveStep ==
    ASSUME Inv, NEW action \in {"file", "folder"}, NEW names \in SUBSET Names, AskMove(action, names)
    PROVE  Inv' /\ MoverStep /\ MoverJob
<1> DEFINE mv == [Idle EXCEPT !.pc = "settle", !.kind = action, !.left = names, !.live = names \cap f.models]
<1>1. /\ f \in Folder /\ ~disposed /\ f.move.pc = "idle" /\ names # {} /\ permitted \in BOOLEAN
      /\ \A n \in names : At(n, From) \in f.listed
      /\ f' = [f EXCEPT !.move = mv] /\ UNCHANGED <<disposed, unlooked, theirs, floor>> /\ permitted' = permitted
      /\ stood' = [dir |-> To \in f.dirs, names |-> {n \in Names \ theirs : f.disk[At(n, To)].there}]
  BY DEF AskMove, Inv, TypeOK
<1>2. /\ mv \in Move /\ mv.pc = "settle" /\ mv.kind = action /\ mv.left = names /\ mv.live = names \cap f.models
      /\ mv.moved = {} /\ mv.awaits = FALSE
  BY IdleIsAMove DEF Move, MovePc, Idle
<1> HIDE DEF mv
<1>3. PlainStep /\ f'.move = mv /\ f'.dirs = f.dirs /\ f'.jobs = f.jobs
  BY <1>1, <1>2, MoveTo
<1>4. MoverJob
  BY <1>1, <1>3, MoverWaits DEF MoverJob
<1>5. SettleKept
  <2>1. f'.models = f.models /\ theirs' = theirs /\ f'.disk = f.disk
    BY <1>3 DEF PlainStep
  <2>2. \A n \in names \ theirs : There(n, From)
    BY <1>1 DEF Inv, Saved, Honest
  <2> QED BY <1>2, <1>3, <2>1, <2>2 DEF SettleKept, There
<1>6. Shape'
  <2>1. \A p \in Path : f'.disk[p].there => p[1] \in f'.dirs
    BY <1>3 DEF PlainStep, Inv, Shape
  <2>2. disposed' = FALSE
    BY <1>1 DEF Inv, TypeOK
  <2> QED BY <1>1, <1>2, <1>3, <2>1, <2>2 DEF Shape
<1>7. Steps'
  BY <1>1, <1>2, <1>3, PlainFiles DEF Inv, Steps, Stages
<1>8. Nothing'
  <2>1. \A n \in Honest : There(n, To)' => n \in stood'.names
    BY <1>1, <1>3, PlainFiles DEF Honest, There
  <2>2. To \in f'.dirs => stood'.dir
    BY <1>1, <1>3
  <2> QED BY <1>2, <1>3, <2>1, <2>2, PlainFiles DEF Nothing, LeavesNothing
<1>9. stood' \in [dir : BOOLEAN, names : SUBSET Names]
  BY <1>1
<1> QED BY <1>1, <1>3, <1>4, <1>5, <1>6, <1>7, <1>8, <1>9, PlainKeeps, PlainType DEF Inv, PlainStep

LEMMA SurveyStep ==
    ASSUME Inv, Survey
    PROVE  Inv' /\ MoverStep /\ MoverJob
<1> DEFINE no == [Idle EXCEPT !.outcome = "unshared"]
           on == [f.move EXCEPT !.pc = "mkdir"]
<1>1. /\ f.move \in Move /\ f.move.pc = "survey" /\ permitted \in BOOLEAN
      /\ f' = [f EXCEPT !.move = no] \/ f' = [f EXCEPT !.move = on]
      /\ UNCHANGED <<permitted, disposed, unlooked, theirs, floor, stood>>
      /\ stood \in [dir : BOOLEAN, names : SUBSET Names]
  BY Fields DEF Survey, Inv, TypeOK, ghosts
<1>2. /\ no \in Move /\ no.pc = "idle" /\ no.awaits = FALSE /\ no.outcome = "unshared"
      /\ on \in Move /\ on.pc = "mkdir" /\ on.kind = f.move.kind /\ on.left = f.move.left
      /\ on.moved = f.move.moved /\ on.awaits = f.move.awaits
  BY <1>1, IdleIsAMove DEF Move, MovePc, Idle, Refusals
<1> HIDE DEF no, on
<1>3. PICK mv \in Move : (mv = no \/ mv = on) /\ f' = [f EXCEPT !.move = mv]
  BY <1>1, <1>2
<1>4. PlainStep /\ f'.move = mv /\ f'.dirs = f.dirs /\ f'.jobs = f.jobs
  BY <1>1, <1>3, MoveTo
<1>5. MoverJob /\ SettleKept
  BY <1>1, <1>2, <1>3, <1>4, MoverWaits DEF MoverJob, SettleKept
<1>6. Shape'
  <2>1. \A p \in Path : f.disk[p].there => p[1] \in f'.dirs
    BY <1>4 DEF Inv, Shape
  <2>2. f.move.kind = "folder" /\ f.move.moved = {} /\ f.move.awaits = FALSE
    BY <1>1 DEF Inv, Shape, Move
  <2> QED BY <1>2, <1>3, <1>4, <2>1, <2>2, PlainShape
<1>7. Steps'
  BY <1>1, <1>2, <1>3, <1>4, PlainFiles DEF Inv, Steps, Stages
<1>8. Nothing'
  <2>1. permitted => /\ To \in f.dirs => stood.dir
                     /\ \A n \in Honest : There(n, To) => n \in stood.names
    BY <1>1 DEF Inv, Nothing
  <2> QED BY <1>1, <1>2, <1>3, <1>4, <2>1, PlainFiles DEF Nothing, LeavesNothing, Honest, There
<1> QED BY <1>1, <1>4, <1>5, <1>6, <1>7, <1>8, PlainKeeps, PlainType DEF Inv, PlainStep

LEMMA MakeFolderStep ==
    ASSUME Inv, MakeFolder
    PROVE  Inv' /\ MoverStep /\ MoverJob
<1>1. /\ f \in Folder /\ f.move \in Move /\ f.move.pc = "mkdir" /\ permitted \in BOOLEAN
      /\ UNCHANGED <<permitted, disposed, unlooked, theirs, floor, stood>>
      /\ stood \in [dir : BOOLEAN, names : SUBSET Names] /\ f.dirs \subseteq {From, To}
      /\ f.move.kind = "folder" /\ f.move.moved = {} /\ f.move.awaits = FALSE
  BY Fields DEF MakeFolder, Inv, TypeOK, ghosts, Shape, Move
<1>2. CASE To \in f.dirs \/ ~permitted
  <2> DEFINE mv == [Idle EXCEPT !.outcome = IF To \in f.dirs THEN "exists" ELSE "not-permitted"]
  <2>1. f' = [f EXCEPT !.move = mv]
    BY <1>2 DEF MakeFolder
  <2>2. mv \in Move /\ mv.pc = "idle" /\ mv.awaits = FALSE
    BY IdleIsAMove DEF Idle, Refusals
  <2> HIDE DEF mv
  <2>3. PlainStep /\ f'.move = mv /\ f'.dirs = f.dirs /\ f'.jobs = f.jobs
    BY <1>1, <2>1, <2>2, MoveTo
  <2>4. MoverJob /\ SettleKept
    BY <1>1, <2>2, <2>3, MoverWaits DEF MoverJob, SettleKept
  <2>5. Shape'
    <3>1. \A p \in Path : f.disk[p].there => p[1] \in f'.dirs
      BY <2>3 DEF Inv, Shape
    <3> QED BY <2>2, <2>3, <3>1, PlainShape
  <2>6. Steps'
    BY <2>2, <2>3, PlainFiles DEF Inv, Steps, Stages, PlainStep, MoverStep
  <2>7. Nothing'
    <3>1. permitted => /\ To \in f.dirs => stood.dir
                       /\ \A n \in Honest : There(n, To) => n \in stood.names
      BY <1>1 DEF Inv, Nothing
    <3> QED BY <1>1, <2>2, <2>3, <3>1, PlainFiles DEF Nothing, LeavesNothing, Honest, There
  <2> QED BY <1>1, <2>3, <2>4, <2>5, <2>6, <2>7, PlainKeeps, PlainType DEF Inv, PlainStep
<1>3. CASE ~ (To \in f.dirs \/ ~permitted)
  <2> DEFINE left == {n \in Names : At(n, From) \in f.listed}
             mv == [f.move EXCEPT !.pc = "read", !.left = left]
             dirs == f.dirs \cup {To}
  <2>1. f' = [f EXCEPT !.dirs = dirs, !.move = mv]
    BY <1>3 DEF MakeFolder
  <2>2. mv \in Move /\ mv.pc = "read" /\ mv.awaits = FALSE /\ mv.kind = "folder" /\ mv.moved = {} /\ mv.left = left
        /\ dirs \in SUBSET {From, To}
    BY <1>1 DEF Move, MovePc
  <2> HIDE DEF mv
  <2>3. f' \in Folder /\ f'.move = mv /\ f'.dirs = dirs
        /\ \A x \in {"disk", "stamps", "listed", "text", "models", "remote", "jobs", "slot",
                     "timers", "deadlines"} : f'[x] = f[x]
    BY <1>1, <2>1, <2>2 DEF Folder
  <2>4. PlainStep
    <3>1. f.disk \in [Path -> File]
      BY <1>1, Fields DEF Disk
    <3>2. \A p \in Path : f'.disk[p].stamp >= f.disk[p].stamp
      BY <2>3, <3>1 DEF File
    <3> QED BY <1>1, <2>3, <3>2 DEF PlainStep, MoverStep
  <2>5. MoverJob /\ SettleKept
    BY <1>1, <2>2, <2>3, MoverWaits DEF MoverJob, SettleKept
  <2>6. Shape'
    <3>1. \A p \in Path : f.disk[p].there => p[1] \in f'.dirs
      BY <2>3 DEF Inv, Shape
    <3> QED BY <1>1, <2>2, <2>3, <2>4, <3>1, PlainShape
  <2>7. Steps'
    <3>1. ASSUME NEW n \in Honest, floor[n] >= 0
          PROVE  n \in left /\ InFrom(n)
      <4>1. ~There(n, To)
        BY <1>3, PathsAre DEF Inv, Shape, Honest, There
      <4>2. InFrom(n)
        BY <3>1, <4>1 DEF Inv, Steps, InTo
      <4> QED BY <4>2 DEF Inv, Saved, InFrom, Honest
    <3> QED BY <2>2, <2>3, <2>4, <3>1, PlainFiles DEF Steps, PlainStep, MoverStep
  <2>8. Nothing'
    BY <2>2, <2>3 DEF Nothing, LeavesNothing
  <2> QED BY <1>1, <2>4, <2>5, <2>6, <2>7, <2>8, PlainKeeps, PlainType DEF Inv, PlainStep
<1> QED BY <1>2, <1>3

LEMMA ReadSourceStep ==
    ASSUME Inv, ReadSource
    PROVE  Inv' /\ MoverStep /\ MoverJob
<1> DEFINE p == At(Now, From)
           file == f.disk[p]
           mv == [f.move EXCEPT !.text = file.text, !.pc = "probe"]
           stamps == [f.stamps EXCEPT ![p] = file.stamp]
<1>1. /\ f \in Folder /\ f.move \in Move /\ f.move.pc = "read" /\ f.move.left # {} /\ permitted \in BOOLEAN
      /\ UNCHANGED <<permitted, disposed, theirs, floor, stood>> /\ f.disk \in [Path -> File]
      /\ f.stamps \in [Path -> Nat] /\ f.move.awaits = FALSE /\ f.move.kind \in {"file", "folder"}
      /\ stood \in [dir : BOOLEAN, names : SUBSET Names] /\ unlooked \subseteq Path
  BY Fields DEF ReadSource, Inv, TypeOK, Shape, Disk, Stamps, Move
<1>2. Now \in Names /\ Now \in f.move.left
  BY <1>1, NowIsLeft DEF Inv
<1>3. CASE ~ (p \in f.listed /\ file.there)
  <2>1. f' = FileRefused(f, "not-granted") \/ f' = FileRefused(f, "missing")
    BY <1>3 DEF ReadSource
  <2>2. unlooked' = unlooked
    BY <1>3 DEF ReadSource
  <2> QED BY <1>1, <2>1, <2>2, RefusesKeeps DEF Refusals
<1>4. CASE p \in f.listed /\ file.there
  <2>1. f' = [f EXCEPT !.stamps = stamps, !.move = mv] /\ unlooked' = unlooked \ {p}
    BY <1>4 DEF ReadSource, Looked
  <2>2. p \in Path /\ file \in File
    BY <1>1, <1>2, PathsAre
  <2>3. /\ mv \in Move /\ mv.pc = "probe" /\ mv.kind = f.move.kind /\ mv.left = f.move.left
        /\ mv.moved = f.move.moved /\ mv.awaits = f.move.awaits /\ mv.text = file.text
    BY <1>1, <2>2 DEF Move, MovePc, File
  <2>4. stamps \in Stamps
    BY <1>1, <2>2 DEF Stamps, File
  <2> HIDE DEF mv
  <2>5. /\ f' \in Folder /\ f'.move = mv /\ f'.stamps = stamps
        /\ \A x \in {"disk", "dirs", "listed", "text", "models", "remote", "jobs", "slot",
                     "timers", "deadlines"} : f'[x] = f[x]
    BY <1>1, <2>1, <2>3, <2>4 DEF Folder
  <2>6. MoverStep
    <3>1. \A q \in Path : f'.disk[q].stamp >= f.disk[q].stamp
      BY <1>1, <2>5 DEF File
    <3> QED BY <1>1, <2>5, <3>1 DEF MoverStep
  <2>7. MoverJob /\ SettleKept /\ DiskKept
    <3>1. MoverJob /\ SettleKept
      BY <1>1, <2>3, <2>5, MoverWaits DEF MoverJob, SettleKept
    <3>2. DiskKept
      BY <1>1, <2>5 DEF DiskKept, Inv, Saved, Honest, There
    <3> QED BY <3>1, <3>2
  <2>8. StampsKept
    <3>1. ASSUME NEW q \in Path
          PROVE  f'.stamps[q] <= f'.disk[q].stamp
                 /\ (q \in unlooked' => q \in unlooked /\ f'.stamps[q] < f'.disk[q].stamp)
      BY <1>1, <2>1, <2>2, <2>5 DEF Inv, Looks, File
    <3> QED BY <3>1 DEF StampsKept
  <2>9. Now' = Now
    BY <2>3, <2>5 DEF Now
  <2>10. Shape'
    BY <1>1, <2>3, <2>5 DEF Inv, Shape
  <2>11. Steps'
    <3>1. There(Now, From)
      BY <1>4 DEF There
    <3>2. \A n \in Names : (InFrom(n)' <=> InFrom(n)) /\ (InTo(n)' <=> InTo(n))
      BY <1>1, <2>5 DEF InFrom, InTo, There
    <3>3. Now \in Honest => mv.text >= floor[Now]
      BY <1>2, <2>3, <3>1 DEF Inv, Floors
    <3> QED BY <1>1, <2>3, <2>5, <2>9, <3>1, <3>2, <3>3 DEF Inv, Steps, Honest, Stages, InFrom
  <2>12. Nothing'
    BY <1>1, <2>3, <2>5 DEF Inv, Nothing, LeavesNothing, Honest, There
  <2>13. TypeOK'
    BY <1>1, <2>1, <2>5 DEF Inv, TypeOK
  <2> QED BY <2>6, <2>7, <2>8, <2>10, <2>11, <2>12, <2>13, MoverJobs, MoverSaved DEF Inv
<1> QED BY <1>3, <1>4

LEMMA ProbeTargetStep ==
    ASSUME Inv, ProbeTarget
    PROVE  Inv' /\ MoverStep /\ MoverJob
<1> DEFINE p == At(Now, To)
           mv == [f.move EXCEPT !.pc = "make"]
<1>1. /\ f.move \in Move /\ f.move.pc = "probe" /\ f.move.left # {} /\ permitted \in BOOLEAN
      /\ UNCHANGED <<permitted, disposed, unlooked, theirs, floor, stood>> /\ f.move.awaits = FALSE
      /\ stood \in [dir : BOOLEAN, names : SUBSET Names] /\ f.move.kind \in {"file", "folder"}
  BY Fields DEF ProbeTarget, Inv, TypeOK, Shape, ghosts, Move
<1>2. CASE To \notin f.dirs \/ f.disk[p].there
  <2>1. f' = FileRefused(f, "missing") \/ f' = FileRefused(f, "exists")
    BY <1>2 DEF ProbeTarget
  <2> QED BY <1>1, <2>1, RefusesKeeps DEF Refusals
<1>3. CASE To \in f.dirs /\ ~f.disk[p].there
  <2>1. f' = [f EXCEPT !.move = mv]
    BY <1>3 DEF ProbeTarget
  <2>2. /\ mv \in Move /\ mv.pc = "make" /\ mv.kind = f.move.kind /\ mv.left = f.move.left
        /\ mv.moved = f.move.moved /\ mv.awaits = f.move.awaits /\ mv.text = f.move.text
    BY <1>1 DEF Move, MovePc
  <2> HIDE DEF mv
  <2>3. PlainStep /\ f'.move = mv /\ f'.dirs = f.dirs /\ f'.jobs = f.jobs
    BY <1>1, <2>1, <2>2, MoveTo
  <2>4. MoverJob /\ SettleKept
    BY <1>1, <2>2, <2>3, MoverWaits DEF MoverJob, SettleKept
  <2>5. Shape'
    <3>1. \A q \in Path : f.disk[q].there => q[1] \in f'.dirs
      BY <2>3 DEF Inv, Shape
    <3> QED BY <1>1, <1>3, <2>2, <2>3, <3>1, PlainShape
  <2>6. Now' = Now
    BY <2>2, <2>3 DEF Now
  <2>7. Steps'
    BY <1>1, <1>3, <2>2, <2>3, <2>6, PlainFiles DEF Inv, Steps, Stages, There, PlainStep, MoverStep
  <2>8. Nothing'
    BY <1>1, <2>2, <2>3, <2>6, PlainFiles DEF Inv, Nothing, LeavesNothing, Honest
  <2> QED BY <1>1, <2>3, <2>4, <2>5, <2>7, <2>8, PlainKeeps, PlainType DEF Inv, PlainStep
<1> QED BY <1>2, <1>3

LEMMA MakeTargetStep ==
    ASSUME Inv, MakeTarget
    PROVE  Inv' /\ MoverStep /\ MoverJob
<1> DEFINE p == At(Now, To)
           created == IF f.disk[p].there THEN f.disk[p] ELSE Put(f.disk[p], Empty)
           mv == [f.move EXCEPT !.pc = "write"]
           held == [f.disk EXCEPT ![p] = created]
           stamps == [f.stamps EXCEPT ![p] = created.stamp]
           listed == f.listed \cup {p}
           d == [f EXCEPT !.disk = held, !.stamps = stamps, !.listed = listed, !.move = mv]
<1>1. /\ f \in Folder /\ f.move \in Move /\ f.move.pc = "make" /\ f.move.left # {} /\ permitted \in BOOLEAN
      /\ UNCHANGED <<permitted, disposed, theirs, floor, stood>> /\ f.disk \in [Path -> File]
      /\ f.stamps \in [Path -> Nat] /\ f.move.awaits = FALSE /\ f.move.kind \in {"file", "folder"}
      /\ stood \in [dir : BOOLEAN, names : SUBSET Names] /\ unlooked \subseteq Path
      /\ f.listed \subseteq Path /\ To \in f.dirs
  BY Fields DEF MakeTarget, Inv, TypeOK, Shape, Disk, Stamps, Move
<1>2. Now \in Names /\ p \in Path /\ p # At(Now, From) /\ p[1] = To
  BY <1>1, NowIsLeft, PathsAre DEF Inv
<1>3. CASE ~permitted
  <2>1. f' = FileRefused(f, "not-permitted") /\ unlooked' = unlooked
    BY <1>3 DEF MakeTarget
  <2> QED BY <1>1, <2>1, RefusesKeeps DEF Refusals
<1>4. CASE permitted
  <2>1. /\ f' = Started(d, Mover, p, f.move.text) /\ unlooked' = unlooked \ {p}
    BY <1>4 DEF MakeTarget, Looked
  <2>2. created \in File /\ created.there /\ created.stamp >= f.disk[p].stamp
    BY <1>1, <1>2 DEF File, Put, Empty
  <2>3. /\ mv \in Move /\ mv.pc = "write" /\ mv.kind = f.move.kind /\ mv.left = f.move.left /\ f.move.text \in Int
        /\ mv.moved = f.move.moved /\ mv.awaits = f.move.awaits /\ mv.text = f.move.text
    BY <1>1 DEF Move, MovePc
  <2>4. held \in Disk /\ stamps \in Stamps /\ listed \in SUBSET Path
    BY <1>1, <1>2, <2>2 DEF Disk, Stamps, File
  <2>5. /\ f.disk[p] \in File
        /\ \A q \in Path : held[q] = IF q = p THEN created ELSE f.disk[q]
        /\ \A q \in Path : stamps[q] = IF q = p THEN created.stamp ELSE f.stamps[q]
    BY <1>1, <1>2
  <2> HIDE DEF created, mv, held, stamps, listed
  <2>6. /\ d \in Folder /\ d.disk = held /\ d.stamps = stamps /\ d.listed = listed /\ d.move = mv
        /\ \A x \in {"dirs", "text", "models", "remote", "jobs", "slot", "timers", "deadlines"} : d[x] = f[x]
    BY <1>1, <2>3, <2>4 DEF Folder
  <2>7. Mover \in Jobs /\ Mover \notin Names /\ Names \subseteq Jobs /\ \A n \in Names : n \in Jobs \ {Mover}
    BY NoJobIsAJob
  <2> HIDE DEF d, p
  <2>8. /\ f' \in Folder /\ f'.disk = held /\ f'.stamps = stamps /\ f'.listed = listed /\ f'.move = mv
        /\ \A x \in {"dirs", "text", "models", "remote", "slot", "timers", "deadlines"} : f'[x] = f[x]
        /\ f'.jobs[Mover] = [pc |-> "check", path |-> p, text |-> f.move.text, seen |-> stamps[p]]
        /\ \A n \in Names : f'.jobs[n] = f.jobs[n]
    BY <1>2, <2>1, <2>3, <2>6, <2>7, StartedType, StartedEffect
  <2>9. Now' = Now
    BY <2>3, <2>8 DEF Now
  <2>10. MoverStep
    <3>1. \A q \in Path : f'.disk[q].stamp >= f.disk[q].stamp
      BY <1>1, <2>2, <2>5, <2>8 DEF File
    <3> QED BY <1>1, <2>8, <3>1 DEF MoverStep
  <2>11. MoverJob
    BY <1>2, <2>3, <2>8, <2>9 DEF MoverJob, p
  <2>12. SettleKept
    BY <2>3, <2>8 DEF SettleKept
  <2>13. \A n \in Names : f'.disk[At(n, From)] = f.disk[At(n, From)] /\ At(n, From) # p
    BY <1>2, <2>5, <2>8, PathsAre DEF p
  <2>14. DiskKept
    BY <1>1, <2>8, <2>13 DEF DiskKept, Inv, Saved, Honest, There, listed
  <2>15. StampsKept
    <3>1. ASSUME NEW q \in Path
          PROVE  f'.stamps[q] <= f'.disk[q].stamp
                 /\ (q \in unlooked' => q \in unlooked /\ f'.stamps[q] < f'.disk[q].stamp)
      BY <1>1, <2>1, <2>2, <2>5, <2>8 DEF Inv, Looks, File
    <3> QED BY <3>1 DEF StampsKept
  <2>16. Shape'
    <3>1. \A q \in Path : f'.disk[q].there => q[1] \in f'.dirs
      BY <1>1, <1>2, <2>5, <2>8 DEF Inv, Shape
    <3>2. disposed => f.timers = {} /\ f.deadlines = {} /\ f.models = {}
      BY DEF Inv, Shape
    <3> QED BY <1>1, <2>3, <2>8, <3>1, <3>2 DEF Shape
  <2>17. \A n \in Names : n # Now => f'.disk[At(n, To)] = f.disk[At(n, To)]
    BY <1>2, <2>5, <2>8, PathsAre DEF p
  <2>18. Steps'
    <3>1. ASSUME NEW n \in Honest, floor[n] >= 0
          PROVE  /\ InFrom(n)' <=> InFrom(n)
                 /\ n # Now => (InTo(n)' <=> InTo(n))
                 /\ n = Now => InFrom(n) /\ f.move.text >= floor[n]
                 /\ InFrom(n) \/ InTo(n)
                 /\ f.move.kind = "folder" => IF n \in f.move.left THEN InFrom(n) ELSE n \in f.move.moved /\ InTo(n)
      BY <1>1, <2>13, <2>17, <3>1 DEF Inv, Steps, InFrom, InTo, There, Honest, Stages
    <3>2. Now \in f.move.left
      BY <1>1, NowIsLeft DEF Inv
    <3> QED BY <1>1, <2>3, <2>8, <2>9, <3>1, <3>2 DEF Steps, Honest
  <2>19. Nothing'
    <3>1. \A n \in Names : n # Now => (There(n, To)' <=> There(n, To))
      BY <2>17 DEF There
    <3> QED BY <1>1, <2>3, <2>8, <2>9, <3>1 DEF Inv, Nothing, LeavesNothing, Honest
  <2>20. TypeOK'
    BY <1>1, <2>1, <2>8 DEF Inv, TypeOK
  <2> QED BY <2>10, <2>11, <2>12, <2>14, <2>15, <2>16, <2>18, <2>19, <2>20, MoverJobs, MoverSaved DEF Inv
<1> QED BY <1>3, <1>4

\* What remove() leaves of the paths removed, and of the others.
LEMMA RemovedEffect ==
    ASSUME NEW d \in Folder, NEW ps \in SUBSET Path
    PROVE  LET e == Removed(d, ps)
           IN  /\ e \in Folder
               /\ \A x \in {"dirs", "text", "models", "timers", "deadlines", "remote", "jobs", "slot", "move"} :
                     e[x] = d[x]
               /\ e.listed = d.listed \ ps
               /\ \A p \in Path : /\ e.disk[p].stamp = d.disk[p].stamp
                                  /\ p \in ps => ~e.disk[p].there /\ e.stamps[p] = 0
                                  /\ p \notin ps => e.disk[p] = d.disk[p] /\ e.stamps[p] = d.stamps[p]
<1> DEFINE held == [p \in Path |-> IF p \in ps THEN [there |-> FALSE, text |-> Empty, stamp |-> d.disk[p].stamp]
                                   ELSE d.disk[p]]
           stamps == [p \in Path |-> IF p \in ps THEN 0 ELSE d.stamps[p]]
           listed == d.listed \ ps
           g == [d EXCEPT !.disk = held]
           e == [g EXCEPT !.listed = listed, !.stamps = stamps]
<1>1. d.disk \in [Path -> File] /\ d.stamps \in [Path -> Nat] /\ d.listed \subseteq Path
  BY Fields DEF Disk, Stamps
<1>2. held \in Disk /\ stamps \in Stamps /\ listed \in SUBSET Path
  BY <1>1 DEF Disk, Stamps, File, Empty
<1>3. \A p \in Path : /\ held[p].stamp = d.disk[p].stamp
                      /\ p \in ps => ~held[p].there /\ stamps[p] = 0
                      /\ p \notin ps => held[p] = d.disk[p] /\ stamps[p] = d.stamps[p]
  BY <1>1
<1> HIDE DEF held
<1>4. g \in Folder /\ g.disk = held
      /\ \A x \in {"stamps", "listed", "dirs", "text", "models", "timers", "deadlines", "remote", "jobs", "slot", "move"} :
            g[x] = d[x]
  BY <1>2 DEF Folder
<1>5. Removed(d, ps) = e
  <2>1. Deleted(d, ps) = g
    BY DEF Deleted, held
  <2>2. Forgot(g, ps) = [g EXCEPT !.listed = g.listed \ ps,
                                  !.stamps = [p \in Path |-> IF p \in ps THEN 0 ELSE g.stamps[p]]]
    BY DEF Forgot
  <2> HIDE DEF g
  <2> QED BY <1>4, <2>1, <2>2 DEF Removed
<1> HIDE DEF stamps, listed, g
<1>6. e \in Folder /\ e.listed = listed /\ e.stamps = stamps
      /\ \A x \in {"disk", "dirs", "text", "models", "timers", "deadlines", "remote", "jobs", "slot", "move"} :
            e[x] = g[x]
  BY <1>2, <1>4 DEF Folder
<1> HIDE DEF e
<1> QED BY <1>3, <1>4, <1>5, <1>6 DEF listed

\* A step of a move that removes files and forgets them.
LEMMA RemovesStep ==
    ASSUME Inv, NEW ps \in SUBSET Path, f' \in Folder, f.move.pc # "write", f'.move.pc # "settle",
           \A x \in {"disk", "stamps", "listed", "text", "models", "timers", "deadlines", "remote", "jobs", "slot"} :
               f'[x] = Removed(f, ps)[x],
           UNCHANGED <<permitted, disposed, unlooked, theirs, floor, stood>>
    PROVE  /\ TypeOK' /\ MoverStep /\ MoverJob /\ JobsInPlace' /\ Looks' /\ Saved' /\ Floors'
           /\ f'.models = f.models /\ f'.jobs = f.jobs
           /\ \A p \in Path : /\ p \in ps => ~f'.disk[p].there
                              /\ p \notin ps => f'.disk[p] = f.disk[p]
<1> DEFINE e == Removed(f, ps)
<1>1. f \in Folder /\ f.disk \in [Path -> File] /\ f.stamps \in [Path -> Nat] /\ unlooked \subseteq Path
  BY Fields DEF Inv, TypeOK, Disk, Stamps
<1>2. /\ e \in Folder
      /\ \A x \in {"dirs", "text", "models", "timers", "deadlines", "remote", "jobs", "slot", "move"} :
            e[x] = f[x]
      /\ e.listed = f.listed \ ps
      /\ \A p \in Path : /\ e.disk[p].stamp = f.disk[p].stamp
                         /\ p \in ps => ~e.disk[p].there /\ e.stamps[p] = 0
                         /\ p \notin ps => e.disk[p] = f.disk[p] /\ e.stamps[p] = f.stamps[p]
  BY <1>1, RemovedEffect
<1> HIDE DEF e
<1>3. /\ f'.listed = f.listed \ ps
      /\ \A x \in {"text", "models", "timers", "deadlines", "remote", "jobs", "slot"} : f'[x] = f[x]
      /\ \A p \in Path : /\ f'.disk[p].stamp = f.disk[p].stamp
                         /\ p \in ps => ~f'.disk[p].there /\ f'.stamps[p] = 0
                         /\ p \notin ps => f'.disk[p] = f.disk[p] /\ f'.stamps[p] = f.stamps[p]
  BY <1>2 DEF e
<1>4. MoverStep
  BY <1>1, <1>3 DEF MoverStep, File
<1>5. MoverJob /\ SettleKept
  BY <1>3, MoverWaits DEF MoverJob, SettleKept
<1>6. StampsKept
  <2>1. ASSUME NEW p \in Path
        PROVE  /\ f'.stamps[p] <= f'.disk[p].stamp
               /\ p \in unlooked' => f'.stamps[p] < f'.disk[p].stamp /\ p \in unlooked
    <3>1. f.stamps[p] <= f.disk[p].stamp /\ (p \in unlooked => f.stamps[p] < f.disk[p].stamp)
          /\ f.stamps[p] \in Nat /\ f.disk[p].stamp \in Nat
      BY <1>1 DEF Inv, Looks, File
    <3> QED BY <1>3, <3>1
  <2> QED BY <2>1 DEF StampsKept
<1>7. DiskKept
  <2>1. ASSUME NEW n \in Honest
        PROVE  /\ There(n, From)' <=> At(n, From) \in f'.listed
               /\ There(n, From)' => There(n, From) /\ f'.disk[At(n, From)].text = f.disk[At(n, From)].text
    <3>1. At(n, From) \in Path /\ (There(n, From) <=> At(n, From) \in f.listed)
      BY PathsAre DEF Honest, Inv, Saved
    <3> QED BY <1>3, <3>1 DEF There
  <2> QED BY <1>3, <2>1 DEF DiskKept, Honest
<1>8. TypeOK'
  BY DEF Inv, TypeOK
<1> QED BY <1>3, <1>4, <1>5, <1>6, <1>7, <1>8, MoverJobs, MoverSaved

LEMMA UndoTargetStep ==
    ASSUME Inv, UndoTarget
    PROVE  Inv' /\ MoverStep /\ MoverJob
<1>1. /\ f \in Folder /\ f.move \in Move /\ f.move.pc = "undo" /\ f.move.left # {} /\ permitted \in BOOLEAN
      /\ UNCHANGED <<permitted, disposed, unlooked, theirs, floor, stood>>
      /\ f.move.outcome \in Outcomes \cup Refusals
  BY Fields DEF UndoTarget, Inv, TypeOK, Shape, ghosts, Move
<1>2. CASE ~permitted
  <2>1. f' = FileRefused(f, f.move.outcome)
    BY <1>2 DEF UndoTarget
  <2> QED BY <1>1, <1>2, <2>1, RefusesKeeps
<1>3. CASE permitted
  <2> DEFINE ps == {At(Now, To)}
             d == Removed(f, ps)
             why == f.move.outcome
  <2>1. f' = FileRefused(d, why)
    BY <1>3 DEF UndoTarget
  <2>2. Now \in Names /\ ps \in SUBSET Path
    BY <1>1, NowIsLeft, PathsAre DEF Inv
  <2>3. d \in Folder /\ d.move = f.move /\ d.dirs = f.dirs
    BY <1>1, <2>2, RemovedEffect
  <2> HIDE DEF ps
  <2>4. PICK mv \in Move : f' = [d EXCEPT !.move = mv] /\ FileEnds(f.move, mv, why)
    BY <1>1, <2>1, <2>3, FileRefusedEffect
  <2>5. /\ f' \in Folder /\ f'.move = mv
        /\ \A x \in {"disk", "stamps", "listed", "dirs", "text", "models", "timers", "deadlines", "remote", "jobs", "slot"} :
              f'[x] = d[x]
    BY <2>3, <2>4 DEF Folder
  <2>6. f'.move.pc # "settle" /\ f.move.pc # "write" /\ FileEnds(f.move, f'.move, why)
    BY <1>1, <2>4, <2>5 DEF FileEnds
  <2>7. /\ TypeOK' /\ MoverStep /\ MoverJob /\ JobsInPlace' /\ Looks' /\ Saved' /\ Floors'
        /\ f'.models = f.models
        /\ \A p \in Path : /\ p \in ps => ~f'.disk[p].there
                           /\ p \notin ps => f'.disk[p] = f.disk[p]
    BY <1>1, <2>2, <2>5, <2>6, RemovesStep
  <2>8. /\ \A n \in Names : f'.disk[At(n, From)] = f.disk[At(n, From)]
        /\ \A n \in Names : n # Now => f'.disk[At(n, To)] = f.disk[At(n, To)]
        /\ ~f'.disk[At(Now, To)].there
    BY <2>2, <2>7, PathsAre DEF ps
  <2>9. Shape' /\ Steps' /\ Nothing'
    BY <1>1, <2>3, <2>5, <2>6, <2>7, <2>8, FileEndsWell
  <2> QED BY <2>7, <2>9 DEF Inv
<1> QED BY <1>2, <1>3

\* What a step keeps of the shape when it takes files away and moves on.
LEMMA RemovesShape ==
    ASSUME Inv, MoverStep, f'.models = f.models, f'.move.awaits = FALSE,
           \A p \in Path : f'.disk[p].there => f.disk[p].there /\ p[1] \in f'.dirs,
           f'.move.pc \in {"idle", "read", "publish"},
           f'.move.pc # "idle" => f'.move.kind \in {"file", "folder"},
           f'.move.pc = "read" => f'.move.kind = "folder",
           f'.move.pc = "publish" => f'.move.outcome \in {"moved", "partial"}
    PROVE  Shape'
<1>1. disposed' => f'.timers = {} /\ f'.deadlines = {} /\ f'.models = {}
  BY DEF Inv, Shape, MoverStep
<1> QED BY <1>1 DEF Shape

LEMMA DropSourceStep ==
    ASSUME Inv, DropSource
    PROVE  Inv' /\ MoverStep /\ MoverJob
<1>1. /\ f \in Folder /\ f.move \in Move /\ f.move.pc = "drop" /\ f.move.left # {} /\ permitted \in BOOLEAN
      /\ UNCHANGED <<permitted, disposed, unlooked, theirs, floor, stood>>
      /\ f.move.kind \in {"file", "folder"} /\ f.move.awaits = FALSE
      /\ stood \in [dir : BOOLEAN, names : SUBSET Names]
  BY Fields DEF DropSource, Inv, TypeOK, Shape, ghosts, Move
<1>2. Now \in Names /\ Now \in f.move.left
  BY <1>1, NowIsLeft DEF Inv
<1>3. CASE ~permitted
  <2> DEFINE mv == [f.move EXCEPT !.pc = "publish", !.outcome = "partial"]
  <2>1. f' = [f EXCEPT !.move = mv]
    BY <1>3 DEF DropSource
  <2>2. /\ mv \in Move /\ mv.pc = "publish" /\ mv.outcome = "partial" /\ mv.kind = f.move.kind
        /\ mv.awaits = f.move.awaits
    BY <1>1 DEF Move, MovePc, Outcomes
  <2> HIDE DEF mv
  <2>3. PlainStep /\ f'.move = mv /\ f'.dirs = f.dirs /\ f'.jobs = f.jobs
    BY <1>1, <2>1, <2>2, MoveTo
  <2>4. MoverJob /\ SettleKept
    BY <1>1, <2>2, <2>3, MoverWaits DEF MoverJob, SettleKept
  <2>5. Shape'
    <3>1. \A q \in Path : f.disk[q].there => q[1] \in f'.dirs
      BY <2>3 DEF Inv, Shape
    <3> QED BY <1>1, <2>2, <2>3, <3>1, PlainShape
  <2>6. Steps'
    BY <2>2, <2>3, PlainFiles DEF Inv, Steps, Stages, PlainStep, MoverStep
  <2>7. Nothing'
    BY <2>2, <2>3 DEF Nothing, LeavesNothing
  <2> QED BY <1>1, <2>3, <2>4, <2>5, <2>6, <2>7, PlainKeeps, PlainType DEF Inv, PlainStep
<1>4. CASE permitted
  <2> DEFINE ps == {At(Now, From)}
             d == Removed(f, ps)
             done == [d EXCEPT !.move.moved = @ \cup {Now}, !.move.left = @ \ {Now}]
             mv == IF f.move.kind = "file"
                   THEN [f.move EXCEPT !.moved = @ \cup {Now}, !.left = @ \ {Now},
                                       !.pc = "publish", !.outcome = "moved"]
                   ELSE [f.move EXCEPT !.moved = @ \cup {Now}, !.left = @ \ {Now}, !.pc = "read"]
  <2>1. ps \in SUBSET Path
    BY <1>2, PathsAre
  <2>2. d \in Folder /\ d.move = f.move /\ d.dirs = f.dirs
    BY <1>1, <2>1, RemovedEffect
  <2>3. f' = IF f.move.kind = "file"
             THEN [done EXCEPT !.move.pc = "publish", !.move.outcome = "moved"]
             ELSE [done EXCEPT !.move.pc = "read"]
    BY <1>4 DEF DropSource
  <2> HIDE DEF d, done
  <2>4. f' = [d EXCEPT !.move = mv]
    <3> DEFINE m0 == [f.move EXCEPT !.moved = @ \cup {Now}, !.left = @ \ {Now}]
               g == [d EXCEPT !.move = m0]
    <3>1. done = g
      BY <2>2 DEF done
    <3>2. m0 \in Move
      BY <1>1, <1>2 DEF Move
    <3>3. g \in Folder /\ g.move = m0 /\ \A m \in Move : [g EXCEPT !.move = m] = [d EXCEPT !.move = m]
      BY <2>2, <3>2 DEF Folder
    <3> HIDE DEF g, m0
    <3>4. CASE f.move.kind = "file"
      <4>1. f' = [g EXCEPT !.move = [m0 EXCEPT !.pc = "publish", !.outcome = "moved"]]
        <5>1. f' = [g EXCEPT !.move.pc = "publish", !.move.outcome = "moved"]
          BY <2>3, <3>1, <3>4
        <5>2. [g EXCEPT !.move.pc = "publish", !.move.outcome = "moved"]
                = [g EXCEPT !.move = [g.move EXCEPT !.pc = "publish", !.outcome = "moved"]]
          BY <3>3 DEF Folder
        <5> QED BY <3>3, <5>1, <5>2
      <4>2. mv = [m0 EXCEPT !.pc = "publish", !.outcome = "moved"]
        BY <3>4 DEF m0
      <4>3. [m0 EXCEPT !.pc = "publish", !.outcome = "moved"] \in Move
        BY <3>2 DEF Move, MovePc, Outcomes
      <4> QED BY <3>3, <4>1, <4>2, <4>3
    <3>5. CASE f.move.kind # "file"
      <4>1. f' = [g EXCEPT !.move = [m0 EXCEPT !.pc = "read"]]
        BY <2>3, <3>1, <3>3, <3>5
      <4>2. mv = [m0 EXCEPT !.pc = "read"]
        BY <3>5 DEF m0
      <4>3. [m0 EXCEPT !.pc = "read"] \in Move
        BY <3>2 DEF Move, MovePc
      <4> QED BY <3>3, <4>1, <4>2, <4>3
    <3> QED BY <3>4, <3>5
  <2>5. /\ mv \in Move /\ mv.awaits = FALSE /\ mv.kind = f.move.kind /\ mv.left = f.move.left \ {Now}
        /\ mv.moved = f.move.moved \cup {Now}
        /\ IF f.move.kind = "file" THEN mv.pc = "publish" /\ mv.outcome = "moved" ELSE mv.pc = "read"
    BY <1>1, <1>2 DEF Move, MovePc, Outcomes
  <2> HIDE DEF mv, ps
  <2>6. /\ f' \in Folder /\ f'.move = mv /\ f'.dirs = f.dirs
        /\ \A x \in {"disk", "stamps", "listed", "text", "models", "timers", "deadlines", "remote", "jobs", "slot"} :
              f'[x] = d[x]
    BY <2>2, <2>4, <2>5 DEF Folder
  <2>7. mv.pc # "settle" /\ f.move.pc # "write"
    BY <1>1, <2>5
  <2>8. /\ TypeOK' /\ MoverStep /\ MoverJob /\ JobsInPlace' /\ Looks' /\ Saved' /\ Floors'
        /\ f'.models = f.models
        /\ \A p \in Path : /\ p \in ps => ~f'.disk[p].there
                           /\ p \notin ps => f'.disk[p] = f.disk[p]
    BY <1>1, <2>1, <2>6, <2>7, RemovesStep DEF d
  <2>9. /\ \A n \in Names : f'.disk[At(n, To)] = f.disk[At(n, To)]
        /\ \A n \in Names : n # Now => f'.disk[At(n, From)] = f.disk[At(n, From)]
    BY <1>2, <2>8, PathsAre DEF ps
  <2>10. Shape'
    <3>1. \A p \in Path : f'.disk[p].there => f.disk[p].there /\ p[1] \in f'.dirs
      BY <2>6, <2>8 DEF Inv, Shape
    <3> QED BY <1>1, <2>5, <2>6, <2>8, <3>1, RemovesShape
  <2>11. Steps'
    <3>1. ASSUME NEW n \in Honest, floor[n] >= 0
          PROVE  /\ n \in Names /\ (InTo(n) => InTo(n)') /\ (n # Now /\ InFrom(n) => InFrom(n)')
                 /\ n = Now => InTo(n)
                 /\ InFrom(n) \/ InTo(n)
                 /\ f.move.kind = "folder" => IF n \in f.move.left THEN InFrom(n) ELSE n \in f.move.moved /\ InTo(n)
      BY <1>1, <2>9, <3>1 DEF Inv, Steps, InFrom, InTo, There, Honest, Stages
    <3> QED BY <1>1, <2>5, <2>6, <3>1 DEF Steps, Honest
  <2>12. Nothing'
    BY <1>1, <2>5, <2>6 DEF Nothing, LeavesNothing
  <2> QED BY <2>8, <2>10, <2>11, <2>12 DEF Inv
<1> QED BY <1>3, <1>4

LEMMA AbandonStep ==
    ASSUME Inv, Abandon
    PROVE  Inv' /\ MoverStep /\ MoverJob
<1> DEFINE mv == [Idle EXCEPT !.outcome = f.move.outcome]
<1>1. /\ f \in Folder /\ f.move \in Move /\ f.move.pc = "abandon" /\ permitted \in BOOLEAN
      /\ UNCHANGED <<permitted, disposed, unlooked, theirs, floor, stood>>
      /\ f.move.kind = "folder" /\ f.move.moved = {}
      /\ stood \in [dir : BOOLEAN, names : SUBSET Names]
  BY Fields DEF Abandon, Inv, TypeOK, Shape, ghosts, Move
<1>2. mv \in Move /\ mv.pc = "idle" /\ mv.awaits = FALSE
  BY <1>1, IdleIsAMove DEF Move, Idle
<1>3. \A n \in Honest : floor[n] >= 0 => InFrom(n)
  BY <1>1 DEF Inv, Steps, Stages
<1>4. CASE ~permitted
  <2>1. f' = [f EXCEPT !.move = mv]
    BY <1>4 DEF Abandon, Abandoned
  <2> HIDE DEF mv
  <2>2. PlainStep /\ f'.move = mv /\ f'.dirs = f.dirs /\ f'.jobs = f.jobs
    BY <1>1, <1>2, <2>1, MoveTo
  <2>3. MoverJob /\ SettleKept
    BY <1>1, <1>2, <2>2, MoverWaits DEF MoverJob, SettleKept
  <2>4. Shape'
    <3>1. \A q \in Path : f.disk[q].there => q[1] \in f'.dirs
      BY <2>2 DEF Inv, Shape
    <3> QED BY <1>2, <2>2, <3>1, PlainShape
  <2>5. Steps'
    BY <1>2, <2>2, PlainFiles DEF Inv, Steps, Stages, PlainStep, MoverStep
  <2>6. Nothing'
    BY <1>1, <1>4 DEF Nothing
  <2> QED BY <1>1, <2>2, <2>3, <2>4, <2>5, <2>6, PlainKeeps, PlainType DEF Inv, PlainStep
<1>5. CASE permitted
  <2> DEFINE ps == Under(To)
             d == Removed(f, ps)
  <2>1. ps \in SUBSET Path
    BY PathsAre
  <2>2. d \in Folder /\ d.dirs = f.dirs /\ f.dirs \ {To} \in SUBSET {From, To}
    BY <1>1, <2>1, RemovedEffect, Fields
  <2>3. f' = [[d EXCEPT !.dirs = @ \ {To}] EXCEPT !.move = mv]
    BY <1>5 DEF Abandon, Abandoned, RemovedDir
  <2> HIDE DEF d, mv, ps
  <2>4. /\ f' \in Folder /\ f'.move = mv /\ f'.dirs = f.dirs \ {To}
        /\ \A x \in {"disk", "stamps", "listed", "text", "models", "timers", "deadlines", "remote", "jobs", "slot"} :
              f'[x] = d[x]
    BY <1>2, <2>2, <2>3 DEF Folder
  <2>5. mv.pc # "settle" /\ f.move.pc # "write"
    BY <1>1, <1>2
  <2>6. /\ TypeOK' /\ MoverStep /\ MoverJob /\ JobsInPlace' /\ Looks' /\ Saved' /\ Floors'
        /\ f'.models = f.models
        /\ \A p \in Path : /\ p \in ps => ~f'.disk[p].there
                           /\ p \notin ps => f'.disk[p] = f.disk[p]
    BY <1>1, <2>1, <2>4, <2>5, RemovesStep DEF d
  <2>7. \A n \in Names : f'.disk[At(n, From)] = f.disk[At(n, From)] /\ ~f'.disk[At(n, To)].there
    BY <2>6, PathsAre DEF ps
  <2>8. Shape'
    <3>1. \A p \in Path : f'.disk[p].there => f.disk[p].there /\ p[1] \in f'.dirs
      <4> TAKE p \in Path
      <4>1. p[1] \in {From, To} /\ p[2] \in Names /\ p = At(p[2], p[1])
        BY PathsAre
      <4>2. f'.disk[p].there => p[1] = From /\ f.disk[p].there
        BY <2>7, <4>1
      <4> QED BY <2>4, <4>2, PathsAre DEF Inv, Shape
    <3> QED BY <1>2, <2>4, <2>6, <3>1, RemovesShape
  <2>9. Steps'
    <3>1. \A n \in Honest : floor[n] >= 0 => InFrom(n)'
      BY <1>3, <2>7 DEF InFrom, There, Honest
    <3> QED BY <1>1, <1>2, <2>4, <3>1 DEF Steps, Stages, Honest
  <2>10. Nothing'
    BY <1>2, <2>4, <2>7 DEF Nothing, LeavesNothing, Honest, There
  <2> QED BY <2>6, <2>8, <2>9, <2>10 DEF Inv
<1> QED BY <1>4, <1>5

LEMMA SweepStep ==
    ASSUME Inv, Sweep
    PROVE  Inv' /\ MoverStep /\ MoverJob
<1>1. /\ f \in Folder /\ f.move \in Move /\ f.move.pc = "read" /\ f.move.left = {} /\ permitted \in BOOLEAN
      /\ UNCHANGED <<permitted, disposed, unlooked, theirs, floor, stood>>
      /\ f.move.kind = "folder" /\ f.move.awaits = FALSE
      /\ stood \in [dir : BOOLEAN, names : SUBSET Names]
  BY Fields DEF Sweep, Inv, TypeOK, Shape, ghosts, Move
<1>2. \A n \in Honest : floor[n] >= 0 => InTo(n)
  BY <1>1 DEF Inv, Steps, Stages
<1>3. CASE ~permitted
  <2> DEFINE mv == [f.move EXCEPT !.pc = "publish", !.outcome = "partial"]
  <2>1. f' = [f EXCEPT !.move = mv]
    BY <1>3 DEF Sweep
  <2>2. /\ mv \in Move /\ mv.pc = "publish" /\ mv.outcome = "partial" /\ mv.kind = f.move.kind
        /\ mv.awaits = f.move.awaits
    BY <1>1 DEF Move, MovePc, Outcomes
  <2> HIDE DEF mv
  <2>3. PlainStep /\ f'.move = mv /\ f'.dirs = f.dirs /\ f'.jobs = f.jobs
    BY <1>1, <2>1, <2>2, MoveTo
  <2>4. MoverJob /\ SettleKept
    BY <1>1, <2>2, <2>3, MoverWaits DEF MoverJob, SettleKept
  <2>5. Shape'
    <3>1. \A q \in Path : f.disk[q].there => q[1] \in f'.dirs
      BY <2>3 DEF Inv, Shape
    <3> QED BY <1>1, <2>2, <2>3, <3>1, PlainShape
  <2>6. Steps'
    BY <2>2, <2>3, PlainFiles DEF Inv, Steps, Stages, PlainStep, MoverStep
  <2>7. Nothing'
    BY <2>2, <2>3 DEF Nothing, LeavesNothing
  <2> QED BY <1>1, <2>3, <2>4, <2>5, <2>6, <2>7, PlainKeeps, PlainType DEF Inv, PlainStep
<1>4. CASE permitted
  <2> DEFINE ps == Under(From)
             d == Removed(f, ps)
             mv == [f.move EXCEPT !.pc = "publish", !.outcome = "moved"]
  <2>1. ps \in SUBSET Path
    BY PathsAre
  <2>2. d \in Folder /\ d.dirs = f.dirs /\ d.move = f.move /\ f.dirs \ {From} \in SUBSET {From, To}
    BY <1>1, <2>1, RemovedEffect, Fields
  <2>3. f' = [[d EXCEPT !.dirs = @ \ {From}] EXCEPT !.move.pc = "publish", !.move.outcome = "moved"]
    BY <1>4 DEF Sweep, RemovedDir
  <2>4. /\ mv \in Move /\ mv.pc = "publish" /\ mv.outcome = "moved" /\ mv.kind = f.move.kind
        /\ mv.awaits = f.move.awaits
    BY <1>1 DEF Move, MovePc, Outcomes
  <2> HIDE DEF d, ps
  <2>5. f' = [[d EXCEPT !.dirs = @ \ {From}] EXCEPT !.move = mv]
    <3> DEFINE g == [d EXCEPT !.dirs = @ \ {From}]
    <3>1. g.move = f.move
      BY <2>2 DEF Folder
    <3> HIDE DEF g
    <3>2. f' = [g EXCEPT !.move.pc = "publish", !.move.outcome = "moved"]
      BY <2>3 DEF g
    <3>3. f' = [g EXCEPT !.move = mv]
      BY <3>1, <3>2
    <3> QED BY <3>3 DEF g
  <2> HIDE DEF mv
  <2>6. /\ f' \in Folder /\ f'.move = mv /\ f'.dirs = f.dirs \ {From}
        /\ \A x \in {"disk", "stamps", "listed", "text", "models", "timers", "deadlines", "remote", "jobs", "slot"} :
              f'[x] = d[x]
    BY <2>2, <2>4, <2>5 DEF Folder
  <2>7. mv.pc # "settle" /\ f.move.pc # "write"
    BY <1>1, <2>4
  <2>8. /\ TypeOK' /\ MoverStep /\ MoverJob /\ JobsInPlace' /\ Looks' /\ Saved' /\ Floors'
        /\ f'.models = f.models
        /\ \A p \in Path : /\ p \in ps => ~f'.disk[p].there
                           /\ p \notin ps => f'.disk[p] = f.disk[p]
    BY <1>1, <2>1, <2>6, <2>7, RemovesStep DEF d
  <2>9. \A n \in Names : f'.disk[At(n, To)] = f.disk[At(n, To)] /\ ~f'.disk[At(n, From)].there
    BY <2>8, PathsAre DEF ps
  <2>10. Shape'
    <3>1. \A p \in Path : f'.disk[p].there => f.disk[p].there /\ p[1] \in f'.dirs
      <4> TAKE p \in Path
      <4>1. p[1] \in {From, To} /\ p[2] \in Names /\ p = At(p[2], p[1])
        BY PathsAre
      <4>2. f'.disk[p].there => p[1] = To /\ f.disk[p].there
        BY <2>9, <4>1
      <4> QED BY <2>6, <4>2, PathsAre DEF Inv, Shape
    <3> QED BY <1>1, <2>4, <2>6, <2>8, <3>1, RemovesShape
  <2>11. Steps'
    <3>1. \A n \in Honest : floor[n] >= 0 => InTo(n)'
      BY <1>1, <1>2, <2>9 DEF InTo, There, Honest
    <3> QED BY <1>1, <2>4, <2>6, <3>1 DEF Steps, Stages, Honest
  <2>12. Nothing'
    BY <2>4, <2>6 DEF Nothing, LeavesNothing
  <2> QED BY <2>8, <2>10, <2>11, <2>12 DEF Inv
<1> QED BY <1>3, <1>4

LEMMA PublishStep ==
    ASSUME Inv, Publish
    PROVE  Inv' /\ MoverStep /\ MoverJob
<1> DEFINE mv == [Idle EXCEPT !.outcome = f.move.outcome]
           walk == {p \in Path : f.disk[p].there}
           dropped == {n \in Names : At(n, From) \notin walk}
           d == [f EXCEPT !.move = mv]
<1>1. /\ f \in Folder /\ f.move \in Move /\ f.move.pc = "publish" /\ permitted \in BOOLEAN
      /\ UNCHANGED <<permitted, disposed, unlooked, theirs, floor, stood>>
      /\ f.move.outcome \in {"moved", "partial"} /\ disposed \in BOOLEAN
      /\ stood \in [dir : BOOLEAN, names : SUBSET Names] /\ f.disk \in [Path -> File]
      /\ f.models \subseteq Names /\ f.remote \subseteq Names
  BY Fields DEF Publish, Inv, TypeOK, Shape, ghosts, Move, Disk
<1>2. mv \in Move /\ mv.pc = "idle" /\ mv.awaits = FALSE /\ mv.outcome \notin Refusals
  BY <1>1, IdleIsAMove DEF Move, Idle, Refusals
<1>3. f' = IF disposed THEN d ELSE [d EXCEPT !.listed = walk, !.models = @ \ dropped, !.remote = @ \ dropped]
  BY DEF Publish
<1> HIDE DEF mv
<1>4. \A n \in Honest : floor[n] >= 0 => InFrom(n) \/ InTo(n)
  BY DEF Inv, Steps
<1>5. CASE disposed
  <2>1. f' = [f EXCEPT !.move = mv]
    BY <1>3, <1>5
  <2>2. PlainStep /\ f'.move = mv /\ f'.dirs = f.dirs /\ f'.jobs = f.jobs
    BY <1>1, <1>2, <2>1, MoveTo
  <2>3. MoverJob /\ SettleKept
    BY <1>1, <1>2, <2>2, MoverWaits DEF MoverJob, SettleKept
  <2>4. Shape'
    <3>1. \A q \in Path : f.disk[q].there => q[1] \in f'.dirs
      BY <2>2 DEF Inv, Shape
    <3> QED BY <1>2, <2>2, <3>1, PlainShape
  <2>5. Steps'
    BY <1>1, <1>2, <1>4, <2>2, PlainFiles DEF Steps, Stages
  <2>6. Nothing'
    BY <1>2, <2>2 DEF Nothing, LeavesNothing
  <2> QED BY <1>1, <2>2, <2>3, <2>4, <2>5, <2>6, PlainKeeps, PlainType DEF Inv, PlainStep
<1>6. CASE ~disposed
  <2>1. /\ d \in Folder /\ d.move = mv
        /\ \A x \in {"disk", "stamps", "listed", "dirs", "text", "models", "timers", "deadlines", "remote", "jobs", "slot"} :
              d[x] = f[x]
    BY <1>1, <1>2 DEF Folder
  <2>2. walk \in SUBSET Path /\ f.models \ dropped \in SUBSET Names /\ f.remote \ dropped \in SUBSET Names
    BY <1>1
  <2> HIDE DEF d
  <2>3. /\ \A p \in Path : p \in walk <=> f.disk[p].there
        /\ \A n \in Names : n \in dropped <=> ~f.disk[At(n, From)].there
    BY PathsAre
  <2> HIDE DEF walk, dropped
  <2>4. f' = [d EXCEPT !.listed = walk, !.models = f.models \ dropped, !.remote = f.remote \ dropped]
    BY <1>3, <1>6, <2>1
  <2>5. /\ f' \in Folder /\ f'.move = mv /\ f'.listed = walk /\ f'.models = f.models \ dropped
        /\ f'.remote = f.remote \ dropped
        /\ \A x \in {"disk", "stamps", "dirs", "text", "timers", "deadlines", "jobs", "slot"} : f'[x] = f[x]
    BY <2>1, <2>2, <2>4 DEF Folder
  <2>6. MoverStep
    <3>1. \A p \in Path : f'.disk[p].stamp >= f.disk[p].stamp
      BY <1>1, <2>5 DEF File
    <3> QED BY <1>1, <2>5, <3>1 DEF MoverStep
  <2>7. MoverJob /\ SettleKept
    BY <1>1, <1>2, <2>5, MoverWaits DEF MoverJob, SettleKept
  <2>8. StampsKept
    BY <1>1, <2>5 DEF StampsKept, Inv, Looks
  <2>9. DiskKept
    <3>1. ASSUME NEW n \in Honest
          PROVE  /\ There(n, From)' <=> At(n, From) \in f'.listed
                 /\ There(n, From)' => There(n, From) /\ n \notin dropped
      BY <2>3, <2>5, PathsAre DEF There, Honest
    <3> QED BY <1>1, <2>5, <3>1 DEF DiskKept, Honest
  <2>10. Shape'
    <3>1. \A q \in Path : f'.disk[q].there => q[1] \in f'.dirs
      BY <2>5 DEF Inv, Shape
    <3> QED BY <1>1, <1>2, <1>6, <2>5, <3>1 DEF Shape
  <2>11. Steps'
    BY <1>1, <1>2, <1>4, <2>5 DEF Steps, Stages, Honest, InFrom, InTo, There
  <2>12. Nothing'
    BY <1>2, <2>5 DEF Nothing, LeavesNothing
  <2>13. TypeOK'
    BY <1>1, <2>5 DEF Inv, TypeOK
  <2> QED BY <2>6, <2>7, <2>8, <2>9, <2>10, <2>11, <2>12, <2>13, MoverJobs, MoverSaved DEF Inv
<1> QED BY <1>5, <1>6

\* The settled move: what its documents hold now is what it must keep.
LEMMA SettleDrainsStep ==
    ASSUME Inv, SettleDrains
    PROVE  Inv' /\ f'.jobs = f.jobs
<1> DEFINE mv == [f.move EXCEPT !.at = 0, !.pc = IF f.move.kind = "folder" THEN "survey" ELSE "read"]
<1>1. /\ f \in Folder /\ f.move \in Move /\ f.move.pc = "settle" /\ permitted \in BOOLEAN /\ f.move.left # {}
      /\ UNCHANGED <<permitted, disposed, unlooked, theirs, stood>> /\ ~disposed
      /\ f.text \in [Names -> Nat] /\ floor \in [Names -> Int] /\ f.move.live \subseteq Names
      /\ f.jobs[Mover] = NoJob /\ f.move.kind \in {"file", "folder"} /\ f.move.moved = {}
      /\ f.move.awaits = FALSE
  BY Fields, MoverWaits DEF SettleDrains, Inv, TypeOK, Shape, Move, Texts
<1>2. /\ mv \in Move /\ mv.kind = f.move.kind /\ mv.left = f.move.left /\ mv.moved = f.move.moved
      /\ mv.awaits = FALSE /\ mv.live = f.move.live
      /\ mv.pc = IF f.move.kind = "folder" THEN "survey" ELSE "read"
  BY <1>1 DEF Move, MovePc
<1>3. f' = [f EXCEPT !.move = mv]
  BY DEF SettleDrains
<1>4. floor' = [n \in Names |-> IF n \in f.move.live THEN f.text[n] ELSE floor[n]] /\ Drained(f.move.live)
      /\ Unsettled = {}
  BY DEF SettleDrains
<1> HIDE DEF mv
<1>5. /\ f' \in Folder /\ f'.move = mv
      /\ \A x \in {"disk", "stamps", "listed", "dirs", "text", "models", "timers", "deadlines", "remote", "jobs", "slot"} :
            f'[x] = f[x]
  BY <1>1, <1>2, <1>3 DEF Folder
<1>6. ASSUME NEW n \in Names
      PROVE  /\ n \in f.move.live => /\ floor'[n] = f.text[n] /\ f'.jobs[n] = NoJob
                                     /\ n \notin f.timers \cup f.remote /\ ~Writing(f, n)
             /\ n \notin f.move.live => floor'[n] = floor[n]
             /\ floor'[n] \in Int
  BY <1>1, <1>4, <1>5 DEF Drained, Pending, Writing
<1>7. ASSUME NEW n \in Honest, n \in f.move.live
      PROVE  There(n, From) /\ f.disk[At(n, From)].text = f.text[n]
  <2>1. n \in Names /\ n \notin theirs /\ There(n, From)
    BY <1>1, <1>7 DEF Honest, Inv, Floors
  <2>2. n \notin f.timers \cup f.remote /\ ~Writing(f, n)
    BY <1>6, <1>7, <2>1
  <2> QED BY <2>1, <2>2 DEF Inv, Saved, Honest
<1>8. TypeOK'
  <2>1. floor' \in [Names -> Int]
    BY <1>4, <1>6
  <2> QED BY <1>1, <1>5, <2>1 DEF Inv, TypeOK
<1>9. JobsInPlace'
  BY <1>1, <1>5 DEF Inv, JobsInPlace
<1>10. Looks'
  BY <1>1, <1>5 DEF Inv, Looks
<1>11. Shape'
  BY <1>1, <1>2, <1>5 DEF Inv, Shape
<1>12. Saved'
  BY <1>1, <1>5 DEF Inv, Saved, Honest, There, Writing
<1>13. Floors'
  <2>1. ASSUME NEW n \in Names
        PROVE  /\ f'.text[n] >= floor'[n]
               /\ Writing(f', n) => /\ f'.jobs[n].text >= floor'[n]
                                    /\ f'.slot[n].again => f'.slot[n].text >= floor'[n]
    <3>1. CASE n \in f.move.live
      BY <1>1, <1>5, <1>6, <3>1 DEF Writing
    <3>2. CASE n \notin f.move.live
      BY <1>5, <1>6, <3>2 DEF Writing, Inv, Floors
    <3> QED BY <3>1, <3>2
  <2>2. ASSUME NEW n \in Honest, There(n, From)
        PROVE  f.disk[At(n, From)].text >= floor'[n]
    <3>1. n \in Names
      BY DEF Honest
    <3>2. CASE n \in f.move.live
      BY <1>1, <1>6, <1>7, <3>1, <3>2
    <3>3. CASE n \notin f.move.live
      BY <1>6, <2>2, <3>1, <3>3 DEF Inv, Floors
    <3> QED BY <3>2, <3>3
  <2>3. f'.move.pc # "settle"
    BY <1>2, <1>5
  <2> QED BY <1>1, <1>5, <2>1, <2>2, <2>3 DEF Floors, Honest, There
<1>14. Steps'
  <2>1. ASSUME NEW n \in Honest, floor'[n] >= 0 PROVE InFrom(n)' \/ InTo(n)'
    <3>1. n \in Names
      BY DEF Honest
    <3>2. CASE n \in f.move.live
      BY <1>5, <1>7, <3>2 DEF InFrom, There
    <3>3. CASE n \notin f.move.live
      BY <1>5, <1>6, <2>1, <3>1, <3>3 DEF Inv, Steps, InFrom, InTo, There
    <3> QED BY <3>2, <3>3
  <2>2. f'.move.pc \in {"survey", "read"} /\ (f'.move.pc = "read" => f'.move.kind # "folder")
    BY <1>2, <1>5
  <2> QED BY <1>1, <2>1, <2>2 DEF Steps, Stages, Honest
<1>15. Nothing'
  BY <1>1, <1>2, <1>5 DEF Inv, Nothing, LeavesNothing, Honest, There
<1> QED BY <1>5, <1>8, <1>9, <1>10, <1>11, <1>12, <1>13, <1>14, <1>15 DEF Inv

-----------------------------------------------------------------------------
(* The person, and another program.                                        *)

\* Access taken back ends what the invariant says of a refused move.
LEMMA RevokeStep ==
    ASSUME Inv, Revoke
    PROVE  Inv' /\ f' = f
<1>1. f' = f /\ ~permitted' /\ permitted' \in BOOLEAN /\ UNCHANGED <<disposed, unlooked, theirs, floor, stood>>
  BY DEF Revoke, ghosts
<1>2. TypeOK'
  BY <1>1 DEF Inv, TypeOK
<1>3. JobsInPlace' /\ Looks' /\ Shape'
  <2>1. JobsInPlace'
    BY <1>1 DEF Inv, JobsInPlace, Now
  <2>2. Looks'
    BY <1>1 DEF Inv, Looks
  <2>3. Shape'
    BY <1>1 DEF Inv, Shape
  <2> QED BY <2>1, <2>2, <2>3
<1>4. Saved' /\ Floors'
  <2>1. Saved'
    BY <1>1 DEF Inv, Saved, Honest, There
  <2>2. Floors'
    BY <1>1 DEF Inv, Floors, Honest, There
  <2> QED BY <2>1, <2>2
<1>5. Steps' /\ Nothing'
  <2>1. Steps'
    BY <1>1 DEF Inv, Steps, Honest, InFrom, InTo, There, Now
  <2>2. Nothing'
    BY <1>1 DEF Nothing
  <2> QED BY <2>1, <2>2
<1> QED BY <1>1, <1>2, <1>3, <1>4, <1>5 DEF Inv

\* Another program changes one file, and its name is theirs from then on.
ForeignStep(p) ==
    /\ f' \in Folder
    /\ \A x \in {"stamps", "listed", "dirs", "text", "models", "timers", "deadlines", "remote", "jobs", "slot", "move"} :
          f'[x] = f[x]
    /\ \A q \in Path \ {p} : f'.disk[q] = f.disk[q]
    /\ f'.disk[p].stamp >= f.disk[p].stamp
    /\ f'.disk[p].there => p[1] \in f.dirs
    /\ unlooked' \subseteq unlooked \cup {p} /\ theirs' = theirs \cup {p[2]}
    /\ p \in unlooked' => p \in unlooked \/ f'.disk[p].stamp > f.disk[p].stamp
    /\ UNCHANGED <<permitted, disposed, floor, stood>>

\* Such a step keeps the invariant: of a name that is theirs it says nothing but the stamps.
LEMMA ForeignKeeps ==
    ASSUME Inv, NEW p \in Path, ForeignStep(p)
    PROVE  Inv' /\ f'.jobs = f.jobs
<1>1. /\ f'.jobs = f.jobs /\ f'.move = f.move /\ f.disk \in [Path -> File] /\ f'.disk \in [Path -> File]
      /\ f.stamps \in [Path -> Nat] /\ p[2] \in Names /\ unlooked \subseteq Path /\ theirs \subseteq Names
      /\ UNCHANGED <<permitted, disposed, floor, stood>>
  BY Fields, PathsAre DEF ForeignStep, Inv, TypeOK, Disk, Stamps
<1>2. MoverStep
  <2>1. \A q \in Path : f'.disk[q].stamp >= f.disk[q].stamp
    BY <1>1 DEF ForeignStep, File
  <2> QED BY <2>1 DEF MoverStep, ForeignStep
<1>3. MoverJob
  BY <1>1 DEF MoverJob
<1>4. \A n \in Honest' : /\ n \in Honest /\ n \in Names
                         /\ \A dir \in {From, To} : f'.disk[At(n, dir)] = f.disk[At(n, dir)]
  <2> TAKE n \in Honest'
  <2>1. n \in Honest /\ n \in Names /\ n # p[2]
    BY DEF Honest, ForeignStep
  <2>2. \A dir \in {From, To} : At(n, dir) \in Path \ {p}
    BY <2>1, PathsAre
  <2> QED BY <2>1, <2>2 DEF ForeignStep
<1>5. StampsKept
  <2>1. ASSUME NEW q \in Path
        PROVE  /\ f'.stamps[q] <= f'.disk[q].stamp
               /\ q \in unlooked' => /\ f'.stamps[q] < f'.disk[q].stamp
                                     /\ q \in unlooked \/ f.disk[q].stamp < f'.disk[q].stamp
    <3>1. /\ f.stamps[q] <= f.disk[q].stamp /\ (q \in unlooked => f.stamps[q] < f.disk[q].stamp)
          /\ f.stamps[q] \in Nat /\ f.disk[q].stamp \in Nat /\ f'.disk[q].stamp \in Nat
          /\ f'.stamps = f.stamps
      BY <1>1 DEF Inv, Looks, File, ForeignStep
    <3>2. CASE q = p
      BY <3>1, <3>2 DEF ForeignStep
    <3>3. CASE q # p
      BY <3>1, <3>3 DEF ForeignStep
    <3> QED BY <3>2, <3>3
  <2> QED BY <2>1 DEF StampsKept
<1>6. DiskKept
  <2>1. f'.listed = f.listed /\ f'.models = f.models /\ f'.remote = f.remote
    BY DEF ForeignStep
  <2>2. \A n \in Honest' : There(n, From)' <=> There(n, From)
    BY <1>4 DEF There
  <2> QED BY <1>4, <2>1, <2>2 DEF DiskKept, Inv, Saved
<1>7. SettleKept
  <2>1. f'.models = f.models /\ f.move \in Move
    BY Fields DEF ForeignStep, Inv, TypeOK
  <2>2. f.move.pc = "settle" => \A n \in f.move.left \ theirs' : There(n, From)'
    BY <1>4, <2>1 DEF Inv, Floors, Honest, ForeignStep, There, Move
  <2> QED BY <1>1, <2>1, <2>2 DEF SettleKept, Inv, Floors
<1>8. Shape'
  <2>1. \A q \in Path : f'.disk[q].there => q[1] \in f'.dirs
    BY DEF ForeignStep, Inv, Shape
  <2>2. f'.dirs = f.dirs /\ f'.timers = f.timers /\ f'.deadlines = f.deadlines /\ f'.models = f.models
    BY DEF ForeignStep
  <2> QED BY <1>1, <2>1, <2>2 DEF Inv, Shape
<1>9. Now' = Now
  BY <1>1 DEF Now
<1>10. \A n \in Honest' : (InFrom(n)' <=> InFrom(n)) /\ (InTo(n)' <=> InTo(n))
                          /\ \A dir \in {From, To} : There(n, dir)' <=> There(n, dir)
  BY <1>1, <1>4 DEF InFrom, InTo, There
<1>11. Steps'
  BY <1>1, <1>4, <1>9, <1>10 DEF Inv, Steps
<1>12. Nothing'
  <2>1. f'.dirs = f.dirs
    BY DEF ForeignStep
  <2>2. LeavesNothing => LeavesNothing'
    <3>1. \A n \in Names \ theirs' : f'.disk[At(n, To)].there => f.disk[At(n, To)].there /\ n \in Names \ theirs
      BY <1>4 DEF Honest
    <3> QED BY <1>1, <2>1, <3>1 DEF LeavesNothing
  <2> QED BY <1>1, <1>4, <1>9, <1>10, <2>1, <2>2 DEF Inv, Nothing
<1>13. TypeOK'
  <2>1. f' \in Folder /\ unlooked' \subseteq Path /\ theirs' \subseteq Names
    BY <1>1 DEF ForeignStep
  <2> QED BY <1>1, <2>1 DEF Inv, TypeOK
<1> QED BY <1>1, <1>2, <1>3, <1>5, <1>6, <1>7, <1>8, <1>11, <1>12, <1>13, MoverJobs, MoverSaved DEF Inv

LEMMA ForeignWriteStep ==
    ASSUME Inv, NEW p \in Path, ForeignWrite(p)
    PROVE  ForeignStep(p)
<1>1. f \in Folder /\ f.disk \in [Path -> File]
  BY Fields DEF Inv, TypeOK, Disk
<1> DEFINE held == [f.disk EXCEPT ![p] = Put(@, Theirs)]
<1>2. /\ held \in Disk /\ held[p].stamp = f.disk[p].stamp + 1 /\ f.disk[p].stamp \in Nat
      /\ \A q \in Path \ {p} : held[q] = f.disk[q]
  BY <1>1 DEF Disk, File, Put, Theirs
<1>3. f' = [f EXCEPT !.disk = held] /\ p[1] \in f.dirs /\ unlooked' = unlooked \cup {p} /\ theirs' = theirs \cup {p[2]}
      /\ UNCHANGED <<permitted, disposed, floor, stood>>
  BY DEF ForeignWrite
<1> HIDE DEF held
<1>4. /\ f' \in Folder /\ f'.disk = held
      /\ \A x \in {"stamps", "listed", "dirs", "text", "models", "timers", "deadlines", "remote", "jobs", "slot", "move"} :
            f'[x] = f[x]
  BY <1>1, <1>2, <1>3 DEF Folder
<1> QED BY <1>2, <1>3, <1>4 DEF ForeignStep

LEMMA ForeignRemoveStep ==
    ASSUME Inv, NEW p \in Path, ForeignRemove(p)
    PROVE  ForeignStep(p)
<1>1. f \in Folder /\ f.disk \in [Path -> File]
  BY Fields DEF Inv, TypeOK, Disk
<1> DEFINE held == [q \in Path |-> IF q \in {p} THEN [there |-> FALSE, text |-> Empty, stamp |-> f.disk[q].stamp]
                                   ELSE f.disk[q]]
<1>2. /\ held \in Disk /\ held[p].stamp = f.disk[p].stamp /\ f.disk[p].stamp \in Nat /\ ~held[p].there
      /\ \A q \in Path \ {p} : held[q] = f.disk[q]
  BY <1>1 DEF Disk, File, Empty
<1>3. f' = [f EXCEPT !.disk = held] /\ unlooked' = unlooked /\ theirs' = theirs \cup {p[2]}
      /\ UNCHANGED <<permitted, disposed, floor, stood>>
  BY DEF ForeignRemove, Deleted
<1> HIDE DEF held
<1>4. /\ f' \in Folder /\ f'.disk = held
      /\ \A x \in {"stamps", "listed", "dirs", "text", "models", "timers", "deadlines", "remote", "jobs", "slot", "move"} :
            f'[x] = f[x]
  BY <1>1, <1>2, <1>3 DEF Folder
<1> QED BY <1>2, <1>3, <1>4 DEF ForeignStep

-----------------------------------------------------------------------------
(* Every step of the specification.                                        *)

\* The first states, the stages of a move and all steps.
LEMMA InitHolds == Init => Inv
<1> SUFFICES ASSUME Init PROVE Inv
  OBVIOUS
<1>1. PICK last \in Names, dir \in BOOLEAN :
        LET present == {n \in Names : n <= last}
        IN  /\ f = [Start(present) EXCEPT !.dirs = IF dir THEN @ \cup {To} ELSE @]
            /\ stood = [dir |-> dir, names |-> {}]
            /\ floor = [n \in Names |-> IF n \in present THEN 0 ELSE Theirs]
            /\ permitted = TRUE /\ disposed = FALSE /\ unlooked = {} /\ theirs = {}
  BY DEF Init
<1> DEFINE present == {n \in Names : n <= last}
           dirs == IF dir THEN {From, To} ELSE {From}
<1>2. /\ floor = [n \in Names |-> IF n \in present THEN 0 ELSE Theirs] /\ stood = [dir |-> dir, names |-> {}]
      /\ permitted = TRUE /\ disposed = FALSE /\ unlooked = {} /\ theirs = {}
      /\ f = [Start(present) EXCEPT !.dirs = IF dir THEN @ \cup {To} ELSE @] /\ dir \in BOOLEAN
  BY <1>1
<1>3. present \subseteq Names
  OBVIOUS
<1> HIDE DEF present
<1> DEFINE held == [p \in Path |-> [there |-> p \in {From} \X present, stamp |-> 1,
                                    text |-> IF p \in {From} \X present THEN 0 ELSE Empty]]
           stamps == [p \in Path |-> IF p \in {From} \X present THEN 1 ELSE 0]
<1>4. /\ f.disk = held /\ f.stamps = stamps /\ f.listed = {From} \X present /\ f.dirs = dirs
      /\ f.text = [n \in Names |-> 0] /\ f.models = present /\ f.timers = {} /\ f.deadlines = {}
      /\ f.remote = {} /\ f.jobs = [w \in Jobs |-> NoJob]
      /\ f.slot = [n \in Names |-> [text |-> 0, again |-> FALSE]] /\ f.move = Idle
      /\ f = [disk |-> f.disk, stamps |-> f.stamps, listed |-> f.listed, dirs |-> f.dirs,
              text |-> f.text, models |-> f.models, timers |-> f.timers, deadlines |-> f.deadlines,
              remote |-> f.remote, jobs |-> f.jobs, slot |-> f.slot, move |-> f.move]
  BY <1>2 DEF Start
<1>5. /\ \A n \in Names, d \in {From, To} : At(n, d) \in {From} \X present <=> d = From /\ n \in present
      /\ {From} \X present \subseteq Path
      /\ \A p \in {From} \X present : p[1] = From
  BY <1>3, PathsAre DEF At, Path
<1>6. TypeOK
  <2>1. f.disk \in Disk /\ f.stamps \in Stamps
    BY <1>4 DEF Disk, Stamps, File, Empty
  <2>2. f.jobs \in Table /\ f.slot \in Slots /\ f.text \in Texts
    BY <1>4, NoJobIsAJob DEF Table, Slots, Slot, Texts
  <2>3. f.move \in Move
    BY <1>4, IdleIsAMove
  <2>4. f \in Folder
    <3>1. /\ f.listed \subseteq Path /\ f.dirs \subseteq {From, To} /\ f.models \subseteq Names
          /\ f.timers \subseteq Names /\ f.deadlines \subseteq Names /\ f.remote \subseteq Names
      BY <1>3, <1>4, <1>5
    <3> QED BY <1>4, <2>1, <2>2, <2>3, <3>1 DEF Folder
  <2>5. floor \in [Names -> Int]
    BY <1>2 DEF Theirs
  <2>6. stood \in [dir : BOOLEAN, names : SUBSET Names]
    BY <1>2
  <2> QED BY <1>2, <2>4, <2>5, <2>6 DEF TypeOK
<1>7. \A n \in Names, d \in {From, To} :
         /\ There(n, d) <=> d = From /\ n \in present
         /\ d = From /\ n \in present => f.disk[At(n, d)].text = 0
  <2> DEFINE old == {From} \X present
  <2>1. ASSUME NEW p \in Path
        PROVE  (f.disk[p].there <=> p \in old) /\ (p \in old => f.disk[p].text = 0)
    <3>1. f.disk = [q \in Path |-> [there |-> q \in old, stamp |-> 1, text |-> IF q \in old THEN 0 ELSE Empty]]
      BY <1>4
    <3> HIDE DEF old, held
    <3>2. f.disk[p] = [there |-> p \in old, stamp |-> 1, text |-> IF p \in old THEN 0 ELSE Empty]
      BY <3>1
    <3>3. f.disk[p].there = (p \in old)
      BY <3>2
    <3>4. p \in old => f.disk[p].text = 0
      BY <3>2
    <3> QED BY <3>3, <3>4
  <2> HIDE DEF held
  <2>2. TAKE n \in Names, d \in {From, To}
  <2>3. At(n, d) \in Path
    BY PathsAre
  <2> QED BY <1>5, <2>1, <2>3 DEF There
<1>8. /\ \A w \in Jobs : f.jobs[w] = NoJob
      /\ Names \subseteq Jobs /\ Mover \in Jobs /\ NoJob.pc = "none" /\ From # To
  BY <1>4, NoJobIsAJob, PathsAre
<1>9. JobsInPlace
  BY <1>8 DEF JobsInPlace
<1>10. Looks
  <2>1. \A p \in Path : f.stamps[p] <= f.disk[p].stamp
    BY <1>4
  <2> HIDE DEF held, stamps
  <2> QED BY <1>2, <1>8, <2>1 DEF Looks
<1>11. Shape
  <2>1. ASSUME NEW p \in Path, f.disk[p].there PROVE p[1] \in f.dirs
    <3>1. p[1] \in {From, To} /\ p[2] \in Names /\ p = At(p[2], p[1])
      BY PathsAre
    <3>2. p[1] = From
      BY <1>7, <2>1, <3>1 DEF There
    <3> QED BY <1>4, <3>2
  <2> QED BY <1>2, <1>4, <2>1 DEF Shape, Idle
<1>12. Saved
  BY <1>2, <1>4, <1>5, <1>7, <1>8 DEF Saved, Honest, Writing
<1>13. \A n \in Names : floor[n] = IF n \in present THEN 0 ELSE Theirs
  BY <1>2
<1>14. Floors
  BY <1>2, <1>4, <1>7, <1>8, <1>13 DEF Floors, Honest, Writing, Theirs, Idle
<1>15. Steps
  BY <1>2, <1>4, <1>7, <1>13 DEF Steps, Honest, InFrom, Idle, Theirs, Stages
<1>16. Nothing
  BY <1>4 DEF Nothing, LeavesNothing, Idle, Refusals
<1> QED BY <1>6, <1>9, <1>10, <1>11, <1>12, <1>14, <1>15, <1>16 DEF Inv

LEMMA MovesKeep ==
    ASSUME Inv, Moving
    PROVE  Inv'
<1>1. CASE Settle
  BY <1>1, SettleStep, EditorKeeps, SettleDrainsStep
<1>2. CASE SettleEnded
  BY <1>2, SettleEndedStep, EditorKeeps
<1>3. CASE Survey
  BY <1>3, SurveyStep
<1>4. CASE MakeFolder
  BY <1>4, MakeFolderStep
<1>5. CASE ReadSource
  BY <1>5, ReadSourceStep
<1>6. CASE ProbeTarget
  BY <1>6, ProbeTargetStep
<1>7. CASE MakeTarget
  BY <1>7, MakeTargetStep
<1>8. CASE UndoTarget
  BY <1>8, UndoTargetStep
<1>9. CASE DropSource
  BY <1>9, DropSourceStep
<1>10. CASE Abandon
  BY <1>10, AbandonStep
<1>11. CASE Sweep
  BY <1>11, SweepStep
<1>12. CASE Publish
  BY <1>12, PublishStep
<1> QED BY <1>1, <1>2, <1>3, <1>4, <1>5, <1>6, <1>7, <1>8, <1>9, <1>10, <1>11, <1>12 DEF Moving

LEMMA NextKeeps == Inv /\ [Next]_vars => Inv'
<1> SUFFICES ASSUME Inv, [Next]_vars PROVE Inv'
  OBVIOUS
<1>1. ASSUME NEW n \in Names, Type(n) \/ ApplyChange(n) \/ Fires(n) PROVE Inv'
  <2>1. EditorStep
    BY <1>1, TypeStep, ApplyChangeStep, WriteTimerStep, SaveOnDeadlineStep DEF Fires
  <2> QED BY <2>1, EditorKeeps
<1>2. ASSUME NEW w \in Jobs, Writes(w) \/ WriteFails(w) PROVE Inv'
  BY <1>2, WritesKeep
<1>3. ASSUME NEW action \in {"file", "folder"}, NEW names \in SUBSET Names, AskMove(action, names) PROVE Inv'
  BY <1>3, AskMoveStep
<1>4. CASE Moving
  BY <1>4, MovesKeep
<1>5. CASE Dispose
  BY <1>5, DisposeStep, EditorKeeps
<1>6. CASE Revoke
  BY <1>6, RevokeStep
<1>7. ASSUME NEW p \in Path, ForeignWrite(p) \/ ForeignRemove(p) PROVE Inv'
  BY <1>7, ForeignWriteStep, ForeignRemoveStep, ForeignKeeps
<1>8. CASE UNCHANGED vars
  <2>1. /\ f' = f /\ UNCHANGED <<permitted, disposed, unlooked, theirs, floor, stood>>
    BY <1>8 DEF vars, ghosts
  <2>2. TypeOK' /\ JobsInPlace' /\ Looks' /\ Shape'
    BY <2>1 DEF Inv, TypeOK, JobsInPlace, Looks, Shape, Now
  <2>3. Saved' /\ Floors'
    BY <2>1 DEF Inv, Saved, Floors, Honest, There
  <2>4. Steps' /\ Nothing'
    BY <2>1 DEF Inv, Steps, Nothing, LeavesNothing, Honest, InFrom, InTo, There, Now
  <2> QED BY <2>2, <2>3, <2>4 DEF Inv
<1> QED BY <1>1, <1>2, <1>3, <1>4, <1>5, <1>6, <1>7, <1>8 DEF Next

\* What the invariant says of the texts.
LEMMA InvImplies == Inv => WrittenWhenQuiet /\ MoveKeepsTheText
<1> SUFFICES ASSUME Inv PROVE WrittenWhenQuiet /\ MoveKeepsTheText
  OBVIOUS
<1>1. WrittenWhenQuiet
  BY DEF Inv, Saved, WrittenWhenQuiet, Honest, There, Pending
<1>2. KeepsTheText
  <2>1. ASSUME NEW n \in Honest, floor[n] >= 0
        PROVE  \E dir \in {From, To} : f.disk[At(n, dir)].there /\ f.disk[At(n, dir)].text >= floor[n]
    <3>1. InFrom(n) => There(n, From) /\ f.disk[At(n, From)].text >= floor[n]
      BY DEF Inv, Floors, InFrom
    <3>2. InFrom(n) \/ InTo(n)
      BY <2>1 DEF Inv, Steps
    <3> QED BY <3>1, <3>2 DEF InTo, There
  <2> QED BY <2>1 DEF KeepsTheText, Honest
<1>3. LeavesNothing
  BY DEF Inv, Nothing, LeavesNothing
<1> QED BY <1>1, <1>2, <1>3 DEF MoveKeepsTheText

-----------------------------------------------------------------------------
(* No step but the guard's own lets a write pass it.                       *)

\* No write goes from its check to its replacement.
Holds == \A w \in Jobs : f.jobs[w].pc = "check" => f'.jobs[w].pc # "replace"

\* So it is with the steps of the editor, of a move and of a write that ends.
LEMMA EditorHolds ==
    ASSUME EditorStep
    PROVE  Holds
<1>1. \A n \in Names : f'.jobs[n] = f.jobs[n] \/ f'.jobs[n] = NoJob \/ Begun(f, f', n, f.text[n])
  BY DocJob DEF EditorStep
<1>2. f'.jobs[Mover] = f.jobs[Mover] /\ NoJob.pc = "none"
  BY NoJobIsAJob DEF EditorStep, QuietStep
<1>3. \A n \in Names : Begun(f, f', n, f.text[n]) => f'.jobs[n].pc = "check"
  BY DEF Begun
<1>4. ASSUME NEW w \in Jobs, f.jobs[w].pc = "check" PROVE f'.jobs[w].pc # "replace"
  <2>1. CASE f'.jobs[w] = f.jobs[w]
    BY <1>4, <2>1
  <2>2. CASE f'.jobs[w] = NoJob
    BY <1>2, <2>2
  <2>3. CASE w \in Names /\ f'.jobs[w].pc = "check"
    BY <2>3
  <2> QED BY <1>1, <1>2, <1>3, <2>1, <2>2, <2>3 DEF Jobs
<1> QED BY <1>4 DEF Holds

LEMMA MoverHolds ==
    ASSUME MoverStep, MoverJob
    PROVE  Holds
BY NoJobIsAJob DEF MoverStep, MoverJob, Holds, Jobs

LEMMA FailedHolds ==
    ASSUME Inv, NEW n \in Names, f' = Failed(f, n)
    PROVE  Holds
<1>1. Apart(f, f', n) /\ Owed(f', n) /\ NoJob.pc = "none"
  BY FailedEffect, NoJobIsAJob DEF Inv, TypeOK
<1> QED BY <1>1 DEF Apart, Owed, Holds

LEMMA EndsHold ==
    ASSUME Inv, NEW w \in Jobs, (\E why \in Refusals : f' = Refused(f, w, why)) \/ f' = Threw(f, w)
    PROVE  Holds
<1>1. CASE w = Mover
  <2>1. f'.jobs = [f.jobs EXCEPT ![Mover] = NoJob] /\ f.jobs \in [Jobs -> Job]
    BY <1>1, Fields DEF Refused, Threw, Inv, TypeOK, Folder, Table
  <2> QED BY <1>1, <2>1, NoJobIsAJob DEF Holds
<1>2. CASE w # Mover
  BY <1>2, FailedHolds DEF Refused, Threw, Jobs
<1> QED BY <1>1, <1>2

\* The guard is a comparison of stamps, and a stamp the page has not looked at is larger than
\* any it has.
LEMMA WritesLook ==
    ASSUME Inv, NEW v \in Jobs, Writes(v) \/ WriteFails(v)
    PROVE  \A w \in Jobs : f.jobs[w].pc = "check" /\ f'.jobs[w].pc = "replace" => f.jobs[w].path \notin unlooked
<1>1. /\ {"missing", "stale", "not-permitted"} \subseteq Refusals /\ NoJob.pc = "none" /\ f \in Folder
      /\ f.jobs \in [Jobs -> Job] /\ f.disk \in [Path -> File]
  BY NoJobIsAJob, Fields DEF Refusals, Inv, TypeOK, Table, Disk
<1>2. CASE WriteCheck(v)
  <2>1. CASE \E why \in Refusals : f' = Refused(f, v, why)
    BY <2>1, EndsHold DEF Holds
  <2>2. CASE Passes(f.disk[f.jobs[v].path], f.jobs[v]) /\ f' = [f EXCEPT !.jobs[v].pc = "replace"]
    <3>1. f.jobs[v].pc = "check" /\ f.jobs[v] # NoJob
      BY <1>1, <1>2 DEF WriteCheck
    <3>2. f.jobs[v].path \in Path
      BY <3>1, JobPath
    <3>3. f.jobs[v].path \notin unlooked
      BY <1>1, <2>2, <3>1, <3>2 DEF Inv, Looks, Passes, File, Job
    <3>4. \A w \in Jobs \ {v} : f'.jobs[w] = f.jobs[w]
      BY <1>1, <2>2 DEF Folder
    <3> QED BY <3>3, <3>4
  <2> QED BY <1>1, <1>2, <2>1, <2>2 DEF WriteCheck
<1>3. CASE WriteReplace(v)
  <2>1. CASE \E why \in Refusals : f' = Refused(f, v, why)
    BY <2>1, EndsHold DEF Holds
  <2>2. CASE permitted /\ f.disk[f.jobs[v].path].there
    <3>1. f'.jobs = [f.jobs EXCEPT ![v].pc = "restamp"]
      BY <1>1, <1>3, <2>2 DEF WriteReplace, Folder
    <3> QED BY <1>1, <3>1 DEF Job
  <2> QED BY <1>1, <1>3, <2>1, <2>2 DEF WriteReplace
<1>4. CASE WriteRestamp(v)
  <2> DEFINE d == Restamped(v)
  <2>1. f' = Written(d, v) /\ f.jobs[v].pc = "restamp"
    BY <1>4 DEF WriteRestamp, Restamped, Stamp
  <2>2. d \in Folder /\ d.jobs = f.jobs
    BY <2>1, RestampedFacts
  <2> HIDE DEF d
  <2>3. CASE v = Mover
    <3>1. f'.jobs = [f.jobs EXCEPT ![Mover] = NoJob]
      BY <2>1, <2>2, <2>3 DEF Written, Folder
    <3> QED BY <1>1, <2>3, <3>1
  <2>4. CASE v \in Names
    <3>1. f' = PassWritten(d, v)
      BY <2>1, <2>4, NoJobIsAJob DEF Written
    <3>2. \A w \in Jobs \ {v} : f'.jobs[w] = f.jobs[w]
      BY <2>2, <2>4, <3>1, WrittenEffect DEF Apart
    <3> QED BY <2>1, <3>2
  <2> QED BY <2>3, <2>4 DEF Jobs
<1>5. CASE WriteFails(v)
  BY <1>5, EndsHold DEF WriteFails, Holds
<1> QED BY <1>2, <1>3, <1>4, <1>5 DEF Writes

\* NeverBlind, of one step.
Looking == \A w \in Jobs : f.jobs[w].pc = "check" /\ f'.jobs[w].pc = "replace" => f.jobs[w].path \notin unlooked

LEMMA MovesHold ==
    ASSUME Inv, Moving
    PROVE  Holds
<1>1. CASE Settle
  BY <1>1, SettleStep, EditorHolds, SettleDrainsStep DEF Holds
<1>2. CASE SettleEnded
  BY <1>2, SettleEndedStep, EditorHolds
<1>3. CASE Survey
  BY <1>3, SurveyStep, MoverHolds
<1>4. CASE MakeFolder
  BY <1>4, MakeFolderStep, MoverHolds
<1>5. CASE ReadSource
  BY <1>5, ReadSourceStep, MoverHolds
<1>6. CASE ProbeTarget
  BY <1>6, ProbeTargetStep, MoverHolds
<1>7. CASE MakeTarget
  BY <1>7, MakeTargetStep, MoverHolds
<1>8. CASE UndoTarget
  BY <1>8, UndoTargetStep, MoverHolds
<1>9. CASE DropSource
  BY <1>9, DropSourceStep, MoverHolds
<1>10. CASE Abandon
  BY <1>10, AbandonStep, MoverHolds
<1>11. CASE Sweep
  BY <1>11, SweepStep, MoverHolds
<1>12. CASE Publish
  BY <1>12, PublishStep, MoverHolds
<1> QED BY <1>1, <1>2, <1>3, <1>4, <1>5, <1>6, <1>7, <1>8, <1>9, <1>10, <1>11, <1>12 DEF Moving

LEMMA NextLooks == Inv /\ [Next]_vars => Looking
<1> SUFFICES ASSUME Inv, [Next]_vars PROVE Looking
  OBVIOUS
<1>1. ASSUME NEW n \in Names, Type(n) \/ ApplyChange(n) \/ Fires(n) PROVE Holds
  <2>1. EditorStep
    BY <1>1, TypeStep, ApplyChangeStep, WriteTimerStep, SaveOnDeadlineStep DEF Fires
  <2> QED BY <2>1, EditorHolds
<1>2. ASSUME NEW w \in Jobs, Writes(w) \/ WriteFails(w) PROVE Looking
  BY <1>2, WritesLook DEF Looking
<1>3. ASSUME NEW action \in {"file", "folder"}, NEW names \in SUBSET Names, AskMove(action, names) PROVE Holds
  BY <1>3, AskMoveStep, MoverHolds
<1>4. CASE Moving
  BY <1>4, MovesHold DEF Holds, Looking
<1>5. CASE Dispose
  BY <1>5, DisposeStep, EditorHolds DEF Holds, Looking
<1>6. CASE Revoke
  BY <1>6, RevokeStep DEF Looking
<1>7. ASSUME NEW p \in Path, ForeignWrite(p) \/ ForeignRemove(p) PROVE Holds
  BY <1>7, ForeignWriteStep, ForeignRemoveStep, ForeignKeeps DEF Holds
<1>8. CASE UNCHANGED vars
  BY <1>8 DEF vars, Looking
<1> QED BY <1>1, <1>2, <1>3, <1>4, <1>5, <1>6, <1>7, <1>8 DEF Next, Holds, Looking

-----------------------------------------------------------------------------
(* The theorems.                                                           *)

\* The invariant holds.
LEMMA InvHolds == Spec => []Inv
BY InitHolds, NextKeeps, PTL DEF Spec

\* Every variable stays in its type: the folder, its writes and its move, whatever is saved,
\* refused, thrown or taken back (folder.ts, FolderWorkingCopy; editor.ts; main.ts, moveEntry).
THEOREM FilesTypeOK == Spec => []TypeOK
<1>1. Inv => TypeOK
  BY DEF Inv
<1> QED BY <1>1, InvHolds, PTL

\* A document nothing is pending for is on disk as it is in the buffer, whatever saves of it
\* overlapped, failed or were folded into one another, and after the flush of a page that goes
\* (editor.ts, save, saveOnDeadline, flushWrites; folder.ts, write).
THEOREM FilesWrittenWhenQuiet == Spec => []WrittenWhenQuiet
BY InvImplies, InvHolds, PTL

\* At each step of a move, and however it ends, the text a document had when the move began is
\* in the file at its old name or at its new one; and a refused move leaves neither a new name
\* nor a folder made for it (main.ts, moveEntry, moveFile, moveFolder).
THEOREM FilesMoveKeepsTheText == Spec => []MoveKeepsTheText
BY InvImplies, InvHolds, PTL

\* A write passes its guard only over a file the page has looked at since another program wrote
\* it (folder.ts, write: the stamp taken before anything is awaited is the one compared).
THEOREM FilesNeverBlind == Spec => NeverBlind
<1>1. Inv /\ [Next]_vars =>
        [\A w \in Jobs : f.jobs[w].pc = "check" /\ f'.jobs[w].pc = "replace"
                         => f.jobs[w].path \notin unlooked]_vars
  BY NextLooks DEF Looking
<1> QED BY <1>1, InvHolds, PTL DEF Spec, NeverBlind

-----------------------------------------------------------------------------
(* Whole acts on the folder (Acts).  While nothing is under way, the       *)
(* listing, the folders the page remembers and the open documents are the  *)
(* folder's (SoundTree); while an act waits for its walk or its            *)
(* publication, what is promised is that they will be, once the folder as  *)
(* it is now is published (Coming).  The lemmas about paths and trees come *)
(* first, then what a create, a removal and a move make of a sound tree,   *)
(* then the steps.                                                         *)

Kinds   == {"create", "remove", "move", "open"}
Records == [kind : Kinds, path : Paths \cup {<<>>}, to : Paths \cup {<<>>}, session : Nat,
            at : ActStages, walk : SUBSET Paths, gone : SUBSET Paths, partial : BOOLEAN]

ActsTypes ==
    /\ disk \subseteq Paths /\ room \subseteq Paths /\ made \subseteq Paths
    /\ documents \subseteq Paths /\ unnamed \subseteq Paths
    /\ sessions \in 0..MaxSessions /\ session \in {0, sessions}
    /\ acts \in Seq(Records)
    /\ singly \in BOOLEAN /\ slips \subseteq Slips
    /\ session = 0 => documents = {}

\* A listing, the folders the page remembers and the open documents are those of a folder, but
\* for what is under the folders un.
SoundTree(held, listing, folders, open, un) ==
    /\ listing = FilesOf(held) /\ folders \subseteq held /\ open \subseteq listing
    /\ \A p \in FoldersOf(held) \ Rows(listing, folders) : \E q \in un : IsPrefix(q, p)

\* What every act under way is, whatever else is, of the session now and of count sessions.
ActSound(r, now, count) ==
    r.at # "over" =>
        /\ r.path \in Paths /\ r.to \in Paths /\ r.session \in 1..count
        /\ r.at = "folder" => r.session = now \/ now = 0
        /\ r.at # "open" => r.kind # "open"
        /\ r.kind = "move" /\ r.at # "open" =>
              /\ \E into \in Paths \cup {<<>>} : r.to = Destination(r.path, into)
              /\ r.gone \subseteq Within(r.path, Paths)

\* One at a time.
Alone == singly => \A a, b \in Act : acts[a].at # "over" /\ acts[b].at # "over" => a = b

Standing == singly /\ session # 0 /\ "unpublished" \notin slips

\* What a move leaves of the page's memory, once the listing is published.
Remembered(p, to, listing, folders) ==
    Forget(folders, {p}) \cup (IF p \in folders THEN {to} ELSE {}) \cup Emptied(p, listing)

\* What a publication of the folder as it is will make of the page.
Coming(r, held, folders, open, un) ==
    LET listing == FilesOf(held) IN
    /\ r.at = "publish" => r.walk = listing
    /\ r.kind = "create" =>
          /\ SoundTree(held, listing, IF IsFile(r.path) THEN folders ELSE folders \cup {r.path},
                       open, un)
          /\ r.path \in held
    /\ r.kind = "remove" =>
          SoundTree(held, listing, folders \cup Emptied(r.path, listing), open \ r.gone, un)
    /\ r.kind = "move" =>
          /\ SoundTree(held, listing, Remembered(r.path, r.to, listing, folders),
                       IF r.partial THEN open ELSE open \ r.gone, un)
          /\ r.partial \/ \A q \in r.gone : Landing(r.path, r.to, q) \in listing

\* Done in the folder, and not published yet.
Promised(r, now) == r.at \in {"walk", "publish"} /\ r.session = now

OneStands(r, now, held, listing, folders, open, un) ==
    /\ IF Promised(r, now) THEN Coming(r, held, folders, open, un)
       ELSE SoundTree(held, listing, folders, open, un)
    /\ r.at = "folder" => /\ r.kind = "create" => r.path \notin folders
                          /\ r.kind = "remove" => r.path \in held
    /\ r.at = "open" /\ r.session = now => r.path \in listing

Stands ==
    /\ (\A a \in Act : acts[a].at = "over") => SoundTree(disk, room, made, documents, unnamed)
    /\ \A a \in Act : acts[a].at # "over" =>
          OneStands(acts[a], session, disk, room, made, documents, unnamed)

ActsInv ==
    /\ ActsTypes /\ IsTree(disk)
    /\ \A a \in Act : ActSound(acts[a], session, sessions)
    /\ Alone
    /\ Standing => Stands

-----------------------------------------------------------------------------
(* Paths.                                                                  *)

LEMMA PathIs ==
    \A p \in Paths : p \in Seq(Words) /\ p # <<>> /\ Len(p) \in Nat \ {0}
<1> SUFFICES ASSUME NEW p \in Paths PROVE p \in Seq(Words) /\ p # <<>> /\ Len(p) \in Nat \ {0}
  OBVIOUS
<1>1. p \in Seq(Words) /\ p # <<>>
  BY ActsAssumption
<1> QED
  BY <1>1

LEMMA PrefixIs ==
    ASSUME NEW s \in Seq(Words), NEW t \in Seq(Words)
    PROVE  IsPrefix(s, t) <=> Len(s) <= Len(t) /\ \A i \in 1..Len(s) : s[i] = t[i]
<1>1. ASSUME IsPrefix(s, t) PROVE Len(s) <= Len(t) /\ \A i \in 1..Len(s) : s[i] = t[i]
  <2>1. Len(s) <= Len(t) /\ SubSeq(s, 1, Len(s)) = SubSeq(t, 1, Len(s))
    BY <1>1 DEF IsPrefix
  <2>2. \A i \in 1..Len(s) : SubSeq(s, 1, Len(s))[i] = s[i] /\ SubSeq(t, 1, Len(s))[i] = t[i]
    BY <2>1
  <2> QED
    BY <2>1, <2>2
<1>2. ASSUME Len(s) <= Len(t), \A i \in 1..Len(s) : s[i] = t[i] PROVE IsPrefix(s, t)
  <2> DEFINE u == SubSeq(s, 1, Len(s))
             v == SubSeq(t, 1, Len(s))
  <2>1. u \in Seq(Words) /\ v \in Seq(Words) /\ Len(u) = Len(s) /\ Len(v) = Len(s)
    BY <1>2
  <2>2. \A i \in 1..Len(s) : u[i] = s[i] /\ v[i] = t[i]
    BY <1>2
  <2> HIDE DEF u, v
  <2>3. \A i \in 1..Len(u) : u[i] = v[i]
    BY <1>2, <2>1, <2>2
  <2>4. u = v
    BY <2>1, <2>3
  <2> QED
    BY <1>2, <2>4 DEF IsPrefix, u, v
<1> QED
  BY <1>1, <1>2

LEMMA PrefixOrder ==
    /\ \A p \in Paths : IsPrefix(p, p)
    /\ \A p, q, r \in Paths : IsPrefix(p, q) /\ IsPrefix(q, r) => IsPrefix(p, r)
    /\ \A p, q \in Paths : IsPrefix(p, q) /\ IsPrefix(q, p) => p = q
    /\ \A p, q, r \in Paths :
          IsPrefix(p, r) /\ IsPrefix(q, r) => IsPrefix(p, q) \/ IsPrefix(q, p)
<1>1. ASSUME NEW p \in Paths PROVE IsPrefix(p, p)
  BY PathIs, PrefixIs
<1>2. ASSUME NEW p \in Paths, NEW q \in Paths, NEW r \in Paths, IsPrefix(p, q), IsPrefix(q, r)
      PROVE  IsPrefix(p, r)
  <2>1. /\ Len(p) <= Len(q) /\ \A i \in 1..Len(p) : p[i] = q[i]
        /\ Len(q) <= Len(r) /\ \A i \in 1..Len(q) : q[i] = r[i]
    BY <1>2, PathIs, PrefixIs
  <2>2. Len(p) \in Nat /\ Len(q) \in Nat /\ Len(r) \in Nat
    BY PathIs
  <2>3. Len(p) <= Len(r) /\ \A i \in 1..Len(p) : p[i] = r[i]
    BY <2>1, <2>2
  <2> QED
    BY <2>3, PathIs, PrefixIs
<1>3. ASSUME NEW p \in Paths, NEW q \in Paths, IsPrefix(p, q), IsPrefix(q, p) PROVE p = q
  <2>1. /\ Len(p) <= Len(q) /\ \A i \in 1..Len(p) : p[i] = q[i]
        /\ Len(q) <= Len(p)
    BY <1>3, PathIs, PrefixIs
  <2>2. p \in Seq(Words) /\ q \in Seq(Words) /\ Len(p) \in Nat /\ Len(q) \in Nat
    BY PathIs
  <2>3. Len(p) = Len(q)
    BY <2>1, <2>2
  <2> QED
    BY <2>1, <2>2, <2>3
<1>4. ASSUME NEW p \in Paths, NEW q \in Paths, NEW r \in Paths, IsPrefix(p, r), IsPrefix(q, r)
      PROVE  IsPrefix(p, q) \/ IsPrefix(q, p)
  <2>1. /\ Len(p) <= Len(r) /\ \A i \in 1..Len(p) : p[i] = r[i]
        /\ Len(q) <= Len(r) /\ \A i \in 1..Len(q) : q[i] = r[i]
    BY <1>4, PathIs, PrefixIs
  <2>2. Len(p) \in Nat /\ Len(q) \in Nat /\ p \in Seq(Words) /\ q \in Seq(Words)
    BY PathIs
  <2>3. CASE Len(p) <= Len(q)
    <3>1. \A i \in 1..Len(p) : p[i] = q[i]
      BY <2>1, <2>2, <2>3
    <3> QED
      BY <2>2, <2>3, <3>1, PrefixIs
  <2>4. CASE Len(q) <= Len(p)
    <3>1. \A i \in 1..Len(q) : q[i] = p[i]
      BY <2>1, <2>2, <2>4
    <3> QED
      BY <2>2, <2>4, <3>1, PrefixIs
  <2> QED
    BY <2>2, <2>3, <2>4
<1> QED
  BY <1>1, <1>2, <1>3, <1>4

\* What is above a path is the folder it is in, and what is above that.
LEMMA AncestorsAre ==
    ASSUME NEW p \in Paths
    PROVE  /\ Len(p) > 1 => Front(p) \in Paths
           /\ \A x \in Ancestors(p) : Len(p) > 1 /\ IsPrefix(x, Front(p))
           /\ \A x \in Ancestors(p) : x \in Paths /\ IsPrefix(x, p) /\ x # p
           /\ \A x \in Ancestors(p) : Ancestors(x) \subseteq Ancestors(p)
           /\ \A x \in Paths : IsPrefix(x, p) => x = p \/ x \in Ancestors(p)
<1>1. p \in Seq(Words) /\ Len(p) \in Nat \ {0}
  BY PathIs
<1>2. ASSUME Len(p) > 1 PROVE Front(p) \in Paths
  <2>1. Len(p) - 1 \in 1..Len(p)
    BY <1>1, <1>2
  <2> QED
    BY <2>1, ActsAssumption DEF Front
<1>3. \A x \in Ancestors(p) : x \in Paths /\ IsPrefix(x, p) /\ x # p
  BY DEF Ancestors, IsStrictPrefix
<1>4. ASSUME NEW x \in Ancestors(p) PROVE Len(p) > 1 /\ IsPrefix(x, Front(p))
  <2>1. x \in Seq(Words) /\ Len(x) \in Nat \ {0} /\ x # p
    BY <1>3, PathIs
  <2>2. Len(x) <= Len(p) /\ \A i \in 1..Len(x) : x[i] = p[i]
    BY <1>1, <1>3, <2>1, PrefixIs
  <2>3. Len(x) # Len(p)
    BY <1>1, <2>1, <2>2
  <2>4. Len(x) <= Len(p) - 1 /\ Len(p) > 1
    BY <1>1, <2>1, <2>2, <2>3
  <2>5. /\ Front(p) \in Seq(Words) /\ Len(Front(p)) = Len(p) - 1
        /\ \A i \in 1..(Len(p) - 1) : Front(p)[i] = p[i]
    BY <1>1, <2>4 DEF Front
  <2>6. \A i \in 1..Len(x) : x[i] = Front(p)[i]
    BY <1>1, <2>1, <2>2, <2>4, <2>5
  <2> QED
    BY <2>1, <2>4, <2>5, <2>6, PrefixIs
<1>5. ASSUME NEW x \in Ancestors(p), NEW y \in Ancestors(x) PROVE y \in Ancestors(p)
  <2>1. y \in Paths /\ IsPrefix(y, x) /\ y # x
    BY DEF Ancestors, IsStrictPrefix
  <2>2. IsPrefix(y, p) /\ y # p
    BY <1>3, <2>1, PrefixOrder
  <2> QED
    BY <2>1, <2>2 DEF Ancestors, IsStrictPrefix
<1> QED
  BY <1>2, <1>3, <1>4, <1>5 DEF Ancestors, IsStrictPrefix

LEMMA JoinedIs ==
    ASSUME NEW S, NEW u \in Seq(S), NEW v \in Seq(S)
    PROVE  /\ u \o v \in Seq(S) /\ Len(u \o v) = Len(u) + Len(v)
           /\ \A i \in 1..Len(u) : (u \o v)[i] = u[i]
           /\ \A i \in 1..Len(v) : (u \o v)[Len(u) + i] = v[i]
<1>1. u \o v \in Seq(S) /\ Len(u \o v) = Len(u) + Len(v)
  OBVIOUS
<1>2. \A i \in 1..Len(u) : (u \o v)[i] = u[i]
  OBVIOUS
<1>3. \A i \in 1..Len(v) : (u \o v)[Len(u) + i] = v[i]
  OBVIOUS
<1> QED
  BY <1>1, <1>2, <1>3

\* What is under p lands under the new name as it was under the old.
LEMMA LandingIs ==
    ASSUME NEW p \in Paths, NEW into \in Paths \cup {<<>>}, Destination(p, into) \in Paths,
           NEW q \in Paths, IsPrefix(p, q)
    PROVE  LET to == Destination(p, into)
               r == Landing(p, to, q)
           IN  /\ r \in Paths /\ (IsFile(r) <=> IsFile(q)) /\ Landing(p, to, p) = to
               /\ \A x \in Ancestors(r) :
                     \/ x \in Ancestors(to)
                     \/ \E y \in Paths : /\ IsPrefix(p, y) /\ IsPrefix(y, q) /\ y # q
                                         /\ x = Landing(p, to, y)
<1> DEFINE to == Destination(p, into)
           r == Landing(p, to, q)
           n == Len(p)
           m == Len(to)
<1>1. p \in Seq(Words) /\ n \in Nat \ {0} /\ q \in Seq(Words) /\ Len(q) \in Nat
  BY PathIs
<1>2. n <= Len(q) /\ \A i \in 1..n : p[i] = q[i]
  BY <1>1, PrefixIs
<1>3. to \in Seq(Words) /\ m \in Nat \ {0} /\ r \in Paths /\ r \in Seq(Words)
  <2>1. to \in Paths /\ r \in Paths
    BY ActsAssumption
  <2> QED
    BY <2>1, PathIs
<1>4. Last(to) = Last(p)
  <2>1. into \in Seq(Words)
    <3>1. <<>> \in Seq(Words)
      OBVIOUS
    <3> QED
      BY <3>1, PathIs
  <2>2. Last(p) \in Words
    BY <1>1 DEF Last
  <2>3. <<Last(p)>> \in Seq(Words) /\ Len(<<Last(p)>>) = 1 /\ <<Last(p)>>[1] = Last(p)
    BY <2>2
  <2> HIDE DEF Words
  <2>4. Len(to) = Len(into) + 1 /\ to[Len(into) + 1] = Last(p)
    BY <2>1, <2>2, <2>3 DEF Destination
  <2> QED
    BY <2>4 DEF Last
<1>5. ASSUME NEW y \in Seq(Words), n <= Len(y)
      PROVE  /\ Len(Landing(p, to, y)) = m + (Len(y) - n)
             /\ \A i \in 1..m : Landing(p, to, y)[i] = to[i]
             /\ \A i \in 1..(Len(y) - n) : Landing(p, to, y)[m + i] = y[n + i]
             /\ Landing(p, to, y) \in Seq(Words)
  <2> DEFINE z == SubSeq(y, n + 1, Len(y))
  <2>1. Len(y) \in Nat
    BY <1>5
  <2>2. z \in Seq(Words) /\ Len(z) = Len(y) - n
    BY <1>1, <1>5, <2>1
  <2>3. \A i \in 1..(Len(y) - n) : z[i] = y[n + i]
    BY <1>1, <1>5, <2>1
  <2> HIDE DEF z, to
  <2>4. /\ Len(to \o z) = m + Len(z) /\ to \o z \in Seq(Words)
        /\ \A i \in 1..m : (to \o z)[i] = to[i]
        /\ \A i \in 1..Len(z) : (to \o z)[m + i] = z[i]
    <3>1. to \in Seq(Words) /\ z \in Seq(Words)
      BY <1>3, <2>2
    <3> QED
      BY ONLY <3>1, JoinedIs
  <2> QED
    BY <2>2, <2>3, <2>4 DEF Landing, z
<1> HIDE DEF to
<1>6. Landing(p, to, p) = to
  <2>1. /\ Len(Landing(p, to, p)) = m /\ \A i \in 1..m : Landing(p, to, p)[i] = to[i]
        /\ Landing(p, to, p) \in Seq(Words)
    BY <1>1, <1>3, <1>5
  <2> HIDE DEF n
  <2> QED
    BY <1>3, <2>1
<1>7. IsFile(r) <=> IsFile(q)
  <2>1. CASE Len(q) = n
    <3>1. Len(r) = m /\ r[m] = to[m]
      BY <1>1, <1>3, <1>5, <2>1
    <3>2. q[n] = p[n]
      BY <1>1, <1>2
    <3> QED
      BY <1>4, <2>1, <3>1, <3>2 DEF IsFile, Last
  <2>2. CASE Len(q) # n
    <3>1. Len(q) - n \in 1..(Len(q) - n) /\ n + (Len(q) - n) = Len(q)
      BY <1>1, <1>2, <2>2
    <3>2. Len(r) = m + (Len(q) - n) /\ r[m + (Len(q) - n)] = q[Len(q)]
      <4>1. /\ Len(r) = m + (Len(q) - n)
            /\ \A i \in 1..(Len(q) - n) : r[m + i] = q[n + i]
        BY <1>1, <1>2, <1>5
      <4> QED
        BY ONLY <3>1, <4>1
    <3> QED
      BY <3>2 DEF IsFile, Last
  <2> QED
    BY <2>1, <2>2
<1>8. ASSUME NEW x \in Ancestors(r), x \notin Ancestors(to)
      PROVE  \E y \in Paths : /\ IsPrefix(p, y) /\ IsPrefix(y, q) /\ y # q
                              /\ x = Landing(p, to, y)
  <2>1. x \in Paths /\ x \in Seq(Words) /\ Len(x) \in Nat \ {0} /\ IsPrefix(x, r) /\ x # r
    BY <1>3, PathIs, AncestorsAre
  <2>2. Len(x) <= Len(r) /\ \A i \in 1..Len(x) : x[i] = r[i]
    BY <1>3, <2>1, PrefixIs
  <2>3. Len(r) = m + (Len(q) - n)
    BY <1>1, <1>2, <1>5
  <2>4. Len(x) # Len(r)
    BY <1>3, <2>1, <2>2
  <2>5. Len(x) >= m
    <3> SUFFICES ASSUME Len(x) < m PROVE FALSE
      BY <1>3, <2>1
    <3>1. \A i \in 1..Len(x) : x[i] = to[i]
      BY <1>1, <1>2, <1>3, <1>5, <2>1, <2>2
    <3>2. IsPrefix(x, to) /\ x # to
      BY <1>3, <2>1, <3>1, PrefixIs
    <3> QED
      BY <1>8, <2>1, <3>2 DEF Ancestors, IsStrictPrefix
  <2> DEFINE k == n + (Len(x) - m)
             y == SubSeq(q, 1, k)
  <2>6. k \in 1..Len(q) /\ n <= k /\ k < Len(q)
    <3>1. /\ n \in Nat \ {0} /\ m \in Nat \ {0} /\ Len(q) \in Nat /\ Len(x) \in Nat
          /\ n <= Len(q) /\ Len(x) < m + (Len(q) - n) /\ Len(x) >= m
      <4>1. Len(x) <= Len(r) /\ Len(x) # Len(r)
        BY ONLY <2>2, <2>4
      <4>2. n \in Nat \ {0} /\ m \in Nat \ {0} /\ Len(q) \in Nat /\ Len(x) \in Nat /\ n <= Len(q)
        BY ONLY <1>1, <1>2, <1>3, <2>1
      <4> QED
        BY ONLY <2>3, <2>5, <4>1, <4>2
    <3> QED
      BY ONLY <3>1
  <2>7. y \in Paths /\ y \in Seq(Words) /\ Len(y) = k /\ \A i \in 1..k : y[i] = q[i]
    BY <1>1, <2>6, ActsAssumption
  <2>8. k \in Nat /\ Len(x) = m + (k - n)
    BY <1>1, <1>3, <2>1, <2>6
  <2> HIDE DEF y, k
  <2>9. IsPrefix(y, q) /\ y # q
    BY <1>1, <2>6, <2>7, <2>8, PrefixIs
  <2>10. IsPrefix(p, y)
    <3>1. \A i \in 1..n : p[i] = y[i]
      BY <1>1, <1>2, <2>6, <2>7
    <3> QED
      BY <1>1, <2>6, <2>7, <3>1, PrefixIs
  <2>11. x = Landing(p, to, y)
    <3> DEFINE z == Landing(p, to, y)
    <3>1. /\ Len(z) = m + (k - n) /\ z \in Seq(Words)
          /\ \A i \in 1..m : z[i] = to[i]
          /\ \A i \in 1..(k - n) : z[m + i] = y[n + i]
      BY <1>5, <2>6, <2>7
    <3>2. /\ \A i \in 1..m : r[i] = to[i]
          /\ \A i \in 1..(Len(q) - n) : r[m + i] = q[n + i]
      BY <1>1, <1>2, <1>5
    <3> HIDE DEF z
    <3>3. ASSUME NEW i \in 1..Len(x) PROVE x[i] = z[i]
      <4>1. CASE i <= m
        BY <1>3, <2>2, <3>1, <3>2, <4>1
      <4>2. CASE i > m
        <5> DEFINE j == i - m
        <5>1. j \in 1..(k - n) /\ j \in 1..(Len(q) - n) /\ m + j = i /\ n + j \in 1..k
          BY <1>1, <1>3, <2>6, <2>8, <4>2
        <5> HIDE DEF j
        <5>2. z[m + j] = y[n + j] /\ r[m + j] = q[n + j] /\ y[n + j] = q[n + j]
          BY <2>7, <3>1, <3>2, <5>1
        <5> QED
          BY <2>2, <5>1, <5>2
      <4> QED
        BY <1>3, <4>1, <4>2
    <3> QED
      BY <2>1, <2>8, <3>1, <3>3 DEF z
  <2> QED
    BY <2>7, <2>9, <2>10, <2>11
<1> QED
  BY <1>3, <1>6, <1>7, <1>8 DEF to

-----------------------------------------------------------------------------
(* Trees.                                                                  *)

\* All that a listing and the page's memory know of.
Known(listing, folders) == listing \cup folders \cup UNION {Ancestors(p) : p \in listing}

LEMMA RowsAre ==
    \A listing, folders :
        Rows(listing, folders) = {p \in Known(listing, folders) :
                                     Ancestors(p) \subseteq Known(listing, folders)}
BY DEF Rows, Known

\* A folder that is walked and seated has all of its folders drawn.
LEMMA SeatedSound ==
    ASSUME NEW held \in SUBSET Paths, IsTree(held)
    PROVE  SoundTree(held, FilesOf(held), EmptyFolders(held), {}, {})
<1> DEFINE known == Known(FilesOf(held), EmptyFolders(held))
<1>1. FilesOf(held) \subseteq held /\ EmptyFolders(held) \subseteq held
  BY DEF FilesOf, EmptyFolders, FoldersOf
<1>2. held \subseteq known
  <2> SUFFICES ASSUME NEW p \in held PROVE p \in known
    OBVIOUS
  <2>1. CASE p \in FilesOf(held)
    BY <2>1 DEF Known
  <2>2. CASE p \in FoldersOf(held) /\ FilesOf(Below(p, held)) = {}
    BY <2>2 DEF Known, EmptyFolders
  <2>3. CASE p \in FoldersOf(held) /\ FilesOf(Below(p, held)) # {}
    <3>1. PICK r \in held : IsStrictPrefix(p, r) /\ IsFile(r)
      BY <2>3 DEF FilesOf, Below
    <3>2. r \in FilesOf(held) /\ p \in Ancestors(r)
      BY <3>1 DEF FilesOf, Ancestors
    <3> QED
      BY <3>2 DEF Known
  <2> QED
    BY <2>1, <2>2, <2>3 DEF FoldersOf
<1>3. \A p \in held : p \in Rows(FilesOf(held), EmptyFolders(held))
  BY <1>2, RowsAre DEF IsTree
<1> QED
  BY <1>1, <1>3 DEF SoundTree, FoldersOf

\* What is drawn of a sound tree is of the folder.
LEMMA DrawnAre ==
    ASSUME NEW held, NEW listing, NEW folders, NEW open, NEW un, IsTree(held),
           SoundTree(held, listing, folders, open, un)
    PROVE  /\ Known(listing, folders) \subseteq held /\ Rows(listing, folders) \subseteq held
           /\ open \subseteq held /\ listing \subseteq held
<1>1. listing \subseteq held /\ folders \subseteq held
  BY DEF SoundTree, FilesOf
<1>2. Known(listing, folders) \subseteq held
  BY <1>1 DEF Known, IsTree
<1> QED
  BY <1>1, <1>2, RowsAre DEF SoundTree

\* What is known and stays known, with all above it, keeps its row or is excused as before.
LEMMA RowsKept ==
    ASSUME NEW held, NEW listing, NEW folders, NEW open, NEW un,
           SoundTree(held, listing, folders, open, un),
           NEW stays \in SUBSET held, \A p \in stays : Ancestors(p) \subseteq stays,
           NEW listed, NEW drawn,
           Known(listing, folders) \cap stays \subseteq Known(listed, drawn),
           NEW p \in stays, ~IsFile(p), p \notin Rows(listed, drawn)
    PROVE  \E q \in un : IsPrefix(q, p)
<1>1. p \notin Rows(listing, folders)
  <2> SUFFICES ASSUME p \in Known(listing, folders), Ancestors(p) \subseteq Known(listing, folders)
               PROVE  FALSE
    BY RowsAre
  <2>1. p \in Known(listed, drawn) /\ Ancestors(p) \subseteq Known(listed, drawn)
    OBVIOUS
  <2> QED
    BY <2>1, RowsAre
<1> QED
  BY <1>1 DEF SoundTree, FoldersOf, FilesOf

\* What is not under a path that goes stays known, if the folders it empties are kept.
LEMMA KnownKept ==
    ASSUME NEW held \in SUBSET Paths, IsTree(held), NEW listing, NEW folders, NEW open, NEW un,
           SoundTree(held, listing, folders, open, un), NEW p \in Paths,
           NEW listed, NEW drawn,
           listing \ Within(p, held) \subseteq listed,
           folders \ Within(p, held) \subseteq drawn, Emptied(p, listed) \subseteq drawn
    PROVE  Known(listing, folders) \ Within(p, held) \subseteq Known(listed, drawn)
<1> SUFFICES ASSUME NEW x \in Known(listing, folders), x \notin Within(p, held)
             PROVE  x \in Known(listed, drawn)
  OBVIOUS
<1>1. x \in held /\ ~IsPrefix(p, x)
  BY DrawnAre DEF Within
<1>2. CASE x \in listing \cup folders
  BY <1>2 DEF Known
<1>3. CASE x \notin listing \cup folders
  <2>1. PICK r \in listing : x \in Ancestors(r)
    BY <1>3 DEF Known
  <2>2. CASE r \in listed
    BY <2>1, <2>2 DEF Known
  <2>3. CASE r \notin listed
    <3>1. r \in held /\ IsPrefix(p, r) /\ r \in Paths /\ IsPrefix(x, r) /\ x \in Paths
      BY <2>1, <2>3, DrawnAre DEF Within, Ancestors, IsStrictPrefix
    <3>2. IsPrefix(x, p) /\ x # p
      BY <1>1, <3>1, PrefixOrder
    <3>3. x \in Ancestors(p)
      BY <3>1, <3>2 DEF Ancestors, IsStrictPrefix
    <3>4. CASE FilesOf(Below(x, listed)) = {}
      BY <3>3, <3>4 DEF Emptied, Known
    <3>5. CASE FilesOf(Below(x, listed)) # {}
      <4>1. PICK s \in listed : IsStrictPrefix(x, s)
        BY <3>5 DEF FilesOf, Below
      <4> QED
        BY <3>1, <4>1 DEF Known, Ancestors
    <3> QED
      BY <3>4, <3>5
  <2> QED
    BY <2>2, <2>3
<1> QED
  BY <1>2, <1>3

LEMMA WithinStays ==
    ASSUME NEW held \in SUBSET Paths, IsTree(held), NEW p \in Paths
    PROVE  /\ IsTree(held \ Within(p, held))
           /\ \A q \in held \ Within(p, held) : Ancestors(q) \subseteq held \ Within(p, held)
           /\ FilesOf(held \ Within(p, held)) = FilesOf(held) \ Within(p, held)
           /\ Ancestors(p) \cap Within(p, held) = {}
<1>1. ASSUME NEW q \in held \ Within(p, held), NEW x \in Ancestors(q)
      PROVE  x \in held \ Within(p, held)
  <2>1. x \in held /\ x \in Paths /\ IsPrefix(x, q) /\ q \in Paths
    BY AncestorsAre DEF IsTree
  <2>2. ~IsPrefix(p, x)
    BY <2>1, PrefixOrder DEF Within
  <2> QED
    BY <2>1, <2>2 DEF Within
<1>2. ASSUME NEW x \in Ancestors(p), x \in Within(p, held) PROVE FALSE
  BY <1>2, AncestorsAre, PrefixOrder DEF Within
<1> QED
  BY <1>1, <1>2 DEF IsTree, FilesOf

\* A create: what it names is listed or remembered, and what it makes on the way is excused.
LEMMA CreateTree ==
    ASSUME NEW held \in SUBSET Paths, IsTree(held), NEW p \in Paths,
           \A q \in Ancestors(p) : ~IsFile(q)
    PROVE  held \cup {p} \cup Ancestors(p) \in SUBSET Paths
           /\ (p \notin held => IsTree(held \cup {p} \cup Ancestors(p)))
<1> DEFINE grown == held \cup {p} \cup Ancestors(p)
<1>1. grown \in SUBSET Paths
  BY AncestorsAre
<1>2. ASSUME NEW q \in grown PROVE Ancestors(q) \subseteq grown /\ \A x \in Ancestors(q) : ~IsFile(x)
  <2>1. CASE q \in held
    BY <2>1 DEF IsTree
  <2>2. CASE q = p
    BY <2>2
  <2>3. CASE q \in Ancestors(p)
    BY <2>3, AncestorsAre
  <2> QED
    BY <2>1, <2>2, <2>3
<1> QED
  BY <1>1, <1>2 DEF IsTree

LEMMA CreateSound ==
    ASSUME NEW held \in SUBSET Paths, IsTree(held), NEW listing, NEW folders, NEW open,
           NEW un \in SUBSET Paths, SoundTree(held, listing, folders, open, un),
           NEW p \in Paths, p \notin held
    PROVE  LET grown == held \cup {p} \cup Ancestors(p)
           IN  SoundTree(grown, FilesOf(grown), IF IsFile(p) THEN folders ELSE folders \cup {p},
                         open, un \cup (Ancestors(p) \ held))
<1> DEFINE grown == held \cup {p} \cup Ancestors(p)
           drawn == IF IsFile(p) THEN folders ELSE folders \cup {p}
           more == un \cup (Ancestors(p) \ held)
<1>1. /\ listing = FilesOf(held) /\ folders \subseteq held /\ open \subseteq listing
      /\ FilesOf(held) \subseteq FilesOf(grown)
  BY DEF SoundTree, FilesOf
<1>2. drawn \subseteq grown
  BY <1>1
<1>3. Known(listing, folders) \subseteq Known(FilesOf(grown), drawn)
  BY <1>1 DEF Known
<1>4. p \in Known(FilesOf(grown), drawn)
  BY DEF Known, FilesOf
<1>5. ASSUME NEW q \in held, ~IsFile(q), q \notin Rows(FilesOf(grown), drawn)
      PROVE  \E u \in more : IsPrefix(u, q)
  <2>1. \A x \in held : Ancestors(x) \subseteq held
    BY DEF IsTree
  <2> HIDE DEF grown, drawn
  <2>2. \E u \in un : IsPrefix(u, q)
    BY <1>3, <1>5, <2>1, RowsKept
  <2> QED
    BY <2>2
<1>6. ASSUME NEW q \in Ancestors(p), q \notin held PROVE \E u \in more : IsPrefix(u, q)
  <2>1. q \in Paths /\ IsPrefix(q, q)
    BY PrefixOrder DEF Ancestors
  <2> QED
    BY <1>6, <2>1
<1>7. ASSUME p \notin Rows(FilesOf(grown), drawn), ~IsFile(p)
      PROVE  \E u \in more : IsPrefix(u, p)
  <2>1. PICK x \in Ancestors(p) : x \notin Known(FilesOf(grown), drawn)
    BY <1>4, <1>7, RowsAre
  <2>2. x \in Paths /\ IsPrefix(x, p)
    BY AncestorsAre
  <2>3. CASE x \notin held
    BY <2>2, <2>3
  <2>4. CASE x \in held
    <3>1. ~IsFile(x)
      BY <2>1, <2>4 DEF Known, FilesOf
    <3>2. x \notin Rows(FilesOf(grown), drawn)
      BY <2>1, RowsAre
    <3>3. PICK u \in more : IsPrefix(u, x)
      BY <1>5, <2>4, <3>1, <3>2
    <3>4. u \in Paths
      BY AncestorsAre
    <3> QED
      BY <2>2, <3>3, <3>4, PrefixOrder
  <2> QED
    BY <2>3, <2>4
<1> QED
  BY <1>1, <1>2, <1>5, <1>6, <1>7 DEF SoundTree, FoldersOf, FilesOf

\* A removal: what is left of the tree, and of the folders it empties.
LEMMA RemoveSound ==
    ASSUME NEW held \in SUBSET Paths, IsTree(held), NEW listing, NEW folders, NEW open, NEW un,
           SoundTree(held, listing, folders, open, un), NEW p \in held
    PROVE  LET left == held \ Within(p, held)
               dropped == {p} \cup FilesOf(Within(p, held))
           IN  SoundTree(left, FilesOf(left),
                         Forget(folders, dropped) \cup Emptied(p, FilesOf(left)), open \ dropped, un)
<1> DEFINE left == held \ Within(p, held)
           dropped == {p} \cup FilesOf(Within(p, held))
           drawn == Forget(folders, dropped) \cup Emptied(p, FilesOf(left))
<1>1. /\ listing = FilesOf(held) /\ folders \subseteq held /\ open \subseteq listing
      /\ p \in Paths
  BY DEF SoundTree
<1>2. /\ FilesOf(left) = listing \ Within(p, held)
      /\ \A q \in left : Ancestors(q) \subseteq left
      /\ Ancestors(p) \cap Within(p, held) = {}
  BY <1>1, WithinStays
<1>3. folders \ Within(p, held) \subseteq drawn
  <2> SUFFICES ASSUME NEW x \in folders, x \notin Within(p, held), NEW g \in dropped, IsPrefix(g, x)
               PROVE  FALSE
    BY DEF Forget
  <2>1. g \in Paths /\ IsPrefix(p, g) /\ x \in Paths
    BY <1>1, PrefixOrder DEF FilesOf, Within
  <2> QED
    BY <1>1, <2>1, PrefixOrder DEF Within
<1>4. drawn \subseteq left
  <2>1. Forget(folders, dropped) \subseteq left
    BY <1>1 DEF Forget, Within
  <2>2. Emptied(p, FilesOf(left)) \subseteq left
    BY <1>2 DEF Emptied, IsTree
  <2> QED
    BY <2>1, <2>2
<1>5. open \ dropped \subseteq FilesOf(left)
  BY <1>1, <1>2 DEF FilesOf, Within
<1>6. Known(listing, folders) \ Within(p, held) \subseteq Known(FilesOf(left), drawn)
  <2>1. Emptied(p, FilesOf(left)) \subseteq drawn
    OBVIOUS
  <2> HIDE DEF drawn, left
  <2> QED
    BY <1>1, <1>2, <1>3, <2>1, KnownKept
<1>7. ASSUME NEW q \in left, ~IsFile(q), q \notin Rows(FilesOf(left), drawn)
      PROVE  \E u \in un : IsPrefix(u, q)
  <2>1. Known(listing, folders) \cap left \subseteq Known(FilesOf(left), drawn)
    BY <1>6
  <2>2. left \subseteq held
    OBVIOUS
  <2> HIDE DEF drawn, left
  <2> QED
    BY <1>2, <1>7, <2>1, <2>2, RowsKept
<1> QED
  BY <1>4, <1>5, <1>7 DEF SoundTree, FoldersOf, FilesOf

\* What arrives of a move.
Landed(held, p, to) == {Landing(p, to, q) : q \in Within(p, held)}
Shifted(held, p, to, partial) ==
    (IF partial THEN held ELSE held \ Within(p, held)) \cup Landed(held, p, to)
StillOpen(open, held, p, partial) == IF partial THEN open ELSE open \ FilesOf(Within(p, held))
Excused(un, held, p, to) ==
    un \cup FoldersOf(Landed(held, p, to)) \cup FoldersOf(Within(p, held))
CanGo(held, p, into, to) ==
    /\ p \in held /\ into \in Paths \cup {<<>>} /\ to = Destination(p, into)
    /\ to \in Paths \ held /\ ~IsPrefix(p, to) /\ (Len(to) > 1 => Front(to) \in FoldersOf(held))

\* A move, which may leave what it has copied.
LEMMA MoveTree ==
    ASSUME NEW held \in SUBSET Paths, IsTree(held), NEW p \in held,
           NEW into, NEW to, CanGo(held, p, into, to)
    PROVE  /\ Landed(held, p, to) \subseteq Paths /\ to \in Landed(held, p, to)
           /\ IsTree(held \cup Landed(held, p, to))
           /\ IsTree((held \ Within(p, held)) \cup Landed(held, p, to))
           /\ \A x \in Ancestors(to) : x \in held \ Within(p, held)
           /\ \A q \in FilesOf(Within(p, held)) :
                 Landing(p, to, q) \in FilesOf(Landed(held, p, to))
<1> DEFINE arrives == {Landing(p, to, q) : q \in Within(p, held)}
<1>0. /\ p \in held /\ into \in Paths \cup {<<>>} /\ to = Destination(p, into)
      /\ to \in Paths \ held /\ ~IsPrefix(p, to) /\ (Len(to) > 1 => Front(to) \in FoldersOf(held))
  BY DEF CanGo
<1>1. p \in Paths /\ p \in Within(p, held) /\ Landing(p, to, p) = to
  BY <1>0, PrefixOrder, LandingIs DEF Within
<1>2. ASSUME NEW q \in Within(p, held)
      PROVE  /\ Landing(p, to, q) \in Paths /\ (IsFile(Landing(p, to, q)) <=> IsFile(q))
             /\ \A x \in Ancestors(Landing(p, to, q)) :
                   \/ x \in Ancestors(to)
                   \/ \E y \in Paths : /\ IsPrefix(p, y) /\ IsPrefix(y, q) /\ y # q
                                       /\ x = Landing(p, to, y)
  <2>1. q \in Paths /\ IsPrefix(p, q)
    BY DEF Within
  <2> QED
    BY <1>0, <1>1, <2>1, LandingIs
<1>3. ASSUME NEW x \in Ancestors(to) PROVE x \in held \ Within(p, held) /\ ~IsFile(x)
  <2>1. /\ Front(to) \in held /\ ~IsFile(Front(to)) /\ Front(to) \in Paths
        /\ IsPrefix(x, Front(to)) /\ x \in Paths /\ IsPrefix(x, to)
    BY <1>0, AncestorsAre DEF FoldersOf, FilesOf
  <2>2. x = Front(to) \/ x \in Ancestors(Front(to))
    BY <2>1, AncestorsAre
  <2>3. x \in held /\ ~IsFile(x)
    BY <2>1, <2>2 DEF IsTree
  <2>4. ~IsPrefix(p, x)
    BY <1>0, <1>1, <2>1, PrefixOrder
  <2> QED
    BY <2>3, <2>4 DEF Within
<1>4. ASSUME NEW rest \in {held, held \ Within(p, held)}, NEW r \in arrives
      PROVE  Ancestors(r) \subseteq rest \cup arrives /\ \A x \in Ancestors(r) : ~IsFile(x)
  <2>1. PICK q \in Within(p, held) : r = Landing(p, to, q)
    OBVIOUS
  <2> SUFFICES ASSUME NEW x \in Ancestors(r) PROVE x \in rest \cup arrives /\ ~IsFile(x)
    OBVIOUS
  <2>2. CASE x \in Ancestors(to)
    BY <1>3, <2>2
  <2>3. CASE \E y \in Paths : /\ IsPrefix(p, y) /\ IsPrefix(y, q) /\ y # q
                              /\ x = Landing(p, to, y)
    <3>1. PICK y \in Paths : /\ IsPrefix(p, y) /\ IsPrefix(y, q) /\ y # q
                             /\ x = Landing(p, to, y)
      BY <2>3
    <3>2. y \in Ancestors(q) /\ q \in held
      BY <3>1 DEF Ancestors, IsStrictPrefix, Within
    <3>3. y \in Within(p, held) /\ ~IsFile(y)
      BY <3>1, <3>2 DEF IsTree, Within
    <3> QED
      BY <1>2, <3>1, <3>3
  <2> QED
    BY <1>2, <2>1, <2>2, <2>3
<1>5. ASSUME NEW rest \in {held, held \ Within(p, held)}, NEW q \in rest
      PROVE  Ancestors(q) \subseteq rest /\ \A x \in Ancestors(q) : ~IsFile(x)
  BY <1>1, WithinStays DEF IsTree
<1>6. ASSUME NEW rest \in {held, held \ Within(p, held)} PROVE IsTree(rest \cup arrives)
  BY <1>4, <1>5 DEF IsTree
<1>7. \A q \in FilesOf(Within(p, held)) : Landing(p, to, q) \in FilesOf(arrives)
  BY <1>2 DEF FilesOf
<1> QED
  BY <1>1, <1>2, <1>3, <1>6, <1>7 DEF Landed

LEMMA MoveSound ==
    ASSUME NEW held \in SUBSET Paths, IsTree(held), NEW listing, NEW folders, NEW open, NEW un,
           SoundTree(held, listing, folders, open, un), NEW p \in held,
           NEW into, NEW to, CanGo(held, p, into, to), NEW partial \in BOOLEAN
    PROVE  SoundTree(Shifted(held, p, to, partial), FilesOf(Shifted(held, p, to, partial)),
                     Remembered(p, to, FilesOf(Shifted(held, p, to, partial)), folders),
                     StillOpen(open, held, p, partial), Excused(un, held, p, to))
<1> DEFINE under == Within(p, held)
           arrives == Landed(held, p, to)
           rest == IF partial THEN held ELSE held \ under
           next == Shifted(held, p, to, partial)
           listed == FilesOf(next)
           drawn == Remembered(p, to, listed, folders)
           kept == StillOpen(open, held, p, partial)
           more == Excused(un, held, p, to)
<1>0. /\ next = rest \cup arrives
      /\ drawn = Forget(folders, {p}) \cup (IF p \in folders THEN {to} ELSE {})
                                      \cup Emptied(p, listed)
      /\ more = un \cup FoldersOf(arrives) \cup FoldersOf(under)
      /\ kept = IF partial THEN open ELSE open \ FilesOf(under)
  BY DEF Shifted, Remembered, StillOpen, Excused
<1> HIDE DEF next, drawn, kept, more
<1>1. /\ listing = FilesOf(held) /\ folders \subseteq held /\ open \subseteq listing
      /\ p \in Paths
  BY DEF SoundTree
<1>2. /\ arrives \subseteq Paths /\ to \in arrives
      /\ \A x \in Ancestors(to) : x \in held \ under
  BY MoveTree
<1>3. /\ FilesOf(held \ under) = listing \ under
      /\ \A q \in held \ under : Ancestors(q) \subseteq held \ under
      /\ Ancestors(p) \cap under = {}
  BY <1>1, WithinStays
<1>4. held \ under \subseteq rest /\ rest \subseteq held
  OBVIOUS
<1>5. drawn \subseteq next
  <2>1. Forget(folders, {p}) \subseteq held \ under
    BY <1>1 DEF Forget, Within
  <2>2. Emptied(p, listed) \subseteq held \ under
    BY <1>3 DEF Emptied, IsTree
  <2> HIDE DEF listed, rest, arrives
  <2> QED
    BY <1>0, <1>2, <1>4, <2>1, <2>2
<1>6. kept \subseteq listed
  <2> SUFFICES ASSUME NEW x \in kept PROVE x \in rest /\ IsFile(x)
    BY <1>0 DEF FilesOf
  <2>1. x \in held /\ IsFile(x)
    BY <1>0, <1>1 DEF FilesOf
  <2>2. CASE partial
    BY <2>1, <2>2
  <2>3. CASE ~partial
    BY <1>0, <2>1, <2>3 DEF FilesOf
  <2> QED
    BY <2>1, <2>2, <2>3
<1>7. listing \ under \subseteq listed /\ folders \ under \subseteq drawn
  BY <1>0, <1>1, <1>3, <1>4 DEF FilesOf, Forget, Within
<1>8. Known(listing, folders) \ under \subseteq Known(listed, drawn)
  <2>1. Emptied(p, listed) \subseteq drawn
    BY <1>0
  <2> HIDE DEF listed
  <2> QED
    BY ONLY held \in SUBSET Paths, IsTree(held), SoundTree(held, listing, folders, open, un),
            <1>1, <1>7, <2>1, KnownKept
<1>9. ASSUME NEW q \in held \ under, ~IsFile(q), q \notin Rows(listed, drawn)
      PROVE  \E u \in un : IsPrefix(u, q)
  <2> DEFINE stays == held \ under
  <2>1. Known(listing, folders) \cap stays \subseteq Known(listed, drawn)
    BY <1>8
  <2>2. stays \subseteq held /\ q \in stays /\ \A x \in stays : Ancestors(x) \subseteq stays
    BY <1>3
  <2> HIDE DEF listed, stays
  <2> QED
    BY ONLY SoundTree(held, listing, folders, open, un), <1>9, <2>1, <2>2, RowsKept
<1>10. ASSUME NEW q \in FoldersOf(next) \ Rows(listed, drawn)
       PROVE  \E u \in more : IsPrefix(u, q)
  <2>1. q \in Paths /\ ~IsFile(q) /\ IsPrefix(q, q)
    BY <1>0, <1>2, <1>4, PrefixOrder DEF FoldersOf, FilesOf
  <2>2. CASE q \in arrives \cup under
    BY <1>0, <2>1, <2>2 DEF FoldersOf, FilesOf
  <2>3. CASE q \notin arrives \cup under
    <3>1. q \in held \ under
      BY <1>0, <1>4, <2>3 DEF FoldersOf
    <3> QED
      BY <1>0, <1>9, <1>10, <2>1, <3>1
  <2> QED
    BY <2>2, <2>3
<1> QED
  BY <1>5, <1>6, <1>10 DEF SoundTree, next, drawn, kept, more

-----------------------------------------------------------------------------
(* The steps.                                                              *)

\* A step of one act.
LEMMA ActStep ==
    ASSUME ActsInv, NEW a \in Act, acts[a].at # "over", NEW rec \in Records,
           acts' = [acts EXCEPT ![a] = rec], UNCHANGED <<session, sessions, singly>>,
           disk' \subseteq Paths, IsTree(disk'), room' \subseteq Paths, made' \subseteq Paths,
           documents' \subseteq Paths, unnamed' \subseteq Paths,
           slips \subseteq slips', slips' \subseteq Slips, session = 0 => documents' = {},
           ActSound(rec, session, sessions),
           Standing /\ "unpublished" \notin slips'
              /\ OneStands(acts[a], session, disk, room, made, documents, unnamed)
           => OneStands(rec, session, disk', room', made', documents', unnamed')
    PROVE  ActsInv'
<1>1. /\ acts \in Seq(Records) /\ acts' \in Seq(Records) /\ Act' = Act
      /\ acts'[a] = rec /\ \A b \in Act : b # a => acts'[b] = acts[b]
  BY DEF ActsInv, ActsTypes, Act
<1>2. ActsTypes'
  BY <1>1 DEF ActsInv, ActsTypes
<1>3. \A b \in Act' : ActSound(acts[b], session, sessions)'
  <2> SUFFICES ASSUME NEW b \in Act PROVE ActSound(acts'[b], session, sessions)
    BY <1>1 DEF ActSound
  <2> QED
    BY <1>1 DEF ActsInv
<1>4. Alone'
  <2> SUFFICES ASSUME singly, NEW b \in Act, NEW c \in Act,
                      acts'[b].at # "over", acts'[c].at # "over"
               PROVE  b = c
    BY <1>1 DEF Alone
  <2>1. acts[b].at # "over" /\ acts[c].at # "over"
    BY <1>1
  <2> QED
    BY <2>1 DEF ActsInv, Alone
<1>5. ASSUME Standing' PROVE Stands'
  <2>1. Standing /\ "unpublished" \notin slips' /\ singly
    BY <1>5 DEF Standing
  <2>2. OneStands(acts[a], session, disk, room, made, documents, unnamed)
    BY <2>1 DEF ActsInv, Stands
  <2>3. OneStands(rec, session, disk', room', made', documents', unnamed')
    BY <2>1, <2>2
  <2>4. ASSUME NEW b \in Act, acts'[b].at # "over" PROVE b = a
    <3>1. acts[b].at # "over"
      BY <1>1, <2>4
    <3> QED
      BY <2>1, <3>1 DEF ActsInv, Alone
  <2>5. ASSUME rec.at = "over" PROVE SoundTree(disk', room', made', documents', unnamed')
    BY <2>3, <2>5 DEF OneStands, Promised
  <2>6. (\A b \in Act' : acts'[b].at = "over")
          => SoundTree(disk', room', made', documents', unnamed')
    BY <1>1, <2>5
  <2>7. \A b \in Act' : acts'[b].at # "over"
          => OneStands(acts'[b], session', disk', room', made', documents', unnamed')
    BY <1>1, <2>3, <2>4
  <2> QED
    BY <2>6, <2>7 DEF Stands
<1> QED
  BY <1>2, <1>3, <1>4, <1>5 DEF ActsInv

\* An act is begun.
LEMMA BeginStep ==
    ASSUME ActsInv, NEW rec \in Records, rec.at # "over", Free, acts' = Append(acts, rec),
           UNCHANGED <<disk, session, sessions, room, made, documents, singly, slips, unnamed>>,
           ActSound(rec, session, sessions),
           Standing /\ SoundTree(disk, room, made, documents, unnamed)
           => OneStands(rec, session, disk, room, made, documents, unnamed)
    PROVE  ActsInv'
<1> DEFINE n == Len(acts) + 1
<1>1. /\ acts \in Seq(Records) /\ acts' \in Seq(Records)
      /\ Act' = Act \cup {n} /\ n \notin Act
      /\ acts'[n] = rec /\ \A b \in Act : acts'[b] = acts[b]
  <2>1. acts \in Seq(Records) /\ Len(acts) \in Nat
    BY DEF ActsInv, ActsTypes
  <2>2. acts' \in Seq(Records) /\ Len(acts') = Len(acts) + 1
    BY <2>1
  <2>3. acts'[n] = rec /\ \A b \in Act : acts'[b] = acts[b]
    BY <2>1 DEF Act
  <2> QED
    BY <2>1, <2>2, <2>3 DEF Act
<1> HIDE DEF n
<1>2. ActsTypes'
  BY <1>1 DEF ActsInv, ActsTypes
<1>3. \A b \in Act' : ActSound(acts[b], session, sessions)'
  <2> SUFFICES ASSUME NEW b \in Act \cup {n} PROVE ActSound(acts'[b], session, sessions)
    BY <1>1 DEF ActSound
  <2> QED
    BY <1>1 DEF ActsInv
<1>4. ASSUME singly, NEW b \in Act PROVE acts'[b].at = "over"
  BY <1>1, <1>4 DEF Free
<1>5. Alone'
  <2> SUFFICES ASSUME singly, NEW b \in Act \cup {n}, NEW c \in Act \cup {n},
                      acts'[b].at # "over", acts'[c].at # "over"
               PROVE  b = c
    BY <1>1 DEF Alone
  <2> QED
    BY <1>4
<1>6. ASSUME Standing' PROVE Stands'
  <2>1. Standing /\ singly /\ \A b \in Act : acts[b].at = "over"
    BY <1>6 DEF Standing, Free
  <2>2. SoundTree(disk, room, made, documents, unnamed)
    BY <2>1 DEF ActsInv, Stands
  <2>3. OneStands(rec, session, disk, room, made, documents, unnamed)
    BY <2>1, <2>2
  <2>4. \A b \in Act' : acts'[b].at # "over"
          => OneStands(acts'[b], session', disk', room', made', documents', unnamed')
    BY <1>1, <1>4, <2>1, <2>3
  <2> QED
    BY <2>2, <2>4 DEF Stands
<1> QED
  BY <1>2, <1>3, <1>5, <1>6 DEF ActsInv

LEMMA ActIs ==
    ASSUME ActsInv, NEW a \in Act
    PROVE  /\ acts[a] \in Records /\ ActSound(acts[a], session, sessions)
           /\ Over \in Records /\ Over.at = "over" /\ ActSound(Over, session, sessions)
<1>1. acts[a] \in Records /\ ActSound(acts[a], session, sessions)
  BY DEF ActsInv, ActsTypes, Act
<1>2. Over \in Records /\ Over.at = "over"
  BY DEF Over, Records, Kinds, ActStages
<1> QED
  BY <1>1, <1>2 DEF ActSound

\* Where nothing is promised, what stands is a sound page.
LEMMA NotPromised ==
    ASSUME NEW r, NEW now, NEW held, NEW listing, NEW folders, NEW open, NEW un,
           r.at \notin {"folder", "open"}, ~Promised(r, now)
    PROVE  OneStands(r, now, held, listing, folders, open, un)
              <=> SoundTree(held, listing, folders, open, un)
BY DEF OneStands

LEMMA SeatStep ==
    ASSUME ActsInv, Seat
    PROVE  ActsInv'
<1>1. sessions \in Nat /\ sessions < MaxSessions /\ sessions' = sessions + 1
      /\ session' = sessions' /\ session = 0 /\ documents = {} /\ MaxSessions \in Nat
  BY ActsAssumption DEF ActsInv, ActsTypes, Seat
<1>2. ActsTypes'
  <2>1. room' \subseteq Paths /\ made' \subseteq Paths /\ slips' \subseteq Slips
        /\ unnamed' \subseteq Paths
    BY DEF ActsInv, ActsTypes, Seat, FilesOf, EmptyFolders, FoldersOf
  <2>2. sessions' \in 0..MaxSessions /\ session' \in {0, sessions'} /\ session' # 0
    BY <1>1
  <2> QED
    BY <2>1, <2>2 DEF ActsInv, ActsTypes, Seat
<1>3. ASSUME NEW a \in Act PROVE ActSound(acts[a], session', sessions')
  <2>1. ActSound(acts[a], session, sessions) /\ acts[a].at # "folder"
    BY DEF ActsInv, Seat
  <2> QED
    BY <1>1, <2>1 DEF ActSound
<1>4. SoundTree(disk', room', made', documents', unnamed')
  <2>1. disk \in SUBSET Paths /\ IsTree(disk)
    BY DEF ActsInv, ActsTypes
  <2> QED
    BY <1>1, <2>1, SeatedSound DEF Seat
<1>5. ASSUME NEW a \in Act, acts[a].at # "over"
      PROVE  OneStands(acts[a], session', disk', room', made', documents', unnamed')
  <2>1. ActSound(acts[a], session, sessions) /\ acts[a].at # "folder"
    BY DEF ActsInv, Seat
  <2>2. acts[a].session # session'
    BY <1>1, <1>5, <2>1 DEF ActSound
  <2> QED
    BY <1>4, <2>1, <2>2 DEF OneStands, Promised
<1>6. acts' = acts /\ Act' = Act /\ disk' = disk /\ singly' = singly
  BY DEF Seat, Act
<1>7. Stands'
  BY <1>4, <1>5, <1>6 DEF Stands
<1>8. Alone'
  BY <1>6 DEF ActsInv, Alone
<1>9. \A a \in Act' : ActSound(acts[a], session, sessions)'
  BY <1>3, <1>6 DEF ActSound
<1> QED
  BY <1>2, <1>6, <1>7, <1>8, <1>9 DEF ActsInv

LEMMA LeaveStep ==
    ASSUME ActsInv, Leave
    PROVE  ActsInv'
<1>1. ActsTypes'
  BY DEF ActsInv, ActsTypes, Leave
<1>2. ASSUME NEW a \in Act PROVE ActSound(acts[a], session', sessions')
  <2>1. ActSound(acts[a], session, sessions)
    BY DEF ActsInv
  <2> QED
    BY <2>1 DEF ActSound, Leave
<1>3. acts' = acts /\ Act' = Act /\ disk' = disk /\ singly' = singly
  BY DEF Leave, Act
<1>4. Alone'
  BY <1>3 DEF ActsInv, Alone
<1>5. ~Standing'
  BY DEF Standing, Leave
<1>6. \A a \in Act' : ActSound(acts[a], session, sessions)'
  BY <1>2, <1>3 DEF ActSound
<1> QED
  BY <1>1, <1>3, <1>4, <1>5, <1>6 DEF ActsInv

\* What is drawn, and what is above what is listed, are paths.
LEMMA RowsArePaths ==
    ASSUME ActsInv
    PROVE  Drawn \subseteq Paths /\ Implied \subseteq Paths /\ made \subseteq Paths
           /\ room \subseteq Paths
BY DEF ActsInv, ActsTypes, Drawn, Rows, Implied, Ancestors

LEMMA BeginsStep ==
    ASSUME ActsInv, BeginCreate \/ BeginRemove \/ BeginMove \/ BeginOpen
    PROVE  ActsInv'
<1> DEFINE New(action, p, to) ==
             [kind |-> action, path |-> p, to |-> to, session |-> session,
              at |-> IF action = "open" THEN "open" ELSE "folder",
              walk |-> {}, gone |-> {}, partial |-> FALSE]
<1>1. ASSUME NEW action \in Kinds, NEW p \in Paths, NEW to \in Paths, Begin(action, p, to),
             action = "create" => p \notin made,
             action = "remove" => p \in Drawn,
             action = "open" => p \in room,
             action = "move" => \E into \in Paths \cup {<<>>} : to = Destination(p, into)
      PROVE  ActsInv'
  <2> DEFINE rec == New(action, p, to)
  <2>1. sessions \in Nat /\ session # 0 /\ session = sessions
    BY <1>1, ActsAssumption DEF ActsInv, ActsTypes, Begin
  <2>2. rec \in Records
    BY <2>1 DEF Records, Kinds, ActStages
  <2>3. /\ rec.kind = action /\ rec.path = p /\ rec.to = to /\ rec.session = session
        /\ rec.at = (IF action = "open" THEN "open" ELSE "folder") /\ rec.gone = {}
    OBVIOUS
  <2>4. acts' = Append(acts, rec) /\ Free
        /\ UNCHANGED <<disk, session, sessions, room, made, documents, singly, slips, unnamed>>
    BY <1>1 DEF Begin
  <2> HIDE DEF rec
  <2>5. ActSound(rec, session, sessions)
    BY <1>1, <2>1, <2>3 DEF ActSound, Within
  <2>6. ASSUME SoundTree(disk, room, made, documents, unnamed)
        PROVE  OneStands(rec, session, disk, room, made, documents, unnamed)
    <3>1. Drawn \subseteq disk
      BY <2>6, DrawnAre DEF ActsInv, Drawn
    <3> QED
      BY <1>1, <2>3, <2>6, <3>1 DEF OneStands, Promised
  <2> QED
    BY <2>2, <2>3, <2>4, <2>5, <2>6, BeginStep
<1> HIDE DEF New
<1>2. CASE BeginCreate
  <2>1. PICK p \in Paths : ~Taken(p) /\ Begin("create", p, p)
    BY <1>2 DEF BeginCreate
  <2> QED
    BY <1>1, <2>1 DEF Taken, Kinds
<1>3. CASE BeginRemove
  <2>1. PICK p \in Drawn : Begin("remove", p, p)
    BY <1>3 DEF BeginRemove
  <2> QED
    BY <1>1, <2>1, RowsArePaths DEF Kinds
<1>4. CASE BeginMove
  <2>1. PICK p \in Drawn, into \in {<<>>} \cup Implied \cup made :
          Destination(p, into) \in Paths /\ Begin("move", p, Destination(p, into))
    BY <1>4 DEF BeginMove
  <2>2. p \in Paths /\ into \in Paths \cup {<<>>} /\ "move" \in Kinds
    BY <2>1, RowsArePaths DEF Kinds
  <2> QED
    BY <1>1, <2>1, <2>2
<1>5. CASE BeginOpen
  <2>1. PICK p \in room : Begin("open", p, p)
    BY <1>5 DEF BeginOpen
  <2> QED
    BY <1>1, <2>1, RowsArePaths DEF Kinds
<1> QED
  BY <1>2, <1>3, <1>4, <1>5

\* What a step that only ends an act needs of it.
LEMMA EndStep ==
    ASSUME ActsInv, NEW a \in Act, acts[a].at # "over", Ends(a),
           UNCHANGED <<disk, session, sessions, room, singly, slips, unnamed>>,
           made' \subseteq Paths, documents' \subseteq Paths,
           session = 0 => documents' = {},
           Standing /\ OneStands(acts[a], session, disk, room, made, documents, unnamed)
           => SoundTree(disk, room, made', documents', unnamed)
    PROVE  ActsInv'
<1>1. /\ Over \in Records /\ ActSound(Over, session, sessions) /\ acts' = [acts EXCEPT ![a] = Over]
      /\ ~Promised(Over, session) /\ Over.at \notin {"folder", "open"}
  BY ActIs DEF Ends, Promised
<1>2. /\ disk' \subseteq Paths /\ IsTree(disk') /\ room' \subseteq Paths /\ unnamed' \subseteq Paths
      /\ slips \subseteq slips' /\ slips' \subseteq Slips
  BY DEF ActsInv, ActsTypes
<1>3. ASSUME Standing, OneStands(acts[a], session, disk, room, made, documents, unnamed)
      PROVE  OneStands(Over, session, disk', room', made', documents', unnamed')
  <2>1. SoundTree(disk', room', made', documents', unnamed')
    BY <1>3
  <2> QED
    BY <1>1, <2>1, NotPromised
<1> HIDE DEF Over
<1> QED
  BY <1>1, <1>2, <1>3, ActStep

LEMMA ActRefusedStep ==
    ASSUME ActsInv, NEW a \in Act, ActRefused(a)
    PROVE  ActsInv'
<1>1. /\ acts[a].at = "folder" /\ acts[a].at # "over" /\ Ends(a)
      /\ UNCHANGED <<disk, session, sessions, room, documents, singly, slips, unnamed>>
      /\ made' = IF acts[a].kind = "create" /\ Mine(a) THEN made \ {acts[a].path} ELSE made
  BY DEF ActRefused
<1>2. made' \subseteq Paths /\ documents' \subseteq Paths /\ (session = 0 => documents' = {})
  BY <1>1 DEF ActsInv, ActsTypes
<1>3. ASSUME OneStands(acts[a], session, disk, room, made, documents, unnamed)
      PROVE  SoundTree(disk, room, made', documents', unnamed)
  <2>1. SoundTree(disk, room, made, documents, unnamed)
        /\ (acts[a].kind = "create" => acts[a].path \notin made)
    BY <1>1, <1>3 DEF OneStands, Promised
  <2>2. made' = made
    BY <1>1, <2>1
  <2> QED
    BY <1>1, <2>1, <2>2
<1> QED
  BY <1>1, <1>2, <1>3, EndStep

LEMMA ActAbandonedStep ==
    ASSUME ActsInv, NEW a \in Act, ActAbandoned(a)
    PROVE  ActsInv'
<1>1. /\ acts[a].at \in {"publish", "open"} /\ acts[a].at # "over" /\ Ends(a) /\ ~Mine(a)
      /\ UNCHANGED <<disk, session, sessions, room, made, documents, singly, slips, unnamed>>
  BY DEF ActAbandoned
<1>2. made' \subseteq Paths /\ documents' \subseteq Paths /\ (session = 0 => documents' = {})
  BY <1>1 DEF ActsInv, ActsTypes
<1>3. ASSUME OneStands(acts[a], session, disk, room, made, documents, unnamed)
      PROVE  SoundTree(disk, room, made', documents', unnamed)
  BY <1>1, <1>3 DEF OneStands, Promised, Mine
<1> QED
  BY <1>1, <1>2, <1>3, EndStep

LEMMA ActOpenStep ==
    ASSUME ActsInv, NEW a \in Act, Open(a)
    PROVE  ActsInv'
<1>1. /\ acts[a].at = "open" /\ acts[a].at # "over" /\ Ends(a) /\ acts[a].session = session
      /\ UNCHANGED <<disk, session, sessions, room, made, singly, slips, unnamed>>
      /\ documents' = documents \cup {acts[a].path} \/ documents' = documents
  BY DEF Open, Mine
<1>2. acts[a].path \in Paths /\ session # 0
  <2>1. ActSound(acts[a], session, sessions) /\ sessions \in Nat
    BY ActIs, ActsAssumption DEF ActsInv, ActsTypes
  <2> QED
    BY <1>1, <2>1 DEF ActSound
<1>3. made' \subseteq Paths /\ documents' \subseteq Paths /\ (session = 0 => documents' = {})
  BY <1>1, <1>2 DEF ActsInv, ActsTypes
<1>4. ASSUME OneStands(acts[a], session, disk, room, made, documents, unnamed)
      PROVE  SoundTree(disk, room, made', documents', unnamed)
  <2>1. SoundTree(disk, room, made, documents, unnamed) /\ acts[a].path \in room
    BY <1>1, <1>4 DEF OneStands, Promised
  <2> QED
    BY <1>1, <2>1 DEF SoundTree
<1> QED
  BY <1>1, <1>3, <1>4, EndStep

LEMMA WalkFolderStep ==
    ASSUME ActsInv, NEW a \in Act, WalkFolder(a)
    PROVE  ActsInv'
<1> DEFINE rec == [acts[a] EXCEPT !.at = "publish", !.walk = FilesOf(disk)]
<1>1. /\ acts[a].at = "walk" /\ acts[a].at # "over" /\ acts' = [acts EXCEPT ![a] = rec]
      /\ UNCHANGED <<disk, session, sessions, room, made, documents, singly, slips, unnamed>>
  BY DEF WalkFolder
<1>2. acts[a] \in Records /\ ActSound(acts[a], session, sessions) /\ disk \subseteq Paths
  BY ActIs DEF ActsInv, ActsTypes
<1>3. /\ rec \in Records /\ rec.at = "publish" /\ rec.walk = FilesOf(disk)
      /\ rec.kind = acts[a].kind /\ rec.path = acts[a].path /\ rec.to = acts[a].to
      /\ rec.session = acts[a].session /\ rec.gone = acts[a].gone
      /\ rec.partial = acts[a].partial
  BY <1>2 DEF Records, ActStages, FilesOf
<1> HIDE DEF rec
<1>4. ActSound(rec, session, sessions)
  BY <1>1, <1>2, <1>3 DEF ActSound
<1>5. ASSUME OneStands(acts[a], session, disk, room, made, documents, unnamed)
      PROVE  OneStands(rec, session, disk', room', made', documents', unnamed')
  <2>1. CASE acts[a].session = session
    <3>1. Coming(acts[a], disk, made, documents, unnamed)
      BY <1>1, <1>5, <2>1 DEF OneStands, Promised
    <3>2. Coming(rec, disk, made, documents, unnamed)
      BY <1>3, <3>1 DEF Coming
    <3> QED
      BY <1>1, <1>3, <2>1, <3>2 DEF OneStands, Promised
  <2>2. CASE acts[a].session # session
    BY <1>1, <1>3, <1>5, <2>2 DEF OneStands, Promised
  <2> QED
    BY <2>1, <2>2
<1> QED
  BY <1>1, <1>3, <1>4, <1>5, ActStep DEF ActsInv, ActsTypes

\* While it is the folder's answer that an act waits for, the page is sound.
LEMMA Asked ==
    ASSUME ActsInv, NEW a \in Act, acts[a].at = "folder"
    PROVE  /\ acts[a] \in Records /\ acts[a].path \in Paths /\ acts[a].to \in Paths
           /\ ActSound(acts[a], session, sessions) /\ disk \in SUBSET Paths /\ IsTree(disk)
           /\ Standing => acts[a].session = session
           /\ OneStands(acts[a], session, disk, room, made, documents, unnamed)
              => SoundTree(disk, room, made, documents, unnamed)
<1>1. acts[a] \in Records /\ ActSound(acts[a], session, sessions)
  BY ActIs
<1>2. OneStands(acts[a], session, disk, room, made, documents, unnamed)
      => SoundTree(disk, room, made, documents, unnamed)
  BY DEF OneStands, Promised
<1> QED
  BY <1>1, <1>2 DEF ActSound, Standing, ActsInv, ActsTypes

LEMMA FolderCreatesStep ==
    ASSUME ActsInv, NEW a \in Act, FolderCreates(a)
    PROVE  ActsInv'
<1> DEFINE rec == [acts[a] EXCEPT !.at = "walk"]
           p == acts[a].path
<1>1. /\ acts[a].at = "folder" /\ acts[a].at # "over" /\ acts[a].kind = "create"
      /\ acts' = [acts EXCEPT ![a] = rec]
      /\ p \notin disk /\ \A q \in Ancestors(p) : ~IsFile(q)
      /\ disk' = disk \cup {p} \cup Ancestors(p)
      /\ unnamed' = unnamed \cup (Ancestors(p) \ disk)
      /\ UNCHANGED <<session, sessions, room, made, documents, singly, slips>>
  BY DEF FolderCreates, Creates, Created, GoesTo
<1>2. /\ acts[a] \in Records /\ p \in Paths /\ ActSound(acts[a], session, sessions)
      /\ disk \in SUBSET Paths /\ IsTree(disk)
  BY <1>1, Asked
<1>3. /\ rec \in Records /\ rec.at = "walk" /\ rec.kind = "create" /\ rec.path = p
      /\ rec.to = acts[a].to /\ rec.session = acts[a].session
  BY <1>1, <1>2 DEF Records, ActStages
<1> HIDE DEF rec, p
<1>4. ActSound(rec, session, sessions)
  BY <1>1, <1>2, <1>3 DEF ActSound, p
<1>5. disk' \subseteq Paths /\ IsTree(disk')
  BY <1>1, <1>2, CreateTree
<1>6. unnamed \in SUBSET Paths /\ unnamed' \subseteq Paths
  BY <1>1 DEF ActsInv, ActsTypes, Ancestors
<1>7. ASSUME Standing, OneStands(acts[a], session, disk, room, made, documents, unnamed)
      PROVE  OneStands(rec, session, disk', room', made', documents', unnamed')
  <2>1. SoundTree(disk, room, made, documents, unnamed) /\ rec.session = session
    BY <1>1, <1>3, <1>7, Asked
  <2>2. SoundTree(disk', FilesOf(disk'), IF IsFile(p) THEN made ELSE made \cup {p}, documents,
                  unnamed')
    BY <1>1, <1>2, <1>6, <2>1, CreateSound
  <2>3. Coming(rec, disk', made', documents', unnamed')
    BY <1>1, <1>3, <2>2 DEF Coming
  <2> QED
    BY <1>3, <2>1, <2>3 DEF OneStands, Promised
<1> QED
  BY <1>1, <1>3, <1>4, <1>5, <1>6, <1>7, ActStep DEF ActsInv, ActsTypes

LEMMA FolderRemovesStep ==
    ASSUME ActsInv, NEW a \in Act, FolderRemoves(a)
    PROVE  ActsInv'
<1> DEFINE p == acts[a].path
           dropped == {p} \cup FilesOf(Within(p, disk))
           rec == [acts[a] EXCEPT !.at = "walk", !.gone = dropped]
<1>1. /\ acts[a].at = "folder" /\ acts[a].at # "over" /\ acts[a].kind = "remove"
      /\ disk' = disk \ Within(p, disk)
      /\ IF acts[a].session = session
         THEN acts' = [acts EXCEPT ![a] = rec] /\ made' = Forget(made, dropped)
         ELSE Ends(a) /\ made' = made
      /\ UNCHANGED <<session, sessions, room, documents, singly, slips, unnamed>>
  BY DEF FolderRemoves, Mine
<1>2. /\ acts[a] \in Records /\ p \in Paths /\ ActSound(acts[a], session, sessions)
      /\ disk \in SUBSET Paths /\ IsTree(disk)
      /\ (Standing => acts[a].session = session)
  BY <1>1, Asked
<1>3. /\ rec \in Records /\ rec.at = "walk" /\ rec.kind = "remove" /\ rec.path = p
      /\ rec.to = acts[a].to /\ rec.session = acts[a].session /\ rec.gone = dropped
  BY <1>1, <1>2 DEF Records, ActStages, FilesOf, Within
<1> HIDE DEF rec, dropped, p
<1>4. ActSound(rec, session, sessions)
  BY <1>1, <1>2, <1>3 DEF ActSound, p
<1>5. disk' \subseteq Paths /\ IsTree(disk')
  BY <1>1, <1>2, WithinStays
<1>6. made' \subseteq Paths
  BY <1>1 DEF ActsInv, ActsTypes, Forget
<1>7. CASE acts[a].session = session
  <2>1. ASSUME OneStands(acts[a], session, disk, room, made, documents, unnamed)
        PROVE  OneStands(rec, session, disk', room', made', documents', unnamed')
    <3>1. SoundTree(disk, room, made, documents, unnamed) /\ p \in disk
      BY <1>1, <2>1, Asked DEF OneStands, p
    <3>2. SoundTree(disk', FilesOf(disk'), made' \cup Emptied(p, FilesOf(disk')),
                    documents' \ dropped, unnamed')
      BY <1>1, <1>2, <1>7, <3>1, RemoveSound DEF dropped
    <3>3. Coming(rec, disk', made', documents', unnamed')
      BY <1>3, <3>2 DEF Coming
    <3> QED
      BY <1>3, <1>7, <3>3 DEF OneStands, Promised
  <2> QED
    BY <1>1, <1>3, <1>4, <1>5, <1>6, <1>7, <2>1, ActStep DEF ActsInv, ActsTypes
<1>8. CASE acts[a].session # session
  <2>1. ~Standing
    BY <1>2, <1>8
  <2>2. Over \in Records /\ ActSound(Over, session, sessions) /\ acts' = [acts EXCEPT ![a] = Over]
    BY <1>1, <1>8, ActIs DEF Ends
  <2> HIDE DEF Over
  <2> QED
    BY <1>1, <1>5, <1>6, <2>1, <2>2, ActStep DEF ActsInv, ActsTypes
<1> QED
  BY <1>7, <1>8

LEMMA FolderMovesStep ==
    ASSUME ActsInv, NEW a \in Act, FolderMoves(a)
    PROVE  ActsInv'
<1> DEFINE p == acts[a].path
           to == acts[a].to
           dropped == FilesOf(Within(p, disk))
           arrives == Landed(disk, p, to)
<1>1. PICK partial \in BOOLEAN :
        /\ disk' = (IF partial THEN disk ELSE disk \ Within(p, disk)) \cup arrives
        /\ IF acts[a].session = session
           THEN acts' = [acts EXCEPT ![a] = [acts[a] EXCEPT !.at = "walk", !.partial = partial,
                                                            !.gone = dropped]]
           ELSE Ends(a)
        /\ slips' = IF partial THEN slips \cup {"halved"} ELSE slips
  BY DEF FolderMoves, Mine, Arrives, Landed
<1> DEFINE rec == [acts[a] EXCEPT !.at = "walk", !.partial = partial, !.gone = dropped]
<1>2. /\ acts[a].at = "folder" /\ acts[a].at # "over" /\ acts[a].kind = "move"
      /\ IF acts[a].session = session THEN acts' = [acts EXCEPT ![a] = rec] ELSE Ends(a)
      /\ p \in disk /\ to \in Paths \ disk /\ ~IsPrefix(p, to)
      /\ Len(to) > 1 => Front(to) \in FoldersOf(disk)
      /\ unnamed' = unnamed \cup FoldersOf(arrives) \cup FoldersOf(Within(p, disk))
      /\ UNCHANGED <<session, sessions, room, made, documents, singly>>
  BY <1>1 DEF FolderMoves, CanMove, Arrives, Landed
<1>3. /\ acts[a] \in Records /\ p \in Paths /\ to \in Paths
      /\ ActSound(acts[a], session, sessions)
      /\ disk \in SUBSET Paths /\ IsTree(disk)
      /\ (Standing => acts[a].session = session)
  BY <1>2, Asked
<1>4. /\ rec \in Records /\ rec.at = "walk" /\ rec.kind = "move" /\ rec.path = p
      /\ rec.to = to /\ rec.session = acts[a].session /\ rec.gone = dropped
      /\ rec.partial = partial
  BY <1>2, <1>3 DEF Records, ActStages, FilesOf, Within
<1>5. dropped \subseteq Within(p, Paths)
  BY <1>3 DEF FilesOf, Within
<1> HIDE DEF rec, dropped, p, to, arrives
<1>6. PICK into : CanGo(disk, p, into, to)
  <2>1. PICK x \in Paths \cup {<<>>} : to = Destination(p, x)
    BY <1>2, <1>3 DEF ActSound, p, to
  <2> QED
    BY <1>2, <2>1 DEF CanGo
<1>7. ActSound(rec, session, sessions)
  BY <1>2, <1>3, <1>4, <1>5, <1>6 DEF ActSound, CanGo, p
<1>8. /\ arrives \subseteq Paths /\ IsTree(disk')
      /\ \A q \in dropped : Landing(p, to, q) \in FilesOf(arrives)
  BY <1>1, <1>2, <1>3, <1>6, MoveTree DEF arrives, dropped
<1>9. disk' \subseteq Paths /\ slips \subseteq slips' /\ slips' \subseteq Slips
  BY <1>1, <1>3, <1>8 DEF ActsInv, ActsTypes, Slips
<1>10. unnamed' \subseteq Paths
  BY <1>2, <1>3, <1>8 DEF ActsInv, ActsTypes, FoldersOf, Within
<1>11. CASE acts[a].session = session
  <2>1. ASSUME OneStands(acts[a], session, disk, room, made, documents, unnamed)
        PROVE  OneStands(rec, session, disk', room', made', documents', unnamed')
    <3>1. SoundTree(disk, room, made, documents, unnamed)
      BY <1>2, <2>1, Asked
    <3>2. SoundTree(disk', FilesOf(disk'), Remembered(p, to, FilesOf(disk'), made'),
                    IF partial THEN documents' ELSE documents' \ dropped, unnamed')
      <4>1. SoundTree(Shifted(disk, p, to, partial), FilesOf(Shifted(disk, p, to, partial)),
                      Remembered(p, to, FilesOf(Shifted(disk, p, to, partial)), made),
                      StillOpen(documents, disk, p, partial), Excused(unnamed, disk, p, to))
        BY <1>2, <1>3, <1>6, <3>1, MoveSound
      <4>2. /\ disk' = Shifted(disk, p, to, partial) /\ unnamed' = Excused(unnamed, disk, p, to)
            /\ made' = made
            /\ StillOpen(documents, disk, p, partial)
                 = IF partial THEN documents' ELSE documents' \ dropped
        BY <1>1, <1>2 DEF Shifted, Excused, StillOpen, arrives, dropped
      <4> QED
        BY <4>1, <4>2
    <3>3. \A q \in dropped : Landing(p, to, q) \in FilesOf(disk')
      BY <1>1, <1>8 DEF FilesOf
    <3>4. Coming(rec, disk', made', documents', unnamed')
      BY <1>4, <3>2, <3>3 DEF Coming
    <3> QED
      BY <1>4, <1>11, <3>4 DEF OneStands, Promised
  <2> QED
    BY <1>2, <1>4, <1>7, <1>8, <1>9, <1>10, <1>11, <2>1, ActStep DEF ActsInv, ActsTypes
<1>12. CASE acts[a].session # session
  <2>1. ~Standing
    BY <1>3, <1>12
  <2>2. Over \in Records /\ ActSound(Over, session, sessions) /\ acts' = [acts EXCEPT ![a] = Over]
    BY <1>2, <1>12, ActIs DEF Ends
  <2> HIDE DEF Over
  <2> QED
    BY <1>2, <1>8, <1>9, <1>10, <2>1, <2>2, ActStep DEF ActsInv, ActsTypes
<1> QED
  BY <1>11, <1>12

LEMMA PublishFolderStep ==
    ASSUME ActsInv, NEW a \in Act, PublishFolder(a)
    PROVE  ActsInv'
<1> DEFINE r == acts[a]
           p == acts[a].path
<1>1. PICK fails \in BOOLEAN :
        /\ room' = IF fails THEN room ELSE r.walk
        /\ slips' = IF fails THEN slips \cup {"unpublished"} ELSE slips
        /\ \/ Ends(a)
           \/ \E q \in Opens(a, fails) : acts' = [acts EXCEPT ![a].at = "open", ![a].path = q]
        /\ r.kind = "create" => CreateEnds(a) /\ documents' = documents
        /\ r.kind = "remove" => RemoveEnds(a, IF fails THEN room ELSE r.walk)
        /\ r.kind = "move"   => MoveEnds(a, IF fails THEN room ELSE r.walk)
  BY DEF PublishFolder
<1>2. /\ r.at = "publish" /\ r.at # "over" /\ r.session = session
      /\ UNCHANGED <<disk, session, sessions, singly, unnamed>>
  BY DEF PublishFolder, Mine
<1>3. /\ r \in Records /\ p \in Paths /\ r.to \in Paths /\ ActSound(r, session, sessions)
      /\ r.kind \in {"create", "remove", "move"} /\ session # 0
  <2>1. r \in Records /\ ActSound(r, session, sessions)
    BY ActIs
  <2>2. r.kind \in Kinds /\ r.kind # "open" /\ r.session # 0
    BY <1>2, <2>1, ActsAssumption DEF ActSound, Records, ActsInv, ActsTypes
  <2> QED
    BY <1>2, <2>1, <2>2 DEF ActSound, Kinds
<1>4. Opens(a, fails) \subseteq Paths
  <2> SUFFICES ASSUME NEW x \in Opens(a, fails) PROVE x \in Paths
    OBVIOUS
  <2>1. CASE r.kind = "create"
    BY <1>3, <2>1 DEF Opens
  <2>2. CASE r.kind = "move"
    <3>1. PICK q \in r.gone : x = Landing(p, r.to, q)
      BY <2>2 DEF Opens
    <3>2. PICK into \in Paths \cup {<<>>} : r.to = Destination(p, into)
      BY <1>2, <1>3, <2>2 DEF ActSound
    <3>3. q \in Paths /\ IsPrefix(p, q)
      BY <1>2, <1>3, <2>2, <3>1 DEF ActSound, Within
    <3> QED
      BY <1>3, <3>1, <3>2, <3>3, ActsAssumption
  <2>3. CASE r.kind = "remove"
    BY <2>3 DEF Opens
  <2> QED
    BY <1>3, <2>1, <2>2, <2>3
<1>5. room' \subseteq Paths /\ slips \subseteq slips' /\ slips' \subseteq Slips
  BY <1>1, <1>3 DEF ActsInv, ActsTypes, Slips, Records
<1>6. made' \subseteq Paths /\ documents' \subseteq documents
  <2>1. made \subseteq Paths
    BY DEF ActsInv, ActsTypes
  <2>2. CASE r.kind = "create"
    BY <1>1, <1>3, <2>1, <2>2 DEF CreateEnds
  <2>3. CASE r.kind = "remove"
    BY <1>1, <1>3, <2>1, <2>3 DEF RemoveEnds, Emptied, Ancestors
  <2>4. CASE r.kind = "move"
    BY <1>1, <1>3, <2>1, <2>4 DEF MoveEnds, Emptied, Ancestors, Forget
  <2> QED
    BY <1>3, <2>2, <2>3, <2>4
<1>7. /\ disk' \subseteq Paths /\ IsTree(disk') /\ unnamed' \subseteq Paths
      /\ documents' \subseteq Paths /\ UNCHANGED <<session, sessions, singly>>
      /\ (session = 0 => documents' = {})
  BY <1>2, <1>3, <1>6 DEF ActsInv, ActsTypes
\* What is published is the folder, and with it comes what was owed.
<1>8. ASSUME ~fails, OneStands(r, session, disk, room, made, documents, unnamed)
      PROVE  /\ SoundTree(disk, room', made', documents', unnamed)
             /\ \A q \in Opens(a, fails) : q \in room'
  <2>1. Coming(r, disk, made, documents, unnamed) /\ r.walk = FilesOf(disk)
        /\ room' = FilesOf(disk)
    BY <1>1, <1>2, <1>8 DEF OneStands, Promised, Coming
  <2>2. CASE r.kind = "create"
    <3>1. /\ SoundTree(disk, room', IF IsFile(p) THEN made ELSE made \cup {p}, documents, unnamed)
          /\ p \in disk
      BY <2>1, <2>2 DEF Coming
    <3>2. made' = (IF IsFile(p) THEN made ELSE made \cup {p}) /\ documents' = documents
      BY <1>1, <2>2 DEF CreateEnds
    <3>3. \A q \in Opens(a, fails) : q = p /\ IsFile(p)
      BY <2>2 DEF Opens
    <3> QED
      BY <2>1, <3>1, <3>2, <3>3 DEF FilesOf
  <2>3. CASE r.kind = "remove"
    <3>1. SoundTree(disk, room', made \cup Emptied(p, room'), documents \ r.gone, unnamed)
      BY <2>1, <2>3 DEF Coming
    <3>2. made' = made \cup Emptied(p, room') /\ documents' = documents \ r.gone
      BY <1>1, <2>3 DEF RemoveEnds
    <3>3. Opens(a, fails) = {}
      BY <2>3 DEF Opens
    <3> QED
      BY <3>1, <3>2, <3>3
  <2>4. CASE r.kind = "move"
    <3>1. /\ SoundTree(disk, room', Remembered(p, r.to, room', made),
                       IF r.partial THEN documents ELSE documents \ r.gone, unnamed)
          /\ r.partial \/ \A q \in r.gone : Landing(p, r.to, q) \in room'
      BY <2>1, <2>4 DEF Coming
    <3>2. /\ made' = Remembered(p, r.to, room', made)
          /\ documents' = IF r.partial THEN documents ELSE documents \ r.gone
      BY <1>1, <2>4 DEF MoveEnds, Remembered
    <3>3. \A q \in Opens(a, fails) : q \in room'
      BY <2>4, <3>1 DEF Opens
    <3> QED
      BY <3>1, <3>2, <3>3
  <2> QED
    BY <1>3, <2>2, <2>3, <2>4
<1>9. ASSUME "unpublished" \notin slips' PROVE ~fails
  BY <1>1, <1>9
<1>10. CASE Ends(a)
  <2>1. /\ Over \in Records /\ ActSound(Over, session, sessions)
        /\ acts' = [acts EXCEPT ![a] = Over]
        /\ ~Promised(Over, session) /\ Over.at \notin {"folder", "open"}
    BY <1>10, ActIs DEF Ends, Promised
  <2>2. ASSUME "unpublished" \notin slips',
               OneStands(acts[a], session, disk, room, made, documents, unnamed)
        PROVE  OneStands(Over, session, disk', room', made', documents', unnamed')
    <3>1. SoundTree(disk', room', made', documents', unnamed')
      BY <1>2, <1>8, <1>9, <2>2
    <3> QED
      BY <2>1, <3>1, NotPromised
  <2> HIDE DEF Over
  <2> QED
    BY <1>2, <1>5, <1>6, <1>7, <2>1, <2>2, ActStep
<1>11. CASE \E q \in Opens(a, fails) : acts' = [acts EXCEPT ![a].at = "open", ![a].path = q]
  <2>1. PICK q \in Opens(a, fails) : acts' = [acts EXCEPT ![a].at = "open", ![a].path = q]
    BY <1>11
  <2> DEFINE rec == [acts[a] EXCEPT !.at = "open", !.path = q]
  <2>2. acts' = [acts EXCEPT ![a] = rec]
    BY <2>1
  <2>3. /\ rec \in Records /\ rec.at = "open" /\ rec.path = q /\ rec.to = r.to
        /\ rec.session = session /\ q \in Paths
    BY <1>2, <1>3, <1>4 DEF Records, ActStages
  <2> HIDE DEF rec
  <2>4. ActSound(rec, session, sessions)
    BY <1>2, <1>3, <2>3 DEF ActSound
  <2>5. ASSUME "unpublished" \notin slips',
               OneStands(acts[a], session, disk, room, made, documents, unnamed)
        PROVE  OneStands(rec, session, disk', room', made', documents', unnamed')
    <3>1. SoundTree(disk', room', made', documents', unnamed') /\ q \in room'
      BY <1>2, <1>8, <1>9, <2>5
    <3> QED
      BY <2>3, <3>1 DEF OneStands, Promised
  <2> QED
    BY <1>2, <1>5, <1>6, <1>7, <2>2, <2>3, <2>4, <2>5, ActStep
<1> QED
  BY <1>1, <1>10, <1>11

LEMMA ActsInvInit == ActsInit => ActsInv
<1> SUFFICES ASSUME ActsInit PROVE ActsInv
  OBVIOUS
<1>1. disk \subseteq Paths /\ IsTree(disk) /\ Act = {}
  BY ActsAssumption DEF ActsInit, Act
<1>2. ActsTypes
  BY <1>1, ActsAssumption DEF ActsInit, ActsTypes, Slips
<1> QED
  BY <1>1, <1>2 DEF ActsInit, ActsInv, Alone, Standing

LEMMA ActsInvNext == ActsInv /\ [ActsNext]_actVars => ActsInv'
<1> SUFFICES ASSUME ActsInv, [ActsNext]_actVars PROVE ActsInv'
  OBVIOUS
<1>1. CASE Seat
  BY <1>1, SeatStep
<1>2. CASE Leave
  BY <1>2, LeaveStep
<1>3. CASE BeginCreate \/ BeginRemove \/ BeginMove \/ BeginOpen
  BY <1>3, BeginsStep
<1>4. ASSUME NEW a \in Act,
             \/ ActRefused(a) \/ FolderCreates(a) \/ FolderRemoves(a) \/ FolderMoves(a)
             \/ WalkFolder(a) \/ PublishFolder(a) \/ ActAbandoned(a) \/ Open(a)
      PROVE  ActsInv'
  BY <1>4, ActRefusedStep, FolderCreatesStep, FolderRemovesStep, FolderMovesStep, WalkFolderStep, PublishFolderStep,
     ActAbandonedStep, ActOpenStep
<1>5. CASE UNCHANGED actVars
  BY <1>5 DEF actVars, ActsInv, ActsTypes, Act, ActSound, Alone, Standing, Stands
<1> QED
  BY <1>1, <1>2, <1>3, <1>4, <1>5 DEF ActsNext

LEMMA TreeIsKept == ActsInv => TreeIsTheFolder
<1> SUFFICES ASSUME ActsInv, singly, Quiet
             PROVE  /\ room = FilesOf(disk) /\ Drawn \subseteq disk /\ documents \subseteq disk
                    /\ \A p \in FoldersOf(disk) \ Drawn : \E q \in unnamed : IsPrefix(q, p)
  BY DEF TreeIsTheFolder
<1>1. SoundTree(disk, room, made, documents, unnamed) /\ IsTree(disk)
  BY DEF ActsInv, Standing, Stands, Quiet
<1>2. Drawn \subseteq disk /\ documents \subseteq disk
  BY <1>1, DrawnAre DEF Drawn
<1> QED
  BY <1>1, <1>2 DEF SoundTree, Drawn

\* What ends or goes on is another act than it was.
LEMMA StaysStep ==
    ASSUME ActsInv, [ActsNext]_actVars, session' = session,
           room' # room \/ made' # made \/ documents' # documents
    PROVE  \E a \in Act : acts'[a] # acts[a] /\ acts[a].session = session
<1>1. \A a \in Act : acts[a] \in Records /\ Over.at = "over" /\ acts \in Seq(Records)
  BY ActIs DEF ActsInv, ActsTypes
<1>2. ASSUME NEW a \in Act, acts[a].at # "over", Ends(a) PROVE acts'[a] # acts[a]
  BY <1>1, <1>2 DEF Ends, Act
<1>3. CASE Seat
  BY <1>3, ActsAssumption DEF Seat, ActsInv, ActsTypes
<1>4. CASE Leave
  BY <1>4 DEF Leave
<1>5. CASE BeginCreate \/ BeginRemove \/ BeginMove \/ BeginOpen
  BY <1>5 DEF BeginCreate, BeginRemove, BeginMove, BeginOpen, Begin
<1>6. ASSUME NEW a \in Act, ActRefused(a) PROVE acts'[a] # acts[a] /\ acts[a].session = session
  BY <1>2, <1>6 DEF ActRefused, Mine
<1>7. ASSUME NEW a \in Act, FolderRemoves(a)
      PROVE  acts'[a] # acts[a] /\ acts[a].session = session
  <2>1. acts[a].session = session /\ acts[a].at = "folder" /\ acts[a] \in Records
    BY <1>1, <1>7 DEF FolderRemoves, Mine
  <2>2. acts'[a].at = "walk"
    BY <1>1, <1>7, <2>1 DEF FolderRemoves, Mine, Act, Records
  <2> QED
    BY <2>1, <2>2
<1>8. ASSUME NEW a \in Act, FolderCreates(a) \/ FolderMoves(a) \/ WalkFolder(a) \/ ActAbandoned(a)
      PROVE  FALSE
  BY <1>8 DEF FolderCreates, FolderMoves, WalkFolder, ActAbandoned
<1>9. ASSUME NEW a \in Act, PublishFolder(a)
      PROVE  acts'[a] # acts[a] /\ acts[a].session = session
  <2>1. acts[a].session = session /\ acts[a].at = "publish" /\ acts[a] \in Records
    BY <1>1, <1>9 DEF PublishFolder, Mine
  <2>2. CASE Ends(a)
    BY <1>2, <2>1, <2>2
  <2>3. CASE \E p \in Paths \cup UNION {Opens(a, TRUE), Opens(a, FALSE)} :
               acts' = [acts EXCEPT ![a].at = "open", ![a].path = p]
    <3>1. acts'[a].at = "open"
      BY <1>1, <2>1, <2>3 DEF Act, Records
    <3> QED
      BY <2>1, <3>1
  <2> QED
    BY <1>9, <2>2, <2>3 DEF PublishFolder
<1>10. ASSUME NEW a \in Act, Open(a) PROVE acts'[a] # acts[a] /\ acts[a].session = session
  BY <1>2, <1>10 DEF Open, Mine
<1>11. CASE UNCHANGED actVars
  BY <1>11 DEF actVars
<1> QED
  BY <1>3, <1>4, <1>5, <1>6, <1>7, <1>8, <1>9, <1>10, <1>11 DEF ActsNext

\* main.ts, createEntry, removeEntry, moveEntry and publishFolder: acts taken one at a time
\* leave a tree that is the folder, and an act changes what is its own session's alone,
\* however they overlap.
THEOREM TreeStaysTheFolder == ActsSpec => ActsKeepTheTree
<1>1. ActsInit => ActsInv
  BY ActsInvInit
<1>2. ActsInv /\ [ActsNext]_actVars => ActsInv'
  BY ActsInvNext
<1>3. ActsInv => TreeIsTheFolder
  BY TreeIsKept
<1>4. ActsInv /\ [ActsNext]_actVars =>
        [ session' = session /\ (room' # room \/ made' # made \/ documents' # documents) =>
            \E a \in Act : acts'[a] # acts[a] /\ acts[a].session = session ]_actVars
  BY StaysStep
<1> QED
  BY <1>1, <1>2, <1>3, <1>4, PTL DEF ActsSpec, ActsKeepTheTree, ActsStayInTheirSession

-----------------------------------------------------------------------------
(* Walk.                                                                   *)

FileName == {NameOrder[i] : i \in DOMAIN NameOrder}
Place == Seq(FileName)

\* What governs the entries of a directory: the exclusions, then every ignore file on the way
\* down, its own last.
Carried(d) == RootSources \o [j \in 1..(Len(d) + 1) |-> SourceOf(SubSeq(d, 1, j - 1))]

Frame == [dir : Place, left : SUBSET FileName, ignores : {Carried(d) : d \in Place}]

\* A directory the walk comes to.
Walked(d) == (d = Root \/ (d \in Places /\ Enterable(d))) /\ d \notin gone

\* d is below the i-th directory of a stack, and past the names left of it there.
Past(s, d, i) == SubSeq(d, 1, i - 1) = s[i].dir /\ \A n \in s[i].left : Precedes(d[i], n)

\* What the walk has still to come to.
AheadIn(s, p, i) == i <= Len(p) /\ SubSeq(p, 1, i - 1) = s[i].dir /\ p[i] \in s[i].left
AheadOf(p) == call # NoCall /\ Len(call.dir) < Len(p) /\ SubSeq(p, 1, Len(call.dir)) = call.dir
Ahead(p) == AheadOf(p) \/ \E i \in 1..Len(stack) : AheadIn(stack, p, i)

FolderIsATree == IsFolder([kind |-> kind, gone |-> gone, most |-> most])

WalkTypes ==
    /\ FolderIsATree
    /\ stack \in Seq(Frame)
    /\ call # NoCall => call.dir \in Place
    /\ IsFiniteSet(paths) /\ Cardinality(paths) <= most.paths

StackIsAPath ==
    \A i \in 1..Len(stack) :
        /\ Len(stack[i].dir) = i - 1
        /\ Walked(stack[i].dir) /\ stack[i].dir \notin unread
        /\ stack[i].left \subseteq EntriesOf(stack[i].dir)
        /\ stack[i].ignores = Carried(stack[i].dir)
        /\ \A k \in (i + 1)..Len(stack) : Past(stack, stack[k].dir, i)

CallIsNext ==
    call # NoCall =>
        /\ Len(call.dir) = Len(stack)
        /\ Walked(call.dir)
        /\ call.inherited = IF call.dir = Root THEN <<>> ELSE Carried(Parent(call.dir))
        /\ \A i \in 1..Len(stack) : Past(stack, call.dir, i)

\* What is listed is of the folder and before all that is ahead; what is of the folder and
\* not listed is ahead.
FoundIsBefore ==
    /\ \A p \in paths : p \in Places /\ Listable(p)
    /\ \A d \in entered : d \in Places /\ Enterable(d)
    /\ \A q \in paths : \A p \in Places : Ahead(p) => Before(q, p)
    /\ cut = "none" =>
          /\ \A p \in Places : Listable(p) => p \in paths \/ Ahead(p)
          /\ \A d \in Places : Enterable(d) => d \in entered \/ Ahead(d)

\* A walk a bound stopped.
StoppedBefore ==
    cut # "none" =>
        /\ Done
        /\ \A q \in paths : \A p \in Places : Listable(p) => p \in paths \/ Before(q, p)
        /\ cut \in {"paths", "bytes"} =>
              \E p \in Places \ paths : Listable(p) /\ (\/ Cardinality(paths) = most.paths
                                                       \/ bytes + Size(p) > most.bytes)

WalkInv == WalkTypes /\ StackIsAPath /\ CallIsNext /\ FoundIsBefore /\ StoppedBefore

-----------------------------------------------------------------------------
(* Paths.                                                                  *)

\* The first names of a path.
LEMMA StartIs ==
    ASSUME NEW S, NEW p \in Seq(S), NEW n \in 0..Len(p)
    PROVE  /\ SubSeq(p, 1, n) \in Seq(S)
           /\ Len(SubSeq(p, 1, n)) = n
           /\ \A i \in 1..n : SubSeq(p, 1, n)[i] = p[i]
<1>1. \A i \in 1..n : p[i] \in S
  OBVIOUS
<1>2. 1 \in Int /\ n \in Int
  OBVIOUS
<1> QED BY ONLY <1>1, <1>2, SubSeqProperties, n \in 0..Len(p), p \in Seq(S)

LEMMA PrefixOfPrefix ==
    ASSUME NEW S, NEW p \in Seq(S), NEW n \in 0..Len(p), NEW m \in 0..n
    PROVE  SubSeq(SubSeq(p, 1, n), 1, m) = SubSeq(p, 1, m)
<1> DEFINE q == SubSeq(p, 1, n)
<1>1. q \in Seq(S) /\ Len(q) = n /\ \A i \in 1..n : q[i] = p[i]
  BY StartIs
<1> HIDE DEF q
<1>2. m \in 0..Len(q) /\ m \in 0..Len(p)
  BY <1>1
<1>3. SubSeq(q, 1, m) \in Seq(S) /\ Len(SubSeq(q, 1, m)) = m
      /\ \A i \in 1..m : SubSeq(q, 1, m)[i] = q[i]
  BY <1>1, <1>2, StartIs
<1>4. SubSeq(p, 1, m) \in Seq(S) /\ Len(SubSeq(p, 1, m)) = m
      /\ \A i \in 1..m : SubSeq(p, 1, m)[i] = p[i]
  BY <1>2, StartIs
<1>5. SubSeq(q, 1, m) = SubSeq(p, 1, m)
  BY <1>1, <1>3, <1>4, SeqEqual
<1> QED BY <1>5 DEF q

\* What agrees in its first names agrees in fewer of them, and in each.
LEMMA SamePrefix ==
    ASSUME NEW S, NEW p \in Seq(S), NEW q \in Seq(S), NEW n \in 0..Len(p), n <= Len(q),
           SubSeq(p, 1, n) = SubSeq(q, 1, n)
    PROVE  /\ \A m \in 0..n : SubSeq(p, 1, m) = SubSeq(q, 1, m)
           /\ \A i \in 1..n : p[i] = q[i]
<1>1. n \in 0..Len(q)
  OBVIOUS
<1>2. ASSUME NEW m \in 0..n PROVE SubSeq(p, 1, m) = SubSeq(q, 1, m)
  BY <1>1, PrefixOfPrefix
<1>3. ASSUME NEW i \in 1..n PROVE p[i] = q[i]
  BY <1>1, StartIs
<1> QED BY <1>2, <1>3

\* A path is its parent's and a last name.
LEMMA ChildIs ==
    ASSUME NEW S, NEW d \in Seq(S), NEW x \in S
    PROVE  /\ Append(d, x) \in Seq(S) \ {<<>>}
           /\ Len(Append(d, x)) = Len(d) + 1
           /\ Front(Append(d, x)) = d /\ Last(Append(d, x)) = x
           /\ Append(d, x)[Len(d) + 1] = x
           /\ \A i \in 1..Len(d) : Append(d, x)[i] = d[i]
           /\ \A m \in 0..Len(d) : SubSeq(Append(d, x), 1, m) = SubSeq(d, 1, m)
           /\ SubSeq(Append(d, x), 1, Len(d)) = d
<1> DEFINE c == Append(d, x)
<1>1. c \in Seq(S) /\ Len(c) = Len(d) + 1 /\ c[Len(d) + 1] = x
      /\ \A i \in 1..Len(d) : c[i] = d[i]
  OBVIOUS
<1>2. c # <<>>
  BY <1>1
<1> HIDE DEF c
<1>3. Len(d) \in 0..Len(c) /\ Len(d) \in Nat
  BY <1>1
<1>4. SubSeq(c, 1, Len(d)) \in Seq(S) /\ Len(SubSeq(c, 1, Len(d))) = Len(d)
      /\ \A i \in 1..Len(d) : SubSeq(c, 1, Len(d))[i] = c[i]
  BY <1>1, <1>3, StartIs
<1>5. SubSeq(c, 1, Len(d)) = d
  BY <1>1, <1>4, SeqEqual
<1>6. Len(c) - 1 = Len(d)
  BY <1>1, <1>3
<1>7. ASSUME NEW m \in 0..Len(d) PROVE SubSeq(c, 1, m) = SubSeq(d, 1, m)
  BY <1>1, <1>3, <1>5, PrefixOfPrefix
<1> QED BY <1>1, <1>2, <1>5, <1>6, <1>7 DEF c, Front, Last

LEMMA ParentIs ==
    ASSUME NEW S, NEW p \in Seq(S), p # <<>>
    PROVE  /\ Front(p) \in Seq(S) /\ Last(p) \in S
           /\ Len(Front(p)) = Len(p) - 1 /\ Len(p) \in Nat \ {0}
           /\ Append(Front(p), Last(p)) = p
<1>1. Len(p) \in Nat \ {0}
  BY EmptySeq
<1>2. Front(p) \in Seq(S) /\ Len(Front(p)) = Len(p) - 1 /\ \A i \in 1..(Len(p) - 1) : Front(p)[i] = p[i]
  <2>1. Len(p) - 1 \in 0..Len(p)
    BY <1>1
  <2> QED BY <2>1, StartIs DEF Front
<1>3. Last(p) \in S
  BY <1>1 DEF Last
<1> DEFINE a == Append(Front(p), Last(p))
<1>4. a \in Seq(S) /\ Len(a) = Len(p) /\ \A i \in 1..Len(p) : a[i] = p[i]
  BY <1>1, <1>2, <1>3 DEF Last
<1>5. a = p
  BY <1>4, SeqEqual
<1> QED BY <1>1, <1>2, <1>3, <1>5


\* The folders above a path are its shorter beginnings.
LEMMA AboveIs ==
    ASSUME NEW S, NEW p \in Seq(S)
    PROVE  /\ \A d \in Above(p) : /\ d \in Seq(S) /\ Len(d) \in 0..(Len(p) - 1)
                                  /\ SubSeq(p, 1, Len(d)) = d
           /\ \A n \in 0..(Len(p) - 1) : SubSeq(p, 1, n) \in Above(p)
           /\ p # <<>> => Root \in Above(p) /\ Front(p) \in Above(p)
           /\ \A d \in Above(p) : d # Root => Len(d) \in 1..(Len(p) - 1)
<1>0. Len(p) \in Nat
  OBVIOUS
<1>1. ASSUME NEW d \in Above(p)
      PROVE  d \in Seq(S) /\ Len(d) \in 0..(Len(p) - 1) /\ SubSeq(p, 1, Len(d)) = d
  <2>1. PICK n \in 0..(Len(p) - 1) : d = SubSeq(p, 1, n)
    BY DEF Above
  <2>2. n \in 0..Len(p)
    BY <1>0
  <2> QED BY <2>1, <2>2, StartIs
<1>2. \A n \in 0..(Len(p) - 1) : SubSeq(p, 1, n) \in Above(p)
  BY DEF Above
<1>3. ASSUME p # <<>> PROVE Root \in Above(p) /\ Front(p) \in Above(p)
  <2>1. 0 \in 0..(Len(p) - 1) /\ Len(p) - 1 \in 0..(Len(p) - 1)
    BY <1>3, ParentIs
  <2>2. SubSeq(p, 1, 0) = Root
    BY SubSeqEmpty DEF Root
  <2> QED BY <1>2, <2>1, <2>2 DEF Front
<1>4. ASSUME NEW d \in Above(p), d # Root PROVE Len(d) \in 1..(Len(p) - 1)
  BY <1>0, <1>1, <1>4, EmptySeq DEF Root
<1> QED BY <1>1, <1>2, <1>3, <1>4

\* Above a child are its parent and what is above the parent.
LEMMA AboveChild ==
    ASSUME NEW S, NEW d \in Seq(S), NEW x \in S
    PROVE  Above(Append(d, x)) = Above(d) \cup {d}
<1> DEFINE c == Append(d, x)
<1>1. c \in Seq(S) /\ Len(c) = Len(d) + 1 /\ SubSeq(c, 1, Len(d)) = d
      /\ \A m \in 0..Len(d) : SubSeq(c, 1, m) = SubSeq(d, 1, m)
  BY ChildIs
<1> HIDE DEF c
<1>2. Len(d) \in Nat
  OBVIOUS
<1>3. Above(c) = {SubSeq(d, 1, n) : n \in 0..Len(d)}
  <2>1. Len(c) - 1 = Len(d)
    BY <1>1, <1>2
  <2> QED BY <1>1, <2>1 DEF Above
<1>4. SubSeq(d, 1, Len(d)) = d
  BY <1>1, <1>2
<1>5. \A n \in 0..Len(d) : n \in 0..(Len(d) - 1) \/ n = Len(d)
  BY <1>2
<1>6. 0..(Len(d) - 1) \subseteq 0..Len(d) /\ Len(d) \in 0..Len(d)
  BY <1>2
<1>7. Above(c) \subseteq Above(d) \cup {d}
  BY ONLY <1>3, <1>4, <1>5 DEF Above
<1>8. Above(d) \subseteq Above(c) /\ d \in Above(c)
  BY ONLY <1>3, <1>4, <1>6 DEF Above
<1> QED BY <1>7, <1>8 DEF c

\* What is above what is above a path is above it.
LEMMA AboveAbove ==
    ASSUME NEW S, NEW p \in Seq(S), NEW d \in Above(p)
    PROVE  Above(d) \subseteq Above(p)
<1>0. Len(p) \in Nat
  OBVIOUS
<1>1. d \in Seq(S) /\ Len(d) \in 0..(Len(p) - 1) /\ SubSeq(p, 1, Len(d)) = d
  BY ONLY AboveIs, p \in Seq(S), d \in Above(p)
<1>2. ASSUME NEW e \in Above(d) PROVE e \in Above(p)
  <2>1. Len(e) \in 0..(Len(d) - 1) /\ SubSeq(d, 1, Len(e)) = e
    BY <1>1, <1>2, AboveIs
  <2>2. Len(d) \in 0..Len(p) /\ Len(e) \in 0..Len(d) /\ Len(e) \in 0..(Len(p) - 1)
    BY <1>0, <1>1, <2>1
  <2>3. SubSeq(p, 1, Len(e)) = e
    BY <1>1, <2>1, <2>2, PrefixOfPrefix
  <2> QED BY <1>1, <2>2, <2>3, AboveIs
<1> QED BY <1>2

-----------------------------------------------------------------------------
(* The order of the names.                                                 *)

LEMMA NamesAreOrdered ==
    /\ \A m, n \in FileName : m = n \/ Precedes(m, n) \/ Precedes(n, m)
    /\ \A m, n : Precedes(m, n) => m # n /\ ~Precedes(n, m) /\ m \in FileName /\ n \in FileName
<1>1. DOMAIN NameOrder \subseteq Int
  BY WalkAssumption
<1> QED BY <1>1, WalkAssumption DEF Precedes, FileName

LEMMA FirstIs ==
    ASSUME NEW L, L \subseteq FileName, L # {}
    PROVE  First(L) \in L /\ \A m \in L \ {First(L)} : Precedes(First(L), m)
<1> DEFINE Spot(i) == NameOrder[i]
           N == {i \in DOMAIN NameOrder : NameOrder[i] \in L}
<1>1. DOMAIN NameOrder = 1..Len(NameOrder) /\ Len(NameOrder) \in Nat
  BY WalkAssumption
<1>2. N \subseteq Nat /\ N # {}
  BY <1>1 DEF FileName
<1>3. Min(N) \in N /\ \A m \in N : Min(N) <= m
  BY <1>2, MinIn
<1> DEFINE x == NameOrder[Min(N)]
<1>4. ASSUME NEW m \in L \ {x} PROVE Precedes(x, m)
  <2>1. PICK j \in DOMAIN NameOrder : NameOrder[j] = m
    BY DEF FileName
  <2>2. j \in N /\ j # Min(N)
    BY <2>1
  <2>3. Min(N) < j
    BY <1>2, <1>3, <2>2
  <2> QED BY <1>3, <2>1, <2>3 DEF Precedes
<1>5. x \in L
  BY <1>3
<1>6. \E n \in L : \A m \in L \ {n} : Precedes(n, m)
  BY <1>4, <1>5
<1> QED BY <1>6 DEF First

\* The order of a walk is strict.
LEMMA BeforeIsStrict ==
    ASSUME NEW p \in Place, NEW q \in Place, Before(p, q)
    PROVE  p # q /\ ~Before(q, p)
<1>1. PICK i \in 1..Len(p) : i <= Len(q) /\ SubSeq(p, 1, i - 1) = SubSeq(q, 1, i - 1)
                             /\ Precedes(p[i], q[i])
  BY DEF Before
<1>2. p # q
  BY <1>1, NamesAreOrdered
<1>3. ASSUME NEW j \in 1..Len(q), j <= Len(p), SubSeq(q, 1, j - 1) = SubSeq(p, 1, j - 1),
             Precedes(q[j], p[j])
      PROVE  FALSE
  <2>0. Len(p) \in Nat /\ Len(q) \in Nat
    BY DEF Place
  <2>1. i \in 1..(j - 1) => p[i] = q[i]
    <3>1. j - 1 \in 0..Len(p) /\ j - 1 <= Len(q)
      BY <1>3, <2>0
    <3> QED BY <1>3, <3>1, SamePrefix DEF Place
  <2>2. j \in 1..(i - 1) => p[j] = q[j]
    <3>1. i - 1 \in 0..Len(p) /\ i - 1 <= Len(q)
      BY <1>1, <2>0
    <3> QED BY <1>1, <3>1, SamePrefix DEF Place
  <2>3. i \in 1..(j - 1) \/ j \in 1..(i - 1) \/ i = j
    BY <2>0
  <2> QED BY <1>1, <1>3, <2>1, <2>2, <2>3, NamesAreOrdered
<1> QED BY <1>2, <1>3 DEF Before


-----------------------------------------------------------------------------
(* What governs a path.                                                    *)

LEMMA PlacesAre ==
    /\ \A p \in Places : /\ p \in Place /\ p # Root /\ Above(p) \ {Root} \subseteq Places
                         /\ Parent(p) \in Place /\ Append(Parent(p), Leaf(p)) = p
                         /\ Leaf(p) \in FileName
    /\ Root \in Place
<1>1. \A p \in Places : p \in Place /\ p # Root /\ Above(p) \ {Root} \subseteq Places
  BY WalkAssumption DEF Place, FileName
<1>2. \A p \in Places : Parent(p) \in Place /\ Append(Parent(p), Leaf(p)) = p /\ Leaf(p) \in FileName
  BY <1>1, ParentIs DEF Place, Parent, Leaf, Root
<1>3. Root \in Place
  BY EmptySeq DEF Root, Place
<1> QED BY <1>1, <1>2, <1>3

Source == [dir : Place, patterns : {exclude} \cup {rules[d] : d \in Place}]

LEMMA CarriedIs ==
    ASSUME NEW d \in Place
    PROVE  /\ Carried(d) \in Seq(Source)
           /\ Len(Carried(d)) = Len(d) + 2
           /\ Carried(d)[1] = [dir |-> Root, patterns |-> exclude]
           /\ \A s \in 2..(Len(d) + 2) : Carried(d)[s] = SourceOf(SubSeq(d, 1, s - 2))
<1> DEFINE E(j) == SourceOf(SubSeq(d, 1, j - 1))
           Own == [j \in 1..(Len(d) + 1) |-> E(j)]
<1>0. Len(d) \in Nat /\ d \in Seq(FileName)
  BY DEF Place
<1>1. ASSUME NEW j \in 1..(Len(d) + 1) PROVE E(j) \in Source
  <2>1. j - 1 \in 0..Len(d)
    BY <1>0
  <2>2. SubSeq(d, 1, j - 1) \in Place
    BY <1>0, <2>1, StartIs DEF Place
  <2> QED BY <2>2 DEF SourceOf, Source
<1>2. Own \in Seq(Source) /\ Len(Own) = Len(d) + 1
  <2>1. Len(d) + 1 \in Nat
    BY <1>0
  <2> HIDE DEF E
  <2>2. Own \in Seq(Source)
    BY <1>1, <2>1, IsASeq
  <2> QED BY <2>1, <2>2
<1>3. RootSources \in Seq(Source) /\ Len(RootSources) = 1
      /\ RootSources[1] = [dir |-> Root, patterns |-> exclude]
  <2>1. [dir |-> Root, patterns |-> exclude] \in Source
    BY PlacesAre DEF Source
  <2> QED BY <2>1 DEF RootSources
<1>4. Carried(d) = RootSources \o Own
  BY DEF Carried
<1>5. \A j \in 1..(Len(d) + 1) : Own[j] = E(j)
  OBVIOUS
<1> HIDE DEF Own, E
<1>6. Carried(d) \in Seq(Source) /\ Len(Carried(d)) = Len(d) + 2
      /\ \A s \in 1..(Len(d) + 2) : Carried(d)[s] = IF s <= 1 THEN RootSources[s] ELSE Own[s - 1]
  <2>1. /\ RootSources \o Own \in Seq(Source)
        /\ Len(RootSources \o Own) = Len(RootSources) + Len(Own)
        /\ \A i \in 1..(Len(RootSources) + Len(Own)) :
              (RootSources \o Own)[i] = IF i <= Len(RootSources) THEN RootSources[i]
                                       ELSE Own[i - Len(RootSources)]
    <3>1. RootSources \in Seq(Source) /\ Own \in Seq(Source)
      BY <1>2, <1>3
    <3> QED BY ONLY <3>1, ConcatProperties
  <2>2. Len(RootSources) + Len(Own) = Len(d) + 2
    BY <1>0, <1>2, <1>3
  <2> QED BY <1>3, <1>4, <2>1, <2>2
<1>7. ASSUME NEW s \in 2..(Len(d) + 2) PROVE Carried(d)[s] = SourceOf(SubSeq(d, 1, s - 2))
  <2>1. s - 1 \in 1..(Len(d) + 1) /\ (s - 1) - 1 = s - 2 /\ ~(s <= 1)
    BY <1>0
  <2> QED BY <1>5, <1>6, <2>1 DEF E
<1>8. Carried(d)[1] = RootSources[1]
  BY <1>0, <1>6
<1> QED BY <1>3, <1>6, <1>7, <1>8

\* What the walk makes of what it carries and a directory's own file.
LEMMA IgnoresIs ==
    ASSUME NEW d \in Place, NEW inherited,
           inherited = IF d = Root THEN <<>> ELSE Carried(Parent(d))
    PROVE  Ignores(d, inherited) = Carried(d)
<1>0. Len(d) \in Nat /\ d \in Seq(FileName)
  BY DEF Place
<1>1. SourceOf(d) \in Source /\ <<SourceOf(d)>> \in Seq(Source)
  BY DEF Source, SourceOf
<1>2. CASE d = Root
  <2>1. Len(d) = 0 /\ SubSeq(d, 1, 0) = d
    BY <1>2, SubSeqEmpty DEF Root
  <2>2. RootSources \in Seq(Source) /\ Len(RootSources) = 1
        /\ RootSources[1] = [dir |-> Root, patterns |-> exclude]
    <3>1. [dir |-> Root, patterns |-> exclude] \in Source
      BY PlacesAre DEF Source
    <3> QED BY <3>1 DEF RootSources
  <2> DEFINE U == <<SourceOf(d)>>
             T == RootSources \o U
  <2>u. U \in Seq(Source) /\ Len(U) = 1 /\ U[1] = SourceOf(d)
    BY <1>1
  <2> HIDE DEF U
  <2>3. T \in Seq(Source) /\ Len(T) = 2 /\ T[1] = RootSources[1] /\ T[2] = SourceOf(d)
    <3>1. /\ T \in Seq(Source) /\ Len(T) = Len(RootSources) + Len(U)
          /\ \A i \in 1..(Len(RootSources) + Len(U)) :
                T[i] = IF i <= Len(RootSources) THEN RootSources[i] ELSE U[i - Len(RootSources)]
      <4>1. RootSources \in Seq(Source) /\ U \in Seq(Source)
        BY <2>2, <2>u
      <4> QED BY ONLY <4>1, ConcatProperties
    <3> QED BY <2>2, <2>u, <3>1
  <2>4. Carried(d) \in Seq(Source) /\ Len(Carried(d)) = 2 /\ Carried(d)[1] = RootSources[1]
        /\ Carried(d)[2] = SourceOf(d)
    <3>1. 2 \in 2..(Len(d) + 2) /\ 2 - 2 = 0 /\ Len(d) + 2 = 2
      BY <2>1
    <3> QED BY <2>1, <2>2, <3>1, CarriedIs
  <2> HIDE DEF T
  <2>5. T = Carried(d)
    <3>1. \A i \in 1..2 : i = 1 \/ i = 2
      OBVIOUS
    <3> QED BY <2>3, <2>4, <3>1, SeqEqual
  <2> QED BY <1>2, <2>5 DEF Ignores, T, U
<1>3. CASE d # Root
  <2> DEFINE e == Parent(d)
  <2>1. e \in Place /\ Len(e) = Len(d) - 1 /\ Len(d) \in Nat \ {0} /\ Append(e, Last(d)) = d
        /\ Last(d) \in FileName
    BY <1>0, <1>3, ParentIs DEF Root, Parent, Place
  <2>2. \A m \in 0..Len(e) : SubSeq(d, 1, m) = SubSeq(e, 1, m)
    <3>1. e \in Seq(FileName)
      BY <2>1 DEF Place
    <3> QED BY <2>1, <3>1, ChildIs
  <2>3. Carried(e) \in Seq(Source) /\ Len(Carried(e)) = Len(d) + 1
        /\ Carried(e)[1] = [dir |-> Root, patterns |-> exclude]
        /\ \A s \in 2..(Len(d) + 1) : Carried(e)[s] = SourceOf(SubSeq(d, 1, s - 2))
    <3> HIDE DEF e
    <3>1. Len(Carried(e)) = Len(d) + 1 /\ Carried(e) \in Seq(Source)
          /\ Carried(e)[1] = [dir |-> Root, patterns |-> exclude]
          /\ \A s \in 2..(Len(e) + 2) : Carried(e)[s] = SourceOf(SubSeq(e, 1, s - 2))
      BY <2>1, CarriedIs
    <3>2. ASSUME NEW s \in 2..(Len(d) + 1) PROVE Carried(e)[s] = SourceOf(SubSeq(d, 1, s - 2))
      <4>1. s \in 2..(Len(e) + 2) /\ s - 2 \in 0..Len(e)
        BY <2>1
      <4> QED BY <2>2, <3>1, <4>1
    <3> QED BY <3>1, <3>2
  <2> HIDE DEF e
  <2> DEFINE T == Carried(e) \o <<SourceOf(d)>>
  <2>4. T \in Seq(Source) /\ Len(T) = Len(d) + 2 /\ T[Len(d) + 2] = SourceOf(d)
        /\ \A s \in 1..(Len(d) + 1) : T[s] = Carried(e)[s]
    BY <1>0, <1>1, <2>3
  <2>5. SubSeq(d, 1, Len(d)) = d
    BY <1>0
  <2> HIDE DEF T
  <2>6. Carried(d) \in Seq(Source) /\ Len(Carried(d)) = Len(d) + 2
        /\ Carried(d)[1] = [dir |-> Root, patterns |-> exclude]
        /\ \A s \in 2..(Len(d) + 2) : Carried(d)[s] = SourceOf(SubSeq(d, 1, s - 2))
    BY CarriedIs
  <2>7. ASSUME NEW s \in 1..(Len(d) + 2) PROVE T[s] = Carried(d)[s]
    <3>1. CASE s = 1
      BY <1>0, <2>3, <2>4, <2>6, <3>1
    <3>2. CASE s \in 2..(Len(d) + 1)
      <4>1. s \in 1..(Len(d) + 1) /\ s \in 2..(Len(d) + 2)
        BY <1>0, <3>2
      <4> QED BY <2>3, <2>4, <2>6, <3>2, <4>1
    <3>3. CASE s = Len(d) + 2
      <4>1. s \in 2..(Len(d) + 2) /\ s - 2 = Len(d)
        BY <1>0, <3>3
      <4> QED BY <2>4, <2>5, <2>6, <3>3, <4>1
    <3> QED BY <1>0, <3>1, <3>2, <3>3
  <2>8. T = Carried(d)
    BY <2>4, <2>6, <2>7, SeqEqual
  <2> QED BY <1>3, <2>8 DEF Ignores, T, e
<1> QED BY <1>2, <1>3

\* Where every folder on the way can be read, one path is governed as the walk governs it.
LEMMA GoverningIs ==
    ASSUME NEW p \in Place, p # Root, Above(p) \cap (unread \cup gone) = {}
    PROVE  Governing(p) = Carried(Parent(p))
<1>0. Len(p) \in Nat \ {0} /\ p \in Seq(FileName) /\ Parent(p) \in Place
      /\ Len(Parent(p)) = Len(p) - 1 /\ Append(Parent(p), Last(p)) = p /\ Last(p) \in FileName
  BY ParentIs DEF Place, Parent, Root
<1>1. Root \notin unread
  BY <1>0, AboveIs DEF Root
<1>2. \A m \in 0..(Len(p) - 1) : SubSeq(p, 1, m) \notin unread \cup gone
  BY <1>0, AboveIs
<1> DEFINE Down == {n \in 0..(Len(p) - 1) : \A m \in 0..n : SubSeq(p, 1, m) \notin unread \cup gone}
<1>3. Down = 0..(Len(p) - 1)
  BY <1>0, <1>2
<1>4. Cardinality(Down) = Len(p)
  <2>1. 0 \in Int /\ Len(p) - 1 \in Int /\ ~(0 > Len(p) - 1) /\ (Len(p) - 1) - 0 + 1 = Len(p)
    BY <1>0
  <2>2. Cardinality(0..(Len(p) - 1)) = (Len(p) - 1) - 0 + 1
    BY <2>1, FS_Interval
  <2> QED BY <1>3, <2>1, <2>2
<1> HIDE DEF Down
<1>5. Governing(p) = RootSources \o [i \in 1..Len(p) |-> SourceOf(SubSeq(p, 1, i - 1))]
  BY <1>1, <1>4 DEF Governing, Down
<1>6. \A m \in 0..(Len(p) - 1) : SubSeq(p, 1, m) = SubSeq(Parent(p), 1, m)
  <2>1. Parent(p) \in Seq(FileName)
    BY <1>0 DEF Place
  <2> QED BY <1>0, <2>1, ChildIs
<1>7. [i \in 1..Len(p) |-> SourceOf(SubSeq(p, 1, i - 1))]
      = [i \in 1..(Len(Parent(p)) + 1) |-> SourceOf(SubSeq(Parent(p), 1, i - 1))]
  <2>1. Len(Parent(p)) + 1 = Len(p)
    BY <1>0
  <2>2. \A i \in 1..Len(p) : i - 1 \in 0..(Len(p) - 1)
    BY <1>0
  <2>3. \A i \in 1..Len(p) : SourceOf(SubSeq(p, 1, i - 1)) = SourceOf(SubSeq(Parent(p), 1, i - 1))
    BY <1>6, <2>2
  <2> QED BY <2>1, <2>3
<1> QED BY <1>5, <1>7 DEF Carried


\* What governs nothing at or above a path does not decide it.
LEMMA DecidesIsLocal ==
    ASSUME NEW S, NEW T, NEW X, NEW Y, S \in Seq(X), T \in Seq(Y), Len(T) <= Len(S),
           \A s \in 1..Len(T) : S[s] = T[s],
           NEW x, NEW b,
           \A s \in (Len(T) + 1)..Len(S) : ~IsStrictPrefix(S[s].dir, x)
    PROVE  Decides(S, x, b) <=> Decides(T, x, b)
<1> DEFINE M(src, s, i) ==
              /\ IsStrictPrefix(src[s].dir, x)
              /\ MatchesPattern(src[s].patterns[i], SubSeq(x, Len(src[s].dir) + 1, Len(x)), b)
           D(src) == \E s \in DOMAIN src : \E i \in DOMAIN src[s].patterns :
                        /\ M(src, s, i) /\ ~src[s].patterns[i].negated
                        /\ \A t \in s..Len(src) : \A j \in DOMAIN src[t].patterns :
                              M(src, t, j) => t = s /\ j <= i
<1>1. (Decides(S, x, b) <=> D(S)) /\ (Decides(T, x, b) <=> D(T))
  BY DEF Decides
<1>2. DOMAIN S = 1..Len(S) /\ DOMAIN T = 1..Len(T) /\ Len(S) \in Nat /\ Len(T) \in Nat
  OBVIOUS
<1>3. \A s \in 1..Len(T) : \A i : M(S, s, i) <=> M(T, s, i)
  OBVIOUS
<1>4. \A s \in (Len(T) + 1)..Len(S) : \A i : ~M(S, s, i)
  OBVIOUS
<1>5. \A s \in 1..Len(S) : s \in 1..Len(T) \/ s \in (Len(T) + 1)..Len(S)
  BY <1>2
<1> HIDE DEF M
<1>6. ASSUME D(S) PROVE D(T)
  <2>0. PICK s \in 1..Len(S) : \E i \in DOMAIN S[s].patterns :
               /\ M(S, s, i) /\ ~S[s].patterns[i].negated
               /\ \A t \in s..Len(S) : \A j \in DOMAIN S[t].patterns :
                     M(S, t, j) => t = s /\ j <= i
    BY <1>2, <1>6
  <2>1. PICK i \in DOMAIN S[s].patterns :
               /\ M(S, s, i) /\ ~S[s].patterns[i].negated
               /\ \A t \in s..Len(S) : \A j \in DOMAIN S[t].patterns :
                     M(S, t, j) => t = s /\ j <= i
    BY <2>0
  <2>2. s \in 1..Len(T)
    BY <1>4, <1>5, <2>1
  <2>3. \A t \in s..Len(T) : t \in s..Len(S) /\ t \in 1..Len(T)
    BY <1>2, <2>2
  <2>4. i \in DOMAIN T[s].patterns /\ M(T, s, i) /\ ~T[s].patterns[i].negated
    BY <1>3, <2>1, <2>2
  <2>5. ASSUME NEW t \in s..Len(T), NEW j \in DOMAIN T[t].patterns, M(T, t, j)
        PROVE  t = s /\ j <= i
    BY <1>3, <2>1, <2>3, <2>5
  <2>6. s \in DOMAIN T
    BY <1>2, <2>2
  <2> QED BY ONLY <2>4, <2>5, <2>6
<1>7. ASSUME D(T) PROVE D(S)
  <2>0. PICK s \in 1..Len(T) : \E i \in DOMAIN T[s].patterns :
               /\ M(T, s, i) /\ ~T[s].patterns[i].negated
               /\ \A t \in s..Len(T) : \A j \in DOMAIN T[t].patterns :
                     M(T, t, j) => t = s /\ j <= i
    BY <1>2, <1>7
  <2>1. PICK i \in DOMAIN T[s].patterns :
               /\ M(T, s, i) /\ ~T[s].patterns[i].negated
               /\ \A t \in s..Len(T) : \A j \in DOMAIN T[t].patterns :
                     M(T, t, j) => t = s /\ j <= i
    BY <2>0
  <2>2. s \in DOMAIN S
    BY <1>2
  <2>4. i \in DOMAIN S[s].patterns /\ M(S, s, i) /\ ~S[s].patterns[i].negated
    BY <1>3, <2>1
  <2>5. ASSUME NEW t \in s..Len(S), NEW j \in DOMAIN S[t].patterns, M(S, t, j)
        PROVE  t = s /\ j <= i
    <3>1. t \in 1..Len(S)
      BY <1>2, <2>5
    <3>2. t \in 1..Len(T)
      BY <1>4, <1>5, <2>5, <3>1
    <3>3. t \in s..Len(T)
      BY <1>2, <2>5, <3>2
    <3> QED BY <1>3, <2>1, <2>5, <3>2, <3>3
  <2> QED BY ONLY <2>2, <2>4, <2>5
<1> QED BY <1>1, <1>6, <1>7

\* What decides a folder decides it wherever below it one asks.
LEMMA DecidesAbove ==
    ASSUME NEW p \in Place, p # Root, NEW x \in Above(p), x # Root, NEW b
    PROVE  Decides(Carried(Parent(p)), x, b) <=> Decides(Carried(Parent(x)), x, b)
<1>0. p \in Seq(FileName) /\ Len(p) \in Nat \ {0} /\ Parent(p) \in Place /\ Len(Parent(p)) = Len(p) - 1
      /\ Append(Parent(p), Last(p)) = p /\ Last(p) \in FileName /\ Parent(p) \in Seq(FileName)
  BY ParentIs DEF Place, Parent, Root
<1>1. x \in Place /\ Len(x) \in 1..(Len(p) - 1) /\ SubSeq(p, 1, Len(x)) = x /\ x \in Seq(FileName)
  BY <1>0, AboveIs DEF Place
<1>2. Parent(x) \in Place /\ Len(Parent(x)) = Len(x) - 1 /\ Append(Parent(x), Last(x)) = x
      /\ Last(x) \in FileName /\ Parent(x) \in Seq(FileName)
  BY <1>1, ParentIs DEF Place, Parent, Root
<1> DEFINE S == Carried(Parent(p))
           T == Carried(Parent(x))
<1>3. S \in Seq(Source) /\ Len(S) = Len(p) + 1 /\ S[1] = [dir |-> Root, patterns |-> exclude]
      /\ \A s \in 2..(Len(p) + 1) : S[s] = SourceOf(SubSeq(Parent(p), 1, s - 2))
  <2>1. Len(Parent(p)) + 2 = Len(p) + 1
    BY <1>0
  <2> QED BY <1>0, <2>1, CarriedIs
<1>4. T \in Seq(Source) /\ Len(T) = Len(x) + 1 /\ T[1] = [dir |-> Root, patterns |-> exclude]
      /\ \A s \in 2..(Len(x) + 1) : T[s] = SourceOf(SubSeq(Parent(x), 1, s - 2))
  <2>1. Len(Parent(x)) + 2 = Len(x) + 1
    BY <1>1, <1>2
  <2> QED BY <1>2, <2>1, CarriedIs
<1> HIDE DEF S, T
<1>5. \A m \in 0..(Len(p) - 1) : SubSeq(p, 1, m) = SubSeq(Parent(p), 1, m)
  BY <1>0, ChildIs
<1>6. \A m \in 0..(Len(x) - 1) : SubSeq(x, 1, m) = SubSeq(Parent(x), 1, m)
  BY <1>1, <1>2, ChildIs
<1>7. \A m \in 0..Len(x) : SubSeq(p, 1, m) = SubSeq(x, 1, m)
  <2>1. Len(x) \in 0..Len(p)
    BY <1>0, <1>1
  <2> QED BY <1>0, <1>1, <2>1, PrefixOfPrefix
<1>8. ASSUME NEW s \in 1..Len(T) PROVE S[s] = T[s]
  <2>1. CASE s = 1
    BY <1>3, <1>4, <2>1
  <2>2. CASE s # 1
    <3>1. s \in 2..(Len(x) + 1) /\ s \in 2..(Len(p) + 1)
          /\ s - 2 \in 0..(Len(x) - 1) /\ s - 2 \in 0..(Len(p) - 1) /\ s - 2 \in 0..Len(x)
      BY <1>0, <1>1, <1>4, <2>2
    <3> QED BY <1>3, <1>4, <1>5, <1>6, <1>7, <3>1
  <2> QED BY <2>1, <2>2
<1>9. ASSUME NEW s \in (Len(T) + 1)..Len(S) PROVE ~IsStrictPrefix(S[s].dir, x)
  <2>1. s \in 2..(Len(p) + 1) /\ s - 2 \in 0..(Len(p) - 1) /\ s - 2 >= Len(x) /\ s - 2 \in 0..Len(p)
    BY <1>0, <1>1, <1>3, <1>4
  <2>2. S[s].dir = SubSeq(p, 1, s - 2)
    <3>1. S[s] = SourceOf(SubSeq(Parent(p), 1, s - 2))
      BY <1>3, <2>1
    <3>2. S[s].dir = SubSeq(Parent(p), 1, s - 2)
      BY <3>1 DEF SourceOf
    <3> QED BY <1>5, <2>1, <3>2
  <2>3. Len(S[s].dir) = s - 2
    BY <1>0, <2>1, <2>2, StartIs
  <2>4. Len(S[s].dir) <= Len(x) => S[s].dir = x
    BY <1>1, <2>1, <2>2, <2>3
  <2> QED BY <2>4 DEF IsStrictPrefix, IsPrefix
<1>10. Len(T) <= Len(S)
  BY <1>0, <1>1, <1>3, <1>4
<1>11. Decides(S, x, b) <=> Decides(T, x, b)
  BY ONLY <1>3, <1>4, <1>8, <1>9, <1>10, DecidesIsLocal
<1> QED BY <1>11 DEF S, T

\* An ignored folder leaves out everything below it.
LEMMA IgnoredAbove ==
    ASSUME NEW p \in Place, Above(p) \cap (unread \cup gone) = {}, NEW x \in Above(p), x # Root,
           IsIgnored(Governing(x), x, TRUE), NEW b
    PROVE  IsIgnored(Governing(p), p, b)
<1>1. p \in Seq(FileName) /\ p # Root
  <2>1. Len(x) \in 0..(Len(p) - 1) /\ Len(p) \in Nat
    BY AboveIs DEF Place
  <2> QED BY <2>1 DEF Place, Root
<1>2. x \in Place /\ Above(x) \subseteq Above(p)
  BY <1>1, AboveIs, AboveAbove DEF Place
<1>3. Governing(p) = Carried(Parent(p)) /\ Governing(x) = Carried(Parent(x))
  BY <1>1, <1>2, GoverningIs
<1>4. PICK y \in (Above(x) \ {Root}) \cup {x} : Decides(Carried(Parent(x)), y, TRUE)
  BY <1>3 DEF IsIgnored
<1>5. y \in Above(p) \ {Root}
  BY <1>2
<1>6. Decides(Carried(Parent(x)), y, TRUE) <=> Decides(Carried(Parent(y)), y, TRUE)
  BY <1>2, <1>4, DecidesAbove
<1>7. Decides(Carried(Parent(p)), y, TRUE)
  BY <1>1, <1>4, <1>5, <1>6, DecidesAbove
<1> QED BY <1>3, <1>5, <1>7 DEF IsIgnored

-----------------------------------------------------------------------------
(* The folder: what the walk and a read agree on, place by place.          *)

LEMMA FolderIs ==
    ASSUME FolderIsATree
    PROVE  /\ \A p \in Places : kind[p] \in {"file", "directory", "other", "none"}
           /\ \A p \in Places : \A d \in Above(p) \ {Root} : kind[p] # "none" => kind[d] = "directory"
           /\ Root \notin gone
           /\ most.paths \in Nat
BY DEF FolderIsATree, IsFolder

\* On the way to what is of the folder the walk enters every directory.
LEMMA EnterableAbove ==
    ASSUME FolderIsATree, NEW p \in Places, Listable(p) \/ Enterable(p), NEW x \in Above(p), x # Root
    PROVE  x \in Places /\ Enterable(x) /\ x \notin unread \cup gone
<1>1. p \in Place /\ x \in Places /\ x \in Place
  BY PlacesAre
<1>2. kind[x] = "directory"
  BY FolderIs DEF Listable, Served, Enterable
<1>3. Reached(p)
  BY DEF Listable, Enterable
<1>4. Above(x) \subseteq Above(p)
  BY <1>1, AboveAbove DEF Place
<1>5. IsGranted(x) /\ Reached(x) /\ x \notin unread \cup gone /\ Above(p) \cap (unread \cup gone) = {}
  BY <1>3, <1>4 DEF Reached
<1>6. ~IsIgnored(Governing(x), x, TRUE)
  <2>1. CASE Listable(p)
    BY <1>1, <1>5, <2>1, IgnoredAbove DEF Listable, Served
  <2>2. CASE Enterable(p)
    BY <1>1, <1>5, <2>2, IgnoredAbove DEF Enterable
  <2> QED BY <2>1, <2>2
<1> QED BY <1>1, <1>2, <1>5, <1>6 DEF Enterable

\* What the walk asks of an entry of a directory it is in.
PassesBy(d, c) == IsGranted(c) /\ ~IsIgnored(Carried(d), c, kind[c] = "directory")

LEMMA ChildDecided ==
    ASSUME FolderIsATree, NEW d \in Place, Walked(d), d \notin unread, NEW n \in EntriesOf(d),
           NEW c, c = Append(d, n)
    PROVE  /\ c \in Places /\ n \in FileName /\ kind[c] # "none"
           /\ Enterable(c) <=> PassesBy(d, c) /\ kind[c] = "directory"
           /\ Listable(c) <=> PassesBy(d, c) /\ kind[c] = "file" /\ ~IsBinaryNamed(c) /\ c \notin unfit
<1>1. PICK p \in Places : Leaf(p) = n /\ Parent(p) = d /\ kind[p] # "none"
  BY DEF EntriesOf
<1>2. p = c /\ n \in FileName
  BY <1>1, PlacesAre
<1>3. c \in Places /\ c \in Place /\ c # Root /\ kind[c] # "none" /\ Parent(c) = d
  BY <1>1, <1>2, PlacesAre
<1>4. Above(c) = Above(d) \cup {d}
  BY <1>2, AboveChild DEF Place
<1>5. Above(d) \cap (unread \cup gone) = {} /\ \A x \in (Above(d) \cup {d}) \ {Root} : IsGranted(x)
  <2>1. CASE d = Root
    <3>1. Above(d) = {}
      BY <2>1 DEF Above, Root
    <3> QED BY <2>1, <3>1
  <2>2. CASE d # Root
    BY <2>2 DEF Walked, Enterable, Reached
  <2> QED BY <2>1, <2>2
<1>6. Reached(c)
  BY <1>4, <1>5 DEF Reached, Walked
<1>7. Governing(c) = Carried(d)
  BY <1>3, <1>6, GoverningIs DEF Reached
<1>8. Enterable(c) <=> PassesBy(d, c) /\ kind[c] = "directory"
  <2>1. CASE kind[c] = "directory"
    <3>1. (kind[c] = "directory") = TRUE
      BY <2>1
    <3> QED BY <1>6, <1>7, <3>1 DEF Enterable, PassesBy
  <2>2. CASE kind[c] # "directory"
    BY <2>2 DEF Enterable
  <2> QED BY <2>1, <2>2
<1>9. Listable(c) <=> PassesBy(d, c) /\ kind[c] = "file" /\ ~IsBinaryNamed(c) /\ c \notin unfit
  <2>1. CASE kind[c] = "file"
    <3>1. (kind[c] = "directory") = FALSE
      BY <2>1
    <3> QED BY <1>6, <1>7, <2>1, <3>1 DEF Listable, Served, PassesBy
  <2>2. CASE kind[c] # "file"
    BY <2>2 DEF Listable, Served
  <2> QED BY <2>1, <2>2
<1> QED BY <1>2, <1>3, <1>8, <1>9


-----------------------------------------------------------------------------
(* Steps. The folder does not change under them.                           *)

LEMMA FolderStays ==
    ASSUME UNCHANGED walkFolder
    PROVE  /\ \A p : Listable(p)' <=> Listable(p)
           /\ \A p : Enterable(p)' <=> Enterable(p)
           /\ \A p : Walked(p)' <=> Walked(p)
           /\ \A p : Carried(p)' = Carried(p)
           /\ \A p : EntriesOf(p)' = EntriesOf(p)
           /\ FolderIsATree' <=> FolderIsATree
           /\ Frame' = Frame
           /\ most' = most /\ unread' = unread /\ gone' = gone
           /\ kind' = kind /\ rules' = rules /\ exclude' = exclude /\ unfit' = unfit
<1>1. /\ most' = most /\ unread' = unread /\ gone' = gone
      /\ kind' = kind /\ rules' = rules /\ exclude' = exclude /\ unfit' = unfit
  BY DEF walkFolder
<1>2. \A p : Carried(p)' = Carried(p)
  BY <1>1 DEF Carried, RootSources, SourceOf
<1>3. \A p : EntriesOf(p)' = EntriesOf(p)
  BY <1>1 DEF EntriesOf
<1>4. \A p : Governing(p)' = Governing(p)
  BY <1>1 DEF Governing, RootSources, SourceOf
<1>5. \A p : Reached(p)' <=> Reached(p)
  BY <1>1 DEF Reached
<1>6. \A p : Listable(p)' <=> Listable(p)
  BY <1>1, <1>4, <1>5 DEF Listable, Served
<1>7. \A p : Enterable(p)' <=> Enterable(p)
  BY <1>1, <1>4, <1>5 DEF Enterable
<1>8. \A p : Walked(p)' <=> Walked(p)
  BY <1>1, <1>7 DEF Walked
<1>9. FolderIsATree' <=> FolderIsATree
  BY <1>1 DEF FolderIsATree
<1>10. Frame' = Frame
  BY <1>2 DEF Frame
<1> QED BY <1>1, <1>2, <1>3, <1>6, <1>7, <1>8, <1>9, <1>10

\* The entry the walk is at.
LEMMA TopIs ==
    ASSUME WalkInv, Walking, Top.left # {}
    PROVE  /\ Len(stack) \in Nat \ {0} /\ Top = stack[Len(stack)]
           /\ First(Top.left) \in Top.left
           /\ \A m \in Top.left \ {First(Top.left)} : Precedes(First(Top.left), m)
           /\ Top.dir \in Place /\ Len(Top.dir) = Len(stack) - 1
           /\ Walked(Top.dir) /\ Top.dir \notin unread
           /\ First(Top.left) \in EntriesOf(Top.dir) /\ First(Top.left) \in FileName
           /\ Top.ignores = Carried(Top.dir) /\ Top.left \subseteq FileName
<1>1. stack \in Seq(Frame) /\ stack # <<>>
  BY DEF WalkInv, WalkTypes, Walking
<1>2. Len(stack) \in Nat \ {0} /\ Top = stack[Len(stack)]
  BY <1>1, EmptySeq DEF Top, Last
<1>3. Len(stack) \in 1..Len(stack)
  BY <1>2
<1>4. Top \in Frame
  BY <1>1, <1>2, <1>3
<1>5. Top.dir \in Place /\ Top.left \subseteq FileName
  BY <1>4 DEF Frame
<1>6. First(Top.left) \in Top.left /\ \A m \in Top.left \ {First(Top.left)} : Precedes(First(Top.left), m)
  BY <1>5, FirstIs
<1>7. /\ Len(Top.dir) = Len(stack) - 1 /\ Walked(Top.dir) /\ Top.dir \notin unread
      /\ Top.left \subseteq EntriesOf(Top.dir) /\ Top.ignores = Carried(Top.dir)
  BY <1>2, <1>3 DEF WalkInv, StackIsAPath
<1> QED BY <1>2, <1>5, <1>6, <1>7

LEMMA ChildOfTop ==
    ASSUME WalkInv, Walking, Top.left # {}
    PROVE  /\ Child \in Places /\ Child \in Place /\ Child # Root
           /\ Len(Child) = Len(stack) /\ Parent(Child) = Top.dir
           /\ SubSeq(Child, 1, Len(stack) - 1) = Top.dir
           /\ Child[Len(stack)] = First(Top.left)
           /\ \A p : SubSeq(p, 1, Len(stack) - 1) = Top.dir /\ p \in Place /\ Len(p) >= Len(stack)
                     /\ p[Len(stack)] = First(Top.left) => SubSeq(p, 1, Len(stack)) = Child
           /\ Candidate <=> PassesBy(Top.dir, Child)
           /\ Candidate /\ kind[Child] = "directory" <=> Enterable(Child)
           /\ Offered /\ Child \notin unfit <=> Listable(Child)
<1> DEFINE N == Len(stack)
           d == Top.dir
           x == First(Top.left)
<1>1. /\ N \in Nat \ {0} /\ d \in Place /\ Len(d) = N - 1 /\ Walked(d) /\ d \notin unread
      /\ x \in EntriesOf(d) /\ x \in FileName /\ Top.ignores = Carried(d)
  BY TopIs
<1>2. Child = Append(d, x)
  BY DEF Child
<1>3. FolderIsATree
  BY DEF WalkInv, WalkTypes
<1> HIDE DEF N, d, x
<1>4. /\ Child \in Places
      /\ Enterable(Child) <=> PassesBy(d, Child) /\ kind[Child] = "directory"
      /\ Listable(Child) <=> PassesBy(d, Child) /\ kind[Child] = "file" /\ ~IsBinaryNamed(Child)
                             /\ Child \notin unfit
  BY <1>1, <1>2, <1>3, ChildDecided
<1>5. Child \in Place /\ Child # Root
  BY <1>4, PlacesAre
<1>6. Len(Child) = Len(d) + 1 /\ Front(Child) = d /\ Child[Len(d) + 1] = x
      /\ SubSeq(Child, 1, Len(d)) = d /\ \A i \in 1..Len(d) : Child[i] = d[i]
  BY <1>1, <1>2, ChildIs DEF Place
<1>7. Len(d) + 1 = N /\ N - 1 = Len(d) /\ Len(d) \in Nat
  BY <1>1 DEF Place
<1>8. ASSUME NEW p, SubSeq(p, 1, N - 1) = d, p \in Place, Len(p) >= N, p[N] = x
      PROVE  SubSeq(p, 1, N) = Child
  <2>1. N \in 0..Len(p) /\ N - 1 \in 0..Len(p) /\ p \in Seq(FileName) /\ Len(p) \in Nat
    BY <1>1, <1>8 DEF Place
  <2>2. SubSeq(p, 1, N) \in Seq(FileName) /\ Len(SubSeq(p, 1, N)) = N
        /\ \A i \in 1..N : SubSeq(p, 1, N)[i] = p[i]
    BY <2>1, StartIs
  <2>3. \A i \in 1..(N - 1) : d[i] = p[i]
    BY <1>8, <2>1, StartIs
  <2>4. \A i \in 1..N : i \in 1..(N - 1) \/ i = N
    BY <1>1
  <2>5. \A i \in 1..N : Child[i] = p[i]
    BY <1>6, <1>7, <1>8, <2>3, <2>4
  <2> QED BY <1>5, <1>6, <1>7, <2>2, <2>5, SeqEqual DEF Place
<1>9. Candidate <=> PassesBy(d, Child)
  BY <1>1 DEF Candidate, PassesBy, d
<1> QED BY <1>1, <1>4, <1>5, <1>6, <1>7, <1>8, <1>9 DEF N, d, x, Offered, Parent


\* The entry the walk is at is ahead, and past the names left above it.
LEMMA ChildIsAhead ==
    ASSUME WalkInv, Walking, Top.left # {}
    PROVE  /\ Ahead(Child)
           /\ \A i \in 1..(Len(stack) - 1) : Past(stack, Child, i)
<1> DEFINE N == Len(stack)
           c == Child
<1>1. /\ N \in Nat \ {0} /\ Top = stack[N] /\ First(Top.left) \in Top.left
      /\ Top.dir \in Place /\ Len(Top.dir) = N - 1
  BY TopIs
<1>2. /\ c \in Place /\ Len(c) = N /\ SubSeq(c, 1, N - 1) = Top.dir /\ c[N] = First(Top.left)
  BY ChildOfTop
<1> HIDE DEF c
<1>3. N \in 1..N /\ AheadIn(stack, c, N)
  BY <1>1, <1>2 DEF AheadIn
<1>4. ASSUME NEW i \in 1..(N - 1) PROVE Past(stack, c, i)
  <2>1. i \in 1..N /\ N \in (i + 1)..N /\ i - 1 \in 0..(N - 1) /\ i \in 1..(N - 1)
    BY <1>1
  <2>2. SubSeq(Top.dir, 1, i - 1) = stack[i].dir /\ \A n \in stack[i].left : Precedes(Top.dir[i], n)
    BY <1>1, <2>1 DEF WalkInv, StackIsAPath, Past
  <2>3. SubSeq(Top.dir, 1, i - 1) = SubSeq(c, 1, i - 1) /\ Top.dir[i] = c[i]
    <3>1. N - 1 \in 0..Len(Top.dir) /\ N - 1 <= Len(c)
      BY <1>1, <1>2
    <3>2. SubSeq(Top.dir, 1, N - 1) = Top.dir
      BY <1>1 DEF Place
    <3> QED BY <1>1, <1>2, <2>1, <3>1, <3>2, SamePrefix DEF Place
  <2> QED BY <2>2, <2>3 DEF Past
<1> QED BY <1>3, <1>4 DEF Ahead, c

\* The stack with the entry passed: it is a path still, it has fewer names left, and what is
\* no more ahead is the entry and what is below it.
LEMMA OnwardIs ==
    ASSUME WalkInv, Walking, Top.left # {}, UNCHANGED walkFolder, stack' = Onward
    PROVE  /\ stack' \in Seq(Frame) /\ Len(stack') = Len(stack) /\ stack' # <<>>
           /\ StackIsAPath'
           /\ \A i \in 1..Len(stack) : Past(stack', Child, i)
           /\ \A p, i : i \in 1..Len(stack) /\ AheadIn(stack', p, i) => AheadIn(stack, p, i)
           /\ \A p, i : p \in Place /\ i \in 1..Len(stack) /\ AheadIn(stack, p, i)
                        => \/ AheadIn(stack', p, i)
                           \/ Len(Child) <= Len(p) /\ SubSeq(p, 1, Len(Child)) = Child
           /\ \A p : p \in Place /\ (\E i \in 1..Len(stack) : AheadIn(stack', p, i)) => Before(Child, p)
<1> DEFINE N == Len(stack)
           x == First(Top.left)
           c == Child
<1>1. /\ N \in Nat \ {0} /\ Top = stack[N] /\ x \in Top.left
      /\ Top.dir \in Place /\ Len(Top.dir) = N - 1
      /\ \A m \in Top.left \ {x} : Precedes(x, m)
      /\ Top.left \subseteq FileName /\ Top.ignores = Carried(Top.dir)
  BY TopIs
<1>2. /\ c \in Place /\ Len(c) = N /\ SubSeq(c, 1, N - 1) = Top.dir /\ c[N] = x
      /\ \A p : SubSeq(p, 1, N - 1) = Top.dir /\ p \in Place /\ Len(p) >= N
                /\ p[N] = x => SubSeq(p, 1, N) = c
  BY ChildOfTop
<1>b. \A i \in 1..(N - 1) : Past(stack, c, i)
  BY ChildIsAhead
<1> HIDE DEF c
<1>3. stack \in Seq(Frame) /\ N \in 1..N /\ stack[N] \in Frame
  <2>1. stack \in Seq(Frame) /\ N \in 1..N
    BY <1>1 DEF WalkInv, WalkTypes
  <2> QED BY <2>1
<1> DEFINE frame == [Top EXCEPT !.left = Top.left \ {x}]
<1>4. frame \in Frame /\ frame.dir = Top.dir /\ frame.left = Top.left \ {x} /\ frame.ignores = Top.ignores
  BY <1>1, <1>3 DEF Frame
<1>5. stack' = [stack EXCEPT ![N] = frame]
  BY <1>1 DEF Onward
<1> HIDE DEF frame
<1>6. /\ stack' \in Seq(Frame) /\ Len(stack') = N
      /\ \A i \in 1..N : stack'[i] = IF i = N THEN frame ELSE stack[i]
  BY <1>3, <1>4, <1>5, ExceptSeq
<1> HIDE DEF N, x
<1>7. /\ stack'[N] = frame /\ \A i \in 1..(N - 1) : stack'[i] = stack[i]
      /\ \A i \in 1..N : i \in 1..(N - 1) \/ i = N
      /\ \A i \in 1..(N - 1) : i \in 1..N /\ i # N
  <2>1. /\ \A i \in 1..N : i \in 1..(N - 1) \/ i = N
        /\ \A i \in 1..(N - 1) : i \in 1..N /\ i # N
    BY <1>1
  <2> QED BY <1>3, <1>6, <2>1
<1>8. \A i \in 1..N : stack'[i].dir = stack[i].dir /\ stack'[i].left \subseteq stack[i].left
                      /\ stack'[i].ignores = stack[i].ignores
  BY <1>1, <1>4, <1>7
<1>9. stack' # <<>>
  BY <1>1, <1>6
<1>10. StackIsAPath'
  <2>1. ASSUME NEW i \in 1..N
        PROVE  /\ Len(stack'[i].dir) = i - 1
               /\ Walked(stack'[i].dir) /\ stack'[i].dir \notin unread
               /\ stack'[i].left \subseteq EntriesOf(stack'[i].dir)
               /\ stack'[i].ignores = Carried(stack'[i].dir)
    BY <1>8 DEF WalkInv, StackIsAPath, N
  <2>2. ASSUME NEW i \in 1..N, NEW k \in (i + 1)..N PROVE Past(stack', stack'[k].dir, i)
    <3>1. k \in 1..N
      BY <1>1
    <3>2. Past(stack, stack[k].dir, i)
      BY <1>1 DEF WalkInv, StackIsAPath, N
    <3> QED BY <1>8, <3>1, <3>2 DEF Past
  <2>3. Len(stack') = N
    BY <1>6
  <2> QED BY ONLY <2>1, <2>2, <2>3, FolderStays, UNCHANGED walkFolder DEF StackIsAPath
<1>11. ASSUME NEW i \in 1..N PROVE Past(stack', c, i)
  <2>1. CASE i \in 1..(N - 1)
    <3>1. Past(stack, c, i)
      BY <1>b, <2>1 DEF N
    <3> QED BY <1>8, <3>1 DEF Past
  <2>2. CASE i = N
    BY <1>1, <1>2, <1>4, <1>7, <2>2 DEF Past
  <2> QED BY <1>7, <2>1, <2>2
<1>12. ASSUME NEW p, NEW i \in 1..N, AheadIn(stack', p, i) PROVE AheadIn(stack, p, i)
  BY <1>8, <1>12 DEF AheadIn
<1>13. ASSUME NEW p \in Place, NEW i \in 1..N, AheadIn(stack, p, i)
       PROVE  AheadIn(stack', p, i) \/ (N <= Len(p) /\ SubSeq(p, 1, N) = c)
  <2>1. CASE i \in 1..(N - 1)
    BY <1>7, <1>13, <2>1 DEF AheadIn
  <2>2. CASE i = N
    <3>1. Len(p) >= N /\ N <= Len(p) /\ SubSeq(p, 1, N - 1) = Top.dir /\ p[N] \in Top.left
      BY <1>1, <1>13, <2>2 DEF AheadIn, Place
    <3>2. CASE p[N] = x
      BY <1>2, <3>1, <3>2
    <3>3. CASE p[N] # x
      BY <1>1, <1>4, <1>7, <1>13, <2>2, <3>1, <3>3 DEF AheadIn
    <3> QED BY <3>2, <3>3
  <2> QED BY <1>7, <2>1, <2>2
<1>14. ASSUME NEW p \in Place, NEW i \in 1..N, AheadIn(stack', p, i) PROVE Before(c, p)
  <2>1. i <= Len(p) /\ SubSeq(p, 1, i - 1) = stack[i].dir /\ p[i] \in stack'[i].left
    BY <1>8, <1>14 DEF AheadIn
  <2>2. SubSeq(c, 1, i - 1) = stack[i].dir /\ \A n \in stack'[i].left : Precedes(c[i], n)
    BY <1>8, <1>11 DEF Past
  <2> QED BY <1>2, <2>1, <2>2 DEF Before
<1> QED BY <1>2, <1>6, <1>9, <1>10, <1>11, <1>12, <1>13, <1>14 DEF N, c


LEMMA AtOrBelow ==
    ASSUME NEW p \in Place, NEW c \in Place, Len(c) <= Len(p), SubSeq(p, 1, Len(c)) = c
    PROVE  p = c \/ c \in Above(p)
<1>1. Len(c) \in Nat /\ Len(p) \in Nat /\ SubSeq(p, 1, Len(p)) = p
  BY DEF Place
<1>2. CASE Len(c) = Len(p)
  BY <1>1, <1>2
<1>3. CASE Len(c) < Len(p)
  <2>1. Len(c) \in 0..(Len(p) - 1)
    BY <1>1, <1>3
  <2> QED BY <2>1, AboveIs DEF Place
<1>4. Len(c) = Len(p) \/ Len(c) < Len(p)
  <2> DEFINE m == Len(c)
             n == Len(p)
  <2>1. m \in Nat /\ n \in Nat /\ m <= n
    BY <1>1
  <2> HIDE DEF m, n
  <2>2. m = n \/ m < n
    BY ONLY <2>1
  <2> QED BY ONLY <2>2 DEF m, n
<1> QED BY ONLY <1>2, <1>3, <1>4

\* A walk that is under way has met no bound.
LEMMA NotStopped ==
    ASSUME WalkInv, ~Done
    PROVE  cut = "none"
BY DEF WalkInv, StoppedBefore

\* An entry is passed: it is listed if it is of the listing, entered if it is a folder to
\* enter, and walked next unless it is gone.
LEMMA Passed ==
    ASSUME WalkInv, Walking, Top.left # {}, UNCHANGED walkFolder, stack' = Onward, cut' = cut,
           \/ call' = NoCall /\ (~Enterable(Child) \/ Child \in gone)
           \/ /\ call' = [dir |-> Child, inherited |-> Top.ignores]
              /\ Enterable(Child) /\ Child \notin gone,
           paths' = IF Listable(Child) THEN paths \cup {Child} ELSE paths,
           entered' = IF Enterable(Child) THEN entered \cup {Child} ELSE entered,
           IsFiniteSet(paths'), Cardinality(paths') <= most.paths
    PROVE  WalkInv'
<1> DEFINE N == Len(stack)
<1>0. PICK c : c = Child
  OBVIOUS
<1>1. /\ N \in Nat \ {0} /\ Top = stack[N] /\ First(Top.left) \in Top.left
      /\ Top.dir \in Place /\ Len(Top.dir) = N - 1 /\ Top.ignores = Carried(Top.dir)
  BY TopIs
<1>2. /\ c \in Places /\ c \in Place /\ c # Root /\ Len(c) = N /\ Parent(c) = Top.dir
      /\ SubSeq(c, 1, N - 1) = Top.dir /\ c[N] = First(Top.left)
  BY <1>0, ChildOfTop
<1>3. /\ stack' \in Seq(Frame) /\ Len(stack') = N /\ StackIsAPath'
      /\ \A i \in 1..N : Past(stack', c, i)
      /\ \A p, i : i \in 1..N /\ AheadIn(stack', p, i) => AheadIn(stack, p, i)
      /\ \A p, i : p \in Place /\ i \in 1..N /\ AheadIn(stack, p, i)
                   => AheadIn(stack', p, i) \/ (Len(c) <= Len(p) /\ SubSeq(p, 1, Len(c)) = c)
      /\ \A p : p \in Place /\ (\E i \in 1..N : AheadIn(stack', p, i)) => Before(c, p)
  BY <1>0, OnwardIs
<1>4. cut = "none" /\ call = NoCall /\ FolderIsATree
  BY NotStopped DEF Walking, Done, WalkInv, WalkTypes
<1>c. \/ call' = NoCall /\ (~Enterable(c) \/ c \in gone)
      \/ call' = [dir |-> c, inherited |-> Top.ignores] /\ Enterable(c) /\ c \notin gone
  BY <1>0
<1>d. /\ paths' = IF Listable(c) THEN paths \cup {c} ELSE paths
      /\ entered' = IF Enterable(c) THEN entered \cup {c} ELSE entered
  BY <1>0
<1>e. N \in 1..N
  BY <1>1
<1> HIDE DEF N
<1>5. call' # NoCall => call'.dir = c /\ call'.inherited = Carried(Parent(c)) /\ Enterable(c) /\ c \notin gone
  BY <1>1, <1>2, <1>c
<1>6. call' = NoCall => ~Enterable(c) \/ c \in gone
  <2>1. ASSUME call' = [dir |-> c, inherited |-> Top.ignores] PROVE call' # NoCall
    <3>1. Len(Carried(Top.dir)) = Len(Top.dir) + 2
      BY <1>1, CarriedIs
    <3>2. Len(Top.ignores) # 0
      BY <1>1, <3>1
    <3>3. call'.inherited # <<>>
      BY <2>1, <3>2
    <3> QED BY <3>3 DEF NoCall
  <2> QED BY <1>c, <2>1
<1>7. \A p : /\ Listable(p)' <=> Listable(p)
             /\ Enterable(p)' <=> Enterable(p)
             /\ Walked(p)' <=> Walked(p)
             /\ Carried(p)' = Carried(p)
  BY FolderStays
<1>8. most' = most /\ Frame' = Frame /\ FolderIsATree'
  BY <1>4, FolderStays
<1>9. ASSUME NEW p \in Places, Ahead(p)' PROVE Ahead(p)
  <2>1. CASE AheadOf(p)'
    <3>1. call'.dir = c /\ N < Len(p) /\ SubSeq(p, 1, N) = c
      BY <1>2, <1>5, <2>1 DEF AheadOf
    <3>2. p \in Seq(FileName) /\ Len(p) \in Nat
      BY PlacesAre DEF Place
    <3>3. N \in 0..Len(p) /\ N - 1 \in 0..N
      BY <1>1, <3>1, <3>2
    <3>4. SubSeq(p, 1, N - 1) = SubSeq(c, 1, N - 1)
      BY <3>1, <3>2, <3>3, PrefixOfPrefix
    <3>5. p[N] = c[N]
      BY <1>e, <3>1, <3>2, <3>3, StartIs
    <3>6. AheadIn(stack, p, N)
      BY <1>1, <1>2, <3>1, <3>4, <3>5 DEF AheadIn
    <3> QED BY <1>e, <3>6 DEF Ahead, N
  <2>2. CASE \E i \in 1..Len(stack') : AheadIn(stack', p, i)
    BY <1>3, <2>2 DEF Ahead, N
  <2> QED BY <1>9, <2>1, <2>2 DEF Ahead
<1>10. ASSUME NEW p \in Places, Ahead(p)', Listable(c) PROVE Before(c, p)
  <2>1. call' = NoCall
    BY <1>5, <1>10 DEF Listable, Served, Enterable
  <2>2. \E i \in 1..N : AheadIn(stack', p, i)
    BY <1>3, <1>10, <2>1 DEF Ahead, AheadOf
  <2> QED BY <1>3, <2>2, PlacesAre
<1>11. ASSUME NEW p \in Places, Listable(p) \/ Enterable(p), Ahead(p), p # c PROVE Ahead(p)'
  <2>0. p \in Place
    BY PlacesAre
  <2>1. PICK i \in 1..N : AheadIn(stack, p, i)
    BY <1>4, <1>11 DEF Ahead, AheadOf, N
  <2>2. CASE AheadIn(stack', p, i)
    BY <1>3, <2>2 DEF Ahead
  <2>3. CASE Len(c) <= Len(p) /\ SubSeq(p, 1, Len(c)) = c
    <3>1. c \in Above(p)
      BY <1>2, <1>11, <2>0, <2>3, AtOrBelow
    <3>2. Enterable(c) /\ c \notin gone
      BY <1>2, <1>4, <1>11, <3>1, EnterableAbove
    <3>3. call' # NoCall /\ call'.dir = c
      BY <1>5, <1>6, <3>2
    <3>4. Len(c) < Len(p)
      <4>1. Len(c) \in 0..(Len(p) - 1) /\ Len(p) \in Nat
        BY <2>0, <3>1, AboveIs DEF Place
      <4> QED BY <4>1
    <3>5. AheadOf(p)'
      BY <2>3, <3>3, <3>4 DEF AheadOf
    <3> QED BY <3>5 DEF Ahead
  <2> QED BY <1>3, <2>0, <2>1, <2>2, <2>3
<1>12. WalkTypes'
  BY <1>2, <1>3, <1>5, <1>8 DEF WalkTypes
<1>13. CallIsNext'
  <2>1. ASSUME call' # NoCall
        PROVE  /\ Len(call'.dir) = Len(stack') /\ Walked(c)'
               /\ call'.inherited = Carried(Parent(c))'
               /\ \A i \in 1..Len(stack') : Past(stack', call'.dir, i)
    <3>1. Walked(c)
      BY <1>2, <1>5, <2>1 DEF Walked
    <3> QED BY <1>2, <1>3, <1>5, <1>7, <2>1, <3>1
  <2> QED BY <1>2, <1>3, <1>5, <1>7, <2>1 DEF CallIsNext, Walked
<1>14. FoundIsBefore'
  <2>1. ASSUME NEW p \in paths' PROVE p \in Places /\ Listable(p)
    BY <1>2, <1>d DEF WalkInv, FoundIsBefore
  <2>2. ASSUME NEW d \in entered' PROVE d \in Places /\ Enterable(d)
    BY <1>2, <1>d DEF WalkInv, FoundIsBefore
  <2>3. ASSUME NEW q \in paths', NEW p \in Places, Ahead(p)' PROVE Before(q, p)
    <3>1. CASE q \in paths
      BY <1>9, <2>3, <3>1 DEF WalkInv, FoundIsBefore
    <3>2. CASE q = c /\ Listable(c)
      BY <1>10, <2>3, <3>2
    <3> QED BY <1>d, <3>1, <3>2
  <2>4. ASSUME NEW p \in Places, Listable(p) PROVE p \in paths' \/ Ahead(p)'
    BY <1>4, <1>d, <1>11, <2>4 DEF WalkInv, FoundIsBefore
  <2>5. ASSUME NEW p \in Places, Enterable(p) PROVE p \in entered' \/ Ahead(p)'
    BY <1>4, <1>d, <1>11, <2>5 DEF WalkInv, FoundIsBefore
  <2> QED BY <1>7, <2>1, <2>2, <2>3, <2>4, <2>5 DEF FoundIsBefore
<1>15. StoppedBefore'
  BY <1>4 DEF StoppedBefore
<1> QED BY <1>3, <1>12, <1>13, <1>14, <1>15 DEF WalkInv


\* A bound stops the walk: what is listed is before all the listing has left.
LEMMA Stopped ==
    ASSUME WalkInv, ~Done, UNCHANGED <<walkFolder, paths, entered, bytes>>,
           call' = NoCall, stack' = <<>>, cut' \in {"budget", "paths", "bytes"},
           cut' \in {"paths", "bytes"} =>
               \E p \in Places \ paths : Listable(p) /\ (\/ Cardinality(paths) = most.paths
                                                        \/ bytes + Size(p) > most.bytes)
    PROVE  WalkInv'
<1>1. cut = "none" /\ FolderIsATree /\ paths' = paths /\ entered' = entered /\ bytes' = bytes
  BY NotStopped DEF WalkInv, WalkTypes
<1>2. \A p : /\ Listable(p)' <=> Listable(p)
             /\ Enterable(p)' <=> Enterable(p)
  BY FolderStays
<1>3. most' = most /\ FolderIsATree'
  BY <1>1, FolderStays
<1>4. stack' \in Seq(Frame') /\ Len(stack') = 0
  OBVIOUS
<1>5. \A i \in 1..Len(stack') : FALSE
  BY <1>4
<1>6. \A p : ~Ahead(p)'
  BY <1>5 DEF Ahead, AheadOf
<1>7. WalkTypes'
  BY <1>1, <1>3, <1>4 DEF WalkTypes, WalkInv
<1>8. StackIsAPath'
  BY <1>5 DEF StackIsAPath
<1>9. CallIsNext'
  BY DEF CallIsNext
<1>10. FoundIsBefore'
  <2>1. cut' # "none"
    OBVIOUS
  <2>2. \A p \in paths' : p \in Places /\ Listable(p)
    BY <1>1 DEF WalkInv, FoundIsBefore
  <2>3. \A d \in entered' : d \in Places /\ Enterable(d)
    BY <1>1 DEF WalkInv, FoundIsBefore
  <2> QED BY ONLY <1>2, <1>6, <2>1, <2>2, <2>3 DEF FoundIsBefore
<1>11. StoppedBefore'
  <2>1. Done'
    BY DEF Done
  <2>2. ASSUME NEW q \in paths', NEW p \in Places, Listable(p) PROVE p \in paths' \/ Before(q, p)
    BY <1>1, <2>2 DEF WalkInv, FoundIsBefore
  <2>3. cut' \in {"paths", "bytes"} =>
            \E p \in Places \ paths' : Listable(p) /\ (\/ Cardinality(paths') = most'.paths
                                                      \/ bytes' + Size(p) > most'.bytes)
    BY <1>1, <1>3
  <2> QED BY ONLY <1>2, <2>1, <2>2, <2>3 DEF StoppedBefore
<1> QED BY <1>7, <1>8, <1>9, <1>10, <1>11 DEF WalkInv

LEMMA OutOfNodesKeeps == ASSUME WalkInv, OutOfNodes PROVE WalkInv'
<1>1. ~Done
  BY DEF OutOfNodes, Done, Offered, Candidate, Walking
<1>2. /\ UNCHANGED <<walkFolder, paths, entered, bytes>>
      /\ call' = NoCall /\ stack' = <<>> /\ cut' = "budget"
  BY DEF OutOfNodes, Stops
<1> QED BY <1>1, <1>2, Stopped

LEMMA PathsAreFew ==
    ASSUME WalkInv
    PROVE  IsFiniteSet(paths) /\ Cardinality(paths) <= most.paths /\ most.paths \in Nat
           /\ Cardinality(paths) \in Nat
BY FolderIs, FS_CardinalityType DEF WalkInv, WalkTypes

LEMMA DropKeeps == ASSUME WalkInv, Drop PROVE WalkInv'
<1>1. /\ Walking /\ Top.left # {} /\ UNCHANGED walkFolder /\ stack' = Onward /\ cut' = cut
      /\ call' = NoCall /\ paths' = paths /\ entered' = entered
      /\ ~Offered /\ (Candidate => kind[Child] # "directory")
  BY DEF Drop, found, Walking
<1>2. ~Listable(Child) /\ ~Enterable(Child)
  BY <1>1, ChildOfTop
<1> QED BY <1>1, <1>2, PathsAreFew, Passed

LEMMA DeclineKeeps == ASSUME WalkInv, Decline PROVE WalkInv'
<1>1. /\ Walking /\ Top.left # {} /\ UNCHANGED walkFolder /\ stack' = Onward /\ cut' = cut
      /\ call' = NoCall /\ paths' = paths /\ entered' = entered
      /\ Child \in unfit /\ kind[Child] = "file"
  BY DEF Decline, Offered, Candidate, Walking
<1>2. ~Listable(Child) /\ ~Enterable(Child)
  BY <1>1 DEF Listable, Served, Enterable
<1> QED BY <1>1, <1>2, PathsAreFew, Passed

LEMMA DescendKeeps == ASSUME WalkInv, Descend PROVE WalkInv'
<1>1. /\ Walking /\ Top.left # {} /\ UNCHANGED walkFolder /\ stack' = Onward /\ cut' = cut
      /\ paths' = paths /\ entered' = entered \cup {Child}
      /\ Candidate /\ kind[Child] = "directory"
      /\ call' = IF Child \in gone THEN NoCall ELSE [dir |-> Child, inherited |-> Top.ignores]
  BY DEF Descend, Candidate, Walking
<1>2. Enterable(Child) /\ ~Listable(Child)
  BY <1>1, ChildOfTop DEF Listable, Served
<1> QED BY <1>1, <1>2, PathsAreFew, Passed

LEMMA ListsKeeps == ASSUME WalkInv, Lists PROVE WalkInv'
<1>1. /\ Walking /\ Top.left # {} /\ UNCHANGED walkFolder /\ entered' = entered
      /\ Offered /\ Child \notin unfit
  BY DEF Lists, Offered, Candidate, Walking
<1>2. Listable(Child) /\ ~Enterable(Child)
  BY <1>1, ChildOfTop DEF Listable, Served, Enterable
<1>3. IsFiniteSet(paths) /\ Cardinality(paths) <= most.paths /\ most.paths \in Nat
      /\ Cardinality(paths) \in Nat
  BY PathsAreFew
<1>4. Child \notin paths
  <2>1. Child \in Places /\ Child \in Place /\ Ahead(Child)
    BY <1>1, ChildOfTop, ChildIsAhead
  <2>2. Child \in paths => Before(Child, Child)
    BY <2>1 DEF WalkInv, FoundIsBefore
  <2> QED BY <2>1, <2>2, BeforeIsStrict
<1>5. CASE Bound(Child) = "none" /\ paths' = paths \cup {Child} /\ stack' = Onward
           /\ UNCHANGED <<call, cut>>
  <2>1. ~(Cardinality(paths) >= most.paths)
    BY <1>5 DEF Bound
  <2>2. IsFiniteSet(paths \cup {Child}) /\ Cardinality(paths \cup {Child}) = Cardinality(paths) + 1
    BY <1>3, <1>4, FS_AddElement
  <2>3. IsFiniteSet(paths') /\ Cardinality(paths') <= most.paths
    BY <1>3, <1>5, <2>1, <2>2
  <2> QED BY <1>1, <1>2, <1>5, <2>3, Passed DEF Walking
<1>6. CASE Bound(Child) # "none" /\ Stops(Bound(Child)) /\ UNCHANGED <<paths, bytes>>
  <2>1. \/ Bound(Child) = "paths" /\ Cardinality(paths) >= most.paths
        \/ Bound(Child) = "bytes" /\ bytes + Size(Child) > most.bytes
    BY <1>6 DEF Bound
  <2>2. Cardinality(paths) = most.paths \/ bytes + Size(Child) > most.bytes
    BY <1>3, <2>1
  <2>3. cut' \in {"budget", "paths", "bytes"} /\ call' = NoCall /\ stack' = <<>>
    BY <1>6, <2>1 DEF Stops
  <2>4. Child \in Places \ paths
    BY <1>1, <1>4, ChildOfTop
  <2>5. ~Done
    BY <1>1 DEF Done, Walking
  <2> QED BY <1>1, <1>2, <1>6, <2>2, <2>3, <2>4, <2>5, Stopped
<1> QED BY <1>5, <1>6 DEF Lists

\* A directory's entries are done: nothing of it is ahead.
LEMMA ReturnKeeps == ASSUME WalkInv, Return PROVE WalkInv'
<1> DEFINE N == Len(stack)
<1>1. /\ Walking /\ Top.left = {} /\ UNCHANGED walkFolder /\ stack' = Front(stack)
      /\ call = NoCall /\ call' = NoCall /\ paths' = paths /\ entered' = entered
      /\ bytes' = bytes /\ cut' = cut
  BY DEF Return, Walking, found
<1>2. stack \in Seq(Frame) /\ N \in Nat \ {0} /\ Top = stack[N]
  <2>1. stack \in Seq(Frame) /\ stack # <<>>
    BY <1>1 DEF WalkInv, WalkTypes, Walking
  <2> QED BY <2>1, EmptySeq DEF Top, Last
<1>3. stack' \in Seq(Frame) /\ Len(stack') = N - 1 /\ \A i \in 1..(N - 1) : stack'[i] = stack[i]
  <2>1. N - 1 \in 0..Len(stack)
    BY <1>2
  <2> QED BY <1>1, <1>2, <2>1, StartIs DEF Front
<1>4. cut = "none" /\ FolderIsATree
  BY <1>1, NotStopped DEF Walking, Done, WalkInv, WalkTypes
<1> HIDE DEF N
<1>5. \A i \in 1..N : i \in 1..(N - 1) \/ i = N
  BY <1>2
<1>6. \A i \in 1..(N - 1) : i \in 1..N /\ \A k \in (i + 1)..(N - 1) : k \in (i + 1)..N /\ k \in 1..(N - 1)
  BY <1>2
<1>7. \A p : /\ Listable(p)' <=> Listable(p)
             /\ Enterable(p)' <=> Enterable(p)
             /\ Walked(p)' <=> Walked(p)
             /\ Carried(p)' = Carried(p)
             /\ EntriesOf(p)' = EntriesOf(p)
  BY <1>1, FolderStays
<1>8. most' = most /\ Frame' = Frame /\ FolderIsATree' /\ unread' = unread
  BY <1>1, <1>4, FolderStays
<1>9. \A p : Ahead(p)' <=> Ahead(p)
  <2>1. \A p, i : i \in 1..(N - 1) => (AheadIn(stack', p, i) <=> AheadIn(stack, p, i))
    BY <1>3 DEF AheadIn
  <2>2. \A p : ~AheadIn(stack, p, N)
    BY <1>1, <1>2 DEF AheadIn
  <2>3. \A p : ~AheadOf(p) /\ ~AheadOf(p)'
    BY <1>1 DEF AheadOf
  <2>4. \A p : (\E i \in 1..(N - 1) : AheadIn(stack', p, i)) <=> \E i \in 1..N : AheadIn(stack, p, i)
    BY <1>5, <1>6, <2>1, <2>2
  <2> QED BY <1>3, <2>3, <2>4 DEF Ahead, N
<1>10. WalkTypes'
  BY <1>1, <1>3, <1>8 DEF WalkTypes, WalkInv
<1>11. StackIsAPath'
  <2>1. ASSUME NEW i \in 1..(N - 1)
        PROVE  /\ Len(stack'[i].dir) = i - 1
               /\ Walked(stack'[i].dir) /\ stack'[i].dir \notin unread
               /\ stack'[i].left \subseteq EntriesOf(stack'[i].dir)
               /\ stack'[i].ignores = Carried(stack'[i].dir)
    BY <1>3, <1>6 DEF WalkInv, StackIsAPath, N
  <2>2. ASSUME NEW i \in 1..(N - 1), NEW k \in (i + 1)..(N - 1) PROVE Past(stack', stack'[k].dir, i)
    <3>1. Past(stack, stack[k].dir, i)
      BY <1>6 DEF WalkInv, StackIsAPath, N
    <3>2. stack'[k] = stack[k] /\ stack'[i] = stack[i]
      BY <1>3, <1>6
    <3> QED BY <3>1, <3>2 DEF Past
  <2> QED BY ONLY <1>3, <1>7, <1>8, <2>1, <2>2 DEF StackIsAPath
<1>12. CallIsNext'
  BY <1>1 DEF CallIsNext
<1>13. FoundIsBefore'
  BY <1>1, <1>7, <1>9 DEF WalkInv, FoundIsBefore
<1>14. StoppedBefore'
  BY <1>1, <1>4 DEF StoppedBefore
<1> QED BY <1>10, <1>11, <1>12, <1>13, <1>14 DEF WalkInv


\* Entering a directory: what was below it is what its entries lead to.
LEMMA EnterKeeps == ASSUME WalkInv, Enter PROVE WalkInv'
<1> DEFINE N == Len(stack)
<1>0. PICK d : d = call.dir
  OBVIOUS
<1>1. /\ call # NoCall /\ call' = NoCall /\ UNCHANGED walkFolder
      /\ paths' = paths /\ entered' = entered /\ bytes' = bytes /\ cut' = cut
      /\ stack' = IF d \in unread THEN stack
                  ELSE Append(stack, [dir |-> d, left |-> EntriesOf(d),
                                      ignores |-> Ignores(d, call.inherited)])
  BY <1>0 DEF Enter
<1>2. /\ d \in Place /\ Len(d) = N /\ Walked(d) /\ d \notin gone
      /\ call.inherited = IF d = Root THEN <<>> ELSE Carried(Parent(d))
      /\ \A i \in 1..N : Past(stack, d, i)
      /\ stack \in Seq(Frame) /\ FolderIsATree
  BY <1>0, <1>1 DEF WalkInv, WalkTypes, CallIsNext, Walked
<1>3. cut = "none"
  BY <1>1, NotStopped DEF Done
<1>4. \A p : /\ Listable(p)' <=> Listable(p)
             /\ Enterable(p)' <=> Enterable(p)
             /\ Walked(p)' <=> Walked(p)
             /\ Carried(p)' = Carried(p)
             /\ EntriesOf(p)' = EntriesOf(p)
  BY <1>1, FolderStays
<1>5. most' = most /\ Frame' = Frame /\ FolderIsATree' /\ unread' = unread
  BY <1>1, <1>2, FolderStays
<1>6. N \in Nat
  BY <1>2 DEF Place
<1>7. \A p : AheadOf(p) <=> N < Len(p) /\ SubSeq(p, 1, N) = d
  BY <1>0, <1>1, <1>2 DEF AheadOf
<1>8. \A p : ~AheadOf(p)'
  BY <1>1 DEF AheadOf
<1>9. CallIsNext'
  BY <1>1 DEF CallIsNext
<1>10. StoppedBefore'
  BY <1>1, <1>3 DEF StoppedBefore
<1> HIDE DEF N
\* What is ahead is so still, if it is of the folder, and nothing else is.
<1>11. ASSUME stack' \in Seq(Frame), StackIsAPath',
              \A p \in Places : Ahead(p)' => Ahead(p),
              \A p \in Places : (Listable(p) \/ Enterable(p)) /\ Ahead(p) => Ahead(p)'
       PROVE  WalkInv'
  <2>1. WalkTypes'
    BY <1>1, <1>5, <1>11 DEF WalkTypes, WalkInv
  <2>2. FoundIsBefore'
    <3>1. \A p \in paths' : p \in Places /\ Listable(p)
      BY <1>1 DEF WalkInv, FoundIsBefore
    <3>2. \A e \in entered' : e \in Places /\ Enterable(e)
      BY <1>1 DEF WalkInv, FoundIsBefore
    <3>3. \A q \in paths' : \A p \in Places : Ahead(p)' => Before(q, p)
      BY <1>1, <1>11 DEF WalkInv, FoundIsBefore
    <3>4. \A p \in Places : Listable(p) => p \in paths' \/ Ahead(p)'
      BY <1>1, <1>3, <1>11 DEF WalkInv, FoundIsBefore
    <3>5. \A p \in Places : Enterable(p) => p \in entered' \/ Ahead(p)'
      BY <1>1, <1>3, <1>11 DEF WalkInv, FoundIsBefore
    <3> QED BY ONLY <1>4, <3>1, <3>2, <3>3, <3>4, <3>5 DEF FoundIsBefore
  <2> QED BY <1>9, <1>10, <1>11, <2>1, <2>2 DEF WalkInv
<1>12. CASE d \in unread
  <2>1. stack' = stack
    BY <1>1, <1>12
  <2>2. StackIsAPath'
    BY <1>4, <1>5, <2>1 DEF WalkInv, StackIsAPath, Past
  <2>3. \A p : Ahead(p)' => Ahead(p)
    BY <1>8, <2>1 DEF Ahead
  <2>4. ASSUME NEW p \in Places, Listable(p) \/ Enterable(p), Ahead(p) PROVE Ahead(p)'
    <3>1. ~AheadOf(p)
      <4>1. SUFFICES ASSUME AheadOf(p) PROVE FALSE
        OBVIOUS
      <4>2. p \in Place /\ Len(p) \in Nat
        BY PlacesAre DEF Place
      <4>3. N \in 0..(Len(p) - 1) /\ SubSeq(p, 1, N) = d
        BY <1>6, <1>7, <4>1, <4>2
      <4>4. d \in Above(p)
        BY <4>2, <4>3, AboveIs DEF Place
      <4> QED BY <1>12, <2>4, <4>4 DEF Listable, Enterable, Reached
    <3> QED BY <2>1, <2>4, <3>1 DEF Ahead
  <2> QED BY <1>2, <1>11, <2>1, <2>2, <2>3, <2>4
<1>13. CASE d \notin unread
  <2> DEFINE frame == [dir |-> d, left |-> EntriesOf(d), ignores |-> Carried(d)]
  <2>1. Ignores(d, call.inherited) = Carried(d)
    BY <1>2, IgnoresIs
  <2>2. stack' = Append(stack, frame)
    BY <1>1, <1>13, <2>1
  <2>3. EntriesOf(d) \subseteq FileName
    BY PlacesAre DEF EntriesOf
  <2>4. frame \in Frame /\ frame.dir = d /\ frame.left = EntriesOf(d) /\ frame.ignores = Carried(d)
    BY <1>2, <2>3 DEF Frame
  <2> HIDE DEF frame
  <2>5. stack' \in Seq(Frame) /\ Len(stack') = N + 1 /\ stack'[N + 1] = frame
        /\ \A i \in 1..N : stack'[i] = stack[i]
    BY <1>2, <2>2, <2>4 DEF N
  <2>6. /\ \A i \in 1..(N + 1) : i \in 1..N \/ i = N + 1
        /\ \A i \in 1..(N + 1) : \A k \in (i + 1)..(N + 1) :
              i \in 1..N /\ ((k \in 1..N /\ k \in (i + 1)..N) \/ k = N + 1)
        /\ N + 1 \in 1..(N + 1) /\ (N + 1) - 1 = N
        /\ \A i \in 1..N : i \in 1..(N + 1)
    BY <1>6
  <2>7. StackIsAPath'
    <3>1. ASSUME NEW i \in 1..(N + 1)
          PROVE  /\ Len(stack'[i].dir) = i - 1
                 /\ Walked(stack'[i].dir) /\ stack'[i].dir \notin unread
                 /\ stack'[i].left \subseteq EntriesOf(stack'[i].dir)
                 /\ stack'[i].ignores = Carried(stack'[i].dir)
      <4>1. CASE i \in 1..N
        BY <2>5, <4>1 DEF WalkInv, StackIsAPath, N
      <4>2. CASE i = N + 1
        BY <1>2, <1>13, <2>4, <2>5, <2>6, <4>2
      <4> QED BY <2>6, <4>1, <4>2
    <3>2. ASSUME NEW i \in 1..(N + 1), NEW k \in (i + 1)..(N + 1)
          PROVE  Past(stack', stack'[k].dir, i)
      <4>1. i \in 1..N /\ stack'[i] = stack[i]
        BY <2>5, <2>6
      <4>2. CASE k \in 1..N /\ k \in (i + 1)..N
        <5>1. Past(stack, stack[k].dir, i) /\ stack'[k] = stack[k]
          BY <2>5, <4>1, <4>2 DEF WalkInv, StackIsAPath, N
        <5> QED BY <4>1, <5>1 DEF Past
      <4>3. CASE k = N + 1
        BY <1>2, <2>4, <2>5, <4>1, <4>3 DEF Past
      <4> QED BY <2>6, <4>2, <4>3
    <3> QED BY ONLY <1>4, <1>5, <2>5, <3>1, <3>2 DEF StackIsAPath
  <2>8. \A p, i : i \in 1..N => (AheadIn(stack', p, i) <=> AheadIn(stack, p, i))
    BY <2>5 DEF AheadIn
  <2>9. \A p : AheadIn(stack', p, N + 1) <=> N + 1 <= Len(p) /\ SubSeq(p, 1, N) = d
                                             /\ p[N + 1] \in EntriesOf(d)
    BY <2>4, <2>5, <2>6 DEF AheadIn
  <2>10. ASSUME NEW p \in Places, Ahead(p)' PROVE Ahead(p)
    <3>1. PICK i \in 1..(N + 1) : AheadIn(stack', p, i)
      BY <1>8, <2>5, <2>10 DEF Ahead
    <3>2. CASE i \in 1..N
      BY <2>8, <3>1, <3>2 DEF Ahead, N
    <3>3. CASE i = N + 1
      <4>1. Len(p) \in Nat
        BY PlacesAre DEF Place
      <4>2. N < Len(p)
        BY <1>6, <2>9, <3>1, <3>3, <4>1
      <4> QED BY <1>7, <2>9, <3>1, <3>3, <4>2 DEF Ahead
    <3> QED BY <2>6, <3>2, <3>3
  <2>11. ASSUME NEW p \in Places, Listable(p) \/ Enterable(p), Ahead(p) PROVE Ahead(p)'
    <3>0. p \in Place /\ p \in Seq(FileName) /\ Len(p) \in Nat /\ Above(p) \ {Root} \subseteq Places
      BY PlacesAre DEF Place
    <3>1. CASE \E i \in 1..N : AheadIn(stack, p, i)
      BY <2>5, <2>6, <2>8, <3>1 DEF Ahead
    <3>2. CASE AheadOf(p)
      <4>1. N + 1 \in 0..Len(p) /\ SubSeq(p, 1, N) = d /\ N \in 0..(N + 1) /\ N + 1 <= Len(p)
        BY <1>6, <1>7, <3>0, <3>2
      <4> DEFINE e == SubSeq(p, 1, N + 1)
      <4>2. e \in Seq(FileName) /\ Len(e) = N + 1 /\ e[N + 1] = p[N + 1]
        BY <2>6, <3>0, <4>1, StartIs
      <4>3. SubSeq(e, 1, N) = d
        BY <3>0, <4>1, PrefixOfPrefix
      <4>4. SubSeq(p, 1, Len(p)) = p
        BY <3>0
      <4>5. e = p \/ e \in Above(p) \ {Root}
        <5>1. CASE Len(p) = N + 1
          BY <4>4, <5>1
        <5>2. CASE Len(p) # N + 1
          <6>1. N + 1 \in 0..(Len(p) - 1)
            BY <1>6, <3>0, <4>1, <5>2
          <6>2. e # Root
            <7>1. Len(Root) = 0 /\ N + 1 # 0
              BY <1>6 DEF Root
            <7> HIDE DEF e
            <7> QED BY ONLY <4>2, <7>1
          <6> QED BY <3>0, <6>1, <6>2, AboveIs
        <5> QED BY <5>1, <5>2
      <4> HIDE DEF e
      <4>6. kind[p] # "none"
        BY <2>11 DEF Listable, Served, Enterable
      <4>7. e \in Places /\ kind[e] # "none"
        BY <1>2, <3>0, <4>5, <4>6, FolderIs
      <4>8. Parent(e) = d /\ Leaf(e) = p[N + 1]
        BY <2>6, <4>2, <4>3 DEF Parent, Leaf, Front, Last
      <4>9. p[N + 1] \in EntriesOf(d)
        BY <4>7, <4>8 DEF EntriesOf
      <4>10. AheadIn(stack', p, N + 1)
        BY <2>9, <4>1, <4>9
      <4> QED BY <2>5, <2>6, <4>10 DEF Ahead
    <3> QED BY <2>11, <3>1, <3>2 DEF Ahead, N
  <2> QED BY <1>11, <2>5, <2>7, <2>10, <2>11
<1> QED BY <1>12, <1>13

LEMMA WalkInvInit == ASSUME WalkInit PROVE WalkInv
<1>1. PICK frame \in Folders : InitOf(frame)
  BY DEF WalkInit
<1>2. IsFolder(frame)
  BY WalkAssumption
<1>3. FolderIsATree /\ most.paths \in Nat
  BY <1>1, <1>2 DEF InitOf, IsFolder, FolderIsATree
<1>4. /\ call = [dir |-> Root, inherited |-> <<>>] /\ stack = <<>>
      /\ paths = {} /\ entered = {} /\ bytes = 0 /\ cut = "none"
  BY <1>1 DEF InitOf
<1>5. call # NoCall /\ call.dir = Root /\ call.inherited = <<>> /\ Root \in Place /\ Len(Root) = 0
  <2>1. Root # <<"-">>
    <3>1. Len(<<"-">>) = 1 /\ Len(<<>>) = 0
      OBVIOUS
    <3> QED BY <3>1 DEF Root
  <2> QED BY <1>4, <2>1, PlacesAre DEF NoCall, Root
<1>6. WalkTypes
  <2>1. IsFiniteSet({}) /\ Cardinality({}) = 0
    BY FS_EmptySet
  <2>2. stack \in Seq(Frame)
    BY <1>4
  <2> QED BY <1>3, <1>4, <1>5, <2>1, <2>2 DEF WalkTypes
<1>7. Len(stack) = 0 /\ \A i \in 1..Len(stack) : FALSE
  BY <1>4
<1>8. StackIsAPath
  BY <1>7 DEF StackIsAPath
<1>9. CallIsNext
  <2>1. Walked(Root)
    BY <1>3, FolderIs DEF Walked
  <2> QED BY <1>5, <1>7, <2>1 DEF CallIsNext
<1>10. \A p \in Places : Ahead(p)
  <2>1. ASSUME NEW p \in Places PROVE AheadOf(p)
    <3>1. p \in Seq(FileName) /\ p # <<>>
      BY PlacesAre DEF Place, Root
    <3>2. 0 < Len(p)
      BY <3>1, EmptySeq
    <3>3. SubSeq(p, 1, 0) = Root
      BY SubSeqEmpty DEF Root
    <3> QED BY <1>5, <3>2, <3>3 DEF AheadOf
  <2> QED BY <2>1 DEF Ahead
<1>11. FoundIsBefore
  BY <1>4, <1>10 DEF FoundIsBefore
<1>12. StoppedBefore
  BY <1>4 DEF StoppedBefore
<1> QED BY <1>6, <1>8, <1>9, <1>11, <1>12 DEF WalkInv

LEMMA WalkStutters == ASSUME WalkInv, UNCHANGED walkVars PROVE WalkInv'
<1>1. UNCHANGED walkFolder /\ call' = call /\ stack' = stack /\ paths' = paths /\ entered' = entered
      /\ bytes' = bytes /\ cut' = cut
  BY DEF walkVars, found
<1>2. \A p : /\ Listable(p)' <=> Listable(p)
             /\ Enterable(p)' <=> Enterable(p)
             /\ Walked(p)' <=> Walked(p)
             /\ Carried(p)' = Carried(p)
             /\ EntriesOf(p)' = EntriesOf(p)
  BY <1>1, FolderStays
<1>3. most' = most /\ Frame' = Frame /\ (FolderIsATree' <=> FolderIsATree) /\ unread' = unread
  BY <1>1, FolderStays
<1>4. WalkTypes'
  BY <1>1, <1>3 DEF WalkInv, WalkTypes
<1>5. StackIsAPath'
  BY <1>1, <1>2, <1>3 DEF WalkInv, StackIsAPath, Past
<1>6. CallIsNext'
  BY <1>1, <1>2 DEF WalkInv, CallIsNext, Past
<1>7. FoundIsBefore'
  <2>1. \A p : Ahead(p)' <=> Ahead(p)
    BY <1>1 DEF Ahead, AheadOf
  <2> QED BY <1>1, <1>2, <2>1 DEF WalkInv, FoundIsBefore
<1>8. StoppedBefore'
  BY <1>1, <1>2, <1>3 DEF WalkInv, StoppedBefore, Done
<1> QED BY <1>4, <1>5, <1>6, <1>7, <1>8 DEF WalkInv

LEMMA WalkInvHolds == WalkSpec => []WalkInv
<1>1. WalkInit => WalkInv
  BY WalkInvInit
<1>2. WalkInv /\ [WalkNext]_walkVars => WalkInv'
  BY EnterKeeps, OutOfNodesKeeps, DropKeeps, DescendKeeps, DeclineKeeps, ListsKeeps, ReturnKeeps,
     WalkStutters DEF WalkNext
<1> QED BY <1>1, <1>2, PTL DEF WalkSpec

\* The two gates agree, for any folder, any ignore files, any names kept out and any bounds:
\* a walk no bound stopped lists exactly what a read would serve of what it can come to, and
\* one that was stopped the first of it in the order of the names (walkListing, read).
THEOREM ListingHolds == WalkSpec => []ListingIsTheFolder
<1>1. WalkInv => ListingIsTheFolder
  <2>1. SUFFICES ASSUME WalkInv, Done PROVE ListingIsTheFolder
    BY DEF ListingIsTheFolder
  <2> DEFINE all == {p \in Places : Listable(p)}
  <2>2. \A p : ~Ahead(p)
    <3>1. call = NoCall /\ Len(stack) = 0
      BY <2>1 DEF Done
    <3>2. \A i \in 1..Len(stack) : FALSE
      BY <3>1
    <3> QED BY <3>1, <3>2 DEF Ahead, AheadOf
  <2>3. paths \subseteq all
    BY <2>1 DEF WalkInv, FoundIsBefore
  <2>4. ASSUME NEW q \in paths, NEW p \in all, Before(p, q) PROVE p \in paths
    <3>1. p \in Place /\ q \in Place
      BY <2>3, PlacesAre
    <3>2. CASE cut = "none"
      BY <2>1, <2>2, <3>2 DEF WalkInv, FoundIsBefore
    <3>3. CASE cut # "none"
      <4>1. p \in paths \/ Before(q, p)
        BY <2>1, <3>3 DEF WalkInv, StoppedBefore
      <4> QED BY <2>4, <3>1, <4>1, BeforeIsStrict
    <3> QED BY <3>2, <3>3
  <2>5. ASSUME cut = "none" PROVE paths = all /\ entered = {d \in Places : Enterable(d)}
    <3>1. \A p \in Places : Listable(p) => p \in paths
      BY <2>1, <2>2, <2>5 DEF WalkInv, FoundIsBefore
    <3>2. /\ \A d \in entered : d \in Places /\ Enterable(d)
          /\ \A d \in Places : Enterable(d) => d \in entered
      BY <2>1, <2>2, <2>5 DEF WalkInv, FoundIsBefore
    <3> QED BY <2>3, <3>1, <3>2
  <2>6. ASSUME cut \in {"paths", "bytes"}
        PROVE  \E p \in all \ paths : \/ Cardinality(paths) = most.paths
                                      \/ bytes + Size(p) > most.bytes
    <3>1. cut # "none"
      BY <2>6
    <3> QED BY <2>1, <2>6, <3>1 DEF WalkInv, StoppedBefore
  <2> QED BY <2>1, <2>3, <2>4, <2>5, <2>6 DEF ListingIsTheFolder
<1> QED BY <1>1, WalkInvHolds, PTL

=============================================================================
