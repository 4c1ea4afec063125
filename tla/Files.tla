------------------------------- MODULE Files --------------------------------
(***************************************************************************)
(* The folder a host shares, as the page writes it and moves what is in it *)
(* (src/src/browser/folder.ts, FolderWorkingCopy; the saves of             *)
(* src/src/browser/editor.ts; moveEntry of src/src/browser/main.ts).       *)
(*                                                                         *)
(* The files are Names in a folder From and, once moved, in a folder To.   *)
(* The text of a file is the number of edits in it; Theirs is what another *)
(* program wrote, Empty a file just made.  The stamp of a file             *)
(* (lastModified) grows with every write.  What the code awaits ends a     *)
(* step: the person, the room and another program come in between.         *)
(*                                                                         *)
(* What the page holds and what is on disk is one record f, so that a      *)
(* handler is the composition of the methods it calls.                     *)
(***************************************************************************)
EXTENDS Integers, FiniteSets, FiniteSetsExt, Functions

CONSTANTS
    Names,        \* the files, numbered in the order of the listing
    MaxEdits,     \* bound: edits of the documents
    MaxForeign,   \* bound: writes and removals of another program
    MaxFailures,  \* bound: writes the platform fails for no reason the page reads
    MaxMoves      \* bound: moves asked for

ASSUME NamesAssumption == Names \subseteq Nat \ {0}

From == "from"
To   == "to"
Path == {From, To} \X Names
At(n, dir) == <<dir, n>>

Empty  == -1
Theirs == -2
NoJob  == [pc |-> "none", path |-> At(0, From), text |-> Empty, seen |-> 0]
Idle   == [pc |-> "idle", kind |-> "none", live |-> {}, at |-> 0, awaits |-> FALSE,
           left |-> {}, moved |-> {}, text |-> Empty, outcome |-> "none"]

VARIABLES
    f,           \* see TypeOK
    permitted,   \* whether the page still has write access
    disposed,    \* the binding is
    asked, foreign, failures,  \* counts for the bounds
    unlooked,    \* ghost: paths another program wrote and the page has not looked at since
    theirs,      \* ghost: names another program has touched
    floor,       \* ghost: name -> the edits it had when its move began, none if it was not there
    stood        \* ghost: whether To, and which names in it, stood when the move was asked for

counts == <<asked, foreign, failures>>
ghosts == <<unlooked, theirs, floor, stood>>
vars   == <<f, permitted, disposed, counts, ghosts>>

Mover == 0   \* the owner of the write of a move
Jobs == Names \cup {Mover}

Start(present) ==
    [disk |-> [p \in Path |-> [there |-> p \in {From} \X present, stamp |-> 1,
                               text |-> IF p \in {From} \X present THEN 0 ELSE Empty]],
     stamps |-> [p \in Path |-> IF p \in {From} \X present THEN 1 ELSE 0],
     listed |-> {From} \X present, dirs |-> {From},
     text |-> [n \in Names |-> 0], models |-> present,
     timers |-> {}, deadlines |-> {}, remote |-> {},
     jobs |-> [w \in Jobs |-> NoJob], slot |-> [n \in Names |-> [text |-> 0, again |-> FALSE]],
     move |-> Idle]

Init ==
    \E last \in Names, d \in BOOLEAN :
      LET present == {n \in Names : n <= last} IN
        /\ f = [Start(present) EXCEPT !.dirs = IF d THEN @ \cup {To} ELSE @]
        /\ stood = [dir |-> d, names |-> {}]
        /\ floor = [n \in Names |-> IF n \in present THEN 0 ELSE Theirs]
        /\ permitted = TRUE /\ disposed = FALSE
        /\ asked = 0 /\ foreign = 0 /\ failures = 0
        /\ unlooked = {} /\ theirs = {}

-----------------------------------------------------------------------------
\* The saves of the editor: at most one write of a path at a time, in its slot.

Writing(d, n) == d.jobs[n] # NoJob
Pending(d, n) == n \in d.timers \/ n \in d.remote \/ Writing(d, n)

\* Whoever waits for the slot is told; a failure is a debt again.
Woken(d, n) == [d EXCEPT !.move.awaits = @ /\ d.move.at # n]
Finished(d, n) == Woken([d EXCEPT !.jobs[n] = NoJob], n)
Failed(d, n) ==
    LET e == [d EXCEPT !.jobs[n] = NoJob, !.remote = @ \cup {n}]
    IN  IF d.move.awaits /\ d.move.at = n
        THEN [e EXCEPT !.move = [Idle EXCEPT !.outcome = "unwritten"]] ELSE e

\* The start of folder.write(): the stamp is taken before anything is awaited.
Started(d, w, path, txt) ==
    [d EXCEPT !.jobs[w] = [pc |-> "check", path |-> path, text |-> txt, seen |-> d.stamps[path]]]
Pass(d, n, txt) ==
    IF d.stamps[At(n, From)] = 0 THEN Failed(d, n) ELSE Started(d, n, At(n, From), txt)

\* A pass was written: one more if somebody asked and the buffer has moved.
Current(d, n) == IF n \in d.models THEN d.text[n] ELSE d.slot[n].text
PassWritten(d, n) ==
    IF d.slot[n].again /\ Current(d, n) # d.jobs[n].text
    THEN Pass([d EXCEPT !.slot[n].again = FALSE], n, Current(d, n))
    ELSE Finished(d, n)

JoinsSilently(d, n) == d
Joins(d, n) == [d EXCEPT !.slot[n] = [text |-> d.text[n], again |-> TRUE]]
Save(d, n) ==
    LET e == [d EXCEPT !.remote = @ \ {n}]
    IN  IF n \notin d.models THEN e
        ELSE IF Writing(d, n) THEN Joins(e, n)
        ELSE Pass([e EXCEPT !.slot[n] = [text |-> d.text[n], again |-> FALSE]], n, d.text[n])

\* A keystroke, and a change of the room.
MayEdit == SumFunction(f.text) < MaxEdits

Type(n) ==
    /\ ~disposed /\ n \in f.models /\ MayEdit
    /\ f' = [f EXCEPT !.text[n] = @ + 1, !.timers = @ \cup {n}]
    /\ UNCHANGED <<permitted, disposed, counts, ghosts>>

ApplyChange(n) ==
    /\ ~disposed /\ n \in f.models /\ MayEdit
    /\ f' = [f EXCEPT !.text[n] = @ + 1, !.remote = @ \cup {n}, !.deadlines = @ \cup {n}]
    /\ UNCHANGED <<permitted, disposed, counts, ghosts>>

WriteTimer(n) ==
    /\ n \in f.timers
    /\ f' = Save([f EXCEPT !.timers = @ \ {n}], n)
    /\ UNCHANGED <<permitted, disposed, counts, ghosts>>

SaveOnDeadline(n) ==
    /\ n \in f.deadlines
    /\ f' = LET d == [f EXCEPT !.deadlines = @ \ {n}]
            IN  IF Pending(d, n) THEN Save(d, n) ELSE d
    /\ UNCHANGED <<permitted, disposed, counts, ghosts>>

\* The flush: what is armed is written, then the models go.
\* The saves of two documents touch nothing of one another.
Flushed(d) ==
    LET due == {n \in Names : Pending(d, n)}
        saved == [n \in Names |-> Save(d, n)]
    IN  [d EXCEPT !.jobs = [w \in Jobs |-> IF w \in due THEN saved[w].jobs[w] ELSE @[w]],
                  !.slot = [n \in Names |-> IF n \in due THEN saved[n].slot[n] ELSE @[n]],
                  !.remote = {n \in due : n \in saved[n].remote},
                  !.move = IF @.awaits /\ @.at \in due THEN saved[@.at].move ELSE @]
Dispose ==
    /\ ~disposed /\ disposed' = TRUE
    /\ f' = [Flushed(f) EXCEPT !.timers = {}, !.deadlines = {}, !.models = {}]
    /\ UNCHANGED <<permitted, counts, ghosts>>

-----------------------------------------------------------------------------
\* The rest of folder.write(), for a slot and for a move alike.

\* A file after a write of it.
Put(file, txt) == [there |-> TRUE, text |-> txt, stamp |-> file.stamp + 1]

Looked(p) == unlooked' = unlooked \ {p}

\* What a file of the move was refused for: the file alone, or the folder it is in.
FileRefused(d, why) ==
    LET ended == IF d.move.kind = "file" THEN [Idle EXCEPT !.outcome = why]
                 ELSE IF d.move.moved = {} THEN [d.move EXCEPT !.pc = "abandon", !.outcome = why]
                 ELSE [d.move EXCEPT !.pc = "publish", !.outcome = "partial"]
    IN  [d EXCEPT !.move = ended]

\* A refusal, an exception and the end of a write, as its caller takes them.
Refused(d, w, why) ==
    IF w = Mover
    THEN [d EXCEPT !.jobs[w] = NoJob, !.move.pc = "undo", !.move.outcome = why]
    ELSE Failed(d, w)
Threw(d, w) ==
    IF w = Mover THEN [d EXCEPT !.jobs[w] = NoJob, !.move = [Idle EXCEPT !.outcome = "threw"]]
    ELSE Failed(d, w)
Written(d, w) ==
    IF w = Mover THEN [d EXCEPT !.jobs[w] = NoJob, !.move.pc = "drop"] ELSE PassWritten(d, w)

PassesOnceRead(file, job) == job.seen # 0
\* The guard: the file carries the stamp the page last saw.
Passes(file, job) == file.stamp = job.seen

WriteCheck(w) ==
    LET job == f.jobs[w]  file == f.disk[job.path] IN
    /\ job.pc = "check"
    /\ f' = IF ~file.there THEN Refused(f, w, "missing")
            ELSE IF Passes(file, job) THEN [f EXCEPT !.jobs[w].pc = "replace"]
            ELSE Refused(f, w, "stale")
    /\ UNCHANGED <<permitted, disposed, counts, ghosts>>

WriteReplace(w) ==
    LET job == f.jobs[w] IN
    /\ job.pc = "replace"
    /\ f' = IF ~permitted THEN Refused(f, w, "not-permitted")
            ELSE IF ~f.disk[job.path].there THEN Refused(f, w, "missing")
            ELSE [f EXCEPT !.jobs[w].pc = "restamp",
                           !.disk[job.path] = Put(@, job.text)]
    /\ IF permitted /\ f.disk[job.path].there THEN Looked(job.path) ELSE UNCHANGED unlooked
    /\ UNCHANGED <<permitted, disposed, counts, theirs, floor, stood>>

WriteFails(w) ==
    /\ f.jobs[w].pc = "replace" /\ failures < MaxFailures
    /\ failures' = failures + 1 /\ f' = Threw(f, w)
    /\ UNCHANGED <<permitted, disposed, asked, foreign, ghosts>>

WriteRestamp(w) ==
    LET job == f.jobs[w]  file == f.disk[job.path] IN
    /\ job.pc = "restamp"
    /\ f' = Written([f EXCEPT !.stamps[job.path] = IF file.there THEN file.stamp ELSE job.seen], w)
    /\ Looked(job.path)
    /\ UNCHANGED <<permitted, disposed, counts, theirs, floor, stood>>

-----------------------------------------------------------------------------
\* moveEntry(), folder.move() and what they are made of.

Deleted(d, ps) == [d EXCEPT !.disk = [p \in Path |-> IF p \in ps
                       THEN [there |-> FALSE, text |-> Empty, stamp |-> d.disk[p].stamp] ELSE d.disk[p]]]
\* remove() and forget(), of a file or of a folder and what is in it.
Forgot(d, ps) == [d EXCEPT !.listed = @ \ ps,
                           !.stamps = [p \in Path |-> IF p \in ps THEN 0 ELSE @[p]]]
Removed(d, ps) == Forgot(Deleted(d, ps), ps)
Under(dir) == {dir} \X Names
RemovedDir(d, dir) == [Removed(d, Under(dir)) EXCEPT !.dirs = @ \ {dir}]

AskMove(kind, names) ==
    /\ ~disposed /\ asked < MaxMoves /\ f.move.pc = "idle"
    /\ names # {} /\ \A n \in names : At(n, From) \in f.listed
    /\ kind = "folder" => \A n \in Names : At(n, From) \in f.listed => n \in names
    /\ kind = "file" => Cardinality(names) = 1
    /\ asked' = asked + 1
    /\ f' = [f EXCEPT !.move = [Idle EXCEPT !.pc = "settle", !.kind = kind, !.left = names,
                                            !.live = names \cap f.models]]
    /\ stood' = [dir |-> To \in f.dirs, names |-> {n \in Names \ theirs : f.disk[At(n, To)].there}]
    /\ UNCHANGED <<permitted, disposed, foreign, failures, unlooked, theirs, floor>>

\* session.settle() of each live document in turn, until none has anything pending.
DrainedInTurn(live) == TRUE
Drained(live) == \A n \in live : ~Pending(f, n)
Unsettled == {n \in f.move.live : n >= f.move.at /\ Pending(f, n)}
Settle ==
    /\ f.move.pc = "settle" /\ ~f.move.awaits /\ ~disposed
    /\ \/ /\ Unsettled # {}
          /\ LET n == Min(Unsettled)
                 d == [f EXCEPT !.timers = @ \ {n}, !.move.at = n, !.move.awaits = TRUE]
             IN  f' = Save(d, n)
          /\ floor' = floor
       \/ /\ Unsettled = {}
          /\ \/ /\ ~Drained(f.move.live)
                /\ f' = [f EXCEPT !.move.at = 0] /\ floor' = floor
             \/ /\ Drained(f.move.live)
                /\ f' = [f EXCEPT !.move.at = 0,
                                  !.move.pc = IF f.move.kind = "folder" THEN "survey" ELSE "read"]
                /\ floor' = [n \in Names |-> IF n \in f.move.live THEN f.text[n] ELSE floor[n]]
    /\ UNCHANGED <<permitted, disposed, counts, unlooked, theirs, stood>>

\* The session ended while the move was settling.
SettleEnded ==
    /\ disposed /\ f.move.pc = "settle" /\ ~f.move.awaits
    /\ f' = [f EXCEPT !.move = [Idle EXCEPT !.outcome = "ended"]]
    /\ UNCHANGED <<permitted, disposed, counts, ghosts>>

\* unsharedUnder(): a folder moves whole or not at all.
Survey ==
    /\ f.move.pc = "survey"
    /\ f' = IF \E p \in Under(From) : f.disk[p].there /\ p \notin f.listed
            THEN [f EXCEPT !.move = [Idle EXCEPT !.outcome = "unshared"]]
            ELSE [f EXCEPT !.move.pc = "mkdir"]
    /\ UNCHANGED <<permitted, disposed, counts, ghosts>>

MakeFolder ==
    /\ f.move.pc = "mkdir"
    /\ f' = IF To \in f.dirs \/ ~permitted
            THEN [f EXCEPT !.move = [Idle EXCEPT !.outcome = IF To \in f.dirs THEN "exists" ELSE "not-permitted"]]
            ELSE [f EXCEPT !.dirs = @ \cup {To}, !.move.pc = "read",
                           !.move.left = {n \in Names : At(n, From) \in f.listed}]
    /\ UNCHANGED <<permitted, disposed, counts, ghosts>>

\* moveFile(): the old text is read, the new name made, written, and the old removed.
Now == Min(f.move.left)

ReadSource ==
    LET p == At(Now, From)  file == f.disk[p] IN
    /\ f.move.pc = "read" /\ f.move.left # {}
    /\ f' = IF p \notin f.listed THEN FileRefused(f, "not-granted")
            ELSE IF ~file.there THEN FileRefused(f, "missing")
            ELSE [f EXCEPT !.stamps[p] = file.stamp, !.move.text = file.text, !.move.pc = "probe"]
    /\ IF p \in f.listed /\ file.there THEN Looked(p) ELSE UNCHANGED unlooked
    /\ UNCHANGED <<permitted, disposed, counts, theirs, floor, stood>>

ProbeTarget ==
    LET p == At(Now, To) IN
    /\ f.move.pc = "probe"
    /\ f' = IF To \notin f.dirs THEN FileRefused(f, "missing")
            ELSE IF f.disk[p].there THEN FileRefused(f, "exists")
            ELSE [f EXCEPT !.move.pc = "make"]
    /\ UNCHANGED <<permitted, disposed, counts, ghosts>>

\* The create adopts a name that appeared since; what it stamps it has looked at.
MakeTarget ==
    LET p == At(Now, To)
        made == IF f.disk[p].there THEN f.disk[p]
                ELSE Put(f.disk[p], Empty)
    IN
    /\ f.move.pc = "make"
    /\ f' = IF ~permitted THEN FileRefused(f, "not-permitted")
            ELSE Started([f EXCEPT !.disk[p] = made, !.stamps[p] = made.stamp,
                                   !.listed = @ \cup {p}, !.move.pc = "write"],
                         Mover, p, f.move.text)
    /\ IF permitted THEN Looked(p) ELSE UNCHANGED unlooked
    /\ UNCHANGED <<permitted, disposed, counts, theirs, floor, stood>>

\* The copy was refused: what was made for it goes, if it may.
UndoTarget ==
    /\ f.move.pc = "undo"
    /\ f' = FileRefused(IF permitted THEN Removed(f, {At(Now, To)}) ELSE f, f.move.outcome)
    /\ UNCHANGED <<permitted, disposed, counts, ghosts>>

DropSource ==
    LET n == Now  done == [Removed(f, {At(n, From)}) EXCEPT !.move.moved = @ \cup {n},
                                                            !.move.left = @ \ {n}]
    IN
    /\ f.move.pc = "drop"
    /\ f' = IF ~permitted
            THEN [f EXCEPT !.move.pc = "publish", !.move.outcome = "partial"]
            ELSE IF f.move.kind = "file"
            THEN [done EXCEPT !.move.pc = "publish", !.move.outcome = "moved"]
            ELSE [done EXCEPT !.move.pc = "read"]
    /\ UNCHANGED <<permitted, disposed, counts, ghosts>>

LeavesTheFolder(d) == d
Abandoned(d) == IF permitted THEN RemovedDir(d, To) ELSE d
\* Nothing arrived: the folder made for it goes.
Abandon ==
    /\ f.move.pc = "abandon"
    /\ f' = [Abandoned(f) EXCEPT !.move = [Idle EXCEPT !.outcome = f.move.outcome]]
    /\ UNCHANGED <<permitted, disposed, counts, ghosts>>

\* Every listed file arrived: the old folder goes, with all that is in it.
Sweep ==
    /\ f.move.pc = "read" /\ f.move.left = {}
    /\ f' = IF permitted
            THEN [RemovedDir(f, From) EXCEPT !.move.pc = "publish", !.move.outcome = "moved"]
            ELSE [f EXCEPT !.move.pc = "publish", !.move.outcome = "partial"]
    /\ UNCHANGED <<permitted, disposed, counts, ghosts>>

\* publishFolder(), whose listing closes what it no longer names (followGrant), and
\* dropDocuments(); a session that ended meanwhile does none of it.
Publish ==
    LET walk == {p \in Path : f.disk[p].there}
        gone == {n \in Names : At(n, From) \notin walk}
    IN
    /\ f.move.pc = "publish"
    /\ f' = LET d == [f EXCEPT !.move = [Idle EXCEPT !.outcome = f.move.outcome]]
            IN  IF disposed THEN d
                ELSE [d EXCEPT !.listed = walk, !.models = @ \ gone, !.remote = @ \ gone]
    /\ UNCHANGED <<permitted, disposed, counts, ghosts>>

-----------------------------------------------------------------------------
\* The person takes the access back; another program works in the folder.

Revoke ==
    /\ permitted /\ permitted' = FALSE
    /\ UNCHANGED <<f, disposed, counts, ghosts>>

ForeignWrite(p) ==
    /\ foreign < MaxForeign /\ p[1] \in f.dirs
    /\ foreign' = foreign + 1
    /\ f' = [f EXCEPT !.disk[p] = Put(@, Theirs)]
    /\ unlooked' = unlooked \cup {p} /\ theirs' = theirs \cup {p[2]}
    /\ UNCHANGED <<permitted, disposed, asked, failures, floor, stood>>

ForeignRemove(p) ==
    /\ foreign < MaxForeign /\ f.disk[p].there
    /\ foreign' = foreign + 1
    /\ f' = Deleted(f, {p}) /\ theirs' = theirs \cup {p[2]}
    /\ UNCHANGED <<permitted, disposed, asked, failures, unlooked, floor, stood>>

-----------------------------------------------------------------------------
Moving ==
    \/ Settle \/ SettleEnded \/ Survey \/ MakeFolder \/ ReadSource \/ ProbeTarget
    \/ MakeTarget \/ UndoTarget \/ DropSource \/ Abandon \/ Sweep \/ Publish
Writes(w) == WriteCheck(w) \/ WriteReplace(w) \/ WriteRestamp(w)
Fires(n)  == WriteTimer(n) \/ SaveOnDeadline(n)

Next ==
    \/ \E n \in Names : Type(n) \/ ApplyChange(n) \/ Fires(n)
    \/ \E w \in Jobs : Writes(w) \/ WriteFails(w)
    \/ \E kind \in {"file", "folder"}, names \in SUBSET Names : AskMove(kind, names)
    \/ Moving \/ Dispose \/ Revoke
    \/ \E p \in Path : ForeignWrite(p) \/ ForeignRemove(p)

Spec == Init /\ [][Next]_vars

-----------------------------------------------------------------------------
File == [there : BOOLEAN, text : Int, stamp : Nat]
Job  == [pc : {"none", "check", "replace", "restamp"}, path : Path \cup {NoJob.path},
         text : Int, seen : Nat]
Slot == [text : Nat, again : BOOLEAN]
Outcomes == {"none", "moved", "partial", "threw", "ended", "unwritten"}
Refusals == {"unshared", "exists", "not-permitted", "missing", "stale", "not-granted"}
MovePc == {"idle", "settle", "survey", "mkdir", "read", "probe", "make", "write", "undo",
           "drop", "abandon", "publish"}
Move == [pc : MovePc, kind : {"none", "file", "folder"}, live : SUBSET Names,
         at : Names \cup {0}, awaits : BOOLEAN, left : SUBSET Names, moved : SUBSET Names,
         text : Int, outcome : Outcomes \cup Refusals]

\* What the folder holds, the page's side of it, and its two kinds of work.
Disk   == [Path -> File]
Stamps == [Path -> Nat]
Texts  == [Names -> Nat]
Table  == [Jobs -> Job]
Slots  == [Names -> Slot]
Folder ==
    [disk : Disk, stamps : Stamps, listed : SUBSET Path, dirs : SUBSET {From, To},
     text : Texts, models : SUBSET Names, timers : SUBSET Names, deadlines : SUBSET Names,
     remote : SUBSET Names, jobs : Table, slot : Slots, move : Move]

TypeOK ==
    /\ f \in Folder /\ permitted \in BOOLEAN /\ disposed \in BOOLEAN
    /\ unlooked \subseteq Path /\ theirs \subseteq Names
    /\ floor \in [Names -> Int] /\ stood \in [dir : BOOLEAN, names : SUBSET Names]

\* A document nothing is pending for is on disk as it is in the buffer, whatever
\* saves of it overlapped, failed or were folded into one another, and whether the
\* page still stands or flushed them on its way out (save(), saveOnDeadline(),
\* flushWrites()); another program's hand in the file aside.
WrittenWhenQuiet ==
    \A n \in Names \ theirs :
        /\ ~Pending(f, n) /\ (n \in f.models \/ (disposed /\ n \notin f.move.moved))
        /\ f.disk[At(n, From)].there
        => f.disk[At(n, From)].text = f.text[n]

\* A move keeps every file: at each of its steps, and however it ends, the edits
\* the document had when the last of them was written are in the file at its old
\* name or at its new one (moveEntry(), moveFile(), moveFolder()).
KeepsTheText ==
    \A n \in Names \ theirs :
        floor[n] >= 0 =>
            \E dir \in {From, To} :
                f.disk[At(n, dir)].there /\ f.disk[At(n, dir)].text >= floor[n]

\* A refused move leaves the folder as it was: neither the new name nor the folder
\* made for it stays behind, as long as the page may write.
LeavesNothing ==
    f.move.pc = "idle" /\ permitted /\ f.move.outcome \in Refusals =>
        /\ To \in f.dirs => stood.dir
        /\ \A n \in Names \ theirs : f.disk[At(n, To)].there => n \in stood.names

\* A move is a copy and a removal, and looks like neither: no step of one loses the text of a
\* file, and one that is refused leaves nothing of itself (moveEntry(), moveFile(),
\* moveFolder()).
MoveKeepsTheText == KeepsTheText /\ LeavesNothing

\* A write passes its guard only over a file the page has looked at since another
\* program wrote it, two writes of the same file and a restamp in between included
\* (write()).
NeverBlind ==
    [][\A w \in Jobs : f.jobs[w].pc = "check" /\ f'.jobs[w].pc = "replace"
                       => f.jobs[w].path \notin unlooked]_vars
=============================================================================
