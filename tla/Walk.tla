-------------------------------- MODULE Walk --------------------------------
(***************************************************************************)
(* The listing of a shared folder (src/bridge/listing-walk.ts) by the      *)
(* names and the ignore files that keep a file out of it (Ignore), and the *)
(* same question asked of one path a peer named (src/browser/folder.ts,    *)
(* read and governingIgnores).  The folder does not change under the walk. *)
(***************************************************************************)
EXTENDS Ignore, FiniteSets

CONSTANTS
    Places,         \* the paths the folder may hold
    NameOrder,      \* the names, in the order they sort
    Excluded,       \* names of folders no room shares
    Secret,         \* names of files no room shares
    BinaryNames,    \* names that declare a format a room cannot carry
    Folders         \* the folders it may be, with the bounds of the walk, see Init

Parent(p) == Front(p)
Precedes(m, n) == \E i, j \in DOMAIN NameOrder : i < j /\ NameOrder[i] = m /\ NameOrder[j] = n

\* What a folder that is walked holds: a tree, with its root there to walk.
IsFolder(f) ==
    /\ f.kind \in [Places -> {"file", "directory", "other", "none"}]
    /\ \A p \in Places : \A d \in Above(p) \ {Root} : f.kind[p] # "none" => f.kind[d] = "directory"
    /\ Root \notin f.gone
    /\ f.most \in [paths : Nat, bytes : Nat, nodes : Nat]

ASSUME WalkAssumption ==
    /\ NameOrder \in Seq({NameOrder[i] : i \in DOMAIN NameOrder})
    /\ \A i, j \in DOMAIN NameOrder : NameOrder[i] = NameOrder[j] => i = j
    /\ \A p \in Places : /\ p \in Seq({NameOrder[i] : i \in DOMAIN NameOrder}) \ {Root}
                         /\ Above(p) \ {Root} \subseteq Places
    /\ \A f \in Folders : IsFolder(f)

-----------------------------------------------------------------------------
(* The names.                                                              *)

\* isGrantedPath, isBinaryNamedPath.
IsGranted(p) == Leaf(p) \notin Secret /\ \A i \in 1..Len(p) : p[i] \notin Excluded
IsBinaryNamed(p) == Leaf(p) \in BinaryNames

-----------------------------------------------------------------------------
(* The folder.                                                             *)

VARIABLES
    kind,       \* what each place is: "file", "directory", "other" or "none"
    rules,      \* the patterns of each directory's .gitignore
    exclude,    \* those of .git/info/exclude
    unread,     \* directories this host cannot list
    gone,       \* those that cannot be reached when the walk comes to them
    unfit,      \* files it will not carry
    most,       \* the bounds of a listing and the work a walk may spend: [paths, bytes, nodes]
    call,       \* the directory about to be walked and what governs it, or NoCall
    stack,      \* the walks under way: [dir, left, ignores], the deepest last; left are the
                \* names it has still to come to
    paths, entered, bytes, nodes, cut  \* WalkState; cut is "none" until a bound stops it

walkFolder == <<kind, rules, exclude, unread, gone, unfit, most>>
found == <<paths, entered, bytes, nodes, cut>>
walkVars == <<walkFolder, call, stack, found>>

NoCall == [dir |-> <<"-">>, inherited |-> <<>>]
EntriesOf(dir) == {Leaf(p) : p \in {q \in Places : Parent(q) = dir /\ kind[q] # "none"}}

\* A directory that holds no ignore file has one of no patterns.
SourceOf(dir) == [dir |-> dir, patterns |-> rules[dir]]
RootSources == <<[dir |-> Root, patterns |-> exclude]>>

\* governingIgnores: read for one path, from the folder down to the directory that holds it,
\* as far down as can be read.
Governing(p) ==
    LET depth == Cardinality({n \in 0..(Len(p) - 1) :
                                \A m \in 0..n : SubSeq(p, 1, m) \notin unread \cup gone})
    IN  (IF Root \in unread THEN <<>> ELSE RootSources)
            \o [i \in 1..depth |-> SourceOf(SubSeq(p, 1, i - 1))]

\* read: whether a path a peer names is served, as far as its name, the folder's ignore files
\* and its size decide.
Served(p) ==
    /\ IsGranted(p) /\ kind[p] = "file"
    /\ ~IsIgnored(Governing(p), p, FALSE)
    /\ p \notin unfit

-----------------------------------------------------------------------------
(* The walk.                                                               *)

Done == call = NoCall /\ stack = <<>>
Walking == call = NoCall /\ stack # <<>>
Top == Last(stack)

\* The entries are sorted by name.
First(left) == CHOOSE n \in left : \A m \in left \ {n} : Precedes(n, m)
Child == Append(Top.dir, First(Top.left))
Onward == [stack EXCEPT ![Len(stack)].left = @ \ {First(@)}]
Stops(bound) == cut' = bound /\ call' = NoCall /\ stack' = <<>>

OwnIgnores(dir, inherited) == <<SourceOf(dir)>> \o (IF dir = Root THEN RootSources ELSE inherited)
\* What governs the entries of a directory: its own file last.
Ignores(dir, inherited) == (IF dir = Root THEN RootSources ELSE inherited) \o <<SourceOf(dir)>>

\* walk: entering a directory is a read, and a read is paid for.  One that cannot be listed
\* is skipped.
Enter ==
    /\ call # NoCall
    /\ nodes > 0
    /\ nodes' = nodes - 1
    /\ call' = NoCall
    /\ stack' = IF call.dir \in unread THEN stack
                ELSE Append(stack, [dir |-> call.dir, left |-> EntriesOf(call.dir),
                                    ignores |-> Ignores(call.dir, call.inherited)])
    /\ UNCHANGED <<walkFolder, paths, entered, bytes, cut>>

\* The budget is spent before a directory, or before a candidate's check.
Candidate ==
    /\ Walking /\ Top.left # {}
    /\ IsGranted(Child)
    /\ ~IsIgnored(Top.ignores, Child, kind[Child] = "directory")
Offered == Candidate /\ kind[Child] = "file" /\ ~IsBinaryNamed(Child)
OutOfNodes ==
    /\ nodes = 0 /\ (call # NoCall \/ Offered)
    /\ Stops("budget")
    /\ UNCHANGED <<walkFolder, paths, entered, bytes, nodes>>

\* Dropped by its name or its type: it costs nothing.
Drop ==
    /\ Walking /\ Top.left # {} /\ ~Offered
    /\ Candidate => kind[Child] # "directory"
    /\ stack' = Onward
    /\ UNCHANGED <<walkFolder, call, found>>

\* A directory is entered, and may be gone by then.
Descend ==
    /\ Candidate /\ kind[Child] = "directory"
    /\ entered' = entered \cup {Child}
    /\ stack' = Onward
    /\ call' = IF Child \in gone THEN NoCall ELSE [dir |-> Child, inherited |-> Top.ignores]
    /\ UNCHANGED <<walkFolder, paths, bytes, nodes, cut>>

\* A file this host will not carry has cost its check.
Decline ==
    /\ Offered /\ nodes > 0 /\ Child \in unfit
    /\ nodes' = nodes - 1 /\ stack' = Onward
    /\ UNCHANGED <<walkFolder, call, paths, entered, bytes, cut>>

\* listingBound, on a file the walk would have named.
Size(p) == Len(FlattenSeq(p)) + Len(p) - 1
Bound(p) ==
    IF Cardinality(paths) >= most.paths THEN "paths"
    ELSE IF bytes + Size(p) > most.bytes THEN "bytes" ELSE "none"
Lists ==
    /\ Offered /\ nodes > 0 /\ Child \notin unfit
    /\ nodes' = nodes - 1
    /\ \/ /\ Bound(Child) = "none"
          /\ paths' = paths \cup {Child} /\ bytes' = bytes + Size(Child)
          /\ stack' = Onward
          /\ UNCHANGED <<call, cut>>
       \/ /\ Bound(Child) # "none"
          /\ Stops(Bound(Child))
          /\ UNCHANGED <<paths, bytes>>
    /\ UNCHANGED <<walkFolder, entered>>

\* A directory's entries are done.
Return ==
    /\ Walking /\ Top.left = {}
    /\ stack' = Front(stack)
    /\ UNCHANGED <<walkFolder, call, found>>

InitOf(f) ==
    /\ kind = f.kind /\ rules = f.rules /\ exclude = f.exclude
    /\ unread = f.unread /\ gone = f.gone /\ unfit = f.unfit
    /\ most = f.most /\ nodes = f.most.nodes
    /\ call = [dir |-> Root, inherited |-> <<>>] /\ stack = <<>>
    /\ paths = {} /\ entered = {} /\ bytes = 0 /\ cut = "none"
WalkInit == \E f \in Folders : InitOf(f)

WalkNext == Enter \/ OutOfNodes \/ Drop \/ Descend \/ Decline \/ Lists \/ Return

WalkSpec == WalkInit /\ [][WalkNext]_walkVars

-----------------------------------------------------------------------------
(* Properties.                                                             *)

\* The places a walk can come to: every folder on the way can be listed, and the names of all
\* of them are shared.
Reached(p) == Above(p) \cap (unread \cup gone) = {} /\ \A d \in Above(p) \ {Root} : IsGranted(d)
Listable(p) == Served(p) /\ ~IsBinaryNamed(p) /\ Reached(p)
Enterable(d) ==
    kind[d] = "directory" /\ IsGranted(d) /\ Reached(d) /\ ~IsIgnored(Governing(d), d, TRUE)

\* p is visited before q: the names they part at are in order.
Before(p, q) ==
    \E i \in 1..Len(p) :
        /\ i <= Len(q) /\ SubSeq(p, 1, i - 1) = SubSeq(q, 1, i - 1)
        /\ Precedes(p[i], q[i])

\* The two gates agree.  The walk carries the ignore files down with it and never comes into
\* an ignored folder; a read collects them for its path and asks of every folder on the way.
\* A walk that no bound stopped lists exactly what a read would serve, of what it can come
\* to, and has entered every folder of it; one that was stopped has the first of it, in the
\* order of the names, and stopped only where the next file did not fit (walkListing, read).
ListingIsTheFolder ==
    Done =>
        LET all == {p \in Places : Listable(p)} IN
        /\ paths \subseteq all
        /\ \A q \in paths, p \in all : Before(p, q) => p \in paths
        /\ cut = "none" => paths = all /\ entered = {d \in Places : Enterable(d)}
        /\ cut \in {"paths", "bytes"} =>
               \E p \in all \ paths : \/ Cardinality(paths) = most.paths
                                      \/ bytes + Size(p) > most.bytes
=============================================================================
