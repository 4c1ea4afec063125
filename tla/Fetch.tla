------------------------------- MODULE Fetch --------------------------------
(***************************************************************************)
(* A file saved out of the room (src/src/browser/fetch-download.ts,        *)
(* startDownload() of main.ts, the row's feedback of tree-view.ts and the  *)
(* toasts of notice.ts).  A window that holds the room's answer saves its  *)
(* own copy; one that does not asks, waits, and saves what came.           *)
(*                                                                         *)
(* The row's progress and its sentence are kept by path, and several       *)
(* fetches of a path, the timers of its sentences and the end of the       *)
(* session meet in them.                                                   *)
(***************************************************************************)
EXTENDS Naturals, Sequences

CONSTANTS
    Paths,
    MaxPolls,     \* the stand, in polls of POLL_MS
    MaxPresses,   \* bound: what the person presses
    MaxChanges,   \* bound: what the room does to the documents
    MaxSessions,  \* bound: sessions one after the other
    Nothing       \* no document, no sentence

VARIABLES
    session,
    document,    \* what this window holds: nothing, an empty text or one with something in it
    fetches,     \* the fetches under way
    row,         \* of each path: is it busy, and the sentence that stands under it
    costs,       \* the timers that take the cost sentence down
    toasts,      \* the toasts queued, oldest first
    saidFetchCosts,
    written,     \* history: the last file saved, and what it was saved for
    presses, changes

fetchVars == <<session, document, fetches, row, costs, toasts, saidFetchCosts, written, presses,
               changes>>

Texts == {"empty", "text"}
ASSUME FetchAssumption == Nothing \notin Texts

Bare == [busy |-> FALSE, note |-> Nothing]
NoFile == [path |-> Nothing, text |-> Nothing, by |-> Nothing]

FetchInit ==
    /\ session = 1 /\ document = [p \in Paths |-> Nothing] /\ fetches = {}
    /\ row = [p \in Paths |-> Bare] /\ costs = {} /\ toasts = <<>>
    /\ saidFetchCosts = FALSE /\ written = NoFile
    /\ presses = 0 /\ changes = 0

Active(r) == r.session = session
Has(p)    == document[p] # Nothing

-----------------------------------------------------------------------------
\* The row's feedback: note() replaces what stands, clear() takes down its own words.
Busy(w)     == [w EXCEPT !.busy = TRUE]
NotBusy(w)  == [w EXCEPT !.busy = FALSE]
Note(w, n)  == [w EXCEPT !.note = n]
\* A mutant of Clear: the timer takes down whatever stands.
ClearsAny(w, n) == Note(w, Nothing)

Clear(w, n) == IF w.note = n THEN Note(w, Nothing) ELSE w

Downloaded(p) == toasts' = Append(toasts, [path |-> p, session |-> session])

\* What a fetch comes to, in the session it was begun in: over a row that reads w.
Concludes(r, w, outcome) ==
    IF ~Active(r) THEN UNCHANGED <<row, toasts>>
    ELSE IF outcome = "saved"
         THEN row' = [row EXCEPT ![r.path] = NotBusy(w)] /\ Downloaded(r.path)
         ELSE row' = [row EXCEPT ![r.path] = Note(NotBusy(w), outcome)] /\ UNCHANGED toasts

\* A save the browser may not take; one of a session that is over is not made.
SaveNow(r, w, by) ==
    \/ /\ written' = IF Active(r) THEN [path |-> r.path, text |-> document[r.path], by |-> by]
                     ELSE written
       /\ Concludes(r, w, "saved")
    \/ Concludes(r, w, "failed") /\ UNCHANGED written

\* The answer is the document, whatever is in it; silence is no answer.
Outcome(r) ==
    CASE ~Has(r.path) -> Concludes(r, row[r.path], "pending") /\ UNCHANGED written
      [] document[r.path] = "empty" -> Concludes(r, row[r.path], "empty") /\ UNCHANGED written
      [] OTHER -> SaveNow(r, row[r.path], "fetch")

Others(r) == fetches \ {r}
Over(r)   == fetches' = Others(r)

-----------------------------------------------------------------------------
Presses == presses < MaxPresses /\ presses' = presses + 1

\* A copy that is here is saved as it stands; another is asked for, and the cost of that is
\* said once a session.
StartDownload(p, w) ==
    LET r == [path |-> p, session |-> session, id |-> presses', opened |-> FALSE, polls |-> 0]
    IN  IF Has(p)
        THEN SaveNow(r, w, "held") /\ UNCHANGED <<fetches, costs, saidFetchCosts>>
        ELSE /\ fetches' = fetches \cup {r}
             /\ row' = [row EXCEPT ![p] = Busy(IF saidFetchCosts THEN w ELSE Note(w, "costs"))]
             /\ costs' = IF saidFetchCosts THEN costs ELSE costs \cup {r}
             /\ saidFetchCosts' = TRUE
             /\ UNCHANGED <<toasts, written>>

Download(p) == Presses /\ StartDownload(p, row[p]) /\ UNCHANGED <<session, document, changes>>

TryAgain(p) ==
    /\ Presses /\ row[p].note \in {"failed", "pending", "empty"}
    /\ StartDownload(p, Note(row[p], Nothing))
    /\ UNCHANGED <<session, document, changes>>

SaveEmpty(p) ==
    /\ Presses /\ row[p].note = "empty"
    /\ row' = [row EXCEPT ![p] = Note(@, Nothing)]
    /\ written' = [path |-> p, text |-> "empty", by |-> "offer"]
    /\ Downloaded(p)
    /\ UNCHANGED <<session, document, fetches, costs, saidFetchCosts, changes>>

Dismiss(p) ==
    /\ Presses /\ row[p].note \in {"pending", "empty"}
    /\ row' = [row EXCEPT ![p] = Note(@, Nothing)]
    /\ UNCHANGED <<session, document, fetches, costs, toasts, saidFetchCosts, written, changes>>

-----------------------------------------------------------------------------
\* The ask is answered by the engine, and the stand is polled through.
Opened(r) ==
    /\ ~r.opened
    /\ IF Has(r.path) THEN Outcome(r) /\ Over(r)
       ELSE /\ fetches' = Others(r) \cup {[r EXCEPT !.opened = TRUE]}
            /\ UNCHANGED <<row, toasts, written>>

OpenFails(r) == ~r.opened /\ Concludes(r, row[r.path], "failed") /\ Over(r) /\ UNCHANGED written

Poll(r) ==
    /\ r.opened
    /\ IF Has(r.path) \/ r.polls + 1 >= MaxPolls THEN Outcome(r) /\ Over(r)
       ELSE /\ fetches' = Others(r) \cup {[r EXCEPT !.polls = @ + 1]}
            /\ UNCHANGED <<row, toasts, written>>

Fetches ==
    /\ \E r \in fetches : Opened(r) \/ OpenFails(r) \/ Poll(r)
    /\ UNCHANGED <<session, document, costs, saidFetchCosts, presses, changes>>

CostsTimer(r) ==
    /\ r \in costs /\ costs' = costs \ {r}
    /\ row' = IF Active(r) THEN [row EXCEPT ![r.path] = Clear(@, "costs")] ELSE row
    /\ UNCHANGED <<session, document, fetches, toasts, saidFetchCosts, written, presses, changes>>

\* Toasts all stand as long: the oldest goes first.
ToastEnds ==
    /\ toasts # <<>> /\ toasts' = Tail(toasts)
    /\ UNCHANGED <<session, document, fetches, row, costs, saidFetchCosts, written, presses, changes>>

-----------------------------------------------------------------------------
\* The room: its answer for a path, and what its writers make of the text.
DocumentChanges(p, content) ==
    /\ changes < MaxChanges /\ changes' = changes + 1
    /\ document[p] # content /\ document' = [document EXCEPT ![p] = content]
    /\ UNCHANGED <<session, fetches, row, costs, toasts, saidFetchCosts, written, presses>>

\* The person leaves for another room: its tree has rows of its own, and what the last one
\* began goes on with nothing to say to it.
Leaves ==
    /\ session < MaxSessions /\ session' = session + 1
    /\ document' = [p \in Paths |-> Nothing] /\ row' = [p \in Paths |-> Bare]
    /\ saidFetchCosts' = FALSE
    /\ UNCHANGED <<fetches, costs, toasts, written, presses, changes>>

FetchNext ==
    \/ \E p \in Paths : Download(p) \/ TryAgain(p) \/ SaveEmpty(p) \/ Dismiss(p)
    \/ Fetches \/ ToastEnds \/ \E r \in costs : CostsTimer(r)
    \/ \E p \in Paths, content \in Texts : DocumentChanges(p, content)
    \/ Leaves

\* Requests are answered or fail, and polls come round.
FetchFairness == WF_fetchVars(Fetches)

FetchSpec == FetchInit /\ [][FetchNext]_fetchVars /\ FetchFairness

-----------------------------------------------------------------------------
Row == [busy : BOOLEAN, note : {Nothing, "costs", "failed", "pending", "empty"}]
Request == [path : Paths, session : Nat, id : Nat, opened : BOOLEAN, polls : Nat]

FetchTypeOK ==
    /\ session \in Nat /\ document \in [Paths -> Texts \cup {Nothing}]
    /\ fetches \subseteq Request /\ row \in [Paths -> Row] /\ costs \subseteq Request
    /\ toasts \in Seq([path : Paths, session : Nat]) /\ saidFetchCosts \in BOOLEAN
    /\ written \in [path : Paths \cup {Nothing}, text : Texts \cup {Nothing},
                    by : {Nothing, "fetch", "held", "offer"}]
    /\ presses \in Nat /\ changes \in Nat

Outcomes == {"failed", "pending", "empty"}

\* A row is busy for a fetch of its path that is under way.
BusyIsAsked == \A p \in Paths : row[p].busy => \E r \in fetches : Active(r) /\ r.path = p

\* The sentence an outcome left, with the acts in it, goes when the person takes it down, the
\* outcome of another fetch replaces it, or the session ends; never because time passed
\* (startDownload's timer, the comment at main.ts 2322).
OutcomeStands ==
    [][\A p \in Paths :
         row[p].note \in Outcomes /\ row'[p].note # row[p].note
           => \/ presses' # presses
              \/ session' # session
              \/ \E r \in fetches : r.path = p /\ Active(r) /\ r \notin fetches']_fetchVars

\* What is saved for a fetch is text the room holds now, and nothing is written in its name
\* while the room has not answered or has answered with no text (the comment of startDownload
\* at main.ts 2306).
SavesTheAnswer ==
    [][written' # written /\ written'.by = "fetch"
         => document[written'.path] = "text" /\ written'.text = "text"]_fetchVars

\* A download saves the room's answer and nothing else, its outcome stands until the person
\* or another outcome takes it down, and its row is busy only while it is asked for.
DownloadIsTheAnswer == []BusyIsAsked /\ OutcomeStands /\ SavesTheAnswer

\* Every wait ends: the row does not stay busy.
WaitsEnd == \A p \in Paths : row[p].busy ~> ~row[p].busy
=============================================================================
