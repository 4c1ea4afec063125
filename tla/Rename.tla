------------------------------- MODULE Rename -------------------------------
(***************************************************************************)
(* The requests a connection sends: display-name changes, one at a time    *)
(* (src/src/engine/relay.ts: rename, sendRename, pendingRequests).         *)
(*                                                                         *)
(* Every call of rename() is one link of a chain of promises.  It is sent  *)
(* when the call before it has settled, under an id of its own, and it is  *)
(* settled by the reply that carries the id, by its timer, or by whatever  *)
(* ends the connection.  The server answers when it likes, or refuses a    *)
(* request with a session.error that names no id.  What the server says    *)
(* waits in the relay's inbox, which outlives the connection.              *)
(***************************************************************************)
EXTENDS Naturals, FiniteSets, Sequences

CONSTANTS
    Calls,     \* the calls of rename() there are
    MaxDrops   \* bound: drops of the connection

VARIABLES
    line,      \* calls asked and not passed, in order: renamesOut is its length
    state,     \* of each call: "unasked", "waiting", "out", "settled", "passed"
    answer,    \* what its promise came to: "none", "named", "failed"
    requestId, \* the last id used; the hello's is 1
    pending,   \* pendingRequests: <<id, call>>
    inbox,     \* what the server said and the relay has not processed
    up,        \* the connection is open, seated, and its session has not ended
    ended,     \* the session has ended
    drops,     \* count for the bound
    asked,      \* the server: ids received on this connection and not answered
    accepted   \* the server: <<id, call>> of the names it took

renameVars == <<line, state, answer, requestId, pending, inbox, up, ended, drops, asked, accepted>>

RenameInit ==
    /\ line = <<>> /\ requestId = 1 /\ pending = {} /\ inbox = <<>>
    /\ state = [c \in Calls |-> "unasked"] /\ answer = [c \in Calls |-> "none"]
    /\ up = TRUE /\ ended = FALSE /\ drops = 0
    /\ asked = {} /\ accepted = {}

Faults == [kind : {"fault"}]
Replies == [kind : {"result", "error"}, id : Nat]

\* The promises of the calls cs settle, to one value.
Settle(cs, value) ==
    /\ state'  = [c \in Calls |-> IF c \in cs THEN "settled" ELSE state[c]]
    /\ answer' = [c \in Calls |-> IF c \in cs THEN value ELSE answer[c]]

\* failRequests(): everything still out.
FailRequests ==
    /\ pending' = {}
    /\ Settle({p[2] : p \in pending}, "failed")

\* A mutant of NextId: a request goes out under the id of the last.
SameId == requestId
NextId == requestId + 1

\* sendRename(): on the connection as it stands, or a refusal; a send that throws
\* settles the request at once.
Send(c) ==
    LET request == <<NextId, c>> IN
    \/ /\ up
       /\ requestId' = NextId
       /\ pending' = pending \cup {request} /\ asked' = asked \cup {request}
       /\ state' = [state EXCEPT ![c] = "out"]
       /\ UNCHANGED answer
    \/ /\ up
       /\ requestId' = NextId
       /\ Settle({c}, "failed")
       /\ UNCHANGED <<pending, asked>>
    \/ /\ ~up
       /\ Settle({c}, "failed")
       /\ UNCHANGED <<requestId, pending, asked>>

\* rename(): refused without a connection; sent at once when no call is before it.
NobodyAsks == line = <<>>

Ask(c) ==
    /\ up /\ state[c] = "unasked"
    /\ line' = Append(line, c)
    /\ IF NobodyAsks THEN Send(c)
       ELSE /\ state' = [state EXCEPT ![c] = "waiting"]
            /\ UNCHANGED <<answer, requestId, pending, asked>>
    /\ UNCHANGED <<inbox, up, ended, drops, accepted>>

\* The tail of the chain: a settled call leaves the count, answered or refused, and
\* a turn later the call behind it asks.
Passes(c) == state[c] = "settled"

TurnPasses ==
    /\ line # <<>> /\ Passes(Head(line))
    /\ line' = Tail(line)
    /\ state' = [state EXCEPT ![Head(line)] = "passed"]
    /\ UNCHANGED <<answer, requestId, pending, inbox, up, ended, drops, asked, accepted>>

TurnComes ==
    /\ line # <<>> /\ state[Head(line)] = "waiting"
    /\ Send(Head(line))
    /\ UNCHANGED <<line, inbox, up, ended, drops, accepted>>

\* The timer of one request, REQUEST_TIMEOUT_MS after it was sent.
Timeout ==
    /\ \E p \in pending :
         /\ pending' = pending \ {p}
         /\ Settle({p[2]}, "failed")
    /\ UNCHANGED <<line, requestId, inbox, up, ended, drops, asked, accepted>>

\* The server takes a name, refuses it by its id, or sinks it with a fault.
ServerAnswers ==
    /\ up
    /\ \E p \in asked :
         /\ asked' = asked \ {p}
         /\ \/ accepted' = accepted \cup {p} /\ inbox' = Append(inbox, [kind |-> "result", id |-> p[1]])
            \/ UNCHANGED accepted /\ inbox' = Append(inbox, [kind |-> "error", id |-> p[1]])
            \/ UNCHANGED accepted /\ inbox' = Append(inbox, [kind |-> "fault"])
    /\ UNCHANGED <<line, state, answer, requestId, pending, up, ended, drops>>

\* process(): a reply settles the request of its id, if that is still out; a fault
\* fails whatever is.
ProcessReply ==
    /\ inbox # <<>> /\ Head(inbox).kind # "fault"
    /\ inbox' = Tail(inbox)
    /\ LET mine == {p \in pending : p[1] = Head(inbox).id} IN
       /\ pending' = pending \ mine
       /\ Settle({p[2] : p \in mine}, IF Head(inbox).kind = "result" THEN "named" ELSE "failed")
    /\ UNCHANGED <<line, requestId, up, ended, drops, asked, accepted>>

ProcessFault ==
    /\ inbox # <<>> /\ Head(inbox).kind = "fault"
    /\ inbox' = Tail(inbox)
    /\ FailRequests
    /\ UNCHANGED <<line, requestId, up, ended, drops, asked, accepted>>

\* onClose() fails what is out; a re-seat opens the connection again.
ConnectionDrops ==
    /\ up /\ drops < MaxDrops
    /\ drops' = drops + 1 /\ up' = FALSE
    /\ FailRequests
    /\ asked' = {}
    /\ UNCHANGED <<line, requestId, inbox, ended, accepted>>

Reseated ==
    /\ ~up /\ ~ended
    /\ up' = TRUE
    /\ UNCHANGED <<line, state, answer, requestId, pending, inbox, ended, drops, asked, accepted>>

\* endWith() and disconnect().
End ==
    /\ ~ended /\ ended' = TRUE /\ up' = FALSE
    /\ FailRequests
    /\ asked' = {}
    /\ UNCHANGED <<line, requestId, inbox, drops, accepted>>

RenameNext ==
    \/ \E c \in Calls : Ask(c)
    \/ TurnPasses \/ TurnComes \/ Timeout
    \/ ServerAnswers \/ ProcessReply \/ ProcessFault
    \/ ConnectionDrops \/ Reseated \/ End

\* Promises settle in turn, the inbox is drained, and an armed timer fires.
RenameFairness ==
    /\ WF_renameVars(TurnPasses) /\ WF_renameVars(TurnComes) /\ WF_renameVars(Timeout)
    /\ WF_renameVars(ProcessReply) /\ WF_renameVars(ProcessFault)

RenameSpec == RenameInit /\ [][RenameNext]_renameVars /\ RenameFairness

-----------------------------------------------------------------------------
RequestsTypeOK ==
    /\ line \in Seq(Calls)
    /\ state \in [Calls -> {"unasked", "waiting", "out", "settled", "passed"}]
    /\ answer \in [Calls -> {"none", "named", "failed"}]
    /\ requestId \in Nat \ {0}
    /\ pending \subseteq Nat \X {c \in Calls : state[c] = "out"}
    /\ inbox \in Seq(Faults \cup Replies)
    /\ up \in BOOLEAN /\ ended \in BOOLEAN /\ drops \in Nat
    /\ asked \subseteq Nat \X Calls /\ accepted \subseteq Nat \X Calls

\* One request is out at a time, whoever asks meanwhile: rename() "waits for it to settle
\* ... and only then asks" (relay.ts:855).  And a call that says the name was taken was
\* answered itself: no reply to another call, or to another connection, settles it.
AnsweredInTurn ==
    /\ Cardinality(pending) <= 1
    /\ \A c \in Calls : answer[c] = "named" => \E p \in accepted : p[2] = c

\* A call always comes to an answer, whatever the server and the connection do: it
\* "cannot promise what only an answer can know", and "a reply that never comes
\* frees itself".
EveryCallIsAnswered == \A c \in Calls : state[c] # "unasked" ~> answer[c] # "none"
=============================================================================
