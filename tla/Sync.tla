-------------------------------- MODULE Sync --------------------------------
(***************************************************************************)
(* What the replicas of a room's writers come to (src/src/engine/peer.ts,  *)
(* PeerSession, and sync.ts), over a server that passes frames on in one   *)
(* order and keeps nothing, while connections drop.                        *)
(*                                                                         *)
(* A connection has a key.  A state of the host commits keys, and a frame  *)
(* whose key the receiver's applied state does not commit is refused.      *)
(* Content is sent once: what a drop loses comes back only by the requests *)
(* peers send each other.  A client's edits are numbered, and one is in    *)
(* the text when those before it are; a state vector is the text's length. *)
(* Tasks of the serial queue, seals, roles and the pacing of requests are  *)
(* Peer's, the host's publications Host's: here the host is never away.    *)
(***************************************************************************)
EXTENDS Naturals, Sequences, FiniteSets, FiniteSetsExt, SequencesExt

CONSTANTS
    Clients,    \* the writers, besides the host
    MaxEdits,   \* bound: edits, of all clients together
    MaxDrops    \* bound: drops, of all clients together

ASSUME SyncAssumption == MaxEdits \in Nat /\ MaxDrops \in Nat /\ "host" \notin Clients

VARIABLES
    up, conn,    \* the connection a client has, and its number
    known,       \* the state it applied: [edition, keys]
    docs,        \* its replica: edits it has
    heldBack,    \* edits of its own that are held back
    handshaken, refused, answered, pending,   \* why it asks, and whom it answered by asking
    announced,   \* the last connection it announced
    out,         \* frames queued for its socket
    inbox,       \* frames on the way to it, and those it has not processed
    host,        \* external: [edition, keys, heard, owes]
    drops

session  == <<up, conn, known, announced>>
texts    == <<docs, heldBack>>
asks     == <<handshaken, refused, answered, pending>>
traffic  == <<out, inbox>>
syncVars == <<session, texts, asks, traffic, host, drops>>

Key(c) == <<c, conn[c]>>

\* Every client is seated and committed, and has asked: a first seat is like a re-seat.
SyncInit ==
    /\ up = [c \in Clients |-> TRUE] /\ conn = [c \in Clients |-> 1]
    /\ known = [c \in Clients |-> [edition |-> 1, keys |-> Clients \X {1}]]
    /\ announced = [c \in Clients |-> 1]
    /\ docs = [c \in Clients |-> {}] /\ heldBack = [c \in Clients |-> {}]
    /\ handshaken = [c \in Clients |-> TRUE] /\ refused = [c \in Clients |-> FALSE]
    /\ answered = [c \in Clients |-> (Clients \ {c}) \X {1}] /\ pending = [c \in Clients |-> {}]
    /\ out = [c \in Clients |-> <<>>] /\ inbox = [c \in Clients |-> <<>>]
    /\ host = [edition |-> 1, keys |-> Clients \X {1}, heard |-> {}, owes |-> FALSE]
    /\ drops = 0

-----------------------------------------------------------------------------
\* The library: what a replica has in its text, its vector, and what it has beyond one.

Vector(d) == [c \in Clients |-> Max({n \in 0..MaxEdits : \A k \in 1..n : <<c, k>> \in d})]
Beyond(d, vector) == {e \in d : e[2] > vector[e[1]]}

\* Edits are numbered by the client that made them, on every connection alike.
Made(c) == Cardinality({e \in docs[c] : e[1] = c})

CanPublish(c) == up[c] /\ Key(c) \in known[c].keys
Owes(c) == ~handshaken[c] \/ refused[c] \/ pending[c] # {}

Frame(c, what) == [from |-> Key(c), what |-> what]
Update(c, edits) == [from |-> Key(c), what |-> "update", edits |-> edits]
Step1(c, d) == [from |-> Key(c), what |-> "step1", vector |-> Vector(d)]

\* syncStep1(): one request that is queued serves every cause there is.
Asked(c) ==
    /\ handshaken' = [handshaken EXCEPT ![c] = TRUE]
    /\ refused' = [refused EXCEPT ![c] = FALSE]
    /\ pending' = [pending EXCEPT ![c] = {}]

-----------------------------------------------------------------------------
\* A client.

Reannounce(c) ==
    /\ up[c] /\ ~CanPublish(c) /\ announced[c] < conn[c]
    /\ announced' = [announced EXCEPT ![c] = conn[c]]
    /\ out' = [out EXCEPT ![c] = Append(@, Frame(c, "announcement"))]
    /\ UNCHANGED <<up, conn, known, texts, asks, inbox, host, drops>>

PublishEdit(c) ==
    /\ Cardinality(UNION {docs[d] : d \in Clients}) < MaxEdits
    /\ LET e == <<c, Made(c) + 1>> IN
       /\ docs' = [docs EXCEPT ![c] = @ \cup {e}]
       /\ IF CanPublish(c)
          THEN out' = [out EXCEPT ![c] = Append(@, Update(c, {e}))] /\ UNCHANGED heldBack
          ELSE heldBack' = [heldBack EXCEPT ![c] = @ \cup {e}] /\ UNCHANGED out
    /\ UNCHANGED <<session, asks, inbox, host, drops>>

Resyncs(c) ==
    /\ Owes(c) /\ CanPublish(c)
    /\ out' = [out EXCEPT ![c] = Append(@, Step1(c, docs[c]))]
    /\ Asked(c)
    /\ UNCHANGED <<session, texts, answered, inbox, host, drops>>

\* A state above the one held: it may commit this client's key, and then its handshake goes out,
\* and after it the edits that were held back.
ApplyState(c, f) ==
    LET committed == up[c] /\ Key(c) \in f.keys
        request == IF handshaken[c] THEN <<>> ELSE <<Step1(c, docs[c])>>
        flush == IF heldBack[c] = {} THEN <<>> ELSE <<Update(c, heldBack[c])>>
    IN  /\ known' = [known EXCEPT ![c] = [edition |-> f.edition, keys |-> f.keys]]
        /\ IF committed
           THEN /\ out' = [out EXCEPT ![c] = @ \o request \o flush]
                /\ heldBack' = [heldBack EXCEPT ![c] = {}]
           ELSE UNCHANGED <<out, heldBack>>
        /\ IF committed /\ ~handshaken[c]
           THEN Asked(c) ELSE UNCHANGED <<handshaken, refused, pending>>
        /\ UNCHANGED <<docs, answered>>

\* armReciprocal(): the first request of a key is answered by one of this client's own.
Arms(c, key) ==
    IF key \in answered[c] THEN UNCHANGED <<answered, pending>>
    ELSE /\ answered' = [answered EXCEPT ![c] = @ \cup {key}]
         /\ pending' = [pending EXCEPT ![c] = @ \cup {key}]

ApplyStep1(c, f) ==
    /\ Arms(c, f.from)
    /\ out' = IF CanPublish(c)
              THEN [out EXCEPT ![c] = Append(@, Update(c, Beyond(docs[c], f.vector)))] ELSE out
    /\ UNCHANGED <<known, texts, handshaken, refused>>

ApplyUpdate(c, f) ==
    /\ docs' = [docs EXCEPT ![c] = @ \cup f.edits]
    /\ UNCHANGED <<known, heldBack, asks, out>>

\* The inbox is processed also while the socket is down.
Deliver(c) ==
    /\ inbox[c] # <<>>
    /\ inbox' = [inbox EXCEPT ![c] = Tail(@)]
    /\ LET f == Head(inbox[c]) IN
       \/ /\ f.what = "state"
          /\ IF f.edition > known[c].edition THEN ApplyState(c, f)
             ELSE UNCHANGED <<known, texts, asks, out>>
       \/ /\ f.what # "state" /\ f.from \notin known[c].keys
          /\ refused' = [refused EXCEPT ![c] = TRUE]
          /\ UNCHANGED <<known, texts, handshaken, answered, pending, out>>
       \/ f.what = "step1" /\ f.from \in known[c].keys /\ ApplyStep1(c, f)
       \/ f.what = "update" /\ f.from \in known[c].keys /\ ApplyUpdate(c, f)
    /\ UNCHANGED <<up, conn, announced, host, drops>>

\* detach(): what the socket left queued goes with it, and the last of what was on its way here.
Drop(c) ==
    /\ up[c] /\ drops < MaxDrops /\ drops' = drops + 1
    /\ up' = [up EXCEPT ![c] = FALSE]
    /\ out' = [out EXCEPT ![c] = <<>>]
    /\ \E k \in 0..Len(inbox[c]) : inbox' = [inbox EXCEPT ![c] = SubSeq(@, 1, k)]
    /\ UNCHANGED <<conn, known, announced, texts, asks, host>>

\* A re-seat that takes the request of the connection before for its own.
KeepsTheHandshake(c) ==
    /\ refused' = [refused EXCEPT ![c] = FALSE]
    /\ answered' = [answered EXCEPT ![c] = {}]
    /\ pending' = [pending EXCEPT ![c] = {}]
    /\ UNCHANGED handshaken
Cleared(c) ==
    /\ handshaken' = [handshaken EXCEPT ![c] = FALSE]
    /\ refused' = [refused EXCEPT ![c] = FALSE]
    /\ answered' = [answered EXCEPT ![c] = {}]
    /\ pending' = [pending EXCEPT ![c] = {}]

Reconnects(c) ==
    /\ ~up[c]
    /\ up' = [up EXCEPT ![c] = TRUE] /\ conn' = [conn EXCEPT ![c] = @ + 1]
    /\ Cleared(c)
    /\ host' = [host EXCEPT !.owes = TRUE]
    /\ UNCHANGED <<known, announced, texts, traffic, drops>>

-----------------------------------------------------------------------------
\* The server and the host.

Broadcast(f, from) ==
    inbox' = [d \in Clients |-> IF up[d] /\ d # from THEN Append(inbox[d], f) ELSE inbox[d]]

DrainOutbound(c) ==
    /\ up[c] /\ out[c] # <<>>
    /\ out' = [out EXCEPT ![c] = Tail(@)]
    /\ LET f == Head(out[c]) IN
       IF f.what = "announcement"
       THEN /\ host' = [host EXCEPT !.heard = @ \cup {f.from}, !.owes = TRUE]
            /\ UNCHANGED inbox
       ELSE Broadcast(f, c) /\ UNCHANGED host
    /\ UNCHANGED <<session, texts, asks, drops>>

HostPublishes ==
    /\ host.owes
    /\ LET keys == host.keys \cup host.heard
           edition == host.edition + 1
       IN  /\ host' = [edition |-> edition, keys |-> keys, heard |-> {}, owes |-> FALSE]
           /\ Broadcast([what |-> "state", edition |-> edition, keys |-> keys], "host")
    /\ UNCHANGED <<session, texts, asks, out, drops>>

SyncNext ==
    \/ HostPublishes
    \/ \E c \in Clients :
          \/ Reannounce(c) \/ PublishEdit(c) \/ Resyncs(c) \/ Deliver(c)
          \/ Drop(c) \/ Reconnects(c) \/ DrainOutbound(c)

SyncSpec == SyncInit /\ [][SyncNext]_syncVars

-----------------------------------------------------------------------------
\* A client and a number from one on: its connections' keys, and its edits.
Numbered == Clients \X (Nat \ {0})
Said ==
    [from : Numbered, what : {"announcement"}]
    \cup [from : Numbered, what : {"update"}, edits : SUBSET Numbered]
    \cup [from : Numbered, what : {"step1"}, vector : [Clients -> Nat]]
State == [what : {"state"}, edition : Nat, keys : SUBSET Numbered]

\* What each variable is.
ReplicasTypeOK ==
    /\ up \in [Clients -> BOOLEAN] /\ conn \in [Clients -> Nat \ {0}]
    /\ known \in [Clients -> [edition : Nat, keys : SUBSET Numbered]]
    /\ announced \in [Clients -> Nat] /\ drops \in Nat
    /\ docs \in [Clients -> SUBSET Numbered] /\ heldBack \in [Clients -> SUBSET Numbered]
    /\ handshaken \in [Clients -> BOOLEAN] /\ refused \in [Clients -> BOOLEAN]
    /\ answered \in [Clients -> SUBSET Numbered] /\ pending \in [Clients -> SUBSET Numbered]
    /\ out \in [Clients -> Seq(Said)] /\ inbox \in [Clients -> Seq(Said \cup State)]
    /\ host \in [edition : Nat, keys : SUBSET Numbered, heard : SUBSET Numbered, owes : BOOLEAN]

Quiet ==
    /\ ~host.owes
    /\ \A c \in Clients :
          /\ CanPublish(c) /\ ~Owes(c) /\ heldBack[c] = {}
          /\ out[c] = <<>> /\ inbox[c] = <<>>

\* When every client is seated and committed, nothing is on its way and nothing is owed, every
\* replica has every edit that was made, whatever was lost: an edit that was in a frame when its
\* socket dropped is in nobody's held-back set (detach).
QuietReplicasAgree == Quiet => \A c, d \in Clients : docs[c] = docs[d]
=============================================================================
