------------------------------- MODULE Reader -------------------------------
(***************************************************************************)
(* A receiver's byte layer (src/src/engine/sealed.ts): what it keeps of    *)
(* the frames it accepted, and the verdict on the next one.                *)
(*                                                                         *)
(* A frame is what its bytes say: whole says that they are an envelope,    *)
(* signer is the key its signature verifies under, sealed that the room's  *)
(* frame key opens it with the associated data of its fields, and load     *)
(* what the plaintext is.  A key id is an index: two keys may share one.   *)
(* Keys are numbers in the order of their spellings.  A signature verifies *)
(* under one key at most, so the keys an id names are tried in any order.  *)
(***************************************************************************)
EXTENDS Naturals, FiniteSets

CONSTANTS
    Keys,      \* session keys, naturals
    HostKey,   \* the key the invite's fragment names
    IdOf,      \* keyId(): the id of each key, the host's included
    Usable,    \* the paths usablePath() keeps
    Wire       \* the frames that can arrive, by number, in any order and any number of times

Kinds == 0..4
Stream == 0   State == 1   Closing == 2   Holds == 3   Announcement == 4

Ids    == {IdOf[k] : k \in Keys \cup {HostKey}}
Frames == {Wire[n] : n \in DOMAIN Wire}

\* Counters and editions are counts that begin at 1 (PeerSession.counter, HostProducer.issued).
ASSUME WireAssumption ==
    \A f \in Frames :
       /\ f.id \in Ids
       /\ f.kind \in {Stream, Holds, Announcement} => f.counter \in Nat \ {0}
       /\ f.load.is \in {"state", "closing"} => f.load.issued \in Nat \ {0}
       /\ f.load.is = "state" => DOMAIN f.load.peers \subseteq Keys \cup {HostKey}

\* What a reader keeps.  committed: the entries of the applied state, by key.
Nobody    == [k \in {} |-> k]
NewReader == [committed |-> Nobody, marks |-> [i \in Ids |-> 0], listing |-> {},
              holds |-> [i \in Ids |-> {}], issued |-> 0, ended |-> FALSE]

-----------------------------------------------------------------------------
\* The steps of a read.

\* byKeyId(): the committed keys an id names.
ByKeyId(r, id) == {k \in DOMAIN r.committed : IdOf[k] = id}

\* The keys a frame's signature is tried against.
Candidates(r, f) ==
    IF f.kind \in {State, Closing} THEN {k \in {HostKey} : IdOf[k] = f.id}
    ELSE ByKeyId(r, f.id)

Counted(f)          == f.kind \in {Stream, Holds, Announcement}
Replayed(r, f)      == f.counter <= r.marks[f.id]
Authentic(f, key)   == f.signer = key
RoleOfKey(r, key)   == IF key \in DOMAIN r.committed THEN r.committed[key].role ELSE "none"

\* readPayload() and parseAnnouncement(): a kind reads its own object and no other; a
\* stream is carried whole, whatever it is.
ReadPayload(f) ==
    /\ f.kind = State        => f.load.is = "state"
    /\ f.kind = Closing      => f.load.is = "closing"
    /\ f.kind = Holds        => f.load.is = "holds"
    /\ f.kind = Announcement => f.load.is = "announcement"

\* isContent(): a SyncStep2 or an Update anywhere in the stream.
IsContent(f) == f.kind = Stream /\ f.load.is = "content"

\* payloadIssued().
Ordered(f)  == f.kind \in {State, Closing}
Stale(r, f) == Ordered(f) /\ f.load.issued <= r.issued

\* accept() of a counted frame, and applyState().
Advance(r, f) ==
    IF Counted(f) THEN [r EXCEPT !.marks[f.id] = IF f.counter > @ THEN f.counter ELSE @] ELSE r

ApplyState(r, load) ==
    [r EXCEPT !.committed = load.peers, !.listing = load.listing \cap Usable,
              !.issued = load.issued]

Accept(r, f) ==
    LET a == Advance(r, f)
    IN  IF f.kind = State THEN ApplyState(a, f.load)
        ELSE IF f.kind = Closing THEN [a EXCEPT !.issued = f.load.issued, !.ended = TRUE]
        ELSE IF f.kind = Holds THEN [a EXCEPT !.holds[f.id] = f.load.paths \cap Usable]
        ELSE a

-----------------------------------------------------------------------------
\* The first step that refuses a frame, or "accepted".

\* readAnnouncement(): the signer is inside the plaintext, so that is opened first; the
\* key need not be committed.
ReadAnnouncement(r, f) ==
    IF ~f.sealed THEN "bad_aead"
    ELSE IF ~ReadPayload(f) THEN "bad_payload"
    ELSE IF IdOf[f.load.key] # f.id THEN "uncommitted_key"
    ELSE IF ~Authentic(f, f.load.key) THEN "bad_signature"
    ELSE IF Replayed(r, f) THEN "replayed_counter"
    ELSE "accepted"

\* readOrdinary() has two halves, for it awaits the signatures and the AEAD in between:
\* what the marks and the committed keys say, and what the frame turns out to be.
Screens(r, f) ==
    IF Candidates(r, f) = {} THEN "uncommitted_key"
    ELSE IF f.kind \in {Stream, Holds} /\ Replayed(r, f) THEN "replayed_counter"
    ELSE "pending"

Weighs(r, f, candidates) ==
    IF ~\E k \in candidates : Authentic(f, k) THEN "bad_signature"
    ELSE IF ~f.sealed THEN "bad_aead"
    ELSE IF ~ReadPayload(f) THEN "bad_payload"
    ELSE IF Stale(r, f) THEN "stale_issued"
    ELSE IF IsContent(f) /\ RoleOfKey(r, f.signer) = "viewer" THEN "unauthorised_content"
    ELSE "accepted"

\* readOne(): the envelope, the kind and the epoch before anything is verified.
Layout(f) ==
    IF ~f.whole THEN "bad_envelope"
    ELSE IF f.kind \notin Kinds THEN "unknown_kind"
    ELSE IF f.epoch # 0 THEN "unknown_epoch"
    ELSE "read"

\* A read that nothing overlaps.
Verdict(r, f) ==
    IF Layout(f) # "read" THEN Layout(f)
    ELSE IF f.kind = Announcement THEN ReadAnnouncement(r, f)
    ELSE IF Screens(r, f) # "pending" THEN Screens(r, f)
    ELSE Weighs(r, f, Candidates(r, f))
=============================================================================
