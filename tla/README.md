# Verification of the Selvage web client

TLA+ specifications of the client: its engine (`src/engine`), the bridge between a replica
and an editor (`src/bridge`), and the page around them (`src/browser`); the TLC runs that
check them on small instances; and TLAPS proofs, for every value of the constants, of the
safety of the host, of a peer's session, connection and reader, of the bridge to the
editor, of the page and of the folder it shares. The client joins or hosts a *room*: a
server relays sealed frames between seats, the host publishes signed *room states* that say who is in the room and what each key may do, and
every peer keeps a replica of the documents and exchanges edits with the rest. The host's
window shares a folder of its disk.

## The system

| part | state it keeps | operations | talks to |
|---|---|---|---|
| `HostProducer` (`engine/host.ts`) | roster, seat table, series number `issued`, publish window, frame count | `seatJoined`, `seatLeft`, `announcement`, `publish`, `closing`, `flushFrames` | called by the session; writes the `HostStore` |
| `PeerSession` (`engine/peer.ts`) | session key, replica, held-back edits, request clocks, leases, outbound frames | `insert`, `remove`, `deliver`, `tick`, `seatJoined`, `seatLeft`, `detach`, `reseat`, `closeRoom` | called by the relay and the facade; one serial promise queue |
| `RelaySession` (`engine/relay.ts`) | socket, dial generation, retry timer, inbox, people, pending requests | `dial`, `retry`, `onClose`, `process`, `pump`, `rename`, `disconnect` | the server, the session, listeners |
| `Reader` (`engine/sealed.ts`) | marks per key, highest edition, committed and announced keys | verification of one frame | called by the session |
| `SessionBridge`, `PeerEngine` (`bridge/`) | documents in front of the editor, applies in flight, save deadlines; what was reported last | editor events, engine events | editor binding, relay |
| listing walk and ignore rules (`bridge/grant.ts`, `listing-walk.ts`) | none | walk a folder, decide a path | the folder |
| `MonacoBinding` (`browser/editor.ts`) | what is in front, the follow, the landing in hand, write slots and timers | open, go to, follow, save | the editor, the engine, the folder |
| `FolderWorkingCopy` (`browser/folder.ts`) | stamps of files, the listing | list, read, write, move, remove | the File System Access API |
| the page (`browser/main.ts`, `join.ts`, `host.ts`, `share.ts`, `leave.ts`) | the card, the join gate, the one session, the tab's mark and link | join, host, leave, create, remove and move entries | everything above |
| the tree, the people, downloads (`tree-view.ts`, `room.ts`, `rename.ts`, `fetch-download.ts`, `notice.ts`) | rows and their questions, the dialog of a face, a row's progress, the session card | presses, answers, frames of the room | the page |

Hard behaviour, which the properties are for:

* **Everything is a callback.** A local edit, a drop of the socket and the relay taking
  the outbound queue run between any two steps of the session's serial queue, and a
  seal is awaited in the middle of a publication.
* **A connection is not a session.** A drop detaches the session; a later dial mints a
  new key over the old replica. What belonged to the old key must not survive it, and
  what belongs to the replica must; others must not go on showing what the old one held.
* **A host dies and comes back**, with its store or without, and must not sign one
  edition twice nor be refused by those who hold a higher one.
* **The server may repeat, reorder and lose frames**, and a delivery waits in the middle
  for a signature to be checked.
* **Timers are shared.** One tick timer serves the grid and the publish window; one
  request clock serves four causes of a `SyncStep1`; one flush rule bounds what a crash
  can lose of the frame count; sentences on the page each have a clock.
* **Two texts of one document.** The editor applies a change when it likes, the person
  types meanwhile, and what the buffer and the replica differ in belongs to one of them.
* **A disk that is not ours.** Other programs write between the look at a stamp and the
  write, writes fail half-way, a move is a copy and a removal.
* **A page over awaits.** Acts of the person overlap, are answered late, and are answered
  in a session they were not begun in; draws rebuild what the person has a hand in.

PROJECT.json lists every component and every hazard with its line.

## The modules

| module | models | state and actions |
|---|---|---|
| `Seating` | the seat table of `host.ts` | pure operators: `LabelFor` is `label()`, `Commit` is `commit()`, `Vacate` what `seatLeft` does to the table, `PeerEntries` the peer list of a state |
| `Host` | a host over all its processes: `HostProducer`, the host's side of `PeerSession`, the tick timer of `RelaySession` | one action per handler, the three outcomes of `tickOne`, `CreateAndMint`, `CreateOverBudget`, `CreateFails`, `Crash`, and `Advance` for time |
| `Authority` | what a host promises its room: a series of signed editions, each above all before, and none of a process after its own closing | one variable, the frames said |
| `FrameBudget` | the frame count: `roomFrames`, its store, flushes, the charge for an absence, the closing at the budget | `Create`, `Crash`, `HostDetaches`, `Reseat`, the ways a frame is sealed, `Deliver`, the two outcomes of a tick |
| `Relay` | a guest's connection over its drops: dial, handshake, retry, re-seat, inbox, outbound queue, endings | `Opened`, `DialFails`, `Answered`, `Settle`, `Drop`, `RetryFires`, `Disconnect`, `Process`, `Report`, `Publish`, `DrainOutbound`; the room's moves are external |
| `Rename` | the requests of a connection: the chain of `rename()` calls, ids, replies, timers, faults | `Ask`, `TurnPasses`, `TurnComes`, `Timeout`, `ProcessReply`, `ProcessFault`, `ConnectionDrops`, `Reseated`, `End` |
| `Peer` | a peer that is not the host: edits and their speculation, roles, the serial queue with its awaited seals, held-back edits, the request clock, `detach` and `reseat` | the tasks of the queue, the steps they leave, `Sealed` and `SealFails`, and what runs outside it (`Edit`, `Detach`, `TakeOutbound`, `NoteStep1Failure`) |
| `Sync` | the replicas of two writers and a host over a server that keeps nothing and connections that drop | `PublishEdit`, `Reannounce`, `Resyncs`, `Deliver`, `Drop`, `Reconnects`, `DrainOutbound`; `HostPublishes` is external |
| `Reader` | `Reader` of `sealed.ts` | pure operators over one record and the frames of `Wire`: `Verdict`, `Advance`, `ApplyState`, `ReadAnnouncement` |
| `Receiver` | what a session makes of each frame: the queue, the verdict, states, holds, roster, the host's absence | `DeliverBegins`, `DeliverEnds`, `SeatJoined`, `SeatLeft`, `Reseat`, `Tick` |
| `Presence` | a peer's holds and caret, its renewals and connections, and what another peer shows of them | `Person`, `Job`, `PresenceTick`, `HearState`, `Drop`, `ReseatBegins`, `ReseatEnds`; and the watcher's `Hear`, `WatchTick`, `WatcherReseats` |
| `Absence` | a host's absence from the clock in `peer.ts` over the relay's report, the facade and the bridge to the session card | `HostLeaves`, `HostReturns`, `SocketDrops`, `RetryFails`, `SeatedAgain`, `DrainInbox`, `Tick`, `Elapse`, `CountdownEnds`, `StandEnds` |
| `Bridge` | one document of `SessionBridge`: buffer and replica, the apply in flight, the backstop, the save deadline, the hold, the file read for a peer | `Open`, `Close`, `Type`, `Cut`, `Settles`, `Fails`, `BackstopFires`, `SaveFires`, `HoldGranted`, `HoldRefused`, `Named`, `ReadStarts`, `ReadEnds`, `Echo`, `Dispose` and others |
| `Opening` | what `MonacoBinding` has in front: openings that overtake one another, go-tos, follows, role, grant, drop and end | the presses `OpenDocument`, `GoTo`, `Follow`, `StopFollowing`, `Type`; the room's `PresenceChanged`, `RoleChanged`, `GrantChanged`, `DocumentChanged`, `Seated`; `Answers`, `EnterTerminal`, `Dispose` |
| `Files` | the files of a folder a host types in: write slots, timers, the stamp guard, moves of a file and of a folder, another program | `Type`, `WriteTimer`, `SaveOnDeadline`, `WriteCheck`, `WriteReplace`, `WriteRestamp`, `WriteFails`, the steps of a move, `Dispose` |
| `Acts` | creates, removals, moves and opens as whole acts of the page, overlapping each other and the end of their session | `BeginCreate`, `BeginRemove`, `BeginMove`, `BeginOpen`, then one action per await: `FolderCreates`, `FolderRemoves`, `FolderMoves`, `WalkFolder`, `PublishFolder`, `Open`, `ActRefused`, `ActAbandoned`; and `Seat`, `Leave` |
| `Ignore`, `Walk` | the ignore rules of `grant.ts` and the bounded walk that lists a folder | `Ignore` is pure; `Walk` has `Enter`, `Drop`, `Descend`, `Decline`, `Lists`, `Return`, `OutOfNodes` |
| `Page` | the two ways in, the card, the gate, the ways out, a reload | `SubmitJoin`, `AttemptHost`, the awaits behind them (`Picked`, `Prepared`, `Listed`, `JoinSeated`, `FirstOpened`, `HostSeated`, `FailedJoin`, `FailedHost`), `PressLeave`, `CancelLeave`, `LeaveAnyway`, `ClosingDone`, `RoomGone`, `Reload` |
| `Tree` | the rows of the file tree and when they are drawn; the create, delete and move rows | one action per press and per answer |
| `Menu` | the faces, the dialog a face opens, the name field in it, the refused go-to | one action per press, answer, frame and clock |
| `Fetch` | a file saved out of the room: what is asked, waited for, said on the row and written | `Download`, `TryAgain`, `SaveEmpty`, `Dismiss`, `Fetches`, `CostsTimer`, `ToastEnds`, `Leaves`; `DocumentChanges` is the room's |
| `HostProofs`, `PeerProofs`, `SyncProofs`, `RelayProofs`, `ReceiverProofs`, `BridgeProofs`, `PageProofs`, `FilesProofs` | the proofs | each EXTENDS the module it is named after; `RelayProofs` also proves what `MCRelay` runs beside `Relay`: `FrameBudget`, `Absence` and `Menu`; `PeerProofs` what `MCChains` runs beside `Peer`: `Rename` and `Fetch`; `ReceiverProofs` what `MCReceiver` runs beside `Receiver`: `Presence`; `PageProofs` what `MCPage` runs beside `Page`: `Tree` and `Opening`; `FilesProofs` what `MCFolder` runs beside `Files`: `Acts` and `Walk` |

`Host` uses `Seating` (EXTENDS) and is shown to implement `Authority` (INSTANCE). Its
boolean `spent` is `FrameBudget`'s `roomFrames >= Budget`. `Receiver` uses `Reader`, `Walk`
uses `Ignore`. `Relay` holds of the session only what the relay can disturb; `Peer` is the
session with the relay reduced to `Detach`, `Reseat`, `TakeOutbound` and `Tick`; `Sync`
puts two such sessions, reduced to what they owe, on one server; `Absence` follows one
fact through five components of a guest.

The MC modules name the model values. `MCRelay`, `MCPeer`, `MCChains`, `MCReceiver`,
`MCFolder` and `MCPage` each hold two to four components that meet nowhere but in the end
of a session, which each has as an action of its own. A variable `side`, chosen in the first
state and never changed, says which of them runs, the others rest in one of their initial
states, and each property is about its own side. The state space is the sum of the
components' and never their product.

### How code becomes actions

* A handler is one action, up to its last `await` that anything else can run in. The
  host's publication awaits a seal inside the serial queue and nothing it reads can be
  changed meanwhile, so it is one step with four outcomes (`Withhold`, `Resend`,
  `PublishNew`, `SealFails`); the peer's publication can be overtaken by `detach()`, so
  its seal is a step of its own and the guard is asked again after it (`Allowed`).
* `IF`s of the code that return early are guards; what happens in that case is an
  outcome, never left out.
* A document is the set of edits in it, a key is its number, a listing and a name are
  model values; a path is a sequence of names where folders matter. In `Bridge` a text is
  the set of marks in it, the difference of two texts is what one has and the other lacks,
  and a mark may make a text too large (`Heavy`) or leave it with half a character
  (`Broken`). In `Reader` a frame is a record that says which key signed it and whether it
  is whole. In `Ignore` a pattern is the set of places it covers.
* **Clocks** are ages. The code only ever compares `clock - x` with a limit, so an age
  stops there and states that differ only in how long something has been over are one.
* **What is drawn is state**: in `Tree` and `Menu` the rows, the controls, the focus and
  what a face says it has open are what the last draw left, so that a handler that forgets
  to draw is a handler that leaves them stale.
* **History** variables are marked as such and read by properties only.
* A method of a class is an operator on the record that holds its state, named as in the
  code, and a handler is their composition: `documentOpened` is `DocumentOpened`, which
  calls `Seed`, `Reconcile` and `Hold`.

## The runs

| run | instance | shows |
|---|---|---|
| `host_seats` | 3 keys, 2 guest seats, 2 processes with a store, edition 3 | `OneKeyPerSeat`, `RoomIsTold`, and `SpeaksAsOneAuthority`: the series survives a crash anywhere |
| `host_window` | 1 key, 1 guest seat, 2 listings, 2 processes without a store, failing seals, a renewal of 2 | `AnswerNotPassedOver`, `AnswersAreRateBound`, `ClosingIsLast`, `NeverBelowVerified` |
| `relay` | one other person, 2 drops, every timing and transport; 3 processes of a host; 2 seats of an absent host over 2 drops; 4 people and 4 presses | `PromptSessionAgrees`, `DialsAreBounded`, `DropIsResolved`; `BudgetIsKept`; `CardSaysWhatIs`; `MenuIsThePersons` |
| `relay_reseat` | a drop may fall inside a re-seat | **violated**: `NoFrameUnderADeadKey` |
| `peer` | an edit, a remote edit, 3 states, one re-seat, failing seals; two writers, 2 edits, 2 drops | `EveryEditIsAccountedFor`, `ViewerTextStaysHere`, `RequestsArePaced`; `QuietReplicasAgree` |
| `chains` | seals succeed, 2 states, one re-seat; 2 renames over 2 drops; 3 presses on a download over 2 sessions | `AnsweredInTurn`; `DownloadIsTheAnswer`; `EveryChainMovesOn`: `HeldEditsGoOut`, `EveryCallIsAnswered` and `WaitsEnd` |
| `bridge` | one document; a guest with this repository's editor and with a late one, a host with this repository's | `EnteredOnce`, `LossIsTold`, `PublishesWhatWasDone`, `SavedOrTold`, `Converges` |
| `bridge_refused` | a host, a mark past the bound to type | **violated**: `RefusedTextStays` |
| `receiver` | 8 honest frames and 8 to refuse, repeated, reordered and lost, a lease of 1, 2 moves; holds and caret of a peer over 2 connections | `AppliedInOrder`, `RefusedForCause`, `HoldsEnd`; `HoldsAreKept`, `ShownInTheEnd` |
| `folder` | 2 documents, 2 edits, 1 foreign write, 1 failure, 1 move; 3 acts one at a time or 2 that overlap over 2 sessions; folders of 12 places | `WrittenWhenQuiet`, `MoveKeepsTheText`, `NeverBlind`; `ActsKeepTheTree`; `ListingIsTheFolder` |
| `page` | 3 ways in and a reload; 2 documents, 2 participants, 2 presses, 2 frames, a drop; 4 presses in a tree | `CardIsLive`, `TabRemembers`; `AskedIsInFront`, `FollowLands`; `RowsAreKept` |
| `absence_untold` | a host that leaves while a guest's socket is down | **violated**: `AbsenceIsShown` |

What some of the properties say, since their exceptions carry the meaning:

* `PromptSessionAgrees`: the session's key is its connection's, its roster the room's, and
  nobody is told "seated" over a lost socket, provided `prompt` and `closes` (below).
* `DropIsResolved`: a drop ends in a seat or an ending, whatever the timing.
* `BudgetIsKept`: the count covers the room up to the budget, one frame is sealed from
  there on, the closing, and a change of the count is not unwritten for two renewals.
* `QuietReplicasAgree`: where every client is seated and committed, nothing is on its way
  and nothing is owed, replicas are equal. A frame queued at a drop is in nobody's held-back
  list: the exchange after the re-seat is what brings it back.
* `RefusedForCause`: a frame is refused for what came before only if something that was
  *applied* supersedes it; no refused or ignored frame costs an honest one.
* `HoldsAreKept`: a path a seated peer goes on holding stays in another's view while a
  lease is at least `Span(lost)`: two renewals (a change between two ticks puts the next one
  off to the second tick after it), and one more for each holds frame lost, to a failed
  seal or a drop of the watcher, since one last came in. By hand the bound is the least:
  with one less the formula is violated. At the code's defaults, 15 and 30 seconds
  (envelope.ts:166), a lease is two renewals and has room for no loss: a holds frame that
  is lost can make the file disappear until the next one, and nothing is promised.
* `ShownInTheEnd`: once all is quiet the watcher shows what the peer holds and its caret
  under its present connection only.
* `HoldsEnd`: holds that come after the leave of their sender are not modelled: that they do
  not is the server's to see to (`CanArrive`), and the reader does not ask.
* `LossIsTold`: what the person typed leaves the buffer by the bridge's hand only if the
  room once had it, or the person was told that the texts were apart, or the room refused
  to carry it, or it was typed while a refused apply was being tried again, or into a
  document not in front (`Excused`). The retry exception is a gap: `refuse()` reports a
  moved buffer on the first attempt only (bridge.ts:969), and what is typed during the
  second is wiped without a word.
* `SavedOrTold`: a save of a document in front lacks nothing of the room's text but what
  the person took out or was told of, and has nothing the room has not but what they were
  told of or the room refused to carry. `Converges`: the two do not stay apart in more.
* `MoveKeepsTheText`: at no step is the text of a file in no place, and a move that was
  refused leaves nothing of itself; a *partial* move, which the code reports as one, may.
* `NeverBlind`: a write passes its guard only over a file the page has looked at since
  another program wrote it. The window between the look and the replacement is the
  platform's, and the code says so.
* `ActsKeepTheTree`: acts taken one at a time leave a tree that is the folder; acts that
  overlap need not (below), but none changes another session's tree.
* `ListingIsTheFolder`: the walk's listing and a read of one path decide alike, a listing
  that was cut short aside.
* `AskedIsInFront`: an overtaken opening never comes in front; with the caret of the one
  asked for, and an editor that takes text exactly where the room would.
* `TabRemembers` holds where both ways in are not taken at once (the flag `calm`, which
  `Unhurried` reads); `page` has both kinds of person, and the other properties hold of both.
* `MenuIsThePersons`: strip, dialog and expanded face are the room's as it stands; a typed
  name goes only by the person's act or a landing; focus stays on a control that is drawn
  again (the follow toggle has no name to be found by); a refusal stands its whole time.
* `DownloadIsTheAnswer`: what is saved for a fetch is text the room holds then; an outcome's
  sentence goes only by a press, another outcome or the session's end; a busy row has a
  fetch behind it, and (`WaitsEnd`) does not stay busy.
* `AnsweredInTurn`, `EveryCallIsAnswered`: one rename is out at a time, a call that says its
  name was taken was answered itself, and every call comes to an answer.

### Bounds, and why they are enough

* Keys, seats: an eviction needs a full room and a key beyond it, and the choice of the
  oldest needs two candidates: three keys over two guest seats. The keys and the other
  seats are interchangeable, and only they are declared symmetric.
* `MaxEdition`, `MaxCommits`: they bound counters that nothing but their order is read
  of; handlers stop before they reach the bound, ticks, crashes and closings do not.
* `MaxLives` 2 and 3: a process, one that starts from what it left, and, for the frame
  count, the charge of a charge.
* `Renew` 2 (1 where only the order of ticks matters): an age below, at and past the
  window. `ExpireAfter` three times `Renew` in `Presence`: a lease with room for one lost
  holds frame, and `MaxMisses` 1 loses one; the two peers tick at the same moments, in either
  order. By hand also twice to four times `Renew` with two losses, and out of step.
* `RetryBudget` 2, `MaxDrops` 2: a retry that is spent, and a drop after a re-seat.
  `MaxInbox` 2 lets the inbox overflow with the joins and leaves of one person.
* One local edit per session is enough in `Peer` for what an edit goes through: entries of
  the held-back list never read one another. `MaxStates` 3: no role, viewer and guest in
  any order. `Sync` has two edits and two drops over both writers, so that what one lost
  meets what the other did; the same holds by hand with two edits and two drops each.
* `Bridge`: `MaxAttempts` 2 stands for the code's 3, which `bridge_refused` has: a retry
  and its end. `MaxOpens` 2 is a reopen behind a stale flight or a stale hold;
  `MaxRefusals` 2 spends the attempts; one mark typed, one taken out and one turn of the
  room meet in every order with one apply. The room's mark is past the bound there, so
  that a publication can be refused by what the room brought.
* `Receiver`: one frame of each kind that is accepted and one of each reason it may be
  refused for, each delivered as often as the wire likes. `Presence`: one path and one
  caret, two connections, two changes of what is held, one lost frame.
* `Absence`: the host's seat and one more after it, one state or holds frame, two drops and
  two ticks; `absence_untold` needs one drop and three ticks.
* `Files`: two documents, so that a folder's move has one behind it; two edits, a save and
  one folded into it; one write of another program, one failure, one move. By hand also
  the inductive invariant of `FilesProofs` with two moves, one after another.
* `Acts`: seven paths under two folders; three acts in a row, two that overlap, and two
  sessions. `Walk`: twelve places with an ignore file at the root, in two folders and one of
  the repository, every budget at, below and past its limit.
* `Opening`: two documents, two participants, two presses, two frames and a drop: an opening
  that is overtaken by one that is overtaken. `Page`: two tries that overlap and one after
  a reload. `Tree`: four presses, a create, its answer and another like it; a room that
  moves once.
* `Menu`: four people with a phone's limit of three faces; four presses reach a typed name
  under a dialog a frame redraws, and a second refusal over a first. By hand also five.
  `Fetch`: one path, since rows do not read one another; three presses are a fetch, another
  over it and an offer taken; two sessions.

Most runs do not check deadlock: a session that ended, a host that spent its processes, a
person who has pressed all they may and a walk that is done really stop.

### Fairness

* `Relay`: the retry timer fires, the awaits of a re-seat and of the inbox resolve,
  `report` runs after the session's own ending, and a dial is answered, refused, or cut
  off by its deadline (`Opened \/ DialFails`). Nothing is assumed of the server, the
  people of the room, or `disconnect()`.
* `Rename`: promises settle in turn, the inbox is drained, each request's timer fires.
* `Peer` (in `chains`): the serial queue moves; a queued edit, a tick and the failure stamp
  are not put off for ever by tasks that keep coming (strong fairness: each waits for an idle
  queue); time passes; seals succeed.
* `Fetch`: an ask is answered or fails, and polls come round.
* `Bridge`: an editor answers what it was asked, and the backstop's timer fires. Nothing
  is assumed of the person, the room, its answers to holds, or the save.
* `Presence`: queued tasks run, timers fire, the server delivers, the host commits a key
  that announced itself, a re-seat that began ends. Nothing of the person or of drops, both
  bounded.
* `Opening`: an open is answered, a dropped socket is seated again, and the text of a held
  document arrives.
* Elsewhere safety only. In the place of fairness, time does not pass a timer that is due,
  so that `AnswerNotPassedOver` and `BudgetIsKept` bound how late something can be.

Where a run holds several components, the fairness of one is stated of its actions while
it is the one that runs.

### Timing the relay relies on

`prompt` says that a re-seat is done before the next drop and that the frames of one
connection are processed before the next is seated. Nothing in `relay.ts` makes it so:
the re-seat awaits a key generation and `drain()` awaits the verification of each frame,
and a socket may drop meanwhile. `closes` says that `close(1008)` closes the socket; a
browser's WebSocket throws instead. `relay` checks both sides of both.

### What the bridge relies on

In this repository's editor a change lands inside the call and its promise settles before
anything else is run (`Quiet`). The interface allows more, and `late` is an editor that
takes its time, is typed into, refuses and fails, but never says that a change landed
when it did not. The backstop waits 100 ms and a save 500 ms, so a save does not fire
before a backstop armed with it. A path this client holds is not refused a second hold.
A frame's effect on the replica and the event for it are one step: true of the frames
this client's peers send, which carry one update each.

## Findings

With a run:

1. `relay_reseat`: a drop inside a re-seat leaves the session un-detached with no
   socket; frames sealed under its key go out on the next connection. In the same drop
   listeners are told `seated`.
2. `bridge_refused`: text past the session's bound stays in the buffer, as the comment
   promises, until a peer edits the document: the reconcile that edit causes takes it
   out, and the file is saved without it. The person was told only that it was not
   shared.
3. `absence_untold`: a host that leaves while a guest's socket is down is away unsaid: the
   tick after the re-seat starts the clock, and nothing tells the page.

Smaller ones, met while modelling, which the models allow and the properties step around:

* *Engine.* The overfull inbox is emptied although `close(1008)` throws in a browser, so
  joins and leaves are lost (`~closes`). A frame of the last connection processed after a
  re-seat moves the new roster (`~prompt`), and a key generation that fails in a re-seat
  leaves the session detached while `seated` is emitted. An edit whose seal failed waits
  for the next room state, and a quiet room publishes none. The timer of a rename lets a
  second request go while the server still has the first. A save beside a publication
  makes the next grid tick too early to flush, so a change of the frame count can wait
  almost two renewals where host.ts:293-296 says one. The host-away clock starts whenever
  the applied state's host entry labels a seat the roster lacks, a returning host's own
  session included (peer.ts:2138), and `seatJoined` does not stop it before the next tick.
  `announceHolds` stamps its renewal although its seal failed; `reseat` keeps `departed`.
  A request stamps the clock its task began with (peer.ts:1981, 2271): the model's age is 0
  when its seal ends, so `RequestsArePaced` is of that clock and not of when a frame leaves.
* *Bridge.* `onEngineEvent` reconciles a document that was opened but never put in front,
  so a file refused for the room is overwritten in its buffer when a peer writes that path.
* *Card.* The dropped line and the health dot are cleared by roster and lease reports while
  the socket is still down (main.ts:2606-2609 says otherwise); the dropped line takes the
  place of a running countdown and the re-seat clears it; a state applied while the host is
  away starts the clock again and the card is not told.
* *Folder.* The stamp is looked at again after a move by a read that blesses what another
  program wrote; a write that throws leaves an empty destination; edits typed after the
  drain of a move are not carried by it (main.ts, about 722); the last removal of a folder's
  move takes what appeared since the survey. Stamps only rise in `Files`: two writes within a
  millisecond, or a file put back with its time (folder.ts:741-747), are outside it, and the
  replacement is one step.
* *Acts.* Overlapping walks may publish the older listing last; a folder made inside one that
  is gone is drawn nowhere; a partial move and a refused create leave what the page remembers
  of made folders beside the disk; nested empty folders that moved are undrawn.
* *Page.* A join and a start in flight together seat two sessions and only one is dropped;
  leaving releases the gate of a join that still runs; a refused start leaves its link guard
  registered (main.ts:1017-1022 says it is released); the tab's mark may outlive its room.
* *Editor.* Clearing a follow does not begin a new opening cycle, so a landing of it may
  still come in front (editor.ts, about 444).
* *Walk.* A folder named as a secret file is left out with all that is in it (grant.ts,
  about 391, speaks of files).
* *Tree.* The answer of a removal takes down whichever question stands; Enter twice moves
  twice; Escape during a move says that the row was left where it is; a create row opened
  over a dead one cannot be typed in (tree-view.ts:1428); Backspace eats the prefix while
  a create runs; a folder that asks does not strike the empty folders in it.
* *People.* The follow toggle has no `data-act`, so it loses focus at every frame (main.ts:1711
  says a control's focus is carried over); the tail of a rename and the clock of a refusal
  redraw the dialog with focus of their own, over whatever has it; a go-to or a follow that
  lands closes a dialog with a half-typed name; a rename back to the name in force, while
  an earlier one is unanswered, is dropped and the earlier one wins.
* *Downloads.* The button of a busy row can be pressed again, and the first of two fetches
  of a path to settle takes the other's progress down; a save leaves an earlier "Still
  asking" standing; the offer of an empty file still writes one after the text has come.

## What is proved

Every theorem is `Spec => ...` for all values of the constants, by an invariant that the
initial states have and every step keeps. What each rests on is an assumption on constants
that TLC evaluates in the runs; none is about behaviour.

**Host** (`HostProofs`, with the lemmas on `Seating`'s tables): any keys, seats, listings,
renewal, expiry, processes, editions. Assumes `HostAssumption` (limits are naturals, a
renewal is positive), `SeatingAssumption` (the host's own seat is one of the seats) and
`AbsenceAssumption` (the markers for "none" are no records).

* `HostTypeOK`. One lemma for each group of actions. Its one real content is that the tick
  timer and the grid never leave `0..Renew`.
* `HostIsOneAuthority` (assumes the host has a store). `TypeOK` alone does not carry the
  series over a crash, so the induction is on `Series`: the store is at least every
  signed edition, `issued` of a running process is what the store has, and a process
  that has signed its closing knows that it is closed. `NextSeries`
  shows that every step keeps it and is a step of `Authority` or a stutter.
* `HostNeverBelowVerified` and `HostClosingIsLast` need no invariant beyond types and
  `NotRunning`: between two processes nothing of a session is left.
* `HostAnswersAreRateBound`: the history `quiet` and the window's own age
  `sinceAnswer` are equal, which every step keeps (`QuietStep`).
* `HostOneKeyPerSeat`: `SeatsApart`, the labels of the *table* are distinct, is the
  inductive part; what a state lists inherits it (`PeerEntriesDistinct`). It rests on
  `CommitDistinct`: `commit()` takes a label from whoever had it.
* `HostTellsTheRoom`: `RoomIsTold` is inductive with `NotRunning`: each handler ends in
  `publishState` over the tables it leaves, and that either says them, leaves the answer
  owed, or notes the failure.
* `HostAnswerNotPassedOver`: inductive over types: every handler that changes what is
  owed arms the timer again, and time stops at it.

**Frame count** (`RelayProofs`, its second part): any budget, rate, renewal, processes. Assumes
`BudgetAssumption`: the charge covers `Rate` frames a unit over two renewals and one unit
more, those on their way and those of an absence. With a smaller charge the theorem is false.

* `FrameBudgetIsKept`. That the count is not below what was sealed is not inductive: a crash
  loses what was not written. `Covered` bounds the room's frames for each of the host's
  conditions, a process that is seated, detached, ended or dead, against the count *and*
  against the store, while the count with a charge more is below the budget; `Written` says
  how long the count can be unwritten, and that unwritten time and the next grid tick are
  together below two renewals.

**Absence** (`RelayProofs`, its third part): any window, seats, states, drops and ticks. Assumes
`BoundsAssumption` (they are naturals, and there is a seat).

* `AbsenceCardSaysWhatIs`. What the card says is kept by each painting (`Carded`, which adds that
  a card's timer runs under its own sentence only), but a report may clear a countdown, so it
  matters whom the guest sees: `Timed`, no absence is timed of a host that is seen, and
  `ToldInTime`, none is told that is not timed. Those two rest on the frames: a seat that joins
  must not be one the clock already runs for, or the roster would have the host while the clock
  goes on. `Fits` says so of every frame on the way: a state under a seat comes after the seat's
  joining, and no seat joins after a state of it. It says of the guest that one who knows a
  state of the present seat has it in the roster, so the roster of a new seat (`SeatedAgain`)
  shows no host that the clock runs for. `Coming` keeps both while the host publishes.

**Menu** (`RelayProofs`, its fourth part): any room, order, number of faces, sessions, presses and
frames. Assumes `MenuAssumption`: the markers for "none", for the face of the others and for this
window are apart, and two faces at least are shown.

* `MenuStaysThePersons`. What each draw makes of any page is a lemma (`RenderRoomIs`,
  `RenderMenuIs`, `DrawRoomIs`, ...), and a handler is the draws it calls. `Framed` and `Filled`
  say that strip and dialog are what a draw would make of the page now; `Filled` adds that
  there is text in the name field where there is a field, so that a dialog held back by the field
  (`RenameHoldsTheList`) is the person's own and is the same in every room. `Focused`: focus is on
  the name field only where there is one. A follow that ends with a participant who leaves
  draws twice, and the second draw takes nothing away, for the strip reads who is followed
  only if they are in the room (`AnchorsSame`). `RefusalTimed`: of all the timers only the
  newest runs while a refusal stands, and it has the rest of that refusal's time.

**Peer** (`PeerProofs`): any edits, renewal, states and seats. Assumes `PeerAssumption`
(limits) and `NoCopyAssumption` (the marker for "no copy" is no set of edits).

* `PeerKeepsEveryEdit`, `PeerViewerTextStays`. `SpeculationApart` is what makes both
  inductive: the replica without what may be rolled back (`PublicationDoc`) holds everything
  that a frame has carried, carries or is to carry, what may be rolled back is in none of
  those, and a writer has nothing of the kind. A discard then takes nothing that was
  published, and an acceptance lets nothing out that was banned.
* `PeerRequestsArePaced`: the seal of a request is awaited, so the interval is looked at in one
  step and the frame leaves in another. `Paced` says that it is still past when it leaves, and
  that an eligibility that armed a request has been served by it.

**Requests** (`PeerProofs`): `Rename`, any calls and drops.

* `RenameAnsweredInTurn`. Nothing in the code says "one at a time": a call behind another waits
  on its promise, and the promise settles in four ways. `InLine` is that order: who is in line
  has asked and has not passed, only the first may be out or settled, those behind it wait, and
  nobody out of line is out. `OneRequest`: what the server was asked or accepted under the id of
  a pending request is that request, for ids only rise and outlive the connection; `Taken`: a
  reply in the inbox that gives a name carries an id the server accepted. A late reply, of a
  request whose timer fired or whose connection dropped, then finds no request of its id.

**Downloads** (`PeerProofs`): `Fetch`, any paths, presses, polls and sessions. Assumes
`FetchAssumption` (the marker for "nothing" is no text).

* `FetchDownloadIsTheAnswer`, its three parts. A row is busy for a fetch under way because what
  ends a fetch of a row makes it idle (`Concluded`), whoever else waits on the row; an outcome
  goes for a reason (`Stands`) because the timer takes down its own words only; and what is
  written in a fetch's name is text the room holds in that step (`Saves`).

**Sync** (`SyncProofs`): any writers, edits and drops. Assumes `SyncAssumption` (limits, and no
writer goes by the host's name).

* `SyncQuietReplicasAgree`, the safety half of convergence. The induction is on `Owed`: where a
  client lacks an edit that its author has, there is a debt between the two (`Debt`), a
  request that lacks the edit, an update that brings it, a request one of them has yet to
  make, or the handshake of a connection that the other has not answered. A debt is paid or
  changes its form, and no step loses it: a drop takes its frames and leaves the handshake of the
  next connection, of which nobody has heard (`Keyed`). The delicate one is a request that the
  author cannot answer, or refuses because it does not know the key. `InOrder` (states rise,
  and whoever knows of its own commitment knows of every key whose frames come after it) says that
  the author is then not committed itself, and `Handshakes` that it has yet to ask. The
  proof does not use that the host owes nothing: replicas agree as soon as the clients are
  quiet.

**Relay** (`RelayProofs`): any people, retry budget, inbox and drops. Assumes
`RelayAssumption` (limits, and a finite set of people).

* `RelayDialsAreBounded`: `Dialled` (one socket, that of the last dial; the timer only where
  there is neither socket nor dial) and `Counted` (dials since the last seat are attempts
  that were scheduled).
* `RelayPromptSessionAgrees` speaks of a socket that is `prompt`, so `Prompted` is an
  implication: the session is bound to its connection (`Bound`), and what the roster says
  and the inbox will say is the room (`Lists`: the list is right of who has not come, and what it has
  wrong of the others is on its way, a leave behind the join).

**Receiver** (`ReceiverProofs`, over `Reader`): any keys, ids (two keys may share one), frames,
seats and leases. Assumes `WireAssumption` (counters and editions count from 1, as they do in
`PeerSession` and `HostProducer`) and `ReceiverAssumption` (limits).

* `ReceiverAppliesInOrder`. A delivery decides on its marks before an await and applies after
  it. `UnderWay` says that what was decided still stands when the signatures are back, which
  is what the serial queue is for; `Marks` and `Editions` that a mark is at least that of every
  frame applied under it.
* `ReceiverRefusesForCause` needs the other half of `Marks` and `Editions`, that a mark which
  moved was moved there by a frame that was applied, and `Table`: the committed keys are the
  newest applied state's. A closing before a state moves an edition and is put back
  (`PutBackUndoes`).
* `ReceiverEndsHolds`: inductive with `SeatsApart` (no seat is both in the room and departed)
  and the part of `UnderWay` that says a frame's sender is seated. It is said of a key whose
  label is the seat it was minted at and whose id no other committed key has: the attempt to
  prove it of every key failed for those two reasons, and both are so in the code, where an
  entry's seat is what the host believes and `dropDepartedHolds` goes by id.

**Presence** (`ReceiverProofs`): any paths, carets, connections, changes, drops and misses.
Assumes `PresenceAssumption`, which does not compare the two intervals: both are the server's
keepalive, and neither does the code. How long a lease must be is in the property.

* `PresenceHoldsAreKept`. `InTime`: a lease of what the peer holds is younger than
  `Span(lost)`, and where no holds are on the way it still is when the peer's next are due
  (`UntilDue`: the end of this tick, or of the next one if a change came since the last). A
  lost frame puts that off by a renewal and `Span` grows by one. `InTurn` (what is on the
  wire is in the order of the connections it was said under, and nothing of an earlier one follows what is shown of the present one) and
  `Numbers` (no one is ahead of the peer's own count of connections) keep a late frame of an
  earlier connection from being taken for the present one's.

**Bridge** (`BridgeProofs`): any marks, windows, attempts and turns of the room. Assumes
`BridgeAssumption` (the three kinds of marks are apart, and limits).

The invariant `Inv` is in two layers, for a handler calls methods that call others, and what a
method may rely on is less than what holds between two steps. `Ready` is what every method
relies on and keeps: where the marks of each text come from (`Known`), that what moves texts
about waits for a document the room has (`Entered`), who waits for whom (`Roles`, `Placed`), and
what a change in flight takes out and puts in (`FlightOK`). `Owned`, `Settled` and `Holds` hold
between steps: what the person typed is excused or a settle will see to it, the two texts
differ at rest in nothing unknown, and a hold is of what is in front or awaited. Each method
has a lemma (`...Keeps`) that gives `Ready` back and says by `Does` or `Tells` what it may have
taken out of the buffer; each handler one (`...Steps`) that composes them. TLC checks `Inv` too.

* `BridgeLossIsTold`: the hard case is a change of a late editor that lands on a buffer the
  person has typed in. `Owned` has it as its second disjunct, which `Resolve` turns into the first.
* `BridgePublishes`: `Even`, with `FlightOK` for a reconcile that starts from a change in flight.
* `BridgeSavedOrTold`: `Excusable`, of a document in front with no change in flight; under one the
  save pauses and writes nothing (`SaveFires`). What a landed change leaves behind is the hard
  part: `FlightOK` says that what the person typed in the text it started from was excused by
  then, and that what is left of that text in the buffer is in the text it applied.
* `BridgeEnteredOnce`: `Entered` and `Holds`. The copy is inserted where the room has no
  document, and only there.

The search for `Inv` corrected the model: an editor may say again that a document is open
whatever its buffer holds, and the model had let it do so only while that was the file, the
replica or nothing.

**Page** (`PageProofs`): any number of ways in and reloads (`PageAssumption`: at least one).

* `PageCardIsLive`. `Gates`: each closed gate has a way in behind it, or for a join the
  session it led to. `Offers`: the start action is shown by what was last read of the server.
* `PageTabRemembers`: while the person takes one way in at a time, `OneAtATime` holds: one way
  in at most is going, with its gate closed and no session yet; the mark is the session's; and
  the session was not left. `Numbered` gives that what the page remembers of is a way in that
  came, so that no step moves it under the page's feet.

**Tree** (`PageProofs`): any paths, listings, presses and moves of the room. Assumes
`TreeAssumption` (paths are those of a tree, and the marker for "no row" is none of them).

* `TreeRowsAreKept`. The pane is rebuilt only where a key over what the rows read has moved, so
  the question is what may be the same under one key. `Keyed`: the key the rows were drawn for is
  that of the view as it stands, but for the part of a row that is dragged, which the key leaves
  out; and after a reset there is nothing to draw. `Shown`: the pane is what is drawn of the
  view. Then (`ShowsKeeps`) a handler that renders and does not rebuild has left every part the
  key is over, and a row the keyboard holds under the same key is the one that was drawn: from a
  drag no step leads to a held row but through a render in which nothing is held. The folders a
  view pins are in no key, and a handler that pins one empties the key (`OpenFolder`).

**Opening** (`PageProofs`): any documents, participants, carets, presses, frames and drops. No
assumption on the constants.

* `OpeningAskedIsInFront`. `Asked`: the document that is shown is the one asked for last, and so
  is the one any opening that is still of its own cycle would show; without the second half an
  answer that comes late breaks the first. `Locked`: the editor's read-only flag is what role,
  end and document in front make it. A handler is a composition of the functions of the class
  over one record, so each function has a lemma that it keeps both and places no caret but
  that of the participant followed or gone to (`Keeps`), and each action cites those it calls.

**Folder** (`FilesProofs`): any files, edits, moves, failures and writes of another program.
Assumes `NamesAssumption` (a file is a number of the listing, from 1 on).

* `FilesNeverBlind`. `Looks`: the stamp the page has of a file, and the one a write under way
  took before it awaited anything, is no later than the file's own, and is earlier where
  another program wrote since. The guard asks that they be equal. It needs that the write of
  a move is to the name it just made (`JobsInPlace`), whose stamp it read as it made it.
* `FilesWrittenWhenQuiet`. `Saved` follows a text from the buffer to the disk: it is in the
  file, or in the write under way, or in the pass asked for after it, or a timer or a debt
  is armed; and a listed file has a model. It is what a save that joins another keeps.
* `FilesMoveKeepsTheText`. `Steps` says at each stage of a move where the text is; it needs
  that the file the move has still to take has not fallen behind (`Floors`), while writes of the
  old name may still run, and that each stage has the kind, the folders and the files it
  supposes (`Shape`). `Nothing` says that until the first file is in place, all that is in
  the new folder was there when the move was asked for. With one move that is the same
  as "was there to begin with", which is what the property said first: the second move of
  a sequence, into a folder the first one made, refuted it, so `stood` notes what is there
  when a move is asked for.

**Acts** (`FilesProofs`, second part): any paths, folders, acts and sessions. Assumes
`ActsAssumption`: a path is a sequence of names with its parents among the paths, a path that
may be moved takes what is under it along, a folder that is picked is a tree, and the bounds
are numbers above 0.

* `TreeStaysTheFolder`. The property speaks of a page with nothing under way; between the
  folder's answer and the publication it is false, for the folder has changed and the listing
  has not. The invariant says of that stretch what is promised (`Coming`): if the folder as it
  is now were published, the listing, the remembered folders and the open documents would be
  sound (`SoundTree`). So the folder's answer is the step with the argument in it
  (`CreateSound`, `RemoveSound`, `MoveSound`), and the walk and the publication only keep the
  promise. `RowsKept` and `KnownKept` say why a folder that had a row keeps one: all above it is
  known still, since the folders a removal empties are remembered (`keepEmptiedFolder`); and
  `LandingIs`, that what arrives of a move has its parents with it. Acts that overlap are
  promised nothing: of these the invariant keeps the types, the tree on the disk, and that an
  act is never of a session to come, which is what keeps a late one out of the next session's
  page.

**Walk** (`FilesProofs`, third part): any folder, ignore files, names and bounds. Assumes
`WalkAssumption`: the names sort in one order, each once; a place has those above it among the
places; and the folder is a tree whose root is there. That the walk ends is not claimed.

* `ListingHolds`. What a walk has still to come to is what it is about to enter and what is
  left of each directory it is in (`Ahead`). `FoundIsBefore` is the argument: while no bound
  stopped it, all that a read would serve is listed or ahead, and what is listed comes before
  what is ahead; so nothing is passed over, and a walk that is stopped has a first part
  (`StoppedBefore`). It rests on `StackIsAPath`: the ignore files the walk carries down are
  those a read collects for a path of that directory (`Carried`, `Governing`), which needs that
  no folder on the way is itself ignored or out of reach.

**Model-checked only.** `AbsenceIsShown`, which is violated, and that `SegmentMatches` and
`SegmentsMatch` are what a pattern means, over short patterns (`MCIgnore`). All liveness and
whatever a property says of ENABLED are out of the prover's reach, and so is what a recursive
definition computes for every input; no module with a theorem reaches a RECURSIVE operator.

## What is not modelled

* Bytes: encodings, signatures, encryption and the y-protocols framing. A frame is what
  its verification leaves of it, or it is refused; a document is the set of its edits.
* The grammar of ignore patterns and of paths, names, sizes, line endings, URLs, backoff
  lengths: pure functions of characters and numbers, which tests reach.
* Of the bridge: selections, cursors, the wording of reports, `autoSave` off, more than one
  document at a time, and a late editor on a host (its file is saved from the buffer of
  this repository's).
* Of the page: the layout, badges and carets, the editor's load, the invite link's copy,
  the reads of a server's metadata beyond the two of the card; highlighting, packaging and
  build scripts. They keep no state that outlives a call, or none that another part reads.
* A replica that is discarded when a viewer's text is refused, seen from a download
  (`Peer` has the discard, `Fetch` has documents that come and change).
* In `FrameBudget`: a store record of an older client without a count (host.ts:250).

## Plan

1. (done) The engine: `Seating`, `Host`, `Authority`, `FrameBudget`, `Relay`, `Rename`,
   `Peer`, `Sync`, `Reader`, `Receiver`, `Presence`, `Absence`; the host's theorems.
2. (done) Editor and page: `Bridge`, `Opening`, `Files`, `Acts`, `Ignore`, `Walk`, `Page`,
   `Tree`, `Menu`, `Fetch`.
3. (done) Proofs of `FrameBudget`, `Absence`, `Menu`, `Peer`, `Rename`, `Fetch`, `Sync`, `Relay`,
   `Receiver`, `Presence`, `Bridge`, `Page`, `Tree`, `Opening`, `Files`, `Acts` and `Walk`.
