# Memberberry: a TLA+ verification project

Memberberry keeps a vault of Markdown notes on disk, serves them through a Rust server and lets
several people edit a note at once in a browser, through a CRDT. The same Markdown files may be
edited by any other program while the server runs. This project models the parts of the
repository where that is hard: state on disk, in the server's memory and in several browsers
that must agree again after interleavings, failures and restarts. The source is the reference;
every definition names the lines it was translated from (`PROJECT.json`, `map`).

## 1. The system

| component | state it keeps | operations | talks to |
|---|---|---|---|
| note synchronization (`mb-server/sync.rs`, `mb-crdt/storage.rs`, `mb-crdt/external.rs`) | registry of rooms under one mutex; per room the peers and a `NoteCoordinator` (Y.Doc, last-written hash, write deadline); on disk the Markdown, the append-only CRDT sidecar and the `.last-write` marker | subscribe, unsubscribe, disconnect, apply update, restore, close, flush all, maintain | history, watcher (through maintenance), sync socket |
| history (`mb-server/history.rs`) | compressed snapshots per note | record with coalescing, thin, list, read, diff, remove all | called by synchronization, trash |
| watcher (`mb-server/watch.rs`) | bounded set of dirty paths, overflow flag | touched, overflowed, merge, take | maintenance loop in `http.rs` |
| sync socket (`mb-server/http.rs`) | per connection: session, subscribed notes | one frame at a time, authorized frame by frame | registry |
| browser transport (`web/src/editor/sync.ts`) | socket, admitted, synced, in-flight updates, pending counter | send update, flush, echo, reconnect, refresh | sync socket, offline replica |
| offline replica (`web/src/offline/*.ts`) | IndexedDB: resident notes, dirty markers, pins; one local document per note | open, update resident, pin, evict, reconcile, prefetch | transport, server catalogue |
| rename (`mb-server/rename.rs`) | none of its own: the note file, its sidecar, inbound links in other notes | plan, close, move, relocate, rewrite | registry, index |
| trash and creation (`trash.rs`, `create.rs`) | `.memberberry/trash` entries, history | create, delete, restore, purge | registry, history |
| index (`mb-index`, `indexing.rs`) | SQLite: notes, links, tags, zones | sweep, upsert, remove, queries | maintenance, rename |
| permissions (`mb-core/permissions.rs`, `access.rs`) | `access.toml` | effective role | every handler |
| authentication (`mb-auth`, `invites.rs`) | users, sessions, tokens, invites | login, revoke, redeem | every handler |
| media (`media.rs`, `web/src/editor/media-upload.ts`) | objects in the vault or a bucket, the manifest of originals, grants in memory; a queue in the browser | upload, clip, materialize, prune; queue, flush | maintenance, index, notes |
| vault registration (`vault_locations*`, `http/vault_registration*`, `http/onboarding.rs`) | `server.toml`, receipts, the live registry of vaults, policies, indexes and watchers | discover, preview, confirm, make a directory, register by the form | startup, admin UI, watcher, index, command line |
| parser, serializer, diff, conflict merge, rewrite (`mb-core`, `mb-crdt`) | none: pure functions | | everything |
| shell and editor (`web/src/shell`, `web/src/editor`) | panes, tabs, editor state | user interface | transport |

Hard behaviour, by origin:

* the file of a note has writers that do not take the server's lock (other editors, `git pull`),
  so anything read from it is stale when used;
* an operation is several writes to several files, and each may fail or be the last one before a
  crash;
* a room's life depends on subscribers, on a deadline and on whether the last write worked;
* a browser loses its socket between an edit and its echo, and comes back with both an offline
  history and a server that moved on;
* IndexedDB transactions interleave with user input, so a decision made on what was read may no
  longer hold when it is carried out;
* rename, delete and restore touch a note while others edit it.

## 2. Plan

Most important first; each line is one module with its MC module, runs and, where given, proofs.

Done:

1. `DurableNote`, `NoteSync` (section 3): one note under the registry implements an abstract note
   in which an edit is durable at the step it is served at. Proved: types, durability of accepted
   edits, the sidecar equals the served document, the server's own write never reverts an edit,
   a quiet room agrees with its file, and the implementation.
2. `SyncProtocol` (section 4): the browser transport against the sync socket. Proved: what a tab
   calls saved is in the server's log, no echo takes more off the count than is on it, no tab
   gives up over lost connections, refused updates and reloads, and the types with their bound.
3. `OfflineReplica` (section 5): residency, dirtiness, pins and eviction over IndexedDB
   transactions, with the reconciliation with the server's catalogue. Proved: types, what was
   revoked stays gone, and a record without the flag has nothing unsent.
4. `ChangeQueue`, `WatchSignal` (section 6): the watcher's signal implements an abstract change
   queue; checked and proved.
5. `VaultIndex` (section 7), which extends `WatchSignal`: the maintenance loop and the index.
   Proved: types, what a walk leaves behind is right, and the signal keeps its promise inside the
   loop.
6. `NoteLifecycle` (section 8): creation, rename, delete, restore and purge over rooms, sidecars,
   markers and linking notes, with crashes and failures between the calls. Proved: types and
   every safety property the run checks.
7. `VaultRegistration` (section 9): how a directory becomes a vault of the running server.
   Proved: types and every safety property the run checks.
8. `MediaStore`, and `MediaQueue`, which extends it (section 10): uploads, originals, grants and
   the maintenance loop on the server, and the upload queue of the browser. Proved: types and
   every safety property the run checks, and that the store with its pages implements the store.

What would come next:

9. `Permissions`: `effective_role` against a reference definition, with proved lemmas; then the
    sync socket with access that changes between frames, composed with `NoteSync`.
10. `Retention`, `ConflictMerge`, `ExternalDiff`: pure algorithms against reference definitions.
11. Invites and sessions, folders, audit rotation as far as they go.

The modules are written to be proved about: parameters are CONSTANTS with named assumptions, one
action per step of the code, no recursive operator.

## 3. NoteSync

`NoteSync.tla` is one note: `sync.rs`, with the `Sidecar` of `storage.rs` and the `record` of
`history.rs` as far as they decide what the note says. The registry holds one mutex over all
rooms, so one handler runs at a time and notes do not influence each other; one note is enough.

State and code:

| variable | code |
|---|---|
| `file` | the Markdown: a set of top-level blocks and whether the bytes are the canonical serialization |
| `marker` | `.last-write`, the hash of the content the document is built on (the content stands for its hash) |
| `sidecar` | what replaying the CRDT log yields, whether the log exists, whether a record in it is broken |
| `room`, `peers` | `SyncRegistry.rooms[note]` and its subscribers |
| `doc`, `last`, `due` | `NoteCoordinator`'s `doc`, `last_written_hash`, `write_due` (none, armed, elapsed) |
| `op`, `pc`, `who`, `read` | which handler holds the lock, its next step, and its locals |
| `versions` | the history version a user may restore |
| `used`, `typed`, `saved`, `foreign` | history variables: blocks ever written, accepted from clients and not removed by a person, saved by external editors and not removed, and whether the file's bytes are an external editor's |

A handler is its request action and then steps, one per write to the disk or read of the file:
`subscribe` is `Subscribe`, `Load`, (`Rebuild`, `RebuildMarker` | `Recover`, `WriteFile`,
`WriteMarker`, `WriteHistory`), `Inspect`, `ImportMarker`, `ImportHistory`, `ImportSidecar`,
`Admit`; maintenance is `Maintain`, the write steps when due, the inspection when the note is in
the changed set, and `Retain`; and so on. Between two steps anything of the world may happen
(`ExternalEdit`, `Elapse`), the process may die (`Crash`), and the step itself may fail
(`ReadFails` ... `SidecarFails`), each failure taking the code's early return (`Fail`). `Faults`
says which failures an instance has.

`DurableNote.tla` is what the room is for: what is read back after a restart (`content`), what is
served (`served`, at most one document) and whether the whole document has been changed and is not
durable yet (`replacing`). An edit moves the two together by one block; what a note is opened with
is what is read back; it may stop at any moment; and only an import or a restore of an open note
(`Replace`) is ahead of what is read back, takes no edit meanwhile, and ends with `Settle` or
with the loss of what it served. `NoteSync` maps the replayed log to `content`, the document of a
room to `served`, and the steps between the change of the document and the replacement of the
sidecar to `replacing` (`Note`); `ServesDurably` says that every behaviour is one of `DurableNote`.

An edit of a client (`Insert`, `Delete`) is one action: `apply_remote_update_as` appends and
fsyncs under the lock before it touches the document, and nothing observes the state between.
Its two failures are actions of their own (`AppendFails`, `CrashInAppend`). The one case this
abstracts is an append whose `sync_data` fails after the whole record was written.

Abstractions: a block stands for one version of a paragraph, written by one person, so an edit of
a paragraph is a `Delete` and an `Insert`; deleting the file, renaming, and the schema revision's
details are left out (a subscriber of another revision is only removed, `SubscribeStale`); an
authorization check that fails removes the peer, so `Broadcast` keeps any subset of the peers;
compaction rewrites the log with the same content and is a stuttering step; `record`'s coalescing
decides only whether the remembered version changes.

### Runs

| run | bounds | failures | shows |
|---|---|---|---|
| `notesync_crash` | 3 blocks, 1 peer | crash, read, file | `TypeOK`, `AcceptedDurable`, `SidecarCurrent`, `MaterializedWhenQuiet`, `OwnWriteNeverReverts`, `ServesDurably` |
| `notesync_live` | 2 blocks, 1 peer, fair | file | `EventuallyMaterialized`, `ExternalEditArrives` |
| `notesync_release` | 1 block, 2 peers, fair | all eight | `EmptyRoomReleased` |
| `notesync_recover` | 2 blocks, 1 peer | crash | `RecoveryKeepsSaved` is violated |

Three blocks are one that is in the file before the note is opened, one typed and one saved by an
external editor in the same execution, which is what every property distinguishes; `AtMostOne`
lets one external save add and remove at most one block. One peer is enough where peers only
decide whether the room stays; `notesync_release` has two. Blocks are symmetric, except in the
runs with fairness.

Fairness (`Fairness`): a handler that holds the lock runs to its end; the maintenance loop of
`serve_listener` ticks every interval and sweeps the open notes periodically, and gets the lock
even though others take it in between (strong fairness of `Maintain("sweep")`); the deadline
passes (`Elapse`); and a failing disk write succeeds in the end when retried (strong fairness of
the three write steps). Nothing is assumed of requests, external editors or other failures.
Blocks are finite, so people stop typing in the model. In the code endless typing arms the
debounce again and again (sync.rs:957) and the Markdown waits for the first pause, which is what
SPEC.md:121 wants; `EventuallyMaterialized` says nothing of it.
The two properties of `notesync_live` are checked without crashes and without a failing
replacement of the sidecar. With either, `ExternalEditArrives` fails for the reason
`notesync_recover` shows: the marker already has the external content, so no inspection imports it
again. With a failing replacement `EventuallyMaterialized` fails too: the log then lacks what later
edits depend on. Without fairness of reads neither can hold. `EmptyRoomReleased` speaks of the
room only, and one block is enough to make it owe a write.

### What the code does that the documents do not say

`notesync_recover` checks what `SPEC.md` says of a file that matches its marker and shows an
execution of the code that does otherwise: `inspect_external_change` writes the marker before the
sidecar holds the content, and after a crash between the two the next start takes the external
editor's file for the server's own and overwrites it. The quoted line is under `findings` in
`PROJECT.json`.

Known divergences: the module also has the following behaviour. No listed run is spent on them;
each was found with a property of its own, and the instance that shows it is named.

* Import. `inspect_external_change` makes the document equal to the file (sync.rs:1024), so an
  accepted edit that waits for its debounce disappears without a conflict callout, where SPEC.md:181
  promises divergent versions. No failure is needed.
* Overwrite. Maintenance flushes a due note before it inspects it, and `write_markdown` does not
  look at the file (sync.rs:713-727, 1043): a file saved since the last inspection is overwritten,
  where SPEC.md:166 calls external edits first-class. No failure is needed.
* Snapshot. `last_written_hash` is assigned after `history.record` returned (sync.rs:1045-1052).
  With "history" in `Faults`, `OwnWriteNeverReverts` is violated: the server's own write is later
  imported over newer typing.
* Torn log. An append that failed part-way leaves bytes that later records follow
  (storage.rs:112-136), and the log is refused as a whole at the next start. With "append" in
  `Faults`, `AcceptedDurable` is violated.
* Restore. A restore whose sidecar cannot be replaced has already changed the document in memory
  (sync.rs:962-972), with no write owed and no subscriber told. With "sidecar" in `Faults`,
  `MaterializedWhenQuiet` is violated.

These executions also explain the assumptions of the properties that hold: `typed` and `saved` forget a block
as soon as a *person* removes it, an import counts as the external editor's removal, and
`AcceptedDurable`, `OwnWriteNeverReverts` and `ServesDurably` are checked and proved without
failing appends, markers, snapshots and sidecar replacements.

### Proofs

`NoteSync_proofs.tla` proves for every `Block`, `Peer` and (where nothing is said) `Faults`:

* `ShapeInvariant`, `TypeCorrect`: types, and `HandlerShape`: which handler can be at which step
  and whether its room is there. Any set of failures.
* `DurabilityInvariant`, under `OnlyCleanFailures` (`Faults \subseteq {"crash", "read", "file"}`),
  and from it `AcceptedAreDurable`, `SidecarIsCurrent`, `OwnWritesNeverRevert`.

`AcceptedDurable` alone is not inductive: that a sidecar replacement does not lose an accepted
edit depends on the document holding it, which after a load depends on the log being whole
(`LogWhole`, `LogFollowsDoc`), and that an import of the server's own file does not lose it
depends on the hash in memory being the marker's (`MarkerFollowsHash`) and on what a file the
server wrote last is to both (`OwnFile`). `OwnFile` carries the interesting case: after a crash
between the file and its marker the two differ although no editor wrote, and then the file holds
every accepted edit, because it was written from the document and nothing can be accepted before
the note is opened and inspected again. The step lemmas have one case per action.

* `QuietAgrees` (`MaterializedWhenQuiet`), for any failures but that of replacing a sidecar. Its
  invariant `QuietInv` says when the document and the file agree (`Agrees`), what an import is at
  each of its steps (`Importing`), and that whatever is not written is due or is being written: a
  write that fails leaves its deadline armed again, and a room that has not imported a file yet
  has no subscribers.

* `RoomIsDurableNote` (`ServesDurably`), under `OnlyCleanFailures`: the initial states map to
  `DurableNote`'s (`NoteInit`), and every step maps to one of its steps or to a stutter
  (`NoteHandlerStep`, `NoteRequest`, `NoteWorld`, `NoteFailure`). It needs `DurabilityInv`: that an
  opened note is a `Serve` and an edit an `Edit` is `LogFollowsDoc`. Other failures break it where
  they break the other two: a marker, a snapshot or a sidecar that cannot be written during an
  import leaves a document that is served, never settled, and edited on.

Model-checked only: the liveness properties.

## 4. SyncProtocol

`SyncProtocol.tla` is the browser's side of one note, `connectRemoteSync` of
`web/src/editor/sync.ts`, against `sync_socket` and `handle_sync_frame` of `http.rs` and what the
registry answers. The document is a CRDT: `Replica` is a state vector (how many insertions of each
author are in it) and a delete set, `Missing(d, v)` is `encodeStateAsUpdate(d, v)`, which always
carries the whole delete set.

| variable | code |
|---|---|
| `client[c]` | the provider: `doc`, `pending`, `inFlight`, the current socket, `connected`, `admitted`, `synced`, the schema refusal, the retry timer, `destroyed`; `mine` is the last report to `onServerState` |
| `sock[c][s]` | one socket: its `readyState`, whether the listeners are on it, whether the server serves it and has it in the room, the frames in both directions |
| `log` | the document of the room, durable before it is broadcast (what `NoteSync` proves) |

A tab is single-threaded, so a listener runs to its end: the operators on `w` (`Send`,
`SendUpdate`, `Flush`, `Detach`, `Offline`, `OnSync` ...) are the provider's functions, and an
action installs their result. Frames of one connection are delivered in order. A dead socket
still says it is open until its close event, and a socket the provider left is served until the
server notices.

Mishaps (`Trouble`, bounded by `MaxTrouble`): a dropped connection, which also stands for a server
restart and for a rate limit that closes the socket; network events of the browser
(online/offline/visibility); an update refused by a failing append; a subscription that fails;
a room closed under its subscribers by rename or delete; and a reload, which keeps the whole local
replica (what the editor's persistence may still have buffered is not modelled). `Disk` is the
author of edits the server imports from the file. The schema revision of both sides is the same,
so a refusal is always wrong (`NeverTerminal`).

Left out, none of which changes what a listed property says:

* `AcceptUpdate` is one step. The code asks whether the connection is in the room
  (http.rs:943-948) and applies the update (956-968) under two locks, so a room may be closed, and
  opened again by someone else, between them; the update is then accepted without an echo to its
  sender, or refused. An update accepted without an echo leaves the tab's count too high, never
  too low.
* `Broadcast` reaches all peers: that a peer who may no longer read is dropped without a word
  (sync.rs:807-810) belongs to permissions, which are not modelled.
* After `CloseRoom` an update is answered `refresh_required`. If the room was closed by a rename or
  a delete the path is gone and the code answers `not_found`; `close_room` is in `Trouble` of
  `sync_pair` only, which does not check `NeverTerminal`.

| run | bounds | shows |
|---|---|---|
| `sync_pair` | 2 tabs and the disk, 2 sockets each, 1 edit each, 1 mishap of any kind | `TypeOK`, `SavedIsDurable`, `InFlightIsPending` |
| `sync_fair` | 1 tab, 1 deletion, 2 mishaps (drop, refusal, reload), fair | `NeverTerminal`, `Converges` |

One mishap gives two overlapping sockets (an online event while one is connecting, or a drop and
the retry); two tabs matter for frames that are not one's own echo. The instances are small:
in `sync_pair` a tab makes one insertion, so its count is one at most, and the one mishap is spent
on the overlap, so the close of a first socket that then breaks does not act on the second; in
`sync_fair` one tab with one edit leaves no gap to fit into. Larger counts, several insertions, any
number of mishaps, and the order of frames rest on the theorems below. A deeper instance of the
safety properties, one tab with 3 sockets and 3 mishaps of any kind (1.2 million states), passes
as well and is left out of the listed runs. These runs do not check deadlock: edits and mishaps
are bounded, and after the last one every frame is delivered and the system rests.

Fairness: timers fire, frames and close events arrive, the server serves what it received. That
close events arrive is more than TCP promises: a connection that is half open, with nothing to
send, may stay so until the browser's or the system's own timeout.
Nobody has to edit, and nothing has to go wrong.

Known divergences:

* Refusal. `handle_sync_frame` answers every error of a subscription, an unreadable file included,
  with `schema_refresh_required` (http.rs:926), on which the tab stops for good, where sync.ts:25
  says of a closed connection "so it is retried forever". With "fail_subscribe" in `Trouble`,
  `NeverTerminal` is violated.
* Online. `onOnline` asks only whether the tab is connected (sync.ts:399), so an event while a
  socket is connecting attaches a second one over the first, whose close then detaches the second.
  No edit is lost (`sync_pair` has it), the tab reconnects.
* Two-sided. The difference to the server always carries the delete set (sync.ts:292), so once
  anything was deleted a change made only on the server is reported with `mine`, where sync.ts:96
  says it is absent for a one-sided change.

### Proofs

`SyncProtocol_proofs.tla` proves `EchoesAreCounted` (`InFlightIsPending`), `SavedIsInTheLog`
(`SavedIsDurable`), `NeverGivesUp` (`NeverTerminal`) and `ProtocolTyped` (`TypeOK`) for every set
of tabs, sockets, edits and mishaps and every bound on them. None of them is inductive. The first
two follow from
`LedgerInvariant`:

* `Ledger` of a tab: the count is at least what the echoes of the updates in flight will take off
  it, and if it is not more, whatever the tab holds is in the log or in one of those updates. The
  step that needs care is a flush: it counts the updates it sends one by one, and an update that
  finds the socket already dead is counted all the same.
* Every frame from the server carries only what is in the log, so what arrives never makes a tab
  hold more than that, and an echo is of an update the log has.
* The types here are those of `TypeOK` without the bound `MaxEdits` on the authors' counters.

`NeverGivesUp` proves `NeverTerminal` under `OnlyTransientTrouble`: of the mishaps, a failed
subscription and a closed room are ruled out, because the server does answer those with a refusal
(the first is the divergence above; after the second the update of a socket that is no longer in
the room is refused, http.rs). Everything else may happen, as often and in any order. Its
inductive invariant, `OrderInv`, is about the frames on their way, which `LedgerInvariant` says
nothing of; TLC found it to hold of two tabs with every socket, before it was proved.

* Down. On the socket the page is connected on (`Stream`), no state and no update comes before an
  admission (`Announced`), every update starts at or before what the tab holds or an earlier frame
  brings (`Linked`), and with the last of them the tab has everything the log has (`Reaches`).
  The last part is what makes the second inductive: an update joins the log only where it `Fits`,
  so it starts no later than where the frames before it end. Echoes need `Holds`: what is in
  flight is already in the tab's document.
* Up. An update is on its way only on a socket the server has in the room, and never behind an
  unsubscription (`SocketOrder`): the page sends nothing but its subscription before it is
  admitted, and unsubscribes only on a socket it closes.
* Sockets the page has left are either not listened to or `Fresh`: never connected, so silent.
  This is where the overlapping attachments of the second divergence above could have gone wrong.

`ProtocolTyped` adds the bound, by `BoundInv`. The guard of an edit looks at the tab's own
document, but merging the server's state may make the tab edit what it has just merged, so the
bound alone is not inductive: the server could send a tab more of that tab's insertions than it
has. It never does. `Cap` is what each tab's document has of the tab's own insertions, and every
vector in a document, in flight, in a frame and in the log stays under it; a step of a tab raises
it by at most its one edit.

`Total` sums the counts in flight by a recursive function over their positions. The facts about it are proved by
taking the least number at which one fails (`Least`, `Induct`), because the library's induction
theorems take an operator as a parameter.

## 5. OfflineReplica

`OfflineReplica.tla` is one browser and one vault: `offline/replica.ts`, `eviction.ts`,
`prefetch.ts`, the stores of `db.ts`, and `trackResidency` and the life of a pane in
`shell/note-surface.ts`.

| variable | code |
|---|---|
| `resident`, `unsynced` | the records of the bodies store in order of `openedAt`, and which say `dirty` |
| `pins` | the pins store |
| `body` | the note's own database, written by the editor's persistence (y-indexeddb, external) |
| `calls` | transactions called and not yet run, in the order of the calls |
| `pane` | an open note: its session, document, what its transport announces, its eviction sweep |
| `catalog` | the reconciliation in progress (`note-catalog.svelte.ts` runs one at a time) |
| `readable`, `server` | what the user may read, what the server holds |
| `late`, `used` | history: notes opened since the last reconciliation began, edits typed |

Every `await` on the bodies store is a call and, later, its transaction (`RunAsk`, `RunOpen`,
`RunEvictList`, `RunCatalogDelete` ...); panes, sweeps, the prefetch and the reconciliation
interleave there. Reads and writes of the pins are one step. `Sync` and `Acknowledge` are the
transport as `ConnectionState` shows it: the server's state arrived, what is pending went to zero.
`DropBody` cuts open panes off their persistence, as a deleted database does. `Cap` is the number
of records, the byte half of the cap is left out; a cap of 0 stands for one already filled by
pinned or unsent notes. `Prefetch` reads the pin list per note, the code once per sweep.

| run | bounds | shows |
|---|---|---|
| `offline` | 1 note, 2 panes one after the other, 2 edits, in two worlds | `TypeOK`, `CleanMeansSent`, `RevokedStaysGone` |

The panes come one after the other: what a fresh transport's zero may do is caught, what two panes
of one note do to each other is not. Two at the same time are excluded (`Shared = FALSE`): with `Shared = TRUE`,
`CleanMeansSent` is violated (below), while `RevokedStaysGone` still holds, in an instance of 5.7
million states that is too long for a listed run.

The two worlds are initial states (`MCWorld`). In `Calm` people type, there is room for one
record, access is only lost, and pages end at rest: it is where `CleanMeansSent` can fail. Access
does not come back there because a purge by an old answer may delete the record of a note that is
readable and open again; quits are at rest because a page that dies between the first edit of a
session and the transaction that would say dirty leaves the flag behind. In `Rough` nobody types,
the cap is 0, access is lost and regained and pages die at any moment: it is where
`RevokedStaysGone` can fail.

Known divergences:

* Eviction. `evict` decides on the records it read in one transaction and deletes bodies in later
  ones without looking again (replica.ts:203-209): a note typed into in between loses its unsent
  edit, where SPEC 7.2 says eviction never touches notes with unsynced changes.
* Two panes. Every pane writes the one record of the note from its own transport's count
  (note-surface.ts:145-165): a second pane that is in step clears the flag of the first one's
  unsent edit.
* Purge. `reconcile` knows a body by its record or an open session (replica.ts:157-186); a body
  whose record died with the page is not deleted when access is lost.

### Proofs

`OfflineReplica_proofs.tla` proves the run's three properties for all sets of notes, panes and
edits and in every world: `ReplicaTyped` (`TypeOK`) and `RevokedAreGone` (`RevokedStaysGone`) with
`Shared` or without, and `CleanIsSent` (`CleanMeansSent`) under `OnePaneEach`, which is
`Shared = FALSE`, without which it does not hold (above).

* `ShapeInv` says who waits for what. A transaction at the head of the queue changes its caller as
  if the caller had waited for it, and nothing in the queue says so; so `Queue` ties the two: each
  caller waits for at most one call of its own (`Standing`), a measurement waits for nobody and
  comes after the opening of its pane, and the size is the last call of a pane. There is one lemma
  per action.
* `Gone` carries the revocation. A session that is not revoked is of a note the last answer lists,
  or is younger than it, and so is every record, unless the reconciliation has not read the list
  yet or still has the note to delete. The records themselves change in `Opened`, which a
  revoked session does not do, and in deletions.
* `Truth` is what makes a clean record right. `RecordTrue` says why a note with something unsent
  cannot look clean: a session that shows it knows (`LiveDirty`), or the record has the flag and
  nothing queued takes it away, or the reconciliation is going to drop the body (`Going`).
  `Counted` follows such a session's word through the queue: if it is dirty, the record says so or
  a call in the queue does, after which no call of its own says otherwise (`EndsDirty`), and a
  deletion that an eviction queued is followed by the session's opening (`DeletesBeforeOpen`).
  `SessionTrue` and `BodyTrue` give the session's word its meaning: it says clean only after the
  server's state has come, and what its document holds beyond the server's is pending. Nothing
  in that mentions access. It is `DenialTrue` that does: between a denial and the end of its
  purge, every record and every session that found one is on the list, because the answer was
  taken before the records were read (`ListsFirst`). `OneEach` is why one session's zero
  never overwrites another's edit. The invariant was checked by TLC before it was proved: in
  full for 1 note, 2 panes and 2 edits, and on random behaviours with 2 notes.
* The prover has no induction over data, so `Least` and `Induct` derive from the library's facts on
  numbers what the lemmas about the recursive function `evicting` need.

## 6. ChangeQueue and WatchSignal

`WatchSignal.tla` is `WatchSignal` of `watch.rs`: watcher threads call `touched` and `overflowed`
while the maintenance loop calls `take`. The steps are the accesses to the mutex and to the flag:
`take` swaps the flag without the mutex (`TakeSwap`) and then empties the set behind it
(`TakeClear`, `TakeSet`); `touched` at the bound clears the set and sets the flag, holding the
mutex for both (`TouchClear`, `TouchFlag`). A poisoned mutex (a panic inside `BTreeSet`) is left
out.

`ChangeQueue.tla` is what that is for: a reported path is in what one of the next two takes hands
out. Two and not one: a watcher that gives the set up between the swap and the take leaves the
flag for the next. `HandsOut` says that the signal implements the queue, with the history
variables `fresh` and `waiting` as the queue's state; `index_catch` (section 7) checks it, and
`WatchSignal_proofs.tla` proves it for every set of paths and every capacity:

* `SignalInvariant`: `FreshIsHeld` (a fresh report is in the set or a flag stands for it) and
  `WaitingIsFlagged` (one that was passed over was passed over because the flag was set behind the
  take's back). The second is what `TakeSet` needs: a take that saw no flag owes nothing older.
* `SignalTypeCorrect` (the set keeps its bound) and `SignalHandsOut` (`HandsOut`) follow.

## 7. VaultIndex

`VaultIndex.tla` extends `WatchSignal` with the files, the maintenance loop of `serve_listener`
and the index: `indexing.rs` (`reconcile`, `touched`, `reindex`) and `mb-index` (`reconcile`,
`upsert`, `publish`, `try_open`).

| variable | code |
|---|---|
| `file`, `writes`, `events` | the Markdown files with their stamps, and events not delivered |
| `row` | the SQLite rows of a note: the text they were made from (its hash) and the stamp |
| `found`, `queued` | full-text documents published, and what the Tantivy writer holds |
| `job` | the tick: where it is, the walk or the paths, the note being read |
| `steady` | history: paths that did not change, and were read if tried, since the walk listed them |

A note is read in three steps (`StampNote`, `ReadNote`, `Upsert`), between which it may change;
rows are committed note by note and full-text documents once at the end (`Publish`). A walk lists
and stamps in one step: a path that changes meanwhile is not `steady`, whichever it was. Notes are
visited in any order. A pass may end early: the vault cannot be listed or a row not be removed
(`PassFails`), a note's rows are rolled back, or they are committed and its new documents refused
after the old ones were queued to go (the two paths of `UpsertFails`), and the commit of the
documents may fail and keep or drop what was queued (`PublishFails`). Opening a corrupt database, zones, and the synchronous walk of rename are
left out.

| run | bounds | failures | shows |
|---|---|---|---|
| `index_walk` | 2 paths, 2 texts, 2 writes, set of 1 | crash, lost events, reads, listings, row and full-text commits, refused documents | `IndexTypeOK`, `WalkIsRight` |
| `index_catch` | 2 paths, 2 texts, 2 writes, set of 1, fair | lost events | `HandsOut`; `WalkCatchesUp`: `CatchesUp` by the walks, whatever events are lost; `HintCatchesUp`: by the signal alone where none is |

A set of one path overflows with two; two writes are one before and one during a pass, or one in
each of the three steps' gaps over two passes. Fairness (`Running`): the loop ticks, a pass goes
on, the watcher's thread runs. That the periodic walk comes round is the premise of
`WalkCatchesUp`, that no event is lost the premise of `HintCatchesUp`; both premises hold in some
behaviours of the instance and fail in others. Writes are bounded, so files stop changing.

`CatchesUp` speaks of rows and full-text documents; the only fault of `index_catch` is lost events.
With crashes or failing full-text commits it does not hold, for the reason given below; `WalkIsRight`
has them, and speaks of rows. Stamps tell changes apart in the model: a same-length change within one tick of
the filesystem's clock is not seen by a walk (write.rs:126-131), only through the watcher.

Known divergences:

* Torn commit. `upsert` commits the rows and the content hash of a note before its full-text
  documents are queued (write.rs:205-207). A crash in between leaves search wrong about the note:
  later walks find the hash unchanged. The model has it, with "crash" in `Faults`.
* Refused documents. The same window without a crash: `search.replace` queues the removal of the old
  documents and then fails on a new one (write.rs:207-213), or the whole commit fails
  (write.rs:240-250). The pass ends with an error, but the rows say the note is done, so search
  misses it until it changes again or the index is rebuilt. The model has it, with "publish" in
  `Faults` (`UpsertFails`, `PublishFails`).
* Sweep. The recovery sweep of the open notes replaces `changed` by `All` before the index gets
  its copy (http.rs:6309-6320), so every five seconds the index lists and stamps the whole vault,
  where the comment at http.rs:6317 says the copy is the watcher's own report. `Maintain` has it
  (`sweep` widens what the index gets); only work is wasted.

### Proofs

`VaultIndex_proofs.tla` extends `WatchSignal_proofs` and proves, for every set of paths and texts,
every bound and any failures, `IndexTyped` and `WalkedRight` (`WalkIsRight`), and, where the
process does not die, `LoopIsHanded` (`HandsOut`). The invariant is `WalkInv`:

* `SignalInv`, from the proofs of the signal: every step of the loop is a step of `WatchSignal`,
  a stutter, or the death that makes a new signal. `LoopIsHanded` is that argument without death.
* `JobShape`: at most one note is being read, a walk reads notes it found, and nothing is in hand
  where the code is between two notes.
* `StampsPast`: stamps are those of changes already made, so a note that is written again has a
  stamp no row has. `Fresher` follows it: a row whose stamp is the file's has the file's text,
  also while a note is between its stamp and its rows.
* `Settling`: what a walk has settled about the notes that keep still: found or removed, read or
  in hand or still to be read. At the end nothing is in hand, and that is `WalkIsRight`.

## 8. NoteLifecycle

`NoteLifecycle.tla` is the way of the notes of one vault between paths and trash: `create.rs`,
`rename.rs`, `trash.rs`, the handlers of `http.rs` that call them, and the rooms as far as they
meet those.

| variable | code |
|---|---|
| `file`, `sidecar`, `marker` | Markdown, CRDT log and `.last-write`, per path and per trash entry; a text is its title, what was typed, and one link |
| `entry`, `deleted`, `expired` | trash metadata: path and time of deletion, and the entries past their retention |
| `room` | `SyncRegistry.rooms`: document, last written hash, whether a write is due |
| `op` | the request in flight: its kind, its next call, source, destination, the planned texts |
| `owner`, `typed`, `cut`, `left`, `outdated` | history: which note's file is where, for which note an edit was accepted, notes purged or stranded by a request cut short, those of them whose marker or sidecar was left behind, edits a text without them is put over |

| request | its steps |
|---|---|
| `delete_note` | `Delete`, `Close`, `Move`, `WriteMetadata` or `WriteMetadataFails`, `MoveMarker`, `MoveSidecar`, `Finish` |
| `restore_trash` | `Restore`, `Move`, `MoveMarker`, `MoveSidecar`, `RemoveMetadata`, `Finish` |
| rename of a note | `Rename`, `FlushOpen`, `Plan`, `Close`, `Move`, `MoveMarker`, `MoveSidecar`, `Write` per planned text, `WriteDone`, `Finish` |
| purge | `Purge` of one entry, 1 to 4 calls far; every request on the trash purges first (`Purged`) |

Rooms are opened, typed into, flushed, left and inspected between requests (`Open`, `Type`,
`Link`, `Flush`, `Leave`, `Inspect`), each in one step: what happens inside one registry call is
the matter of `NoteSync`. Creation is one call, whose body may not get into the new file. Left
out: folders, tags and emoji (the same `write` loop over more notes), the parsing behind a link,
history versions, the reconciliation of the index that follows.

| run | bounds | failures | shows |
|---|---|---|---|
| `notes` | 3 paths, 1 trash id, 2 notes, 1 edit, links to one path, 4 requests or crashes, 1 in flight | crash, io | `TypeOK`, `NoTwins`, `AcceptedSurvives`, `NothingResurrected`, `LinksFollow` |

Three paths are one for each note and a free destination. Four events are two creations and a
rename and a crash, or one creation, delete, restore and a second note at the old path. One
request is in flight, and rooms are not used meanwhile (`Quiet`), because the code does not
exclude either and the properties then fail, as listed; `Handler` and `Trouble = {"window"}` widen
both. Behaviours end when the events are used up, so deadlock is not checked.

Both `AcceptedSurvives` and `NothingResurrected` speak of what is left when no request runs.
`AcceptedSurvives` leaves out notes in `cut` and edits in `outdated`; a request cut short before it
began to move anything, or after it was done, puts nothing into either. `NothingResurrected` leaves
out only notes in `left`: a failure or a crash came after the file had moved and before its marker
and sidecar had, which is the first divergence below. Purges cut short, a note that was purged, a
rename cut short among its links, a restore that died before its metadata went, and planned texts
are not excepted.

Known divergences:

* Left behind. A delete, restore or rename that fails or dies between the move of the file and that
  of the marker and the sidecar (trash.rs:99-112, rename.rs:215-223) leaves the two at the old
  path. A note made there later with the bytes the marker stands for (as when a note is created
  again under its name, in which the first one had never been written beyond its heading) is taken for the file
  the server wrote last, and is opened with the old sidecar: it shows what was typed into the other
  note. trash.rs:108-110 says that moving the sidecar prevents exactly this, and sync.rs:1058-1063
  the same of a rename. With `left` taken out of `NothingResurrected` the run finds it.
* History. A purge removes the history of the path the note was deleted from (trash.rs:211), also
  when another note lives there by now or when the note was renamed, where SPEC.md:4007 ties
  history to the note.
* Overlap. A rename in flight and a delete of the same or of a linking note leave two files of one
  note, or a planned text where the note was (trash.rs:3-4 says one move is atomic; the request is
  not).
* Window. A subscriber between `close` and the move opens a room whose flush recreates the file at
  the old path (http.rs:1524-1525, sync.rs:664-667).
* Check, then rename. Restore and rename look whether the destination is free and then call
  `fs::rename`, which replaces a note that was created meanwhile.
* Stale plan. A rename plans from the files, so what is accepted but only in the sidecar (after a
  crash, before the note is opened again) is put over by the planned text, as is what is typed into
  an open linking note before its import.
* Cut short. A death between the move and the sidecar's move leaves the accepted rest behind; one
  before the trash metadata leaves a body no list shows; a restore that dies before it removes the
  metadata leaves an entry whose purge deletes the history of a live note.
* rename.rs:38-39 says that running the rename again fixes what is left. Once the file has moved,
  the old title is gone, and a second run has nothing to rename.

### Proofs

`NoteLifecycle_proofs.tla` proves for every set of paths, trash ids, notes and edits, any number
of requests and any failures:

* `LifecycleTyped` (`TypeOK`), with `RequestShape`: which request is at which step, between which
  places (`TypeInv`).
* Under `OneAtATime` (one handler, and no window), `TwinsNever` (`NoTwins`): `Homes` says that an
  open room is that of the note whose file is at its path, and `Ways` where the note of a request
  is at each step, and that the path it left or goes to has no room that could write there. Both
  are needed: a room left open behind the move is how the file would come back.
* Under `OneAtATime`, `LinksKept` (`LinksFollow`): `LinkInv` follows a rename from the flush
  (`Paid`: no room owes a write) over the plan (`Before`: the planned texts and the files that
  have none say what every link led to) to the writes (`Behind`: what is planned and not yet
  written leads to where it should), with the note that links to itself as a case of its own.
* Under `OneAtATime`, `AcceptedKept` (`AcceptedSurvives`), from `KeepInv`, which also speaks of the
  states between the calls of a request. Its parts: `Belongs`, every text on the disk was typed into its note or into one
  that is cut, where a sidecar or marker that has not moved yet is counted to the note that left
  it behind (`SidecarOf`, `MarkerOf`); `Covered`, what a marker vouches for is in the sidecar too;
  `Rooms`, what an open room, its sidecar, marker and file have in common; `Plans`, what a rename
  will write is of the note it goes to and no less than its room; `Survives`, what is kept of a
  note is what would be shown of it once the request is over (`Kept`); `Carries`, `Somewhere` and
  `Listed`, where the note is meanwhile and that the trash lists it. A crash or failure turns what
  `Belongs` counted to the moving note into something of a cut one (`KeepStopped`), which is why
  `cut` gets exactly the notes whose request was under way.
* Under `OneAtATime`, `NobodyElses` (`NothingResurrected`). `Belongs` is too weak for it, because it
  excuses every note in `cut`. `OwnInv` says of every file, marker, sidecar and planned text that
  what is in it was typed into its own note or into one in `left` (`Mine`): where a sidecar or
  marker has not moved yet, its own note is the one it was left by (`MarkerOf`, `SidecarOf`). What
  a purge has not come to yet (`Residue`) is the exception, and a harmless one: it lies in the
  trash, where nothing can be restored before the next request on the trash has finished the
  purge. A failure or a crash puts the note of whatever is not where it belongs into `left` (`OwnStopped`).

## 9. VaultRegistration

`VaultRegistration.tla` is how a directory becomes a vault of the running server:
`http/vault_registration.rs` with its `storage.rs` and `directories.rs`, the form of
`http/onboarding.rs`, and the parts of the server and of the command line that meet it.

| variable | code |
|---|---|
| `config` | `server.toml`: the registered vaults and the version of the file |
| `dir`, `policy`, `note` | what is at a vault's path, `access.toml` and the notes of a directory, as versions |
| `live` | `VaultRegistry`: per vault the policy it enforces, the stamp that goes with it, what its index was made from |
| `watch`, `kernel`, `signal` | the enrolled roots, events on their way, what maintenance is told |
| `receipt`, `expired`, `revoked` | `Receipts`, those past the deadline, sessions that ended |
| `req`, `pc`, `root`, `made`, `mine`, `seen`, `staged`, `committed`, `answer` | the locals of `execute` and `mkdir`: the request, the pinned directory and whether it is `OwnedDirectory`, the policy it wrote, what it read, the staged watcher, `committed`, the answer |
| `requests`, `writes` | counters for the bounds |
| `theirs`, `trampled`, `missed`, `late` | history: what others put into each directory; directories where the form wrote over that or removed it; vaults that have the stamp of a policy later than their own; what others did between the last look of a registration and its rename |

A preview is `Begin`, `ReadConfig`, `ReadRoot`, `IssueReceipt`; a confirmation `Begin`,
`ReadConfig`, `ReadRoot`, `TakeReceipt`, `MakeRoot`, `InspectRoot`, `Enroll`, `Enumerate`,
`InstallPolicy`, `CheckPrepared`, `IndexNotes`, `Authorize`, `Commit`, `Publish`; a new directory
`Begin`, `ReadConfig`, `ReadRoot`, `MakeRoot`, `VerifyRoot`; and each ends in `Answer`, `Finish`. A step that
refuses, `Denied` and `Fails` go to the drop of the owned file and directory (`PolicyBack`,
`RootBack`). The form is `Form` (the configuration is read, the directory made), `FormPolicy`,
`FormConfig`, `FormPublish`, and, if the policy or the configuration cannot be saved, `FormFails`
and `FormBack` (`remove_dir_all`, which may get any part of the way). Around them: access reloads
(`Reload`), watcher and maintenance (`Deliver`, `Maintain`), a restart, which is `Crash` (the
policies are loaded) and `Started` (their stamps, the indexes and the watchers), and what the server does not control: `WritePolicy`,
`RemovePolicy`, `WriteNote`, `MoveRoot`, `CliCreate`, `CliRemove`, `Expire`, `Revoke`.

Abstractions: a vault stands for its slug and its path, so collisions of titles are not told from
those of directories; every write makes a new version, as inode, bytes and stamp do; the mutex of
registrations is `pc = "rest"` (a busy answer changes nothing); temporary files, writability
probes and the second try of a cleanup in `Drop` are left out; `Authorize` is the checks up to the
last look at the configuration and the directory, after which other programs may still do
anything, and `Commit` the very last look, at the policy through the open directory, with the
rename: the instant between these two is not modelled, nor a rename that fails after it was done;
a session does not end at `commit`, whose locks keep it; maintenance refreshes an index in one
step, which is `VaultIndex`'s matter. The form holds the locks of the vaults and the policies, so
no reload and no maintenance comes between its steps; after a request has failed, `RootBack` and
`FormBack` see what is at the path by then.

| run | bounds | shows |
|---|---|---|
| `registration` | 2 vaults, 3 directories, 1 session, 1 receipt, 2 requests, 2 acts of others | `RegistrationTypeOK`, `CommitsWhole`, `PolicyFollows`, `IndexCatchable`, `ForeignKept`, `RefusedLeavesNothing` |

968,054 distinct states. One session is enough because every property speaks of one request: that
a receipt is good for its own session only (`TakeReceipt`) needs two, passes with two as well (2.2
million states, three times as long), and is in the theorems for any number. Two requests are a
preview and its confirmation; two acts of others are one change and its reversal between two
steps, or a change of the directory and one of the policy; three directories are one for each
vault and a replacement. Expiry, revocation, reload, delivery and restarts are not counted.
Behaviours end when the counters are used up, so deadlock is not checked.

Known divergences:

* Late stamp. The form and the start of the server take the stamp of a policy after they wrote or
  read it (onboarding.rs:363-391, http.rs:441-447): an edit in between is served with the old
  content until the file changes again. `FormPublish` and `Started` do this; `PolicyFollows` leaves
  the vault out (`missed`) until a reload, and is violated without that exception.
* Over others. The form writes its policy over one that came to the new directory meanwhile
  (onboarding.rs:363), and a form that fails removes the directory with everything others put into
  it, half of it if the removal fails (`remove_dir_all`, 380-384). `FormPolicy` and `FormBack` do
  this; `ForeignKept` leaves those directories out (`trampled`), and is violated without.
* Lost entry. The form loads the configuration (347) and saves it (375) without looking again: an
  entry that the command line adds in between is lost, one that it removes comes back.
  `FormConfig` does this; no property speaks of it. A confirmed registration looks again just
  before its rename (vault_registration.rs:912-957) and has the same window, only smaller: `late`.
* A vault of the form is neither watched nor indexed until a walk or a restart.
* A server that dies during a registration leaves the directory and the policy it made.

### Proofs

`VaultRegistration_proofs.tla` proves, for all sets of vaults, directories, sessions and receipts
and all bounds, the types and the run's five other properties. Its assumptions are those of the
module (`None` is none of the values and not a served state; the bounds are natural numbers).

* `TypeInv` is `RegistrationTypeOK` with `HandlerShape`, which says what a request has at which
  step: a directory from `make` on, nothing made before, no policy before `policy`. Every further
  proof starts from it. Lemmas named `Touch...` say which steps can touch the files, the live
  registry and the prepared policy; the proofs then go through those steps only.
* The exceptions are part of the statements: `OthersKept` is about directories outside `trampled`,
  `NoEditMissed` about vaults outside `missed`, and two clauses of `CommittedWhole` about commits
  with nothing `late`. The form and the start are steps of `Spec` like all others.
* `OthersKept` (`ForeignKept`): `Kept` adds that versions of others are newer than those of any
  request, which is why a cleanup that compares with `mine` cannot hit them.
* `NoEditMissed` (`PolicyFollows`): `PreparedInv` carries the comparison made in `CheckPrepared`
  through to `Publish` (the stamp published is that of the text that was parsed), and `Served`
  says of every live vault that the stamp and the text agree.
* `NoEventMissed` (`IndexCatchable`): `StagedInv` says of a registration that has enrolled its
  watcher that what the index it builds lacks of the watched directory is an event already staged
  or pending; `PublishInv`, that a path which moved since the last look did not move to the
  watched directory; `Caught` is the same fact of a live vault.
* `CommittedWhole` (`CommitsWhole`): `CommitInv` says what still holds at `commit` of what
  `Authorize` checked, unless `late` names who changed it; the rest `Commit` checks again itself.
* `RefusedClean` (`RefusedLeavesNothing`): `UndoInv` follows the cleanup: after `PolicyBack` the
  policy is gone or is not the request's, after `RootBack` the directory, or the answer says so.

## 10. MediaStore and MediaQueue

`MediaStore.tla` is the server's side of a vault's media: `media.rs`, the upload, the clip and the
grants of `http.rs`, and the two media passes of the maintenance loop. `MediaQueue.tla` extends it
with the browser's side, `media-upload.ts`.

| variable | code |
|---|---|
| `backend`, `objects` | the configured backend and what it holds; an object stands for its content address |
| `copies` | with a bucket: what the pass wrote to, or found in, the vault's `media/` |
| `manifest` | `media-originals.json` |
| `cites` | per note, the media its Markdown refers to |
| `grants` | `AppState.media_uploads`, as far as the five minutes are not over |
| `request` | an upload or clip under way: its next call, object, header, and what the header names |
| `pass` | a pass of the loop: what it protects, has still to read, found, and has still to remove or copy |
| `steady`, `bound`, `outrun` | history: what one note cited, and which displays kept their original, throughout the pass; grants a prune had not seen |
| `queue` | IndexedDB: per object no record, a record, or one with the path of its uploaded original |
| `pending` | the map of the same name: displays whose editor waits |
| `job` | a paste, a `flush` loop or a single request of the page, with its snapshot and what it resolved |
| `whole`, `given` | history: promises queued with their original before a loop saw half of the pair; displays whose path the editor got |

An upload is `Begin`, `Put` (and `Rename` in the vault), `Check` and `Retain` if it names a source
or an original, `Grant`, `Answer`. A pass is `StartPrune` or `StartMaterialize`, `ReadNote` note
by note, `ReadManifest`, then `ListStore` and `Remove` object by object, or `Copy` object by
object. Nothing excludes them from each other, and notes are saved (`Save`), grants run out
(`Expire`) and the server dies (`Crash`) at any moment. A paste is `Paste`, `SendOriginal`,
`SendDisplay`, or, without a connection, `QueueOriginal` and `QueueDisplay`; a loop is
`StartFlush` and per record `Pick`, `Send`, `Sent`, `Tell`, `Drop` or `Refused`; any number of
loops may overlap, because `flush` runs when the page opens and at every `online` event. A
connection fails before, while or after the server acts (`PasteOffline`, `FlushOffline`).

Abstractions: saving, deleting, restoring and renaming a note change what the Markdown cites and
nothing else here; the bytes of a copy are compared with their address and are right; temporary
files of two uploads of one object do not meet (their names differ); that a source must be cited
by a note *this user* may read is citation by any note, the check of names, sizes and types of
bytes is left out, as are thumbnails and reading.

| run | bounds | failures | shows |
|---|---|---|---|
| `media` | 1 note, a display and its original, 1 user and page, 2 loops or pastes, both backends | all five, and connections | `QueueTypeOK`, `GrantHolds`, `SelfContained`, `RetainsOriginal`, `PendingIsQueued`, `CitedSurvive`, `OriginalsSurvive` |

The instance has one pair because every property is about one object or one pair. It has one note,
so that a pass reads several notes one after the other is covered by the theorems only. Two clients are two loops, or a loop and a paste;
one page, because a second page is a loop whose records are not pending, which `PageDies` gives.
`Explored` bounds the product: either one client at a time works against the whole server
(`Calm`), or the queue is in use and the server takes requests without a pass, a clip or a
citation under way; the queue is not concerned with those. A pass starts only before an editor got
a path, a bucket is only copied from, and the vault's own store only pruned. For the store itself
the theorems below have no such bound.

What the properties leave out, and the code does (known divergences):

* Outrun. A prune takes the grants first (http.rs:337) and the references and the listing later,
  so an upload that is granted in between loses its object while its five minutes run
  (SPEC.md:3594-3597 protects active grants). An upload of an object that is there already does
  not store it again, and loses it in the same way. `outrun` is those grants, `GrantHolds` the rest.
* Original. An original has a grant of its own; when that runs out before the display is cited,
  the original is pruned although the manifest has it.
* Clip. A clip stores its pictures before its note is written and without a grant
  (`rehost_images`, clip.rs:110-118, called at http.rs:3339; the note is written at 3409); a prune in between removes them.
* Moved. A citation that moves from a note not yet read to one already read is in neither when the
  pass reads; `steady` speaks of one note. A note in the trash cites nothing, so its pictures may
  be gone when it is restored.
* Temporary files. The name an upload writes to has the form of an object's, so a prune may list
  and remove it, or its empty directory, and the upload fails (`PutFails`).
* One object that is missing in the bucket ends every copying pass at the same place
  (media.rs:196), for all objects that sort after it.
* Half a pair. A loop that starts between the two `enqueue`s (media-upload.ts:224-226) sends the
  original and does not know the display, which later goes up without it. After a reload the loop
  writes the record back as its snapshot has it (media-upload.ts:157) and may take the original's
  path out of it. `RetainsOriginal` speaks of what was sent at once or is `whole`;
  media-upload.ts:60 and SPEC.md 12.4 make no exception.
* Grants are lost with the process, and a queued display whose original was granted is then
  refused and leaves the queue (`Refused`); the editor is told.

### Proofs

`MediaQueue_proofs.tla` proves for every set of objects, notes, users and clients, any backend and
any failures: of the store `MediaTyped` (`TypeOK`), `GrantsHold`, `CitedStays`, `OriginalsStay` and
`CopiesComplete`, which follow from `MediaInvariant`:

* `ShapeInv`: types, and what a request that names an original has at each step.
* `GrantInv`: an upload that was stored and not overtaken by a prune has its object, and no prune
  is under way (`Ahead`); so its grant is made in time. From then on every prune takes it
  (`Covered`): while the pass reads, the object is protected; when it removes, not on the list.
* `PassInv`: what was cited all along is in a note still to be read or among the references, then
  not on the list of removals, or still to be copied or copied (`CitedInv`), and its original with
  it from the reading of the manifest on (`OriginalsInv`).

and of the page, for any pairing of displays and originals in which an original has none itself
(`OriginalAssumption`):

* `PageIsClient`: `SpecQueue => Spec`. Every step of the page begins a request a client of the
  store may begin, hears an answer, or leaves the store alone (`PageAsks`; `JobShape` says what a
  job has at each step), so all of the above holds with the page.
* `QueueTyped` (`QueueTypeOK`) and `NoPromiseHangs` (`PendingIsQueued`).
* `OriginalsRetained` (`RetainsOriginal`). The invariant has four parts beside the types. `Uploads`
  follows a request that names an original from its beginning to the answer: when it is granted
  the manifest has it (`ServerMoves` says where a request can go, and that the manifest forgets
  nothing), and the loop that is about to drop the record knows. `Loops` has the order of a
  snapshot (`OrderedAt`), and that what is being pasted is in no queue and no snapshot
  (`PastingAt`). `WholeInv` is the point: a display queued whole has its original in the queue or
  its path in the record, in the database and in every snapshot, whichever loop drops the original
  first; so when a loop comes to the display, either the record names the original or the loop
  has resolved it. `PendingIsQueued` is the fourth: what is in the queue is in the next snapshot.

## 11. Proved and only checked

Proved with TLAPS, for every value of the constants: the theorems of `NoteSync_proofs`,
`SyncProtocol_proofs`, `OfflineReplica_proofs`, `WatchSignal_proofs`, `VaultIndex_proofs`,
`NoteLifecycle_proofs`, `VaultRegistration_proofs` and `MediaQueue_proofs` above, from the
assumptions on the constants alone and, where named, from `OnlyCleanFailures`, `OneAtATime`,
`OnlyTransientTrouble`, `OnePaneEach` or the absence of one failure.

Only model-checked: liveness (`EventuallyMaterialized`, `ExternalEditArrives`,
`EmptyRoomReleased`, `HintCatchesUp`, `WalkCatchesUp`, `Converges`), for which the prover has no
rules of fairness and `ENABLED`. Every safety property a run checks is also proved.

## 12. Not modelled

Text formats (parsing, serialization, emoji tables), SQL queries and ranking, HTTP routing and
cookies, the CRDT library, rendering and the user interface. `PROJECT.json`, `components`, says
for each part what is planned and what is out of scope.
