------------------------------ MODULE NoteSync ------------------------------
(* One note under the server's single-writer boundary (mb-server/sync.rs).  A
   registry room owns a NoteCoordinator: a live Y.Doc, the hash of the file it
   is built on and a debounced write.  Beneath it lie three files that outlive
   the process: the Markdown, the append-only CRDT sidecar and the last-write
   marker.  External editors write the Markdown whenever they like, without
   the registry lock; a crash takes the memory and leaves the files.

   A handler holds the lock for its whole run, so at most one runs: op names
   it and pc is the next of its steps.  The steps are the points between which
   the disk changes, which is where a crash or an I/O error can fall. *)

CONSTANTS
  Block,    \* top-level Markdown blocks; each is written by one person, once
  Peer,     \* WebSocket connections that may subscribe to the note
  Faults,   \* which failures may happen: a subset of FaultKinds
  NoFile    \* stands where no file content is recorded (no marker, no hash)

FaultKinds ==
  {"crash", "read", "append", "file", "fsync", "marker", "history", "sidecar"}

(* What the file holds: its blocks, and whether its bytes are the canonical
   serialization or another spelling of the same blocks.  A SHA-256 of the
   bytes is modelled by the content itself. *)
Content   == [blocks : SUBSET Block, form : {"canonical", "loose"}]
Canonical(blocks) == [blocks |-> blocks, form |-> "canonical"]

ASSUME FaultsAssumption == Faults \subseteq FaultKinds
ASSUME NoFileAssumption == NoFile \notin Content

VARIABLES
  file,      \* notes/<path>.md
  marker,    \* .last-write: hash of the content the document is built on
  sidecar,   \* .memberberry/crdt/<hash>.bin: what replaying it yields
  room,      \* the registry holds a room for the note
  peers,     \* the room's subscribers
  doc,       \* the visible blocks of the coordinator's Y.Doc
  last,      \* last_written_hash
  due,       \* write_due: none, armed (deadline ahead) or elapsed
  op,        \* the handler holding the registry lock
  pc,        \* its next step
  who,       \* the connection a subscribe is for
  read,      \* the file content the running import has read
  versions,  \* history: the version a user may ask to restore, once there is one
  used,      \* history: blocks anybody has written so far
  typed,     \* history: blocks accepted from a client that nobody has removed
  saved,     \* history: blocks an external editor saved and nobody has removed
  foreign    \* history: the file's bytes are an external editor's

disk    == <<file, marker, sidecar, versions>>
memory  == <<doc, last, due>>
ghosts  == <<used, typed, saved, foreign>>
control == <<op, pc, who, read>>
vars    == <<disk, room, peers, memory, control, ghosts>>

Ops == {"none", "open_subscribe", "subscribe", "open_restore", "restore_closed",
        "restore", "tick", "sweep", "release", "flush_all"}
Steps == {"idle", "load", "rebuild", "rebuild_marker", "recover", "write_file",
          "write_marker", "write_history", "inspect", "import_marker",
          "same_marker", "import_history", "import_sidecar", "admit", "retain",
          "apply", "apply_sidecar"}

TypeOK ==
  /\ file \in Content
  /\ marker \in Content \cup {NoFile}
  /\ sidecar \in [exists : BOOLEAN, blocks : SUBSET Block, torn : BOOLEAN]
  /\ room \in BOOLEAN
  /\ peers \subseteq Peer
  /\ doc \subseteq Block
  /\ last \in Content \cup {NoFile}
  /\ due \in {"none", "armed", "elapsed"}
  /\ op \in Ops
  /\ pc \in Steps
  /\ who \subseteq Peer
  /\ read \in Content \cup {NoFile}
  /\ versions \subseteq SUBSET Block
  /\ used \subseteq Block
  /\ typed \subseteq Block
  /\ saved \subseteq Block
  /\ foreign \in BOOLEAN

(* What one save of an external editor adds, or removes: a bound. *)
AtMostOne == {{}} \cup {{b} : b \in Block}

(* A vault opened over an ordinary directory: a Markdown file somebody wrote
   and no derived state. *)
Init ==
  /\ file \in {f \in Content : f.blocks \in AtMostOne}
  /\ marker = NoFile
  /\ sidecar = [exists |-> FALSE, blocks |-> {}, torn |-> FALSE]
  /\ versions = {}
  /\ room = FALSE /\ peers = {}
  /\ doc = {} /\ last = NoFile /\ due = "none"
  /\ op = "none" /\ pc = "idle" /\ who = {} /\ read = NoFile
  /\ used = file.blocks /\ typed = {} /\ saved = file.blocks /\ foreign = TRUE

-----------------------------------------------------------------------------
(* How handlers end.  A room's coordinator stays in memory; the temporary one
   restore opens for a closed note is dropped. *)
Idle == op' = "none" /\ pc' = "idle" /\ who' = {} /\ read' = NoFile

Forget == doc' = {} /\ last' = NoFile /\ due' = "none"

KeepOrDrop == IF room THEN UNCHANGED memory ELSE Forget

(* An error leaves the handler by its early return; maintenance records it and
   goes on to the check that drops rooms nobody needs. *)
Fail ==
  \/ /\ op \in {"tick", "sweep"}
     /\ pc' = "retain" /\ read' = NoFile
     /\ UNCHANGED <<op, who, memory>>
  \/ /\ op \notin {"tick", "sweep"}
     /\ Idle
     /\ KeepOrDrop

(* NoteCoordinator::open returned: the room exists from here on for a
   subscriber, while restore keeps the coordinator to itself. *)
Opened ==
  \/ /\ op = "open_subscribe"
     /\ op' = "subscribe" /\ pc' = "inspect" /\ room' = TRUE
     /\ UNCHANGED who
  \/ /\ op = "open_restore"
     /\ op' = "restore_closed" /\ pc' = "apply"
     /\ UNCHANGED <<room, who>>

(* The room and its coordinator leave the registry. *)
RemoveRoom == room' = FALSE /\ peers' = {} /\ Forget

-----------------------------------------------------------------------------
(* Opening a coordinator. *)

(* Mutant of Load: the marker is not read back. *)
LoadNoMarker ==
  /\ pc = "load" /\ ~sidecar.torn
  /\ doc' = IF sidecar.exists THEN sidecar.blocks ELSE file.blocks
  /\ IF sidecar.exists THEN pc' = "recover" /\ UNCHANGED read
                       ELSE pc' = "rebuild" /\ read' = file
  /\ UNCHANGED <<last, due, op, who, disk, room, peers, ghosts>>

(* Mutant of Load: the document is built on the Markdown although there is a log. *)
LoadMarkdown ==
  /\ pc = "load" /\ ~sidecar.torn
  /\ doc' = file.blocks
  /\ IF sidecar.exists THEN pc' = "recover" /\ last' = marker /\ UNCHANGED read
                       ELSE pc' = "rebuild" /\ read' = file /\ UNCHANGED last
  /\ UNCHANGED <<due, op, who, disk, room, peers, ghosts>>

(* Sidecar::load: a damaged log is an error, an absent one means rebuild. *)
Load ==
  /\ pc = "load"
  /\ \/ /\ sidecar.torn
        /\ Fail
     \/ /\ sidecar.exists /\ ~sidecar.torn
        /\ doc' = sidecar.blocks /\ last' = marker
        /\ pc' = "recover"
        /\ UNCHANGED <<due, op, who, read>>
     \/ /\ ~sidecar.exists /\ ~sidecar.torn
        /\ doc' = file.blocks /\ read' = file
        /\ pc' = "rebuild"
        /\ UNCHANGED <<last, due, op, who>>
  /\ UNCHANGED <<disk, room, peers, ghosts>>

Rebuild ==
  /\ pc = "rebuild"
  /\ sidecar' = [exists |-> TRUE, blocks |-> doc, torn |-> FALSE]
  /\ pc' = "rebuild_marker"
  /\ UNCHANGED <<file, marker, versions, room, peers, memory, op, who, read, ghosts>>

RebuildMarker ==
  /\ pc = "rebuild_marker"
  /\ marker' = read /\ last' = read /\ read' = NoFile
  /\ Opened
  /\ UNCHANGED <<file, sidecar, versions, peers, doc, due, ghosts>>

(* recover_unflushed_markdown: the sidecar wins over the file it was built on,
   and over no other file. *)
Recover ==
  /\ pc = "recover"
  /\ IF last # file \/ file = Canonical(doc)
     THEN Opened
     ELSE pc' = "write_file" /\ UNCHANGED <<op, who, room>>
  /\ UNCHANGED <<disk, peers, memory, read, ghosts>>

-----------------------------------------------------------------------------
(* write_markdown, shared by every flush and by recovery.  None of its callers
   looks at the file first. *)
PutFile ==
  /\ file' = Canonical(doc)
  /\ foreign' = FALSE
  /\ UNCHANGED <<used, typed, saved>>

WriteFile ==
  /\ pc = "write_file"
  /\ PutFile
  /\ pc' = "write_marker"
  /\ UNCHANGED <<marker, sidecar, versions, room, peers, memory, op, who, read>>

(* The write returned; the flush that asked for it clears its deadline and its
   handler goes on. *)
Written ==
  /\ last' = Canonical(doc)
  /\ due' = "none"
  /\ \/ op \in {"open_subscribe", "open_restore"} /\ Opened /\ UNCHANGED <<doc, peers>>
     \/ op = "sweep" /\ pc' = "inspect" /\ UNCHANGED <<op, who, doc, room, peers>>
     \/ op = "tick" /\ pc' = "retain" /\ UNCHANGED <<op, who, doc, room, peers>>
     \/ op \in {"restore", "flush_all"} /\ Idle /\ UNCHANGED <<doc, room, peers>>

(* Handlers whose coordinator goes once the write has returned. *)
WrittenAndGone ==
  /\ op \in {"release", "restore_closed"}
  /\ Idle
  /\ RemoveRoom

(* Mutant of WriteMarker: the marker keeps the hash of an older write. *)
WriteMarkerSkipped ==
  /\ pc = "write_marker"
  /\ IF last \notin {NoFile, Canonical(doc)}
     THEN /\ pc' = "write_history"
          /\ UNCHANGED <<op, who, read, room, peers, memory>>
     ELSE (Written /\ UNCHANGED read) \/ WrittenAndGone
  /\ UNCHANGED <<disk, ghosts>>

WriteMarker ==
  /\ pc = "write_marker"
  /\ marker' = Canonical(doc)
  /\ IF last \notin {NoFile, Canonical(doc)}
     THEN /\ pc' = "write_history"
          /\ UNCHANGED <<op, who, read, room, peers, memory>>
     ELSE (Written /\ UNCHANGED read) \/ WrittenAndGone
  /\ UNCHANGED <<file, sidecar, versions, ghosts>>

(* HistoryStore::record: the version joins history.  Of all versions one is
   remembered, any one: the one a user goes on to restore. *)
Record(blocks) == versions' \in {versions, {blocks}}

WriteHistory ==
  /\ pc = "write_history"
  /\ Record(doc)
  /\ (Written /\ UNCHANGED read) \/ WrittenAndGone
  /\ UNCHANGED <<file, marker, sidecar, ghosts>>

-----------------------------------------------------------------------------
(* inspect_external_change. *)
AfterInspect == IF op = "subscribe" THEN "admit" ELSE "retain"

(* The file is read once and, unless it is the content the coordinator last
   accounted for, the document is made equal to it in one transaction. *)
Inspect ==
  /\ pc = "inspect"
  /\ IF last = file
     THEN pc' = AfterInspect /\ UNCHANGED <<doc, read, typed>>
     ELSE /\ doc' = file.blocks /\ read' = file
          /\ pc' = IF doc = file.blocks THEN "same_marker" ELSE "import_marker"
          /\ typed' = IF foreign THEN typed \cap file.blocks ELSE typed
  /\ UNCHANGED <<disk, room, peers, last, due, op, who, used, saved, foreign>>

ImportMarker ==
  /\ pc \in {"same_marker", "import_marker"}
  /\ marker' = read /\ last' = read
  /\ \/ pc = "same_marker" /\ pc' = AfterInspect /\ read' = NoFile
     \/ pc = "import_marker" /\ pc' = "import_history" /\ UNCHANGED read
  /\ UNCHANGED <<file, sidecar, versions, room, peers, doc, due, op, who, ghosts>>

ImportHistory ==
  /\ pc = "import_history"
  /\ Record(read.blocks)
  /\ pc' = "import_sidecar"
  /\ UNCHANGED <<file, marker, sidecar, room, peers, memory, op, who, read, ghosts>>

(* broadcast drops the peers it may no longer, or can no longer, send to. *)
Broadcast == peers' \in SUBSET peers

ImportSidecar ==
  /\ pc = "import_sidecar"
  /\ sidecar' = [exists |-> TRUE, blocks |-> doc, torn |-> FALSE]
  /\ Broadcast
  /\ pc' = AfterInspect /\ read' = NoFile
  /\ UNCHANGED <<file, marker, versions, room, memory, op, who, ghosts>>

-----------------------------------------------------------------------------
(* Handlers of the registry. *)

(* subscribe_versioned, up to the admission. *)
Subscribe(p) ==
  /\ pc = "idle"
  /\ who' = {p}
  /\ IF room THEN op' = "subscribe" /\ pc' = "inspect"
             ELSE op' = "open_subscribe" /\ pc' = "load"
  /\ UNCHANGED <<disk, room, peers, memory, read, ghosts>>

(* A subscriber of another schema revision is only ever removed. *)
SubscribeStale(p) ==
  /\ pc = "idle" /\ p \in peers
  /\ peers' = peers \ {p}
  /\ UNCHANGED <<disk, room, memory, control, ghosts>>

(* Mutant of Admit: the connections of a subscribe join as one entry. *)
AdmitNested ==
  /\ pc = "admit"
  /\ \/ peers' = peers \cup {who}
     \/ peers' = peers \ who
  /\ Idle
  /\ UNCHANGED <<disk, room, memory, ghosts>>

(* The full state is queued and the peer joins, unless its socket is gone. *)
Admit ==
  /\ pc = "admit"
  /\ \/ peers' = peers \cup who
     \/ peers' = peers \ who
  /\ Idle
  /\ UNCHANGED <<disk, room, memory, ghosts>>

(* release: flush first, and only then forget. *)
Release ==
  \/ /\ due # "none"
     /\ op' = "release" /\ pc' = "write_file"
     /\ UNCHANGED <<room, memory>>
  \/ /\ due = "none"
     /\ room' = FALSE /\ Forget
     /\ UNCHANGED <<op, pc>>

(* unsubscribe; disconnect is the same for a connection that is in the room. *)
Unsubscribe(p) ==
  /\ pc = "idle" /\ room
  /\ peers' = peers \ {p}
  /\ IF peers' = {} THEN Release ELSE UNCHANGED <<room, memory, op, pc>>
  /\ UNCHANGED <<disk, who, read, ghosts>>

(* close: the room goes whether or not it has subscribers. *)
Close ==
  /\ pc = "idle" /\ room
  /\ Release
  /\ peers' = IF due = "none" THEN {} ELSE peers
  /\ UNCHANGED <<disk, who, read, ghosts>>

FlushAll ==
  /\ pc = "idle" /\ room /\ due # "none"
  /\ op' = "flush_all" /\ pc' = "write_file"
  /\ UNCHANGED <<disk, room, peers, memory, who, read, ghosts>>

(* Mutant of Maintain: the deadline is taken before the write is known good. *)
MaintainTakesDeadline(kind) ==
  /\ pc = "idle" /\ room
  /\ op' = kind
  /\ due' = IF due = "elapsed" THEN "none" ELSE due
  /\ pc' = IF due = "elapsed" THEN "write_file"
           ELSE IF kind = "sweep" THEN "inspect" ELSE "retain"
  /\ UNCHANGED <<disk, room, peers, doc, last, who, read, ghosts>>

(* Mutant of Maintain: a sweep does not look at a note that owes no write. *)
MaintainSkipsQuiet(kind) ==
  /\ pc = "idle" /\ room
  /\ op' = kind
  /\ pc' = IF due = "elapsed" THEN "write_file" ELSE "retain"
  /\ UNCHANGED <<disk, room, peers, memory, who, read, ghosts>>

(* maintain_with_flushed for this room.  sweep: the changed set includes the
   note (the watcher's hint or the periodic sweep); tick: it does not. *)
Maintain(kind) ==
  /\ pc = "idle" /\ room
  /\ op' = kind
  /\ pc' = IF due = "elapsed" THEN "write_file"
           ELSE IF kind = "sweep" THEN "inspect" ELSE "retain"
  /\ UNCHANGED <<disk, room, peers, memory, who, read, ghosts>>

(* Mutant of Retain: an empty room goes even while it owes a write. *)
RetainDropsOwed ==
  /\ pc = "retain"
  /\ Idle
  /\ IF peers # {} THEN UNCHANGED <<room, peers, memory>> ELSE RemoveRoom
  /\ UNCHANGED <<disk, ghosts>>

(* Mutant of Retain: rooms only go when their last subscriber leaves. *)
RetainKeepsAll ==
  /\ pc = "retain"
  /\ Idle
  /\ UNCHANGED <<room, peers, memory, disk, ghosts>>

Retain ==
  /\ pc = "retain"
  /\ Idle
  /\ IF peers # {} \/ due # "none" THEN UNCHANGED <<room, peers, memory>>
                                   ELSE RemoveRoom
  /\ UNCHANGED <<disk, ghosts>>

(* What replaying the log yields after one more record.  An edit made on a
   document the log has fallen behind may depend on items it lacks, and then
   stays pending. *)
Replay(before, after) ==
  IF sidecar.blocks = doc THEN {after} ELSE {before, after}

(* apply_remote_update_as for an edit that takes the document to `after`: the
   fsynced append, the live document, the debounce, the broadcast. *)
Accept(after, sidecarAfter) ==
  /\ pc = "idle" /\ room /\ peers # {}
  /\ \E replayed \in Replay(sidecar.blocks, sidecarAfter) :
       sidecar' = [sidecar EXCEPT !.blocks = replayed]
  /\ doc' = after
  /\ due' = "armed"
  /\ Broadcast
  /\ UNCHANGED <<file, marker, versions, room, last, control, foreign>>

Insert(b) ==
  /\ b \notin used
  /\ Accept(doc \cup {b}, sidecar.blocks \cup {b})
  /\ used' = used \cup {b} /\ typed' = typed \cup {b}
  /\ UNCHANGED saved

Delete(b) ==
  /\ b \in doc
  /\ Accept(doc \ {b}, sidecar.blocks \ {b})
  /\ typed' = typed \ {b} /\ saved' = saved \ {b}
  /\ UNCHANGED used

(* SyncRegistry::restore, on an open room or on a coordinator of its own. *)
Restore ==
  /\ pc = "idle" /\ versions # {}
  /\ IF room THEN op' = "restore" /\ pc' = "apply"
             ELSE op' = "open_restore" /\ pc' = "load"
  /\ UNCHANGED <<disk, room, peers, memory, who, read, ghosts>>

Apply ==
  /\ pc = "apply"
  /\ \E version \in versions :
       \/ /\ doc = version /\ op = "restore"
          /\ pc' = "write_file"
          /\ UNCHANGED <<op, who, read, memory, typed, saved>>
       \/ /\ doc = version /\ op = "restore_closed"
          /\ Idle /\ Forget
          /\ UNCHANGED <<typed, saved>>
       \/ /\ doc # version
          /\ doc' = version
          /\ typed' = typed \cap version
          /\ saved' = saved \cap version
          /\ pc' = "apply_sidecar"
          /\ UNCHANGED <<op, who, read, last, due>>
  /\ UNCHANGED <<disk, room, peers, used, foreign>>

(* Mutant of ApplySidecar: the restored document is not put in the sidecar. *)
ApplySidecarSkipped ==
  /\ pc = "apply_sidecar"
  /\ due' = "armed"
  /\ Broadcast
  /\ pc' = "write_file"
  /\ UNCHANGED <<disk, room, doc, last, op, who, read, ghosts>>

ApplySidecar ==
  /\ pc = "apply_sidecar"
  /\ sidecar' = [exists |-> TRUE, blocks |-> doc, torn |-> FALSE]
  /\ due' = "armed"
  /\ Broadcast
  /\ pc' = "write_file"
  /\ UNCHANGED <<file, marker, versions, room, doc, last, op, who, read, ghosts>>

-----------------------------------------------------------------------------
(* The world: the clock, people with text editors, failures. *)
Elapse ==
  /\ due = "armed" /\ due' = "elapsed"
  /\ UNCHANGED <<disk, room, peers, doc, last, control, ghosts>>

(* An editor saves the file as it finds it, without the blocks in `cut`, with
   the new blocks in `add`, in either spelling; any time, lock or no lock. *)
ExternalEdit(add, cut, form) ==
  LET after == [blocks |-> (file.blocks \ cut) \cup add, form |-> form] IN
  /\ add \cap used = {} /\ cut \subseteq file.blocks
  /\ after # file
  /\ file' = after /\ foreign' = TRUE
  /\ used' = used \cup add
  /\ typed' = typed \ cut
  /\ saved' = (saved \ cut) \cup add
  /\ UNCHANGED <<marker, sidecar, versions, room, peers, memory, control>>

(* The process dies and comes back with nothing but the disk.  While an append
   is being written the log may be left ending inside a record. *)
Crash ==
  /\ "crash" \in Faults
  /\ room' = FALSE /\ peers' = {} /\ Forget /\ Idle
  /\ UNCHANGED <<disk, ghosts>>

CrashInAppend ==
  /\ {"crash", "append"} \subseteq Faults
  /\ pc = "idle" /\ room /\ peers # {}
  /\ sidecar' = [sidecar EXCEPT !.torn = TRUE]
  /\ room' = FALSE /\ peers' = {} /\ Forget /\ Idle
  /\ UNCHANGED <<file, marker, versions, ghosts>>

(* The Markdown, or the sidecar while opening, cannot be read. *)
ReadFails ==
  /\ "read" \in Faults
  /\ pc \in {"load", "recover", "inspect"}
  /\ Fail
  /\ UNCHANGED <<disk, room, peers, ghosts>>

(* A failed append: the update is refused, but part of the record may be in
   the log, where a later append goes after it. *)
AppendFails ==
  /\ "append" \in Faults
  /\ pc = "idle" /\ room /\ peers # {}
  /\ sidecar' = [sidecar EXCEPT !.torn = TRUE]
  /\ UNCHANGED <<file, marker, versions, room, peers, memory, control, ghosts>>

(* atomic_write fails before the rename, or after it on the directory sync. *)
WriteFileFails ==
  /\ pc = "write_file"
  /\ \/ "file" \in Faults /\ UNCHANGED <<file, ghosts>>
     \/ "fsync" \in Faults /\ PutFile
  /\ Fail
  /\ UNCHANGED <<marker, sidecar, versions, room, peers>>

MarkerFails ==
  /\ pc \in {"rebuild_marker", "write_marker", "same_marker", "import_marker"}
  /\ "marker" \in Faults
  /\ Fail
  /\ UNCHANGED <<disk, room, peers, ghosts>>

HistoryFails ==
  /\ pc \in {"write_history", "import_history"}
  /\ "history" \in Faults
  /\ Fail
  /\ UNCHANGED <<disk, room, peers, ghosts>>

SidecarFails ==
  /\ pc \in {"rebuild", "import_sidecar", "apply_sidecar"}
  /\ "sidecar" \in Faults
  /\ Fail
  /\ UNCHANGED <<disk, room, peers, ghosts>>

-----------------------------------------------------------------------------
HandlerStep ==
  \/ Load \/ Rebuild \/ RebuildMarker \/ Recover
  \/ WriteFile \/ WriteMarker \/ WriteHistory
  \/ Inspect \/ ImportMarker \/ ImportHistory \/ ImportSidecar
  \/ Admit \/ Retain \/ Apply \/ ApplySidecar

Request ==
  \/ \E p \in Peer : Subscribe(p) \/ SubscribeStale(p) \/ Unsubscribe(p)
  \/ Close \/ FlushAll \/ Restore
  \/ \E kind \in {"tick", "sweep"} : Maintain(kind)
  \/ \E b \in Block : Insert(b) \/ Delete(b)

World ==
  \/ Elapse
  \/ \E add, cut \in AtMostOne, form \in {"canonical", "loose"} :
       ExternalEdit(add, cut, form)
  \/ Crash \/ CrashInAppend

Failure ==
  \/ ReadFails \/ AppendFails \/ WriteFileFails \/ MarkerFails \/ HistoryFails \/ SidecarFails

Next == HandlerStep \/ Request \/ World \/ Failure

Spec == Init /\ [][Next]_vars

(* The lock is granted to the maintenance task in the end, a handler that holds
   it runs on, the clock advances, and a disk error does not recur forever. *)
Fairness ==
  /\ WF_vars(HandlerStep)
  /\ SF_vars(WriteFile) /\ SF_vars(WriteMarker) /\ SF_vars(WriteHistory)
  /\ SF_vars(Maintain("sweep"))
  /\ WF_vars(Elapse)

FairSpec == Spec /\ Fairness
-----------------------------------------------------------------------------
(* What is read back if the process stops now. *)
Recoverable == IF sidecar.torn THEN {} ELSE sidecar.blocks

(* An edit a client was told is accepted is in the sidecar a restart reads, at
   every step of every handler, until a person removes it ("an update is
   durable when it is accepted", apply_remote_update_as). *)
AcceptedDurable == typed \subseteq Recoverable

(* Between handlers the log replays to exactly the document the room serves: no
   subscriber holds content, or has seen a deletion, that a crash would undo. *)
SidecarCurrent ==
  room /\ pc = "idle" => sidecar.exists /\ sidecar.blocks = doc

(* At rest with no write owed, what the subscribers of a room see is what the
   file says, unless an editor has saved over it: no failure leaves them ahead
   of the Markdown with nothing scheduled to write it (write_due). *)
MaterializedWhenQuiet ==
  room /\ peers # {} /\ pc = "idle" /\ due = "none"
    => foreign \/ file = Canonical(doc)

(* Importing a file that the server itself wrote last never takes an accepted
   edit out of the document, however late the import comes (the self-write
   check of inspect_external_change). *)
OwnWriteNeverReverts ==
  [][pc = "inspect" /\ room' /\ ~foreign => typed \cap doc \subseteq doc']_vars

(* Every accepted edit reaches the Markdown while its room is retried, unless a
   person removes it or replaces the file first. *)
EventuallyMaterialized ==
  \A b \in Block : b \in typed ~> (b \in file.blocks \/ b \notin typed)

(* A room nobody is subscribed to, with only maintenance left to run in it, does
   not stay: however its last flush failed, the write is retried and the room
   dropped (maintain_with_flushed). *)
EmptyRoomReleased ==
  []<>~(room /\ peers = {} /\ op \in {"none", "tick", "sweep"})

(* What an external editor saves while the note is open is taken into the
   document, for clients to see, unless it leaves the file first. *)
ExternalEditArrives ==
  \A b \in Block :
    (room /\ b \in saved \cap file.blocks)
      ~> (b \in sidecar.blocks \/ b \notin saved \cap file.blocks \/ ~room)

(* What SPEC 3.3 says of a file that matches its marker (the server wrote it):
   recovery overwrites no saved block that the sidecar does not hold. *)
RecoveryKeepsSaved ==
  [][pc = "recover" /\ pc' = "write_file" => saved \cap file.blocks \subseteq doc]_vars

-----------------------------------------------------------------------------
(* Why the two durability invariants hold when the only failures are crashes,
   reads and Markdown writes that leave the old file (see NoteSync_proofs): the parts
   of the inductive invariant. *)
Opening == {"open_subscribe", "open_restore"}
Writing == {"write_file", "write_marker", "write_history"}
Importing == {"import_marker", "import_history", "import_sidecar"}

(* Which handler can be at which step, and whether the room is there. *)
HandlerShape ==
  /\ op = "none" <=> pc = "idle"
  /\ ~room => peers = {}
  /\ op \in Opening \cup {"restore_closed"} => ~room
  /\ op \in {"subscribe", "restore", "tick", "sweep", "release", "flush_all"} => room
  /\ pc \in {"load", "rebuild", "rebuild_marker", "recover"} => op \in Opening
  /\ pc \in {"inspect", "same_marker"} \cup Importing => op \in {"subscribe", "sweep"}
  /\ pc \in {"apply", "apply_sidecar"} => op \in {"restore", "restore_closed"}
  /\ pc = "admit" => op = "subscribe"
  /\ pc = "retain" => op \in {"tick", "sweep"}
  /\ pc \in Writing => op # "subscribe"
  /\ pc \in {"rebuild", "rebuild_marker", "same_marker"} \cup Importing => read \in Content

(* A coordinator is in memory, its document loaded. *)
Loaded == room \/ pc \notin {"idle", "load", "rebuild", "rebuild_marker"}

(* Until the first sidecar nothing can have been accepted; the log is whole. *)
LogWhole ==
  /\ ~sidecar.torn
  /\ ~sidecar.exists => ~Loaded /\ pc # "rebuild_marker" /\ typed = {}
  /\ pc \in {"rebuild", "rebuild_marker"} => typed = {}
  /\ pc = "rebuild" => ~sidecar.exists

(* The log is the document, except while a change of the whole document is on
   its way there; accepted edits are in both. *)
LogFollowsDoc ==
  /\ typed \subseteq sidecar.blocks
  /\ Loaded => typed \subseteq doc
  /\ Loaded /\ pc \notin Importing \cup {"apply_sidecar"} => sidecar.blocks = doc
  /\ pc = "rebuild_marker" => sidecar.blocks = doc

(* The hash in memory is the marker's, except between the two writes. *)
MarkerFollowsHash ==
  /\ Loaded /\ pc # "write_history" => last = marker
  /\ pc = "write_history" => marker = Canonical(doc)

(* What a file the server wrote last is to the rest of the state. *)
OwnFile ==
  ~foreign =>
    /\ marker = file \/ typed \subseteq file.blocks
    /\ pc \in {"write_marker", "write_history"} => file = Canonical(doc)
    /\ pc \in {"same_marker", "import_marker"} => file = read
    /\ pc \in {"import_history", "import_sidecar", "admit"} => last = file
    /\ room /\ pc \in {"idle", "inspect", "retain", "apply", "apply_sidecar", "write_file"} =>
         last = file \/ (peers = {} /\ typed \subseteq file.blocks)

DurabilityInv ==
  /\ TypeOK /\ HandlerShape /\ LogWhole
  /\ LogFollowsDoc /\ MarkerFollowsHash /\ OwnFile

(* Why a quiet room agrees with its file unless the sidecar cannot be replaced: what
   was not written is due, or an editor saved over it. *)
Agrees == due # "none" \/ foreign \/ file = Canonical(doc)

(* A room that was opened over a file the document is not built on has no subscribers
   until that file is imported; a restored document is due as soon as it is durable. *)
QuietInv ==
  /\ ~foreign => file = Canonical(file.blocks)
  /\ pc \in {"rebuild", "rebuild_marker"} => doc = read.blocks
  /\ pc \in {"write_marker", "write_history"} => foreign \/ file = Canonical(doc)
  /\ pc \in {"same_marker", "admit"} \cup Importing => Agrees
  /\ room /\ pc # "apply_sidecar" => Agrees \/ (peers = {} /\ last # file)
-----------------------------------------------------------------------------
(* The room is a DurableNote: what its subscribers see is what a restart reads
   back, edit by edit, whatever the order of writes, crashes and failed writes
   in between.  Only an import or a restore of the open note is ahead of the log,
   until its sidecar is replaced (apply_remote_update_as, restore_markdown,
   inspect_external_change, release). *)
Note == INSTANCE DurableNote WITH
  content <- sidecar.blocks,
  served <- IF room THEN {doc} ELSE {},
  replacing <- room /\ pc \in Importing \cup {"apply_sidecar"}

ServesDurably == Note!Spec
=============================================================================
