---------------------------- MODULE NoteLifecycle ----------------------------
(* The life of the notes of one vault between their paths and the trash: create.rs,
   rename.rs, trash.rs and the handlers of http.rs that run them.

   A note is a Markdown file at a path.  What was accepted of it beyond the file is
   in a sidecar, and a marker says which file the server wrote or imported last;
   both are named after the path.  A delete, a restore and a rename move all three,
   one filesystem call after the other, and a rename then writes the notes that link
   to the one it moved, with texts computed before the move.  The process may die
   between any two calls, and any call may fail.  A room is the server's copy of an
   open note; what happens inside one call of the registry is NoteSync's matter. *)
EXTENDS Naturals

CONSTANTS
  Path,     \* where notes may live
  Id,       \* identifiers of trash entries
  Note,     \* history: the notes ever created
  Edit,     \* what a person may type
  Target,   \* paths that links may be typed to
  MaxEvents, \* bound: requests and crashes
  Handler,  \* requests in flight at the same time
  Trouble,  \* a subset of Troubles
  None

Troubles == {"crash",   \* the process dies and is started again
             "io",      \* a call to the filesystem fails
             "window"}  \* rooms are used while a request is under way

ASSUME TroubleAssumption == Trouble \subseteq Troubles

ASSUME MaxEventsAssumption == MaxEvents \in Nat

ASSUME PlaceAssumption == Path \cap Id = {}

ASSUME TargetAssumption == Target \subseteq Path

VARIABLES
  events,    \* requests and crashes so far
  file,      \* per place, the text of the Markdown file there
  sidecar,   \* per place, the document the sidecar holds
  marker,    \* per place, the text whose hash the marker has
  entry,     \* trash metadata: per id, the path the note was deleted from
  deleted,   \* trash metadata: and when (deleted_at; events stand for the clock)
  expired,   \* the entries whose retention is over
  room,      \* per path, the open room
  op,        \* per handler, the request it runs
  owner,     \* history: per place, the note whose file is there
  typed,     \* history: per edit, the note it was accepted for
  cut,       \* history: the notes purged, or stranded by a request cut short
  left,      \* history: those whose marker or sidecar was left behind by one cut short
  outdated   \* history: accepted edits that a text without them is put over

disk == <<file, sidecar, marker>>
trash == <<entry, deleted, expired>>
past == <<cut, left, outdated>>
vars == <<events, disk, trash, room, op, owner, typed, past>>

Place == Path \cup Id
Text == [title : Path \cup {None}, edits : SUBSET Edit, link : Path \cup {None}]
Rest == [kind |-> "none", pc |-> "rest", from |-> None, to |-> None, note |-> None,
         plan |-> {}, meant |-> [n \in Note |-> None]]
Planned == [at : Path, text : Text]
Request ==
  [kind : {"none", "delete", "restore", "rename"},
   pc : {"rest", "flush", "plan", "close", "move", "meta", "marker", "sidecar", "forget",
         "write", "done"},
   from : Place \cup {None}, to : Place \cup {None}, note : Note \cup {None},
   plan : SUBSET Planned, meant : [Note -> Note \cup {None}]]
Room == [doc : Text, hash : Text, due : BOOLEAN, note : Note]

ASSUME NoneAssumption == None \notin Place \cup Note \cup Text \cup Room

TypeOK ==
  /\ events \in 0..MaxEvents
  /\ file \in [Place -> Text \cup {None}] /\ sidecar \in [Place -> Text \cup {None}]
  /\ marker \in [Place -> Text \cup {None}]
  /\ entry \in [Id -> Path \cup {None}] /\ deleted \in [Id -> 0..MaxEvents]
  /\ expired \subseteq {i \in Id : entry[i] # None}
  /\ room \in [Path -> Room \cup {None}] /\ op \in [Handler -> Request]
  /\ owner \in [Place -> Note \cup {None}] /\ typed \in [Edit -> Note \cup {None}]
  /\ \A x \in Place : file[x] = None <=> owner[x] = None
  /\ cut \subseteq Note /\ left \subseteq Note /\ outdated \subseteq Edit

Live == {p \in Path : file[p] # None}
NewBody(p) == [title |-> p, edits |-> {}, link |-> None]
Blank == [title |-> None, edits |-> {}, link |-> None]

Init ==
  /\ events = 0
  /\ file = [x \in Place |-> None]
  /\ sidecar = [x \in Place |-> None] /\ marker = [x \in Place |-> None]
  /\ entry = [i \in Id |-> None] /\ deleted = [i \in Id |-> 0] /\ expired = {}
  /\ room = [p \in Path |-> None] /\ op = [h \in Handler |-> Rest]
  /\ owner = [x \in Place |-> None] /\ typed = [e \in Edit |-> None]
  /\ cut = {} /\ left = {} /\ outdated = {}

-----------------------------------------------------------------------------
(* Rooms. *)

(* What a person who opens the note is shown: a file the server wrote or imported
   last yields to what was accepted since, any other file is an edit of its own. *)
Shown(x) ==
  IF x \in Path /\ room[x] # None THEN room[x].doc
  ELSE IF sidecar[x] # None /\ marker[x] = file[x] THEN sidecar[x] ELSE file[x]

Quiet == (\A h \in Handler : op[h] = Rest) \/ "window" \in Trouble

(* Mutant of Open: a room for a note that is not there. *)
OpenAnywhere(p) ==
  /\ Quiet /\ room[p] = None
  /\ room' = [room EXCEPT ![p] = [doc |-> Shown(p), hash |-> Shown(p), due |-> FALSE,
                                  note |-> owner[p]]]
  /\ UNCHANGED <<disk, trash, op, owner, typed, past>>

Open(p) ==
  /\ Quiet /\ p \in Live /\ room[p] = None
  /\ room' = [room EXCEPT ![p] = [doc |-> Shown(p), hash |-> Shown(p), due |-> FALSE,
                                  note |-> owner[p]]]
  /\ file' = [file EXCEPT ![p] = Shown(p)]
  /\ sidecar' = [sidecar EXCEPT ![p] = Shown(p)]
  /\ marker' = [marker EXCEPT ![p] = Shown(p)]
  /\ UNCHANGED <<trash, op, owner, typed, past>>

(* An update is accepted when the sidecar holds it; the Markdown follows later. *)
Accept(p, doc) ==
  /\ Quiet /\ room[p] # None /\ doc # room[p].doc
  /\ room' = [room EXCEPT ![p].doc = doc, ![p].due = TRUE]
  /\ sidecar' = [sidecar EXCEPT ![p] = doc]
  /\ UNCHANGED <<file, marker, trash, op, owner, cut, left>>

Type(p, e) ==
  /\ room[p] # None /\ typed[e] = None
  /\ Accept(p, [room[p].doc EXCEPT !.edits = @ \cup {e}])
  /\ typed' = [typed EXCEPT ![e] = room[p].note]
  /\ outdated' = IF file[p] = room[p].hash THEN outdated ELSE outdated \cup {e}

Link(p, q) ==
  /\ room[p] # None
  /\ Accept(p, [room[p].doc EXCEPT !.link = q])
  /\ UNCHANGED <<typed, outdated>>

(* The writes owed by the rooms of `paths`: file, then marker. *)
Due(paths) == {p \in paths : room[p] # None /\ room[p].due}
WriteBack(paths) ==
  /\ file' = [x \in Place |-> IF x \in Due(paths) THEN room[x].doc ELSE file[x]]
  /\ marker' = [x \in Place |-> IF x \in Due(paths) THEN room[x].doc ELSE marker[x]]
  /\ owner' = [x \in Place |-> IF x \in Due(paths) THEN room[x].note ELSE owner[x]]
  /\ UNCHANGED sidecar

Clean(paths) ==
  [p \in Path |-> IF p \in Due(paths)
                  THEN [room[p] EXCEPT !.hash = room[p].doc, !.due = FALSE] ELSE room[p]]

(* The debounce of an open note is over. *)
Flush(p) ==
  /\ Quiet /\ p \in Due({p})
  /\ WriteBack({p}) /\ room' = Clean({p})
  /\ UNCHANGED <<trash, op, typed, past>>

(* The last subscriber leaves: what is owed is written and the room dropped. *)
Leave(p) ==
  /\ Quiet /\ room[p] # None
  /\ WriteBack({p}) /\ room' = [room EXCEPT ![p] = None]
  /\ UNCHANGED <<trash, op, typed, past>>

(* A file that is not the one the room wrote or read last is imported, over
   whatever was accepted meanwhile. *)
Inspect(p) ==
  /\ Quiet /\ room[p] # None /\ p \in Live /\ file[p] # room[p].hash
  /\ room' = [room EXCEPT ![p].doc = file[p], ![p].hash = file[p]]
  /\ sidecar' = [sidecar EXCEPT ![p] = file[p]]
  /\ marker' = [marker EXCEPT ![p] = file[p]]
  /\ outdated' = outdated \cup (room[p].doc.edits \ file[p].edits)
  /\ UNCHANGED <<file, trash, op, owner, typed, cut, left>>

-----------------------------------------------------------------------------
(* Requests.  A step of request h goes on to `pc`, or ends it. *)
Go(h, pc) == op' = [op EXCEPT ![h].pc = pc]
End(h) == op' = [op EXCEPT ![h] = Rest]

Begin(h, kind, pc, from, to) ==
  /\ op[h] = Rest
  /\ op' = [op EXCEPT ![h] = [Rest EXCEPT !.kind = kind, !.pc = pc, !.from = from,
                                          !.to = to, !.note = owner[from]]]

At(h, pc) == op[h].pc = pc

(* Note creation is one call, but the body may not get into the new file. *)
Create(p, n) ==
  /\ Quiet /\ p \notin Live
  /\ n \notin cut /\ \A x \in Place : owner[x] # n
  /\ \A e \in Edit : typed[e] # n
  /\ \/ file' = [file EXCEPT ![p] = NewBody(p)]
     \/ Trouble \cap {"io", "crash"} # {} /\ file' = [file EXCEPT ![p] = Blank]
  /\ owner' = [owner EXCEPT ![p] = n]
  /\ UNCHANGED <<sidecar, marker, trash, room, op, typed, past>>

(* Every request on the trash purges first. *)
Purged == \A i \in expired : entry[i] = None

(* delete_note: the room is closed, and the file moves to a fresh trash body. *)
Delete(h, p, i) ==
  /\ p \in Live /\ Purged
  /\ entry[i] = None /\ file[i] = None /\ sidecar[i] = None /\ \A g \in Handler : op[g].to # i
  /\ Begin(h, "delete", "close", p, i)
  /\ UNCHANGED <<disk, trash, room, owner, typed, past>>

(* restore: refused while a note is at the path. *)
Restore(h, i) ==
  /\ entry[i] # None /\ Purged /\ entry[i] \notin Live /\ file[i] # None
  /\ Begin(h, "restore", "move", i, entry[i])
  /\ UNCHANGED <<disk, trash, room, owner, typed, past>>

(* note_with_title: refused while a note is at the destination. *)
Rename(h, p, q) ==
  /\ p \in Live /\ q \notin Live
  /\ Begin(h, "rename", "flush", p, q)
  /\ UNCHANGED <<disk, trash, room, owner, typed, past>>

(* Mutant of FlushOpen: links are read as the files happen to be. *)
FlushOpenSkipped(h) ==
  /\ At(h, "flush") /\ Go(h, "plan")
  /\ UNCHANGED <<disk, trash, room, owner, typed, past>>

(* flush_open_notes: what was typed a moment ago is in the files. *)
FlushOpen(h) ==
  /\ At(h, "flush") /\ Go(h, "plan")
  /\ WriteBack(Path) /\ room' = Clean(Path)
  /\ UNCHANGED <<trash, typed, past>>

(* The texts with the new title and the new links, from the files as they are. *)
Repointed(text, p, q) == [text EXCEPT !.link = IF @ = p THEN q ELSE @]

(* The note that the link of each note leads to: what was typed and is not written
   yet counts, and otherwise the file, as Inspect has it. *)
LinkOf(l) == IF l \in Due({l}) THEN room[l].doc.link ELSE file[l].link
Linked(n) == {l \in Live : owner[l] = n /\ LinkOf(l) \in Live}
Meant ==
  [n \in Note |-> IF Linked(n) = {} THEN None ELSE owner[LinkOf(CHOOSE l \in Linked(n) : TRUE)]]

PlanOf(p, q) ==
  {[at |-> l, text |-> Repointed(file[l], p, q)] : l \in {l \in Live \ {p} : file[l].link = p}}
    \cup {[at |-> q, text |-> [Repointed(file[p], p, q) EXCEPT !.title = q]]}

Plan(h) ==
  /\ At(h, "plan") /\ op[h].from \in Live
  /\ op' = [op EXCEPT ![h].pc = "close", ![h].meant = Meant,
                      ![h].plan = PlanOf(op[h].from, op[h].to)]
  /\ UNCHANGED <<disk, trash, room, owner, typed, past>>

(* Mutant of Close: the room stays. *)
CloseSkipped(h) ==
  /\ At(h, "close") /\ Go(h, "move")
  /\ UNCHANGED <<disk, trash, room, owner, typed, past>>

(* SyncRegistry::close. *)
Close(h) ==
  /\ At(h, "close") /\ Go(h, "move")
  /\ WriteBack({op[h].from})
  /\ room' = [room EXCEPT ![op[h].from] = None]
  /\ UNCHANGED <<trash, typed, past>>

Moved(f, x, y) == [f EXCEPT ![y] = f[x], ![x] = None]

Move(h) ==
  LET x == op[h].from
      y == op[h].to
  IN
  /\ At(h, "move") /\ file[x] # None
  /\ Go(h, IF op[h].kind = "delete" THEN "meta" ELSE "marker")
  /\ file' = Moved(file, x, y) /\ owner' = Moved(owner, x, y)
  /\ UNCHANGED <<sidecar, marker, trash, room, typed, past>>

WriteMetadata(h) ==
  /\ At(h, "meta") /\ Go(h, "marker")
  /\ entry' = [entry EXCEPT ![op[h].to] = op[h].from]
  /\ deleted' = [deleted EXCEPT ![op[h].to] = events]
  /\ UNCHANGED <<disk, expired, room, owner, typed, past>>

(* Metadata that cannot be written: the body goes back where it was. *)
WriteMetadataFails(h) ==
  /\ "io" \in Trouble /\ At(h, "meta") /\ End(h)
  /\ file' = Moved(file, op[h].to, op[h].from) /\ owner' = Moved(owner, op[h].to, op[h].from)
  /\ UNCHANGED <<sidecar, marker, trash, room, typed, past>>

(* Mutant of MoveMarker: the marker stays behind. *)
MoveMarkerSkipped(h) ==
  /\ At(h, "marker") /\ Go(h, "sidecar")
  /\ UNCHANGED <<disk, trash, room, owner, typed, past>>

(* relocate_sidecar: the marker, then the sidecar, each if there is one. *)
MoveMarker(h) ==
  /\ At(h, "marker") /\ Go(h, "sidecar")
  /\ marker' = IF marker[op[h].from] = None THEN marker ELSE Moved(marker, op[h].from, op[h].to)
  /\ UNCHANGED <<file, sidecar, trash, room, owner, typed, past>>

After(kind) ==
  CASE kind = "delete" -> "done" [] kind = "restore" -> "forget" [] kind = "rename" -> "write"

(* Mutant of MoveSidecar: the sidecar stays behind. *)
MoveSidecarSkipped(h) ==
  /\ At(h, "sidecar") /\ Go(h, After(op[h].kind))
  /\ UNCHANGED <<disk, trash, room, owner, typed, past>>

MoveSidecar(h) ==
  /\ At(h, "sidecar") /\ Go(h, After(op[h].kind))
  /\ sidecar' = IF sidecar[op[h].from] = None THEN sidecar
                ELSE Moved(sidecar, op[h].from, op[h].to)
  /\ UNCHANGED <<file, marker, trash, room, owner, typed, past>>

Forgotten(i) ==
  /\ entry' = [entry EXCEPT ![i] = None]
  /\ deleted' = [deleted EXCEPT ![i] = 0] /\ expired' = expired \ {i}

RemoveMetadata(h) ==
  /\ At(h, "forget") /\ Go(h, "done")
  /\ Forgotten(op[h].from)
  /\ UNCHANGED <<disk, room, owner, typed, past>>

(* write: the planned texts, one file after the other. *)
Write(h) ==
  /\ At(h, "write")
  /\ \E c \in op[h].plan :
       /\ file' = [file EXCEPT ![c.at] = c.text]
       /\ op' = [op EXCEPT ![h].plan = @ \ {c}]
       /\ owner' = IF owner[c.at] = None THEN [owner EXCEPT ![c.at] = op[h].note] ELSE owner
       /\ outdated' = outdated \cup
            (IF file[c.at] = None \/ room[c.at] # None THEN {}
             ELSE Shown(c.at).edits \ c.text.edits)
  /\ UNCHANGED <<sidecar, marker, trash, room, typed, cut, left>>

WriteDone(h) ==
  /\ At(h, "write") /\ op[h].plan = {} /\ Go(h, "done")
  /\ UNCHANGED <<disk, trash, room, owner, typed, past>>

Finish(h) ==
  /\ At(h, "done") /\ End(h)
  /\ UNCHANGED <<disk, trash, room, owner, typed, past>>

(* A call fails, or finds its file gone, and the request ends where it is. *)
Torn(h) == IF op[h].pc \in {"rest", "flush", "plan", "close", "move", "done"} THEN {}
           ELSE {op[h].note}
Strewn(h) == IF op[h].pc \in {"meta", "marker", "sidecar"} THEN {op[h].note} ELSE {}

Fail(h) ==
  /\ \/ "io" \in Trouble
     \/ op[h].pc \in {"plan", "move"} /\ file[op[h].from] = None
  /\ op[h].pc \notin {"rest", "meta", "done"}
  /\ End(h) /\ cut' = cut \cup Torn(h) /\ left' = left \cup Strewn(h)
  /\ UNCHANGED <<disk, trash, room, owner, typed, outdated>>

-----------------------------------------------------------------------------
(* Retention. *)
Expire(i) ==
  /\ entry[i] # None /\ i \notin expired
  /\ \A j \in Id : entry[j] # None /\ deleted[j] < deleted[i] => j \in expired
  /\ expired' = expired \cup {i}
  /\ UNCHANGED <<disk, entry, deleted, room, op, owner, typed, past>>

(* purge: body, marker, sidecar and last the metadata; it may get only
   `steps` calls far, and is taken up again by the next purge. *)
Purge(i, steps) ==
  /\ Quiet /\ i \in expired /\ entry[i] # None
  /\ steps = 4 \/ Trouble \cap {"io", "crash"} # {}
  /\ file' = [file EXCEPT ![i] = None] /\ owner' = [owner EXCEPT ![i] = None]
  /\ cut' = cut \cup ({owner[i]} \ {None})
  /\ marker' = IF steps >= 2 THEN [marker EXCEPT ![i] = None] ELSE marker
  /\ sidecar' = IF steps >= 3 THEN [sidecar EXCEPT ![i] = None] ELSE sidecar
  /\ IF steps = 4 THEN Forgotten(i) ELSE UNCHANGED trash
  /\ UNCHANGED <<room, op, typed, left, outdated>>

(* The process dies: rooms and requests are gone, the disk is as it is. *)
Crash ==
  /\ "crash" \in Trouble
  /\ room' = [p \in Path |-> None] /\ op' = [h \in Handler |-> Rest]
  /\ room' # room \/ op' # op
  /\ cut' = cut \cup UNION {Torn(h) : h \in Handler}
  /\ left' = left \cup UNION {Strewn(h) : h \in Handler}
  /\ UNCHANGED <<disk, trash, owner, typed, outdated>>

Step(h) ==
  \/ FlushOpen(h) \/ Plan(h) \/ Close(h) \/ Move(h) \/ WriteMetadata(h)
  \/ WriteMetadataFails(h) \/ MoveMarker(h) \/ MoveSidecar(h) \/ RemoveMetadata(h)
  \/ Write(h) \/ WriteDone(h) \/ Finish(h) \/ Fail(h)

Event == events < MaxEvents /\ events' = events + 1

Next ==
  \/ /\ UNCHANGED events
     /\ \/ \E p \in Path :
            \/ Open(p) \/ Flush(p) \/ Leave(p) \/ Inspect(p)
            \/ \E e \in Edit : Type(p, e)
            \/ \E q \in Target : Link(p, q)
        \/ \E h \in Handler : Step(h)
        \/ \E i \in Id : Expire(i) \/ \E steps \in 1..4 : Purge(i, steps)
  \/ /\ Event
     /\ \/ \E p \in Path, n \in Note : Create(p, n)
        \/ \E h \in Handler, p \in Path, i \in Id : Delete(h, p, i)
        \/ \E h \in Handler, i \in Id : Restore(h, i)
        \/ \E h \in Handler, p, q \in Path : Rename(h, p, q)
        \/ Crash

Spec == Init /\ [][Next]_vars
-----------------------------------------------------------------------------
AtRest == \A h \in Handler : op[h] = Rest

(* No note is at two places: neither a delete nor a rename leaves a copy behind, or
   has one written behind its back (trash.rs, the module's comment; SyncRegistry::close). *)
NoTwins ==
  \A x, y \in Place : owner[x] # None /\ owner[x] = owner[y] => x = y

(* What was accepted of a note can be opened or restored, however often the note
   went to the trash and back, was renamed, and the server died before it wrote the
   Markdown.  Lost is what the retention ended, what an interrupted request
   stranded, and what a text planned or imported without it was put over. *)
AcceptedSurvives ==
  AtRest => \A e \in Edit :
    \/ typed[e] \in cut \cup {None} \/ e \in outdated
    \/ \E x \in Place : /\ owner[x] = typed[e] /\ e \in Shown(x).edits
                        /\ x \in Id => entry[x] # None

(* Nobody is shown, at a path, what was typed into another note that used to be
   there (relocate_sidecar), also after requests that failed or were cut short
   elsewhere, and after purges.  The exception is a note whose marker or sidecar a
   failure or a crash left behind after its file had moved: a file with the bytes of
   that marker, put there later, is taken for the old one and shown its text. *)
NothingResurrected ==
  AtRest => \A p \in Live : \A e \in Shown(p).edits :
    typed[e] = owner[p] \/ typed[e] \in left

(* When a rename has answered, every link leads to the note it led to before, also
   one that was typed the moment before, and also through a note that links to
   itself (Rename::note). *)
LinksFollow ==
  \A h \in Handler : op[h].kind = "rename" /\ op[h].pc = "done" =>
    \A n \in Note : op[h].meant[n] # None =>
      \E l \in Live : /\ owner[l] = n /\ file[l].link \in Live
                      /\ owner[file[l].link] = op[h].meant[n]
=============================================================================
